------------------------------- MODULE OpenOcd ------------------------------
(***************************************************************************)
(* The guarded OpenOCD backend (tools/nrfkit_tools/openocd_cli.py and      *)
(* openocd.py): backup, flash, restore, clear-rram, reset and gdb-smoke,   *)
(* one command at a time (the probe lock).                                 *)
(*                                                                         *)
(* A command is a sequence of OpenOCD sessions. A session works on the     *)
(* board that is connected when it starts; between two sessions somebody   *)
(* may connect another board. A session may fail with a region half        *)
(* written. A dump may be disturbed, so that one of two reads is wrong.    *)
(***************************************************************************)
EXTENDS Naturals, FiniteSets

CONSTANTS
    Boards,          \* LM20 boards that may be connected to the probe
    MaxCommands,     \* bound on the number of commands
    SwapInRestore    \* another board may be connected inside a restore

ConstantsOk ==
    /\ Boards # {} /\ MaxCommands \in Nat \ {0} /\ SwapInRestore \in BOOLEAN

Regions   == {"image", "settings", "other"}
Commands  == {"backup", "flash", "clear", "reset", "gdb"}

NoReport == [status |-> "none", state |-> "unknown", claim |-> "none"]

VARIABLES
    memory,     \* contents of the regions of each board
    cpu,        \* halted or running
    connected,  \* board on the probe
    published,  \* backups of successful reports: their board and its regions' data
    cmd, pc,
    ranges,     \* regions that the command may touch (manifest, --include-settings)
    chosen,     \* --backup-report
    dump,       \* data read twice, with the board it came from
    report,     \* "status", target_state and the verified claim of the command
    reported,   \* report["target"]
    server,     \* the OpenOCD GDB server runs
    destroyed,  \* contents that clear-rram destroyed
    commands    \* commands started

vars == <<memory, cpu, connected, published, cmd, pc, ranges, chosen, dump, report,
          reported, server, destroyed, commands>>

Init ==
    /\ memory = [b \in Boards |-> [r \in Regions |-> "original"]]
    /\ cpu = [b \in Boards |-> "running"]
    /\ connected \in Boards /\ reported = connected
    /\ published = {}
    /\ cmd = "none" /\ pc = "idle" /\ ranges = {} /\ chosen = {} /\ dump = {}
    /\ report = NoReport /\ server = FALSE /\ destroyed = {} /\ commands = 0

Part(b, rs) == [r \in rs |-> memory[b][r]]

Here == connected

-----------------------------------------------------------------------------
(***************************************************************************)
(* Starting and ending a command                                           *)
(***************************************************************************)
First(c) == CASE c \in {"backup", "clear"} -> "dump"
              [] c = "flash"   -> "write"
              [] c = "reset"   -> "reset"
              [] c = "gdb"     -> "server"

\* The regions of an audited manifest, with --include-settings, or of the
\* separately reviewed manifest that covers the whole bank.
Start(c, rs) ==
    /\ pc = "idle" /\ commands < MaxCommands
    /\ c = "clear" => rs = Regions
    /\ c \in {"flash", "reset", "gdb"} => rs = {"image"}
    /\ cmd' = c /\ pc' = First(c) /\ ranges' = rs /\ commands' = commands + 1
    /\ report' = NoReport /\ dump' = {} /\ chosen' = {}
    /\ UNCHANGED <<memory, cpu, connected, published, reported, server, destroyed>>

\* _restore(): a successful backup (its artifacts are unchanged, else the hashes of
\* their copies raise) whose ranges the manifest of this command allows.
StartRestore(rs) ==
    /\ pc = "idle" /\ commands < MaxCommands
    /\ \E k \in published : DOMAIN k.data \subseteq rs /\ chosen' = {k}
    /\ cmd' = "restore" /\ pc' = "identify" /\ ranges' = rs /\ commands' = commands + 1
    /\ report' = NoReport /\ dump' = {}
    /\ UNCHANGED <<memory, cpu, connected, published, reported, server, destroyed>>

Succeed(state, claim) ==
    /\ report' = [status |-> "ok", state |-> state, claim |-> claim]
    /\ pc' = "idle"

(***************************************************************************)
(* Sessions                                                                *)
(***************************************************************************)
\* What a dump may return; of two reads at most one is disturbed.
Reads == {Part(Here, ranges), [r \in ranges |-> "noise"]}

\* halt and two dumps of every merged range; reads that differ raise.
Dump(first, second) ==
    /\ pc = "dump"
    /\ Part(Here, ranges) \in {first, second} /\ first = second
    /\ cpu' = [cpu EXCEPT ![Here] = "halted"]
    /\ reported' = Here
    /\ dump' = {[target |-> Here, data |-> first]}
    /\ report' = [report EXCEPT !.state = "halted"]
    /\ pc' = "publish"
    /\ UNCHANGED <<memory, connected, published, cmd, ranges, chosen, server, destroyed,
                   commands>>

\* The HEX files and the report; clear-rram publishes backup.json and goes on.
Publish ==
    /\ pc = "publish"
    /\ published' = published \cup dump
    /\ IF cmd = "backup" THEN Succeed("halted", "none")
       ELSE /\ report' = [report EXCEPT !.state = "unverified"]
            /\ pc' = "clear"
    /\ UNCHANGED <<memory, cpu, connected, cmd, ranges, chosen, dump, reported,
                   server, destroyed, commands>>

\* The session writes region r of the connected board.
Overwrite(r, c) == memory' = [memory EXCEPT ![Here][r] = c]

\* The identity guard, halt and the first writes, all in one session.
ClearBegins ==
    /\ pc = "clear"
    /\ reported = Here
    /\ destroyed' = destroyed \cup {[target |-> Here, data |-> Part(Here, Regions)]}
    /\ memory' = [memory EXCEPT ![Here] = [r \in Regions |-> "half"]]
    /\ cpu' = [cpu EXCEPT ![Here] = "halted"]
    /\ pc' = "clearing"
    /\ UNCHANGED <<connected, published, cmd, ranges, chosen, dump, report,
                   reported, server, commands>>

\* verify_image, the full dump and its comparison with FF.
ClearEnds ==
    /\ pc = "clearing"
    /\ memory' = [memory EXCEPT ![Here] = [r \in Regions |-> "erased"]]
    /\ Succeed("halted", "cleared")
    /\ UNCHANGED <<cpu, connected, published, cmd, ranges, chosen, dump, reported,
                   server, destroyed, commands>>

\* flash write_image begins with a region of the image.
FlashBegins ==
    /\ pc = "write"
    /\ reported' = Here
    /\ Overwrite("image", "half")
    /\ cpu' = [cpu EXCEPT ![Here] = "halted"]
    /\ pc' = "writing"
    /\ UNCHANGED <<connected, published, cmd, ranges, chosen, dump, report, server,
                   destroyed, commands>>

FlashEnds ==
    /\ pc = "writing"
    /\ Overwrite("image", "firmware")
    /\ Succeed("halted", "none")
    /\ UNCHANGED <<cpu, connected, published, cmd, ranges, chosen, dump, reported,
                   server, destroyed, commands>>

\* Mutant of RestoreIdentify: the device id is not compared with the backup.
MutantRestoreIdentify ==
    /\ pc = "identify"
    /\ reported' = Here
    /\ pc' = "restore"
    /\ UNCHANGED <<memory, cpu, connected, published, cmd, ranges, chosen, dump,
                   report, server, destroyed, commands>>

\* The session restore-identity: the backup's board is connected.
RestoreIdentify ==
    /\ pc = "identify"
    /\ \A k \in chosen : k.target = Here
    /\ reported' = Here
    /\ pc' = "restore"
    /\ UNCHANGED <<memory, cpu, connected, published, cmd, ranges, chosen, dump,
                   report, server, destroyed, commands>>

\* The session restore: it accepts every LM20.
RestoreBegins ==
    /\ pc = "restore"
    /\ \E k \in chosen : memory' = [memory EXCEPT ![Here] =
          [r \in Regions |-> IF r \in DOMAIN k.data THEN "half" ELSE memory[Here][r]]]
    /\ cpu' = [cpu EXCEPT ![Here] = "halted"]
    /\ pc' = "restoring"
    /\ UNCHANGED <<connected, published, cmd, ranges, chosen, dump, report,
                   reported, server, destroyed, commands>>

RestoreEnds ==
    /\ pc = "restoring"
    /\ \E k \in chosen : memory' = [memory EXCEPT ![Here] =
          [r \in Regions |-> IF r \in DOMAIN k.data THEN k.data[r] ELSE memory[Here][r]]]
    /\ Succeed("halted", "restored")
    /\ UNCHANGED <<cpu, connected, published, cmd, ranges, chosen, dump, reported,
                   server, destroyed, commands>>

\* The checked system reset halts at the vector; without --halt it then resumes.
ResetBegins(halt) ==
    /\ pc = "reset"
    /\ reported' = Here
    /\ cpu' = [cpu EXCEPT ![Here] = "halted"]
    /\ pc' = IF halt THEN "halted" ELSE "resume"
    /\ UNCHANGED <<memory, connected, published, cmd, ranges, chosen, dump, report, server,
                   destroyed, commands>>

ResetEnds ==
    /\ pc \in {"halted", "resume"}
    /\ cpu' = [cpu EXCEPT ![Here] = IF pc = "halted" THEN "halted" ELSE "running"]
    /\ Succeed(cpu'[Here], "none")
    /\ UNCHANGED <<memory, connected, published, cmd, ranges, chosen, dump, reported, server,
                   destroyed, commands>>

\* gdb-smoke: the server listens, GDB halts, observes and resumes.
GdbServer ==
    /\ pc = "server"
    /\ server' = TRUE
    /\ pc' = "client"
    /\ UNCHANGED <<memory, cpu, connected, published, cmd, ranges, chosen, dump,
                   report, reported, destroyed, commands>>

GdbHalts ==
    /\ pc = "client"
    /\ cpu' = [cpu EXCEPT ![Here] = "halted"]
    /\ pc' = "observe"
    /\ UNCHANGED <<memory, connected, published, cmd, ranges, chosen, dump, report,
                   reported, server, destroyed, commands>>

GdbResumes ==
    /\ pc = "observe"
    /\ cpu' = [cpu EXCEPT ![Here] = "running"]
    /\ server' = FALSE
    /\ reported' = Here
    /\ Succeed("running", "none")
    /\ UNCHANGED <<memory, connected, published, cmd, ranges, chosen, dump,
                   destroyed, commands>>

\* A session fails, a check raises, or an interrupt: the server's group is ended,
\* the report keeps what it claimed so far.
Fail ==
    /\ pc # "idle"
    /\ report' = [report EXCEPT !.status = "failed"]
    /\ server' = FALSE
    /\ pc' = "idle"
    /\ UNCHANGED <<memory, cpu, connected, published, cmd, ranges, chosen, dump,
                   reported, destroyed, commands>>

\* Another board is connected, never inside a session. The report of an earlier
\* command does not speak about it.
InSession == pc \in {"clearing", "writing", "restoring", "client", "observe", "halted", "resume"}

Swap ==
    /\ ~InSession
    /\ pc = "restore" => SwapInRestore
    /\ connected' \in Boards \ {connected}
    /\ UNCHANGED <<memory, cpu, published, cmd, pc, ranges, chosen, dump, report,
                   reported, server, destroyed, commands>>

Command ==
    \/ \E first, second \in Reads : Dump(first, second)
    \/ Publish \/ ClearBegins \/ ClearEnds \/ FlashBegins \/ FlashEnds
    \/ RestoreIdentify \/ RestoreBegins \/ RestoreEnds
    \/ \E halt \in BOOLEAN : ResetBegins(halt)
    \/ ResetEnds
    \/ GdbServer \/ GdbHalts \/ GdbResumes \/ Fail

Next ==
    \/ \E rs \in {{"image"}, {"image", "settings"}, Regions} :
          \/ \E c \in Commands : Start(c, rs)
          \/ StartRestore(rs)
    \/ Command \/ Swap

Spec == Init /\ [][Next]_vars

-----------------------------------------------------------------------------
\* What clear-rram destroyed is in a published backup of the same board, whatever
\* failed and whichever board was connected meanwhile.
ClearRecoverable == destroyed \subseteq published

\* The claims of the last report hold for the board that it names: restored bytes
\* are those of the backup, which is one of that board, and cleared is erased.
ClaimsHold ==
    pc = "idle" =>
        /\ report.claim = "restored" =>
              \A k \in chosen : /\ k.target = reported
                                /\ Part(reported, DOMAIN k.data) = k.data
        /\ report.claim = "cleared" =>
              \A r \in Regions : memory[reported][r] = "erased"

\* The target state of the last report is that of the CPU it names, also when the
\* command failed inside a session that had halted or resumed it.
StateHolds ==
    pc = "idle" /\ report.state \in {"halted", "running"} => cpu[reported] = report.state
=============================================================================
