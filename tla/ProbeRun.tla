------------------------------ MODULE ProbeRun ------------------------------
(***************************************************************************)
(* The commands of tools/nrfkit_tools/cli.py that work on one board through *)
(* one debug probe: flash, reset, run, gdb-smoke and the USB gates. Several *)
(* of them may be started at the same time, by users or by a gate.         *)
(*                                                                         *)
(* A command is a sequence of steps (Plan). Its vendor programs (nrfutil,  *)
(* the GDB server) run in sessions of their own (start_new_session), so a  *)
(* signal that ends the command does not end them. Every step may raise:   *)
(* Raise(p) is a ToolError, an OSError, a timeout of run_logged() or a     *)
(* KeyboardInterrupt, after which the finally clauses run. Killed(p) is a  *)
(* SIGTERM, for which Python has no handler: nothing more runs.            *)
(*                                                                         *)
(* An image file has the content its manifest names or, while a build is   *)
(* rewriting it, another one. The firmware of a manifest prints its token  *)
(* once after each reset.                                                  *)
(***************************************************************************)
EXTENDS Naturals, Sequences

CONSTANTS
    Procs,       \* commands that may be started
    Manifests,   \* image manifests, each with its own token
    NImages,     \* programming images of a manifest
    SigTerm,     \* commands may be killed by SIGTERM
    Torn, Other, \* contents of an image region: half written; not of a manifest
    NoProc

ASSUME ProbeRunAssumption ==
    /\ NImages \in Nat \ {0} /\ Manifests # {}
    /\ SigTerm \in BOOLEAN
    /\ Torn \notin Manifests /\ Other \notin Manifests /\ Torn # Other
    /\ NoProc \notin Procs

Images == 1..NImages
Ops    == {"flash", "reset", "run", "gdb", "debug", "usb"}

VARIABLES
    op, want,    \* command line of each process: operation and manifest
    pc,          \* next step of each process
    err,         \* an exception is on its way out
    report,      \* "status" in run.json of each process
    snapshot,    \* contents of the read-only copies
    programmed,  \* number of images programmed
    heard,       \* tokens in the transcript, with when they were printed
    was_reset,   \* a vendor program of the process has reset the board
    tool,        \* vendor program of each process
    lock,        \* holder of the flock on the probe's lock file
    tty,         \* holder of the VCOM (TIOCEXCL)
    changed,     \* image files that differ from their manifest
    board,       \* contents of the image regions
    running,     \* contents the CPU was last reset into
    burst,       \* the token of this boot is still to be printed
    buffered     \* tokens printed while nobody held the VCOM

procVars  == <<op, want, pc, err, report, snapshot, programmed, heard, was_reset>>
boardVars == <<board, running, burst, buffered>>
vars == <<procVars, boardVars, tool, lock, tty, changed>>

NoTool == [job |-> "none", busy |-> FALSE]

Steps == {"load", "select", "lock", "snapshot", "program", "serial", "server", "gdb",
          "reset", "token", "stop", "unlock", "validate", "close"}

Init ==
    /\ op = [p \in Procs |-> "flash"] /\ want = [p \in Procs |-> CHOOSE m \in Manifests : TRUE]
    /\ pc = [p \in Procs |-> "idle"] /\ err = [p \in Procs |-> FALSE]
    /\ report = [p \in Procs |-> "none"]
    /\ snapshot = [p \in Procs |-> [i \in Images |-> Other]]
    /\ programmed = [p \in Procs |-> 0]
    /\ heard = [p \in Procs |-> {}] /\ was_reset = [p \in Procs |-> FALSE]
    /\ tool = [p \in Procs |-> NoTool]
    /\ lock = NoProc /\ tty = NoProc /\ changed = {}
    /\ \E c \in Manifests \cup {Other} : board = [i \in Images |-> c]
    /\ running = board
    /\ burst = FALSE /\ buffered = {}

\* Mutant of RunPlan: the board is reset before the serial port is read.
MutantResetFirst == <<"load", "select", "lock", "snapshot", "program", "reset", "serial",
                      "token", "unlock", "close">>

-----------------------------------------------------------------------------
(***************************************************************************)
(* The order of the steps of each command; "gdb" is gdb-smoke with         *)
(* --verify-token, "debug" is gdb-smoke without.                           *)
(***************************************************************************)
RunPlan == <<"load", "select", "lock", "snapshot", "program", "serial", "reset",
             "token", "unlock", "close">>

Plan(o) ==
    CASE o = "flash" -> <<"load", "select", "lock", "snapshot", "program", "unlock", "close">>
      [] o = "reset" -> <<"load", "select", "lock", "reset", "unlock", "close">>
      [] o = "run"   -> RunPlan
      [] o = "gdb"   -> <<"load", "select", "lock", "serial", "server", "gdb", "token",
                          "stop", "unlock", "close">>
      [] o = "debug" -> <<"load", "select", "lock", "server", "gdb", "stop", "unlock", "close">>
      [] o = "usb"   -> <<"load", "select", "lock", "snapshot", "program", "reset", "unlock",
                          "validate", "close">>

After(o, step) == LET i == CHOOSE j \in DOMAIN Plan(o) : Plan(o)[j] = step
                  IN  Plan(o)[i + 1]

Advance(p) == pc' = [pc EXCEPT ![p] = After(op[p], pc[p])]

Body(p) == pc[p] \notin {"idle", "unlock", "close", "ended", "killed"}

\* The vendor program of p is working on the probe.
Busy(p) == tool[p].job \in {"program", "reset", "server"}

(***************************************************************************)
(* Steps of a command                                                      *)
(***************************************************************************)
\* The command line: which operation on which manifest.
Start(p, o, m) ==
    /\ pc[p] = "idle"
    /\ op' = [op EXCEPT ![p] = o] /\ want' = [want EXCEPT ![p] = m]
    /\ pc' = [pc EXCEPT ![p] = "load"] /\ report' = [report EXCEPT ![p] = "running"]
    /\ UNCHANGED <<err, snapshot, programmed, heard, was_reset, boardVars, tool, lock, tty,
                   changed>>

\* load_manifest() hashes every artifact.
Load(p) ==
    /\ pc[p] = "load"
    /\ \A i \in Images : <<want[p], i>> \notin changed
    /\ Advance(p)
    /\ UNCHANGED <<op, want, err, report, snapshot, programmed, heard, was_reset, boardVars,
                   tool, lock, tty, changed>>

\* Enumeration and the choice of one probe do not touch the target.
Select(p) ==
    /\ pc[p] = "select"
    /\ Advance(p)
    /\ UNCHANGED <<op, want, err, report, snapshot, programmed, heard, was_reset, boardVars,
                   tool, lock, tty, changed>>

\* flock(LOCK_EX | LOCK_NB); a contended lock raises.
Lock(p) ==
    /\ pc[p] = "lock"
    /\ lock = NoProc
    /\ lock' = p
    /\ Advance(p)
    /\ UNCHANGED <<op, want, err, report, snapshot, programmed, heard, was_reset, boardVars,
                   tool, tty, changed>>

Content(m, i) == IF <<m, i>> \in changed THEN Other ELSE m

\* Mutant of Snapshot: the copied images are not compared with the manifest.
MutantSnapshotUnchecked(p) ==
    /\ pc[p] = "snapshot"
    /\ snapshot' = [snapshot EXCEPT ![p] = [i \in Images |-> Content(want[p], i)]]
    /\ Advance(p)
    /\ UNCHANGED <<op, want, err, report, programmed, heard, was_reset, boardVars, tool, lock,
                   tty, changed>>

\* The copy is hashed again: a file that changed since load_manifest() raises.
Snapshot(p) ==
    /\ pc[p] = "snapshot"
    /\ snapshot' = [snapshot EXCEPT ![p] = [i \in Images |-> Content(want[p], i)]]
    /\ \A i \in Images : snapshot'[p][i] = want[p]
    /\ Advance(p)
    /\ UNCHANGED <<op, want, err, report, programmed, heard, was_reset, boardVars, tool, lock,
                   tty, changed>>

\* run_logged() starts a vendor program: job j.
Spawn(p, j) == tool' = [tool EXCEPT ![p] = [job |-> j, busy |-> FALSE]]

StepJob(step) == CASE step = "program" -> "program"
                   [] step = "reset"   -> "reset"
                   [] step = "server"  -> "server"
                   [] OTHER            -> "none"

SpawnTool(p) ==
    /\ pc[p] \in {"program", "reset", "server"}
    /\ tool[p] = NoTool
    /\ Spawn(p, StepJob(pc[p]))
    /\ UNCHANGED <<procVars, boardVars, lock, tty, changed>>

\* nrfutil returned 0. The next image, or the next step.
Program(p) ==
    /\ pc[p] = "program" /\ tool[p].job = "exited"
    /\ programmed' = [programmed EXCEPT ![p] = @ + 1]
    /\ tool' = [tool EXCEPT ![p] = NoTool]
    /\ IF programmed'[p] = NImages THEN Advance(p) ELSE UNCHANGED pc
    /\ UNCHANGED <<op, want, err, report, snapshot, heard, was_reset, boardVars, lock, tty,
                   changed>>

Reset(p) ==
    /\ pc[p] = "reset" /\ tool[p].job = "exited"
    /\ tool' = [tool EXCEPT ![p] = NoTool]
    /\ Advance(p)
    /\ UNCHANGED <<op, want, err, report, snapshot, programmed, heard, was_reset, boardVars,
                   lock, tty, changed>>

\* _serial_open() discards what was received before, then _serial_reader()
\* collects everything. A VCOM held by somebody else raises.
Serial(p) ==
    /\ pc[p] = "serial"
    /\ tty = NoProc
    /\ tty' = p /\ buffered' = {}
    /\ Advance(p)
    /\ UNCHANGED <<op, want, err, report, snapshot, programmed, heard, was_reset, board,
                   running, burst, tool, lock, changed>>

\* gdb-smoke: the server accepts connections.
ServerReady(p) ==
    /\ pc[p] = "server" /\ tool[p].job = "server"
    /\ Advance(p)
    /\ UNCHANGED <<op, want, err, report, snapshot, programmed, heard, was_reset, boardVars,
                   tool, lock, tty, changed>>

\* gdb-smoke: the client resets the target and lets it run to its markers.
Gdb(p) ==
    /\ pc[p] = "gdb"
    /\ running' = board /\ burst' = TRUE
    /\ was_reset' = [was_reset EXCEPT ![p] = TRUE]
    /\ Advance(p)
    /\ UNCHANGED <<op, want, err, report, snapshot, programmed, heard, board, buffered, tool,
                   lock, tty, changed>>

\* The expected token is in the transcript. A timeout raises.
Token(p) ==
    /\ pc[p] = "token"
    /\ \E when \in {"before", "open", "reset"} : <<want[p], when>> \in heard[p]
    /\ Advance(p)
    /\ UNCHANGED <<op, want, err, report, snapshot, programmed, heard, was_reset, boardVars,
                   tool, lock, tty, changed>>

\* The end of the server's group, waited for, before the lock is released.
StopServer(p) ==
    /\ pc[p] = "stop"
    /\ tool' = [tool EXCEPT ![p] = NoTool]
    /\ Advance(p)
    /\ UNCHANGED <<op, want, err, report, snapshot, programmed, heard, was_reset, boardVars,
                   lock, tty, changed>>

Unlock(p) ==
    /\ pc[p] = "unlock"
    /\ lock' = NoProc
    /\ pc' = [pc EXCEPT ![p] = IF err[p] THEN "close" ELSE After(op[p], "unlock")]
    /\ UNCHANGED <<op, want, err, report, snapshot, programmed, heard, was_reset, boardVars,
                   tool, tty, changed>>

\* The USB checks run on the host, without the lock.
Validate(p) ==
    /\ pc[p] = "validate"
    /\ Advance(p)
    /\ UNCHANGED <<op, want, err, report, snapshot, programmed, heard, was_reset, boardVars,
                   tool, lock, tty, changed>>

\* _serial_cleanup() and the final report; closed tells whether it succeeded.
FinalStatus(p, closed) == IF err[p] \/ ~closed THEN "failed" ELSE "ok"

Close(p, closed) ==
    /\ pc[p] = "close"
    /\ closed \/ tty = p
    /\ tty' = IF tty = p /\ closed THEN NoProc ELSE tty
    /\ report' = [report EXCEPT ![p] = FinalStatus(p, closed)]
    /\ pc' = [pc EXCEPT ![p] = "ended"]
    /\ UNCHANGED <<op, want, err, snapshot, programmed, heard, was_reset, boardVars, tool, lock,
                   changed>>

\* Mutant of Raise: the vendor program is not waited for on the way out.
MutantRaiseNoWait(p) ==
    /\ Body(p)
    /\ err' = [err EXCEPT ![p] = TRUE]
    /\ pc' = [pc EXCEPT ![p] = IF lock = p THEN "unlock" ELSE "close"]
    /\ UNCHANGED <<op, want, report, snapshot, programmed, heard, was_reset, boardVars, tool,
                   lock, tty, changed>>

\* An exception: run_logged() ends the group of its program and waits for it
\* (_terminate_group()), gdb-smoke that of its server; then the lock goes.
Raise(p) ==
    /\ Body(p)
    /\ err' = [err EXCEPT ![p] = TRUE]
    /\ tool' = [tool EXCEPT ![p] = NoTool]
    /\ pc' = [pc EXCEPT ![p] = IF lock = p THEN "unlock" ELSE "close"]
    /\ UNCHANGED <<op, want, report, snapshot, programmed, heard, was_reset, boardVars, lock,
                   tty, changed>>

\* SIGTERM, as _terminate_group() of a gate sends it to the group of p. The
\* kernel releases lock and VCOM; the vendor program is in another session.
Killed(p) ==
    /\ SigTerm
    /\ pc[p] \notin {"idle", "ended", "killed"}
    /\ pc' = [pc EXCEPT ![p] = "killed"]
    /\ lock' = IF lock = p THEN NoProc ELSE lock
    /\ tty' = IF tty = p THEN NoProc ELSE tty
    /\ UNCHANGED <<op, want, err, report, snapshot, programmed, heard, was_reset, boardVars,
                   tool, changed>>

-----------------------------------------------------------------------------
(***************************************************************************)
(* Vendor programs, the board and the builds                               *)
(***************************************************************************)
NextImage(p) == programmed[p] + 1

ToolBegins(p) ==
    /\ tool[p].job \in {"program", "reset"} /\ ~tool[p].busy
    /\ tool' = [tool EXCEPT ![p].busy = TRUE]
    /\ board' = IF tool[p].job = "program" THEN [board EXCEPT ![NextImage(p)] = Torn] ELSE board
    /\ UNCHANGED <<procVars, running, burst, buffered, lock, tty, changed>>

\* The program verifies what it wrote (VERIFY_READ) and does not reset.
ToolEnds(p) ==
    /\ tool[p].job \in {"program", "reset"} /\ tool[p].busy
    /\ tool' = [tool EXCEPT ![p] = [job |-> "exited", busy |-> FALSE]]
    /\ IF tool[p].job = "program"
       THEN /\ board' = [board EXCEPT ![NextImage(p)] = snapshot[p][NextImage(p)]]
            /\ UNCHANGED <<running, burst, was_reset>>
       ELSE /\ running' = board /\ burst' = TRUE
            /\ was_reset' = [was_reset EXCEPT ![p] = TRUE]
            /\ UNCHANGED board
    /\ UNCHANGED <<op, want, pc, err, report, snapshot, programmed, heard, buffered, lock, tty,
                   changed>>

\* An orphan that ends without having done its work, or a server nobody uses.
OrphanExits(p) ==
    /\ pc[p] = "killed" /\ tool[p] # NoTool
    /\ tool' = [tool EXCEPT ![p] = NoTool]
    /\ UNCHANGED <<procVars, boardVars, lock, tty, changed>>

\* The firmware prints its token, once per boot, unless the core is halted.
EmitToken ==
    /\ burst
    /\ ~\E p \in Procs : tool[p].busy
    /\ \E m \in Manifests :
          /\ \A i \in Images : running[i] = m
          /\ IF tty = NoProc
             THEN buffered' = buffered \cup {m} /\ UNCHANGED heard
             ELSE /\ heard' = [heard EXCEPT ![tty] =
                                 @ \cup {<<m, IF was_reset[tty] THEN "reset" ELSE "open">>}]
                  /\ UNCHANGED buffered
    /\ burst' = FALSE
    /\ UNCHANGED <<op, want, pc, err, report, snapshot, programmed, was_reset, board, running,
                   tool, lock, tty, changed>>

\* A build rewrites an image file; a later one may restore its content.
Rebuild(m, i) ==
    /\ changed' = IF <<m, i>> \in changed THEN changed \ {<<m, i>>} ELSE changed \cup {<<m, i>>}
    /\ UNCHANGED <<procVars, boardVars, tool, lock, tty>>

Step(p) ==
    \/ Load(p) \/ Select(p) \/ Lock(p) \/ Snapshot(p) \/ SpawnTool(p) \/ Program(p)
    \/ Serial(p) \/ ServerReady(p) \/ Gdb(p) \/ Reset(p) \/ Token(p) \/ StopServer(p)
    \/ Unlock(p) \/ Validate(p) \/ Raise(p)
    \/ \E closed \in BOOLEAN : Close(p, closed)

Device(p) == ToolBegins(p) \/ ToolEnds(p) \/ OrphanExits(p)

Next ==
    \/ \E p \in Procs : Step(p) \/ Device(p) \/ Killed(p)
    \/ \E p \in Procs, o \in Ops, m \in Manifests : Start(p, o, m)
    \/ EmitToken
    \/ \E m \in Manifests, i \in Images : Rebuild(m, i)

Spec == Init /\ [][Next]_vars

-----------------------------------------------------------------------------
(***************************************************************************)
(* Properties                                                              *)
(***************************************************************************)

\* Whatever reached the board was hashed against a manifest before: the copies
\* that nrfutil reads are checked after the copy (_snapshot_hexes).
OnlyAudited == [][\A i \in Images : board'[i] # board[i] =>
                     board'[i] \in Manifests \cup {Torn}]_vars

\* A reset after the serial port is read: the token of that boot cannot be
\* lost, however early it is printed (command_run's order of steps).
BurstNotLost ==
    \A p \in Procs :
        pc[p] = "token" /\ op[p] = "run" /\ ~burst /\ (\A i \in Images : running[i] = want[p])
        => <<want[p], "reset">> \in heard[p]
=============================================================================
