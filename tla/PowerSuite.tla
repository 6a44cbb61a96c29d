------------------------------ MODULE PowerSuite ----------------------------
(***************************************************************************)
(* blu939-suite (tools/nrfkit_tools/power_suite_cli.py): with the target   *)
(* supplied by a BLU939, back up target and peer board, and for every      *)
(* profile flash the target, start the peer, cold-start the target by a    *)
(* supply cycle, capture, observe and switch off; then, whatever happened, *)
(* switch off and restore both boards.                                     *)
(*                                                                         *)
(* A command of the instrument has two moments: its bytes are written, and *)
(* the call returns. With LateErrors an error or an interrupt may come     *)
(* between the two (flush(), KeyboardInterrupt).                           *)
(***************************************************************************)
EXTENDS Naturals, Sequences

CONSTANTS
    Profiles,    \* number of profiles
    Peers,       \* profiles that need the peer
    LateErrors   \* a call may raise after its bytes were written

ConstantsOk ==
    Profiles \in Nat \ {0} /\ Peers \subseteq 1..Profiles /\ LateErrors \in BOOLEAN

VARIABLES
    pc, profile,
    sent,              \* the bytes of the current instrument command are out
    output, output_on, \* supply output; the flag of the program
    port,              \* the instrument's port is open
    target, cpu,       \* contents of the target: Original, Half or a profile; its CPU
    peer,              \* contents of the peer board
    peer_process,      \* none, programming, programmed, ready, passed, failed or late
    orphaned,          \* the peer was killed while its nrfutil was programming
    backup_report, peer_backup,
    captured,          \* profiles whose capture is of their own cold-started firmware
    operation_error, restore_error, peer_restore_error,
    off_error,         \* output_off_error or restore_output_off_error is reported
    status

Original == 0
Half     == Profiles + 1

boards == <<target, cpu, peer, peer_process, orphaned>>
errors == <<operation_error, restore_error, peer_restore_error, off_error>>
vars == <<pc, profile, sent, output, output_on, port, boards, backup_report, peer_backup,
          captured, errors, status>>

Init ==
    /\ pc = "args" /\ profile = 1 /\ sent = FALSE
    /\ output = FALSE /\ output_on = FALSE /\ port = FALSE
    /\ target = Original /\ cpu = "off"
    /\ peer = "original" /\ peer_process = "none" /\ orphaned = FALSE
    /\ backup_report = FALSE /\ peer_backup = FALSE /\ captured = {}
    /\ operation_error = FALSE /\ restore_error = FALSE /\ peer_restore_error = FALSE
    /\ off_error = FALSE /\ status = "running"

-----------------------------------------------------------------------------
(***************************************************************************)
(* The order of the steps                                                  *)
(***************************************************************************)
Restoring     == {"r_open", "r_off", "r_volt", "r_on", "r_restore", "r_off2"}
PeerRestoring == {"p_program", "p_verify", "p_reset"}
Cleanup       == {"f_peer", "f_off", "f_close", "rf_off", "rf_close", "report"}
Ended         == {"done", "aborted"}
Body(l)       == l \notin Restoring \cup PeerRestoring \cup Cleanup \cup Ended

Prologue == <<"args", "open", "off0", "volt", "on0", "backup", "peer_backup", "on", "flash",
              "peer", "peer_ready", "cycle_off", "cycle_on", "capture", "observe", "off", "peer_join">>

Restore  == <<"r_open", "r_off", "r_volt", "r_on", "r_restore", "r_off2", "rf_off", "rf_close">>
PeerPart == <<"p_program", "p_verify", "p_reset", "report", "done">>

Successor(s, l) == LET i == CHOOSE j \in DOMAIN s : s[j] = l IN s[i + 1]

AfterRestore == IF peer_backup THEN "p_program" ELSE "report"

\* Mutant of AfterClose: a failed suite skips the restoration of the target.
MutantAfterClose == IF operation_error THEN AfterRestore ELSE "r_open"

AfterClose == IF backup_report THEN "r_open" ELSE AfterRestore

Follow(l) ==
    CASE l = "peer_join" -> IF profile < Profiles THEN "on" ELSE "f_peer"
      [] l = "f_peer"    -> "f_off"
      [] l = "f_off"     -> "f_close"
      [] l = "f_close"   -> AfterClose
      [] l = "rf_close"  -> AfterRestore
      [] l \in {Restore[i] : i \in 1..7} -> Successor(Restore, l)
      [] l \in {PeerPart[i] : i \in 1..4} -> Successor(PeerPart, l)
      [] OTHER           -> Successor(Prologue, l)

Advance == pc' = Follow(pc) /\ sent' = FALSE

(***************************************************************************)
(* The instrument                                                          *)
(***************************************************************************)
OnSteps  == {"on0", "on", "cycle_on", "r_on"}
OffSteps == {"off0", "cycle_off", "off", "r_off", "r_off2"}

\* `if not output_on` before a profile.
Skipped == pc = "on" /\ output_on

\* Profiles, durations, peers and all manifests are valid; the child command lines.
Validate ==
    /\ pc = "args"
    /\ Advance
    /\ UNCHANGED <<profile, output, output_on, port, boards, backup_report, peer_backup,
                   captured, errors, status>>

\* Blu939(port), metadata().
Open ==
    /\ pc \in {"open", "r_open"}
    /\ port' = TRUE
    /\ Advance
    /\ UNCHANGED <<profile, output, output_on, boards, backup_report, peer_backup, captured,
                   errors, status>>

\* power(): the supply changes; a target that gets power starts its firmware.
PowerWrite ==
    /\ pc \in OnSteps \cup OffSteps /\ ~Skipped /\ ~sent
    /\ sent' = TRUE
    /\ output' = (pc \in OnSteps)
    /\ cpu' = IF pc \in OffSteps THEN "off" ELSE IF cpu = "off" THEN "running" ELSE cpu
    /\ UNCHANGED <<pc, profile, output_on, port, target, peer, peer_process, orphaned,
                   backup_report, peer_backup, captured, errors, status>>

\* power() returned and the program keeps its flag.
PowerReturn ==
    /\ pc \in OnSteps \cup OffSteps
    /\ sent \/ Skipped
    /\ output_on' = IF pc \in OnSteps THEN TRUE
                    ELSE IF pc \in {"off", "r_off2"} THEN FALSE ELSE output_on
    /\ Advance
    /\ UNCHANGED <<profile, output, port, boards, backup_report, peer_backup, captured,
                   errors, status>>

\* configure_voltage() reads the setting back.
Voltage ==
    /\ pc \in {"volt", "r_volt"}
    /\ Advance
    /\ UNCHANGED <<profile, output, output_on, port, boards, backup_report, peer_backup,
                   captured, errors, status>>

(***************************************************************************)
(* Backup and profiles                                                     *)
(***************************************************************************)
\* `openocd backup`, a child that reads twice.
Backup ==
    /\ pc = "backup"
    /\ backup_report' = TRUE
    /\ Advance
    /\ UNCHANGED <<profile, output, output_on, port, boards, peer_backup, captured, errors,
                   status>>

\* Two reads of the peer, under its probe lock, that must agree.
PeerBackup ==
    /\ pc = "peer_backup"
    /\ peer_backup' = (Peers # {})
    /\ Advance
    /\ UNCHANGED <<profile, output, output_on, port, boards, backup_report, captured, errors,
                   status>>

\* `openocd flash` begins, and leaves the target halted.
FlashBegins ==
    /\ pc = "flash" /\ output /\ target # Half
    /\ target' = Half /\ cpu' = "halted"
    /\ UNCHANGED <<pc, profile, sent, output, output_on, port, peer, peer_process, orphaned,
                   backup_report, peer_backup, captured, errors, status>>

FlashEnds ==
    /\ pc = "flash" /\ target = Half
    /\ target' = profile
    /\ Advance
    /\ UNCHANGED <<profile, output, output_on, port, cpu, peer, peer_process, orphaned,
                   backup_report, peer_backup, captured, errors, status>>

StartPeer ==
    /\ pc = "peer"
    /\ peer_process' = IF profile \in Peers THEN "programming" ELSE "none"
    /\ peer' = IF profile \in Peers THEN "torn" ELSE peer
    /\ Advance
    /\ UNCHANGED <<profile, output, output_on, port, target, cpu, orphaned, backup_report,
                   peer_backup, captured, errors, status>>

AwaitPeer ==
    /\ pc = "peer_ready"
    /\ peer_process \in {"none", "ready", "passed", "late"}
    /\ Advance
    /\ UNCHANGED <<profile, output, output_on, port, boards, backup_report, peer_backup,
                   captured, errors, status>>

\* capture() and the checks of its samples; observe is the GDB child.
Capture ==
    /\ pc = "capture"
    /\ captured' = IF target = profile /\ cpu = "running" THEN captured \cup {profile}
                                                            ELSE captured
    /\ Advance
    /\ UNCHANGED <<profile, output, output_on, port, boards, backup_report, peer_backup,
                   errors, status>>

Observe ==
    /\ pc = "observe"
    /\ Advance
    /\ UNCHANGED <<profile, output, output_on, port, boards, backup_report, peer_backup,
                   captured, errors, status>>

JoinPeer ==
    /\ pc = "peer_join"
    /\ peer_process \in {"none", "passed"}
    /\ peer_process' = "none"
    /\ profile' = IF profile < Profiles THEN profile + 1 ELSE profile
    /\ Advance
    /\ UNCHANGED <<output, output_on, port, target, cpu, peer, orphaned, backup_report,
                   peer_backup, captured, errors, status>>

(***************************************************************************)
(* The finally clause                                                      *)
(***************************************************************************)
\* _terminate(): SIGTERM to the peer's group; its nrfutil is in another one.
StopPeer ==
    /\ pc = "f_peer"
    /\ orphaned' = (peer_process = "programming")
    /\ peer_process' = "none"
    /\ Advance
    /\ UNCHANGED <<profile, output, output_on, port, target, cpu, peer, backup_report,
                   peer_backup, captured, errors, status>>

\* The output is switched off if the flag says that it is on.
FinallyOff ==
    /\ pc \in {"f_off", "rf_off"}
    /\ output_on => port
    /\ output' = (output /\ ~output_on)
    /\ cpu' = IF output_on THEN "off" ELSE cpu
    /\ output_on' = (output_on /\ pc = "rf_off")
    /\ Advance
    /\ UNCHANGED <<profile, port, target, peer, peer_process, orphaned, backup_report,
                   peer_backup, captured, errors, status>>

\* It raises, on a closed port for certain; the report says so.
FinallyOffFails ==
    /\ pc \in {"f_off", "rf_off"} /\ output_on
    /\ off_error' = TRUE
    /\ Advance
    /\ UNCHANGED <<profile, output, output_on, port, boards, backup_report, peer_backup,
                   captured, operation_error, restore_error, peer_restore_error, status>>

FinallyClose ==
    /\ pc \in {"f_close", "rf_close"}
    /\ port' = FALSE
    /\ Advance
    /\ UNCHANGED <<profile, output, output_on, boards, backup_report, peer_backup, captured,
                   errors, status>>

\* `openocd restore` of the backup, read back.
RestoreTarget ==
    /\ pc = "r_restore" /\ output
    /\ target' = Original
    /\ Advance
    /\ UNCHANGED <<profile, output, output_on, port, cpu, peer, peer_process, orphaned,
                   backup_report, peer_backup, captured, errors, status>>

PeerProgram ==
    /\ pc = "p_program"
    /\ peer' = "original"
    /\ Advance
    /\ UNCHANGED <<profile, output, output_on, port, target, cpu, peer_process, orphaned,
                   backup_report, peer_backup, captured, errors, status>>

PeerVerify ==
    /\ pc \in {"p_verify", "p_reset"}
    /\ pc = "p_verify" => peer = "original"
    /\ Advance
    /\ UNCHANGED <<profile, output, output_on, port, boards, backup_report, peer_backup,
                   captured, errors, status>>

Report ==
    /\ pc = "report"
    /\ status' = IF operation_error \/ restore_error \/ peer_restore_error
                 THEN "failed" ELSE "ok"
    /\ Advance
    /\ UNCHANGED <<profile, output, output_on, port, boards, backup_report, peer_backup,
                   captured, errors>>

(***************************************************************************)
(* Errors                                                                  *)
(***************************************************************************)
\* A programming child may fail with the board half written.
TornTarget == IF pc = "r_restore" THEN Half ELSE target
TornPeer   == IF pc = "p_program" THEN "torn" ELSE peer

\* An error, a timeout or an interrupt in one of the three try blocks.
Raise ==
    /\ Body(pc) \/ pc \in Restoring \cup PeerRestoring
    /\ sent => LateErrors
    /\ operation_error' = (operation_error \/ Body(pc))
    /\ restore_error' = (restore_error \/ pc \in Restoring)
    /\ peer_restore_error' = (peer_restore_error \/ pc \in PeerRestoring)
    /\ pc' = IF Body(pc) THEN "f_peer" ELSE IF pc \in Restoring THEN "rf_off" ELSE "report"
    /\ target' = TornTarget /\ peer' = TornPeer
    /\ sent' = FALSE
    /\ UNCHANGED <<profile, output, output_on, port, cpu, peer_process, orphaned,
                   backup_report, peer_backup, captured, off_error, status>>

\* An interrupt in the finally clause, outside its try blocks: no report.
Abort ==
    /\ LateErrors /\ pc \in {"f_peer", "f_close", "rf_close"}
    /\ pc' = "aborted"
    /\ UNCHANGED <<profile, sent, output, output_on, port, boards, backup_report, peer_backup,
                   captured, errors, status>>

(***************************************************************************)
(* The peer command, and its nrfutil when it is killed                     *)
(***************************************************************************)
PeerRuns ==
    /\ \/ peer_process = "programming" /\ peer_process' = "programmed" /\ peer' = "image"
       \/ peer_process = "programmed" /\ peer_process' = "ready" /\ UNCHANGED peer
       \/ peer_process = "ready" /\ peer_process' \in {"passed", "late"} /\ UNCHANGED peer
       \/ peer_process \in {"programming", "programmed"} /\ peer_process' = "failed"
          /\ UNCHANGED peer
    /\ UNCHANGED <<pc, profile, sent, output, output_on, port, target, cpu, orphaned,
                   backup_report, peer_backup, captured, errors, status>>

OrphanEnds ==
    /\ orphaned /\ peer # "image"
    /\ peer' = "image"
    /\ UNCHANGED <<pc, profile, sent, output, output_on, port, target, cpu, peer_process,
                   orphaned, backup_report, peer_backup, captured, errors, status>>

Suite ==
    \/ Validate \/ Open \/ PowerWrite \/ PowerReturn \/ Voltage \/ Backup \/ PeerBackup
    \/ FlashBegins \/ FlashEnds \/ StartPeer \/ AwaitPeer \/ Capture \/ Observe \/ JoinPeer
    \/ StopPeer \/ FinallyOff \/ FinallyOffFails \/ FinallyClose
    \/ RestoreTarget \/ PeerProgram \/ PeerVerify \/ Report \/ Raise \/ Abort

Next == Suite \/ PeerRuns \/ OrphanEnds

Spec     == Init /\ [][Next]_vars
FairSpec == Spec /\ WF_vars(Suite)

-----------------------------------------------------------------------------
\* The cleanup record accounts for both boards: a board that is not as it was
\* found is reported as to be restored and not restored, unless an nrfutil
\* that outlived its command changed the peer.
BoardsAccounted ==
    pc = "done" =>
        /\ target = Original \/ (backup_report /\ restore_error)
        /\ peer = "original" \/ (peer_backup /\ peer_restore_error) \/ orphaned

\* A suite reported ok measured every profile on its own cold-started firmware,
\* restored both boards and left the supply off.
OkMeansMeasured ==
    status = "ok" => /\ captured = 1..Profiles
                     /\ target = Original /\ peer = "original"
                     /\ ~output
=============================================================================
