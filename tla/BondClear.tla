------------------------------ MODULE BondClear -----------------------------
(***************************************************************************)
(* m6-bond-clear (tools/nrfkit_tools/cli.py): back up the settings region, *)
(* program it erased, read it back, reset; on an error before the erasure  *)
(* is verified, program the backup again. The lock is released when the    *)
(* exception leaves the with block and taken a second time to restore, so  *)
(* another command on the probe may come in between. A command may also be *)
(* killed at any step; its nrfutil then finishes on its own.               *)
(***************************************************************************)
EXTENDS Naturals

CONSTANTS Procs, NoProc

VARIABLES
    pc,
    backup,          \* settings-before.hex of each process
    clear_verified, restore_attempted, restore_verified,
    status,
    tool,            \* contents that the nrfutil of each process is programming
    lock,
    settings,        \* contents of the region
    writer           \* process whose nrfutil wrote last

vars == <<pc, backup, clear_verified, restore_attempted, restore_verified, status, tool,
          lock, settings, writer>>

Contents == {"bonds", "erased", "torn"}

Init ==
    /\ pc = [p \in Procs |-> "idle"] /\ backup = [p \in Procs |-> "none"]
    /\ clear_verified = [p \in Procs |-> FALSE]
    /\ restore_attempted = [p \in Procs |-> FALSE]
    /\ restore_verified = [p \in Procs |-> FALSE]
    /\ status = [p \in Procs |-> "none"] /\ tool = [p \in Procs |-> "none"]
    /\ lock = NoProc /\ settings = "bonds" /\ writer = NoProc

-----------------------------------------------------------------------------
Goto(p, l) == pc' = [pc EXCEPT ![p] = l]

\* The manifest, the authorization and the selected device are checked.
Start(p) ==
    /\ pc[p] = "idle"
    /\ status' = [status EXCEPT ![p] = "running"]
    /\ Goto(p, "lock")
    /\ UNCHANGED <<backup, clear_verified, restore_attempted, restore_verified, tool, lock,
                   settings, writer>>

Lock(p) ==
    /\ pc[p] \in {"lock", "r_lock"}
    /\ lock = NoProc
    /\ lock' = p
    /\ Goto(p, IF pc[p] = "lock" THEN "backup" ELSE "r_program")
    /\ UNCHANGED <<backup, clear_verified, restore_attempted, restore_verified, status, tool,
                   settings, writer>>

\* _read_m6_settings(): nrfutil reads the region into a file, which must hold
\* exactly the region.
Backup(p) ==
    /\ pc[p] = "backup"
    /\ backup' = [backup EXCEPT ![p] = settings]
    /\ Goto(p, "erase")
    /\ UNCHANGED <<clear_verified, restore_attempted, restore_verified, status, tool, lock,
                   settings, writer>>

\* nrfutil starts to program c: a part of the region has changed.
Program(p, c) ==
    /\ tool[p] = "none"
    /\ tool' = [tool EXCEPT ![p] = c]
    /\ settings' = "torn" /\ writer' = p

\* Mutant of Erase: the region may be erased before its backup is written.
MutantErase(p) ==
    /\ pc[p] \in {"backup", "erase"}
    /\ Program(p, "erased")
    /\ Goto(p, "erasing")
    /\ UNCHANGED <<backup, clear_verified, restore_attempted, restore_verified, status, lock>>

Erase(p) ==
    /\ pc[p] = "erase"
    /\ Program(p, "erased")
    /\ Goto(p, "erasing")
    /\ UNCHANGED <<backup, clear_verified, restore_attempted, restore_verified, status, lock>>

\* nrfutil is done (its own verification included).
ToolEnds(p) ==
    /\ tool[p] # "none"
    /\ settings' = tool[p] /\ writer' = p
    /\ tool' = [tool EXCEPT ![p] = "none"]
    /\ UNCHANGED <<pc, backup, clear_verified, restore_attempted, restore_verified, status,
                   lock>>

Readback(p) ==
    /\ pc[p] = "erasing" /\ tool[p] = "none"
    /\ settings = "erased"
    /\ clear_verified' = [clear_verified EXCEPT ![p] = TRUE]
    /\ Goto(p, "reset")
    /\ UNCHANGED <<backup, restore_attempted, restore_verified, status, tool, lock, settings,
                   writer>>

Reset(p) ==
    /\ pc[p] = "reset"
    /\ lock' = NoProc
    /\ status' = [status EXCEPT ![p] = "ok"]
    /\ Goto(p, "done")
    /\ UNCHANGED <<backup, clear_verified, restore_attempted, restore_verified, tool, settings,
                   writer>>

Body     == {"lock", "backup", "erase", "erasing", "reset"}
Restores == {"r_lock", "r_program", "r_programming"}

\* Mutant of NeedsRestore: only a failure before the erasure is restored.
MutantNeedsRestore(p) == ~clear_verified[p] /\ pc[p] = "erase"

\* `original` was read and the erasure is not verified.
NeedsRestore(p) == ~clear_verified[p] /\ backup[p] # "none"

\* An error, a timeout or an interrupt: run_logged() ends its nrfutil, the with
\* block releases the lock, the except clause may restore.
Raise(p) ==
    /\ pc[p] \in Body
    /\ tool' = [tool EXCEPT ![p] = "none"]
    /\ lock' = IF lock = p THEN NoProc ELSE lock
    /\ restore_attempted' = [restore_attempted EXCEPT ![p] = NeedsRestore(p)]
    /\ status' = [status EXCEPT ![p] = "failed"]
    /\ Goto(p, IF NeedsRestore(p) THEN "r_lock" ELSE "done")
    /\ UNCHANGED <<backup, clear_verified, restore_verified, settings, writer>>

RestoreProgram(p) ==
    /\ pc[p] = "r_program"
    /\ Program(p, backup[p])
    /\ Goto(p, "r_programming")
    /\ UNCHANGED <<backup, clear_verified, restore_attempted, restore_verified, status, lock>>

RestoreReadback(p) ==
    /\ pc[p] = "r_programming" /\ tool[p] = "none"
    /\ settings = backup[p]
    /\ restore_verified' = [restore_verified EXCEPT ![p] = TRUE]
    /\ lock' = NoProc
    /\ Goto(p, "done")
    /\ UNCHANGED <<backup, clear_verified, restore_attempted, status, tool, settings, writer>>

\* The restoration raises, on a contended lock for example: restore_error.
RestoreRaise(p) ==
    /\ pc[p] \in Restores
    /\ tool' = [tool EXCEPT ![p] = "none"]
    /\ lock' = IF lock = p THEN NoProc ELSE lock
    /\ Goto(p, "done")
    /\ UNCHANGED <<backup, clear_verified, restore_attempted, restore_verified, status,
                   settings, writer>>

\* SIGTERM or SIGKILL; the backup stays below .work/runs.
Killed(p) ==
    /\ pc[p] \in Body \cup Restores
    /\ lock' = IF lock = p THEN NoProc ELSE lock
    /\ Goto(p, "killed")
    /\ UNCHANGED <<backup, clear_verified, restore_attempted, restore_verified, status, tool,
                   settings, writer>>

Step(p) ==
    \/ Lock(p) \/ Backup(p) \/ Erase(p) \/ Readback(p) \/ Reset(p) \/ Raise(p)
    \/ RestoreProgram(p) \/ RestoreReadback(p) \/ RestoreRaise(p)

Next == \E p \in Procs : Start(p) \/ Step(p) \/ ToolEnds(p) \/ Killed(p)

Spec == Init /\ [][Next]_vars

-----------------------------------------------------------------------------
\* Whatever fails and whoever comes in between, bonds that are gone from the
\* board are in a complete backup file: nothing is erased before it is saved.
BondsRecoverable == settings = "bonds" \/ \E p \in Procs : backup[p] = "bonds"

\* The cleanup record accounts for the region: after the command that wrote last,
\* the region is erased if clear_verified, as in the backup if restore_verified,
\* and in no other state unless a restoration was attempted and not verified.
CleanupAccounts ==
    \A p \in Procs : pc[p] = "done" /\ writer = p =>
        \/ clear_verified[p] /\ settings = "erased"
        \/ ~clear_verified[p] /\ restore_attempted[p]
           /\ (restore_verified[p] => settings = backup[p])
=============================================================================
