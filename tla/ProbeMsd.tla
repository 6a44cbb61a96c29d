------------------------------ MODULE ProbeMsd ------------------------------
(***************************************************************************)
(* The mass-storage interface (MSD) of a debug probe: the persistent       *)
(* switch `probe-msd enable | disable` and `p0-gate`, which disables MSD   *)
(* for the time of its children and enables it again in its finally clause *)
(* (tools/nrfkit_tools/cli.py).                                            *)
(*                                                                         *)
(* J-Link Commander stores the setting and reboots the probe; only then    *)
(* does the interface list change. A command may raise between the two     *)
(* (timeout, KeyboardInterrupt, an error of the tool). Every command reads *)
(* the interface list before it takes the probe lock.                      *)
(***************************************************************************)
EXTENDS Naturals

CONSTANTS
    Procs,      \* commands that may be started on the probe
    Children,   \* children of p0-gate (5 in the code)
    NoProc

Kinds == {"enable", "disable", "gate"}

VARIABLES
    kind, authorized,  \* command line of each process
    pc,
    original,          \* MSD state that each process enumerated
    restore_msd,
    child,             \* children of a gate that succeeded
    operation_error, restoration_error,
    status, restored,  \* report: "status" and cleanup.probe_msd_restored
    lock,              \* holder of the probe lock
    config, exposed,   \* stored setting; MSD in the interface list
    writer             \* process that stored the setting last

procVars == <<kind, authorized, pc, original, restore_msd, child, operation_error,
              restoration_error, status, restored>>
vars == <<procVars, lock, config, exposed, writer>>

Setting   == {"set", "configure", "reboot", "verify"}
Restoring == {"restore", "r_configure", "r_reboot", "r_verify"}

Init ==
    /\ kind = [p \in Procs |-> "gate"] /\ authorized = [p \in Procs |-> FALSE]
    /\ pc = [p \in Procs |-> "idle"] /\ original = [p \in Procs |-> FALSE]
    /\ restore_msd = [p \in Procs |-> FALSE] /\ child = [p \in Procs |-> 0]
    /\ operation_error = [p \in Procs |-> FALSE]
    /\ restoration_error = [p \in Procs |-> FALSE]
    /\ status = [p \in Procs |-> "none"] /\ restored = [p \in Procs |-> FALSE]
    /\ lock = NoProc
    /\ config \in BOOLEAN /\ exposed = config
    /\ writer = NoProc

-----------------------------------------------------------------------------
Goto(p, l) == pc' = [pc EXCEPT ![p] = l]

\* The state a step of p is to bring about.
Target(p) == pc[p] \in Restoring \/ kind[p] = "enable"

Start(p, k, a) ==
    /\ pc[p] = "idle"
    /\ kind' = [kind EXCEPT ![p] = k] /\ authorized' = [authorized EXCEPT ![p] = a]
    /\ status' = [status EXCEPT ![p] = "running"]
    /\ Goto(p, "select")
    /\ UNCHANGED <<original, restore_msd, child, operation_error, restoration_error, restored,
                   lock, config, exposed, writer>>

\* Both commands enumerate first. A change needs the authorization of the command
\* line; without it, or without J-Link and both VCOMs, the command raises.
SelectSwitch(p) ==
    /\ pc[p] = "select" /\ kind[p] # "gate"
    /\ original' = [original EXCEPT ![p] = exposed]
    /\ IF exposed = Target(p) THEN Goto(p, "finish")
       ELSE authorized[p] /\ Goto(p, "set")
    /\ UNCHANGED <<kind, authorized, restore_msd, child, operation_error, restoration_error,
                   status, restored, lock, config, exposed, writer>>

SelectGate(p) ==
    /\ pc[p] = "select" /\ kind[p] = "gate"
    /\ exposed => authorized[p]
    /\ original' = [original EXCEPT ![p] = exposed]
    /\ restore_msd' = [restore_msd EXCEPT ![p] = exposed]
    /\ Goto(p, IF exposed THEN "set" ELSE "child")
    /\ UNCHANGED <<kind, authorized, child, operation_error, restoration_error, status,
                   restored, lock, config, exposed, writer>>

\* _set_probe_msd() takes the lock; a contended lock raises.
Lock(p) ==
    /\ pc[p] \in {"set", "restore"}
    /\ lock = NoProc
    /\ lock' = p
    /\ Goto(p, IF pc[p] = "set" THEN "configure" ELSE "r_configure")
    /\ UNCHANGED <<kind, authorized, original, restore_msd, child, operation_error,
                   restoration_error, status, restored, config, exposed, writer>>

\* MSDEnable or MSDDisable.
Configure(p) ==
    /\ pc[p] \in {"configure", "r_configure"}
    /\ config' = Target(p) /\ writer' = p
    /\ Goto(p, IF pc[p] = "configure" THEN "reboot" ELSE "r_reboot")
    /\ UNCHANGED <<kind, authorized, original, restore_msd, child, operation_error,
                   restoration_error, status, restored, lock, exposed>>

\* Reboot force.
Reboot(p) ==
    /\ pc[p] \in {"reboot", "r_reboot"}
    /\ exposed' = config
    /\ Goto(p, IF pc[p] = "reboot" THEN "verify" ELSE "r_verify")
    /\ UNCHANGED <<kind, authorized, original, restore_msd, child, operation_error,
                   restoration_error, status, restored, lock, config, writer>>

\* _wait_for_probe_msd_state(), still under the lock.
Verify(p) ==
    /\ pc[p] \in {"verify", "r_verify"}
    /\ exposed = Target(p)
    /\ lock' = NoProc
    /\ Goto(p, IF pc[p] = "verify" /\ kind[p] = "gate" THEN "child" ELSE "finish")
    /\ UNCHANGED <<kind, authorized, original, restore_msd, child, operation_error,
                   restoration_error, status, restored, config, exposed, writer>>

\* A child command works on the probe under the probe lock.
ChildBegin(p) ==
    /\ pc[p] = "child"
    /\ lock = NoProc
    /\ lock' = p
    /\ Goto(p, "child_run")
    /\ UNCHANGED <<kind, authorized, original, restore_msd, child, operation_error,
                   restoration_error, status, restored, config, exposed, writer>>

ChildEnd(p) ==
    /\ pc[p] = "child_run"
    /\ lock' = NoProc
    /\ child' = [child EXCEPT ![p] = @ + 1]
    /\ Goto(p, IF child'[p] = Children THEN "final" ELSE "child")
    /\ UNCHANGED <<kind, authorized, original, restore_msd, operation_error,
                   restoration_error, status, restored, config, exposed, writer>>

\* The final interface verification; then the finally clause.
Final(p) ==
    /\ pc[p] = "final"
    /\ ~exposed
    /\ Goto(p, IF restore_msd[p] THEN "restore" ELSE "finish")
    /\ UNCHANGED <<kind, authorized, original, restore_msd, child, operation_error,
                   restoration_error, status, restored, lock, config, exposed, writer>>

\* Any step raises: the lock goes, the finally clause of the gate restores.
Raise(p) ==
    /\ pc[p] \notin {"idle", "finish", "done"}
    /\ lock' = IF lock = p THEN NoProc ELSE lock
    /\ IF pc[p] \in Restoring
       THEN restoration_error' = [restoration_error EXCEPT ![p] = TRUE]
            /\ UNCHANGED operation_error
       ELSE operation_error' = [operation_error EXCEPT ![p] = TRUE]
            /\ UNCHANGED restoration_error
    /\ Goto(p, IF restore_msd[p] /\ pc[p] \notin Restoring THEN "restore" ELSE "finish")
    /\ UNCHANGED <<kind, authorized, original, restore_msd, child, status, restored, config,
                   exposed, writer>>

\* The report.
Finish(p) ==
    /\ pc[p] = "finish"
    /\ status' = [status EXCEPT ![p] =
                     IF operation_error[p] \/ restoration_error[p] THEN "failed" ELSE "ok"]
    /\ restored' = [restored EXCEPT ![p] = ~restore_msd[p] \/ ~restoration_error[p]]
    /\ Goto(p, "done")
    /\ UNCHANGED <<kind, authorized, original, restore_msd, child, operation_error,
                   restoration_error, lock, config, exposed, writer>>

Step(p) ==
    \/ SelectSwitch(p) \/ SelectGate(p) \/ Lock(p) \/ Configure(p) \/ Reboot(p) \/ Verify(p)
    \/ ChildBegin(p) \/ ChildEnd(p) \/ Final(p) \/ Raise(p) \/ Finish(p)

Next == \E p \in Procs : \/ \E k \in Kinds, a \in BOOLEAN : Start(p, k, a)
                         \/ Step(p)

Spec == Init /\ [][Next]_vars

-----------------------------------------------------------------------------
\* The report of a gate may be believed: if it says that MSD is restored and no
\* other command has stored a setting since, the probe is as the gate found it,
\* in what it exposes and in what it stores for the next reboot.
RestoredClaim ==
    \A p \in Procs :
        kind[p] = "gate" /\ pc[p] = "done" /\ restored[p] /\ writer = p =>
            config = original[p] /\ exposed = original[p]

\* A setting half changed (stored, the probe not yet rebooted) is never left
\* behind by a command that reports ok.
OkMeansSettled ==
    \A p \in Procs : status[p] = "ok" /\ writer = p =>
        /\ exposed = config
        /\ config = IF kind[p] = "gate" THEN original[p] ELSE kind[p] = "enable"
=============================================================================
