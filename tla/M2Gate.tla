------------------------------- MODULE M2Gate -------------------------------
(***************************************************************************)
(* command_m2_gate() of tools/nrfkit_tools/cli.py over the commands of     *)
(* ProbeRun. The gate runs its stages as child processes through           *)
(* _run_p0_child(), one at a time: program/reset/token cycles of the normal *)
(* image, the GDB contract, the fault image and its GDB contract, and in   *)
(* its finally clause the normal image again. A child that exceeds the     *)
(* gate's timeout, or runs when the gate is interrupted, gets SIGTERM.     *)
(***************************************************************************)
EXTENDS ProbeRun

CONSTANTS Normal, Fault,  \* the two manifests
          Cycles          \* program/reset/token cycles; 20 in the code

ConstantsOk ==
    /\ Manifests = {Normal, Fault} /\ Normal # Fault
    /\ NImages \in Nat \ {0} /\ NoProc \notin Procs
    /\ Cycles \in Nat \ {0}

VARIABLES
    stage,              \* where the gate stands
    iteration,          \* cycles completed
    child,              \* the running child
    hardware_started, operation_error, restoration_error,
    status,             \* "status" in the gate's run.json
    claimed,            \* cleanup.normal_image_restored in it
    orphaned            \* history: a child was killed with a vendor program at work

gateVars == <<stage, iteration, child, hardware_started, operation_error,
              restoration_error, status, claimed, orphaned>>
allVars == <<vars, gateVars>>

GateInit ==
    /\ Init
    /\ stage = "audit" /\ iteration = 0 /\ child = NoProc
    /\ hardware_started = FALSE /\ operation_error = FALSE /\ restoration_error = FALSE
    /\ status = "running" /\ claimed = FALSE /\ orphaned = FALSE

-----------------------------------------------------------------------------
\* The command line of each stage's child.
Job(s) == CASE s \in {"cycle", "restore"} -> [op |-> "run", manifest |-> Normal]
            [] s = "gdb"                  -> [op |-> "gdb", manifest |-> Normal]
            [] s = "faultflash"           -> [op |-> "flash", manifest |-> Fault]
            [] s = "faultgdb"             -> [op |-> "debug", manifest |-> Fault]

HardwareStages == {"cycle", "gdb", "faultflash", "faultgdb"}

NextStage == CASE stage = "cycle" -> IF iteration' < Cycles THEN "cycle" ELSE "gdb"
               [] stage = "gdb" -> "faultflash"
               [] stage = "faultflash" -> "faultgdb"
               [] stage = "faultgdb" -> "restore"
               [] stage = "restore" -> "finish"

\* The finally clause restores once hardware was started.
AfterError == IF stage = "restore" THEN "finish"
              ELSE IF hardware_started THEN "restore" ELSE "finish"

\* The checks of both manifests and tools.
Audit ==
    /\ stage = "audit"
    /\ stage' = "cycle"
    /\ UNCHANGED <<vars, iteration, child, hardware_started, operation_error,
                   restoration_error, status, claimed, orphaned>>

\* _run_p0_child() starts the command of the stage.
Spawns(c) ==
    /\ stage \in HardwareStages \cup {"restore"}
    /\ child = NoProc
    /\ Start(c, Job(stage).op, Job(stage).manifest)
    /\ child' = c
    /\ hardware_started' = TRUE
    /\ UNCHANGED <<stage, iteration, operation_error, restoration_error, status, claimed,
                   orphaned>>

\* The slot of a child that is gone.
Cleared(c) ==
    /\ pc' = [pc EXCEPT ![c] = "idle"] /\ op' = [op EXCEPT ![c] = "flash"]
    /\ want' = [want EXCEPT ![c] = CHOOSE m \in Manifests : TRUE]
    /\ err' = [err EXCEPT ![c] = FALSE] /\ report' = [report EXCEPT ![c] = "none"]
    /\ snapshot' = [snapshot EXCEPT ![c] = [i \in Images |-> Other]]
    /\ programmed' = [programmed EXCEPT ![c] = 0] /\ heard' = [heard EXCEPT ![c] = {}]
    /\ was_reset' = [was_reset EXCEPT ![c] = FALSE]
    /\ tool' = [tool EXCEPT ![c] = NoTool]
    /\ tty' = IF tty = c THEN NoProc ELSE tty
    /\ UNCHANGED <<boardVars, lock, changed>>

ChildOk ==
    /\ child # NoProc /\ pc[child] = "ended" /\ report[child] = "ok"
    /\ iteration' = IF stage = "cycle" THEN iteration + 1 ELSE iteration
    /\ stage' = NextStage
    /\ child' = NoProc
    /\ Cleared(child)
    /\ UNCHANGED <<hardware_started, operation_error, restoration_error, status, claimed,
                   orphaned>>

\* Mutant of Record: a failed restoration counts as an operation error.
MutantRecordOnlyOperation(e) ==
    /\ operation_error' = (operation_error \/ e)
    /\ stage' = AfterError
    /\ UNCHANGED <<iteration, restoration_error, hardware_started, status, claimed>>

\* What the except clauses record.
Record(e) ==
    /\ operation_error' = (operation_error \/ (e /\ stage # "restore"))
    /\ restoration_error' = (restoration_error \/ (e /\ stage = "restore"))
    /\ stage' = AfterError
    /\ UNCHANGED <<iteration, hardware_started, status, claimed>>

ChildFailed ==
    /\ child # NoProc /\ pc[child] = "ended" /\ report[child] # "ok"
    /\ Record(TRUE)
    /\ child' = NoProc
    /\ Cleared(child)
    /\ UNCHANGED orphaned

\* gate_timeout, or an interrupt of the gate while the child runs.
ChildTimeout ==
    /\ child # NoProc
    /\ Killed(child)
    /\ orphaned' = (orphaned \/ tool[child] # NoTool)
    /\ Record(TRUE)
    /\ child' = NoProc

\* An error or an interrupt of the gate between two children.
GateRaises ==
    /\ stage \notin {"finish", "done"} /\ child = NoProc
    /\ Record(TRUE)
    /\ UNCHANGED <<vars, child, orphaned>>

\* An orphan's slot becomes free when its vendor program is gone.
Reap(c) ==
    /\ pc[c] = "killed" /\ tool[c] \in {NoTool, [job |-> "exited", busy |-> FALSE]}
    /\ Cleared(c)
    /\ UNCHANGED gateVars

\* The end of the finally clause: the report.
Finish ==
    /\ stage = "finish"
    /\ status' = IF operation_error \/ restoration_error THEN "failed" ELSE "ok"
    /\ claimed' = (hardware_started /\ ~restoration_error)
    /\ stage' = "done"
    /\ UNCHANGED <<vars, iteration, child, hardware_started, operation_error,
                   restoration_error, orphaned>>

GateStep ==
    \/ Audit \/ ChildOk \/ ChildFailed \/ ChildTimeout \/ GateRaises \/ Finish
    \/ \E c \in Procs : Spawns(c)

GateNext ==
    \/ GateStep
    \/ \E c \in Procs : Reap(c)
    \/ /\ \/ \E p \in Procs : Step(p) \/ Device(p)
          \/ EmitToken
       /\ UNCHANGED gateVars

GateSpec == GateInit /\ [][GateNext]_allVars
GateFair == /\ GateSpec
            /\ WF_allVars(GateStep)
            /\ \A p \in Procs : /\ WF_allVars(Step(p) /\ UNCHANGED gateVars)
                                /\ WF_allVars(Device(p) /\ UNCHANGED gateVars)
                                /\ WF_allVars(Reap(p))

-----------------------------------------------------------------------------
\* The report of the gate may be believed: what it calls a restored board holds
\* and runs the normal image, unless a child was killed over a working nrfutil.
RestoredClaim ==
    stage = "done" /\ claimed /\ ~orphaned =>
        \A i \in Images : board[i] = Normal /\ running[i] = Normal

\* The gate tells the truth only about what it waited for: a gate reported ok
\* has all its children behind it and none left.
OkMeansComplete ==
    status = "ok" => /\ iteration = Cycles /\ child = NoProc
                     /\ lock = NoProc /\ tty = NoProc
                     /\ \A i \in Images : board[i] = Normal
=============================================================================
