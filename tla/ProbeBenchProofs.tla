-------------------------- MODULE ProbeBenchProofs --------------------------
(***************************************************************************)
(* Proofs about module ProbeBench, for any number of commands, manifests   *)
(* and images.                                                             *)
(***************************************************************************)
EXTENDS ProbeBench, TLAPS

PlanSteps(o) == {Plan(o)[j] : j \in DOMAIN Plan(o)}

\* The steps of each kind of command that run under the probe lock.
RunLocked  == {"snapshot", "program", "serial", "server", "gdb", "reset", "token", "stop",
               "unlock"}
BondLocked == {"backup", "erase", "erasing", "reset", "r_program", "r_programming"}
MsdLocked  == {"configure", "reboot", "verify", "r_configure", "r_reboot", "r_verify",
               "child_run"}

BondPlaces == BondLocked \cup {"idle", "lock", "r_lock", "done", "killed"}
MsdPlaces  == MsdLocked \cup {"idle", "select", "set", "child", "final", "restore", "finish",
                              "done"}

\* Every programming command stands at a step of its plan.
RunPlace ==
    /\ op \in [Procs -> Ops] /\ want \in [Procs -> Manifests]
    /\ pc \in [Procs -> Steps \cup {"idle", "ended", "killed"}]
    /\ \A p \in Procs : pc[p] \in PlanSteps(op[p]) \cup {"idle", "ended", "killed"}

\* The vendor program of a living command belongs to the step it stands at; the
\* GDB server lives from its step to "stop".
ToolPlace ==
    /\ tool \in [Procs -> [job : {"none", "program", "reset", "server", "exited"},
                           busy : BOOLEAN]]
    /\ \A p \in Procs : pc[p] # "killed" =>
        /\ tool[p].job = "program" => pc[p] = "program"
        /\ tool[p].job = "reset" => pc[p] = "reset"
        /\ tool[p].job = "exited" => pc[p] \in {"program", "reset"}
        /\ tool[p].job = "server" => /\ op[p] \in {"gdb", "debug"}
                                     /\ pc[p] \in {"server", "gdb", "token", "stop"}

\* A process runs one command, and holds the lock at the steps that need it.
LockHeld ==
    /\ lock \in Procs \cup {NoProc}
    /\ bondPc \in [Procs -> BondPlaces] /\ msdPc \in [Procs -> MsdPlaces]
    /\ \A p \in Procs :
        /\ pc[p] # "idle" => bondPc[p] = "idle" /\ msdPc[p] = "idle"
        /\ bondPc[p] # "idle" => msdPc[p] = "idle"
        /\ pc[p] \in RunLocked \/ bondPc[p] \in BondLocked \/ msdPc[p] \in MsdLocked
           => lock = p

LockInv == RunPlace /\ ToolPlace /\ LockHeld

\* The copies that a programming nrfutil reads are of its manifest.
CopiesAudited ==
    /\ snapshot \in [Procs -> [Images -> Manifests \cup {Other}]]
    /\ \A p \in Procs : pc[p] = "program" \/ tool[p].job = "program" =>
        \A i \in Images : snapshot[p][i] \in Manifests

\* The image regions of the board hold what some nrfutil wrote, or a part of it.
BoardHolds == board \in [Images -> Manifests \cup {Torn, Other}]

\* From its reset on, a run command reads the serial port, and a token printed
\* since is in its transcript.
BurstHeard ==
    /\ heard \in [Procs -> SUBSET (Manifests \X {"open", "reset"})]
    /\ was_reset \in [Procs -> BOOLEAN] /\ burst \in BOOLEAN
    /\ \A p \in Procs : op[p] = "run" =>
        /\ pc[p] \in {"reset", "token"} => tty = p
        /\ pc[p] = "token" \/ (pc[p] = "reset" /\ tool[p].job = "exited") =>
            /\ was_reset[p]
            /\ ~burst /\ (\A i \in Images : running[i] = want[p])
               => <<want[p], "reset">> \in heard[p]

\* What is known of the settings region at each step of a bond clear.
BondInv ==
    /\ settings \in Bond!Contents /\ bondTool \in [Procs -> Bond!Contents \cup {"none"}]
    /\ backup \in [Procs -> Bond!Contents \cup {"none"}]
    /\ clear_verified \in [Procs -> BOOLEAN] /\ restore_attempted \in [Procs -> BOOLEAN]
    /\ restore_verified \in [Procs -> BOOLEAN]
    /\ \/ \E p \in Procs : backup[p] = "bonds"
       \/ settings = "bonds" /\ \A p \in Procs : backup[p] = "none" /\ bondTool[p] = "none"
    /\ \A p \in Procs :
        /\ bondPc[p] \in {"idle", "lock", "backup"} => backup[p] = "none"
        /\ bondPc[p] \in {"erase", "erasing"} \cup Bond!Restores => backup[p] # "none"
        /\ bondTool[p] # "none" => bondPc[p] \in {"erasing", "r_programming", "killed"}
        /\ bondPc[p] = "reset" => clear_verified[p]
        /\ clear_verified[p] =>
            bondPc[p] \in {"reset", "done", "killed"} /\ bondTool[p] = "none"
        /\ bondPc[p] \in Bond!Restores => restore_attempted[p]
        /\ restore_verified[p] => bondPc[p] = "done"
        /\ bondWriter = p =>
            /\ bondPc[p] \notin {"idle", "lock", "backup", "erase"}
            /\ clear_verified[p] => settings = "erased"
            /\ bondPc[p] = "done" => clear_verified[p] \/ restore_attempted[p]
            /\ restore_verified[p] => settings = backup[p]

\* What is known of the probe's mass-storage setting at each step of a command
\* that switches it.
MsdInv ==
    /\ config \in BOOLEAN /\ exposed \in BOOLEAN
    /\ kind \in [Procs -> Msd!Kinds] /\ original \in [Procs -> BOOLEAN]
    /\ restore_msd \in [Procs -> BOOLEAN] /\ operation_error \in [Procs -> BOOLEAN]
    /\ restoration_error \in [Procs -> BOOLEAN] /\ restored \in [Procs -> BOOLEAN]
    /\ msdStatus \in [Procs -> {"none", "running", "failed", "ok"}]
    /\ \A p \in Procs :
        /\ IF kind[p] = "gate" THEN original[p] = restore_msd[p] ELSE ~restore_msd[p]
        /\ msdPc[p] \in {"idle", "select"} => ~original[p] /\ ~restore_msd[p]
        /\ msdPc[p] \in Msd!Restoring => restore_msd[p]
        /\ msdPc[p] \in {"child", "child_run", "final"} => kind[p] = "gate"
        /\ msdPc[p] \in Msd!Setting /\ kind[p] = "gate" => restore_msd[p]
        /\ msdPc[p] \in {"reboot", "verify", "r_reboot", "r_verify"} => msdWriter = p
        /\ msdStatus[p] = "ok" => msdPc[p] = "done" /\ ~operation_error[p] /\ ~restoration_error[p]
        /\ restored[p] => msdPc[p] = "done" /\ (restore_msd[p] => ~restoration_error[p])
        /\ msdWriter = p =>
            /\ msdPc[p] \notin {"idle", "select", "set", "configure"}
            /\ kind[p] = "gate" => restore_msd[p]
            /\ msdPc[p] \in {"reboot", "verify"} => config = (kind[p] = "enable")
            /\ msdPc[p] \in {"r_reboot", "r_verify"} => config
            /\ msdPc[p] \in {"verify", "r_verify"} => exposed = config
            /\ msdPc[p] \in {"finish", "done"} =>
                IF kind[p] = "gate" THEN restoration_error[p] \/ (config /\ exposed)
                ELSE operation_error[p] \/ (exposed = config /\ config = (kind[p] = "enable"))

BenchInv == LockInv /\ CopiesAudited /\ BoardHolds /\ BurstHeard /\ BondInv /\ MsdInv

-----------------------------------------------------------------------------
\* The order of the steps (Plan): what may follow a step, and what must precede
\* programming, the token and the reset.
LEMMA PlanOrder ==
  ASSUME NEW o \in Ops, NEW s \in PlanSteps(o)
  PROVE  /\ s \in Steps
         /\ s # "close" => After(o, s) \in PlanSteps(o) \cap Steps
         /\ s \in RunLocked \cup {"lock"} /\ s # "unlock" => After(o, s) \in RunLocked
         /\ s \in {"load", "select", "unlock", "validate"} =>
                After(o, s) \in {"select", "lock", "validate", "close"}
         /\ s = "unlock" => After(o, s) \in {"validate", "close"}
         /\ s # "close" /\ After(o, s) = "program" => s = "snapshot"
         /\ o = "run" /\ s # "close" /\ After(o, s) = "reset" => s = "serial"
         /\ o = "run" /\ s # "close" /\ After(o, s) = "token" => s = "reset"
         /\ s \in {"server", "gdb"} => o \in {"gdb", "debug"}
         /\ o \in {"gdb", "debug"} /\ s \in {"server", "gdb", "token"} =>
                After(o, s) \in {"gdb", "token", "stop"}
  <1> USE DEF RunLocked, Steps
  <1>1. CASE o = "flash"
    <2>1. PlanSteps("flash") = {"load", "select", "lock", "snapshot", "program", "unlock",
            "close"}
        BY DEF PlanSteps, Plan, RunPlan
    <2>2. /\ After("flash", "load") = "select" /\ After("flash", "select") = "lock"
          /\ After("flash", "lock") = "snapshot" /\ After("flash", "snapshot") = "program"
          /\ After("flash", "program") = "unlock" /\ After("flash", "unlock") = "close"
        BY DEF After, Plan, RunPlan
    <2>3. QED
        BY <1>1, <2>1, <2>2
  <1>2. CASE o = "reset"
    <2>1. PlanSteps("reset") = {"load", "select", "lock", "reset", "unlock", "close"}
        BY DEF PlanSteps, Plan, RunPlan
    <2>2. /\ After("reset", "load") = "select" /\ After("reset", "select") = "lock"
          /\ After("reset", "lock") = "reset" /\ After("reset", "reset") = "unlock"
          /\ After("reset", "unlock") = "close"
        BY DEF After, Plan, RunPlan
    <2>3. QED
        BY <1>2, <2>1, <2>2
  <1>3. CASE o = "run"
    <2>1. PlanSteps("run") = {"load", "select", "lock", "snapshot", "program", "serial",
            "reset", "token", "unlock", "close"}
        BY DEF PlanSteps, Plan, RunPlan
    <2>2. /\ After("run", "load") = "select" /\ After("run", "select") = "lock"
          /\ After("run", "lock") = "snapshot" /\ After("run", "snapshot") = "program"
          /\ After("run", "program") = "serial" /\ After("run", "serial") = "reset"
          /\ After("run", "reset") = "token" /\ After("run", "token") = "unlock"
          /\ After("run", "unlock") = "close"
        BY DEF After, Plan, RunPlan
    <2>3. QED
        BY <1>3, <2>1, <2>2
  <1>4. CASE o = "gdb"
    <2>1. PlanSteps("gdb") = {"load", "select", "lock", "serial", "server", "gdb", "token",
            "stop", "unlock", "close"}
        BY DEF PlanSteps, Plan, RunPlan
    <2>2. /\ After("gdb", "load") = "select" /\ After("gdb", "select") = "lock"
          /\ After("gdb", "lock") = "serial" /\ After("gdb", "serial") = "server"
          /\ After("gdb", "server") = "gdb" /\ After("gdb", "gdb") = "token"
          /\ After("gdb", "token") = "stop" /\ After("gdb", "stop") = "unlock"
          /\ After("gdb", "unlock") = "close"
        BY DEF After, Plan, RunPlan
    <2>3. QED
        BY <1>4, <2>1, <2>2
  <1>5. CASE o = "debug"
    <2>1. PlanSteps("debug") = {"load", "select", "lock", "server", "gdb", "stop", "unlock",
            "close"}
        BY DEF PlanSteps, Plan, RunPlan
    <2>2. /\ After("debug", "load") = "select" /\ After("debug", "select") = "lock"
          /\ After("debug", "lock") = "server" /\ After("debug", "server") = "gdb"
          /\ After("debug", "gdb") = "stop" /\ After("debug", "stop") = "unlock"
          /\ After("debug", "unlock") = "close"
        BY DEF After, Plan, RunPlan
    <2>3. QED
        BY <1>5, <2>1, <2>2
  <1>6. CASE o = "usb"
    <2>1. PlanSteps("usb") = {"load", "select", "lock", "snapshot", "program", "reset",
            "unlock", "validate", "close"}
        BY DEF PlanSteps, Plan, RunPlan
    <2>2. /\ After("usb", "load") = "select" /\ After("usb", "select") = "lock"
          /\ After("usb", "lock") = "snapshot" /\ After("usb", "snapshot") = "program"
          /\ After("usb", "program") = "reset" /\ After("usb", "reset") = "unlock"
          /\ After("usb", "unlock") = "validate" /\ After("usb", "validate") = "close"
        BY DEF After, Plan, RunPlan
    <2>3. QED
        BY <1>6, <2>1, <2>2
  <1>7. QED
      BY <1>1, <1>2, <1>3, <1>4, <1>5, <1>6 DEF Ops

\* Every command loads its manifest first, and gives the lock back and closes.
LEMMA PlanHas ==
  ASSUME NEW o \in Ops
  PROVE  "load" \in PlanSteps(o) /\ "unlock" \in PlanSteps(o) /\ "close" \in PlanSteps(o)
  BY DEF PlanSteps, Plan, RunPlan, Ops

\* A vendor program that begins its work stays the program it is (ToolBegins).
LEMMA BeginsKeepsJob ==
  ASSUME NEW J, NEW p \in Procs, tool \in [Procs -> [job : J, busy : BOOLEAN]],
         tool' = [tool EXCEPT ![p].busy = TRUE]
  PROVE  /\ tool' \in [Procs -> [job : J, busy : BOOLEAN]]
         /\ \A q \in Procs : tool'[q].job = tool[q].job
  <1>1. [tool[p] EXCEPT !.busy = TRUE] \in [job : J, busy : BOOLEAN]
      OBVIOUS
  <1>2. [tool[p] EXCEPT !.busy = TRUE].job = tool[p].job
      OBVIOUS
  <1>3. tool' = [tool EXCEPT ![p] = [tool[p] EXCEPT !.busy = TRUE]]
      OBVIOUS
  <1>4. QED
      BY <1>1, <1>2, <1>3

\* A step of a programming command keeps it at its plan, its vendor program at its
\* step, and the lock held while it is needed.
LEMMA RunKeepsLock ==
  ASSUME RunPlace, ToolPlace, LockHeld, NEW p \in Procs,
         Step(p) \/ Device(p) \/ Killed(p), UNCHANGED <<bondVars, msdVars>>
  PROVE  RunPlace' /\ ToolPlace' /\ LockHeld'
  <1> USE ProbeRunAssumption DEF RunPlace, ToolPlace, LockHeld, RunLocked, Steps, bondVars, msdVars,
      procVars, boardVars
  <1>0. op[p] \in Ops /\ pc[p] \in PlanSteps(op[p]) \cup {"idle", "ended", "killed"}
      OBVIOUS
  <1>n. pc[p] \in PlanSteps(op[p]) =>
          /\ pc[p] # "close" =>
                After(op[p], pc[p]) \in PlanSteps(op[p]) /\ After(op[p], pc[p]) \in Steps
          /\ pc[p] \in RunLocked \cup {"lock"} /\ pc[p] # "unlock" =>
                After(op[p], pc[p]) \in RunLocked
          /\ pc[p] \in {"load", "select", "unlock", "validate"} =>
                After(op[p], pc[p]) \in {"select", "lock", "validate", "close"}
          /\ pc[p] \in {"server", "gdb"} => op[p] \in {"gdb", "debug"}
          /\ op[p] \in {"gdb", "debug"} /\ pc[p] \in {"server", "gdb", "token"} =>
                After(op[p], pc[p]) \in {"gdb", "token", "stop"}
      BY <1>0, PlanOrder
  <1>1. CASE Load(p)
      BY <1>0, <1>n, <1>1 DEF Load, Advance
  <1>2. CASE Select(p)
      BY <1>0, <1>n, <1>2 DEF Select, Advance
  <1>3. CASE Lock(p)
      BY <1>0, <1>n, <1>3 DEF Lock, Advance
  <1>4. CASE Snapshot(p)
      BY <1>0, <1>n, <1>4 DEF Snapshot, Advance, Content
  <1>5. CASE SpawnTool(p)
      BY <1>0, <1>n, <1>5 DEF SpawnTool, Advance, Spawn, StepJob, NoTool
  <1>6. CASE Program(p)
    <2>1. CASE pc' = pc
        BY <1>6, <2>1 DEF Program, NoTool
    <2>2. CASE Advance(p)
        BY <1>0, <1>n, <1>6, <2>2 DEF Program, Advance, NoTool
    <2>3. QED
        BY <1>6, <2>1, <2>2 DEF Program
  <1>7. CASE Serial(p)
      BY <1>0, <1>n, <1>7 DEF Serial, Advance
  <1>8. CASE ServerReady(p)
      BY <1>0, <1>n, <1>8 DEF ServerReady, Advance
  <1>9. CASE Gdb(p)
      BY <1>0, <1>n, <1>9 DEF Gdb, Advance
  <1>10. CASE Reset(p)
      BY <1>0, <1>n, <1>10 DEF Reset, Advance, NoTool
  <1>11. CASE Token(p)
      BY <1>0, <1>n, <1>11 DEF Token, Advance
  <1>12. CASE StopServer(p)
      BY <1>0, <1>n, <1>12 DEF StopServer, Advance, NoTool
  <1>13. CASE Unlock(p)
    <2>1. lock = p /\ lock' = NoProc /\ UNCHANGED <<op, want, tool>> /\ pc[p] = "unlock"
        BY <1>13 DEF Unlock
    <2>2. ASSUME NEW n \in {"close", "validate"}, n \in PlanSteps(op[p]),
                 pc' = [pc EXCEPT ![p] = n]
          PROVE  RunPlace' /\ ToolPlace' /\ LockHeld'
        BY <2>1, <2>2 DEF BondLocked, MsdLocked
    <2>3. After(op[p], "unlock") \in {"close", "validate"}
          /\ After(op[p], "unlock") \in PlanSteps(op[p]) /\ "close" \in PlanSteps(op[p])
        BY <1>0, <2>1, PlanOrder, PlanHas
    <2>4. QED
        BY <1>13, <2>2, <2>3 DEF Unlock
  <1>14. CASE Validate(p)
      BY <1>0, <1>n, <1>14 DEF Validate, Advance
  <1>15. CASE Raise(p)
    <2>1. "unlock" \in PlanSteps(op[p]) /\ "close" \in PlanSteps(op[p])
        BY <1>0, PlanHas
    <2>2. CASE lock = p
        BY <1>15, <2>1, <2>2 DEF Raise, Body, NoTool
    <2>3. CASE lock # p
        BY <1>15, <2>1, <2>3 DEF Raise, Body, NoTool, BondLocked, MsdLocked
    <2>4. QED
        BY <2>2, <2>3
  <1>16. CASE Killed(p)
    <2>1. CASE lock = p
        BY <1>16, <2>1 DEF Killed, BondLocked, MsdLocked
    <2>2. CASE lock # p
        BY <1>16, <2>2 DEF Killed, BondLocked, MsdLocked
    <2>3. QED
        BY <2>1, <2>2
  <1>17. CASE ToolBegins(p)
    <2>1. tool' = [tool EXCEPT ![p].busy = TRUE] /\ UNCHANGED <<op, want, pc, lock>>
        BY <1>17 DEF ToolBegins
    <2>2. /\ tool' \in [Procs -> [job : {"none", "program", "reset", "server", "exited"},
                                  busy : BOOLEAN]]
          /\ \A q \in Procs : tool'[q].job = tool[q].job
        BY <2>1, BeginsKeepsJob
    <2>3. QED
        BY <2>1, <2>2
  <1>18. CASE ToolEnds(p)
      BY <1>18 DEF ToolEnds
  <1>19. CASE OrphanExits(p)
      BY <1>19 DEF OrphanExits, NoTool
  <1>20. ASSUME NEW closed \in BOOLEAN, Close(p, closed) PROVE RunPlace' /\ ToolPlace' /\ LockHeld'
      BY <1>20 DEF Close
  <1>21. QED
      BY <1>1, <1>2, <1>3, <1>4, <1>5, <1>6, <1>7, <1>8, <1>9, <1>10, <1>11, <1>12, <1>13,
         <1>14, <1>15, <1>16, <1>17, <1>18, <1>19, <1>20 DEF Step, Device

\* A step of a bond clear, or of its nrfutil, keeps the lock held where it is needed.
LEMMA BondKeepsLock ==
  ASSUME LockHeld, NEW p \in Procs,
         (Fresh(p) /\ Bond!Start(p)) \/ Bond!Step(p) \/ Bond!ToolEnds(p) \/ Bond!Killed(p),
         UNCHANGED <<runVars, msdVars>>
  PROVE  LockHeld'
  <1> USE ProbeRunAssumption DEF LockHeld, RunLocked, BondLocked, MsdLocked, BondPlaces,
      MsdPlaces, runVars, msdVars, procVars, Fresh
  <1>1. CASE Fresh(p) /\ Bond!Start(p)
      BY <1>1 DEF Bond!Start, Bond!Goto
  <1>2. CASE Bond!Lock(p)
      BY <1>2 DEF Bond!Lock, Bond!Goto
  <1>3. CASE Bond!Backup(p)
      BY <1>3 DEF Bond!Backup, Bond!Goto
  <1>4. CASE Bond!Erase(p)
      BY <1>4 DEF Bond!Erase, Bond!Goto, Bond!Program
  <1>5. CASE Bond!Readback(p)
      BY <1>5 DEF Bond!Readback, Bond!Goto
  <1>6. CASE Bond!Reset(p)
      BY <1>6 DEF Bond!Reset, Bond!Goto
  <1>7. CASE Bond!Raise(p)
      BY <1>7 DEF Bond!Raise, Bond!Goto, Bond!Body
  <1>8. CASE Bond!RestoreProgram(p)
      BY <1>8 DEF Bond!RestoreProgram, Bond!Goto, Bond!Program
  <1>9. CASE Bond!RestoreReadback(p)
      BY <1>9 DEF Bond!RestoreReadback, Bond!Goto
  <1>10. CASE Bond!RestoreRaise(p)
      BY <1>10 DEF Bond!RestoreRaise, Bond!Goto, Bond!Restores
  <1>11. CASE Bond!ToolEnds(p)
      BY <1>11 DEF Bond!ToolEnds
  <1>12. CASE Bond!Killed(p)
      BY <1>12 DEF Bond!Killed, Bond!Goto, Bond!Body, Bond!Restores
  <1>13. QED
      BY <1>1, <1>2, <1>3, <1>4, <1>5, <1>6, <1>7, <1>8, <1>9, <1>10, <1>11, <1>12 DEF Bond!Step

\* A step of a command that switches the mass-storage interface does too.
LEMMA MsdKeepsLock ==
  ASSUME LockHeld, NEW p \in Procs,
         \/ Fresh(p) /\ \E k \in Msd!Kinds, a \in BOOLEAN : Msd!Start(p, k, a)
         \/ Msd!Step(p),
         UNCHANGED <<runVars, bondVars>>
  PROVE  LockHeld'
  <1> USE ProbeRunAssumption DEF LockHeld, RunLocked, BondLocked, MsdLocked, BondPlaces,
      MsdPlaces, runVars, bondVars, procVars, Fresh
  <1>1. CASE Msd!SelectSwitch(p)
      BY <1>1 DEF Msd!SelectSwitch, Msd!Goto
  <1>2. CASE Msd!SelectGate(p)
      BY <1>2 DEF Msd!SelectGate, Msd!Goto
  <1>3. CASE Msd!Lock(p)
      BY <1>3 DEF Msd!Lock, Msd!Goto
  <1>4. CASE Msd!Configure(p)
      BY <1>4 DEF Msd!Configure, Msd!Goto
  <1>5. CASE Msd!Reboot(p)
      BY <1>5 DEF Msd!Reboot, Msd!Goto
  <1>6. CASE Msd!Verify(p)
      BY <1>6 DEF Msd!Verify, Msd!Goto
  <1>7. CASE Msd!ChildBegin(p)
      BY <1>7 DEF Msd!ChildBegin, Msd!Goto
  <1>8. CASE Msd!ChildEnd(p)
      BY <1>8 DEF Msd!ChildEnd, Msd!Goto
  <1>9. CASE Msd!Final(p)
      BY <1>9 DEF Msd!Final, Msd!Goto
  <1>10. CASE Msd!Raise(p)
      BY <1>10 DEF Msd!Raise, Msd!Goto, Msd!Restoring
  <1>11. CASE Msd!Finish(p)
      BY <1>11 DEF Msd!Finish, Msd!Goto
  <1>12. ASSUME NEW k \in Msd!Kinds, NEW a \in BOOLEAN,
                Fresh(p), Msd!Start(p, k, a)
         PROVE  LockHeld'
      BY <1>12 DEF Msd!Start, Msd!Goto
  <1>13. QED
      BY <1>1, <1>2, <1>3, <1>4, <1>5, <1>6, <1>7, <1>8, <1>9, <1>10, <1>11, <1>12 DEF Msd!Step

\* The places, the vendor programs and the lock agree in every reachable state.
LEMMA LockStep == LockInv /\ [BenchNext]_benchVars => LockInv'
  <1> SUFFICES ASSUME LockInv, [BenchNext]_benchVars PROVE LockInv'
      OBVIOUS
  <1> USE DEF LockInv
  <1>1. UNCHANGED <<op, want, pc, tool>> /\ UNCHANGED <<bondVars, msdVars, lock>> => LockInv'
      BY DEF RunPlace, ToolPlace, LockHeld, bondVars, msdVars
  <1>2. UNCHANGED runVars => RunPlace' /\ ToolPlace'
      BY DEF RunPlace, ToolPlace, runVars, procVars
  <1>3. ASSUME NEW p \in Procs, NEW o \in Ops, NEW m \in Manifests, Fresh(p), Start(p, o, m),
               UNCHANGED <<bondVars, msdVars>>
        PROVE  LockInv'
    <2>1. "load" \in PlanSteps(o) /\ "load" \in Steps
        BY PlanHas DEF Steps
    <2>2. RunPlace'
        BY <1>3, <2>1 DEF Start, RunPlace
    <2>3. ToolPlace'
        BY <1>3 DEF Start, RunPlace, ToolPlace
    <2>4. LockHeld'
        BY <1>3 DEF Start, RunPlace, LockHeld, Fresh, RunLocked, bondVars, msdVars
    <2>5. QED
        BY <2>2, <2>3, <2>4
  <1>4. ASSUME NEW p \in Procs, Begin(p) PROVE LockInv'
      BY <1>2, <1>3, <1>4, BondKeepsLock, MsdKeepsLock DEF Begin
  <1>5. ASSUME NEW p \in Procs, RunStep(p) PROVE LockInv'
      BY <1>5, RunKeepsLock DEF RunStep
  <1>6. ASSUME NEW p \in Procs, BondStep(p) PROVE LockInv'
      BY <1>2, <1>6, BondKeepsLock DEF BondStep
  <1>7. ASSUME NEW p \in Procs, MsdStep(p) PROVE LockInv'
      BY <1>2, <1>7, MsdKeepsLock DEF MsdStep
  <1>8. ASSUME NEW p \in Procs, Kill(p) PROVE LockInv'
      BY <1>2, <1>8, RunKeepsLock, BondKeepsLock DEF Kill
  <1>9. ASSUME EmitToken \/ \E m \in Manifests, i \in Images : Rebuild(m, i),
               UNCHANGED <<bondVars, msdVars>>
        PROVE  LockInv'
      BY <1>1, <1>9 DEF EmitToken, Rebuild, procVars
  <1>10. CASE UNCHANGED benchVars
      BY <1>1, <1>10 DEF benchVars, vars, procVars
  <1>11. QED
      BY <1>4, <1>5, <1>6, <1>7, <1>8, <1>9, <1>10 DEF BenchNext

\* No command has started: nobody holds the lock (Init of the three kinds).
LEMMA LockStart == BenchInit => LockInv
  BY ProbeRunAssumption DEF BenchInit, Init, Bond!Init, Msd!Init, LockInv, RunPlace, ToolPlace,
     LockHeld, NoTool, Ops, RunLocked, BondLocked, MsdLocked, BondPlaces, MsdPlaces

-----------------------------------------------------------------------------
\* Each nrfutil programs a copy that was compared with its manifest (_snapshot_hexes):
\* the copies stay what they were until the program is gone.
LEMMA CopiesStep ==
  ASSUME LockInv, CopiesAudited, [BenchNext]_benchVars
  PROVE  CopiesAudited'
  <1> USE ProbeRunAssumption DEF LockInv, RunPlace, ToolPlace, CopiesAudited, procVars, boardVars
  <1>1. UNCHANGED <<snapshot, pc, tool>> => CopiesAudited'
      OBVIOUS
  <1>2. ASSUME NEW p \in Procs, NEW l, l # "program", pc' = [pc EXCEPT ![p] = l],
               UNCHANGED <<snapshot, tool>>
        PROVE  CopiesAudited'
      BY <1>2
  <1>3. ASSUME NEW p \in Procs, pc[p] \in PlanSteps(op[p]), pc[p] \notin {"close", "snapshot"}
        PROVE  After(op[p], pc[p]) # "program"
      BY <1>3, PlanOrder
  <1>4. ASSUME NEW p \in Procs, NEW l, NEW n, l # "program" \/ pc[p] = "program",
               n.job \in {"program"} => tool[p].job = "program" \/ pc[p] = "program",
               pc' = [pc EXCEPT ![p] = l],
               tool' = [tool EXCEPT ![p] = n], UNCHANGED snapshot
        PROVE  CopiesAudited'
      BY <1>4
  <1>5. ASSUME NEW p \in Procs, RunStep(p) PROVE CopiesAudited'
    <2>0. pc[p] \in PlanSteps(op[p]) \cup {"idle", "ended", "killed"}
        OBVIOUS
    <2>1. CASE Load(p) \/ Select(p) \/ Lock(p) \/ Serial(p) \/ ServerReady(p) \/ Gdb(p) \/ Token(p)
               \/ Validate(p)
      <3>1. pc' = [pc EXCEPT ![p] = After(op[p], pc[p])] /\ UNCHANGED <<snapshot, tool>>
            /\ pc[p] \in {"load", "select", "lock", "serial", "server", "gdb", "token", "validate"}
          BY <2>1 DEF Load, Select, Lock, Serial, ServerReady, Gdb, Token, Validate, Advance
      <3>2. QED
          BY <1>2, <1>3, <2>0, <3>1
    <2>2. CASE Snapshot(p)
      <3>1. /\ snapshot' = [snapshot EXCEPT ![p] = [i \in Images |-> Content(want[p], i)]]
            /\ \A i \in Images : snapshot'[p][i] = want[p]
            /\ UNCHANGED tool /\ pc[p] = "snapshot"
            /\ \A q \in Procs \ {p} : pc'[q] = pc[q]
          BY <2>2 DEF Snapshot, Advance
      <3>2. \A i \in Images : Content(want[p], i) \in Manifests \cup {Other}
          BY DEF Content
      <3>3. snapshot' \in [Procs -> [Images -> Manifests \cup {Other}]]
          BY <3>1, <3>2
      <3>4. ASSUME NEW q \in Procs, pc'[q] = "program" \/ tool'[q].job = "program", NEW i \in Images
            PROVE  snapshot'[q][i] \in Manifests
          BY <3>1, <3>4
      <3>5. QED
          BY <3>3, <3>4
    <2>3. CASE SpawnTool(p)
      <3>1. /\ tool' = [tool EXCEPT ![p] = [job |-> StepJob(pc[p]), busy |-> FALSE]]
            /\ UNCHANGED <<pc, snapshot>>
          BY <2>3 DEF SpawnTool, Spawn
      <3>2. StepJob(pc[p]) = "program" => pc[p] = "program"
          BY DEF StepJob
      <3>3. ASSUME NEW q \in Procs, tool'[q].job = "program"
            PROVE  tool[q].job = "program" \/ pc[q] = "program"
          BY <3>1, <3>2, <3>3
      <3>4. QED
          BY <3>1, <3>3
    <2>4. CASE Program(p) \/ Reset(p) \/ StopServer(p)
      <3>1. tool' = [tool EXCEPT ![p] = NoTool] /\ NoTool.job = "none" /\ UNCHANGED snapshot
          BY <2>4 DEF Program, Reset, StopServer, NoTool
      <3>2. \/ pc' = pc /\ pc[p] = "program"
            \/ /\ pc' = [pc EXCEPT ![p] = After(op[p], pc[p])]
               /\ pc[p] \in {"program", "reset", "stop"}
          BY <2>4 DEF Program, Reset, StopServer, Advance
      <3>3. QED
          BY <1>3, <2>0, <3>1, <3>2
    <2>5. CASE Unlock(p)
      <3>1. "unlock" \in PlanSteps(op[p]) /\ pc[p] = "unlock"
          BY <2>5, PlanHas DEF Unlock
      <3>2. QED
          BY <1>2, <1>3, <2>5, <3>1 DEF Unlock
    <2>6. CASE Raise(p)
        BY <1>4, <2>6 DEF Raise, NoTool
    <2>7. CASE \E closed \in BOOLEAN : Close(p, closed)
        BY <1>2, <2>7 DEF Close
    <2>8. CASE ToolBegins(p)
      <3>1. tool' = [tool EXCEPT ![p].busy = TRUE] /\ UNCHANGED <<pc, snapshot>>
          BY <2>8 DEF ToolBegins
      <3>2. \A q \in Procs : tool'[q].job = tool[q].job
          BY <3>1
      <3>3. QED
          BY <3>1, <3>2
    <2>9. CASE ToolEnds(p)
        BY <2>9 DEF ToolEnds
    <2>10. CASE OrphanExits(p)
        BY <2>10 DEF OrphanExits, NoTool
    <2>11. QED
        BY <1>5, <2>1, <2>2, <2>3, <2>4, <2>5, <2>6, <2>7, <2>8, <2>9, <2>10
           DEF RunStep, Step, Device
  <1>6. ASSUME NEW p \in Procs, Begin(p) PROVE CopiesAudited'
    <2>1. CASE \E o \in Ops, m \in Manifests : Start(p, o, m)
        BY <1>2, <2>1 DEF Start
    <2>2. CASE UNCHANGED runVars
        BY <1>1, <2>2 DEF runVars
    <2>3. QED
        BY <1>6, <2>1, <2>2 DEF Begin
  <1>7. ASSUME NEW p \in Procs, BondStep(p) \/ MsdStep(p) PROVE CopiesAudited'
      BY <1>1, <1>7 DEF BondStep, MsdStep, runVars
  <1>8. ASSUME NEW p \in Procs, Kill(p) PROVE CopiesAudited'
      BY <1>1, <1>2, <1>8 DEF Kill, Killed, runVars
  <1>9. CASE EmitToken \/ \E m \in Manifests, i \in Images : Rebuild(m, i)
      BY <1>1, <1>9 DEF EmitToken, Rebuild
  <1>10. CASE UNCHANGED benchVars
      BY <1>1, <1>10 DEF benchVars, vars
  <1>11. QED
      BY <1>5, <1>6, <1>7, <1>8, <1>9, <1>10 DEF BenchNext

\* Only nrfutil writes the board, and only audited copies (ToolBegins, ToolEnds).
LEMMA BoardStep ==
  ASSUME LockInv, CopiesAudited, BoardHolds, [BenchNext]_benchVars
  PROVE  /\ BoardHolds'
         /\ \A i \in Images : board'[i] # board[i] => board'[i] \in Manifests \cup {Torn}
  <1> USE DEF BoardHolds, boardVars, procVars
  <1>1. CASE UNCHANGED board
      BY <1>1
  <1>2. ASSUME NEW p \in Procs, NEW v, v \in Manifests \cup {Torn} \/ NextImage(p) \notin Images,
               board' = [board EXCEPT ![NextImage(p)] = v]
        PROVE  /\ BoardHolds'
               /\ \A i \in Images : board'[i] # board[i] => board'[i] \in Manifests \cup {Torn}
      BY <1>2
  <1>3. ASSUME NEW p \in Procs, ToolBegins(p), board' # board
        PROVE  board' = [board EXCEPT ![NextImage(p)] = Torn]
      BY <1>3 DEF ToolBegins
  <1>4. ASSUME NEW p \in Procs, ToolEnds(p), board' # board
        PROVE  /\ board' = [board EXCEPT ![NextImage(p)] = snapshot[p][NextImage(p)]]
               /\ NextImage(p) \in Images => snapshot[p][NextImage(p)] \in Manifests
      BY <1>4 DEF ToolEnds, CopiesAudited
  <1>5. ASSUME NEW p \in Procs, RunStep(p), ~ToolBegins(p), ~ToolEnds(p) PROVE UNCHANGED board
      BY <1>5 DEF RunStep, Step, Device, Load, Select, Lock, Snapshot, SpawnTool, Program, Serial,
         ServerReady, Gdb, Reset, Token, StopServer, Unlock, Validate, Raise, Close, OrphanExits
  <1>6. ASSUME NEW p \in Procs, Begin(p) \/ BondStep(p) \/ MsdStep(p) \/ Kill(p)
        PROVE  UNCHANGED board
      BY <1>6 DEF Begin, BondStep, MsdStep, Kill, Start, Killed, runVars
  <1>7. CASE EmitToken \/ \E m \in Manifests, i \in Images : Rebuild(m, i)
      BY <1>1, <1>7 DEF EmitToken, Rebuild
  <1>8. CASE UNCHANGED benchVars
      BY <1>1, <1>8 DEF benchVars, vars
  <1>9. ASSUME NEW p \in Procs, RunStep(p)
        PROVE  /\ BoardHolds'
               /\ \A i \in Images : board'[i] # board[i] => board'[i] \in Manifests \cup {Torn}
      BY <1>1, <1>2, <1>3, <1>4, <1>5, <1>9
  <1>10. QED
      BY <1>1, <1>6, <1>7, <1>8, <1>9 DEF BenchNext

-----------------------------------------------------------------------------
\* A command that resets a board whose serial port it reads hears the token of
\* that boot: the port is its own, and another reset starts another boot.
LEMMA BurstStep ==
  ASSUME LockInv, BurstHeard, [BenchNext]_benchVars
  PROVE  BurstHeard'
  <1> USE ProbeRunAssumption DEF procVars, boardVars
  <1>p. \A p \in Procs : /\ op[p] \in Ops
                         /\ pc[p] \in PlanSteps(op[p]) \cup {"idle", "ended", "killed"}
      BY DEF LockInv, RunPlace
  <1>t. /\ pc \in [Procs -> Steps \cup {"idle", "ended", "killed"}]
        /\ tool \in [Procs -> [job : {"none", "program", "reset", "server", "exited"},
                               busy : BOOLEAN]]
        /\ \A p \in Procs : pc[p] # "killed" =>
            /\ tool[p].job = "program" => pc[p] = "program"
            /\ tool[p].job = "reset" => pc[p] = "reset"
            /\ tool[p].job = "exited" => pc[p] \in {"program", "reset"}
      BY DEF LockInv, RunPlace, ToolPlace
  <1>1. UNCHANGED <<op, want, pc, heard, was_reset, tty, tool, burst, running>> => BurstHeard'
      BY DEF BurstHeard
  <1>2. ASSUME NEW p \in Procs, pc[p] \in PlanSteps(op[p]), pc[p] # "close", op[p] = "run"
        PROVE  /\ pc[p] # "serial" => After(op[p], pc[p]) # "reset"
               /\ pc[p] # "reset" => After(op[p], pc[p]) # "token"
      BY <1>2, <1>p, PlanOrder
  \* Steps that neither reset the board nor reach a reset or a token.
  <1>3. ASSUME NEW p \in Procs, NEW l, op[p] = "run" => l \notin {"reset", "token"},
               pc' = [pc EXCEPT ![p] = l], \A q \in Procs \ {p} : tool'[q] = tool[q],
               \A q \in Procs \ {p} : tty = q => tty' = q,
               UNCHANGED <<op, want, heard, was_reset, running, burst>>
        PROVE  BurstHeard'
    <2>1. ASSUME NEW q \in Procs, op[q] = "run", pc'[q] \in {"reset", "token"}
          PROVE  q # p /\ pc'[q] = pc[q] /\ tool'[q] = tool[q] /\ tty = q /\ tty' = q
        BY <1>t, <1>3, <2>1 DEF BurstHeard
    <2>2. QED
        BY <1>3, <2>1 DEF BurstHeard
  <1>4. ASSUME NEW p \in Procs, RunStep(p) PROVE BurstHeard'
    <2>0. pc[p] \in PlanSteps(op[p]) \cup {"idle", "ended", "killed"}
        BY <1>p
    <2>1. CASE Load(p) \/ Select(p) \/ Lock(p) \/ Snapshot(p) \/ ServerReady(p) \/ Token(p)
               \/ Validate(p) \/ StopServer(p)
      <3>1. /\ pc' = [pc EXCEPT ![p] = After(op[p], pc[p])]
            /\ \A q \in Procs \ {p} : tool'[q] = tool[q]
            /\ UNCHANGED <<op, want, heard, was_reset, tty, running, burst>>
            /\ pc[p] \in {"load", "select", "lock", "snapshot", "server", "token", "validate",
                          "stop"}
          BY <1>t, <2>1 DEF Load, Select, Lock, Snapshot, ServerReady, Token, Validate, StopServer,
             Advance
      <3>2. QED
          BY <1>2, <1>3, <2>0, <3>1
    <2>2. CASE SpawnTool(p) \/ OrphanExits(p) \/ ToolBegins(p)
      <3>1. /\ UNCHANGED <<op, want, pc, heard, was_reset, tty, running, burst>>
            /\ \A q \in Procs \ {p} : tool'[q] = tool[q]
            /\ pc[p] # "killed" => tool'[p].job # "exited"
          BY <1>t, <2>2 DEF SpawnTool, OrphanExits, ToolBegins, Spawn, StepJob
      <3>2. QED
          BY <3>1 DEF BurstHeard
    <2>3. CASE Program(p)
      <3>1. CASE pc' = pc
          BY <1>t, <2>3, <3>1 DEF Program, NoTool, BurstHeard
      <3>2. CASE Advance(p)
          BY <1>t, <1>2, <1>3, <2>0, <2>3, <3>2 DEF Program, Advance
      <3>3. QED
          BY <2>3, <3>1, <3>2 DEF Program
    <2>4. CASE Serial(p)
      <3>1. /\ tty = NoProc /\ tty' = p /\ pc[p] = "serial"
            /\ pc' = [pc EXCEPT ![p] = After(op[p], pc[p])]
            /\ UNCHANGED <<op, want, heard, was_reset, tool, running, burst>>
          BY <2>4 DEF Serial, Advance
      <3>2. op[p] = "run" => pc'[p] # "token" /\ tool[p].job # "exited"
          BY <1>t, <1>2, <2>0, <3>1
      <3>3. \A q \in Procs \ {p} : op[q] = "run" => pc'[q] \notin {"reset", "token"}
          BY <1>t, <3>1 DEF BurstHeard
      <3>4. QED
          BY <3>1, <3>2, <3>3 DEF BurstHeard
    <2>5. CASE Gdb(p)
      <3>1. /\ burst' = TRUE /\ was_reset' = [was_reset EXCEPT ![p] = TRUE] /\ pc[p] = "gdb"
            /\ pc' = [pc EXCEPT ![p] = After(op[p], pc[p])]
            /\ UNCHANGED <<op, want, heard, tool, tty>>
          BY <2>5 DEF Gdb, Advance
      <3>2. op[p] # "run"
          BY <1>p, <2>0, <3>1, PlanOrder
      <3>3. QED
          BY <1>t, <3>1, <3>2 DEF BurstHeard
    <2>6. CASE Reset(p)
      <3>1. /\ pc[p] = "reset" /\ tool[p].job = "exited" /\ tool' = [tool EXCEPT ![p] = NoTool]
            /\ pc' = [pc EXCEPT ![p] = After(op[p], pc[p])]
            /\ UNCHANGED <<op, want, heard, was_reset, tty, running, burst>>
          BY <2>6 DEF Reset, Advance
      <3>2. QED
          BY <1>t, <3>1 DEF NoTool, BurstHeard
    <2>7. CASE Unlock(p)
      <3>1. "unlock" \in PlanSteps(op[p]) /\ pc[p] = "unlock"
          BY <1>p, <2>7, PlanHas DEF Unlock
      <3>2. QED
          BY <1>2, <1>3, <2>7, <3>1 DEF Unlock
    <2>8. CASE Raise(p)
        BY <1>t, <1>3, <2>8 DEF Raise
    <2>9. CASE \E closed \in BOOLEAN : Close(p, closed)
        BY <1>3, <2>9 DEF Close
    <2>10. CASE ToolEnds(p)
      <3>1. CASE tool[p].job = "program"
        <4>1. /\ UNCHANGED <<op, want, pc, heard, was_reset, tty, running, burst>>
              /\ \A q \in Procs \ {p} : tool'[q] = tool[q]
              /\ pc[p] \in {"program", "killed"}
            BY <1>t, <2>10, <3>1 DEF ToolEnds
        <4>2. QED
            BY <4>1 DEF BurstHeard
      <3>2. CASE tool[p].job = "reset"
        <4>1. /\ UNCHANGED <<op, want, pc, heard, tty>> /\ burst' = TRUE
              /\ \A q \in Procs \ {p} : tool'[q] = tool[q]
              /\ was_reset' = [was_reset EXCEPT ![p] = TRUE]
              /\ pc[p] \in {"reset", "killed"}
            BY <1>t, <2>10, <3>2 DEF ToolEnds
        <4>2. QED
            BY <4>1 DEF BurstHeard
      <3>3. QED
          BY <2>10, <3>1, <3>2 DEF ToolEnds
    <2>11. QED
        BY <1>4, <2>1, <2>2, <2>3, <2>4, <2>5, <2>6, <2>7, <2>8, <2>9, <2>10
           DEF RunStep, Step, Device
  <1>5. ASSUME NEW p \in Procs, Begin(p) PROVE BurstHeard'
    <2>1. CASE \E o \in Ops, m \in Manifests : Start(p, o, m)
        BY <1>t, <2>1 DEF Start, BurstHeard
    <2>2. CASE UNCHANGED runVars
        BY <1>1, <2>2 DEF runVars
    <2>3. QED
        BY <1>5, <2>1, <2>2 DEF Begin
  <1>6. ASSUME NEW p \in Procs, BondStep(p) \/ MsdStep(p) PROVE BurstHeard'
      BY <1>1, <1>6 DEF BondStep, MsdStep, runVars
  <1>7. ASSUME NEW p \in Procs, Kill(p) PROVE BurstHeard'
    <2>1. CASE Killed(p)
        BY <1>3, <2>1 DEF Killed
    <2>2. CASE UNCHANGED runVars
        BY <1>1, <2>2 DEF runVars
    <2>3. QED
        BY <1>7, <2>1, <2>2 DEF Kill
  <1>8. CASE EmitToken
    <2>1. PICK m \in Manifests :
            /\ \A i \in Images : running[i] = m
            /\ IF tty = NoProc
               THEN UNCHANGED heard
               ELSE heard' = [heard EXCEPT ![tty] =
                                @ \cup {<<m, IF was_reset[tty] THEN "reset" ELSE "open">>}]
        BY <1>8 DEF EmitToken
    <2>2. UNCHANGED <<op, want, pc, was_reset, tty, tool, running>> /\ burst' = FALSE
        BY <1>8 DEF EmitToken
    <2>3. heard' \in [Procs -> SUBSET (Manifests \X {"open", "reset"})]
        BY <2>1 DEF BurstHeard
    <2>4. 1 \in Images
        BY DEF Images
    <2>5. ASSUME NEW p \in Procs, tty = p, was_reset[p], \A i \in Images : running[i] = want[p]
          PROVE  <<want[p], "reset">> \in heard'[p]
        BY <2>1, <2>4, <2>5 DEF BurstHeard
    <2>6. QED
        BY <2>2, <2>3, <2>5 DEF BurstHeard
  <1>9. CASE \E m \in Manifests, i \in Images : Rebuild(m, i)
      BY <1>1, <1>9 DEF Rebuild
  <1>10. CASE UNCHANGED benchVars
      BY <1>1, <1>10 DEF benchVars, vars
  <1>11. QED
      BY <1>4, <1>5, <1>6, <1>7, <1>8, <1>9, <1>10 DEF BenchNext

-----------------------------------------------------------------------------
\* The settings region and the records of m6-bond-clear keep agreeing, whichever
\* command writes between the erasure and the restoration.
LEMMA BondStepKeeps ==
  ASSUME bondPc \in [Procs -> BondPlaces], BondInv, NEW p \in Procs,
         Bond!Start(p) \/ Bond!Step(p) \/ Bond!ToolEnds(p) \/ Bond!Killed(p)
  PROVE  BondInv'
  <1> USE DEF BondInv, BondPlaces, BondLocked, Bond!Contents, Bond!Restores
  <1>1. CASE Bond!Start(p)
      BY <1>1 DEF Bond!Start, Bond!Goto
  <1>2. CASE Bond!Lock(p)
      BY <1>2 DEF Bond!Lock, Bond!Goto
  <1>3. CASE Bond!Backup(p)
      BY <1>3 DEF Bond!Backup, Bond!Goto
  <1>4. CASE Bond!Erase(p)
      BY <1>4 DEF Bond!Erase, Bond!Goto, Bond!Program
  <1>5. CASE Bond!Readback(p)
      BY <1>5 DEF Bond!Readback, Bond!Goto
  <1>6. CASE Bond!Reset(p)
      BY <1>6 DEF Bond!Reset, Bond!Goto
  <1>7. CASE Bond!Raise(p)
      BY <1>7, ZenonT(60) DEF Bond!Raise, Bond!Goto, Bond!Body, Bond!NeedsRestore
  <1>8. CASE Bond!RestoreProgram(p)
      BY <1>8 DEF Bond!RestoreProgram, Bond!Goto, Bond!Program
  <1>9. CASE Bond!RestoreReadback(p)
      BY <1>9 DEF Bond!RestoreReadback, Bond!Goto
  <1>10. CASE Bond!RestoreRaise(p)
      BY <1>10 DEF Bond!RestoreRaise, Bond!Goto
  <1>11. CASE Bond!ToolEnds(p)
      BY <1>11 DEF Bond!ToolEnds
  <1>12. CASE Bond!Killed(p)
      BY <1>12 DEF Bond!Killed, Bond!Goto, Bond!Body
  <1>13. QED
      BY <1>1, <1>2, <1>3, <1>4, <1>5, <1>6, <1>7, <1>8, <1>9, <1>10, <1>11, <1>12 DEF Bond!Step

\* So do the probe's mass-storage setting and the reports about it; the lock keeps
\* the other commands out from the stored setting to its verification.
LEMMA MsdStepKeeps ==
  ASSUME LockHeld, MsdInv, NEW p \in Procs,
         (\E k \in Msd!Kinds, a \in BOOLEAN : Msd!Start(p, k, a)) \/ Msd!Step(p)
  PROVE  MsdInv'
  <1>l. /\ msdPc \in [Procs -> MsdPlaces]
        /\ \A q \in Procs : msdPc[q] \in MsdLocked => lock = q
      BY DEF LockHeld
  <1> USE <1>l DEF MsdInv, MsdPlaces, MsdLocked, Msd!Kinds, Msd!Setting, Msd!Restoring, Msd!Goto,
      Msd!Target
  <1>1. CASE Msd!SelectSwitch(p)
      BY <1>1 DEF Msd!SelectSwitch
  <1>2. CASE Msd!SelectGate(p)
      BY <1>2 DEF Msd!SelectGate
  <1>3. CASE Msd!Lock(p)
      BY <1>3 DEF Msd!Lock
  <1>4. CASE Msd!Configure(p)
      BY <1>4 DEF Msd!Configure
  <1>5. CASE Msd!Reboot(p)
      BY <1>5 DEF Msd!Reboot
  <1>6. CASE Msd!Verify(p)
      BY <1>6 DEF Msd!Verify
  <1>7. CASE Msd!ChildBegin(p)
      BY <1>7 DEF Msd!ChildBegin
  <1>8. CASE Msd!ChildEnd(p)
      BY <1>8 DEF Msd!ChildEnd
  <1>9. CASE Msd!Final(p)
      BY <1>9 DEF Msd!Final
  <1>10. CASE Msd!Raise(p)
    <2>1. /\ UNCHANGED <<kind, original, restore_msd, msdStatus, restored, config, exposed,
                         msdWriter>>
          /\ msdPc[p] \notin {"idle", "finish", "done"}
        BY <1>10 DEF Msd!Raise
    <2>2. CASE msdPc[p] \in Msd!Restoring
      <3>1. /\ restoration_error' = [restoration_error EXCEPT ![p] = TRUE]
            /\ UNCHANGED operation_error /\ msdPc' = [msdPc EXCEPT ![p] = "finish"]
          BY <1>10, <2>2 DEF Msd!Raise
      <3>2. QED
          BY <2>1, <2>2, <3>1
    <2>3. CASE msdPc[p] \notin Msd!Restoring
      <3>1. operation_error' = [operation_error EXCEPT ![p] = TRUE] /\ UNCHANGED restoration_error
          BY <1>10, <2>3 DEF Msd!Raise
      <3>2. CASE restore_msd[p]
        <4>1. msdPc' = [msdPc EXCEPT ![p] = "restore"]
            BY <1>10, <2>3, <3>2 DEF Msd!Raise
        <4>2. QED
            BY <2>1, <2>3, <3>1, <3>2, <4>1
      <3>3. CASE ~restore_msd[p]
        <4>1. msdPc' = [msdPc EXCEPT ![p] = "finish"]
            BY <1>10, <2>3, <3>3 DEF Msd!Raise
        <4>2. QED
            BY <2>1, <2>3, <3>1, <3>3, <4>1
      <3>4. QED
          BY <3>2, <3>3
    <2>4. QED
        BY <2>2, <2>3
  <1>11. CASE Msd!Finish(p)
      BY <1>11 DEF Msd!Finish
  <1>12. ASSUME NEW k \in Msd!Kinds, NEW a \in BOOLEAN, Msd!Start(p, k, a) PROVE MsdInv'
      BY <1>12 DEF Msd!Start
  <1>13. QED
      BY <1>1, <1>2, <1>3, <1>4, <1>5, <1>6, <1>7, <1>8, <1>9, <1>10, <1>11, <1>12 DEF Msd!Step

-----------------------------------------------------------------------------
\* The bench before the first command satisfies the invariant (BenchInit).
LEMMA BenchStart == BenchInit => BenchInv
  <1> SUFFICES ASSUME BenchInit PROVE BenchInv
      OBVIOUS
  <1>1. LockInv
      BY LockStart
  <1>2. CopiesAudited /\ BoardHolds
      BY DEF BenchInit, Init, CopiesAudited, BoardHolds, NoTool
  <1>3. BurstHeard
      BY DEF BenchInit, Init, BurstHeard
  <1>4. BondInv
      BY ProbeRunAssumption DEF BenchInit, Bond!Init, BondInv, Bond!Contents, Bond!Restores
  <1>5. MsdInv
      BY ProbeRunAssumption DEF BenchInit, Msd!Init, MsdInv, Msd!Kinds, Msd!Restoring, Msd!Setting
  <1>6. QED
      BY <1>1, <1>2, <1>3, <1>4, <1>5 DEF BenchInv

\* Every step of every command, of the board and of a build keeps it (BenchNext).
LEMMA BenchStep == BenchInv /\ [BenchNext]_benchVars => BenchInv'
  <1> SUFFICES ASSUME BenchInv, [BenchNext]_benchVars PROVE BenchInv'
      OBVIOUS
  <1> USE DEF BenchInv
  <1>1. LockInv'
      BY LockStep
  <1>2. CopiesAudited' /\ BoardHolds'
      BY CopiesStep, BoardStep
  <1>3. BurstHeard'
      BY BurstStep
  <1>4. BondInv'
    <2>1. bondPc \in [Procs -> BondPlaces]
        BY DEF LockInv, LockHeld
    <2>2. UNCHANGED bondVars => BondInv'
        BY DEF bondVars, BondInv
    <2>3. ASSUME NEW p \in Procs, Begin(p) \/ RunStep(p) \/ BondStep(p) \/ MsdStep(p) \/ Kill(p)
          PROVE  BondInv'
        BY <2>1, <2>2, <2>3, BondStepKeeps DEF Begin, RunStep, BondStep, MsdStep, Kill
    <2>4. QED
        BY <2>2, <2>3 DEF BenchNext, benchVars
  <1>5. MsdInv'
    <2>1. UNCHANGED msdVars => MsdInv'
        BY DEF msdVars, MsdInv
    <2>2. ASSUME NEW p \in Procs, Begin(p) \/ RunStep(p) \/ BondStep(p) \/ MsdStep(p) \/ Kill(p)
          PROVE  MsdInv'
        BY <2>1, <2>2, MsdStepKeeps DEF LockInv, Begin, RunStep, BondStep, MsdStep, Kill
    <2>3. QED
        BY <2>1, <2>2 DEF BenchNext, benchVars
  <1>6. QED
      BY <1>1, <1>2, <1>3, <1>4, <1>5

\* Every reachable state of the bench satisfies the invariant, whatever the number of
\* commands, manifests and images.
THEOREM BenchCorrect == BenchSpec => []BenchInv
  BY BenchStart, BenchStep, PTL DEF BenchSpec

\* The lock is held by the command whose program works on the probe, unless that
\* command was killed: no two programs work on one probe (_probe_lock, run_logged).
THEOREM ProbeAlwaysExclusive == BenchSpec => []ProbeExclusive
  <1>1. BenchInv => ProbeExclusive
    <2> SUFFICES ASSUME BenchInv, NEW p \in Procs, AtWork(p), ~Dead(p) PROVE lock = p
        BY DEF ProbeExclusive
    <2>1. CASE Busy(p)
      <3>1. pc[p] \in {"program", "reset", "server", "gdb", "token", "stop"}
          BY <2>1 DEF BenchInv, LockInv, ToolPlace, Busy, Dead
      <3>2. QED
          BY <3>1 DEF BenchInv, LockInv, LockHeld, RunLocked
    <2>2. CASE bondTool[p] # "none"
      <3>1. bondPc[p] \in {"erasing", "r_programming"}
          BY <2>2 DEF BenchInv, BondInv, Dead
      <3>2. QED
          BY <3>1 DEF BenchInv, LockInv, LockHeld, BondLocked
    <2>3. CASE msdPc[p] \in {"reboot", "r_reboot", "verify", "r_verify", "child_run"}
        BY <2>3 DEF BenchInv, LockInv, LockHeld, MsdLocked
    <2>4. QED
        BY <2>1, <2>2, <2>3 DEF AtWork
  <1>2. QED
      BY <1>1, BenchCorrect, PTL

\* Whatever command writes the board writes an image that was compared with its
\* manifest after it was copied (_snapshot_hexes), also when a build rewrites the
\* files at the same time and when the command is killed.
THEOREM OnlyAuditedWritten == BenchSpec => OnlyAudited
  <1>1. BenchInv /\ [BenchNext]_benchVars =>
            [\A i \in Images : board'[i] # board[i] => board'[i] \in Manifests \cup {Torn}]_vars
      BY BoardStep DEF BenchInv
  <1>2. QED
      BY <1>1, BenchCorrect, PTL DEF BenchSpec, OnlyAudited

\* A run command that waits for its token has it in its transcript as soon as the
\* boot it started has printed it (command_run).
THEOREM BurstNeverLost == BenchSpec => []BurstNotLost
  <1>1. BenchInv => BurstNotLost
      BY DEF BenchInv, BurstHeard, BurstNotLost
  <1>2. QED
      BY <1>1, BenchCorrect, PTL

\* Bonds that left the board are in a backup file, for any number of concurrent and
\* killed commands (command_m6_bond_clear).
THEOREM BondsAlwaysRecoverable == BenchSpec => []BondsRecoverable
  <1>1. BenchInv => BondsRecoverable
      BY DEF BenchInv, BondInv, BondsRecoverable, Bond!BondsRecoverable
  <1>2. QED
      BY <1>1, BenchCorrect, PTL

\* The cleanup records of m6-bond-clear and p0-gate are true of the board and the
\* probe unless a later command wrote again.
THEOREM CleanupAlwaysHonest == BenchSpec => []CleanupHonest
  <1>1. BenchInv => Bond!CleanupAccounts
      BY DEF BenchInv, BondInv, Bond!CleanupAccounts, Bond!Restores
  <1>2. BenchInv => Msd!RestoredClaim
      BY DEF BenchInv, MsdInv, Msd!RestoredClaim
  <1>3. BenchInv => Msd!OkMeansSettled
      BY DEF BenchInv, MsdInv, Msd!OkMeansSettled, Msd!Kinds
  <1>4. BenchInv => CleanupHonest
      BY <1>1, <1>2, <1>3 DEF CleanupHonest
  <1>5. QED
      BY <1>4, BenchCorrect, PTL
=============================================================================
