----------------------------- MODULE ProbeBench -----------------------------
(***************************************************************************)
(* One probe and the commands that share it through its lock file          *)
(* (_probe_lock of tools/nrfkit_tools/cli.py): the programming and        *)
(* debugging commands (ProbeRun), m6-bond-clear (BondClear), and those that*)
(* switch the probe's mass-storage interface (ProbeMsd). A process is one  *)
(* command; two commands may be of the same kind or of two kinds. What is  *)
(* shared is the lock: each kind changes parts of the board and the probe  *)
(* that the others leave alone.                                            *)
(***************************************************************************)
EXTENDS ProbeRun

CONSTANT Children   \* of p0-gate

VARIABLES
    bondPc, backup, clear_verified, restore_attempted, restore_verified, bondStatus, bondTool,
    settings, bondWriter,
    kind, authorized, msdPc, original, restore_msd, child, operation_error,
    restoration_error, msdStatus, restored, config, exposed, msdWriter

bondVars == <<bondPc, backup, clear_verified, restore_attempted, restore_verified, bondStatus,
              bondTool, settings, bondWriter>>
msdVars == <<kind, authorized, msdPc, original, restore_msd, child, operation_error,
             restoration_error, msdStatus, restored, config, exposed, msdWriter>>
runVars == <<procVars, boardVars, tool, tty, changed>>
benchVars == <<vars, bondVars, msdVars>>

Bond == INSTANCE BondClear WITH pc <- bondPc, status <- bondStatus, tool <- bondTool,
                                writer <- bondWriter

Msd == INSTANCE ProbeMsd WITH pc <- msdPc, status <- msdStatus, writer <- msdWriter

ASSUME BenchAssumption == Children \in Nat \ {0}

BenchInit == Init /\ Bond!Init /\ Msd!Init

\* A process that runs no command yet.
Fresh(p) == pc[p] = "idle" /\ bondPc[p] = "idle" /\ msdPc[p] = "idle"

Begin(p) ==
    /\ Fresh(p)
    /\ \/ (\E o \in Ops, m \in Manifests : Start(p, o, m)) /\ UNCHANGED <<bondVars, msdVars>>
       \/ Bond!Start(p) /\ UNCHANGED <<runVars, msdVars>>
       \/ (\E k \in Msd!Kinds, a \in BOOLEAN : Msd!Start(p, k, a)) /\ UNCHANGED <<runVars, bondVars>>

RunStep(p) == (Step(p) \/ Device(p)) /\ UNCHANGED <<bondVars, msdVars>>

BondStep(p) == (Bond!Step(p) \/ Bond!ToolEnds(p)) /\ UNCHANGED <<runVars, msdVars>>

MsdStep(p) == Msd!Step(p) /\ UNCHANGED <<runVars, bondVars>>

Kill(p) ==
    \/ Killed(p) /\ UNCHANGED <<bondVars, msdVars>>
    \/ Bond!Killed(p) /\ UNCHANGED <<runVars, msdVars>>

BenchNext ==
    \/ \E p \in Procs : Begin(p) \/ RunStep(p) \/ BondStep(p) \/ MsdStep(p) \/ Kill(p)
    \/ /\ EmitToken \/ \E m \in Manifests, i \in Images : Rebuild(m, i)
       /\ UNCHANGED <<bondVars, msdVars>>

BenchSpec == BenchInit /\ [][BenchNext]_benchVars

-----------------------------------------------------------------------------
\* A program that p started works on the probe: nrfutil or the GDB server,
\* the nrfutil of a bond clear, J-Link Commander or a child of p0-gate.
AtWork(p) ==
    \/ Busy(p)
    \/ bondTool[p] # "none"
    \/ msdPc[p] \in {"reboot", "r_reboot", "verify", "r_verify", "child_run"}

Dead(p) == pc[p] = "killed" \/ bondPc[p] = "killed"

\* No two programs work on the probe at the same time, whatever the kinds of
\* their commands and also on the way out of an exception, except what a
\* command killed by SIGTERM left behind in its own session (_probe_lock,
\* run_logged).
ProbeExclusive ==
    \A p, q \in Procs : AtWork(p) /\ AtWork(q) /\ p # q => Dead(p) \/ Dead(q)

\* Bonds that are gone from the board are in a complete backup file, whichever
\* commands came in while the lock was free between the erasure and the
\* restoration (command_m6_bond_clear).
BondsRecoverable == Bond!BondsRecoverable

\* The reports about the probe and the settings may be believed although each
\* command gives the lock away before it cleans up: what p0-gate calls restored
\* and what m6-bond-clear calls cleared or restored is so, unless a later
\* command wrote again.
CleanupHonest == Bond!CleanupAccounts /\ Msd!RestoredClaim /\ Msd!OkMeansSettled
=============================================================================
