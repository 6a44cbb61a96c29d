----------------------------- MODULE Ppk2Eeprom -----------------------------
(***************************************************************************)
(* The PPK2 EEPROM audit (tools/nrfkit_tools/ppk2_eeprom_cli.py): the      *)
(* official firmware of an instrument is replaced by a temporary one that  *)
(* serves a shell, the EEPROM is read twice, and the cleanup restores the  *)
(* official firmware. The lock is per instrument, so that audits of two    *)
(* instruments may run at the same time.                                   *)
(*                                                                         *)
(* An instrument that changes its mode is away until it has enumerated     *)
(* again. Torn firmware comes up in the bootloader. The official firmware  *)
(* and the bootloader are visible to nrfutil under the serial number; the  *)
(* temporary firmware shows a serial port without it.                      *)
(***************************************************************************)
EXTENDS FiniteSets

CONSTANTS
    Instruments,    \* PPK2 instruments on the bench
    Audited,        \* those audited once; the others run the audit firmware already
    CleanupFaults   \* a step of the cleanup may time out or be interrupted

ConstantsOk ==
    /\ Audited \subseteq Instruments /\ Audited # {} /\ CleanupFaults \in BOOLEAN

None == "none"

NoneOk == None \notin Instruments

VARIABLES
    firmware,     \* official, other (another release), temporary or torn
    mode,         \* application, bootloader or away
    comesUp,      \* the mode after away
    pc,           \* of each audit
    preexisting,  \* shell ports recorded before the change
    shell,        \* the instrument whose port the audit has opened
    image,        \* instrument whose EEPROM bytes the audit accepted
    required,     \* restoration_required
    package,      \* the release in the restore package
    opError, restError,
    begun         \* programming the temporary firmware has begun

vars == <<firmware, mode, comesUp, pc, preexisting, shell, image, required, package,
          opError, restError, begun>>

device == <<firmware, mode, comesUp>>
flags  == <<required, package, opError, restError, begun>>

Init ==
    /\ firmware = [i \in Instruments |-> IF i \in Audited THEN "official" ELSE "temporary"]
    /\ mode = [i \in Instruments |-> "application"]
    /\ comesUp = [i \in Instruments |-> "application"]
    /\ pc = [a \in Audited |-> "start"]
    /\ preexisting = [a \in Audited |-> {}]
    /\ shell = [a \in Audited |-> None] /\ image = [a \in Audited |-> None]
    /\ required = [a \in Audited |-> FALSE]
    /\ package \in [Audited -> {"official", "other"}]
    /\ opError = [a \in Audited |-> FALSE] /\ restError = [a \in Audited |-> FALSE]
    /\ begun = [a \in Audited |-> FALSE]

-----------------------------------------------------------------------------
Goto(a, l) == pc' = [pc EXCEPT ![a] = l]

Leaves(i, m) == /\ mode' = [mode EXCEPT ![i] = "away"]
                /\ comesUp' = [comesUp EXCEPT ![i] = m]

Enumerate(i) ==
    /\ mode[i] = "away"
    /\ mode' = [mode EXCEPT ![i] = comesUp[i]]
    /\ UNCHANGED <<firmware, comesUp, pc, preexisting, shell, image, flags>>

\* An instrument that is not audited may be unplugged, once its port is recorded.
Unplug(i) ==
    /\ i \notin Audited /\ mode[i] = "application"
    /\ \A a \in Audited : i \in preexisting[a]
    /\ Leaves(i, "application")
    /\ UNCHANGED <<firmware, pc, preexisting, shell, image, flags>>

ShellPorts == {i \in Instruments : firmware[i] = "temporary" /\ mode[i] = "application"}

\* currentMcuState in the nrfutil inventory, None if the serial is not listed.
McuState(i) ==
    CASE mode[i] = "bootloader" -> "Programming"
      [] mode[i] = "application" /\ firmware[i] \in {"official", "other"} -> "Application"
      [] OTHER -> None

\* The ports that the temporary firmware has added.
NewPorts(a) == ShellPorts \ preexisting[a]

\* Opens the port exclusively; more than one candidate raises.
OpenShell(a) ==
    \E i \in NewPorts(a) :
        /\ NewPorts(a) = {i}
        /\ \A b \in Audited : shell[b] # i
        /\ shell' = [shell EXCEPT ![a] = i]

(***************************************************************************)
(* The transaction                                                         *)
(***************************************************************************)
\* Identity, exclusive access to the instrument, the existing ports.
Begin(a) ==
    /\ pc[a] = "start" /\ McuState(a) = "Application"
    /\ preexisting' = [preexisting EXCEPT ![a] = ShellPorts]
    /\ required' = [required EXCEPT ![a] = TRUE]
    /\ Goto(a, "switch")
    /\ UNCHANGED <<device, shell, image, package, opError, restError, begun>>

\* mcu-state-set; its exit code does not matter if the bootloader enumerates.
SwitchToBootloader(a) ==
    /\ pc[a] = "switch"
    /\ Leaves(a, "bootloader")
    /\ Goto(a, "wait-bootloader")
    /\ UNCHANGED <<firmware, preexisting, shell, image, flags>>

WaitBootloader(a) ==
    /\ pc[a] = "wait-bootloader" /\ McuState(a) = "Programming"
    /\ Goto(a, "program")
    /\ UNCHANGED <<device, preexisting, shell, image, flags>>

ProgramBegins(a) ==
    /\ pc[a] = "program"
    /\ firmware' = [firmware EXCEPT ![a] = "torn"]
    /\ begun' = [begun EXCEPT ![a] = TRUE]
    /\ Goto(a, "programming")
    /\ UNCHANGED <<mode, comesUp, preexisting, shell, image, required, package, opError,
                   restError>>

ProgramEnds(a) ==
    /\ pc[a] = "programming"
    /\ firmware' = [firmware EXCEPT ![a] = "temporary"]
    /\ Leaves(a, "application")
    /\ Goto(a, "wait-shell")
    /\ UNCHANGED <<preexisting, shell, image, flags>>

WaitShell(a) ==
    /\ pc[a] = "wait-shell"
    /\ OpenShell(a)
    /\ Goto(a, "read")
    /\ UNCHANGED <<device, preexisting, image, flags>>

\* What a complete read of the EEPROM may give; of two reads at most one is disturbed.
Reads(a) == {shell[a], "noise"}

\* cal_read, two reads that must agree with each other and with it.
ReadEeprom(a, first, second) ==
    /\ pc[a] = "read" /\ shell[a] \in ShellPorts
    /\ shell[a] \in {first, second} /\ first = second
    /\ image' = [image EXCEPT ![a] = first]
    /\ Goto(a, "cleanup")
    /\ UNCHANGED <<device, preexisting, shell, flags>>

\* A command fails, a wait times out, a check raises or the user interrupts.
Raise(a) ==
    /\ pc[a] \in {"start", "switch", "wait-bootloader", "program", "programming",
                  "wait-shell", "read"}
    /\ opError' = [opError EXCEPT ![a] = TRUE]
    /\ Goto(a, IF required[a] THEN "cleanup" ELSE "done")
    /\ UNCHANGED <<device, preexisting, shell, image, required, package, restError, begun>>

(***************************************************************************)
(* The cleanup                                                             *)
(***************************************************************************)
\* Where the cleanup goes from what nrfutil lists and from the open shell. Only the
\* restoration installs another release, so that an application that is listed here
\* is the initial one (already_restored).
Decide(a, current) ==
    CASE shell[a] # None -> "reset-shell"
      [] current = "Application" -> "verify"
      [] current = "Programming" -> "restore"
      [] OTHER -> "find-shell"

\* The inventory of two seconds; an error of it counts as not listed.
Inspect(a, current) ==
    /\ pc[a] = "cleanup"
    /\ current = McuState(a) \/ (CleanupFaults /\ current = None)
    /\ Goto(a, Decide(a, current))
    /\ UNCHANGED <<device, preexisting, shell, image, flags>>

FindShell(a) ==
    /\ pc[a] = "find-shell"
    /\ OpenShell(a)
    /\ Goto(a, "reset-shell")
    /\ UNCHANGED <<device, preexisting, image, flags>>

\* reset_bl, which only a shell that is still there obeys; errors are kept for later.
ResetShell(a) ==
    /\ pc[a] = "reset-shell"
    /\ shell' = [shell EXCEPT ![a] = None]
    /\ IF shell[a] \in ShellPorts
       THEN Leaves(shell[a], "bootloader")
       ELSE UNCHANGED <<mode, comesUp>>
    /\ Goto(a, "restore")
    /\ UNCHANGED <<firmware, preexisting, image, flags>>

\* The wait for the bootloader and the restore package.
RestoreBegins(a) ==
    /\ pc[a] = "restore" /\ McuState(a) = "Programming"
    /\ firmware' = [firmware EXCEPT ![a] = "torn"]
    /\ Goto(a, "restoring")
    /\ UNCHANGED <<mode, comesUp, preexisting, shell, image, flags>>

RestoreEnds(a) ==
    /\ pc[a] = "restoring"
    /\ firmware' = [firmware EXCEPT ![a] = package[a]]
    /\ Leaves(a, "application")
    /\ Goto(a, "verify")
    /\ UNCHANGED <<preexisting, shell, image, flags>>

\* Mutant of Verify: the firmware version is not read back.
MutantVerify(a) ==
    /\ pc[a] = "verify"
    /\ Goto(a, "done")
    /\ UNCHANGED <<device, preexisting, shell, image, flags>>

\* Application mode and the identity recorded before the transaction.
Verify(a) ==
    /\ pc[a] = "verify" /\ McuState(a) = "Application"
    /\ restError' = [restError EXCEPT ![a] = firmware[a] # "official"]
    /\ Goto(a, "done")
    /\ UNCHANGED <<device, preexisting, shell, image, required, package, opError, begun>>

Cleaning == {"cleanup", "find-shell", "reset-shell", "restore", "restoring",
             "verify"}

\* Mutant of RestorationFails: the wait for the shell has no deadline.
MutantRestorationFails(a) ==
    /\ pc[a] \in Cleaning \ {"find-shell"}
    /\ CleanupFaults
    /\ restError' = [restError EXCEPT ![a] = TRUE]
    /\ shell' = [shell EXCEPT ![a] = None]
    /\ Goto(a, "done")
    /\ UNCHANGED <<device, preexisting, image, required, package, opError, begun>>

\* The restoration raises; a shell that is still open is closed. Without faults this
\* is a wait for something that does not come.
RestorationFails(a) ==
    /\ pc[a] \in Cleaning
    /\ \/ CleanupFaults
       \/ pc[a] = "find-shell" /\ mode[a] # "away" /\ Cardinality(NewPorts(a)) # 1
    /\ restError' = [restError EXCEPT ![a] = TRUE]
    /\ shell' = [shell EXCEPT ![a] = None]
    /\ Goto(a, "done")
    /\ UNCHANGED <<device, preexisting, image, required, package, opError, begun>>

Audit(a) ==
    \/ Begin(a) \/ SwitchToBootloader(a) \/ WaitBootloader(a)
    \/ ProgramBegins(a) \/ ProgramEnds(a) \/ WaitShell(a)
    \/ \E first, second \in Reads(a) : ReadEeprom(a, first, second)
    \/ Raise(a)
    \/ \E current \in {"Application", "Programming", None} : Inspect(a, current)
    \/ FindShell(a) \/ ResetShell(a)
    \/ RestoreBegins(a) \/ RestoreEnds(a) \/ Verify(a) \/ RestorationFails(a)

Next == (\E a \in Audited : Audit(a)) \/ (\E i \in Instruments : Enumerate(i) \/ Unplug(i))

\* Every wait of an audit has a deadline; an instrument that is away enumerates.
Spec == /\ Init /\ [][Next]_vars
        /\ \A a \in Audited : WF_vars(Audit(a))
        /\ \A i \in Instruments : WF_vars(Enumerate(i))

-----------------------------------------------------------------------------
Done(a) == pc[a] = "done"

\* official_firmware_restored of a report that ended is true of the instrument,
\* whatever failed before and whatever an audit of another instrument does.
RestoredClaim ==
    \A a \in Audited : Done(a) /\ required[a] /\ ~restError[a] =>
        firmware[a] = "official" /\ mode[a] = "application"
=============================================================================
