--------------------------- MODULE PowerCommands ----------------------------
(***************************************************************************)
(* The commands that measure and switch power: blu939-suite (PowerSuite), a*)
(* session with the PPK2 (Ppk2), the audit of PPK2 instruments             *)
(* (Ppk2Eeprom, where two audits may run at the same time) and the USB     *)
(* power gate (UsbPower). A process runs the one command of its command    *)
(* line; what it drives (supply, instruments, boards, the kernel) is part  *)
(* of its own module.                                                      *)
(***************************************************************************)
EXTENDS Naturals

CONSTANTS
    Profiles, Peers, LateErrors,            \* PowerSuite
    Wrap, Count, MaxLost, Voltages,         \* Ppk2
    Instruments, Audited, CleanupFaults,    \* Ppk2Eeprom
    MaxSuspends, MaxResets, Resumers        \* UsbPower

VARIABLES
    command,   \* the command of the command line
    suitePc, profile, sent, suiteOutput, output_on, port, target, cpu, peer, peer_process,
    orphaned, backup_report, peer_backup, captured, operation_error, restore_error,
    peer_restore_error, off_error, suiteStatus,
    sessionPc, action, voltage, vdd, setting, applied, sessionOutput, by, streaming,
    produced, lost, wire, samples, sessionStatus,
    firmware, mode, comesUp, auditPc, preexisting, shell, image, required, package, opError,
    restError, begun,
    usbPc, phase, attributes, suspended, resumed, before, usbStatus, power, runtime, polled,
    claimed, armed, timer, counts, cause, seen, original, others

suiteVars == <<suitePc, profile, sent, suiteOutput, output_on, port, target, cpu, peer,
               peer_process, orphaned, backup_report, peer_backup, captured,
               operation_error, restore_error, peer_restore_error, off_error, suiteStatus>>

sessionVars == <<sessionPc, action, voltage, vdd, setting, applied, sessionOutput, by,
                 streaming, produced, lost, wire, samples, sessionStatus>>

auditVars == <<firmware, mode, comesUp, auditPc, preexisting, shell, image, required,
               package, opError, restError, begun>>

usbVars == <<usbPc, phase, attributes, suspended, resumed, before, usbStatus, power,
             runtime, polled, claimed, armed, timer, counts, cause, seen, original, others>>

vars == <<command, suiteVars, sessionVars, auditVars, usbVars>>

Suite == INSTANCE PowerSuite WITH pc <- suitePc, output <- suiteOutput,
    status <- suiteStatus

Session == INSTANCE Ppk2 WITH pc <- sessionPc, output <- sessionOutput,
    status <- sessionStatus

Audit == INSTANCE Ppk2Eeprom WITH pc <- auditPc

Usb == INSTANCE UsbPower WITH pc <- usbPc, status <- usbStatus

\* A command that is not run has no state.
Off == "off"

SuiteOff ==
    /\ suitePc = Off /\ profile = Off /\ sent = Off /\ suiteOutput = Off /\ output_on = Off
    /\ port = Off /\ target = Off /\ cpu = Off /\ peer = Off /\ peer_process = Off
    /\ orphaned = Off /\ backup_report = Off /\ peer_backup = Off /\ captured = Off
    /\ operation_error = Off /\ restore_error = Off /\ peer_restore_error = Off
    /\ off_error = Off /\ suiteStatus = Off

SessionOff ==
    /\ sessionPc = Off /\ action = Off /\ voltage = Off /\ vdd = Off /\ setting = Off
    /\ applied = Off /\ sessionOutput = Off /\ by = Off /\ streaming = Off /\ produced = Off
    /\ lost = Off /\ wire = Off /\ samples = Off /\ sessionStatus = Off

AuditOff ==
    /\ firmware = Off /\ mode = Off /\ comesUp = Off /\ auditPc = Off /\ preexisting = Off
    /\ shell = Off /\ image = Off /\ required = Off /\ package = Off /\ opError = Off
    /\ restError = Off /\ begun = Off

UsbOff ==
    /\ usbPc = Off /\ phase = Off /\ attributes = Off /\ suspended = Off /\ resumed = Off
    /\ before = Off /\ usbStatus = Off /\ power = Off /\ runtime = Off /\ polled = Off
    /\ claimed = Off /\ armed = Off /\ timer = Off /\ counts = Off /\ cause = Off
    /\ seen = Off /\ original = Off /\ others = Off

ASSUME CommandsAssumption ==
    /\ Suite!ConstantsOk
    /\ Session!ConstantsOk
    /\ Audit!ConstantsOk /\ Audit!NoneOk
    /\ Usb!ConstantsOk

-----------------------------------------------------------------------------
\* main() parses the command line and calls the handler of one command.
Init ==
    \/ command = "blu939-suite" /\ Suite!Init /\ SessionOff /\ AuditOff /\ UsbOff
    \/ command = "ppk2" /\ Session!Init /\ SuiteOff /\ AuditOff /\ UsbOff
    \/ command = "ppk2-eeprom-audit" /\ Audit!Init /\ SuiteOff /\ SessionOff /\ UsbOff
    \/ command = "m4-usb-power" /\ Usb!Init /\ SuiteOff /\ SessionOff /\ AuditOff

SuiteRuns(A) ==
    command = "blu939-suite" /\ A /\ UNCHANGED <<command, sessionVars, auditVars, usbVars>>

SessionRuns(A) ==
    command = "ppk2" /\ A /\ UNCHANGED <<command, suiteVars, auditVars, usbVars>>

AuditRuns(A) ==
    command = "ppk2-eeprom-audit" /\ A /\ UNCHANGED <<command, suiteVars, sessionVars, usbVars>>

UsbRuns(A) ==
    command = "m4-usb-power" /\ A /\ UNCHANGED <<command, suiteVars, sessionVars, auditVars>>

Next ==
    \/ SuiteRuns(Suite!Next)
    \/ SessionRuns(Session!Next)
    \/ AuditRuns(Audit!Next)
    \/ UsbRuns(Usb!Next)

\* The fairness of each command: every call and every wait has a timeout, and an
\* instrument that reboots enumerates again.
Spec ==
    /\ Init /\ [][Next]_vars
    /\ WF_vars(SuiteRuns(Suite!Suite))
    /\ WF_vars(SessionRuns(Session!Ends))
    /\ \A a \in Audited : WF_vars(AuditRuns(Audit!Audit(a)))
    /\ \A i \in Instruments : WF_vars(AuditRuns(Audit!Enumerate(i)))
    /\ WF_vars(UsbRuns(Usb!Gate))

-----------------------------------------------------------------------------
\* The report of the suite accounts for both boards: one that is not as it was
\* found is reported as to be restored and not restored, unless an nrfutil that
\* outlived its command changed the peer; and a suite reported ok measured every
\* profile on its own cold-started firmware.
SuiteAccounts == command = "blu939-suite" => Suite!BoardsAccounted /\ Suite!OkMeansMeasured

\* The output of the PPK2 carries the requested voltage although the firmware
\* applies it late, and is off at the end; a capture is reported continuous
\* exactly if nothing was lost, up to whole turns of the six-bit counter.
SessionExact ==
    command = "ppk2" =>
        /\ Session!OutputAtRequest /\ Session!OffAtEnd
        /\ Session!GapFree /\ Session!NoFalseGap

\* official_firmware_restored of an audit's report is true of its instrument,
\* whatever failed before and whatever the audit of another instrument does.
AuditRestores == command = "ppk2-eeprom-audit" => Audit!RestoredClaim

\* A USB power gate reported ok saw a resumption that was the device's own, its
\* host phase was not woken by a request that an interrupted gate left armed, and
\* the power attributes are those it found although each phase restores only what
\* it read itself.
WakeProved ==
    command = "m4-usb-power" =>
        Usb!RemoteWakeProved /\ Usb!HostResumePure /\ Usb!AttributesRestored

Ended == CASE command = "blu939-suite"      -> suitePc \in Suite!Ended
           [] command = "ppk2"              -> sessionPc = "done"
           [] command = "ppk2-eeprom-audit" -> \A a \in Audited : Audit!Done(a)
           [] command = "m4-usb-power"      -> usbPc = "done"

\* Whatever fails and in whatever order, every command comes to its report.
CommandEnds == <>Ended
=============================================================================
