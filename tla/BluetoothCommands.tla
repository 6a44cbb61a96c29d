------------------------- MODULE BluetoothCommands --------------------------
(***************************************************************************)
(* The commands of tools/nrfkit_tools/cli.py that validate the radio and   *)
(* the Bluetooth stack: m6-sdc-oracle (SdcOracle), the two-board radio     *)
(* gates (DualRadio), m6-ble-gate (BleValidation) and m6-ble-scan          *)
(* (BleScan). A process runs the one command of its command line; what it  *)
(* drives (a controller, two boards, BlueZ) is part of its own module.     *)
(***************************************************************************)
EXTENDS Naturals

CONSTANTS
    OracleDrops, MaxChunk,    \* SdcOracle
    Rounds,                   \* DualRadio
    TargetDrops, Bonding,     \* BleValidation
    CachedBonds, MaxSwitches  \* BleScan

VARIABLES
    command,   \* the command of the command line
    n, oraclePhase, oracleStatus, closing, unclean, advertising_enabled, scan_enabled,
    handle, pending, acl, issued, answer, down, wire, adv, scan, creating, oracleLink,
    leaving, links, oracleDrops, mask,
    shared, dualPc, round, receiver, transmitter, reaped, ready, dualHeard, proven,
    dualStatus, left,
    validationPc, validationPhase, fresh, validationStatus, stage, validationOwned,
    validationOurs, validationOther, validationKnown, validationPaired, bonded, connected,
    resolved, validationLink, pairing, validationDrops, agent, trace, available,
    trace_cleaned, validationVerified, readable, reconnect_read,
    scanPc, scanKnown, scanPaired, rssi, scanOurs, scanOther, advertising, switches,
    scanHeard, scanOwned, found, current, failure, errors, scanVerified, scanStatus

oracleVars == <<n, oraclePhase, oracleStatus, closing, unclean, advertising_enabled,
                scan_enabled, handle, pending, acl, issued, answer, down, wire, adv, scan,
                creating, oracleLink, leaving, links, oracleDrops, mask>>

dualVars == <<shared, dualPc, round, receiver, transmitter, reaped, ready, dualHeard,
              proven, dualStatus, left>>

validationVars == <<validationPc, validationPhase, fresh, validationStatus, stage,
                    validationOwned, validationOurs, validationOther, validationKnown,
                    validationPaired, bonded, connected, resolved, validationLink, pairing,
                    validationDrops, agent, trace, available, trace_cleaned,
                    validationVerified, readable, reconnect_read>>

scanVars == <<scanPc, scanKnown, scanPaired, rssi, scanOurs, scanOther, advertising,
              switches, scanHeard, scanOwned, found, current, failure, errors, scanVerified,
              scanStatus>>

vars == <<command, oracleVars, dualVars, validationVars, scanVars>>

Oracle == INSTANCE SdcOracle WITH phase <- oraclePhase, status <- oracleStatus,
    link <- oracleLink, drops <- oracleDrops, MaxDrops <- OracleDrops

Dual == INSTANCE DualRadio WITH pc <- dualPc, heard <- dualHeard, status <- dualStatus

Validation == INSTANCE BleValidation WITH pc <- validationPc, phase <- validationPhase,
    status <- validationStatus, owned <- validationOwned, ours <- validationOurs,
    other <- validationOther, known <- validationKnown, paired <- validationPaired,
    link <- validationLink, drops <- validationDrops, verified <- validationVerified,
    MaxDrops <- TargetDrops

Scan == INSTANCE BleScan WITH pc <- scanPc, known <- scanKnown, paired <- scanPaired,
    ours <- scanOurs, other <- scanOther, heard <- scanHeard, owned <- scanOwned,
    verified <- scanVerified, status <- scanStatus

\* A command that is not run has no state.
Off == "off"

OracleOff ==
    /\ n = Off /\ oraclePhase = Off /\ oracleStatus = Off /\ closing = Off /\ unclean = Off
    /\ advertising_enabled = Off /\ scan_enabled = Off /\ handle = Off /\ pending = Off
    /\ acl = Off /\ issued = Off /\ answer = Off /\ down = Off /\ wire = Off /\ adv = Off
    /\ scan = Off /\ creating = Off /\ oracleLink = Off /\ leaving = Off /\ links = Off
    /\ oracleDrops = Off /\ mask = Off

DualOff ==
    /\ shared = Off /\ dualPc = Off /\ round = Off /\ receiver = Off /\ transmitter = Off
    /\ reaped = Off /\ ready = Off /\ dualHeard = Off /\ proven = Off /\ dualStatus = Off
    /\ left = Off

ValidationOff ==
    /\ validationPc = Off /\ validationPhase = Off /\ fresh = Off /\ validationStatus = Off
    /\ stage = Off /\ validationOwned = Off /\ validationOurs = Off /\ validationOther = Off
    /\ validationKnown = Off /\ validationPaired = Off /\ bonded = Off /\ connected = Off
    /\ resolved = Off /\ validationLink = Off /\ pairing = Off /\ validationDrops = Off
    /\ agent = Off /\ trace = Off /\ available = Off /\ trace_cleaned = Off
    /\ validationVerified = Off /\ readable = Off /\ reconnect_read = Off

ScanOff ==
    /\ scanPc = Off /\ scanKnown = Off /\ scanPaired = Off /\ rssi = Off /\ scanOurs = Off
    /\ scanOther = Off /\ advertising = Off /\ switches = Off /\ scanHeard = Off
    /\ scanOwned = Off /\ found = Off /\ current = Off /\ failure = Off /\ errors = Off
    /\ scanVerified = Off /\ scanStatus = Off

ASSUME CommandsAssumption ==
    /\ Oracle!ConstantsOk
    /\ Dual!ConstantsOk
    /\ Validation!ConstantsOk
    /\ Scan!ConstantsOk

-----------------------------------------------------------------------------
\* main() parses the command line and calls the handler of one command.
Init ==
    \/ command = "m6-sdc-oracle" /\ Oracle!Init /\ DualOff /\ ValidationOff /\ ScanOff
    \/ command = "radio-dual" /\ Dual!Init /\ OracleOff /\ ValidationOff /\ ScanOff
    \/ command = "m6-ble-gate" /\ Validation!Init /\ OracleOff /\ DualOff /\ ScanOff
    \/ command = "m6-ble-scan" /\ Scan!Init /\ OracleOff /\ DualOff /\ ValidationOff

OracleRuns(A) ==
    command = "m6-sdc-oracle" /\ A /\ UNCHANGED <<command, dualVars, validationVars, scanVars>>

DualRuns(A) ==
    command = "radio-dual" /\ A /\ UNCHANGED <<command, oracleVars, validationVars, scanVars>>

ValidationRuns(A) ==
    command = "m6-ble-gate" /\ A /\ UNCHANGED <<command, oracleVars, dualVars, scanVars>>

ScanRuns(A) ==
    command = "m6-ble-scan" /\ A /\ UNCHANGED <<command, oracleVars, dualVars, validationVars>>

Next ==
    \/ OracleRuns(Oracle!Next)
    \/ DualRuns(Dual!Next)
    \/ ValidationRuns(Validation!Next)
    \/ ScanRuns(Scan!Next)

\* The fairness of each command: every call and every wait has a timeout.
Spec ==
    /\ Init /\ [][Next]_vars
    /\ WF_vars(OracleRuns(Oracle!Raise)) /\ WF_vars(OracleRuns(Oracle!RaiseClosing))
    /\ WF_vars(DualRuns(Dual!Gate))
    /\ WF_vars(ValidationRuns(Validation!Host))
    /\ WF_vars(ScanRuns(Scan!Host))

-----------------------------------------------------------------------------
\* A successful oracle has connected and disconnected both roles and leaves a
\* controller without advertising, scanning, calling or a link; a failed one
\* leaves neither advertising nor scanning, unless the command of its finally
\* clause failed as well (command_m6_sdc_oracle).
OracleLeavesQuiet ==
    command = "m6-sdc-oracle" => Oracle!OkMeansQuiet /\ Oracle!QuietAfterFailure

\* An answer that a command of the oracle accepts is its own, although events are
\* read in chunks, answers to abandoned commands arrive late, and enabling and
\* disabling share an opcode (HciSession.command).
OracleAnswerIsMine == command = "m6-sdc-oracle" => Oracle!AnswerIsMine

\* The burst of a round is never sent to nobody, a gate reported ok had in every
\* round a receiver that met packets of that round's transmitter, and on every
\* exit no child and no ready marker is left.
RoundsLinked ==
    command = "radio-dual" => Dual!BurstAwaited /\ Dual!OkMeansLinked /\ Dual!NothingLeft

\* A BLE gate reported ok read the protected value, and again on a second link
\* that the stored keys secure; a cleanup reported as verified left no keys, no
\* link and no pairing that goes on; however the run ends, an agent it registered
\* was asked for its removal, a trace said to be cleaned does not run, and a
\* successful run has no discovery (run_ble_validation).
BondProved ==
    command = "m6-ble-gate" =>
        /\ Validation!ReconnectProved
        /\ Validation!FailedPairingLeavesNothing
        /\ Validation!HostReleased

\* A scan reported ok heard the target while it ran and has released its
\* discovery: neither a cached object nor an old RSSI is evidence
\* (scan_ble_advertisement).
ScanFresh == command = "m6-ble-scan" => Scan!FreshEvidence /\ Scan!DiscoveryReleased

Ended == CASE command = "m6-sdc-oracle" -> oraclePhase = "done"
           [] command = "radio-dual"    -> dualPc = "done"
           [] command = "m6-ble-gate"   -> validationPc = "done"
           [] command = "m6-ble-scan"   -> scanPc = "done"

\* Whatever controllers, boards, peers and BlueZ do, every command comes to its
\* report.
CommandEnds == <>Ended
=============================================================================
