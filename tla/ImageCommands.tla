--------------------------- MODULE ImageCommands ----------------------------
(***************************************************************************)
(* The commands that build, check and program images: the OpenOCD backend  *)
(* (OpenOcd, a sequence of commands on boards that are swapped), reference *)
(* prepare and build (ReferenceBuild, two processes), the audit of an image*)
(* (IntelHex, part of inspect, flash and run) and m2-gate with its children*)
(* (M2Gate). What each of them drives is part of its own module.           *)
(***************************************************************************)
EXTENDS Naturals

CONSTANTS
    Boards, MaxCommands, SwapInRestore,                         \* OpenOcd
    Versions, Toolchains, Variants, Edited, None, Overlap,      \* ReferenceBuild
    Bank, Limit, Payloads, MaxRecords, Forbidden, Allowlist,    \* IntelHex
    Procs, Manifests, NImages, SigTerm, Torn, Other, NoProc,    \* ProbeRun
    Normal, Fault, Cycles                                       \* M2Gate

VARIABLES
    command,   \* the command of the command line
    ocdMemory, cpu, connected, published, cmd, ocdPc, ocdRanges, ocdChosen, dump, ocdReport,
    reported, server, destroyed, commands,
    referenceLock, fixture, head, files, variant, receipt, cache, image, manifest, ppc,
    referenceChosen, contract, bpc, loaded, bound, code,
    records, k, hexMemory, base, eof, hexPc, todo, start, previous, hexRanges,
    op, want, gatePc, err, gateReport, snapshot, programmed, heard, was_reset, tool,
    gateLock, tty, changed, board, running, burst, buffered, stage, iteration, child,
    hardware_started, operation_error, restoration_error, status, claimed, orphaned

ocdVars == <<ocdMemory, cpu, connected, published, cmd, ocdPc, ocdRanges, ocdChosen, dump,
             ocdReport, reported, server, destroyed, commands>>

referenceVars == <<referenceLock, fixture, head, files, variant, receipt, cache, image,
                   manifest, ppc, referenceChosen, contract, bpc, loaded, bound, code>>

hexVars == <<records, k, hexMemory, base, eof, hexPc, todo, start, previous, hexRanges>>

gateVars == <<op, want, gatePc, err, gateReport, snapshot, programmed, heard, was_reset,
              tool, gateLock, tty, changed, board, running, burst, buffered, stage,
              iteration, child, hardware_started, operation_error, restoration_error,
              status, claimed, orphaned>>

vars == <<command, ocdVars, referenceVars, hexVars, gateVars>>

Ocd == INSTANCE OpenOcd WITH memory <- ocdMemory, pc <- ocdPc, ranges <- ocdRanges,
    chosen <- ocdChosen, report <- ocdReport

Reference == INSTANCE ReferenceBuild WITH lock <- referenceLock, chosen <- referenceChosen

Hex == INSTANCE IntelHex WITH memory <- hexMemory, pc <- hexPc, ranges <- hexRanges

Gate == INSTANCE M2Gate WITH pc <- gatePc, report <- gateReport, lock <- gateLock

\* A command that is not run has no state.
Off == "off"

OcdOff ==
    /\ ocdMemory = Off /\ cpu = Off /\ connected = Off /\ published = Off /\ cmd = Off
    /\ ocdPc = Off /\ ocdRanges = Off /\ ocdChosen = Off /\ dump = Off /\ ocdReport = Off
    /\ reported = Off /\ server = Off /\ destroyed = Off /\ commands = Off

ReferenceOff ==
    /\ referenceLock = Off /\ fixture = Off /\ head = Off /\ files = Off /\ variant = Off
    /\ receipt = Off /\ cache = Off /\ image = Off /\ manifest = Off /\ ppc = Off
    /\ referenceChosen = Off /\ contract = Off /\ bpc = Off /\ loaded = Off /\ bound = Off
    /\ code = Off

HexOff ==
    /\ records = Off /\ k = Off /\ hexMemory = Off /\ base = Off /\ eof = Off /\ hexPc = Off
    /\ todo = Off /\ start = Off /\ previous = Off /\ hexRanges = Off

GateOff ==
    /\ op = Off /\ want = Off /\ gatePc = Off /\ err = Off /\ gateReport = Off
    /\ snapshot = Off /\ programmed = Off /\ heard = Off /\ was_reset = Off /\ tool = Off
    /\ gateLock = Off /\ tty = Off /\ changed = Off /\ board = Off /\ running = Off
    /\ burst = Off /\ buffered = Off /\ stage = Off /\ iteration = Off /\ child = Off
    /\ hardware_started = Off /\ operation_error = Off /\ restoration_error = Off
    /\ status = Off /\ claimed = Off /\ orphaned = Off

ASSUME CommandsAssumption ==
    /\ Ocd!ConstantsOk
    /\ Reference!ConstantsOk
    /\ Hex!ConstantsOk
    /\ Gate!ConstantsOk

-----------------------------------------------------------------------------
\* main() parses the command line and calls the handler of one command.
Init ==
    \/ command = "openocd" /\ Ocd!Init /\ ReferenceOff /\ HexOff /\ GateOff
    \/ command = "reference" /\ Reference!Init /\ OcdOff /\ HexOff /\ GateOff
    \/ command = "inspect" /\ Hex!Init /\ OcdOff /\ ReferenceOff /\ GateOff
    \/ command = "m2-gate" /\ Gate!GateInit /\ OcdOff /\ ReferenceOff /\ HexOff

OcdRuns(A) ==
    command = "openocd" /\ A /\ UNCHANGED <<command, referenceVars, hexVars, gateVars>>

ReferenceRuns(A) ==
    command = "reference" /\ A /\ UNCHANGED <<command, ocdVars, hexVars, gateVars>>

HexRuns(A) ==
    command = "inspect" /\ A /\ UNCHANGED <<command, ocdVars, referenceVars, gateVars>>

GateRuns(A) ==
    command = "m2-gate" /\ A /\ UNCHANGED <<command, ocdVars, referenceVars, hexVars>>

Next ==
    \/ OcdRuns(Ocd!Next)
    \/ ReferenceRuns(Reference!Next)
    \/ HexRuns(Hex!Next)
    \/ GateRuns(Gate!GateNext)

Spec == Init /\ [][Next]_vars

-----------------------------------------------------------------------------
\* What clear-rram destroyed is in a published backup of the same board, and the
\* claims and the target state of the last report hold for the board that it
\* names, whatever failed and whichever board was connected in between.
ReportsHold ==
    command = "openocd" => Ocd!ClearRecoverable /\ Ocd!ClaimsHold /\ Ocd!StateHolds

\* A manifest binds what was compiled: the toolchain, the modules and the fixture
\* are those of the receipt it names, and its image is what a west that succeeded
\* left in the build directory, after failed and interrupted builds too.
ManifestBinds ==
    command = "reference" =>
        Reference!BindsToolchain /\ Reference!BindsModules /\ Reference!ManifestOfBuild

\* The audit of an image is exact: every byte that an accepted file writes is
\* allowed and has one value, the ranges are its addresses, and only a file with
\* an error is rejected (parse_ihex, _ranges, require_allowed).
AuditExact ==
    command = "inspect" =>
        /\ Hex!AcceptedIsAllowed /\ Hex!RangesExact
        /\ Hex!Unambiguous /\ Hex!RejectedIsWrong

\* The report of m2-gate may be believed: what it calls restored holds and runs the
\* normal image, unless a child was killed over a working nrfutil, and a gate
\* reported ok has all its cycles behind it and no child, lock or port left.
GateRestores == command = "m2-gate" => Gate!RestoredClaim /\ Gate!OkMeansComplete
=============================================================================
