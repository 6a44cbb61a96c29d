---------------------------- MODULE BleValidation ----------------------------
(***************************************************************************)
(* The BLE gate of the host (run_ble_validation() in                       *)
(* tools/nrfkit_tools/ble_validation.py and command_m6_ble_gate() in       *)
(* cli.py): discovery, pairing under a temporary agent and an optional HCI *)
(* trace, GATT reads, disconnection and a bonded reconnection, over BlueZ. *)
(*                                                                         *)
(* Every D-Bus call may fail or lose its reply, and a KeyboardInterrupt    *)
(* may come in every call and every wait. The target may drop a link at    *)
(* any time, and a pairing whose call was given up goes on.                *)
(***************************************************************************)
EXTENDS Naturals

CONSTANTS
    MaxDrops,     \* bound on the links that the target drops
    Bonding       \* values of "the pairing leaves a bond"

ConstantsOk == MaxDrops \in Nat /\ Bonding \subseteq BOOLEAN

Phases == {"plaintext", "bonding", "hid", "persistence", "oracle"}

VARIABLES
    pc, phase, fresh, status,
    stage,                      \* the failure_stage of the details, or "none"
    owned, ours, other,         \* discovery: of the run, of other clients
    known, paired, bonded, connected, resolved,
    link,                       \* number of the current or last link
    pairing,                    \* BlueZ is pairing
    drops,
    agent,                      \* of BlueZ for the pairing: "none", "registered", or
                                \* "abandoned" where the call about it raised
    trace,                      \* "off" or "on", the btmon process
    available, trace_cleaned,   \* what the run notes of it
    verified,                   \* of the cleanup of a failed pairing
    readable, reconnect_read    \* the links on which the protected value was read, or 0

bluez == <<known, paired, bonded, connected, resolved, link, pairing>>
reads == <<readable, reconnect_read>>
host == <<phase, fresh>>
tracing == <<agent, trace, available, trace_cleaned>>
vars == <<pc, host, status, stage, owned, ours, other, bluez, drops, tracing, verified, reads>>

requires_pairing == phase # "plaintext"
requires_reconnect == phase \in {"persistence", "oracle"}

Init ==
    /\ pc = "existing" /\ phase \in Phases /\ fresh \in BOOLEAN
    /\ status = "running" /\ stage = "none"
    /\ other \in BOOLEAN /\ owned = ~other /\ ours = FALSE
    /\ known \in BOOLEAN /\ paired \in {p \in BOOLEAN : p => known} /\ bonded = paired
    /\ connected = FALSE /\ resolved = FALSE /\ link = 0 /\ pairing = FALSE /\ drops = 0
    /\ agent = "none" /\ trace = "off" /\ available = FALSE /\ trace_cleaned = TRUE
    /\ verified = FALSE /\ readable = 0 /\ reconnect_read = 0

Goto(p) == pc' = p /\ UNCHANGED <<status, stage>>

\* An exception that no handler of the run adds a cleanup to.
Fail(s) == pc' = "done" /\ status' = "failed" /\ stage' = s

\* What RemoveDevice() does: the object, the keys, the link and a pairing are gone.
Remove ==
    /\ known' = FALSE /\ paired' = FALSE /\ bonded' = FALSE /\ connected' = FALSE
    /\ resolved' = FALSE /\ pairing' = FALSE /\ UNCHANGED link

-----------------------------------------------------------------------------
(***************************************************************************)
(* Discovery                                                               *)
(***************************************************************************)
RemoveExisting ==
    /\ pc = "existing"
    /\ \/ fresh /\ known /\ Remove /\ (Goto("discover") \/ Fail("none"))
       \/ ~(fresh /\ known) /\ Goto("discover") /\ UNCHANGED bluez
       \/ Fail("none") /\ UNCHANGED bluez
    /\ UNCHANGED <<host, owned, ours, other, drops, tracing, verified, reads>>

StartDiscovery ==
    /\ pc = "discover"
    /\ \/ owned /\ ours' \in {TRUE, FALSE} /\ Goto("lost")         \* StartDiscovery fails
       \/ ours' = owned /\ Goto("seek")
    /\ UNCHANGED <<host, owned, other, bluez, drops, tracing, verified, reads>>

AwaitTarget ==
    /\ pc = "seek"
    /\ (known /\ Goto("found")) \/ Goto("lost")
    /\ UNCHANGED <<host, owned, ours, other, bluez, drops, tracing, verified, reads>>

\* The finally clause. A stop that failed, or a scan that is still seen afterwards, fails
\* a run whose target was found.
StopDiscovery ==
    /\ pc \in {"found", "lost"}
    /\ ours' \in {FALSE, ours}
    /\ \/ pc = "lost" /\ Fail("ble-advertisement")
       \/ pc = "found" /\ (~owned \/ ~(ours' \/ other)) /\ Goto("check")
       \/ pc = "found" /\ owned /\ Fail("ble-advertisement-cleanup")
       \/ Fail("none")                                             \* interrupted
    /\ UNCHANGED <<host, owned, other, bluez, drops, tracing, verified, reads>>

(***************************************************************************)
(* Pairing                                                                 *)
(***************************************************************************)
CheckPaired ==
    /\ pc = "check"
    /\ \/ requires_pairing /\ ~paired /\ Goto("agent")
       \/ requires_pairing /\ paired /\ ~fresh /\ Goto("bonded")
       \/ ~requires_pairing /\ ~paired /\ Goto("connect")
       \/ Fail("none")
    /\ UNCHANGED <<host, owned, ours, other, bluez, drops, tracing, verified, reads>>

\* optional_hci_capture() enters, or notes why it could not and goes on. An interrupt while
\* btmon starts is such a reason: the process then runs and nothing will stop it.
StartTrace ==
    /\ trace' \in {"off", "on"}
    /\ available' \in {trace' = "on", FALSE}

\* RegisterAgent() is outside the try: what raises there leaves the agent to BlueZ.
Prepare ==
    /\ pc = "agent"
    /\ \/ agent' = "registered" /\ StartTrace /\ Goto("pair")
       \/ /\ agent' \in {"none", "abandoned"} /\ Fail("none")
          /\ UNCHANGED <<trace, available>>
    /\ UNCHANGED <<host, owned, ours, other, bluez, drops, trace_cleaned, verified, reads>>

\* Pair() returns, finds the device paired, or fails, with or without a pairing going on.
Pair ==
    /\ pc = "pair"
    /\ \/ /\ known /\ ~paired
          /\ paired' = TRUE /\ bonded' \in Bonding /\ connected' = TRUE /\ resolved' = FALSE
          /\ link' = IF connected THEN link ELSE link + 1
          /\ Goto("release") /\ UNCHANGED <<known, pairing>>
       \/ paired /\ Goto("release") /\ UNCHANGED bluez
       \/ /\ pairing' \in {known, FALSE}
          /\ Goto("cancel") /\ UNCHANGED <<known, paired, bonded, connected, resolved, link>>
    /\ UNCHANGED <<host, owned, ours, other, drops, tracing, verified, reads>>

\* The end of the trace, if it was entered. btmon may survive both signals; an interrupt
\* in the cleanup is noted like an error. A btmon on its own may meet its hard timeout.
StopTrace ==
    /\ trace' \in {trace, "off"}
    /\ trace_cleaned' \in IF available THEN {trace' = "off", FALSE} ELSE {trace_cleaned}
    /\ UNCHANGED available

\* The finally clauses of the pairing. An error of UnregisterAgent() is swallowed; an
\* interrupt there takes the place of what was raised before.
Release ==
    /\ pc \in {"release", "released", "interrupted"}
    /\ StopTrace
    /\ agent' \in {"none", "abandoned"}
    /\ \/ pc = "release" /\ Goto("bonded")
       \/ pc = "released" /\ Fail("ble-pairing")
       \/ Fail("none")
    /\ UNCHANGED <<host, owned, ours, other, bluez, drops, verified, reads>>

AwaitBond ==
    /\ pc = "bonded"
    /\ \/ paired /\ bonded /\ Goto("connect")
       \/ Fail("none")
    /\ UNCHANGED <<host, owned, ours, other, bluez, drops, tracing, verified, reads>>

(***************************************************************************)
(* cleanup_failed_pairing(): every step is tried, whatever failed before   *)
(***************************************************************************)
Cancel ==
    /\ pc \in {"cancel", "cancel-connect"}
    /\ pairing' \in {pairing, FALSE}
    /\ Goto(IF pc = "cancel" THEN "hangup" ELSE "hangup-connect")
    /\ UNCHANGED <<host, owned, ours, other, known, paired, bonded, connected, resolved, link,
                   drops, tracing, verified, reads>>

HangUp ==
    /\ pc \in {"hangup", "hangup-connect"}
    /\ connected' \in {connected, FALSE} /\ resolved' = (resolved /\ connected')
    /\ Goto(IF pc = "hangup" THEN "remove" ELSE "remove-connect")
    /\ UNCHANGED <<host, owned, ours, other, known, paired, bonded, link, pairing, drops,
                   tracing, verified, reads>>

\* Mutant of RemoveFailed: the removal is called verified without a look.
MutantRemoveFailed ==
    /\ pc \in {"remove", "remove-connect"}
    /\ Remove \/ UNCHANGED bluez
    /\ verified' = TRUE
    /\ (pc = "remove" /\ Goto("released")) \/ (pc = "remove-connect" /\ Fail("ble-connect"))
    /\ UNCHANGED <<host, owned, ours, other, drops, tracing, reads>>

\* The removal and the reading that verifies it.
RemoveFailed ==
    /\ pc \in {"remove", "remove-connect"}
    /\ Remove \/ UNCHANGED bluez
    /\ verified' \in {~known', FALSE}
    /\ (pc = "remove" /\ Goto("released")) \/ (pc = "remove-connect" /\ Fail("ble-connect"))
    /\ UNCHANGED <<host, owned, ours, other, drops, tracing, reads>>

(***************************************************************************)
(* GATT                                                                    *)
(***************************************************************************)
\* Connect() to an object that BlueZ has, where the reply may be lost with the link up.
Connected(p, q) ==
    \/ /\ known /\ connected' = TRUE
       /\ link' = IF connected THEN link ELSE link + 1
       /\ resolved' = (connected /\ resolved)
       /\ UNCHANGED <<known, paired, bonded, pairing>>
       /\ Goto(p) \/ q
    \/ q /\ UNCHANGED bluez

Connect ==
    /\ pc = "connect"
    /\ Connected("resolve", Fail("none") \/ (~connected /\ Goto("cancel-connect")))
    /\ UNCHANGED <<host, owned, ours, other, drops, tracing, verified, reads>>

\* Waits for the services; the audit of the objects may refuse them.
AwaitServices(p, q) ==
    /\ pc = p
    /\ (resolved /\ Goto(q)) \/ Fail("none")
    /\ UNCHANGED <<host, owned, ours, other, bluez, drops, tracing, verified, reads>>

\* An attribute that needs encryption is read on a link that has the keys.
Readable == connected /\ paired

Read ==
    /\ pc = "read"
    /\ \/ requires_pairing /\ Readable /\ readable' = link /\ Goto("disconnect")
       \/ ~requires_pairing /\ UNCHANGED readable /\ Goto("disconnect")
       \/ requires_pairing /\ UNCHANGED readable /\ Fail("none")
    /\ UNCHANGED <<host, owned, ours, other, bluez, drops, tracing, verified, reconnect_read>>

\* Disconnect() only begins the disconnection.
Disconnect ==
    /\ pc = "disconnect"
    /\ Goto("disconnecting") \/ Fail("none")
    /\ UNCHANGED <<host, owned, ours, other, bluez, drops, tracing, verified, reads>>

AwaitDisconnected ==
    /\ pc = "disconnecting"
    /\ \/ ~connected /\ requires_reconnect /\ Goto("reconnect")
       \/ ~connected /\ ~requires_reconnect /\ pc' = "done" /\ status' = "ok" /\ UNCHANGED stage
       \/ Fail("none")
    /\ UNCHANGED <<host, owned, ours, other, bluez, drops, tracing, verified, reads>>

Reconnect ==
    /\ pc = "reconnect"
    /\ Connected("re-resolve", Fail("none"))
    /\ UNCHANGED <<host, owned, ours, other, drops, tracing, verified, reads>>

ReadAgain ==
    /\ pc = "re-read"
    /\ \/ Readable /\ reconnect_read' = link /\ pc' = "done" /\ status' = "ok" /\ UNCHANGED stage
       \/ Fail("none") /\ UNCHANGED reconnect_read
    /\ UNCHANGED <<host, owned, ours, other, bluez, drops, tracing, verified, readable>>

\* A KeyboardInterrupt goes past the handlers: through the finally clause of the discovery,
\* to those of the pairing, or to the report. One inside a clause is a branch of its action.
Interrupt ==
    /\ \/ pc \in {"discover", "seek"} /\ ours' \in {FALSE, ours} /\ Fail("none")
       \/ /\ pc \in {"pair", "cancel", "hangup", "remove"}
          /\ Goto("interrupted") /\ UNCHANGED ours
       \/ /\ pc \in {"existing", "check", "bonded", "connect", "resolve", "read", "disconnect",
                     "disconnecting", "reconnect", "re-resolve", "re-read", "cancel-connect",
                     "hangup-connect", "remove-connect"}
          /\ Fail("none") /\ UNCHANGED ours
    /\ UNCHANGED <<host, owned, other, bluez, drops, tracing, verified, reads>>

(***************************************************************************)
(* BlueZ, the target and other clients                                     *)
(***************************************************************************)
Appear ==
    /\ ours \/ other
    /\ ~known /\ known' = TRUE
    /\ UNCHANGED <<pc, host, status, stage, owned, ours, other, paired, bonded, connected,
                   resolved, link, pairing, drops, tracing, verified, reads>>

Resolve ==
    /\ connected /\ ~resolved /\ resolved' = TRUE
    /\ UNCHANGED <<pc, host, status, stage, owned, ours, other, known, paired, bonded, connected,
                   link, pairing, drops, tracing, verified, reads>>

\* A pairing that was given up ends with a bond after all.
PairLate ==
    /\ pairing /\ pairing' = FALSE /\ paired' = TRUE /\ bonded' \in Bonding
    /\ UNCHANGED <<pc, host, status, stage, owned, ours, other, known, connected, resolved, link,
                   drops, tracing, verified, reads>>

\* Another client pairs the target while the run prepares to.
PairElsewhere ==
    /\ pc = "pair" /\ known /\ ~paired /\ ~connected
    /\ paired' = TRUE /\ bonded' \in Bonding
    /\ connected' = TRUE /\ resolved' = FALSE /\ link' = link + 1
    /\ UNCHANGED <<pc, host, status, stage, owned, ours, other, known, pairing, drops,
                   tracing, verified, reads>>

LoseLink ==
    /\ connected
    /\ pc = "disconnecting" \/ drops < MaxDrops
    /\ drops' = IF pc = "disconnecting" THEN drops ELSE drops + 1
    /\ connected' = FALSE /\ resolved' = FALSE
    /\ UNCHANGED <<pc, host, status, stage, owned, ours, other, known, paired, bonded, link,
                   pairing, tracing, verified, reads>>

Host ==
    \/ RemoveExisting \/ StartDiscovery \/ AwaitTarget \/ StopDiscovery
    \/ CheckPaired \/ Prepare \/ Pair \/ Release \/ AwaitBond
    \/ Cancel \/ HangUp \/ RemoveFailed
    \/ Connect \/ AwaitServices("resolve", "read") \/ Read \/ Disconnect \/ AwaitDisconnected
    \/ Reconnect \/ AwaitServices("re-resolve", "re-read") \/ ReadAgain

Next == Host \/ Interrupt \/ Appear \/ Resolve \/ PairLate \/ PairElsewhere \/ LoseLink

\* Every call and every wait of the host has a timeout.
Spec == Init /\ [][Next]_vars /\ WF_vars(Host)

-----------------------------------------------------------------------------
\* Success means what the report says of the bond: the protected value was read, and in
\* the phases with a reconnection again on a link of its own that the stored keys secure.
ReconnectProved ==
    status = "ok" /\ requires_pairing =>
        bonded /\ readable > 0 /\ (requires_reconnect => reconnect_read > readable)

\* The cleanup of a failed pairing or connection that reports verified has left no keys,
\* and none can come from a pairing that was given up.
FailedPairingLeavesNothing ==
    pc = "done" /\ verified => ~paired /\ ~pairing /\ ~connected

\* Once the pairing has begun, every way to the end has asked BlueZ to forget the agent.
\* A btmon that still runs is not noted as a trace that was taken and cleaned; one whose
\* startup was interrupted is noted as unavailable. No discovery of a successful run goes on.
HostReleased ==
    pc = "done" =>
        /\ agent # "registered"
        /\ trace = "on" => ~available \/ ~trace_cleaned
        /\ status = "ok" => ~ours
=============================================================================
