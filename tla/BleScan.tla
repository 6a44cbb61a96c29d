------------------------------- MODULE BleScan -------------------------------
(***************************************************************************)
(* The advertising scan of the host (scan_ble_advertisement() in           *)
(* tools/nrfkit_tools/ble_validation.py and command_m6_ble_scan() in       *)
(* cli.py) over the BlueZ adapter that it shares with other clients.       *)
(*                                                                         *)
(* BlueZ keeps an object for a device that it has heard of. Its RSSI is    *)
(* known only after an advertisement during discovery, and an unpaired     *)
(* object may be discarded once nobody discovers. The scan looks for the   *)
(* object by name and RSSI.                                                *)
(***************************************************************************)
EXTENDS Naturals

CONSTANTS
    CachedBonds,   \* values of "the host has a bond with the target" at the start
    MaxSwitches    \* bound on what other clients and the target switch on or off

ConstantsOk == CachedBonds \subseteq BOOLEAN /\ MaxSwitches \in Nat

VARIABLES
    pc,
    known, paired, rssi,   \* the device object of BlueZ
    ours, other,           \* discovery sessions of the scan and of other clients
    advertising, switches,
    heard,                 \* an advertisement was received since the scan began
    owned, found, current, failure, errors, verified,
    status

bluez == <<known, paired, rssi, ours>>
outside == <<other, advertising, switches>>
host == <<owned, found, current, failure, errors, verified, status>>
vars == <<pc, bluez, outside, heard, host>>

Init ==
    /\ pc = "snapshot" /\ status = "running"
    /\ paired \in CachedBonds /\ known \in {k \in BOOLEAN : paired => k}
    /\ rssi \in {r \in BOOLEAN : r => known}
    /\ ours = FALSE /\ other \in BOOLEAN /\ advertising \in BOOLEAN /\ switches = 0
    /\ heard = FALSE /\ owned = FALSE /\ found = FALSE /\ current = FALSE /\ failure = FALSE
    /\ errors = FALSE /\ verified = FALSE

Discovering == ours \/ other

\* matching_device(): the name is that of the target in this model.
Matching == known /\ rssi

Goto(p) == pc' = p

\* An exception before anything has to be undone.
Abort == pc' = "done" /\ status' = "failed"

-----------------------------------------------------------------------------
\* The properties of the adapter are read once; exactly one must be powered.
Snapshot ==
    /\ pc = "snapshot"
    /\ \/ Abort /\ UNCHANGED <<owned, heard>>
       \/ Goto("existing") /\ owned' = ~Discovering /\ heard' = FALSE /\ UNCHANGED status
    /\ UNCHANGED <<bluez, outside, found, current, failure, errors, verified>>

\* Mutant of RemoveExisting: an object of an earlier discovery is kept.
MutantRemoveExisting ==
    /\ pc = "existing" /\ Goto("begin")
    /\ UNCHANGED <<bluez, outside, heard, host>>

\* An old object would answer the wait below without an advertisement. A bond is refused.
RemoveExisting ==
    /\ pc = "existing"
    /\ \/ ~Matching /\ Goto("begin") /\ UNCHANGED <<bluez, status>>
       \/ Matching /\ ~paired /\ Goto("removing")
            /\ known' = FALSE /\ rssi' = FALSE /\ UNCHANGED <<paired, ours, status>>
       \/ Matching /\ Abort /\ UNCHANGED bluez
    /\ UNCHANGED <<outside, heard, owned, found, current, failure, errors, verified>>

AwaitRemoval ==
    /\ pc = "removing"
    /\ \/ ~Matching /\ Goto("begin") /\ UNCHANGED status
       \/ Matching /\ Abort
    /\ UNCHANGED <<bluez, outside, heard, owned, found, current, failure, errors, verified>>

StartDiscovery ==
    /\ pc = "begin"
    /\ \/ Goto("await") /\ ours' = owned /\ UNCHANGED failure
       \/ owned /\ Goto("stop") /\ failure' = TRUE /\ ours' \in BOOLEAN   \* lost reply
    /\ UNCHANGED <<known, paired, rssi, outside, heard, owned, found, current, errors, verified, status>>

\* The object appears, or the time is over.
Await ==
    /\ pc = "await" /\ Goto("stop")
    /\ \/ Matching /\ found' = TRUE /\ UNCHANGED failure
       \/ failure' = TRUE /\ UNCHANGED found
    /\ UNCHANGED <<bluez, outside, heard, owned, current, errors, verified, status>>

StopDiscovery ==
    /\ pc = "stop" /\ Goto("find")
    /\ \/ owned /\ ours' = FALSE /\ UNCHANGED errors
       \/ owned /\ errors' = TRUE /\ UNCHANGED ours
       \/ ~owned /\ UNCHANGED <<ours, errors>>
    /\ UNCHANGED <<known, paired, rssi, outside, heard, owned, found, current, failure, verified, status>>

FindForRemoval ==
    /\ pc = "find" /\ Goto("remove")
    /\ \/ current' = (found \/ Matching) /\ UNCHANGED errors
       \/ ~found /\ current' = FALSE /\ errors' = TRUE
    /\ UNCHANGED <<bluez, outside, heard, owned, found, failure, verified, status>>

\* RemoveDevice() also deletes the keys. DoesNotExist is no error.
RemoveDevice ==
    /\ pc = "remove" /\ Goto("gone")
    /\ \/ current /\ known' = FALSE /\ rssi' = FALSE /\ paired' = FALSE /\ UNCHANGED errors
       \/ current /\ errors' = TRUE /\ UNCHANGED <<known, rssi, paired>>
       \/ ~current /\ UNCHANGED <<known, rssi, paired, errors>>
    /\ UNCHANGED <<ours, outside, heard, owned, found, current, failure, verified, status>>

AwaitGone ==
    /\ pc = "gone" /\ Goto("verify")
    /\ errors' \in {errors \/ (current /\ Matching), errors \/ current}
    /\ UNCHANGED <<bluez, outside, heard, owned, found, current, failure, verified, status>>

Verify ==
    /\ pc = "verify" /\ Goto("return")
    /\ verified' \in {~Matching /\ ~errors, FALSE}
    /\ UNCHANGED <<bluez, outside, heard, owned, found, current, failure, errors, status>>

\* The command accepts a result only with a verified cleanup.
Return ==
    /\ pc = "return" /\ Goto("done")
    /\ status' = IF failure \/ ~verified THEN "failed" ELSE "ok"
    /\ UNCHANGED <<bluez, outside, heard, owned, found, current, failure, errors, verified>>

(***************************************************************************)
(* BlueZ, the target and other clients                                     *)
(***************************************************************************)
Hear ==
    /\ Discovering /\ advertising
    /\ known' = TRUE /\ rssi' = TRUE /\ heard' = TRUE
    /\ UNCHANGED <<pc, paired, ours, outside, host>>

\* When nobody discovers, the RSSI is dropped, and the object unless it is paired.
Forget ==
    /\ ~Discovering /\ rssi
    /\ rssi' = FALSE
    /\ known' \in {known, paired}
    /\ UNCHANGED <<pc, paired, ours, outside, heard, host>>

Switch ==
    /\ switches < MaxSwitches /\ switches' = switches + 1
    /\ \/ other' = ~other /\ UNCHANGED advertising
       \/ advertising' = ~advertising /\ UNCHANGED other
    /\ UNCHANGED <<pc, bluez, heard, host>>

Host ==
    \/ Snapshot \/ RemoveExisting \/ AwaitRemoval \/ StartDiscovery \/ Await \/ StopDiscovery
    \/ FindForRemoval \/ RemoveDevice \/ AwaitGone \/ Verify \/ Return

Next == Host \/ Hear \/ Forget \/ Switch

\* Every call and every wait of the host has a timeout.
Spec == Init /\ [][Next]_vars /\ WF_vars(Host)

-----------------------------------------------------------------------------
\* A successful scan means that the target advertised while it ran: neither a cached
\* object nor the RSSI of an earlier discovery is taken for evidence.
FreshEvidence == status = "ok" => heard

\* A successful scan has released its discovery: a stop that failed makes the cleanup
\* unverified, and the command refuses the result.
DiscoveryReleased == status = "ok" => ~ours
=============================================================================
