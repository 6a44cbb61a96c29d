----------------------- MODULE BluetoothCommandsProofs ----------------------
(***************************************************************************)
(* Proofs about module BluetoothCommands, for chunks of any length, any    *)
(* number of rounds, any bound on dropped links and switched radios, and   *)
(* any set of bonds that pairing and the host's cache may hold.            *)
(***************************************************************************)
EXTENDS BluetoothCommands, SequenceTheorems, TLAPS

(***************************************************************************)
(* The oracle: commands and their answers on both directions of the UART.  *)
(***************************************************************************)
Commands == {"reset", "read", "mask", "adv-on", "adv-off", "burst", "disconnect", "scan-on",
             "scan-off", "create"}
AnswerKinds == {"complete", "status"}
EventKinds  == AnswerKinds \cup {"disconnection", "connection", "report", "acl"}

EventSet == [kind : EventKinds, op : Commands \cup {"none"}, id : Nat]
OrderSet == [op : Commands, id : Nat, target : Nat]

\* The events and commands that are under way.
Flying  == {pending[i] : i \in DOMAIN pending} \cup {wire[i] : i \in DOMAIN wire}
Ordered == {down[i] : i \in DOMAIN down}

\* At most one event of the kinds K is under way.
One(s, K) == \A i, j \in DOMAIN s : s[i].kind \in K /\ s[j].kind \in K => i = j
Has(s, K) == \E i \in DOMAIN s : s[i].kind \in K
Single(K) == One(pending, K) /\ One(wire, K) /\ ~(Has(pending, K) /\ Has(wire, K))

Answering == {e \in Flying : e.kind \in AnswerKinds}
Connecting == {e \in Flying : e.kind = "connection"}

\* The oracle is in its script, or in the finally clause of a step that failed.
OraclePlace ==
    /\ n \in 1..19 /\ oraclePhase \in {"send", "await", "finally", "closing", "done"}
    /\ oracleStatus \in {"running", "failed", "ok"} /\ closing \in {"none", "adv-off", "scan-off"}
    /\ unclean \in BOOLEAN /\ handle \in Nat /\ issued \in Nat /\ answer \in Nat
    /\ pending \in Seq(EventSet) /\ wire \in Seq(EventSet) /\ down \in Seq(OrderSet)
    /\ oracleStatus = "running" <=> oraclePhase \in {"send", "await"}
    /\ oracleStatus = "ok" => n = 19 /\ closing = "none"
    /\ oraclePhase \in {"send", "await"} => closing = "none"
    /\ oraclePhase \in {"finally", "closing"} => closing # "none"

Awaiting == oraclePhase = "await" /\ Oracle!Step.kind # "wait"

\* Between two commands nothing is under way that could answer one, and while a command
\* waits, nothing but it or its answer.
CommandsPaired ==
    /\ oraclePhase = "send" \/ (oraclePhase = "await" /\ Oracle!Step.kind = "wait") =>
         down = <<>> /\ Answering = {} /\ answer = issued
    /\ Awaiting => /\ Single(AnswerKinds) /\ (down # <<>> => Answering = {})
                   /\ \A c \in Ordered : c.id = issued
                   /\ \A e \in Answering : e.id = issued \/ (e.kind = "status" /\ e.id = 0)
    /\ closing = "none" => Len(down) <= 1
    /\ \A c \in Ordered : c.op \in {Oracle!Step.op, closing}
    /\ \A e \in Answering : e.op \in {Oracle!Step.op, closing} \ {"none"}

\* The answer of the finally clause cannot be one to an earlier command.
ClosingPaired ==
    /\ oraclePhase = "finally" =>
        \A x \in Ordered \cup Answering : Oracle!Opcode(x.op) # Oracle!Opcode(closing)
    /\ oraclePhase = "closing" =>
        \A x \in Ordered \cup Answering :
            Oracle!Opcode(x.op) = Oracle!Opcode(closing) => x.id = issued
    /\ oraclePhase = "done" /\ closing # "none" /\ ~unclean => answer = issued

\* The flags of the host stand for the part of the script that switches a role on, and a
\* failure there is closed.
FlagsInScript ==
    /\ advertising_enabled \in BOOLEAN /\ scan_enabled \in BOOLEAN
    /\ advertising_enabled => n \in 5..9 /\ ~(n = 9 /\ oraclePhase = "await")
    /\ scan_enabled => n \in 14..15 /\ ~(n = 15 /\ oraclePhase = "await")
    /\ oracleStatus = "running" =>
         (n \in 5..8 => advertising_enabled) /\ (n = 14 => scan_enabled)
    /\ closing = "adv-off" => n \in 5..9
    /\ closing = "scan-off" => n \in 14..15
    /\ oracleStatus = "failed" /\ closing = "none" => n \notin 5..8 /\ n # 14

\* The controller advertises only until it is connected, and scans only in the part of
\* the script between the two commands; the answer to a command says that it is executed.
RolesInScript ==
    /\ adv \in BOOLEAN /\ scan \in BOOLEAN
    /\ adv => n >= 4 /\ ~(n = 4 /\ oraclePhase = "send") /\ links = 0
    /\ scan => n \in 13..15
    /\ \A c \in Ordered : /\ c.op = "adv-on" => n = 4 /\ ~adv /\ links = 0
                          /\ c.op = "scan-on" => n = 13
    /\ \A e \in Answering : /\ e.op = "adv-off" => ~adv
                            /\ e.op = "scan-off" => ~scan
    /\ oraclePhase = "done" /\ closing # "none" /\ ~unclean =>
         (closing = "adv-off" => ~adv) /\ (closing = "scan-off" => ~scan)

\* The first link comes from the advertising and the second one from the call.
LinksInScript ==
    /\ links \in 0..2 /\ oracleLink \in {0, links} /\ creating \in BOOLEAN
    /\ n < 4 \/ (n = 4 /\ oraclePhase = "send") => links = 0
    /\ n >= 8 => links >= 1
    /\ links = 2 => n \in 16..19 /\ ~(n = 16 /\ oraclePhase = "send")
    /\ n >= 18 => links = 2
    /\ creating => n \in {16, 17} /\ ~(n = 16 /\ oraclePhase = "send") /\ links = 1
    /\ \A c \in Ordered : c.op = "create" => n = 16 /\ links = 1 /\ ~creating
    /\ handle = IF n < 8 THEN 0 ELSE IF n < 18 THEN 1 ELSE 2
    /\ Single({"connection"})
    /\ \A e \in Connecting : e.id = links /\ links > 0 /\ (n < 8 \/ links = 2) /\ n < 18
    /\ \A e \in Flying : e.kind = "disconnection" => e.id \in 1..links /\ e.id # oracleLink
    /\ oracleStatus = "ok" => oracleLink = 0

OracleInv == /\ OraclePlace /\ CommandsPaired /\ ClosingPaired /\ FlagsInScript
             /\ RolesInScript /\ LinksInScript

\* What holds at each step of a two-board gate: the rounds before this one are heard
\* and proven, the receiver of this one listens once its marker exists, and a child
\* belongs to the step that waits for it.
DualInv ==
    /\ dualPc \in {"receiver", "ready", "transmitter", "join", "evidence", "finally", "done"}
    /\ round \in 1..Rounds /\ reaped \in BOOLEAN /\ left \in BOOLEAN
    /\ receiver \in {"none", "starting", "listening", "passed", "failed"}
    /\ transmitter \in {"none", "starting", "sending", "passed", "failed"}
    /\ dualStatus \in {"running", "failed", "ok"}
    /\ ready \subseteq {round}
    /\ dualHeard \in {1..(round - 1), 1..round}
    /\ dualPc \notin {"finally", "done"} => dualStatus = "running" /\ proven = 1..(round - 1)
    /\ dualStatus = "ok" => dualPc = "done"
    /\ transmitter # "none" => dualPc = "transmitter"
    /\ reaped => receiver = "none"
    /\ dualPc = "receiver" => reaped /\ ready = {} /\ dualHeard = 1..(round - 1)
    /\ dualPc \in {"ready", "transmitter", "join"} => receiver # "none"
    /\ receiver = "starting" => ready = {}
    /\ receiver = "passed" => dualHeard = 1..round
    /\ dualPc = "transmitter" => round \in ready
    /\ dualPc = "evidence" => receiver = "none" /\ dualHeard = 1..round
    /\ dualPc = "finally" => \/ dualStatus = "failed"
                             \/ /\ dualStatus = "running" /\ reaped
                                /\ proven = 1..Rounds /\ dualHeard = 1..Rounds
    /\ dualPc = "done" => receiver = "none" /\ ready = {} /\ ~left
    /\ dualStatus = "ok" => proven = 1..Rounds /\ dualHeard = 1..Rounds

\* What holds at each step of a scan: from the start of its discovery on, a matching
\* object was heard, and a discovery that goes on after the stop is an error.
ScanInv ==
    /\ scanPc \in {"snapshot", "existing", "removing", "begin", "await", "stop", "find",
                   "remove", "gone", "verify", "return", "done"}
    /\ scanKnown \in BOOLEAN /\ scanPaired \in BOOLEAN /\ rssi \in BOOLEAN /\ scanOurs \in BOOLEAN
    /\ scanHeard \in BOOLEAN /\ scanOwned \in BOOLEAN /\ failure \in BOOLEAN
    /\ errors \in BOOLEAN /\ scanVerified \in BOOLEAN
    /\ scanStatus \in {"running", "failed", "ok"}
    /\ scanPc # "done" => scanStatus = "running"
    /\ scanPc \in {"begin", "await"} /\ scanKnown /\ rssi => scanHeard
    /\ scanPc \in {"stop", "find", "remove", "gone", "verify", "return"} => failure \/ scanHeard
    /\ scanOurs => scanOwned /\ scanPc \notin {"snapshot", "existing", "removing", "begin"}
    /\ scanPc \in {"find", "remove", "gone", "verify"} /\ scanOurs => errors
    /\ scanPc = "return" /\ scanVerified => ~scanOurs
    /\ scanStatus = "ok" => scanHeard /\ ~scanOurs

\* The steps at which the pairing agent and the trace are in use, and those of a link
\* that the keys of a pairing secure.
Pairing == {"pair", "release", "cancel", "hangup", "remove", "released",
            "interrupted"}
Reading == {"connect", "resolve", "read"}
ReadOnce == {"disconnect", "disconnecting", "reconnect", "re-resolve", "re-read"}

\* What holds at each step of a BLE gate: its place, ...
AtStep ==
    /\ validationPc \in {"existing", "discover", "seek", "found", "lost", "check", "agent",
                         "bonded", "cancel-connect", "hangup-connect", "remove-connect", "done"}
                        \cup Pairing \cup Reading \cup ReadOnce
    /\ validationPhase \in Validation!Phases /\ fresh \in BOOLEAN
    /\ validationStatus \in {"running", "failed", "ok"}
    /\ validationStatus = "running" <=> validationPc # "done"

\* ... its discovery and the device that BlueZ knows, which without an object has no keys,
\* no link and no pairing, ...
DeviceKnown ==
    /\ validationOwned \in BOOLEAN /\ validationOurs \in BOOLEAN /\ validationOther \in BOOLEAN
    /\ validationKnown \in BOOLEAN /\ validationPaired \in BOOLEAN /\ bonded \in BOOLEAN
    /\ validationPaired \/ pairing \/ connected => validationKnown
    /\ validationOurs => /\ validationOwned
                         /\ validationPc \in {"seek", "found", "lost", "done"}
                         /\ validationStatus # "ok"

\* ... the links of it, which are counted, ...
LinksCounted ==
    /\ connected \in BOOLEAN /\ resolved \in BOOLEAN
    /\ validationLink \in Nat /\ readable \in Nat /\ reconnect_read \in Nat
    /\ connected => validationLink > 0
    /\ readable <= validationLink

\* ... the agent, the trace and the pairing, which end with their steps or are reported, ...
PairingEnds ==
    /\ pairing \in BOOLEAN /\ agent \in {"none", "registered", "abandoned"}
    /\ trace \in {"off", "on"} /\ available \in BOOLEAN
    /\ trace_cleaned \in BOOLEAN /\ validationVerified \in BOOLEAN
    /\ agent = "registered" => validationPc \in Pairing
    /\ trace = "on" /\ available /\ trace_cleaned => validationPc \in Pairing
    /\ pairing => /\ validationPc \in {"cancel", "hangup", "remove", "released",
                                       "interrupted", "done"}
                  /\ validationStatus # "ok"
    /\ validationVerified => /\ validationPc \in {"released", "done"}
                             /\ ~validationPaired /\ ~pairing /\ ~connected
                             /\ validationStatus # "ok"

\* ... and the keys and the reads that a success stands for.
ReadsSecured ==
    /\ (validationPc \in Reading \cup ReadOnce \/ validationStatus = "ok")
         /\ validationPhase # "plaintext" => validationPaired /\ bonded
    /\ (validationPc \in ReadOnce \/ validationStatus = "ok")
         /\ validationPhase # "plaintext" => readable > 0
    /\ validationPc = "reconnect" => ~connected
    /\ validationPc \in {"re-resolve", "re-read"} => validationLink > readable
    /\ validationStatus = "ok" /\ validationPhase \in {"persistence", "oracle"} =>
         reconnect_read > readable

ValidationInv == AtStep /\ DeviceKnown /\ LinksCounted /\ PairingEnds /\ ReadsSecured

\* A command that runs is at one of its steps; the others have no state.
CommandInv ==
    /\ command = "m6-sdc-oracle" => OracleInv
    /\ command = "radio-dual" => DualInv
    /\ command = "m6-ble-gate" => ValidationInv
    /\ command = "m6-ble-scan" => ScanInv

-----------------------------------------------------------------------------

\* What each position of the script asks for.
LEMMA ScriptIs ==
  /\ Len(Oracle!Script) = 19
  /\ \A i \in {1, 2, 3, 4, 6, 8, 12, 13, 15} : Oracle!Script[i].kind = "complete"
  /\ \A i \in {10, 16, 18} : Oracle!Script[i].kind = "status"
  /\ \A i \in {5, 7, 9, 11, 14, 17, 19} : Oracle!Script[i].kind = "wait"
  /\ Oracle!Script[1].op = "reset" /\ Oracle!Script[2].op = "read"
  /\ Oracle!Script[3].op = "mask" /\ Oracle!Script[4].op = "adv-on"
  /\ Oracle!Script[5].op = "on-air" /\ Oracle!Script[6].op = "burst"
  /\ Oracle!Script[7].op = "connection" /\ Oracle!Script[8].op = "burst"
  /\ Oracle!Script[9].op = "acl" /\ Oracle!Script[10].op = "disconnect"
  /\ Oracle!Script[11].op = "disconnection" /\ Oracle!Script[12].op = "read"
  /\ Oracle!Script[13].op = "scan-on" /\ Oracle!Script[14].op = "report"
  /\ Oracle!Script[15].op = "scan-off" /\ Oracle!Script[16].op = "create"
  /\ Oracle!Script[17].op = "connection" /\ Oracle!Script[18].op = "disconnect"
  /\ Oracle!Script[19].op = "disconnection"
  <1> DEFINE p == Oracle!Peripheral
             c == Oracle!Central
  <1> DEFINE S == {p[i] : i \in 1..12} \cup {c[i] : i \in 1..7}
  <1>1. p \in Seq(S) /\ Len(p) = 12 /\ c \in Seq(S) /\ Len(c) = 7
    <2>1. Len(p) = 12 /\ DOMAIN p = 1..12 /\ p = [i \in 1..12 |-> p[i]]
        BY DEF Oracle!Peripheral
    <2>2. Len(c) = 7 /\ DOMAIN c = 1..7 /\ c = [i \in 1..7 |-> c[i]]
        BY DEF Oracle!Central
    <2> HIDE DEF p, c
    <2>3. p \in [1..12 -> S] /\ c \in [1..7 -> S]
        BY <2>1, <2>2
    <2>4. QED
        BY <2>1, <2>2, <2>3
  <1>2. /\ p[1] = Oracle!Cmd("reset") /\ p[2] = Oracle!Cmd("read") /\ p[3] = Oracle!Cmd("mask")
        /\ p[4] = Oracle!Cmd("adv-on") /\ p[5] = Oracle!Wait("on-air")
        /\ p[6] = Oracle!Cmd("burst") /\ p[7] = Oracle!Wait("connection")
        /\ p[8] = Oracle!Cmd("burst") /\ p[9] = Oracle!Wait("acl")
        /\ p[10] = Oracle!Status("disconnect") /\ p[11] = Oracle!Wait("disconnection")
        /\ p[12] = Oracle!Cmd("read")
      BY DEF Oracle!Peripheral
  <1>3. /\ c[1] = Oracle!Cmd("scan-on") /\ c[2] = Oracle!Wait("report")
        /\ c[3] = Oracle!Cmd("scan-off") /\ c[4] = Oracle!Status("create")
        /\ c[5] = Oracle!Wait("connection") /\ c[6] = Oracle!Status("disconnect")
        /\ c[7] = Oracle!Wait("disconnection")
      BY DEF Oracle!Central
  <1> HIDE DEF p, c, S
  <1>4. /\ Len(p \o c) = 19
        /\ \A i \in 1..12 : (p \o c)[i] = p[i]
        /\ \A i \in 13..19 : (p \o c)[i] = c[i - 12]
    <2>1. /\ Len(p \o c) = Len(p) + Len(c)
          /\ \A i \in 1 .. Len(p) + Len(c) :
                (p \o c)[i] = IF i <= Len(p) THEN p[i] ELSE c[i - Len(p)]
        BY <1>1, ConcatProperties, Zenon
    <2> DEFINE s == p \o c
    <2>2. Len(p) = 12 /\ Len(p) + Len(c) = 19
        BY <1>1
    <2>3. /\ Len(s) = 19 /\ \A i \in 1..19 : s[i] = IF i <= 12 THEN p[i] ELSE c[i - 12]
        BY <2>1, <2>2, Zenon DEF s
    <2> HIDE DEF s
    <2>4. /\ \A i \in 1..12 : s[i] = p[i]
          /\ \A i \in 13..19 : s[i] = c[i - 12]
        BY <2>3
    <2>5. QED
        BY <2>3, <2>4 DEF s
  <1>5. Oracle!Script = p \o c
      BY DEF Oracle!Script, p, c
  <1>6. \A i \in 1..12 : Oracle!Script[i] = p[i]
      BY <1>4, <1>5
  <1>7. /\ Oracle!Script[13] = c[1] /\ Oracle!Script[14] = c[2] /\ Oracle!Script[15] = c[3]
        /\ Oracle!Script[16] = c[4] /\ Oracle!Script[17] = c[5] /\ Oracle!Script[18] = c[6]
        /\ Oracle!Script[19] = c[7]
    <2>1. \A i \in 13..19 : Oracle!Script[i] = c[i - 12]
        BY <1>4, <1>5
    <2>2. QED
        BY <2>1
  <1>8. \A o : /\ Oracle!Cmd(o).kind = "complete" /\ Oracle!Cmd(o).op = o
               /\ Oracle!Status(o).kind = "status" /\ Oracle!Status(o).op = o
               /\ Oracle!Wait(o).kind = "wait" /\ Oracle!Wait(o).op = o
      BY DEF Oracle!Cmd, Oracle!Status, Oracle!Wait
  <1>9. /\ Oracle!Script[1] = p[1] /\ Oracle!Script[2] = p[2] /\ Oracle!Script[3] = p[3]
        /\ Oracle!Script[4] = p[4] /\ Oracle!Script[5] = p[5] /\ Oracle!Script[6] = p[6]
        /\ Oracle!Script[7] = p[7] /\ Oracle!Script[8] = p[8] /\ Oracle!Script[9] = p[9]
        /\ Oracle!Script[10] = p[10] /\ Oracle!Script[11] = p[11] /\ Oracle!Script[12] = p[12]
      BY <1>6
  <1> DEFINE at == Oracle!Script
  <1>10. Len(at) = 19
      BY <1>4, <1>5
  <1> HIDE DEF at
  <1>11. /\ at[1] = Oracle!Cmd("reset") /\ at[2] = Oracle!Cmd("read")
         /\ at[3] = Oracle!Cmd("mask") /\ at[4] = Oracle!Cmd("adv-on")
         /\ at[5] = Oracle!Wait("on-air") /\ at[6] = Oracle!Cmd("burst")
         /\ at[7] = Oracle!Wait("connection") /\ at[8] = Oracle!Cmd("burst")
         /\ at[9] = Oracle!Wait("acl") /\ at[10] = Oracle!Status("disconnect")
         /\ at[11] = Oracle!Wait("disconnection") /\ at[12] = Oracle!Cmd("read")
      BY <1>2, <1>9 DEF at
  <1>12. /\ at[13] = Oracle!Cmd("scan-on") /\ at[14] = Oracle!Wait("report")
         /\ at[15] = Oracle!Cmd("scan-off") /\ at[16] = Oracle!Status("create")
         /\ at[17] = Oracle!Wait("connection") /\ at[18] = Oracle!Status("disconnect")
         /\ at[19] = Oracle!Wait("disconnection")
      BY <1>3, <1>7 DEF at
  <1>13. /\ \A i \in {1, 2, 3, 4, 6, 8, 12} : at[i].kind = "complete"
         /\ \A i \in {5, 7, 9, 11} : at[i].kind = "wait"
         /\ at[10].kind = "status"
      BY <1>8, <1>11
  <1>14. /\ \A i \in {13, 15} : at[i].kind = "complete"
         /\ \A i \in {14, 17, 19} : at[i].kind = "wait"
         /\ \A i \in {16, 18} : at[i].kind = "status"
      BY <1>8, <1>12
  <1>15. /\ at[1].op = "reset" /\ at[2].op = "read" /\ at[3].op = "mask" /\ at[4].op = "adv-on"
         /\ at[5].op = "on-air" /\ at[6].op = "burst" /\ at[7].op = "connection"
         /\ at[8].op = "burst" /\ at[9].op = "acl" /\ at[10].op = "disconnect"
         /\ at[11].op = "disconnection" /\ at[12].op = "read"
      BY <1>8, <1>11
  <1>16. /\ at[13].op = "scan-on" /\ at[14].op = "report" /\ at[15].op = "scan-off"
         /\ at[16].op = "create" /\ at[17].op = "connection" /\ at[18].op = "disconnect"
         /\ at[19].op = "disconnection"
      BY <1>8, <1>12
  <1>17. QED
      BY <1>10, <1>13, <1>14, <1>15, <1>16 DEF at

\* What the invariant needs of the current step.
LEMMA StepIs ==
  ASSUME n \in 1..19
  PROVE  /\ Oracle!Step.kind = "wait" <=> n \in {5, 7, 9, 11, 14, 17, 19}
         /\ Oracle!Step.kind # "wait" => /\ Oracle!Step.kind \in AnswerKinds
                                         /\ Oracle!Step.op \in Commands
         /\ Oracle!Step.kind = "wait" => Oracle!Step.op \notin Commands \cup AnswerKinds
         /\ Oracle!Step.op = "adv-on" <=> n = 4
         /\ Oracle!Step.op = "scan-on" <=> n = 13
         /\ Oracle!Step.op = "scan-off" <=> n = 15
         /\ Oracle!Step.op = "create" <=> n = 16
         /\ Oracle!Step.op \notin {"adv-off", "none"}
         /\ Oracle!Step.op = "on-air" <=> n = 5
         /\ Oracle!Step.op = "acl" <=> n = 9
         /\ Oracle!Step.op = "connection" <=> n \in {7, 17}
         /\ Oracle!Step.op = "disconnection" <=> n \in {11, 19}
  <1> DEFINE at == Oracle!Script
  <1>1. Oracle!Step = at[n]
      BY DEF Oracle!Step
  <1>2. /\ n \in {1, 2, 3, 4, 6, 8, 12, 13, 15} \/ n \in {10, 16, 18}
           \/ n \in {5, 7, 9, 11, 14, 17, 19}
      OBVIOUS
  <1>3. /\ at[n].kind = "wait" <=> n \in {5, 7, 9, 11, 14, 17, 19}
        /\ at[n].kind # "wait" => at[n].kind \in AnswerKinds
      BY <1>2, ScriptIs DEF AnswerKinds
  <1>4. /\ n = 1 => at[n].op = "reset"
        /\ n = 2 => at[n].op = "read"
        /\ n = 3 => at[n].op = "mask"
        /\ n = 4 => at[n].op = "adv-on"
        /\ n = 5 => at[n].op = "on-air"
        /\ n = 6 => at[n].op = "burst"
        /\ n = 7 => at[n].op = "connection"
        /\ n = 8 => at[n].op = "burst"
        /\ n = 9 => at[n].op = "acl"
        /\ n = 10 => at[n].op = "disconnect"
        /\ n = 11 => at[n].op = "disconnection"
        /\ n = 12 => at[n].op = "read"
        /\ n = 13 => at[n].op = "scan-on"
        /\ n = 14 => at[n].op = "report"
        /\ n = 15 => at[n].op = "scan-off"
        /\ n = 16 => at[n].op = "create"
        /\ n = 17 => at[n].op = "connection"
        /\ n = 18 => at[n].op = "disconnect"
        /\ n = 19 => at[n].op = "disconnection"
      BY ScriptIs
  <1> HIDE DEF at
  <1>5. QED
      BY <1>1, <1>3, <1>4 DEF Commands, AnswerKinds

\* Two commands share an opcode only if they switch the same role on and off.
LEMMA OpcodeIs ==
  \A o \in Commands :
      /\ Oracle!Opcode(o) = Oracle!Opcode("adv-off") <=> o \in {"adv-on", "adv-off"}
      /\ Oracle!Opcode(o) = Oracle!Opcode("scan-off") <=> o \in {"scan-on", "scan-off"}
  BY DEF Commands, Oracle!Opcode

\* Adding a command to the UART keeps the order of those on it.
LEMMA OrderAdded ==
  ASSUME down \in Seq(OrderSet), NEW c \in OrderSet, down' = Append(down, c)
  PROVE  /\ down' \in Seq(OrderSet) /\ Len(down') = Len(down) + 1
         /\ Ordered' \subseteq Ordered \cup {c}
  BY DEF Ordered

\* Taking the first one off keeps the order of the others.
LEMMA OrderTaken ==
  ASSUME down \in Seq(OrderSet), down # <<>>, down' = Tail(down)
  PROVE  /\ down' \in Seq(OrderSet) /\ Len(down') = Len(down) - 1
         /\ Head(down) \in Ordered /\ Ordered' \subseteq Ordered
         /\ Len(down) <= 1 => down' = <<>> /\ Ordered' = {}
  BY DEF Ordered

\* Taking an event keeps the others, at most one of each kind; one that was alone of its
\* kinds leaves none.
LEMMA EventTaken ==
  ASSUME pending \in Seq(EventSet), wire \in Seq(EventSet), pending # <<>>,
         pending' = Tail(pending), UNCHANGED wire
  PROVE  /\ pending' \in Seq(EventSet) /\ Head(pending) \in Flying /\ Flying' \subseteq Flying
         /\ \A K : Single(K) => Single(K)'
         /\ \A K : Single(K) /\ Head(pending).kind \in K =>
              \A e \in Flying' : e.kind \notin K
  <1>1. /\ pending' \in Seq(EventSet) /\ Len(pending') = Len(pending) - 1
        /\ \A i \in DOMAIN pending' : i + 1 \in DOMAIN pending /\ pending'[i] = pending[i + 1]
        /\ 1 \in DOMAIN pending /\ Head(pending) = pending[1]
        /\ \A i \in DOMAIN pending' : i \in Nat /\ i >= 1
      OBVIOUS
  <1>2. Head(pending) \in Flying /\ Flying' \subseteq Flying
      BY <1>1 DEF Flying
  <1>3. ASSUME NEW K, Single(K) PROVE Single(K)'
    <2>1. One(pending, K)'
        BY <1>1, <1>3 DEF Single, One
    <2>2. Has(pending, K)' => Has(pending, K)
        BY <1>1 DEF Has
    <2>3. QED
        BY <1>3, <2>1, <2>2 DEF Single, One, Has
  <1>4. ASSUME NEW K, Single(K), Head(pending).kind \in K, NEW e \in Flying', e.kind \in K
        PROVE  FALSE
    <2>1. Has(pending, K)
        BY <1>1, <1>4 DEF Has
    <2>2. CASE \E i \in DOMAIN pending' : e = pending'[i]
        BY <1>1, <1>4, <2>2 DEF Single, One
    <2>3. CASE \E i \in DOMAIN wire : e = wire[i]
        BY <1>4, <2>1, <2>3 DEF Single, Has
    <2>4. QED
        BY <1>4, <2>2, <2>3 DEF Flying
  <1>5. QED
      BY <1>1, <1>2, <1>3, <1>4

\* An event that the controller sends joins those under way, unless it is masked.
LEMMA EventSent ==
  ASSUME wire \in Seq(EventSet), NEW e \in EventSet, Oracle!Emit(e), UNCHANGED pending
  PROVE  /\ wire' \in Seq(EventSet) /\ Flying' \subseteq Flying \cup {e}
         /\ \A K : /\ Single(K)
                   /\ e.kind \notin K \/ \A f \in Flying : f.kind \notin K
                   => Single(K)'
  <1>1. CASE UNCHANGED wire
      BY <1>1 DEF Flying, Single, One, Has
  <1>2. CASE wire' = Append(wire, e)
    <2>1. /\ wire' \in Seq(EventSet) /\ Len(wire') = Len(wire) + 1 /\ Len(wire) \in Nat
          /\ \A i \in DOMAIN wire : i \in DOMAIN wire' /\ wire'[i] = wire[i]
          /\ \A i \in DOMAIN wire' : (i \in DOMAIN wire /\ wire'[i] = wire[i])
                                     \/ (i = Len(wire) + 1 /\ wire'[i] = e)
        BY <1>2
    <2>2. Flying' \subseteq Flying \cup {e}
        BY <2>1 DEF Flying
    <2>3. ASSUME NEW K, Single(K), e.kind \notin K \/ \A f \in Flying : f.kind \notin K
          PROVE  Single(K)'
      <3>1. One(wire, K)'
          BY <2>1, <2>3 DEF Single, One, Flying
      <3>2. Has(wire, K)' => Has(wire, K) \/ ~Has(pending, K)
          BY <2>1, <2>3 DEF Has, Flying
      <3>3. QED
          BY <2>3, <3>1, <3>2 DEF Single, One, Has
    <2>4. QED
        BY <2>1, <2>2, <2>3
  <1>3. QED
      BY <1>1, <1>2 DEF Oracle!Emit

\* What is left of a chunk without its ACL data: its events in their order.
LEMMA DataRemoved ==
  ASSUME NEW s \in Seq(EventSet)
  PROVE  /\ Oracle!Events(s) \in Seq(EventSet)
         /\ \E f : /\ \A j \in DOMAIN Oracle!Events(s) :
                        f[j] \in DOMAIN s /\ Oracle!Events(s)[j] = s[f[j]]
                   /\ \A i, j \in DOMAIN Oracle!Events(s) : f[i] = f[j] => i = j
  <1> DEFINE data == {i \in DOMAIN s : s[i].kind = "acl"}
  <1>1. CASE data = {}
    <2>1. Oracle!Events(s) = s
        BY <1>1 DEF Oracle!Events
    <2> DEFINE f == [j \in DOMAIN s |-> j]
    <2>2. \A j \in DOMAIN s : f[j] = j
        OBVIOUS
    <2> HIDE DEF f
    <2>3. QED
        BY <2>1, <2>2
  <1>2. CASE data # {}
    <2> DEFINE i == CHOOSE i \in data : TRUE
               a == SubSeq(s, 1, i - 1)
               b == SubSeq(s, i + 1, Len(s))
               t == a \o b
    <2>1. i \in 1..Len(s) /\ Len(s) \in Nat
        BY <1>2
    <2>2. Oracle!Events(s) = t
        BY <1>2 DEF Oracle!Events
    <2> HIDE DEF i, data
    <2>3. /\ a \in Seq(EventSet) /\ Len(a) = i - 1 /\ \A j \in 1..(i - 1) : a[j] = s[j]
        BY <2>1
    <2>4. /\ b \in Seq(EventSet) /\ Len(b) = Len(s) - i
          /\ \A j \in 1..(Len(s) - i) : b[j] = s[j + i]
        BY <2>1
    <2> HIDE DEF a, b
    <2>5. /\ t \in Seq(EventSet) /\ Len(t) = Len(s) - 1
          /\ \A j \in 1..(Len(s) - 1) : t[j] = IF j < i THEN a[j] ELSE b[j - (i - 1)]
      <3>1. t \in Seq(EventSet) /\ Len(t) = Len(a) + Len(b)
          BY <2>3, <2>4, SMTT(30)
      <3>2. \A j \in 1 .. Len(a) + Len(b) :
                t[j] = IF j <= Len(a) THEN a[j] ELSE b[j - Len(a)]
          BY <2>3, <2>4, ConcatProperties, Zenon
      <3> HIDE DEF t
      <3>3. Len(a) + Len(b) = Len(s) - 1 /\ Len(a) = i - 1
          BY <2>1, <2>3, <2>4
      <3>4. \A j \in 1..(Len(s) - 1) : (j <= i - 1) <=> (j < i)
          BY <2>1
      <3>5. QED
          BY <3>1, <3>2, <3>3, <3>4
    <2> HIDE DEF t
    <2> DEFINE f == [j \in 1..(Len(s) - 1) |-> IF j < i THEN j ELSE j + 1]
    <2>6. DOMAIN t = 1..(Len(s) - 1)
        BY <2>5
    <2>7. \A j \in DOMAIN t : f[j] = IF j < i THEN j ELSE j + 1
        BY <2>6
    <2> HIDE DEF f
    <2>8. ASSUME NEW j \in DOMAIN t PROVE f[j] \in DOMAIN s /\ t[j] = s[f[j]]
      <3>1. j \in 1..(Len(s) - 1)
          BY <2>6
      <3>2. CASE j < i
          BY <2>1, <2>3, <2>5, <2>7, <3>1, <3>2
      <3>3. CASE j >= i
        <4>1. j - (i - 1) \in 1..(Len(s) - i) /\ (j - (i - 1)) + i = j + 1 /\ ~(j < i)
            BY <2>1, <3>1, <3>3
        <4>2. t[j] = s[j + 1]
            BY <2>4, <2>5, <3>1, <4>1
        <4>3. QED
            BY <2>1, <2>7, <3>1, <4>1, <4>2
      <3>4. QED
          BY <2>1, <3>1, <3>2, <3>3
    <2>9. \A k, j \in DOMAIN t : f[k] = f[j] => k = j
        BY <2>1, <2>6, <2>7
    <2>10. QED
        BY <2>2, <2>5, <2>8, <2>9
  <1>3. QED
      BY <1>1, <1>2

\* Reading a chunk moves events from the wire to the queue and makes none.
LEMMA EventsRead ==
  ASSUME pending \in Seq(EventSet), wire \in Seq(EventSet), NEW k \in Nat, Oracle!Read(k)
  PROVE  /\ pending' \in Seq(EventSet) /\ wire' \in Seq(EventSet) /\ Flying' \subseteq Flying
         /\ \A K : Single(K) => Single(K)'
  <1> DEFINE c == SubSeq(wire, 1, k)
             s == Oracle!Events(c)
             m == Len(pending)
  <1>1. k <= Len(wire) /\ Len(wire) \in Nat /\ m \in Nat
      BY DEF Oracle!Read
  <1>2. c \in Seq(EventSet) /\ Len(c) = k /\ \A i \in 1..k : c[i] = wire[i]
      BY <1>1
  <1>3. /\ wire' \in Seq(EventSet) /\ Len(wire') = Len(wire) - k
        /\ \A i \in 1..(Len(wire) - k) : wire'[i] = wire[i + k]
      BY <1>1 DEF Oracle!Read
  <1>4. pending' = pending \o s
      BY DEF Oracle!Read
  <1> HIDE DEF c
  <1>5. s \in Seq(EventSet)
      BY <1>2, DataRemoved
  <1>6. PICK f : /\ \A j \in DOMAIN s : f[j] \in DOMAIN c /\ s[j] = c[f[j]]
                 /\ \A i, j \in DOMAIN s : f[i] = f[j] => i = j
      BY <1>2, DataRemoved
  <1> HIDE DEF s
  <1>7. \A j \in 1..Len(s) : f[j] \in 1..k /\ f[j] \in 1..Len(wire) /\ s[j] = wire[f[j]]
      BY <1>1, <1>2, <1>5, <1>6
  <1>8. /\ pending' \in Seq(EventSet) /\ Len(pending') = m + Len(s) /\ Len(s) \in Nat
        /\ \A j \in 1..(m + Len(s)) : pending'[j] = IF j <= m THEN pending[j] ELSE s[j - m]
      BY <1>4, <1>5
  <1> DEFINE Old(j) == j \in 1..m /\ pending'[j] = pending[j]
             New(j) == j - m \in 1..Len(s) /\ pending'[j] = wire[f[j - m]]
  <1>9. /\ DOMAIN pending = 1..m /\ DOMAIN pending' = 1..(m + Len(s))
        /\ DOMAIN wire = 1..Len(wire) /\ DOMAIN wire' = 1..(Len(wire) - k)
      BY <1>1, <1>3, <1>8
  <1>10. \A j \in DOMAIN pending' : Old(j) \/ New(j)
    <2> TAKE j \in DOMAIN pending'
    <2>1. j \in 1..(m + Len(s))
        BY <1>9
    <2>2. CASE j <= m
        BY <1>1, <1>8, <2>1, <2>2
    <2>3. CASE j > m
      <3>1. j - m \in 1..Len(s) /\ ~(j <= m)
          BY <1>1, <1>8, <2>1, <2>3
      <3>2. QED
          BY <1>7, <1>8, <2>1, <3>1
    <2>4. QED
        BY <1>1, <2>1, <2>2, <2>3
  <1>11. \A i \in DOMAIN wire' : i + k \in DOMAIN wire /\ wire'[i] = wire[i + k]
      BY <1>1, <1>3, <1>9
  <1>12. Flying' \subseteq Flying
    <2>1. \A j \in DOMAIN pending' : pending'[j] \in Flying
        BY <1>7, <1>9, <1>10 DEF Flying
    <2>2. \A i \in DOMAIN wire' : wire'[i] \in Flying
        BY <1>11 DEF Flying
    <2>3. QED
        BY <2>1, <2>2 DEF Flying
  <1>13. ASSUME NEW K, Single(K) PROVE Single(K)'
    <2>1. \A j \in DOMAIN pending' : pending'[j].kind \in K =>
            \/ Old(j) /\ Has(pending, K)
            \/ /\ New(j) /\ Has(wire, K) /\ f[j - m] \in DOMAIN wire /\ f[j - m] \in 1..k
               /\ wire[f[j - m]].kind \in K
        BY <1>7, <1>9, <1>10 DEF Has
    <2>2. ASSUME NEW i \in DOMAIN pending', NEW j \in DOMAIN pending',
                 pending'[i].kind \in K, pending'[j].kind \in K
          PROVE  i = j
      <3>1. CASE Old(i) /\ Old(j)
          BY <1>9, <1>13, <2>2, <3>1 DEF Single, One
      <3>2. CASE New(i) /\ New(j) /\ ~Has(pending, K)
        <4>1. f[i - m] = f[j - m]
            BY <1>13, <2>1, <2>2, <3>2 DEF Single, One, Has
        <4>2. i - m = j - m
            BY <1>5, <1>6, <3>2, <4>1
        <4>3. QED
            BY <1>1, <1>8, <1>9, <4>2
      <3>3. QED
          BY <1>13, <2>1, <2>2, <3>1, <3>2 DEF Single
    <2>3. ASSUME NEW i \in DOMAIN wire', NEW j \in DOMAIN wire',
                 wire'[i].kind \in K, wire'[j].kind \in K
          PROVE  i = j
      <3>1. i + k = j + k
          BY <1>11, <1>13, <2>3 DEF Single, One
      <3>2. QED
          BY <1>1, <1>9, <3>1
    <2>4. ASSUME NEW i \in DOMAIN pending', NEW j \in DOMAIN wire',
                 pending'[i].kind \in K, wire'[j].kind \in K
          PROVE  FALSE
      <3>1. j + k \in DOMAIN wire /\ wire[j + k].kind \in K /\ Has(wire, K)
          BY <1>11, <2>4 DEF Has
      <3>2. f[i - m] = j + k /\ f[i - m] \in 1..k
          BY <1>13, <2>1, <2>4, <3>1 DEF Single, One
      <3>3. QED
          BY <1>1, <1>9, <3>2
    <2>5. QED
        BY <2>2, <2>3, <2>4 DEF Single, One, Has
  <1>14. QED
      BY <1>3, <1>8, <1>12, <1>13

\* What answers is an answer to a command.
LEMMA AnswersTyped ==
  ASSUME OraclePlace, CommandsPaired, NEW e \in Answering
  PROVE  e \in EventSet /\ e.op \in Commands /\ e.id \in Nat
  <1>1. e \in EventSet
      BY DEF OraclePlace, Answering, Flying
  <1>2. e.op # "none"
      BY DEF CommandsPaired
  <1>3. QED
      BY <1>1, <1>2 DEF EventSet

\* The events of each kind follow those under way; commands that stay on the UART stay.
LEMMA Narrowed ==
  ASSUME Flying' \subseteq Flying
  PROVE  Answering' \subseteq Answering /\ Connecting' \subseteq Connecting
  BY DEF Answering, Connecting

\* What is under way says the same as long as the UART and the queue are as they were.
LEMMA UartUnchanged ==
  /\ UNCHANGED <<pending, wire>> =>
        /\ UNCHANGED <<Flying, Answering, Connecting>>
        /\ \A K : Single(K)' = Single(K)
  /\ UNCHANGED down => UNCHANGED Ordered
  BY DEF Flying, Answering, Connecting, Single, One, Has, Ordered

\* The script stays at its step while no step of it ends.
LEMMA StepStays ==
  ASSUME UNCHANGED n
  PROVE  UNCHANGED Oracle!Step
  BY DEF Oracle!Step

\* The step returns: nothing is under way that could answer the next one.
LEMMA AdvanceKeeps ==
  ASSUME OracleInv, oraclePhase = "await", Oracle!Advance,
         Ordered' = {}, Answering' = {}, down' = <<>>, answer' = issued,
         pending' \in Seq(EventSet), Flying' \subseteq Flying, Connecting' \subseteq Connecting,
         Single({"connection"})',
         n = 4 => links' = links,
         n \in {7, 17} => Connecting # {} /\ Connecting' = {} /\ handle' = links,
         n \notin {7, 17} => handle' = handle,
         n = 15 => ~scan,
         n = 19 => oracleLink = 0,
         UNCHANGED <<closing, unclean, issued, wire, adv, scan, creating, oracleLink, leaving,
                     links, oracleDrops, mask>>
  PROVE  OracleInv'
  <1>1. n \in 1..19 /\ oracleStatus = "running" /\ closing = "none"
      BY DEF OracleInv, OraclePlace
  <1>2. /\ \/ n = 19 /\ oraclePhase' = "done" /\ oracleStatus' = "ok" /\ n' = n
           \/ n \in 1..18 /\ oraclePhase' = "send" /\ oracleStatus' = oracleStatus /\ n' = n + 1
      BY <1>1, ScriptIs DEF Oracle!Advance
  <1>3. OraclePlace'
    <2>1. handle \in Nat /\ links \in Nat
        BY DEF OracleInv, OraclePlace, LinksInScript
    <2>2. handle' \in Nat /\ <<>> \in Seq(OrderSet)
        BY <2>1
    <2>3. /\ n' \in 1..19 /\ oraclePhase' \in {"send", "done"}
          /\ oracleStatus' \in {"running", "ok"}
          /\ oracleStatus' = "running" <=> oraclePhase' = "send"
          /\ oracleStatus' = "ok" => n' = 19
      <3>1. CASE n = 19 /\ oraclePhase' = "done" /\ oracleStatus' = "ok" /\ n' = n
          BY <3>1
      <3>2. CASE /\ n \in 1..18 /\ oraclePhase' = "send" /\ oracleStatus' = oracleStatus
                 /\ n' = n + 1
        <4>1. n + 1 \in 1..19
            BY <3>2
        <4>2. QED
            BY <1>1, <3>2, <4>1, Zenon
      <3>3. QED
          BY <1>2, <3>1, <3>2
    <2>4. QED
        BY <1>1, <2>2, <2>3 DEF OracleInv, OraclePlace
  <1>4. CommandsPaired'
      BY <1>1, <1>2 DEF OracleInv, CommandsPaired, Awaiting
  <1>5. ClosingPaired'
      BY <1>1, <1>2 DEF ClosingPaired
  <1>6. FlagsInScript'
    <2>1. /\ advertising_enabled \in BOOLEAN /\ scan_enabled \in BOOLEAN
          /\ advertising_enabled <=> n \in 5..8
          /\ scan_enabled <=> n = 14
        BY <1>1 DEF OracleInv, FlagsInScript
    <2>2. /\ advertising_enabled' \in BOOLEAN /\ scan_enabled' \in BOOLEAN
          /\ advertising_enabled' <=> advertising_enabled \/ Oracle!Step.op = "adv-on"
          /\ scan_enabled' <=> scan_enabled \/ Oracle!Step.op = "scan-on"
        BY DEF Oracle!Advance
    <2>3. /\ advertising_enabled' <=> n \in 4..8
          /\ scan_enabled' <=> n \in 13..14
        BY <1>1, <2>1, <2>2, StepIs
    <2>4. QED
        BY <1>1, <1>2, <2>2, <2>3 DEF FlagsInScript
  <1>7. RolesInScript'
      BY <1>1, <1>2 DEF OracleInv, RolesInScript
  <1>8. LinksInScript'
    <2>1. \A e \in Connecting : e.id = links /\ links > 0 /\ (n < 8 \/ links = 2) /\ n < 18
        BY DEF OracleInv, LinksInScript
    <2>2. /\ n = 7 => links >= 1
          /\ n = 17 => links = 2
        BY <1>1, <2>1 DEF OracleInv, LinksInScript
    <2>3. n = 7 => links = 1
        BY <1>1, <2>2 DEF OracleInv, LinksInScript
    <2>4. \A e \in Connecting' : e.id = links /\ links > 0 /\ (n' < 8 \/ links = 2) /\ n' < 18
        BY <1>1, <1>2, <2>1
    <2>5. \A e \in Flying' : e.kind = "disconnection" => e.id \in 1..links /\ e.id # oracleLink
        BY DEF OracleInv, LinksInScript
    <2>6. handle' = IF n' < 8 THEN 0 ELSE IF n' < 18 THEN 1 ELSE 2
        BY <1>1, <1>2, <2>2, <2>3 DEF OracleInv, LinksInScript
    <2>7. /\ n' < 4 \/ (n' = 4 /\ oraclePhase' = "send") => links = 0
          /\ n' >= 8 => links >= 1
          /\ links = 2 => n' \in 16..19 /\ ~(n' = 16 /\ oraclePhase' = "send")
          /\ n' >= 18 => links = 2
          /\ creating => n' \in {16, 17} /\ ~(n' = 16 /\ oraclePhase' = "send") /\ links = 1
        BY <1>1, <1>2, <2>2 DEF OracleInv, LinksInScript
    <2>8. QED
        BY <1>2, <2>4, <2>5, <2>6, <2>7 DEF OracleInv, LinksInScript
  <1>9. QED
      BY <1>3, <1>4, <1>5, <1>6, <1>7, <1>8 DEF OracleInv

\* Sending a command, or beginning to wait.
LEMMA SendKeeps ==
  ASSUME OracleInv, Oracle!Send \/ Oracle!BeginWait
  PROVE  OracleInv'
  <1> USE DEF OracleInv
  <1>1. /\ n \in 1..19 /\ oraclePhase = "send" /\ oraclePhase' = "await"
        /\ closing = "none" /\ oracleStatus = "running"
        /\ down = <<>> /\ Ordered = {} /\ Answering = {} /\ answer = issued
        /\ UNCHANGED <<n, oracleStatus, closing, unclean, handle, pending, answer, wire, adv,
                       scan, creating, oracleLink, leaving, links, oracleDrops, mask>>
    <2>1. oraclePhase = "send" /\ down = <<>> => Ordered = {}
        BY DEF Ordered
    <2>2. QED
        BY <2>1 DEF OraclePlace, CommandsPaired, Oracle!Send, Oracle!BeginWait, Oracle!controller
  <1>2. Answering' = {} /\ UNCHANGED <<Flying, Connecting>> /\ \A K : Single(K)' = Single(K)
      BY <1>1, UartUnchanged
  <1>3. Oracle!Step' = Oracle!Step
      BY <1>1, StepStays
  <1>4. /\ issued' \in Nat /\ down' \in Seq(OrderSet) /\ Len(down') <= 1
        /\ Oracle!Step.kind = "wait" => down' = <<>> /\ issued' = issued
        /\ \A c \in Ordered' : c.id = issued' /\ c.op = Oracle!Step.op /\ Oracle!Step.kind # "wait"
        /\ Oracle!Step.kind = "wait" => Ordered' = {}
    <2>1. CASE Oracle!Send
      <3> DEFINE c == [op |-> Oracle!Step.op, id |-> issued + 1, target |-> handle]
      <3>1. c \in OrderSet /\ issued' = issued + 1 /\ down' = Append(down, c)
            /\ Oracle!Step.kind # "wait" /\ issued \in Nat
          BY <1>1, <2>1, StepIs DEF OraclePlace, OrderSet, Oracle!Send
      <3>2. c.id = issued + 1 /\ c.op = Oracle!Step.op
          OBVIOUS
      <3> HIDE DEF c
      <3>3. down' \in Seq(OrderSet) /\ Len(down') = Len(down) + 1 /\ Ordered' \subseteq {c}
          BY <1>1, <3>1, OrderAdded DEF OraclePlace
      <3>4. Len(down') <= 1
          BY <1>1, <3>3
      <3>5. QED
          BY <3>1, <3>2, <3>3, <3>4
    <2>2. CASE Oracle!BeginWait
      <3>1. UNCHANGED <<down, issued>> /\ Oracle!Step.kind = "wait"
          BY <2>2 DEF Oracle!BeginWait
      <3>2. Ordered' = {} /\ Len(down) <= 1
          BY <1>1, <3>1, UartUnchanged
      <3>3. QED
          BY <1>1, <3>1, <3>2 DEF OraclePlace
    <2>3. QED
        BY <2>1, <2>2
  <1>5. OraclePlace'
      BY <1>1, <1>4 DEF OraclePlace
  <1>6. CommandsPaired'
    <2>1. \A c \in Ordered' : c.op = Oracle!Step.op /\ c.id = issued'
        BY <1>4
    <2>2. Single(AnswerKinds)'
        BY <1>1, <1>2 DEF Answering, Flying, Single, One, Has
    <2>3. QED
        BY <1>1, <1>2, <1>3, <1>4, <2>1, <2>2 DEF CommandsPaired, Awaiting
  <1>7. ClosingPaired'
      BY <1>1 DEF ClosingPaired
  <1>8. FlagsInScript'
    <2>1. /\ advertising_enabled \in BOOLEAN /\ scan_enabled \in BOOLEAN
          /\ advertising_enabled => n \in 5..9
          /\ scan_enabled => n \in 14..15
        BY DEF FlagsInScript
    <2>2. /\ advertising_enabled' \in BOOLEAN /\ scan_enabled' \in BOOLEAN
          /\ advertising_enabled' <=> advertising_enabled /\ n # 9
          /\ scan_enabled' => scan_enabled
          /\ n # 15 => (scan_enabled' <=> scan_enabled)
          /\ n = 15 => ~scan_enabled'
      <3>1. CASE Oracle!Send
          BY <1>1, <2>1, <3>1, StepIs DEF Oracle!Send, Oracle!Enables, Oracle!Connected
      <3>2. CASE Oracle!BeginWait
          BY <1>1, <2>1, <3>2, StepIs DEF Oracle!BeginWait, Oracle!Enables, Oracle!Connected
      <3>3. QED
          BY <3>1, <3>2
    <2>3. QED
        BY <1>1, <2>1, <2>2 DEF FlagsInScript
  <1>9. RolesInScript'
    <2>1. \A c \in Ordered' : /\ c.op = "adv-on" => n = 4 /\ ~adv /\ links = 0
                              /\ c.op = "scan-on" => n = 13
        BY <1>1, <1>4, StepIs DEF RolesInScript, LinksInScript
    <2>2. QED
        BY <1>1, <1>2, <2>1 DEF RolesInScript
  <1>10. LinksInScript'
    <2>1. \A c \in Ordered' : c.op = "create" => n = 16 /\ links = 1 /\ ~creating
        BY <1>1, <1>4, StepIs DEF LinksInScript
    <2>2. QED
        BY <1>1, <1>2, <2>1 DEF LinksInScript
  <1>11. QED
      BY <1>5, <1>6, <1>7, <1>8, <1>9, <1>10

\* Taking an event, or observing the data or the advertisement.
LEMMA TakeKeeps ==
  ASSUME OracleInv, Oracle!Take
  PROVE  OracleInv'
  <1> USE DEF OracleInv
  <1> DEFINE e == Head(pending)
  <1>1. /\ n \in 1..19 /\ oraclePhase = "await" /\ closing = "none" /\ oracleStatus = "running"
        /\ pending # <<>> /\ pending' = Tail(pending)
        /\ UNCHANGED <<closing, unclean, issued, down, wire, adv, scan, creating, oracleLink,
                       leaving, links, oracleDrops, mask>>
      BY DEF OraclePlace, Oracle!Take, Oracle!controller
  <1>2. /\ pending' \in Seq(EventSet) /\ e \in Flying /\ Flying' \subseteq Flying
        /\ \A K : Single(K) => Single(K)'
        /\ \A K : Single(K) /\ e.kind \in K => \A f \in Flying' : f.kind \notin K
      BY <1>1, EventTaken DEF OraclePlace
  <1>3. Answering' \subseteq Answering /\ Connecting' \subseteq Connecting /\ Ordered' = Ordered
      BY <1>1, <1>2, Narrowed, UartUnchanged
  <1> HIDE DEF e
  <1>4. CASE ~Oracle!Answers(e)
    <2>1. UNCHANGED <<n, oraclePhase, oracleStatus, advertising_enabled, scan_enabled, handle,
                      answer>>
        BY <1>4 DEF Oracle!Take, e
    <2>2. Oracle!Step' = Oracle!Step
        BY <2>1, StepStays
    <2>3. OraclePlace'
        BY <1>1, <1>2, <2>1 DEF OraclePlace
    <2>4. CommandsPaired'
        BY <1>1, <1>2, <1>3, <2>1, <2>2 DEF CommandsPaired, Awaiting
    <2>5. ClosingPaired' /\ FlagsInScript'
        BY <1>1, <2>1 DEF ClosingPaired, FlagsInScript
    <2>6. RolesInScript'
        BY <1>1, <1>3, <2>1 DEF RolesInScript
    <2>7. LinksInScript'
        BY <1>1, <1>2, <1>3, <2>1 DEF LinksInScript
    <2>8. QED
        BY <2>3, <2>4, <2>5, <2>6, <2>7
  <1>5. CASE Oracle!Answers(e)
    <2>1. /\ ~Oracle!Refused(e) /\ Oracle!Advance
          /\ handle' = IF e.kind = "connection" THEN e.id ELSE handle
          /\ answer' = IF Oracle!Step.kind = "wait" THEN answer ELSE e.id
        BY <1>5 DEF Oracle!Take, e
    <2>2. Single({"connection"})'
        BY <1>2 DEF LinksInScript
    <2>3. CASE Oracle!Step.kind = "wait"
      <3>1. /\ e.kind = Oracle!Step.op /\ (e.kind = "disconnection" => e.id = handle)
            /\ e.kind \notin AnswerKinds
          BY <1>1, <1>5, <2>3, StepIs DEF Oracle!Answers, AnswerKinds
      <3>2. down' = <<>> /\ Answering' = {} /\ answer' = issued
          BY <1>1, <1>3, <2>1, <2>3 DEF CommandsPaired
      <3>3. Ordered' = {}
          BY <3>2 DEF Ordered
      <3>4. n \in {7, 17} =>
                e \in Connecting /\ Connecting' = {} /\ handle' = links
          BY <1>1, <1>2, <2>1, <3>1, StepIs DEF LinksInScript, Connecting
      <3>5. n \notin {7, 17} => handle' = handle
          BY <1>1, <2>1, <3>1, StepIs
      <3>6. n = 19 => oracleLink = 0
          BY <1>1, <1>2, <3>1, StepIs DEF LinksInScript
      <3>7. n # 4 /\ n # 15
          BY <1>1, <2>3, StepIs
      <3>8. QED
          BY <1>1, <1>2, <1>3, <2>1, <2>2, <3>2, <3>3, <3>4, <3>5, <3>6, <3>7, AdvanceKeeps
    <2>4. CASE Oracle!Step.kind # "wait"
      <3>1. e.kind = Oracle!Step.kind /\ e.kind \in AnswerKinds /\ e \in Answering
          BY <1>1, <1>2, <1>5, <2>4, StepIs DEF Oracle!Answers, Answering
      <3>2. Awaiting
          BY <1>1, <2>4 DEF Awaiting
      <3>3. e.op = Oracle!Step.op
          BY <1>1, <3>1 DEF CommandsPaired
      <3>4. e.id = issued
          BY <2>1, <3>1, <3>2 DEF CommandsPaired, Oracle!Refused
      <3>5. down' = <<>> /\ answer' = issued
          BY <1>1, <2>1, <2>4, <3>1, <3>2, <3>4 DEF CommandsPaired
      <3>6. Answering' = {}
          BY <1>2, <3>1, <3>2 DEF CommandsPaired, Answering
      <3>7. Ordered' = {}
          BY <3>5 DEF Ordered
      <3>8. n \notin {5, 7, 9, 11, 14, 17, 19}
          BY <1>1, <2>4, StepIs
      <3>9. handle' = handle
          BY <2>1, <3>1 DEF AnswerKinds
      <3>10. n = 15 => ~scan
          BY <1>1, <3>1, <3>3, StepIs DEF RolesInScript
      <3>11. QED
          BY <1>1, <1>2, <1>3, <2>1, <2>2, <3>5, <3>6, <3>7, <3>8, <3>9, <3>10, AdvanceKeeps
    <2>5. QED
        BY <2>3, <2>4
  <1>6. QED
      BY <1>4, <1>5

\* Observing the data or the advertisement (wait_for_acl).
LEMMA ObserveKeeps ==
  ASSUME OracleInv, Oracle!Observe
  PROVE  OracleInv'
  <1> USE DEF OracleInv
  <1>1. /\ n \in {5, 9} /\ oraclePhase = "await" /\ Oracle!Advance
        /\ UNCHANGED <<closing, unclean, handle, pending, issued, answer, down, wire, adv, scan,
                       creating, oracleLink, leaving, links, oracleDrops, mask>>
      BY StepIs DEF OraclePlace, Oracle!Observe, Oracle!controller
  <1>2. Oracle!Step.kind = "wait"
      BY <1>1, StepIs
  <1>3. down = <<>> /\ Answering = {} /\ answer = issued
      BY <1>1, <1>2 DEF CommandsPaired
  <1>4. /\ UNCHANGED <<Flying, Answering, Connecting>>
        /\ Single({"connection"})' = Single({"connection"})
      BY <1>1, UartUnchanged
  <1>5. Ordered' = {}
      BY <1>1, <1>3 DEF Ordered
  <1>6. pending \in Seq(EventSet) /\ Single({"connection"})
      BY DEF OraclePlace, LinksInScript
  <1>7. QED
      BY <1>1, <1>3, <1>4, <1>5, <1>6, AdvanceKeeps

\* A failure in the script.
LEMMA FailureKeeps ==
  ASSUME OracleInv, Oracle!Raise
  PROVE  OracleInv'
  <1> USE DEF OracleInv
  <1>1. /\ n \in 1..19 /\ oraclePhase \in {"send", "await"} /\ oracleStatus' = "failed"
        /\ closing = "none" /\ oracleStatus = "running"
        /\ UNCHANGED <<n, unclean, advertising_enabled, scan_enabled, handle, pending, issued,
                       answer, down, wire, adv, scan, creating, oracleLink, leaving, links,
                       oracleDrops, mask>>
      BY DEF OraclePlace, Oracle!Raise, Oracle!Failing, Oracle!controller
  <1>2. /\ UNCHANGED <<Flying, Answering, Connecting, Ordered>>
        /\ \A K : Single(K)' = Single(K)
        /\ Oracle!Step' = Oracle!Step
      BY <1>1, UartUnchanged, StepStays
  <1>3. /\ \/ /\ closing' = "adv-off" /\ n \in 5..9
              /\ ~(n = 9 /\ oraclePhase = "await")
           \/ /\ closing' = "scan-off" /\ n \in 14..15
              /\ ~(n = 15 /\ oraclePhase = "await")
           \/ closing' = "none" /\ n \notin 5..8 /\ n # 14
        /\ oraclePhase' = IF closing' = "none" THEN "done" ELSE "finally"
      BY <1>1 DEF FlagsInScript, Oracle!Raise, Oracle!Failing, Oracle!Closing
  \* What is under way belongs to the step.
  <1>4. /\ Len(down) <= 1
        /\ \A c \in Ordered : c.op = Oracle!Step.op
        /\ \A x \in Answering : x.op = Oracle!Step.op /\ x.op # "none"
        /\ oraclePhase = "send" => Ordered = {} /\ Answering = {}
        /\ Oracle!Step.kind = "wait" => Ordered = {} /\ Answering = {}
    <2>1. down \in Seq(OrderSet)
        BY DEF OraclePlace
    <2>2. \A c \in Ordered : c.op \in Commands
      <3>1. Ordered \subseteq OrderSet
          BY <2>1 DEF Ordered
      <3>2. QED
          BY <3>1 DEF OrderSet
    <2>3. down = <<>> => Ordered = {}
        BY DEF Ordered
    <2>4. \A c \in Ordered : c.op = Oracle!Step.op
        BY <1>1, <2>2 DEF CommandsPaired, Commands
    <2>5. QED
        BY <1>1, <2>3, <2>4 DEF CommandsPaired
  <1>5. OraclePlace'
      BY <1>1, <1>3 DEF OraclePlace
  <1>6. CommandsPaired'
      BY <1>1, <1>2, <1>3, <1>4 DEF CommandsPaired, Awaiting
  <1>7. ClosingPaired'
    <2>1. ASSUME NEW x \in Ordered \cup Answering, closing' # "none"
          PROVE  Oracle!Opcode(x.op) # Oracle!Opcode(closing')
      <3>1. x.op = Oracle!Step.op /\ Oracle!Step.kind # "wait" /\ oraclePhase = "await"
          BY <1>1, <1>4, <2>1
      <3>2. x.op \in Commands /\ x.op \notin {"adv-on", "adv-off", "scan-on", "scan-off"}
          BY <1>1, <1>3, <2>1, <3>1, StepIs
      <3>3. QED
          BY <1>3, <2>1, <3>2, OpcodeIs
    <2>2. QED
        BY <1>2, <1>3, <2>1 DEF ClosingPaired
  <1>8. FlagsInScript'
      BY <1>1, <1>3 DEF FlagsInScript
  <1>9. RolesInScript'
      BY <1>1, <1>2, <1>3 DEF RolesInScript
  <1>10. LinksInScript'
      BY <1>1, <1>2, <1>3 DEF LinksInScript
  <1>11. QED
      BY <1>5, <1>6, <1>7, <1>8, <1>9, <1>10

\* The finally clause.
LEMMA ClosingKeeps ==
  ASSUME OracleInv, Oracle!Closes \/ Oracle!RaiseClosing
  PROVE  OracleInv'
  <1> USE DEF OracleInv
  <1>1. /\ n \in 1..19 /\ oraclePhase \in {"finally", "closing"} /\ oracleStatus = "failed"
        /\ closing \in {"adv-off", "scan-off"}
        /\ UNCHANGED <<n, oracleStatus, closing, advertising_enabled, scan_enabled, handle, wire,
                       adv, scan, creating, oracleLink, leaving, links, oracleDrops, mask>>
      BY DEF OraclePlace, Oracle!Closes, Oracle!SendClosing, Oracle!TakeClosing,
             Oracle!RaiseClosing, Oracle!controller
  <1>2. Oracle!Step' = Oracle!Step
      BY <1>1, StepStays
  <1>3. FlagsInScript'
    <2>1. oraclePhase' \in {"finally", "closing", "done"}
        BY <1>1 DEF Oracle!Closes, Oracle!SendClosing, Oracle!TakeClosing, Oracle!RaiseClosing
    <2>2. QED
        BY <1>1, <2>1 DEF FlagsInScript
  <1>4. CASE Oracle!SendClosing
    <2> DEFINE c == [op |-> closing, id |-> issued + 1, target |-> handle]
    <2>1. /\ c \in OrderSet /\ down' = Append(down, c) /\ down \in Seq(OrderSet)
          /\ issued \in Nat /\ issued' = issued + 1
          /\ oraclePhase = "finally" /\ oraclePhase' = "closing"
          /\ UNCHANGED <<pending, unclean, answer>>
        BY <1>1, <1>4 DEF OraclePlace, OrderSet, Commands, Oracle!SendClosing
    <2>2. c.op = closing /\ c.id = issued'
        BY <2>1
    <2> HIDE DEF c
    <2>3. /\ UNCHANGED <<Flying, Answering, Connecting>> /\ Ordered' \subseteq Ordered \cup {c}
          /\ \A K : Single(K)' = Single(K)
          /\ down' \in Seq(OrderSet)
        BY <1>1, <2>1, UartUnchanged, OrderAdded
    <2>4. OraclePlace'
        BY <1>1, <2>1, <2>3 DEF OraclePlace
    <2>5. CommandsPaired'
        BY <1>1, <1>2, <2>1, <2>2, <2>3 DEF CommandsPaired, Awaiting
    <2>6. ClosingPaired'
        BY <1>1, <2>1, <2>2, <2>3 DEF ClosingPaired
    <2>7. RolesInScript'
        BY <1>1, <2>1, <2>2, <2>3 DEF RolesInScript
    <2>8. LinksInScript'
        BY <1>1, <2>1, <2>2, <2>3 DEF LinksInScript
    <2>9. QED
        BY <1>3, <2>4, <2>5, <2>6, <2>7, <2>8
  <1>5. CASE Oracle!TakeClosing
    <2> DEFINE e == Head(pending)
    <2>1. /\ oraclePhase = "closing" /\ pending # <<>> /\ pending' = Tail(pending)
          /\ UNCHANGED <<unclean, issued, down>>
          /\ \/ /\ oraclePhase' = "done" /\ answer' = e.id
                /\ e.kind = "complete" /\ Oracle!Opcode(e.op) = Oracle!Opcode(closing)
             \/ UNCHANGED <<oraclePhase, answer>>
        BY <1>5 DEF Oracle!TakeClosing
    <2>2. /\ pending' \in Seq(EventSet) /\ e \in Flying /\ Flying' \subseteq Flying
          /\ \A K : Single(K) => Single(K)'
        BY <1>1, <2>1, EventTaken DEF OraclePlace
    <2> HIDE DEF e
    <2>3. Answering' \subseteq Answering /\ Connecting' \subseteq Connecting /\ Ordered' = Ordered
        BY <2>1, <2>2, Narrowed, UartUnchanged
    <2>4. oraclePhase' = "done" =>
            /\ answer' = issued /\ issued \in Nat
            /\ closing = "adv-off" => ~adv
            /\ closing = "scan-off" => ~scan
      <3> SUFFICES ASSUME oraclePhase' = "done"
                   PROVE  /\ answer' = issued /\ issued \in Nat
                          /\ closing = "adv-off" => ~adv
                          /\ closing = "scan-off" => ~scan
          OBVIOUS
      <3>1. e \in Answering /\ answer' = e.id /\ Oracle!Opcode(e.op) = Oracle!Opcode(closing)
          BY <2>1, <2>2 DEF Answering, AnswerKinds
      <3>2. e.id = issued
          BY <2>1, <3>1 DEF ClosingPaired
      <3>3. e.op \in {Oracle!Step.op, closing} \ {"none"} /\ e.op \in Commands
          BY <3>1, <1>1, <2>2, AnswersTyped DEF CommandsPaired
      <3>4. /\ closing = "adv-off" => e.op = "adv-off"
            /\ closing = "scan-off" => e.op = "scan-off"
          BY <1>1, <3>1, <3>3, OpcodeIs, StepIs DEF FlagsInScript
      <3>5. QED
          BY <3>1, <3>2, <3>4 DEF RolesInScript, OraclePlace
    <2>5. OraclePlace'
        BY <1>1, <2>1, <2>2, <2>4 DEF OraclePlace
    <2>6. CommandsPaired'
        BY <1>1, <1>2, <2>1, <2>2, <2>3 DEF CommandsPaired, Awaiting
    <2>7. ClosingPaired'
        BY <1>1, <2>1, <2>3, <2>4 DEF ClosingPaired
    <2>8. RolesInScript'
        BY <1>1, <2>1, <2>3, <2>4 DEF RolesInScript
    <2>9. LinksInScript'
        BY <1>1, <2>1, <2>2, <2>3 DEF LinksInScript
    <2>10. QED
        BY <1>3, <2>5, <2>6, <2>7, <2>8, <2>9
  <1>6. CASE Oracle!RaiseClosing
    <2>1. /\ unclean' = TRUE /\ oraclePhase' = "done"
          /\ UNCHANGED <<pending, issued, answer, down>>
        BY <1>6 DEF Oracle!RaiseClosing
    <2>2. /\ UNCHANGED <<Flying, Answering, Connecting, Ordered>>
          /\ \A K : Single(K)' = Single(K)
        BY <1>1, <2>1, UartUnchanged
    <2>3. OraclePlace'
        BY <1>1, <2>1 DEF OraclePlace
    <2>4. CommandsPaired'
        BY <1>1, <1>2, <2>1, <2>2 DEF CommandsPaired, Awaiting
    <2>5. ClosingPaired' /\ RolesInScript'
        BY <1>1, <2>1, <2>2 DEF ClosingPaired, RolesInScript
    <2>6. LinksInScript'
        BY <1>1, <2>1, <2>2 DEF LinksInScript
    <2>7. QED
        BY <1>3, <2>3, <2>4, <2>5, <2>6
  <1>7. QED
      BY <1>4, <1>5, <1>6 DEF Oracle!Closes

\* Reading a chunk.
LEMMA ReadKeeps ==
  ASSUME OracleInv, NEW k \in 1..MaxChunk, Oracle!Read(k)
  PROVE  OracleInv'
  <1> USE DEF OracleInv
  <1>1. UNCHANGED <<n, oraclePhase, oracleStatus, closing, unclean, advertising_enabled,
                    scan_enabled, handle, issued, answer, down, adv, scan, creating, oracleLink,
                    leaving, links, oracleDrops, mask>>
      BY DEF Oracle!Read, Oracle!host, Oracle!controller
  <1>2. /\ pending' \in Seq(EventSet) /\ wire' \in Seq(EventSet) /\ Flying' \subseteq Flying
        /\ \A K : Single(K) => Single(K)'
      BY EventsRead DEF OraclePlace
  <1>3. Answering' \subseteq Answering /\ Connecting' \subseteq Connecting /\ Ordered' = Ordered
      BY <1>1, <1>2, Narrowed, UartUnchanged
  <1>4. Oracle!Step' = Oracle!Step
      BY <1>1, StepStays
  <1>5. OraclePlace'
      BY <1>1, <1>2 DEF OraclePlace
  <1>6. CommandsPaired'
      BY <1>1, <1>2, <1>3, <1>4 DEF CommandsPaired, Awaiting
  <1>7. ClosingPaired' /\ FlagsInScript'
      BY <1>1, <1>3 DEF ClosingPaired, FlagsInScript
  <1>8. RolesInScript'
      BY <1>1, <1>3 DEF RolesInScript
  <1>9. LinksInScript'
      BY <1>1, <1>2, <1>3 DEF LinksInScript
  <1>10. QED
      BY <1>5, <1>6, <1>7, <1>8, <1>9

\* The controller executes a command and answers it.
LEMMA ExecuteKeeps ==
  ASSUME OracleInv, Oracle!Execute
  PROVE  OracleInv'
  <1> USE DEF OracleInv
  <1> DEFINE c == Head(down)
             e == Oracle!AnswerTo(c)
  <1>1. /\ n \in 1..19 /\ down # <<>> /\ down' = Tail(down) /\ down \in Seq(OrderSet)
        /\ UNCHANGED <<n, oraclePhase, oracleStatus, closing, unclean, advertising_enabled,
                       scan_enabled, handle, issued, answer, pending, oracleLink, links,
                       oracleDrops>>
        /\ pending \in Seq(EventSet) /\ wire \in Seq(EventSet)
        /\ Oracle!Emit(e)
      BY DEF OraclePlace, Oracle!Execute, Oracle!host
  <1>2. /\ adv \in BOOLEAN /\ scan \in BOOLEAN /\ creating \in BOOLEAN
        /\ adv' \in BOOLEAN /\ scan' \in BOOLEAN /\ creating' \in BOOLEAN
        /\ adv' <=> c.op = "adv-on" \/ (adv /\ c.op \notin {"adv-off", "reset"})
        /\ scan' <=> c.op = "scan-on" \/ (scan /\ c.op \notin {"scan-off", "reset"})
        /\ creating' <=> creating \/ c.op = "create"
      BY DEF RolesInScript, LinksInScript, Oracle!Execute
  <1>3. /\ down' \in Seq(OrderSet) /\ Len(down') = Len(down) - 1 /\ c \in Ordered
        /\ Ordered' \subseteq Ordered /\ c \in OrderSet
        /\ Len(down) <= 1 => down' = <<>> /\ Ordered' = {}
    <2>1. c \in OrderSet
        BY <1>1
    <2>2. QED
        BY <1>1, <2>1, OrderTaken
  <1> HIDE DEF c
  <1>4. /\ e \in EventSet /\ e.op = c.op /\ e.kind \in AnswerKinds /\ c.op \in Commands
        /\ e.id = c.id \/ (e.id = 0 /\ e.kind = "status" /\ c.op = "disconnect")
    <2>1. c.op \in Commands /\ c.id \in Nat
        BY <1>3 DEF OrderSet
    <2>2. \/ e = [kind |-> "status", op |-> c.op, id |-> 0] /\ c.op = "disconnect"
          \/ e = [kind |-> "status", op |-> c.op, id |-> c.id]
          \/ e = [kind |-> "complete", op |-> c.op, id |-> c.id]
        BY DEF Oracle!AnswerTo, Oracle!Event
    <2>3. QED
        BY <2>1, <2>2 DEF EventSet, EventKinds, AnswerKinds
  <1> HIDE DEF e
  <1>5. /\ wire' \in Seq(EventSet) /\ Flying' \subseteq Flying \cup {e}
        /\ \A K : Single(K) /\ (e.kind \notin K \/ \A f \in Flying : f.kind \notin K)
                  => Single(K)'
      BY <1>1, <1>4, EventSent
  <1>6. Answering' \subseteq Answering \cup {e} /\ Connecting' \subseteq Connecting
      BY <1>4, <1>5 DEF Answering, Connecting, AnswerKinds
  <1>7. Oracle!Step' = Oracle!Step
      BY <1>1, StepStays
  \* The script gives only one command at a time; a second one is that of a finally clause.
  <1>8. /\ c.op = "adv-on" => n = 4 /\ ~adv /\ links = 0 /\ closing = "none"
        /\ c.op = "scan-on" => n = 13 /\ closing = "none"
        /\ c.op = "create" => n = 16 /\ links = 1 /\ closing = "none"
        /\ closing = "none" => Ordered' = {}
        /\ oraclePhase # "send"
      BY <1>1, <1>3
         DEF OraclePlace, CommandsPaired, FlagsInScript, RolesInScript, LinksInScript
  <1>9. OraclePlace'
      BY <1>1, <1>3, <1>5 DEF OraclePlace
  <1>10. CommandsPaired'
    <2>1. Awaiting => Answering = {} /\ Ordered' = {} /\ c.id = issued
                      /\ Single(AnswerKinds)' /\ down' = <<>>
      <3>1. Awaiting => Answering = {} /\ c.id = issued /\ Single(AnswerKinds) /\ closing = "none"
          BY <1>1, <1>3 DEF OraclePlace, CommandsPaired, Awaiting
      <3>2. Answering = {} => \A f \in Flying : f.kind \notin AnswerKinds
          BY DEF Answering
      <3>3. closing = "none" => down' = <<>>
          BY <1>3 DEF CommandsPaired
      <3>4. QED
          BY <1>5, <1>8, <3>1, <3>2, <3>3
    <2>2. oraclePhase = "await" /\ Oracle!Step.kind = "wait" => FALSE
        BY <1>1 DEF CommandsPaired
    <2>3. closing = "none" => Len(down') <= 1
        BY <1>1, <1>3 DEF CommandsPaired
    <2>4. \A d \in Ordered' : d.op \in {Oracle!Step.op, closing}
        BY <1>3 DEF CommandsPaired
    <2>5. \A f \in Answering' : f.op \in {Oracle!Step.op, closing} \ {"none"}
        BY <1>3, <1>4, <1>6 DEF CommandsPaired, Commands
    <2>6. QED
        BY <1>1, <1>4, <1>6, <1>7, <1>8, <2>1, <2>2, <2>3, <2>4, <2>5
           DEF CommandsPaired, Awaiting
  <1>11. ClosingPaired'
    <2>1. oraclePhase = "closing" /\ Oracle!Opcode(c.op) = Oracle!Opcode(closing) =>
             e.id = issued
        BY <1>3, <1>4, OpcodeIs DEF OraclePlace, ClosingPaired
    <2>2. QED
        BY <1>1, <1>3, <1>4, <1>6, <2>1 DEF ClosingPaired
  <1>12. FlagsInScript'
      BY <1>1 DEF FlagsInScript
  <1>13. RolesInScript'
    <2>1. /\ adv' => n >= 4 /\ ~(n = 4 /\ oraclePhase = "send") /\ links = 0
          /\ scan' => n \in 13..15
        BY <1>1, <1>2, <1>8 DEF RolesInScript
    <2>2. \A d \in Ordered' : /\ d.op = "adv-on" => n = 4 /\ ~adv' /\ links = 0
                              /\ d.op = "scan-on" => n = 13
      <3>1. \A d \in Ordered' : d.op = "adv-on" => FALSE
          BY <1>3, <1>8 DEF RolesInScript, OraclePlace, FlagsInScript
      <3>2. QED
          BY <1>3, <3>1 DEF RolesInScript
    <2>3. \A f \in Answering' : /\ f.op = "adv-off" => ~adv'
                                /\ f.op = "scan-off" => ~scan'
      <3> TAKE f \in Answering'
      <3>1. CASE f = e
          BY <1>2, <1>4, <3>1
      <3>2. CASE f \in Answering
        <4>1. f.op \in {Oracle!Step.op, closing}
            BY <3>2 DEF CommandsPaired
        <4>2. f.op = "adv-off" => ~adv /\ c.op # "adv-on"
            BY <1>1, <1>8, <3>2, <4>1, StepIs DEF RolesInScript
        <4>3. f.op = "scan-off" => ~scan /\ c.op # "scan-on"
            BY <1>1, <1>8, <3>2, <4>1, StepIs DEF RolesInScript
        <4>4. QED
            BY <1>2, <4>2, <4>3
      <3>3. QED
          BY <1>6, <3>1, <3>2
    <2>4. oraclePhase = "done" /\ closing # "none" /\ ~unclean =>
             (closing = "adv-off" => ~adv') /\ (closing = "scan-off" => ~scan')
        BY <1>2, <1>8 DEF RolesInScript
    <2>5. QED
        BY <1>1, <1>2, <2>1, <2>2, <2>3, <2>4 DEF RolesInScript
  <1>14. LinksInScript'
    <2>1. creating' => n \in {16, 17} /\ ~(n = 16 /\ oraclePhase = "send") /\ links = 1
        BY <1>2, <1>8 DEF LinksInScript
    <2>2. \A d \in Ordered' : d.op = "create" => FALSE
        BY <1>3, <1>8 DEF OraclePlace, FlagsInScript, LinksInScript
    <2>3. Single({"connection"})'
        BY <1>4, <1>5 DEF LinksInScript, AnswerKinds
    <2>4. \A f \in Flying' : f.kind = "disconnection" => f.id \in 1..links /\ f.id # oracleLink
        BY <1>4, <1>5 DEF LinksInScript, AnswerKinds
    <2>5. QED
        BY <1>1, <1>2, <1>6, <2>1, <2>2, <2>3, <2>4 DEF LinksInScript
  <1>15. QED
      BY <1>9, <1>10, <1>11, <1>12, <1>13, <1>14

\* A link begins, ...
LEMMA ConnectKeeps ==
  ASSUME OracleInv, Oracle!Connect
  PROVE  OracleInv'
  <1> USE DEF OracleInv
  <1> DEFINE e == Oracle!Event("connection", "none", links + 1)
  <1>1. /\ n \in 1..19 /\ links \in 0..2 /\ adv \in BOOLEAN /\ creating \in BOOLEAN
        /\ adv \/ creating
        /\ adv => n >= 4 /\ ~(n = 4 /\ oraclePhase = "send") /\ links = 0
        /\ creating => n \in {16, 17} /\ ~(n = 16 /\ oraclePhase = "send") /\ links = 1
        /\ n >= 8 => links >= 1
        /\ pending \in Seq(EventSet) /\ wire \in Seq(EventSet)
      BY DEF OraclePlace, RolesInScript, LinksInScript, Oracle!Connect
  <1>2. /\ links' = links + 1 /\ oracleLink' = links + 1 /\ Oracle!Emit(e)
        /\ UNCHANGED <<n, oraclePhase, oracleStatus, closing, unclean, advertising_enabled,
                       scan_enabled, handle, issued, answer, pending, down, scan>>
      BY DEF Oracle!Connect, Oracle!host
  <1>3. ~adv' /\ ~creating' /\ adv' \in BOOLEAN /\ creating' \in BOOLEAN
    <2>1. CASE adv
      <3>1. ~creating
          BY <1>1, <2>1
      <3>2. adv' = FALSE /\ creating' = creating
          BY <2>1 DEF Oracle!Connect
      <3>3. QED
          BY <1>1, <3>1, <3>2
    <2>2. CASE ~adv
        BY <1>1, <2>2 DEF Oracle!Connect
    <2>3. QED
        BY <2>1, <2>2
  <1>4. e \in EventSet /\ e.kind = "connection" /\ e.id = links + 1
      BY <1>1, <1>2, <1>3 DEF Oracle!Event, EventSet, EventKinds
  <1> HIDE DEF e
  <1>5. Connecting = {}
      BY <1>1, <1>2, <1>3 DEF LinksInScript
  <1>6. \A f \in Flying : f.kind \notin {"connection"}
      BY <1>5 DEF Connecting
  <1>7. /\ wire' \in Seq(EventSet) /\ Flying' \subseteq Flying \cup {e}
        /\ Single(AnswerKinds) => Single(AnswerKinds)'
        /\ Single({"connection"}) => Single({"connection"})'
    <2>1. e.kind \notin AnswerKinds
        BY <1>4 DEF AnswerKinds
    <2>2. QED
        BY <1>1, <1>2, <1>3, <1>4, <1>6, <2>1, EventSent
  <1>8. Answering' \subseteq Answering /\ Connecting' \subseteq {e} /\ Ordered' = Ordered
    <2>1. Answering' \subseteq Answering
        BY <1>4, <1>7 DEF Answering, AnswerKinds
    <2>2. Connecting' \subseteq {e}
        BY <1>5, <1>7 DEF Connecting
    <2>3. QED
        BY <1>1, <1>2, <1>3, <2>1, <2>2, UartUnchanged
  <1>9. Oracle!Step' = Oracle!Step
      BY <1>1, <1>2, <1>3, StepStays
  <1>10. OraclePlace'
      BY <1>1, <1>2, <1>3, <1>7 DEF OraclePlace
  <1>11. CommandsPaired'
      BY <1>1, <1>2, <1>3, <1>7, <1>8, <1>9 DEF CommandsPaired, Awaiting
  <1>12. ClosingPaired' /\ FlagsInScript'
      BY <1>1, <1>2, <1>3, <1>8 DEF ClosingPaired, FlagsInScript
  <1>13. RolesInScript'
      BY <1>1, <1>2, <1>3, <1>8 DEF RolesInScript
  <1>14. LinksInScript'
    <2>1. \A f \in Connecting' :
             f.id = links' /\ links' > 0 /\ (n < 8 \/ links' = 2) /\ n < 18
        BY <1>1, <1>2, <1>3, <1>4, <1>8
    <2>2. ASSUME NEW f \in Flying', f.kind = "disconnection"
          PROVE  f.id \in 1..links' /\ f.id # oracleLink'
        BY <1>1, <1>2, <1>3, <1>4, <1>7, <2>2 DEF LinksInScript
    <2>3. \A c \in Ordered : c.op = "create" => FALSE
        BY <1>1, <1>2, <1>3 DEF LinksInScript
    <2>4. oracleStatus = "ok" => FALSE
        BY <1>1, <1>2, <1>3 DEF OraclePlace, LinksInScript
    <2>5. QED
        BY <1>1, <1>2, <1>3, <1>7, <1>8, <2>1, <2>2, <2>3, <2>4 DEF LinksInScript
  <1>15. QED
      BY <1>10, <1>11, <1>12, <1>13, <1>14

\* ... carries data or ends; an advertiser is heard.
LEMMA PeersKeep ==
  ASSUME OracleInv, Oracle!PeerSends \/ Oracle!EndLink \/ Oracle!Report
  PROVE  OracleInv'
  <1> USE DEF OracleInv
  <1>1. PICK e \in EventSet :
          /\ Oracle!Emit(e) /\ e.kind \in {"acl", "disconnection", "report"}
          /\ e.kind = "disconnection" => e.id = oracleLink /\ oracleLink # 0 /\ oracleLink' = 0
          /\ oracleLink' \in {0, oracleLink}
    <2>1. links \in 0..2 /\ oracleLink \in {0, links}
        BY DEF LinksInScript
    <2>2. CASE Oracle!PeerSends
      <3>1. [kind |-> "acl", op |-> "none", id |-> oracleLink] \in EventSet
          BY <2>1 DEF EventSet, EventKinds
      <3>2. QED
          BY <2>1, <2>2, <3>1 DEF Oracle!PeerSends, Oracle!Event, Oracle!controller
    <2>3. CASE Oracle!EndLink
      <3>1. [kind |-> "disconnection", op |-> "none", id |-> oracleLink] \in EventSet
          BY <2>1 DEF EventSet, EventKinds
      <3>2. QED
          BY <2>1, <2>3, <3>1 DEF Oracle!EndLink, Oracle!Event
    <2>4. CASE Oracle!Report
      <3>1. [kind |-> "report", op |-> "none", id |-> 0] \in EventSet
          BY DEF EventSet, EventKinds
      <3>2. QED
          BY <2>1, <2>4, <3>1 DEF Oracle!Report, Oracle!Event, Oracle!controller
    <2>5. QED
        BY <2>2, <2>3, <2>4
  <1>2. UNCHANGED <<n, oraclePhase, oracleStatus, closing, unclean, advertising_enabled,
                    scan_enabled, handle, issued, answer, pending, down, adv, scan, creating,
                    links, mask>>
      BY DEF Oracle!PeerSends, Oracle!EndLink, Oracle!Report, Oracle!host, Oracle!controller
  <1>3. /\ wire' \in Seq(EventSet) /\ Flying' \subseteq Flying \cup {e}
        /\ Single(AnswerKinds) => Single(AnswerKinds)'
        /\ Single({"connection"}) => Single({"connection"})'
    <2>1. e.kind \notin AnswerKinds /\ e.kind \notin {"connection"}
        BY <1>1 DEF AnswerKinds
    <2>2. QED
        BY <1>1, <1>2, <2>1, EventSent DEF OraclePlace
  <1>4. Answering' \subseteq Answering /\ Connecting' \subseteq Connecting /\ Ordered' = Ordered
    <2>1. Answering' \subseteq Answering
        BY <1>1, <1>3 DEF Answering, AnswerKinds
    <2>2. Connecting' \subseteq Connecting
        BY <1>1, <1>3 DEF Connecting
    <2>3. QED
        BY <1>2, <2>1, <2>2, UartUnchanged
  <1>5. Oracle!Step' = Oracle!Step
      BY <1>2, StepStays
  <1>6. OraclePlace'
      BY <1>2, <1>3 DEF OraclePlace
  <1>7. CommandsPaired'
      BY <1>2, <1>3, <1>4, <1>5 DEF CommandsPaired, Awaiting
  <1>8. ClosingPaired' /\ FlagsInScript'
      BY <1>2, <1>4 DEF ClosingPaired, FlagsInScript
  <1>9. RolesInScript'
      BY <1>2, <1>4 DEF RolesInScript
  <1>10. LinksInScript'
    <2>1. ASSUME NEW f \in Flying', f.kind = "disconnection"
          PROVE  f.id \in 1..links /\ f.id # oracleLink'
        BY <1>1, <1>3, <2>1 DEF LinksInScript
    <2>2. QED
        BY <1>1, <1>2, <1>3, <1>4, <2>1 DEF LinksInScript
  <1>11. QED
      BY <1>6, <1>7, <1>8, <1>9, <1>10

\* Every step of the oracle, of the controller and of its peers keeps it.
LEMMA OracleStep ==
  ASSUME OracleInv, Oracle!Next
  PROVE  OracleInv'
  BY SendKeeps, TakeKeeps, ObserveKeeps, FailureKeeps, ClosingKeeps, ReadKeeps, ExecuteKeeps,
     ConnectKeeps, PeersKeep DEF Oracle!Next, Oracle!Runs

\* The oracle begins with an empty UART and a controller without roles.
LEMMA OracleStart == Oracle!Init => OracleInv
  <1> SUFFICES ASSUME Oracle!Init PROVE OracleInv
      OBVIOUS
  <1>1. /\ n = 1 /\ oraclePhase = "send" /\ oracleStatus = "running" /\ closing = "none"
        /\ handle = 0 /\ issued = 0 /\ answer = 0 /\ oracleLink = 0 /\ links = 0
        /\ pending = <<>> /\ wire = <<>> /\ down = <<>>
        /\ unclean \in BOOLEAN /\ ~advertising_enabled /\ advertising_enabled \in BOOLEAN
        /\ ~scan_enabled /\ scan_enabled \in BOOLEAN /\ ~adv /\ adv \in BOOLEAN
        /\ ~scan /\ scan \in BOOLEAN /\ ~creating /\ creating \in BOOLEAN
      BY DEF Oracle!Init
  <1>2. /\ Flying = {} /\ Ordered = {} /\ Answering = {} /\ Connecting = {}
        /\ Single({"connection"})
      BY <1>1 DEF Flying, Ordered, Answering, Connecting, Single, One, Has
  <1>3. OraclePlace
    <2>1. <<>> \in Seq(EventSet) /\ <<>> \in Seq(OrderSet)
        OBVIOUS
    <2>2. QED
        BY <1>1, <2>1 DEF OraclePlace
  <1>4. CommandsPaired /\ ClosingPaired
      BY <1>1, <1>2 DEF CommandsPaired, ClosingPaired, Awaiting
  <1>5. FlagsInScript
      BY <1>1 DEF FlagsInScript
  <1>6. RolesInScript /\ LinksInScript
      BY <1>1, <1>2 DEF RolesInScript, LinksInScript
  <1>7. QED
      BY <1>3, <1>4, <1>5, <1>6 DEF OracleInv

\* What the two properties say follows from it.
LEMMA OracleHolds ==
  ASSUME OracleInv
  PROVE  Oracle!OkMeansQuiet /\ Oracle!AnswerIsMine /\ Oracle!QuietAfterFailure
  <1> USE DEF OracleInv
  <1>1. n \in 1..19
      BY DEF OraclePlace
  <1>2. Oracle!OkMeansQuiet
      BY <1>1 DEF OraclePlace, RolesInScript, LinksInScript, Oracle!OkMeansQuiet
  <1>3. Oracle!AnswerIsMine
      BY DEF CommandsPaired, ClosingPaired, Oracle!AnswerIsMine
  <1>4. Oracle!QuietAfterFailure
    <2> SUFFICES ASSUME oraclePhase = "done", oracleStatus = "failed", ~unclean,
                        n \notin {4, 13, 15}
                 PROVE  ~adv /\ ~scan
        BY <1>1, StepIs DEF Oracle!QuietAfterFailure
    <2>1. adv => n \in 5..7
        BY <1>1 DEF RolesInScript, LinksInScript
    <2>2. scan => n = 14
        BY <1>1 DEF RolesInScript
    <2>3. closing \in {"none", "adv-off", "scan-off"}
        BY DEF OraclePlace
    <2>4. QED
        BY <1>1, <2>1, <2>2, <2>3 DEF RolesInScript, FlagsInScript
  <1>5. QED
      BY <1>2, <1>3, <1>4

\* A stutter keeps it.
LEMMA OracleStutter ==
  ASSUME OracleInv, UNCHANGED oracleVars
  PROVE  OracleInv'
  <1> USE DEF OracleInv
  <1>1. UNCHANGED <<n, oraclePhase, oracleStatus, closing, unclean, advertising_enabled,
                    scan_enabled, handle, issued, answer, pending, wire, down, adv, scan,
                    creating, oracleLink, links>>
      BY DEF oracleVars
  <1>2. /\ UNCHANGED <<Flying, Answering, Connecting, Ordered, Oracle!Step>>
        /\ \A K : Single(K)' = Single(K)
      BY <1>1, UartUnchanged, StepStays
  <1>3. OraclePlace'
      BY <1>1 DEF OraclePlace
  <1>4. CommandsPaired'
      BY <1>1, <1>2 DEF CommandsPaired, Awaiting
  <1>5. ClosingPaired' /\ FlagsInScript'
      BY <1>1, <1>2 DEF ClosingPaired, FlagsInScript
  <1>6. RolesInScript' /\ LinksInScript'
      BY <1>1, <1>2 DEF RolesInScript, LinksInScript
  <1>7. QED
      BY <1>3, <1>4, <1>5, <1>6

\* A gate has at least one round.
LEMMA RoundsPositive == Rounds \in Nat /\ Rounds >= 1
  BY CommandsAssumption DEF Dual!ConstantsOk

\* Every step of the gate, of its children and on the air keeps it (command_radio_dual).
LEMMA DualStep ==
  ASSUME DualInv, Dual!Next
  PROVE  DualInv'
  <1> USE RoundsPositive DEF DualInv
  <1>1. CASE Dual!SpawnReceiver
      BY <1>1 DEF Dual!SpawnReceiver
  <1>2. CASE Dual!AwaitReady
      BY <1>2 DEF Dual!AwaitReady
  <1>3. CASE Dual!TransmitterOk
      BY <1>3 DEF Dual!TransmitterOk
  <1>4. CASE Dual!JoinReceiver
      BY <1>4 DEF Dual!JoinReceiver
  <1>5. CASE Dual!Evidence
      BY <1>5 DEF Dual!Evidence
  <1>6. CASE Dual!Raise
      BY <1>6 DEF Dual!Raise
  <1>7. CASE Dual!Finally
      BY <1>7 DEF Dual!Finally, Dual!Alive
  <1>8. CASE Dual!ReceiverReady
      BY <1>8 DEF Dual!ReceiverReady
  <1>9. CASE Dual!TransmitterBoots
      BY <1>9 DEF Dual!TransmitterBoots
  <1>10. CASE Dual!Received
      BY <1>10 DEF Dual!Received
  <1>11. CASE Dual!TransmitterPasses
      BY <1>11 DEF Dual!TransmitterPasses
  <1>12. CASE Dual!ReceiverFails
    <2>1. UNCHANGED <<dualPc, round, transmitter, reaped, ready, dualHeard, proven,
                      dualStatus, left>>
        BY <1>12 DEF Dual!ReceiverFails, Dual!Alive
    <2>2. /\ receiver \in {"starting", "listening"} /\ receiver' = "failed"
        BY <1>12 DEF Dual!ReceiverFails, Dual!Alive
    <2>3. QED
        BY <2>1, <2>2
  <1>13. CASE Dual!TransmitterFails
      BY <1>13 DEF Dual!TransmitterFails
  <1>14. QED
      BY <1>1, <1>2, <1>3, <1>4, <1>5, <1>6, <1>7, <1>8, <1>9, <1>10, <1>11, <1>12, <1>13 DEF
         Dual!Next, Dual!Gate

\* Every step of the scan, of BlueZ and of other clients keeps it.
LEMMA ScanStep ==
  ASSUME ScanInv, Scan!Next
  PROVE  ScanInv'
  <1> USE DEF ScanInv, Scan!Goto, Scan!Abort, Scan!Matching, Scan!Discovering, Scan!bluez,
     Scan!outside,
      Scan!host
  <1>1. CASE Scan!Snapshot
      BY <1>1 DEF Scan!Snapshot
  <1>2. CASE Scan!RemoveExisting
    <2>1. UNCHANGED <<scanPaired, scanOurs, scanHeard, scanOwned, failure, errors,
                      scanVerified>>
        BY <1>2 DEF Scan!RemoveExisting
    <2>2. \/ /\ scanPc = "existing" /\ scanPc' = "begin"
             /\ ~(scanKnown /\ rssi)
             /\ UNCHANGED <<scanKnown, rssi, scanStatus>>
          \/ /\ scanPc = "existing" /\ scanPc' = "removing"
             /\ scanKnown' = FALSE /\ rssi' = FALSE
             /\ UNCHANGED scanStatus
          \/ /\ scanPc = "existing" /\ scanPc' = "done" /\ scanStatus' = "failed"
             /\ UNCHANGED <<scanKnown, rssi>>
        BY <1>2 DEF Scan!RemoveExisting
    <2>3. CASE /\ scanPc = "existing" /\ scanPc' = "begin"
               /\ ~(scanKnown /\ rssi)
               /\ UNCHANGED <<scanKnown, rssi, scanStatus>>
        BY <2>1, <2>3
    <2>4. CASE /\ scanPc = "existing" /\ scanPc' = "removing"
               /\ scanKnown' = FALSE /\ rssi' = FALSE
               /\ UNCHANGED scanStatus
        BY <2>1, <2>4
    <2>5. CASE /\ scanPc = "existing" /\ scanPc' = "done" /\ scanStatus' = "failed"
               /\ UNCHANGED <<scanKnown, rssi>>
        BY <2>1, <2>5
    <2>6. QED
        BY <2>2, <2>3, <2>4, <2>5
  <1>3. CASE Scan!AwaitRemoval
      BY <1>3 DEF Scan!AwaitRemoval
  <1>4. CASE Scan!StartDiscovery
    <2>1. UNCHANGED <<scanKnown, scanPaired, rssi, scanHeard, scanOwned, errors,
                      scanVerified, scanStatus>>
        BY <1>4 DEF Scan!StartDiscovery
    <2>2. \/ /\ scanPc = "begin" /\ scanPc' = "await"
             /\ scanOurs' = scanOwned
             /\ UNCHANGED failure
          \/ /\ scanPc = "begin" /\ scanPc' = "stop"
             /\ scanOwned /\ scanOurs' \in BOOLEAN /\ failure' = TRUE
        BY <1>4 DEF Scan!StartDiscovery
    <2>3. CASE /\ scanPc = "begin" /\ scanPc' = "await"
               /\ scanOurs' = scanOwned
               /\ UNCHANGED failure
        BY <2>1, <2>3
    <2>4. CASE /\ scanPc = "begin" /\ scanPc' = "stop"
               /\ scanOwned /\ scanOurs' \in BOOLEAN /\ failure' = TRUE
        BY <2>1, <2>4
    <2>5. QED
        BY <2>2, <2>3, <2>4
  <1>5. CASE Scan!Await
      BY <1>5 DEF Scan!Await
  <1>6. CASE Scan!StopDiscovery
    <2>1. UNCHANGED <<scanKnown, scanPaired, rssi, scanHeard, scanOwned, failure,
                      scanVerified, scanStatus>>
        BY <1>6 DEF Scan!StopDiscovery
    <2>2. \/ /\ scanPc = "stop" /\ scanPc' = "find"
             /\ scanOurs' = FALSE
             /\ UNCHANGED errors
          \/ /\ scanPc = "stop" /\ scanPc' = "find"
             /\ errors' = TRUE
             /\ UNCHANGED scanOurs
          \/ /\ scanPc = "stop" /\ scanPc' = "find"
             /\ ~scanOwned
             /\ UNCHANGED <<scanOurs, errors>>
        BY <1>6 DEF Scan!StopDiscovery
    <2>3. CASE /\ scanPc = "stop" /\ scanPc' = "find"
               /\ scanOurs' = FALSE
               /\ UNCHANGED errors
        BY <2>1, <2>3
    <2>4. CASE /\ scanPc = "stop" /\ scanPc' = "find"
               /\ errors' = TRUE
               /\ UNCHANGED scanOurs
        BY <2>1, <2>4
    <2>5. CASE /\ scanPc = "stop" /\ scanPc' = "find"
               /\ ~scanOwned
               /\ UNCHANGED <<scanOurs, errors>>
        BY <2>1, <2>5
    <2>6. QED
        BY <2>2, <2>3, <2>4, <2>5
  <1>7. CASE Scan!FindForRemoval
      BY <1>7 DEF Scan!FindForRemoval
  <1>8. CASE Scan!RemoveDevice
      BY <1>8 DEF Scan!RemoveDevice
  <1>9. CASE Scan!AwaitGone
      BY <1>9 DEF Scan!AwaitGone
  <1>10. CASE Scan!Verify
      BY <1>10 DEF Scan!Verify
  <1>11. CASE Scan!Return
      BY <1>11 DEF Scan!Return
  <1>12. CASE Scan!Hear
      BY <1>12 DEF Scan!Hear
  <1>13. CASE Scan!Forget
    <2>1. UNCHANGED <<scanPc, scanPaired, scanOurs, scanHeard, scanOwned, failure, errors,
                      scanVerified, scanStatus>>
        BY <1>13 DEF Scan!Forget
    <2>2. /\ rssi' = FALSE /\ scanKnown' \in BOOLEAN
        BY <1>13 DEF Scan!Forget
    <2>3. QED
        BY <2>1, <2>2, ZenonT(60)
  <1>14. CASE Scan!Switch
      BY <1>14 DEF Scan!Switch
  <1>15. QED
      BY <1>1, <1>2, <1>3, <1>4, <1>5, <1>6, <1>7, <1>8, <1>9, <1>10, <1>11, <1>12, <1>13,
         <1>14 DEF Scan!Next, Scan!Host

\* A pairing leaves a bond or none.
LEMMA BondingBoolean == Bonding \subseteq BOOLEAN
  BY CommandsAssumption DEF Validation!ConstantsOk

\* Every step of the gate, of BlueZ, of the target and of other clients keeps it.
LEMMA ValidationStep ==
  ASSUME ValidationInv, Validation!Next
  PROVE  ValidationInv'
  <1> USE DEF Pairing, Reading, ReadOnce, Validation!Phases, Validation!Goto,
      Validation!Fail, Validation!bluez, Validation!reads, Validation!host,
      Validation!tracing, Validation!requires_pairing, Validation!requires_reconnect
  <1>1. CASE Validation!RemoveExisting
    <2>1. UNCHANGED <<validationPhase, fresh, validationOwned, validationOurs,
                      validationOther, validationLink, Validation!tracing,
                      validationVerified, readable, reconnect_read>>
        BY <1>1 DEF Validation!RemoveExisting, Validation!Remove
    <2>2. \/ /\ validationPc = "existing"
             /\ validationKnown' = FALSE /\ validationPaired' = FALSE /\ bonded' = FALSE
             /\ connected' = FALSE /\ resolved' = FALSE /\ pairing' = FALSE
             /\ \/ validationPc' = "discover" /\ UNCHANGED validationStatus
                \/ validationPc' = "done" /\ validationStatus' = "failed"
          \/ /\ validationPc = "existing"
             /\ validationPc' = "discover"
             /\ UNCHANGED <<validationStatus, validationKnown, validationPaired, bonded,
                            connected, resolved, pairing>>
          \/ /\ validationPc = "existing"
             /\ validationPc' = "done" /\ validationStatus' = "failed"
             /\ UNCHANGED <<validationKnown, validationPaired, bonded, connected, resolved,
                            pairing>>
        BY <1>1 DEF Validation!RemoveExisting, Validation!Remove, ValidationInv, AtStep,
           DeviceKnown, LinksCounted, PairingEnds
    <2>3. CASE /\ validationPc = "existing"
               /\ validationKnown' = FALSE /\ validationPaired' = FALSE /\ bonded' = FALSE
               /\ connected' = FALSE /\ resolved' = FALSE /\ pairing' = FALSE
               /\ \/ validationPc' = "discover" /\ UNCHANGED validationStatus
                  \/ validationPc' = "done" /\ validationStatus' = "failed"
      <3>1. AtStep'
          BY <2>1, <2>3 DEF ValidationInv, AtStep
      <3>2. DeviceKnown'
          BY <2>1, <2>3 DEF ValidationInv, AtStep, DeviceKnown, PairingEnds
      <3>3. LinksCounted'
          BY <2>1, <2>3 DEF ValidationInv, LinksCounted, DeviceKnown
      <3>4. PairingEnds'
          BY <2>1, <2>3 DEF ValidationInv, AtStep, DeviceKnown, LinksCounted, PairingEnds
      <3>5. ReadsSecured'
          BY <2>1, <2>3 DEF ValidationInv, AtStep, DeviceKnown, LinksCounted, PairingEnds,
             ReadsSecured
      <3>6. QED
          BY <3>1, <3>2, <3>3, <3>4, <3>5 DEF ValidationInv
    <2>4. CASE /\ validationPc = "existing"
               /\ validationPc' = "discover"
               /\ UNCHANGED <<validationStatus, validationKnown, validationPaired, bonded,
                              connected, resolved, pairing>>
      <3>1. AtStep'
          BY <2>1, <2>4 DEF ValidationInv, AtStep
      <3>2. DeviceKnown'
          BY <2>1, <2>4 DEF ValidationInv, AtStep, DeviceKnown, PairingEnds
      <3>3. LinksCounted'
          BY <2>1, <2>4 DEF ValidationInv, LinksCounted, DeviceKnown
      <3>4. PairingEnds'
          BY <2>1, <2>4 DEF ValidationInv, AtStep, DeviceKnown, LinksCounted, PairingEnds
      <3>5. ReadsSecured'
          BY <2>1, <2>4 DEF ValidationInv, AtStep, DeviceKnown, LinksCounted, PairingEnds,
             ReadsSecured
      <3>6. QED
          BY <3>1, <3>2, <3>3, <3>4, <3>5 DEF ValidationInv
    <2>5. CASE /\ validationPc = "existing"
               /\ validationPc' = "done" /\ validationStatus' = "failed"
               /\ UNCHANGED <<validationKnown, validationPaired, bonded, connected, resolved,
                              pairing>>
      <3>1. AtStep'
          BY <2>1, <2>5 DEF ValidationInv, AtStep
      <3>2. DeviceKnown'
          BY <2>1, <2>5 DEF ValidationInv, AtStep, DeviceKnown, PairingEnds
      <3>3. LinksCounted'
          BY <2>1, <2>5 DEF ValidationInv, LinksCounted, DeviceKnown
      <3>4. PairingEnds'
          BY <2>1, <2>5 DEF ValidationInv, AtStep, DeviceKnown, LinksCounted, PairingEnds
      <3>5. ReadsSecured'
          BY <2>1, <2>5 DEF ValidationInv, AtStep, DeviceKnown, LinksCounted, PairingEnds,
             ReadsSecured
      <3>6. QED
          BY <3>1, <3>2, <3>3, <3>4, <3>5 DEF ValidationInv
    <2>6. QED
        BY <2>2, <2>3, <2>4, <2>5, ZenonT(60)
  <1>2. CASE Validation!StartDiscovery
    <2>1. UNCHANGED <<validationPhase, fresh, validationStatus, validationOwned,
                      validationOther, validationKnown, validationPaired, bonded, connected,
                      resolved, validationLink, pairing, Validation!tracing,
                      validationVerified, readable, reconnect_read>>
        BY <1>2, ZenonT(60) DEF Validation!StartDiscovery
    <2>2. \/ /\ validationPc = "discover"
             /\ validationOwned /\ validationOurs' \in BOOLEAN
             /\ validationPc' = "lost"
          \/ /\ validationPc = "discover"
             /\ validationOurs' = validationOwned
             /\ validationPc' = "seek"
        BY <1>2 DEF Validation!StartDiscovery, ValidationInv, AtStep, DeviceKnown,
           LinksCounted, PairingEnds
    <2>3. CASE /\ validationPc = "discover"
               /\ validationOwned /\ validationOurs' \in BOOLEAN
               /\ validationPc' = "lost"
      <3>1. AtStep'
          BY <2>1, <2>3 DEF ValidationInv, AtStep
      <3>2. DeviceKnown'
          BY <2>1, <2>3 DEF ValidationInv, AtStep, DeviceKnown, PairingEnds
      <3>3. LinksCounted'
          BY <2>1, <2>3 DEF ValidationInv, LinksCounted, DeviceKnown
      <3>4. PairingEnds'
          BY <2>1, <2>3 DEF ValidationInv, AtStep, DeviceKnown, LinksCounted, PairingEnds
      <3>5. ReadsSecured'
          BY <2>1, <2>3 DEF ValidationInv, AtStep, DeviceKnown, LinksCounted, PairingEnds,
             ReadsSecured
      <3>6. QED
          BY <3>1, <3>2, <3>3, <3>4, <3>5 DEF ValidationInv
    <2>4. CASE /\ validationPc = "discover"
               /\ validationOurs' = validationOwned
               /\ validationPc' = "seek"
      <3>1. AtStep'
          BY <2>1, <2>4 DEF ValidationInv, AtStep
      <3>2. DeviceKnown'
          BY <2>1, <2>4 DEF ValidationInv, AtStep, DeviceKnown, PairingEnds
      <3>3. LinksCounted'
          BY <2>1, <2>4 DEF ValidationInv, LinksCounted, DeviceKnown
      <3>4. PairingEnds'
          BY <2>1, <2>4 DEF ValidationInv, AtStep, DeviceKnown, LinksCounted, PairingEnds
      <3>5. ReadsSecured'
          BY <2>1, <2>4 DEF ValidationInv, AtStep, DeviceKnown, LinksCounted, PairingEnds,
             ReadsSecured
      <3>6. QED
          BY <3>1, <3>2, <3>3, <3>4, <3>5 DEF ValidationInv
    <2>5. QED
        BY <2>2, <2>3, <2>4
  <1>3. CASE Validation!AwaitTarget
      BY <1>3 DEF Validation!AwaitTarget,
             ValidationInv, AtStep, DeviceKnown, LinksCounted, PairingEnds, ReadsSecured
  <1>4. CASE Validation!StopDiscovery
    <2>1. UNCHANGED <<validationPhase, fresh, validationOwned, validationOther,
                      validationKnown, validationPaired, bonded, connected, resolved,
                      validationLink, pairing, Validation!tracing,
                      validationVerified, readable, reconnect_read>>
        BY <1>4 DEF Validation!StopDiscovery
    <2>2. \/ /\ validationPc = "found" \/ validationPc = "lost"
             /\ validationOurs' \in BOOLEAN /\ (validationOurs' => validationOurs)
             /\ validationPc' = "done" /\ validationStatus' = "failed"
          \/ /\ validationPc = "found"
             /\ validationOurs' \in BOOLEAN /\ (validationOurs' => validationOurs)
             /\ ~validationOwned \/ ~validationOurs'
             /\ validationPc' = "check"
             /\ UNCHANGED validationStatus
        BY <1>4 DEF Validation!StopDiscovery, ValidationInv, AtStep, DeviceKnown,
           LinksCounted, PairingEnds
    <2>3. CASE /\ validationPc = "found" \/ validationPc = "lost"
               /\ validationOurs' \in BOOLEAN /\ (validationOurs' => validationOurs)
               /\ validationPc' = "done" /\ validationStatus' = "failed"
      <3>1. AtStep'
          BY <2>1, <2>3 DEF ValidationInv, AtStep
      <3>2. DeviceKnown'
          BY <2>1, <2>3 DEF ValidationInv, AtStep, DeviceKnown, PairingEnds
      <3>3. LinksCounted'
          BY <2>1, <2>3 DEF ValidationInv, LinksCounted, DeviceKnown
      <3>4. PairingEnds'
          BY <2>1, <2>3 DEF ValidationInv, AtStep, DeviceKnown, LinksCounted, PairingEnds
      <3>5. ReadsSecured'
          BY <2>1, <2>3 DEF ValidationInv, AtStep, DeviceKnown, LinksCounted, PairingEnds,
             ReadsSecured
      <3>6. QED
          BY <3>1, <3>2, <3>3, <3>4, <3>5 DEF ValidationInv
    <2>4. CASE /\ validationPc = "found"
               /\ validationOurs' \in BOOLEAN /\ (validationOurs' => validationOurs)
               /\ ~validationOwned \/ ~validationOurs'
               /\ validationPc' = "check"
               /\ UNCHANGED validationStatus
      <3>1. AtStep'
          BY <2>1, <2>4 DEF ValidationInv, AtStep
      <3>2. DeviceKnown'
          BY <2>1, <2>4 DEF ValidationInv, AtStep, DeviceKnown, PairingEnds
      <3>3. LinksCounted'
          BY <2>1, <2>4 DEF ValidationInv, LinksCounted, DeviceKnown
      <3>4. PairingEnds'
          BY <2>1, <2>4 DEF ValidationInv, AtStep, DeviceKnown, LinksCounted, PairingEnds
      <3>5. ReadsSecured'
          BY <2>1, <2>4 DEF ValidationInv, AtStep, DeviceKnown, LinksCounted, PairingEnds,
             ReadsSecured
      <3>6. QED
          BY <3>1, <3>2, <3>3, <3>4, <3>5 DEF ValidationInv
    <2>5. QED
        BY <2>2, <2>3, <2>4
  <1>5. CASE Validation!CheckPaired
      BY <1>5 DEF Validation!CheckPaired,
             ValidationInv, AtStep, DeviceKnown, LinksCounted, PairingEnds, ReadsSecured
  <1>6. CASE Validation!Prepare
    <2>1. UNCHANGED <<validationPhase, fresh, validationOwned, validationOurs,
                      validationOther, Validation!bluez, trace_cleaned, validationVerified,
                      readable, reconnect_read>>
        BY <1>6 DEF Validation!Prepare
    <2>2. CASE /\ validationPc = "agent" /\ validationPc' = "pair" /\ UNCHANGED validationStatus
               /\ agent' = "registered" /\ Validation!StartTrace
      <3>0. trace' \in {"off", "on"} /\ available' \in BOOLEAN
          BY <2>2 DEF Validation!StartTrace
      <3>1. AtStep'
          BY <2>1, <2>2, <3>0 DEF ValidationInv, AtStep
      <3>2. DeviceKnown'
          BY <2>1, <2>2, <3>0 DEF ValidationInv, AtStep, DeviceKnown, PairingEnds
      <3>3. LinksCounted'
          BY <2>1, <2>2, <3>0 DEF ValidationInv, LinksCounted, DeviceKnown
      <3>4. PairingEnds'
          BY <2>1, <2>2, <3>0 DEF ValidationInv, AtStep, DeviceKnown, LinksCounted, PairingEnds
      <3>5. ReadsSecured'
          BY <2>1, <2>2, <3>0 DEF ValidationInv, AtStep, DeviceKnown, LinksCounted, PairingEnds,
             ReadsSecured
      <3>6. QED
          BY <3>1, <3>2, <3>3, <3>4, <3>5 DEF ValidationInv
    <2>3. CASE /\ validationPc = "agent"
               /\ validationPc' = "done" /\ validationStatus' = "failed"
               /\ agent' \in {"none", "abandoned"} /\ UNCHANGED <<trace, available>>
      <3>1. AtStep'
          BY <2>1, <2>3 DEF ValidationInv, AtStep
      <3>2. DeviceKnown'
          BY <2>1, <2>3 DEF ValidationInv, AtStep, DeviceKnown, PairingEnds
      <3>3. LinksCounted'
          BY <2>1, <2>3 DEF ValidationInv, LinksCounted, DeviceKnown
      <3>4. PairingEnds'
          BY <2>1, <2>3 DEF ValidationInv, AtStep, DeviceKnown, LinksCounted, PairingEnds
      <3>5. ReadsSecured'
          BY <2>1, <2>3 DEF ValidationInv, AtStep, DeviceKnown, LinksCounted, PairingEnds,
             ReadsSecured
      <3>6. QED
          BY <3>1, <3>2, <3>3, <3>4, <3>5 DEF ValidationInv
    <2>4. QED
        BY <1>6, <2>2, <2>3 DEF Validation!Prepare
  <1>7. CASE Validation!Pair
    <2>1. UNCHANGED <<validationPhase, fresh, validationStatus, validationOwned,
                      validationOurs, validationOther, validationKnown,
                      Validation!tracing, validationVerified, readable, reconnect_read>>
        BY <1>7 DEF Validation!Pair
    <2>2. \/ /\ validationPc = "pair"
             /\ validationPaired' = TRUE /\ bonded' \in BOOLEAN
             /\ validationKnown /\ connected' = TRUE /\ resolved' \in BOOLEAN
             /\ validationLink' = IF connected THEN validationLink ELSE validationLink + 1
             /\ validationPc' = "release"
             /\ UNCHANGED pairing
          \/ /\ validationPc = "pair"
             /\ validationPaired
             /\ validationPc' = "release"
             /\ UNCHANGED <<validationPaired, bonded, connected, resolved, validationLink,
                            pairing>>
          \/ /\ validationPc = "pair"
             /\ pairing' \in BOOLEAN /\ (pairing' => validationKnown)
             /\ validationPc' = "cancel"
             /\ UNCHANGED <<validationPaired, bonded, connected, resolved, validationLink>>
        BY <1>7, BondingBoolean DEF Validation!Pair, ValidationInv, AtStep, DeviceKnown,
           LinksCounted, PairingEnds
    <2>3. CASE /\ validationPc = "pair"
               /\ validationPaired' = TRUE /\ bonded' \in BOOLEAN
               /\ validationKnown /\ connected' = TRUE /\ resolved' \in BOOLEAN
               /\ validationLink' = IF connected THEN validationLink ELSE validationLink + 1
               /\ validationPc' = "release"
               /\ UNCHANGED pairing
      <3>1. AtStep'
          BY <2>1, <2>3 DEF ValidationInv, AtStep
      <3>2. DeviceKnown'
          BY <2>1, <2>3 DEF ValidationInv, AtStep, DeviceKnown, PairingEnds
      <3>3. LinksCounted'
          BY <2>1, <2>3 DEF ValidationInv, LinksCounted, DeviceKnown
      <3>4. PairingEnds'
          BY <2>1, <2>3 DEF ValidationInv, AtStep, DeviceKnown, LinksCounted, PairingEnds
      <3>5. ReadsSecured'
          BY <2>1, <2>3 DEF ValidationInv, AtStep, DeviceKnown, LinksCounted, PairingEnds,
             ReadsSecured
      <3>6. QED
          BY <3>1, <3>2, <3>3, <3>4, <3>5 DEF ValidationInv
    <2>4. CASE /\ validationPc = "pair"
               /\ validationPaired
               /\ validationPc' = "release"
               /\ UNCHANGED <<validationPaired, bonded, connected, resolved, validationLink,
                              pairing>>
      <3>1. AtStep'
          BY <2>1, <2>4 DEF ValidationInv, AtStep
      <3>2. DeviceKnown'
          BY <2>1, <2>4 DEF ValidationInv, AtStep, DeviceKnown, PairingEnds
      <3>3. LinksCounted'
          BY <2>1, <2>4 DEF ValidationInv, LinksCounted, DeviceKnown
      <3>4. PairingEnds'
          BY <2>1, <2>4 DEF ValidationInv, AtStep, DeviceKnown, LinksCounted, PairingEnds
      <3>5. ReadsSecured'
          BY <2>1, <2>4 DEF ValidationInv, AtStep, DeviceKnown, LinksCounted, PairingEnds,
             ReadsSecured
      <3>6. QED
          BY <3>1, <3>2, <3>3, <3>4, <3>5 DEF ValidationInv
    <2>5. CASE /\ validationPc = "pair"
               /\ pairing' \in BOOLEAN /\ (pairing' => validationKnown)
               /\ validationPc' = "cancel"
               /\ UNCHANGED <<validationPaired, bonded, connected, resolved, validationLink>>
      <3>1. AtStep'
          BY <2>1, <2>5 DEF ValidationInv, AtStep
      <3>2. DeviceKnown'
          BY <2>1, <2>5 DEF ValidationInv, AtStep, DeviceKnown, PairingEnds
      <3>3. LinksCounted'
          BY <2>1, <2>5 DEF ValidationInv, LinksCounted, DeviceKnown
      <3>4. PairingEnds'
          BY <2>1, <2>5 DEF ValidationInv, AtStep, DeviceKnown, LinksCounted, PairingEnds
      <3>5. ReadsSecured'
          BY <2>1, <2>5 DEF ValidationInv, AtStep, DeviceKnown, LinksCounted, PairingEnds,
             ReadsSecured
      <3>6. QED
          BY <3>1, <3>2, <3>3, <3>4, <3>5 DEF ValidationInv
    <2>6. QED
        BY <2>2, <2>3, <2>4, <2>5
  <1>8. CASE Validation!Release
    <2>1. UNCHANGED <<validationPhase, fresh, validationOwned, validationOurs,
                      validationOther, validationKnown, validationPaired, bonded, connected,
                      resolved, validationLink, pairing, validationVerified, readable,
                      reconnect_read>>
        BY <1>8 DEF Validation!Release
    <2>2. /\ agent' \in {"none", "abandoned"} /\ available' \in BOOLEAN
          /\ trace_cleaned' \in BOOLEAN /\ trace' \in {"off", "on"}
          /\ trace' = "on" /\ available' => ~trace_cleaned'
        BY <1>8 DEF Validation!Release, Validation!StopTrace, ValidationInv, PairingEnds
    <2>3. CASE validationPc = "release" /\ validationPc' = "bonded" /\ UNCHANGED validationStatus
      <3>1. AtStep'
          BY <2>1, <2>2, <2>3 DEF ValidationInv, AtStep
      <3>2. DeviceKnown'
          BY <2>1, <2>2, <2>3 DEF ValidationInv, AtStep, DeviceKnown, PairingEnds
      <3>3. LinksCounted'
          BY <2>1, <2>2, <2>3 DEF ValidationInv, LinksCounted, DeviceKnown
      <3>4. PairingEnds'
          BY <2>1, <2>2, <2>3 DEF ValidationInv, AtStep, DeviceKnown, LinksCounted, PairingEnds
      <3>5. ReadsSecured'
          BY <2>1, <2>2, <2>3 DEF ValidationInv, AtStep, DeviceKnown, LinksCounted, PairingEnds,
             ReadsSecured
      <3>6. QED
          BY <3>1, <3>2, <3>3, <3>4, <3>5 DEF ValidationInv
    <2>4. CASE /\ validationPc \in {"release", "released", "interrupted"}
               /\ validationPc' = "done" /\ validationStatus' = "failed"
      <3>1. AtStep'
          BY <2>1, <2>2, <2>4 DEF ValidationInv, AtStep
      <3>2. DeviceKnown'
          BY <2>1, <2>2, <2>4 DEF ValidationInv, AtStep, DeviceKnown, PairingEnds
      <3>3. LinksCounted'
          BY <2>1, <2>2, <2>4 DEF ValidationInv, LinksCounted, DeviceKnown
      <3>4. PairingEnds'
          BY <2>1, <2>2, <2>4 DEF ValidationInv, AtStep, DeviceKnown, LinksCounted, PairingEnds
      <3>5. ReadsSecured'
          BY <2>1, <2>2, <2>4 DEF ValidationInv, AtStep, DeviceKnown, LinksCounted, PairingEnds,
             ReadsSecured
      <3>6. QED
          BY <3>1, <3>2, <3>3, <3>4, <3>5 DEF ValidationInv
    <2>5. QED
        BY <1>8, <2>3, <2>4 DEF Validation!Release
  <1>9. CASE Validation!AwaitBond
      BY <1>9 DEF Validation!AwaitBond,
             ValidationInv, AtStep, DeviceKnown, LinksCounted, PairingEnds, ReadsSecured
  <1>10. CASE Validation!Cancel
    <2>1. UNCHANGED <<validationPhase, fresh, validationStatus, validationOwned,
                      validationOurs, validationOther, validationKnown, validationPaired,
                      bonded, connected, resolved, validationLink, Validation!tracing,
                      validationVerified, readable, reconnect_read>>
        BY <1>10 DEF Validation!Cancel
    <2>2. \/ /\ validationPc = "cancel"
             /\ validationPc' = "hangup"
             /\ pairing' \in BOOLEAN /\ (pairing' => pairing)
          \/ /\ validationPc = "cancel-connect"
             /\ validationPc' = "hangup-connect"
             /\ pairing' \in BOOLEAN /\ (pairing' => pairing)
        BY <1>10 DEF Validation!Cancel, ValidationInv, AtStep, DeviceKnown, LinksCounted,
           PairingEnds
    <2>3. CASE /\ validationPc = "cancel"
               /\ validationPc' = "hangup"
               /\ pairing' \in BOOLEAN /\ (pairing' => pairing)
      <3>1. AtStep'
          BY <2>1, <2>3 DEF ValidationInv, AtStep
      <3>2. DeviceKnown'
          BY <2>1, <2>3 DEF ValidationInv, AtStep, DeviceKnown, PairingEnds
      <3>3. LinksCounted'
          BY <2>1, <2>3 DEF ValidationInv, LinksCounted, DeviceKnown
      <3>4. PairingEnds'
          BY <2>1, <2>3 DEF ValidationInv, AtStep, DeviceKnown, LinksCounted, PairingEnds
      <3>5. ReadsSecured'
          BY <2>1, <2>3 DEF ValidationInv, AtStep, DeviceKnown, LinksCounted, PairingEnds,
             ReadsSecured
      <3>6. QED
          BY <3>1, <3>2, <3>3, <3>4, <3>5 DEF ValidationInv
    <2>4. CASE /\ validationPc = "cancel-connect"
               /\ validationPc' = "hangup-connect"
               /\ pairing' \in BOOLEAN /\ (pairing' => pairing)
      <3>1. AtStep'
          BY <2>1, <2>4 DEF ValidationInv, AtStep
      <3>2. DeviceKnown'
          BY <2>1, <2>4 DEF ValidationInv, AtStep, DeviceKnown, PairingEnds
      <3>3. LinksCounted'
          BY <2>1, <2>4 DEF ValidationInv, LinksCounted, DeviceKnown
      <3>4. PairingEnds'
          BY <2>1, <2>4 DEF ValidationInv, AtStep, DeviceKnown, LinksCounted, PairingEnds
      <3>5. ReadsSecured'
          BY <2>1, <2>4 DEF ValidationInv, AtStep, DeviceKnown, LinksCounted, PairingEnds,
             ReadsSecured
      <3>6. QED
          BY <3>1, <3>2, <3>3, <3>4, <3>5 DEF ValidationInv
    <2>5. QED
        BY <2>2, <2>3, <2>4
  <1>11. CASE Validation!HangUp
    <2>1. UNCHANGED <<validationPhase, fresh, validationStatus, validationOwned,
                      validationOurs, validationOther, validationKnown, validationPaired,
                      bonded, validationLink, pairing, Validation!tracing,
                      validationVerified, readable, reconnect_read>>
        BY <1>11 DEF Validation!HangUp
    <2>2. \/ /\ validationPc = "hangup"
             /\ validationPc' = "remove"
             /\ connected' \in BOOLEAN /\ (connected' => connected) /\ resolved' \in BOOLEAN
          \/ /\ validationPc = "hangup-connect"
             /\ validationPc' = "remove-connect"
             /\ connected' \in BOOLEAN /\ (connected' => connected) /\ resolved' \in BOOLEAN
        BY <1>11 DEF Validation!HangUp, ValidationInv, AtStep, DeviceKnown, LinksCounted,
           PairingEnds
    <2>3. CASE /\ validationPc = "hangup"
               /\ validationPc' = "remove"
               /\ connected' \in BOOLEAN /\ (connected' => connected) /\ resolved' \in BOOLEAN
      <3>1. AtStep'
          BY <2>1, <2>3 DEF ValidationInv, AtStep
      <3>2. DeviceKnown'
          BY <2>1, <2>3 DEF ValidationInv, AtStep, DeviceKnown, PairingEnds
      <3>3. LinksCounted'
          BY <2>1, <2>3 DEF ValidationInv, LinksCounted, DeviceKnown
      <3>4. PairingEnds'
          BY <2>1, <2>3 DEF ValidationInv, AtStep, DeviceKnown, LinksCounted, PairingEnds
      <3>5. ReadsSecured'
          BY <2>1, <2>3 DEF ValidationInv, AtStep, DeviceKnown, LinksCounted, PairingEnds,
             ReadsSecured
      <3>6. QED
          BY <3>1, <3>2, <3>3, <3>4, <3>5 DEF ValidationInv
    <2>4. CASE /\ validationPc = "hangup-connect"
               /\ validationPc' = "remove-connect"
               /\ connected' \in BOOLEAN /\ (connected' => connected) /\ resolved' \in BOOLEAN
      <3>1. AtStep'
          BY <2>1, <2>4 DEF ValidationInv, AtStep
      <3>2. DeviceKnown'
          BY <2>1, <2>4 DEF ValidationInv, AtStep, DeviceKnown, PairingEnds
      <3>3. LinksCounted'
          BY <2>1, <2>4 DEF ValidationInv, LinksCounted, DeviceKnown
      <3>4. PairingEnds'
          BY <2>1, <2>4 DEF ValidationInv, AtStep, DeviceKnown, LinksCounted, PairingEnds
      <3>5. ReadsSecured'
          BY <2>1, <2>4 DEF ValidationInv, AtStep, DeviceKnown, LinksCounted, PairingEnds,
             ReadsSecured
      <3>6. QED
          BY <3>1, <3>2, <3>3, <3>4, <3>5 DEF ValidationInv
    <2>5. QED
        BY <2>2, <2>3, <2>4
  <1>12. CASE Validation!RemoveFailed
    <2>1. UNCHANGED <<validationPhase, fresh, validationOwned, validationOurs,
                      validationOther, validationLink, Validation!tracing, readable,
                      reconnect_read>>
        BY <1>12 DEF Validation!RemoveFailed, Validation!Remove
    <2>2. \/ /\ validationPc = "remove"
             /\ validationPc' = "released"
             /\ validationVerified' \in BOOLEAN
             /\ validationKnown' = FALSE /\ validationPaired' = FALSE /\ bonded' = FALSE
             /\ connected' = FALSE /\ resolved' = FALSE /\ pairing' = FALSE
             /\ UNCHANGED validationStatus
          \/ /\ validationPc = "remove"
             /\ validationPc' = "released"
             /\ validationVerified' \in BOOLEAN /\ (validationVerified' => ~validationKnown)
             /\ UNCHANGED <<validationStatus, validationKnown, validationPaired, bonded,
                            connected, resolved, pairing>>
          \/ /\ validationPc = "remove-connect"
             /\ validationVerified' \in BOOLEAN
             /\ validationPc' = "done" /\ validationStatus' = "failed"
             /\ validationKnown' = FALSE /\ validationPaired' = FALSE /\ bonded' = FALSE
             /\ connected' = FALSE /\ resolved' = FALSE /\ pairing' = FALSE
          \/ /\ validationPc = "remove-connect"
             /\ validationVerified' \in BOOLEAN /\ (validationVerified' => ~validationKnown)
             /\ validationPc' = "done" /\ validationStatus' = "failed"
             /\ UNCHANGED <<validationKnown, validationPaired, bonded, connected, resolved,
                            pairing>>
        BY <1>12 DEF Validation!RemoveFailed, Validation!Remove, ValidationInv, AtStep,
           DeviceKnown, LinksCounted, PairingEnds
    <2>3. CASE /\ validationPc = "remove"
               /\ validationPc' = "released"
               /\ validationVerified' \in BOOLEAN
               /\ validationKnown' = FALSE /\ validationPaired' = FALSE /\ bonded' = FALSE
               /\ connected' = FALSE /\ resolved' = FALSE /\ pairing' = FALSE
               /\ UNCHANGED validationStatus
      <3>1. AtStep'
          BY <2>1, <2>3 DEF ValidationInv, AtStep
      <3>2. DeviceKnown'
          BY <2>1, <2>3 DEF ValidationInv, AtStep, DeviceKnown, PairingEnds
      <3>3. LinksCounted'
          BY <2>1, <2>3 DEF ValidationInv, LinksCounted, DeviceKnown
      <3>4. PairingEnds'
          BY <2>1, <2>3 DEF ValidationInv, AtStep, DeviceKnown, LinksCounted, PairingEnds
      <3>5. ReadsSecured'
          BY <2>1, <2>3 DEF ValidationInv, AtStep, DeviceKnown, LinksCounted, PairingEnds,
             ReadsSecured
      <3>6. QED
          BY <3>1, <3>2, <3>3, <3>4, <3>5 DEF ValidationInv
    <2>4. CASE /\ validationPc = "remove"
               /\ validationPc' = "released"
               /\ validationVerified' \in BOOLEAN /\ (validationVerified' => ~validationKnown)
               /\ UNCHANGED <<validationStatus, validationKnown, validationPaired, bonded,
                              connected, resolved, pairing>>
      <3>1. AtStep'
          BY <2>1, <2>4 DEF ValidationInv, AtStep
      <3>2. DeviceKnown'
          BY <2>1, <2>4 DEF ValidationInv, AtStep, DeviceKnown, PairingEnds
      <3>3. LinksCounted'
          BY <2>1, <2>4 DEF ValidationInv, LinksCounted, DeviceKnown
      <3>4. PairingEnds'
          BY <2>1, <2>4 DEF ValidationInv, AtStep, DeviceKnown, LinksCounted, PairingEnds
      <3>5. ReadsSecured'
          BY <2>1, <2>4 DEF ValidationInv, AtStep, DeviceKnown, LinksCounted, PairingEnds,
             ReadsSecured
      <3>6. QED
          BY <3>1, <3>2, <3>3, <3>4, <3>5 DEF ValidationInv
    <2>5. CASE /\ validationPc = "remove-connect"
               /\ validationVerified' \in BOOLEAN
               /\ validationPc' = "done" /\ validationStatus' = "failed"
               /\ validationKnown' = FALSE /\ validationPaired' = FALSE /\ bonded' = FALSE
               /\ connected' = FALSE /\ resolved' = FALSE /\ pairing' = FALSE
      <3>1. AtStep'
          BY <2>1, <2>5 DEF ValidationInv, AtStep
      <3>2. DeviceKnown'
          BY <2>1, <2>5 DEF ValidationInv, AtStep, DeviceKnown, PairingEnds
      <3>3. LinksCounted'
          BY <2>1, <2>5 DEF ValidationInv, LinksCounted, DeviceKnown
      <3>4. PairingEnds'
          BY <2>1, <2>5 DEF ValidationInv, AtStep, DeviceKnown, LinksCounted, PairingEnds
      <3>5. ReadsSecured'
          BY <2>1, <2>5 DEF ValidationInv, AtStep, DeviceKnown, LinksCounted, PairingEnds,
             ReadsSecured
      <3>6. QED
          BY <3>1, <3>2, <3>3, <3>4, <3>5 DEF ValidationInv
    <2>6. CASE /\ validationPc = "remove-connect"
               /\ validationVerified' \in BOOLEAN /\ (validationVerified' => ~validationKnown)
               /\ validationPc' = "done" /\ validationStatus' = "failed"
               /\ UNCHANGED <<validationKnown, validationPaired, bonded, connected, resolved,
                              pairing>>
      <3>1. AtStep'
          BY <2>1, <2>6 DEF ValidationInv, AtStep
      <3>2. DeviceKnown'
          BY <2>1, <2>6 DEF ValidationInv, AtStep, DeviceKnown, PairingEnds
      <3>3. LinksCounted'
          BY <2>1, <2>6 DEF ValidationInv, LinksCounted, DeviceKnown
      <3>4. PairingEnds'
          BY <2>1, <2>6 DEF ValidationInv, AtStep, DeviceKnown, LinksCounted, PairingEnds
      <3>5. ReadsSecured'
          BY <2>1, <2>6 DEF ValidationInv, AtStep, DeviceKnown, LinksCounted, PairingEnds,
             ReadsSecured
      <3>6. QED
          BY <3>1, <3>2, <3>3, <3>4, <3>5 DEF ValidationInv
    <2>7. QED
        BY <2>2, <2>3, <2>4, <2>5, <2>6
  <1>13. CASE Validation!Connect
    <2>1. UNCHANGED <<validationPhase, fresh, validationOwned,
                      validationOurs, validationOther, validationKnown, validationPaired,
                      bonded, pairing, Validation!tracing, validationVerified,
                      readable, reconnect_read>>
        BY <1>13 DEF Validation!Connect, Validation!Connected
    <2>2. /\ validationPc = "connect" /\ connected' \in BOOLEAN /\ resolved' \in BOOLEAN
          /\ validationLink' \in Nat /\ validationLink' >= validationLink
          /\ connected' => validationKnown /\ validationLink' > 0
      <3>1. /\ connected \in BOOLEAN /\ resolved \in BOOLEAN /\ validationLink \in Nat
            /\ connected => validationKnown /\ validationLink > 0
          BY DEF ValidationInv, DeviceKnown, LinksCounted
      <3>2. \/ /\ validationKnown /\ connected' = TRUE /\ resolved' = (connected /\ resolved)
               /\ validationLink' = IF connected THEN validationLink ELSE validationLink + 1
            \/ UNCHANGED <<connected, resolved, validationLink>>
          BY <1>13 DEF Validation!Connect, Validation!Connected
      <3>3. validationPc = "connect"
          BY <1>13 DEF Validation!Connect
      <3>4. CASE UNCHANGED <<connected, resolved, validationLink>>
          BY <3>1, <3>3, <3>4
      <3>5. CASE /\ validationKnown /\ connected' = TRUE /\ resolved' = (connected /\ resolved)
                 /\ validationLink' = IF connected THEN validationLink ELSE validationLink + 1
        <4>1. resolved' \in BOOLEAN
            BY <3>1, <3>5
        <4>2. QED
            BY <3>1, <3>3, <3>5, <4>1
      <3>6. QED
          BY <3>2, <3>4, <3>5
    <2>3. CASE \/ validationPc' = "resolve" /\ UNCHANGED validationStatus
               \/ validationPc' = "cancel-connect" /\ UNCHANGED validationStatus
               \/ validationPc' = "done" /\ validationStatus' = "failed"
      <3>1. AtStep'
          BY <2>1, <2>2, <2>3 DEF ValidationInv, AtStep
      <3>2. DeviceKnown'
          BY <2>1, <2>2, <2>3 DEF ValidationInv, AtStep, DeviceKnown, PairingEnds
      <3>3. LinksCounted'
          BY <2>1, <2>2, <2>3 DEF ValidationInv, LinksCounted, DeviceKnown
      <3>4. PairingEnds'
          BY <2>1, <2>2, <2>3 DEF ValidationInv, AtStep, DeviceKnown, LinksCounted, PairingEnds
      <3>5. ReadsSecured'
          BY <2>1, <2>2, <2>3 DEF ValidationInv, AtStep, DeviceKnown, LinksCounted, PairingEnds,
             ReadsSecured
      <3>6. QED
          BY <3>1, <3>2, <3>3, <3>4, <3>5 DEF ValidationInv
    <2>4. QED
        BY <1>13, <2>3 DEF Validation!Connect, Validation!Connected
  <1>14. CASE Validation!AwaitServices("resolve", "read")
      BY <1>14 DEF Validation!AwaitServices,
             ValidationInv, AtStep, DeviceKnown, LinksCounted, PairingEnds, ReadsSecured
  <1>15. CASE Validation!Read
      BY <1>15 DEF Validation!Read, Validation!Readable,
             ValidationInv, AtStep, DeviceKnown, LinksCounted, PairingEnds, ReadsSecured
  <1>16. CASE Validation!Disconnect
      BY <1>16 DEF Validation!Disconnect,
             ValidationInv, AtStep, DeviceKnown, LinksCounted, PairingEnds, ReadsSecured
  <1>17. CASE Validation!AwaitDisconnected
      BY <1>17 DEF Validation!AwaitDisconnected,
             ValidationInv, AtStep, DeviceKnown, LinksCounted, PairingEnds, ReadsSecured
  <1>18. CASE Validation!Reconnect
    <2>1. UNCHANGED <<validationPhase, fresh, validationOwned, validationOurs,
                      validationOther, validationKnown, validationPaired, bonded, pairing,
                      Validation!tracing, validationVerified, readable, reconnect_read>>
        BY <1>18 DEF Validation!Reconnect, Validation!Connected
    <2>2. /\ validationPc = "reconnect" /\ connected' \in BOOLEAN /\ resolved' \in BOOLEAN
          /\ validationLink' \in Nat /\ validationLink' >= validationLink
          /\ connected' => validationKnown /\ validationLink' > 0
      <3>1. /\ connected \in BOOLEAN /\ resolved \in BOOLEAN /\ validationLink \in Nat
            /\ connected => validationKnown /\ validationLink > 0
          BY DEF ValidationInv, DeviceKnown, LinksCounted
      <3>2. \/ /\ validationKnown /\ connected' = TRUE /\ resolved' = (connected /\ resolved)
               /\ validationLink' = IF connected THEN validationLink ELSE validationLink + 1
            \/ UNCHANGED <<connected, resolved, validationLink>>
          BY <1>18 DEF Validation!Reconnect, Validation!Connected
      <3>3. validationPc = "reconnect"
          BY <1>18 DEF Validation!Reconnect
      <3>4. CASE UNCHANGED <<connected, resolved, validationLink>>
          BY <3>1, <3>3, <3>4
      <3>5. CASE /\ validationKnown /\ connected' = TRUE /\ resolved' = (connected /\ resolved)
                 /\ validationLink' = IF connected THEN validationLink ELSE validationLink + 1
        <4>1. resolved' \in BOOLEAN
            BY <3>1, <3>5
        <4>2. QED
            BY <3>1, <3>3, <3>5, <4>1
      <3>6. QED
          BY <3>2, <3>4, <3>5
    <2>3. CASE /\ validationPc' = "re-resolve" /\ UNCHANGED validationStatus
               /\ validationLink' > readable
      <3>1. AtStep'
          BY <2>1, <2>2, <2>3 DEF ValidationInv, AtStep
      <3>2. DeviceKnown'
          BY <2>1, <2>2, <2>3 DEF ValidationInv, AtStep, DeviceKnown, PairingEnds
      <3>3. LinksCounted'
          BY <2>1, <2>2, <2>3 DEF ValidationInv, LinksCounted, DeviceKnown
      <3>4. PairingEnds'
          BY <2>1, <2>2, <2>3 DEF ValidationInv, AtStep, DeviceKnown, LinksCounted, PairingEnds
      <3>5. ReadsSecured'
          BY <2>1, <2>2, <2>3 DEF ValidationInv, AtStep, DeviceKnown, LinksCounted, PairingEnds,
             ReadsSecured
      <3>6. QED
          BY <3>1, <3>2, <3>3, <3>4, <3>5 DEF ValidationInv
    <2>4. CASE validationPc' = "done" /\ validationStatus' = "failed"
      <3>1. AtStep'
          BY <2>1, <2>2, <2>4 DEF ValidationInv, AtStep
      <3>2. DeviceKnown'
          BY <2>1, <2>2, <2>4 DEF ValidationInv, AtStep, DeviceKnown, PairingEnds
      <3>3. LinksCounted'
          BY <2>1, <2>2, <2>4 DEF ValidationInv, LinksCounted, DeviceKnown
      <3>4. PairingEnds'
          BY <2>1, <2>2, <2>4 DEF ValidationInv, AtStep, DeviceKnown, LinksCounted, PairingEnds
      <3>5. ReadsSecured'
          BY <2>1, <2>2, <2>4 DEF ValidationInv, AtStep, DeviceKnown, LinksCounted, PairingEnds,
             ReadsSecured
      <3>6. QED
          BY <3>1, <3>2, <3>3, <3>4, <3>5 DEF ValidationInv
    <2>5. validationLink' > readable \/ validationPc' = "done"
        BY <1>18 DEF Validation!Reconnect, Validation!Connected, ValidationInv, LinksCounted,
           ReadsSecured
    <2>6. QED
        BY <1>18, <2>3, <2>4, <2>5 DEF Validation!Reconnect, Validation!Connected
  <1>19. CASE Validation!AwaitServices("re-resolve", "re-read")
      BY <1>19 DEF Validation!AwaitServices,
             ValidationInv, AtStep, DeviceKnown, LinksCounted, PairingEnds, ReadsSecured
  <1>20. CASE Validation!ReadAgain
      BY <1>20 DEF Validation!ReadAgain, Validation!Readable,
             ValidationInv, AtStep, DeviceKnown, LinksCounted, PairingEnds, ReadsSecured
  <1>21. CASE Validation!Appear
      BY <1>21 DEF Validation!Appear,
             ValidationInv, AtStep, DeviceKnown, LinksCounted, PairingEnds, ReadsSecured
  <1>22. CASE Validation!Resolve
      BY <1>22 DEF Validation!Resolve,
             ValidationInv, AtStep, DeviceKnown, LinksCounted, PairingEnds, ReadsSecured
  <1>23. CASE Validation!PairLate
    <2>1. UNCHANGED <<validationPc, validationPhase, fresh, validationStatus,
                      validationOwned, validationOurs, validationOther, validationKnown,
                      connected, resolved, validationLink, Validation!tracing,
                      validationVerified, readable, reconnect_read>>
        BY <1>23 DEF Validation!PairLate
    <2>2. /\ pairing /\ pairing' = FALSE
          /\ validationPaired' = TRUE /\ bonded' \in BOOLEAN
        BY <1>23, BondingBoolean DEF Validation!PairLate, ValidationInv, AtStep, DeviceKnown,
           LinksCounted, PairingEnds
    <2>3. AtStep'
        BY <2>1, <2>2 DEF ValidationInv, AtStep
    <2>4. DeviceKnown'
        BY <2>1, <2>2 DEF ValidationInv, AtStep, DeviceKnown, PairingEnds
    <2>5. LinksCounted'
        BY <2>1, <2>2 DEF ValidationInv, LinksCounted, DeviceKnown
    <2>6. PairingEnds'
        BY <2>1, <2>2 DEF ValidationInv, AtStep, DeviceKnown, LinksCounted, PairingEnds
    <2>7. ReadsSecured'
        BY <2>1, <2>2 DEF ValidationInv, AtStep, DeviceKnown, LinksCounted, PairingEnds,
           ReadsSecured
    <2>8. QED
        BY <2>3, <2>4, <2>5, <2>6, <2>7 DEF ValidationInv
  <1>24. CASE Validation!PairElsewhere
    <2>1. UNCHANGED <<validationPc, validationPhase, fresh, validationStatus,
                      validationOwned, validationOurs, validationOther, validationKnown,
                      pairing, Validation!tracing, validationVerified, readable,
                      reconnect_read>>
        BY <1>24 DEF Validation!PairElsewhere
    <2>2. /\ validationPc = "pair"
          /\ validationKnown /\ connected' = TRUE /\ resolved' \in BOOLEAN
          /\ validationPaired' = TRUE /\ bonded' \in BOOLEAN
          /\ validationLink' = validationLink + 1
        BY <1>24, BondingBoolean DEF Validation!PairElsewhere, ValidationInv, AtStep,
           DeviceKnown, LinksCounted, PairingEnds
    <2>3. AtStep'
        BY <2>1, <2>2 DEF ValidationInv, AtStep
    <2>4. DeviceKnown'
        BY <2>1, <2>2 DEF ValidationInv, AtStep, DeviceKnown, PairingEnds
    <2>5. LinksCounted'
        BY <2>1, <2>2 DEF ValidationInv, LinksCounted, DeviceKnown
    <2>6. PairingEnds'
        BY <2>1, <2>2 DEF ValidationInv, AtStep, DeviceKnown, LinksCounted, PairingEnds
    <2>7. ReadsSecured'
        BY <2>1, <2>2 DEF ValidationInv, AtStep, DeviceKnown, LinksCounted, PairingEnds,
           ReadsSecured
    <2>8. QED
        BY <2>3, <2>4, <2>5, <2>6, <2>7 DEF ValidationInv
  <1>25. CASE Validation!LoseLink
    <2>1. UNCHANGED <<validationPc, validationPhase, fresh, validationStatus,
                      validationOwned, validationOurs, validationOther, validationKnown,
                      validationPaired, bonded, validationLink, pairing,
                      Validation!tracing, validationVerified, readable, reconnect_read>>
        BY <1>25 DEF Validation!LoseLink
    <2>2. /\ connected' = FALSE /\ resolved' = FALSE
        BY <1>25 DEF Validation!LoseLink, ValidationInv, AtStep, DeviceKnown, LinksCounted,
           PairingEnds
    <2>3. AtStep'
        BY <2>1, <2>2 DEF ValidationInv, AtStep
    <2>4. DeviceKnown'
        BY <2>1, <2>2 DEF ValidationInv, AtStep, DeviceKnown, PairingEnds
    <2>5. LinksCounted'
        BY <2>1, <2>2 DEF ValidationInv, LinksCounted, DeviceKnown
    <2>6. PairingEnds'
        BY <2>1, <2>2 DEF ValidationInv, AtStep, DeviceKnown, LinksCounted, PairingEnds
    <2>7. ReadsSecured'
        BY <2>1, <2>2 DEF ValidationInv, AtStep, DeviceKnown, LinksCounted, PairingEnds,
           ReadsSecured
    <2>8. QED
        BY <2>3, <2>4, <2>5, <2>6, <2>7 DEF ValidationInv
  <1>26. CASE Validation!Interrupt
    <2>1. UNCHANGED <<validationPhase, fresh, validationOwned,
                      validationOther, Validation!bluez, Validation!tracing,
                      validationVerified, readable, reconnect_read>>
        BY <1>26 DEF Validation!Interrupt
    <2>2. \/ /\ validationPc \in {"pair", "cancel", "hangup", "remove"}
             /\ validationPc' = "interrupted" /\ UNCHANGED validationStatus
          \/ /\ validationPc \in {"discover", "seek"} \/ validationPc \in
                  {"existing", "check", "bonded", "connect", "resolve", "read", "disconnect",
                   "disconnecting", "reconnect", "re-resolve", "re-read", "cancel-connect",
                   "hangup-connect", "remove-connect"}
             /\ validationPc' = "done" /\ validationStatus' = "failed"
        BY <1>26, ZenonT(60) DEF Validation!Interrupt
    <2>3. \/ /\ validationPc \in {"pair", "cancel", "hangup", "remove"}
             /\ validationPc' = "interrupted" /\ UNCHANGED validationStatus
          \/ /\ validationPc \notin Pairing
             /\ validationPc' = "done" /\ validationStatus' = "failed"
        BY <2>2
    <2>4. validationOurs' \in BOOLEAN /\ (validationOurs' => validationOurs)
      <3>1. validationOurs' = FALSE \/ validationOurs' = validationOurs
          BY <1>26, ZenonT(60) DEF Validation!Interrupt
      <3>2. validationOurs \in BOOLEAN
          BY DEF ValidationInv, DeviceKnown
      <3>3. CASE validationOurs' = FALSE
          BY <3>3
      <3>4. CASE validationOurs' = validationOurs
          BY <3>2, <3>4
      <3>5. QED
          BY <3>1, <3>3, <3>4
    <2>5. CASE /\ validationPc \in {"pair", "cancel", "hangup", "remove"}
               /\ validationPc' = "interrupted" /\ UNCHANGED validationStatus
      <3>1. AtStep'
          BY <2>1, <2>4, <2>5 DEF ValidationInv, AtStep
      <3>2. DeviceKnown'
          BY <2>1, <2>4, <2>5 DEF ValidationInv, AtStep, DeviceKnown, PairingEnds
      <3>3. LinksCounted'
          BY <2>1, <2>4, <2>5 DEF ValidationInv, LinksCounted, DeviceKnown
      <3>4. PairingEnds'
          BY <2>1, <2>4, <2>5 DEF ValidationInv, AtStep, DeviceKnown, LinksCounted, PairingEnds
      <3>5. ReadsSecured'
          BY <2>1, <2>4, <2>5 DEF ValidationInv, AtStep, DeviceKnown, LinksCounted, PairingEnds,
             ReadsSecured
      <3>6. QED
          BY <3>1, <3>2, <3>3, <3>4, <3>5 DEF ValidationInv
    <2>6. CASE /\ validationPc \notin Pairing
               /\ validationPc' = "done" /\ validationStatus' = "failed"
      <3>1. AtStep'
          BY <2>1, <2>4, <2>6 DEF ValidationInv, AtStep
      <3>2. DeviceKnown'
          BY <2>1, <2>4, <2>6 DEF ValidationInv, AtStep, DeviceKnown, PairingEnds
      <3>3. LinksCounted'
          BY <2>1, <2>4, <2>6 DEF ValidationInv, LinksCounted, DeviceKnown
      <3>4. PairingEnds'
          BY <2>1, <2>4, <2>6 DEF ValidationInv, AtStep, DeviceKnown, LinksCounted, PairingEnds
      <3>5. ReadsSecured'
          BY <2>1, <2>4, <2>6 DEF ValidationInv, AtStep, DeviceKnown, LinksCounted, PairingEnds,
             ReadsSecured
      <3>6. QED
          BY <3>1, <3>2, <3>3, <3>4, <3>5 DEF ValidationInv
    <2>7. QED
        BY <2>3, <2>5, <2>6
  <1>27. QED
      BY <1>1, <1>2, <1>3, <1>4, <1>5, <1>6, <1>7, <1>8, <1>9, <1>10, <1>11, <1>12, <1>13,
         <1>14, <1>15, <1>16, <1>17, <1>18, <1>19, <1>20, <1>21, <1>22, <1>23, <1>24,
         <1>25, <1>26
            DEF Validation!Next, Validation!Host

-----------------------------------------------------------------------------
\* It holds when a command begins, whatever BlueZ already knows of the target (main).
LEMMA CommandStart == Init => CommandInv
  <1>1. ASSUME Dual!Init PROVE DualInv
    <2>1. round = 1 /\ 1..(round - 1) = {}
        BY <1>1 DEF Dual!Init
    <2>2. round \in 1..Rounds /\ dualHeard = 1..(round - 1) /\ proven = 1..(round - 1)
        BY <1>1, <2>1, RoundsPositive DEF Dual!Init
    <2>3. QED
        BY <1>1, <2>2 DEF Dual!Init, DualInv
  <1>2. ASSUME Validation!Init PROVE ValidationInv
    <2>1. AtStep
        BY <1>2 DEF Validation!Init, AtStep, Validation!Phases
    <2>2. DeviceKnown
      <3>1. validationPaired \in BOOLEAN /\ (validationPaired => validationKnown)
          BY <1>2 DEF Validation!Init
      <3>2. validationOwned \in BOOLEAN /\ bonded \in BOOLEAN
          BY <1>2, <3>1 DEF Validation!Init
      <3>3. validationOther \in BOOLEAN /\ validationKnown \in BOOLEAN
          BY <1>2 DEF Validation!Init
      <3>4. ~validationOurs /\ ~connected /\ ~pairing /\ validationOurs \in BOOLEAN
          BY <1>2 DEF Validation!Init
      <3>5. QED
          BY <3>1, <3>2, <3>3, <3>4 DEF DeviceKnown
    <2>3. LinksCounted
      <3>1. connected \in BOOLEAN /\ resolved \in BOOLEAN /\ ~connected
          BY <1>2 DEF Validation!Init
      <3>2. validationLink = 0 /\ readable = 0 /\ reconnect_read = 0
          BY <1>2 DEF Validation!Init
      <3>3. QED
          BY <3>1, <3>2 DEF LinksCounted
    <2>4. PairingEnds
        BY <1>2 DEF Validation!Init, PairingEnds
    <2>5. ReadsSecured
        BY <1>2 DEF Validation!Init, ReadsSecured, Reading, ReadOnce
    <2>6. QED
        BY <2>1, <2>2, <2>3, <2>4, <2>5 DEF ValidationInv
  <1>3. ASSUME Scan!Init PROVE ScanInv
      BY <1>3, CommandsAssumption DEF Scan!Init, ScanInv, Scan!ConstantsOk
  <1>4. QED
      BY <1>1, <1>2, <1>3, OracleStart DEF Init, CommandInv

\* Every step of the process keeps it: it runs one command, and leaves the state of the
\* others alone.
LEMMA CommandStep == CommandInv /\ [Next]_vars => CommandInv'
  <1> SUFFICES ASSUME CommandInv, [Next]_vars PROVE CommandInv'
      OBVIOUS
  <1>1. CASE OracleRuns(Oracle!Next)
    <2>1. command = "m6-sdc-oracle" /\ UNCHANGED command /\ Oracle!Next
        BY <1>1 DEF OracleRuns
    <2>2. OracleInv'
        BY <2>1, OracleStep DEF CommandInv
    <2>3. QED
        BY <2>1, <2>2 DEF CommandInv
  <1>2. CASE DualRuns(Dual!Next)
    <2>1. command = "radio-dual" /\ UNCHANGED command /\ Dual!Next
        BY <1>2 DEF DualRuns
    <2>2. DualInv'
        BY <2>1, DualStep DEF CommandInv
    <2>3. QED
        BY <2>1, <2>2 DEF CommandInv
  <1>3. CASE ValidationRuns(Validation!Next)
    <2>1. command = "m6-ble-gate" /\ UNCHANGED command /\ Validation!Next
        BY <1>3 DEF ValidationRuns
    <2>2. ValidationInv'
        BY <2>1, ValidationStep DEF CommandInv
    <2>3. QED
        BY <2>1, <2>2 DEF CommandInv
  <1>4. CASE ScanRuns(Scan!Next)
    <2>1. command = "m6-ble-scan" /\ UNCHANGED command /\ Scan!Next
        BY <1>4 DEF ScanRuns
    <2>2. ScanInv'
        BY <2>1, ScanStep DEF CommandInv
    <2>3. QED
        BY <2>1, <2>2 DEF CommandInv
  <1>5. CASE UNCHANGED vars
    <2>1. DualInv => DualInv'
        BY <1>5 DEF vars, dualVars, DualInv
    <2>2. ScanInv => ScanInv'
        BY <1>5 DEF vars, scanVars, ScanInv
    <2>3. UNCHANGED validationVars
        BY <1>5 DEF vars
    <2>4. (AtStep => AtStep') /\ (DeviceKnown => DeviceKnown')
        BY <2>3 DEF validationVars, AtStep, DeviceKnown
    <2>5. (LinksCounted => LinksCounted') /\ (PairingEnds => PairingEnds')
        BY <2>3 DEF validationVars, LinksCounted, PairingEnds
    <2>6. ReadsSecured => ReadsSecured'
        BY <2>3 DEF validationVars, ReadsSecured
    <2>7. UNCHANGED command
        BY <1>5 DEF vars
    <2>8. OracleInv => OracleInv'
        BY <1>5, OracleStutter DEF vars
    <2>9. QED
        BY <2>1, <2>2, <2>4, <2>5, <2>6, <2>7, <2>8 DEF CommandInv, ValidationInv
  <1>6. QED
      BY <1>1, <1>2, <1>3, <1>4, <1>5 DEF Next

\* Every reachable state of a command satisfies its invariant, for any number of rounds
\* and any bound on dropped links and switched radios.
THEOREM CommandsCorrect == Spec => []CommandInv
  BY CommandStart, CommandStep, PTL DEF Spec

\* A successful oracle leaves a controller without advertising, scanning, calling or a
\* link, after two links; a failed one leaves neither advertising nor scanning
\* (command_m6_sdc_oracle).
THEOREM OracleAlwaysQuiet == Spec => []OracleLeavesQuiet
  <1>1. CommandInv => OracleLeavesQuiet
      BY OracleHolds DEF CommandInv, OracleLeavesQuiet
  <1>2. QED
      BY <1>1, CommandsCorrect, PTL

\* No late answer is taken for that of a later command, whatever is read at once and
\* whatever was given up (HciSession.command).
THEOREM AnswersAlwaysMine == Spec => []OracleAnswerIsMine
  <1>1. CommandInv => OracleAnswerIsMine
      BY OracleHolds DEF CommandInv, OracleAnswerIsMine
  <1>2. QED
      BY <1>1, CommandsCorrect, PTL

\* A burst is never sent to nobody, success means that every round was heard and proven,
\* and no child and no marker outlives the gate (command_radio_dual).
THEOREM RoundsAlwaysLinked == Spec => []RoundsLinked
  <1>1. ASSUME DualInv PROVE Dual!BurstAwaited /\ Dual!OkMeansLinked /\ Dual!NothingLeft
      BY <1>1 DEF DualInv, Dual!BurstAwaited, Dual!OkMeansLinked, Dual!NothingLeft, Dual!Alive
  <1>2. CommandInv => RoundsLinked
      BY <1>1 DEF CommandInv, RoundsLinked
  <1>3. QED
      BY <1>2, CommandsCorrect, PTL

\* A BLE gate reported ok read the protected value, and again on a second link that the
\* stored keys secure; a cleanup that is called verified left nothing. However it ends, an
\* agent that it registered before the pairing was asked for its removal, a trace noted as
\* taken and cleaned does not run, and a successful run leaves no discovery of its own
\* (run_ble_validation, optional_hci_capture).
THEOREM BondAlwaysProved == Spec => []BondProved
  <1>1. ASSUME ValidationInv PROVE Validation!ReconnectProved
      BY <1>1 DEF ValidationInv, AtStep, LinksCounted, ReadsSecured,
             Validation!ReconnectProved, Validation!requires_pairing,
             Validation!requires_reconnect
  <1>2. ASSUME ValidationInv PROVE Validation!FailedPairingLeavesNothing
      BY <1>2 DEF ValidationInv, PairingEnds, Validation!FailedPairingLeavesNothing
  <1>3. ASSUME ValidationInv PROVE Validation!HostReleased
      BY <1>3 DEF ValidationInv, DeviceKnown, PairingEnds, Pairing, Validation!HostReleased
  <1>4. CommandInv => BondProved
      BY <1>1, <1>2, <1>3 DEF CommandInv, BondProved
  <1>5. QED
      BY <1>4, CommandsCorrect, PTL

\* A scan reported ok heard the target while it ran and has released its discovery
\* (scan_ble_advertisement).
THEOREM ScanAlwaysFresh == Spec => []ScanFresh
  <1>1. CommandInv => ScanFresh
      BY DEF CommandInv, ScanInv, ScanFresh, Scan!FreshEvidence, Scan!DiscoveryReleased
  <1>2. QED
      BY <1>1, CommandsCorrect, PTL

-----------------------------------------------------------------------------
(***************************************************************************)
(* How far a command is from its report.                                   *)
(***************************************************************************)
\* What an oracle has left to do: the steps of its script, each sent and then awaited,
\* or those of its finally clause.
OracleLeft ==
    CASE oraclePhase = "done"    -> 0
      [] oraclePhase = "closing" -> 1
      [] oraclePhase = "finally" -> 2
      [] oraclePhase = "await"   -> 3 + 2 * (19 - n)
      [] oraclePhase = "send"    -> 4 + 2 * (19 - n)

\* What a two-board gate has left: five steps of every round and the finally clause.
DualLeft ==
    LET rounds == 5 * (Rounds - round) IN
    CASE dualPc = "done"        -> 0
      [] dualPc = "finally"     -> 1
      [] dualPc = "evidence"    -> 2 + rounds
      [] dualPc = "join"        -> 3 + rounds
      [] dualPc = "transmitter" -> 4 + rounds
      [] dualPc = "ready"       -> 5 + rounds
      [] dualPc = "receiver"    -> 6 + rounds

\* What a BLE gate has left on its longest way to the report; the way of a failed
\* pairing or connection is shorter.
ValidationLeft ==
    CASE validationPc = "done" -> 0
      [] validationPc \in {"released", "interrupted", "remove-connect", "re-read"} -> 1
      [] validationPc \in {"remove", "hangup-connect", "re-resolve"} -> 2
      [] validationPc \in {"hangup", "cancel-connect", "reconnect"} -> 3
      [] validationPc \in {"cancel", "disconnecting"} -> 4
      [] validationPc = "disconnect" -> 5
      [] validationPc = "read" -> 6
      [] validationPc = "resolve" -> 7
      [] validationPc = "connect" -> 8
      [] validationPc = "bonded" -> 9
      [] validationPc = "release" -> 10
      [] validationPc = "pair" -> 11
      [] validationPc = "agent" -> 12
      [] validationPc = "check" -> 13
      [] validationPc \in {"found", "lost"} -> 14
      [] validationPc = "seek" -> 15
      [] validationPc = "discover" -> 16
      [] validationPc = "existing" -> 17

\* What a scan has left.
ScanLeft ==
    CASE scanPc = "done"     -> 0
      [] scanPc = "return"   -> 1
      [] scanPc = "verify"   -> 2
      [] scanPc = "gone"     -> 3
      [] scanPc = "remove"   -> 4
      [] scanPc = "find"     -> 5
      [] scanPc = "stop"     -> 6
      [] scanPc = "await"    -> 7
      [] scanPc = "begin"    -> 8
      [] scanPc = "removing" -> 9
      [] scanPc = "existing" -> 10
      [] scanPc = "snapshot" -> 11

Left == CASE command = "m6-sdc-oracle" -> OracleLeft
          [] command = "radio-dual"    -> DualLeft
          [] command = "m6-ble-gate"   -> ValidationLeft
          [] command = "m6-ble-scan"   -> ScanLeft

Bit(b) == IF b THEN 1 ELSE 0

\* What may still happen around a command that does not move: to its children, to the
\* link and the pairing of the target, and to the object that BlueZ keeps.
ChildLeft(c) == CASE c = "starting" -> 2
                  [] c \in {"listening", "sending"} -> 1
                  [] OTHER -> 0

TargetLeft ==
    3 * (TargetDrops - validationDrops) + Bit(~validationKnown) + 3 * Bit(~validationPaired)
      + Bit(connected) + Bit(connected /\ ~resolved) + Bit(pairing)

ObjectLeft ==
    3 * (MaxSwitches - switches)
      + Bit(IF Scan!Discovering THEN ~(scanKnown /\ rssi /\ scanHeard) ELSE rssi)

Around == CASE command = "radio-dual"  -> ChildLeft(receiver) + ChildLeft(transmitter)
            [] command = "m6-ble-gate" -> TargetLeft
            [] command = "m6-ble-scan" -> ObjectLeft
            [] OTHER -> 0

\* The steps that Spec demands to be taken.
Due ==
    \/ OracleRuns(Oracle!Raise) \/ OracleRuns(Oracle!RaiseClosing)
    \/ DualRuns(Dual!Gate)
    \/ ValidationRuns(Validation!Host)
    \/ ScanRuns(Scan!Host)

\* No step takes a command back and a due one takes it on; where it stays, something
\* around it is used up, except the reports and the data that the oracle's peers send.
Advances ==
    /\ Left' <= Left
    /\ Due => Left' < Left
    /\ command # "m6-sdc-oracle" => Left' < Left \/ Around' < Around

\* The bounds that the model counts up to.
BoundsHold ==
    /\ command \in {"m6-sdc-oracle", "radio-dual", "m6-ble-gate", "m6-ble-scan"}
    /\ command = "m6-ble-gate" => validationDrops \in 0..TargetDrops
    /\ command = "m6-ble-scan" => switches \in 0..MaxSwitches

ProgressInv == CommandInv /\ BoundsHold

\* It holds when a command begins, and every command keeps the bound of its model.
LEMMA ProgressInvHolds == Spec => []ProgressInv
  <1>1. TargetDrops \in Nat /\ MaxSwitches \in Nat
      BY CommandsAssumption DEF Validation!ConstantsOk, Scan!ConstantsOk
  <1>2. Init => BoundsHold
    <2>1. Validation!Init => validationDrops = 0
        BY DEF Validation!Init
    <2>2. Scan!Init => switches = 0
        BY DEF Scan!Init
    <2>3. QED
        BY <1>1, <2>1, <2>2 DEF Init, BoundsHold
  <1>3. BoundsHold /\ [Next]_vars => BoundsHold'
    <2> SUFFICES ASSUME BoundsHold, [Next]_vars PROVE BoundsHold'
        OBVIOUS
    <2>1. CASE ValidationRuns(Validation!Next)
      <3>1. command = "m6-ble-gate" /\ UNCHANGED command /\ Validation!Next
          BY <2>1 DEF ValidationRuns
      <3>2. CASE Validation!Host
        <4>1. validationDrops' = validationDrops
            BY <3>2 DEF Validation!Host, Validation!RemoveExisting, Validation!StartDiscovery,
               Validation!AwaitTarget, Validation!StopDiscovery, Validation!CheckPaired,
               Validation!Prepare, Validation!Pair, Validation!Release, Validation!AwaitBond,
               Validation!Cancel, Validation!HangUp, Validation!RemoveFailed,
               Validation!Connect, Validation!AwaitServices, Validation!Read,
               Validation!Disconnect, Validation!AwaitDisconnected, Validation!Reconnect,
               Validation!ReadAgain
        <4>2. QED
            BY <3>1, <4>1 DEF BoundsHold
      <3>3. CASE \/ Validation!Interrupt
                 \/ Validation!Appear \/ Validation!Resolve \/ Validation!PairLate
                 \/ Validation!PairElsewhere \/ Validation!LoseLink
        <4>1. \/ validationDrops' = validationDrops
              \/ validationDrops < TargetDrops /\ validationDrops' = validationDrops + 1
            BY <3>3 DEF Validation!Interrupt, Validation!Appear, Validation!Resolve,
               Validation!PairLate,
               Validation!PairElsewhere, Validation!LoseLink
        <4>2. QED
            BY <1>1, <3>1, <4>1 DEF BoundsHold
      <3>4. QED
          BY <3>1, <3>2, <3>3 DEF Validation!Next
    <2>2. CASE ScanRuns(Scan!Next)
      <3>1. command = "m6-ble-scan" /\ UNCHANGED command /\ Scan!Next
          BY <2>2 DEF ScanRuns
      <3>2. CASE Scan!Host
        <4>1. switches' = switches
            BY <3>2 DEF Scan!Host, Scan!Snapshot, Scan!RemoveExisting, Scan!AwaitRemoval,
               Scan!StartDiscovery, Scan!Await, Scan!StopDiscovery, Scan!FindForRemoval,
               Scan!RemoveDevice, Scan!AwaitGone, Scan!Verify, Scan!Return, Scan!outside
        <4>2. QED
            BY <3>1, <4>1 DEF BoundsHold
      <3>3. CASE Scan!Hear \/ Scan!Forget \/ Scan!Switch
        <4>1. \/ switches' = switches
              \/ switches < MaxSwitches /\ switches' = switches + 1
            BY <3>3 DEF Scan!Hear, Scan!Forget, Scan!Switch, Scan!outside
        <4>2. QED
            BY <1>1, <3>1, <4>1 DEF BoundsHold
      <3>4. QED
          BY <3>1, <3>2, <3>3 DEF Scan!Next
    <2>3. CASE OracleRuns(Oracle!Next) \/ DualRuns(Dual!Next)
        BY <2>3 DEF OracleRuns, DualRuns, BoundsHold
    <2>4. CASE UNCHANGED vars
        BY <2>4 DEF vars, validationVars, scanVars, BoundsHold
    <2>5. QED
        BY <2>1, <2>2, <2>3, <2>4 DEF Next
  <1>4. QED
      BY <1>2, <1>3, CommandsCorrect, PTL DEF Spec, ProgressInv

\* No step of the oracle, of its session or of the controller takes the script back, and
\* a deadline ends it or leads to its finally clause (command_m6_sdc_oracle).
LEMMA OracleMoves ==
  ASSUME OracleInv, Oracle!Next
  PROVE  /\ OracleLeft' <= OracleLeft
         /\ Oracle!Raise \/ Oracle!RaiseClosing => OracleLeft' < OracleLeft
  <1>1. n \in 1..19 /\ oraclePhase \in {"send", "await", "finally", "closing", "done"}
      BY DEF OracleInv, OraclePlace
  <1> USE <1>1 DEF OracleLeft
  <1>2. CASE Oracle!Send \/ Oracle!BeginWait
    <2>1. oraclePhase = "send" /\ oraclePhase' = "await" /\ n' = n
        BY <1>2 DEF Oracle!Send, Oracle!BeginWait
    <2>2. ~Oracle!Raise /\ ~Oracle!RaiseClosing
        BY <2>1 DEF Oracle!Raise, Oracle!Failing, Oracle!RaiseClosing
    <2>3. QED
        BY <2>1, <2>2
  <1>3. CASE Oracle!Take \/ Oracle!Observe
    <2>1. \/ UNCHANGED <<n, oraclePhase>>
          \/ n' = n /\ oraclePhase' = "done"
          \/ n' = n + 1 /\ n < 19 /\ oraclePhase' = "send"
      <3>1. Oracle!Advance \/ UNCHANGED <<n, oraclePhase>>
          BY <1>3 DEF Oracle!Take, Oracle!Observe
      <3>2. QED
          BY <3>1, ScriptIs DEF Oracle!Advance
    <2>2. oraclePhase = "await"
        BY <1>3 DEF Oracle!Take, Oracle!Observe
    <2>3. Oracle!Raise => n' = n /\ oraclePhase' \in {"done", "finally"}
        BY DEF Oracle!Raise, Oracle!Failing
    <2>4. ~Oracle!RaiseClosing
        BY <2>2 DEF Oracle!RaiseClosing
    <2>5. QED
        BY <2>1, <2>2, <2>3, <2>4
  <1>4. CASE Oracle!Raise \/ Oracle!RaiseClosing
      BY <1>4 DEF Oracle!Raise, Oracle!Failing, Oracle!RaiseClosing
  <1>5. CASE Oracle!SendClosing \/ Oracle!TakeClosing
      BY <1>5 DEF Oracle!SendClosing, Oracle!TakeClosing, Oracle!Raise, Oracle!RaiseClosing
  <1>6. CASE \/ \E k \in 1..MaxChunk : Oracle!Read(k)
             \/ Oracle!Execute \/ Oracle!Connect \/ Oracle!PeerSends \/ Oracle!EndLink
             \/ Oracle!Report
    <2>1. UNCHANGED <<n, oraclePhase>>
        BY <1>6 DEF Oracle!Read, Oracle!Execute, Oracle!Connect, Oracle!PeerSends,
           Oracle!EndLink, Oracle!Report, Oracle!host
    <2>2. Oracle!Raise \/ Oracle!RaiseClosing => OracleLeft' < OracleLeft
        BY <1>4
    <2>3. QED
        BY <2>1, <2>2
  <1>7. QED
      BY <1>2, <1>3, <1>4, <1>5, <1>6 DEF Oracle!Next, Oracle!Runs, Oracle!Closes

\* Every step of a two-board gate brings it nearer to its report, and every step of its
\* children leaves them less to do (command_radio_dual).
LEMMA DualMoves ==
  ASSUME DualInv, Dual!Next
  PROVE  /\ Dual!Gate => DualLeft' < DualLeft
         /\ ~Dual!Gate => /\ DualLeft' = DualLeft
                          /\ ChildLeft(receiver)' + ChildLeft(transmitter)'
                               < ChildLeft(receiver) + ChildLeft(transmitter)
  <1>1. /\ round \in 1..Rounds /\ Rounds \in Nat
        /\ dualPc \in {"receiver", "ready", "transmitter", "join", "evidence", "finally", "done"}
        /\ receiver \in {"none", "starting", "listening", "passed", "failed"}
        /\ transmitter \in {"none", "starting", "sending", "passed", "failed"}
      BY RoundsPositive DEF DualInv
  <1>2. ASSUME Dual!Gate PROVE DualLeft' < DualLeft
    <2> USE <1>1 DEF DualLeft
    <2>1. CASE Dual!SpawnReceiver
        BY <2>1 DEF Dual!SpawnReceiver
    <2>2. CASE Dual!AwaitReady
        BY <2>2 DEF Dual!AwaitReady
    <2>3. CASE Dual!TransmitterOk
        BY <2>3 DEF Dual!TransmitterOk
    <2>4. CASE Dual!JoinReceiver
        BY <2>4 DEF Dual!JoinReceiver
    <2>5. CASE Dual!Evidence
        BY <2>5 DEF Dual!Evidence
    <2>6. CASE Dual!Raise
        BY <2>6 DEF Dual!Raise
    <2>7. CASE Dual!Finally
        BY <2>7 DEF Dual!Finally
    <2>8. QED
        BY <1>2, <2>1, <2>2, <2>3, <2>4, <2>5, <2>6, <2>7 DEF Dual!Gate
  <1>3. ASSUME \/ Dual!ReceiverReady \/ Dual!TransmitterBoots \/ Dual!Received
               \/ Dual!TransmitterPasses \/ Dual!ReceiverFails \/ Dual!TransmitterFails
        PROVE  /\ DualLeft' = DualLeft
               /\ ChildLeft(receiver)' + ChildLeft(transmitter)'
                    < ChildLeft(receiver) + ChildLeft(transmitter)
    <2>1. UNCHANGED <<dualPc, round>>
        BY <1>3 DEF Dual!ReceiverReady, Dual!TransmitterBoots, Dual!Received,
           Dual!TransmitterPasses, Dual!ReceiverFails, Dual!TransmitterFails
    <2>2. DualLeft' = DualLeft
        BY <2>1 DEF DualLeft
    <2>3. \/ /\ receiver = "starting" /\ receiver' \in {"listening", "failed"}
             /\ transmitter' = transmitter
          \/ /\ receiver = "listening" /\ receiver' \in {"passed", "failed"}
             /\ transmitter' = transmitter
          \/ /\ transmitter = "starting" /\ transmitter' \in {"sending", "failed"}
             /\ receiver' = receiver
          \/ /\ transmitter = "sending" /\ transmitter' \in {"passed", "failed"}
             /\ receiver' = receiver
        BY <1>3 DEF Dual!ReceiverReady, Dual!TransmitterBoots, Dual!Received,
           Dual!TransmitterPasses, Dual!ReceiverFails, Dual!TransmitterFails, Dual!Alive
    <2>4. QED
        BY <1>1, <2>2, <2>3 DEF ChildLeft
  <1>4. QED
      BY <1>2, <1>3 DEF Dual!Next

\* Every step of a BLE gate brings it nearer to its report, and what BlueZ, the target and
\* other clients do in between is used up (run_ble_validation).
LEMMA ValidationMoves ==
  ASSUME ValidationInv, validationDrops \in 0..TargetDrops, TargetDrops \in Nat, Validation!Next
  PROVE  /\ Validation!Host => ValidationLeft' < ValidationLeft
         /\ Validation!Interrupt => ValidationLeft' < ValidationLeft
         /\ ~(Validation!Host \/ Validation!Interrupt) =>
                ValidationLeft' = ValidationLeft /\ TargetLeft' < TargetLeft
  <1>1. ASSUME Validation!Host PROVE ValidationLeft' < ValidationLeft
    <2> USE DEF ValidationLeft, Validation!Goto, Validation!Fail
    <2>1. CASE Validation!RemoveExisting
        BY <2>1 DEF Validation!RemoveExisting
    <2>2. CASE Validation!StartDiscovery
      <3>1. validationPc = "discover" /\ validationPc' \in {"lost", "seek"}
          BY <2>2 DEF Validation!StartDiscovery
      <3>2. QED
          BY <3>1
    <2>3. CASE Validation!AwaitTarget
        BY <2>3 DEF Validation!AwaitTarget
    <2>4. CASE Validation!StopDiscovery
        BY <2>4 DEF Validation!StopDiscovery
    <2>5. CASE Validation!CheckPaired
        BY <2>5 DEF Validation!CheckPaired
    <2>6. CASE Validation!Prepare
        BY <2>6 DEF Validation!Prepare
    <2>7. CASE Validation!Pair
      <3>1. validationPc = "pair" /\ validationPc' \in {"release", "cancel"}
          BY <2>7 DEF Validation!Pair
      <3>2. QED
          BY <3>1
    <2>8. CASE Validation!Release
        BY <2>8 DEF Validation!Release
    <2>9. CASE Validation!AwaitBond
        BY <2>9 DEF Validation!AwaitBond
    <2>10. CASE Validation!Cancel
        BY <2>10 DEF Validation!Cancel
    <2>11. CASE Validation!HangUp
        BY <2>11 DEF Validation!HangUp
    <2>12. CASE Validation!RemoveFailed
        BY <2>12 DEF Validation!RemoveFailed
    <2>13. CASE Validation!Connect
        BY <2>13 DEF Validation!Connect, Validation!Connected
    <2>14. CASE Validation!AwaitServices("resolve", "read")
        BY <2>14 DEF Validation!AwaitServices
    <2>15. CASE Validation!Read
        BY <2>15 DEF Validation!Read
    <2>16. CASE Validation!Disconnect
        BY <2>16 DEF Validation!Disconnect
    <2>17. CASE Validation!AwaitDisconnected
        BY <2>17 DEF Validation!AwaitDisconnected
    <2>18. CASE Validation!Reconnect
        BY <2>18 DEF Validation!Reconnect, Validation!Connected
    <2>19. CASE Validation!AwaitServices("re-resolve", "re-read")
        BY <2>19 DEF Validation!AwaitServices
    <2>20. CASE Validation!ReadAgain
        BY <2>20 DEF Validation!ReadAgain
    <2>21. QED
        BY <1>1, <2>1, <2>2, <2>3, <2>4, <2>5, <2>6, <2>7, <2>8, <2>9, <2>10, <2>11, <2>12,
           <2>13, <2>14, <2>15, <2>16, <2>17, <2>18, <2>19, <2>20 DEF Validation!Host
  <1>2. ASSUME \/ Validation!Appear \/ Validation!Resolve \/ Validation!PairLate
               \/ Validation!PairElsewhere \/ Validation!LoseLink
        PROVE  ValidationLeft' = ValidationLeft /\ TargetLeft' < TargetLeft
    <2>1. UNCHANGED validationPc
        BY <1>2 DEF Validation!Appear, Validation!Resolve, Validation!PairLate,
           Validation!PairElsewhere, Validation!LoseLink
    <2>2. ValidationLeft' = ValidationLeft
        BY <2>1 DEF ValidationLeft
    <2>3. /\ validationKnown \in BOOLEAN /\ validationPaired \in BOOLEAN
          /\ connected \in BOOLEAN /\ resolved \in BOOLEAN /\ pairing \in BOOLEAN
        BY DEF ValidationInv, DeviceKnown, LinksCounted, PairingEnds
    <2>4. CASE Validation!Appear
        BY <2>2, <2>3, <2>4 DEF Validation!Appear, TargetLeft, Bit
    <2>5. CASE Validation!Resolve
        BY <2>2, <2>3, <2>5 DEF Validation!Resolve, TargetLeft, Bit
    <2>6. CASE Validation!PairLate
        BY <2>2, <2>3, <2>6 DEF Validation!PairLate, TargetLeft, Bit
    <2>7. CASE Validation!PairElsewhere
        BY <2>2, <2>3, <2>7 DEF Validation!PairElsewhere, TargetLeft, Bit
    <2>8. CASE Validation!LoseLink
        BY <2>2, <2>3, <2>8 DEF Validation!LoseLink, TargetLeft, Bit
    <2>9. QED
        BY <1>2, <2>4, <2>5, <2>6, <2>7, <2>8
  <1>3. ASSUME Validation!Interrupt PROVE ValidationLeft' < ValidationLeft
    <2>1. \/ /\ validationPc \in {"pair", "cancel", "hangup", "remove"}
             /\ validationPc' = "interrupted"
          \/ /\ validationPc \in {"discover", "seek"} \/ validationPc \in
                  {"existing", "check", "bonded", "connect", "resolve", "read", "disconnect",
                   "disconnecting", "reconnect", "re-resolve", "re-read", "cancel-connect",
                   "hangup-connect", "remove-connect"}
             /\ validationPc' = "done"
        BY <1>3, ZenonT(60) DEF Validation!Interrupt, Validation!Goto, Validation!Fail
    <2>2. QED
        BY <2>1 DEF ValidationLeft
  <1>4. QED
      BY <1>1, <1>2, <1>3 DEF Validation!Next

\* Every step of a scan brings it nearer to its report; an advertisement that changes
\* nothing is none, and other clients switch less than before (scan_ble_advertisement).
LEMMA ScanMoves ==
  ASSUME ScanInv, switches \in 0..MaxSwitches, MaxSwitches \in Nat, Scan!Next
  PROVE  /\ Scan!Host => ScanLeft' < ScanLeft
         /\ ~Scan!Host => /\ ScanLeft' = ScanLeft
                          /\ ObjectLeft' < ObjectLeft \/ UNCHANGED scanVars
  <1>1. ASSUME Scan!Host PROVE ScanLeft' < ScanLeft
    <2> USE DEF ScanLeft, Scan!Goto, Scan!Abort
    <2>1. CASE Scan!Snapshot
        BY <2>1 DEF Scan!Snapshot
    <2>2. CASE Scan!RemoveExisting
        BY <2>2 DEF Scan!RemoveExisting
    <2>3. CASE Scan!AwaitRemoval
        BY <2>3 DEF Scan!AwaitRemoval
    <2>4. CASE Scan!StartDiscovery
        BY <2>4 DEF Scan!StartDiscovery
    <2>5. CASE Scan!Await
        BY <2>5 DEF Scan!Await
    <2>6. CASE Scan!StopDiscovery
        BY <2>6 DEF Scan!StopDiscovery
    <2>7. CASE Scan!FindForRemoval
        BY <2>7 DEF Scan!FindForRemoval
    <2>8. CASE Scan!RemoveDevice
        BY <2>8 DEF Scan!RemoveDevice
    <2>9. CASE Scan!AwaitGone
        BY <2>9 DEF Scan!AwaitGone
    <2>10. CASE Scan!Verify
        BY <2>10 DEF Scan!Verify
    <2>11. CASE Scan!Return
        BY <2>11 DEF Scan!Return
    <2>12. QED
        BY <1>1, <2>1, <2>2, <2>3, <2>4, <2>5, <2>6, <2>7, <2>8, <2>9, <2>10, <2>11 DEF Scan!Host
  <1>2. ASSUME Scan!Hear \/ Scan!Forget \/ Scan!Switch
        PROVE  ScanLeft' = ScanLeft /\ (ObjectLeft' < ObjectLeft \/ UNCHANGED scanVars)
    <2>1. UNCHANGED scanPc
        BY <1>2 DEF Scan!Hear, Scan!Forget, Scan!Switch
    <2>2. ScanLeft' = ScanLeft
        BY <2>1 DEF ScanLeft
    <2>3. scanKnown \in BOOLEAN /\ rssi \in BOOLEAN /\ scanHeard \in BOOLEAN
        BY DEF ScanInv
    <2>4. CASE Scan!Hear
      <3>1. Scan!Discovering /\ Scan!Discovering' /\ switches' = switches
          BY <2>4 DEF Scan!Hear, Scan!Discovering, Scan!outside
      <3>2. scanKnown' /\ rssi' /\ scanHeard'
          BY <2>4 DEF Scan!Hear
      <3>3. CASE scanKnown /\ rssi /\ scanHeard
        <4>1. UNCHANGED <<scanKnown, rssi, scanHeard>>
            BY <2>3, <2>4, <3>3 DEF Scan!Hear
        <4>2. UNCHANGED scanVars
            BY <2>4, <4>1 DEF Scan!Hear, Scan!outside, Scan!host, scanVars
        <4>3. QED
            BY <2>2, <4>2
      <3>4. CASE ~(scanKnown /\ rssi /\ scanHeard)
          BY <2>2, <3>1, <3>2, <3>4 DEF ObjectLeft, Bit
      <3>5. QED
          BY <3>3, <3>4
    <2>5. CASE Scan!Forget
      <3>1. ~Scan!Discovering /\ ~Scan!Discovering' /\ switches' = switches /\ rssi /\ ~rssi'
          BY <2>5 DEF Scan!Forget, Scan!Discovering, Scan!outside
      <3>2. QED
          BY <2>2, <3>1 DEF ObjectLeft, Bit
    <2>6. CASE Scan!Switch
      <3>1. switches < MaxSwitches /\ switches' = switches + 1
          BY <2>6 DEF Scan!Switch
      <3>2. QED
          BY <2>2, <3>1 DEF ObjectLeft, Bit
    <2>7. QED
        BY <1>2, <2>4, <2>5, <2>6
  <1>3. QED
      BY <1>1, <1>2 DEF Scan!Next

\* What is left is a number, and nothing is left exactly at the report.
LEMMA LeftCounts ==
  ASSUME ProgressInv
  PROVE  Left \in Nat /\ Around \in Nat /\ (Left = 0 <=> Ended)
  <1>1. /\ TargetDrops \in Nat /\ MaxSwitches \in Nat
      BY CommandsAssumption DEF Validation!ConstantsOk, Scan!ConstantsOk
  <1>2. CASE command = "m6-sdc-oracle"
    <2>1. n \in 1..19 /\ oraclePhase \in {"send", "await", "finally", "closing", "done"}
        BY <1>2 DEF ProgressInv, CommandInv, OracleInv, OraclePlace
    <2>2. OracleLeft \in Nat /\ (OracleLeft = 0 <=> oraclePhase = "done")
        BY <2>1 DEF OracleLeft
    <2>3. QED
        BY <1>2, <2>2 DEF Left, Around, Ended
  <1>3. CASE command = "radio-dual"
    <2>1. /\ round \in 1..Rounds /\ Rounds \in Nat
          /\ dualPc \in {"receiver", "ready", "transmitter", "join", "evidence", "finally",
                         "done"}
        BY <1>3, RoundsPositive DEF ProgressInv, CommandInv, DualInv
    <2>2. DualLeft \in Nat /\ (DualLeft = 0 <=> dualPc = "done")
        BY <2>1 DEF DualLeft
    <2>3. ChildLeft(receiver) + ChildLeft(transmitter) \in Nat
        BY DEF ChildLeft
    <2>4. QED
        BY <1>3, <2>2, <2>3 DEF Left, Around, Ended
  <1>4. CASE command = "m6-ble-gate"
    <2>1. ValidationInv /\ validationDrops \in 0..TargetDrops
        BY <1>4 DEF ProgressInv, CommandInv, BoundsHold
    <2>2. ValidationLeft \in Nat /\ (ValidationLeft = 0 <=> validationPc = "done")
      <3>1. validationPc \in {"existing", "discover", "seek", "found", "lost", "check", "agent",
               "bonded", "cancel-connect", "hangup-connect", "remove-connect", "done", "pair",
               "release", "cancel", "hangup", "remove", "released", "interrupted",
               "connect", "resolve", "read", "disconnect", "disconnecting", "reconnect",
               "re-resolve", "re-read"}
          BY <2>1 DEF ValidationInv, AtStep, Pairing, Reading, ReadOnce
      <3>2. ValidationLeft \in Nat
          BY <3>1, SMTT(60) DEF ValidationLeft
      <3>3. ValidationLeft = 0 <=> validationPc = "done"
          BY <3>1, SMTT(60) DEF ValidationLeft
      <3>4. QED
          BY <3>2, <3>3
    <2>3. TargetLeft \in Nat
        BY <1>1, <2>1 DEF TargetLeft, Bit
    <2>4. QED
        BY <1>4, <2>2, <2>3 DEF Left, Around, Ended
  <1>5. CASE command = "m6-ble-scan"
    <2>1. ScanInv /\ switches \in 0..MaxSwitches
        BY <1>5 DEF ProgressInv, CommandInv, BoundsHold
    <2>2. ScanLeft \in Nat /\ (ScanLeft = 0 <=> scanPc = "done")
      <3>1. scanPc \in {"snapshot", "existing", "removing", "begin", "await", "stop", "find",
                       "remove", "gone", "verify", "return", "done"}
          BY <2>1 DEF ScanInv
      <3>2. ScanLeft \in Nat
          BY <3>1, SMTT(60) DEF ScanLeft
      <3>3. ScanLeft = 0 <=> scanPc = "done"
          BY <3>1, SMTT(60) DEF ScanLeft
      <3>4. QED
          BY <3>2, <3>3
    <2>3. ObjectLeft \in Nat
        BY <1>1, <2>1 DEF ObjectLeft, Bit
    <2>4. QED
        BY <1>5, <2>2, <2>3 DEF Left, Around, Ended
  <1>6. QED
      BY <1>2, <1>3, <1>4, <1>5 DEF ProgressInv, BoundsHold

\* Every command has a number of steps left, and none exactly at its report. No step adds
\* to it, and each step that a deadline of the code forces takes from it. The two-board
\* gates, the BLE gate and the scan even take finitely many steps whatever the boards and
\* BlueZ do: while the command stays where it is, what happens around it runs out. This is
\* the part of CommandEnds that is about steps, for any number of rounds, lost links and
\* switches.
THEOREM CommandsAdvance ==
  Spec => /\ [](Left \in Nat /\ Around \in Nat /\ (Left = 0 <=> Ended))
          /\ [][Advances]_vars
  <1>1. /\ TargetDrops \in Nat /\ MaxSwitches \in Nat
      BY CommandsAssumption DEF Validation!ConstantsOk, Scan!ConstantsOk
  <1>2. ProgressInv => Left \in Nat /\ Around \in Nat /\ (Left = 0 <=> Ended)
      BY LeftCounts
  <1>3. ProgressInv /\ (Left \in Nat) /\ (Left \in Nat)' /\ [Next]_vars => [Advances]_vars
    <2> SUFFICES ASSUME ProgressInv, Left \in Nat, Left' \in Nat, Next, vars' # vars
                 PROVE  Advances
        OBVIOUS
    <2>1. CASE OracleRuns(Oracle!Next)
      <3>1. /\ command = "m6-sdc-oracle" /\ command' = "m6-sdc-oracle"
            /\ Oracle!Next /\ OracleInv
          BY <2>1 DEF OracleRuns, ProgressInv, CommandInv
      <3>2. Left = OracleLeft /\ Left' = OracleLeft'
          BY <3>1 DEF Left
      <3>3. Due => Oracle!Raise \/ Oracle!RaiseClosing
          BY <3>1 DEF Due, OracleRuns, DualRuns, ValidationRuns, ScanRuns
      <3>4. QED
          BY <3>1, <3>2, <3>3, OracleMoves DEF Advances
    <2>2. CASE DualRuns(Dual!Next)
      <3>1. /\ command = "radio-dual" /\ command' = "radio-dual"
            /\ Dual!Next /\ DualInv
          BY <2>2 DEF DualRuns, ProgressInv, CommandInv
      <3>2. Left = DualLeft /\ Left' = DualLeft'
          BY <3>1 DEF Left
      <3>3. Due => Dual!Gate
          BY <3>1 DEF Due, OracleRuns, DualRuns, ValidationRuns, ScanRuns
      <3>4. /\ Around = ChildLeft(receiver) + ChildLeft(transmitter)
            /\ Around' = ChildLeft(receiver)' + ChildLeft(transmitter)'
          BY <3>1 DEF Around
      <3>5. QED
          BY <1>1, <3>1, <3>2, <3>3, <3>4, DualMoves DEF Advances
    <2>3. CASE ValidationRuns(Validation!Next)
      <3>1. /\ command = "m6-ble-gate" /\ command' = "m6-ble-gate"
            /\ Validation!Next /\ ValidationInv
            /\ validationDrops \in 0..TargetDrops
          BY <2>3 DEF ValidationRuns, ProgressInv, CommandInv, BoundsHold
      <3>2. Left = ValidationLeft /\ Left' = ValidationLeft'
          BY <3>1 DEF Left
      <3>3. Due => Validation!Host
          BY <3>1 DEF Due, OracleRuns, DualRuns, ValidationRuns, ScanRuns
      <3>4. Around = TargetLeft /\ Around' = TargetLeft'
          BY <3>1 DEF Around
      <3>5. QED
          BY <1>1, <3>1, <3>2, <3>3, <3>4, ValidationMoves DEF Advances
    <2>4. CASE ScanRuns(Scan!Next)
      <3>1. /\ command = "m6-ble-scan" /\ command' = "m6-ble-scan"
            /\ Scan!Next /\ ScanInv
            /\ switches \in 0..MaxSwitches /\ ~UNCHANGED scanVars
          BY <2>4 DEF ScanRuns, ProgressInv, CommandInv, BoundsHold, vars
      <3>2. Left = ScanLeft /\ Left' = ScanLeft'
          BY <3>1 DEF Left
      <3>3. Due => Scan!Host
          BY <3>1 DEF Due, OracleRuns, DualRuns, ValidationRuns, ScanRuns
      <3>4. Around = ObjectLeft /\ Around' = ObjectLeft'
          BY <3>1 DEF Around
      <3>5. QED
          BY <1>1, <3>1, <3>2, <3>3, <3>4, ScanMoves DEF Advances
    <2>5. QED
        BY <2>1, <2>2, <2>3, <2>4 DEF Next
  <1>4. QED
      BY <1>2, <1>3, ProgressInvHolds, PTL DEF Spec
=============================================================================
