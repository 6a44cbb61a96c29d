------------------------------ MODULE SdcOracle -----------------------------
(***************************************************************************)
(* The HCI oracle (m6-sdc-oracle in tools/nrfkit_tools/cli.py) over its H4 *)
(* session (hci.py), with the controller and the peers that it drives.     *)
(*                                                                         *)
(* The session reads the UART in chunks; events queue in pending. A        *)
(* command takes events until the one that answers its opcode and drops    *)
(* the others; a wait drops what it does not look for. Peers connect, send *)
(* and leave on their own.                                                 *)
(***************************************************************************)
EXTENDS Naturals, Sequences

CONSTANTS
    MaxDrops,      \* bound on the links that a peer drops
    MaxChunk       \* events of one read

ConstantsOk == MaxDrops \in Nat /\ MaxChunk \in Nat \ {0}

Cmd(o)    == [kind |-> "complete", op |-> o]
Status(o) == [kind |-> "status", op |-> o]
Wait(e)   == [kind |-> "wait", op |-> e]

\* The peripheral part of a multirole controller with the timeslot fixture. A burst is
\* the command that starts it and the polling of its counters.
Peripheral == <<
    Cmd("reset"), Cmd("read"), Cmd("mask"),
    Cmd("adv-on"), Wait("on-air"), Cmd("burst"), Wait("connection"), Cmd("burst"),
    Wait("acl"), Status("disconnect"), Wait("disconnection"), Cmd("read") >>

\* The central part.
Central == <<
    Cmd("scan-on"), Wait("report"), Cmd("scan-off"),
    Status("create"), Wait("connection"), Status("disconnect"), Wait("disconnection") >>

Script == Peripheral \o Central

\* The step at which advertising_enabled is cleared, after the second burst.
Connected == 9

VARIABLES
    n,            \* position in the script
    phase,        \* "send", "await", "finally", "closing" or "done"
    status,       \* of the report
    closing,      \* the command of a finally clause
    unclean,      \* that command failed
    advertising_enabled, scan_enabled, handle,
    pending,      \* events parsed and not taken
    acl,          \* an ACL packet was parsed
    issued,       \* commands sent so far
    answer,       \* the command whose completion was accepted last
    down,         \* commands on their way to the controller
    wire,         \* events and data on their way to the host
    adv, scan, creating, link, leaving, links, drops,
    mask          \* events that the controller delivers

host == <<n, phase, status, closing, unclean, advertising_enabled, scan_enabled, handle,
          issued, answer>>
controller == <<adv, scan, creating, link, leaving, links, drops, mask>>
vars == <<host, pending, acl, down, wire, controller>>

Init ==
    /\ n = 1 /\ phase = "send" /\ status = "running" /\ closing = "none" /\ unclean = FALSE
    /\ advertising_enabled = FALSE /\ scan_enabled = FALSE /\ handle = 0
    /\ pending = <<>> /\ acl = FALSE /\ issued = 0 /\ answer = 0
    /\ down = <<>> /\ wire = <<>>
    /\ adv = FALSE /\ scan = FALSE /\ creating = FALSE /\ link = 0 /\ leaving = FALSE
    /\ links = 0 /\ drops = 0
    /\ mask = {"complete", "status", "disconnection"}

Step == Script[n]

Event(k, o, i) == [kind |-> k, op |-> o, id |-> i]

\* HCI has one opcode for enabling and disabling.
Opcode(o) == CASE o \in {"adv-on", "adv-off"} -> "adv"
               [] o \in {"scan-on", "scan-off"} -> "scan"
               [] OTHER -> o

-----------------------------------------------------------------------------
(***************************************************************************)
(* The host                                                                *)
(***************************************************************************)
\* Mutant of Enables: an enable in progress already counts as enabled.
MutantEnables(p, o) == [adv  |-> o = "adv-on" \/ (advertising_enabled /\ p # Connected),
                        scan |-> o = "scan-on" \/ (scan_enabled /\ o # "scan-off")]

\* The flags while the step at position p runs; a command that enables sets its flag
\* only when it has returned.
Enables(p, o) == [adv  |-> advertising_enabled /\ p # Connected,
                  scan |-> scan_enabled /\ o # "scan-off"]

Send ==
    /\ phase = "send" /\ Step.kind # "wait"
    /\ issued' = issued + 1
    /\ down' = Append(down, [op |-> Step.op, id |-> issued + 1, target |-> handle])
    /\ advertising_enabled' = Enables(n, Step.op).adv
    /\ scan_enabled' = Enables(n, Step.op).scan
    /\ phase' = "await"
    /\ UNCHANGED <<n, status, closing, unclean, handle, pending, acl, answer, wire, controller>>

BeginWait ==
    /\ phase = "send" /\ Step.kind = "wait"
    /\ advertising_enabled' = Enables(n, Step.op).adv
    /\ phase' = "await"
    /\ UNCHANGED <<n, status, closing, unclean, scan_enabled, handle, pending, acl, issued,
                   answer, down, wire, controller>>

\* The step has returned.
Advance ==
    /\ advertising_enabled' = (advertising_enabled \/ Step.op = "adv-on")
    /\ scan_enabled' = (scan_enabled \/ Step.op = "scan-on")
    /\ IF n = Len(Script)
       THEN phase' = "done" /\ status' = "ok" /\ UNCHANGED n
       ELSE phase' = "send" /\ n' = n + 1 /\ UNCHANGED status

\* The events of a chunk s; at most one packet of ACL data is under way (PeerSends).
Events(s) ==
    LET data == {i \in DOMAIN s : s[i].kind = "acl"} IN
    IF data = {} THEN s
    ELSE LET i == CHOOSE i \in data : TRUE
         IN  SubSeq(s, 1, i - 1) \o SubSeq(s, i + 1, Len(s))

\* next_event() reads when nothing is pending, wait_for_acl() until data came. Events
\* join the queue, ACL data their own list.
Read(k) ==
    /\ phase \in {"await", "closing"} /\ k <= Len(wire)
    /\ \/ pending = <<>>
       \/ phase = "await" /\ Step.op = "acl"
    /\ phase = "await" => Step.op # "on-air"
    /\ pending' = pending \o Events(SubSeq(wire, 1, k))
    /\ acl' = (acl \/ \E i \in 1..k : wire[i].kind = "acl")
    /\ wire' = SubSeq(wire, k + 1, Len(wire))
    /\ UNCHANGED <<host, down, controller>>

\* The event that the current step looks for: the completion of its opcode, or the
\* connection, report or disconnection of its handle.
Answers(e) ==
    \/ Step.kind # "wait" /\ e.kind = Step.kind /\ Opcode(e.op) = Opcode(Step.op)
    \/ Step.kind = "wait" /\ e.kind = Step.op /\ (e.kind = "disconnection" => e.id = handle)

Refused(e) == e.kind = "status" /\ e.id = 0

\* Takes the next event: it answers the step, or it is dropped.
Take ==
    /\ phase = "await" /\ pending # <<>> /\ Step.op \notin {"acl", "on-air"}
    /\ pending' = Tail(pending)
    /\ LET e == Head(pending) IN
       IF Answers(e)
       THEN /\ ~Refused(e)
            /\ Advance
            /\ handle' = IF e.kind = "connection" THEN e.id ELSE handle
            /\ answer' = IF Step.kind = "wait" THEN answer ELSE e.id
       ELSE UNCHANGED <<n, phase, status, advertising_enabled, scan_enabled, handle, answer>>
    /\ UNCHANGED <<closing, unclean, acl, issued, down, wire, controller>>

\* wait_for_acl() and the packet sent back; the advertisement is seen on air.
Observe ==
    /\ phase = "await"
    /\ \/ Step.op = "acl" /\ acl
       \/ Step.op = "on-air" /\ adv
    /\ Advance
    /\ UNCHANGED <<closing, unclean, handle, pending, acl, issued, answer, down, wire,
                   controller>>

\* Mutant of Closing: the finally clause forgets the advertising.
MutantClosing == IF scan_enabled THEN "scan-off" ELSE "none"

\* What the finally clause around the failed step sends.
Closing ==
    CASE advertising_enabled -> "adv-off"
      [] scan_enabled -> "scan-off"
      [] OTHER -> "none"

Failing ==
    /\ status' = "failed"
    /\ closing' = Closing
    /\ phase' = IF Closing = "none" THEN "done" ELSE "finally"
    /\ UNCHANGED <<n, unclean, advertising_enabled, scan_enabled, handle, pending, acl, issued,
                   answer, down, wire, controller>>

\* A deadline passes, a status is an error, or the user interrupts. A command that was
\* given up may still be executed and answered.
Raise == phase \in {"send", "await"} /\ Failing

SendClosing ==
    /\ phase = "finally"
    /\ issued' = issued + 1
    /\ down' = Append(down, [op |-> closing, id |-> issued + 1, target |-> handle])
    /\ phase' = "closing"
    /\ UNCHANGED <<n, status, closing, unclean, advertising_enabled, scan_enabled, handle,
                   pending, acl, answer, wire, controller>>

TakeClosing ==
    /\ phase = "closing" /\ pending # <<>>
    /\ pending' = Tail(pending)
    /\ LET e == Head(pending) IN
       IF e.kind = "complete" /\ Opcode(e.op) = Opcode(closing)
       THEN phase' = "done" /\ answer' = e.id
       ELSE UNCHANGED <<phase, answer>>
    /\ UNCHANGED <<n, status, closing, unclean, advertising_enabled, scan_enabled, handle, acl,
                   issued, down, wire, controller>>

RaiseClosing ==
    /\ phase \in {"finally", "closing"}
    /\ unclean' = TRUE /\ phase' = "done"
    /\ UNCHANGED <<n, status, closing, advertising_enabled, scan_enabled, handle, pending, acl,
                   issued, answer, down, wire, controller>>

(***************************************************************************)
(* The controller and the peers                                            *)
(***************************************************************************)
Emit(e) == wire' = IF e.kind \in mask \cup {"acl"} THEN Append(wire, e) ELSE wire

\* The event masks that the oracle sets.
Masks == {"complete", "status", "disconnection", "connection", "report"}

\* The status of a command whose handle has no link is an error, here 0.
AnswerTo(c) ==
    CASE c.op = "disconnect" -> Event("status", c.op, IF c.target = link /\ link # 0 THEN c.id ELSE 0)
      [] c.op = "create" -> Event("status", c.op, c.id)
      [] OTHER -> Event("complete", c.op, c.id)

Execute ==
    /\ down # <<>>
    /\ down' = Tail(down)
    /\ LET c == Head(down) IN
       /\ adv' = (c.op = "adv-on" \/ (adv /\ c.op \notin {"adv-off", "reset"}))
       /\ scan' = (c.op = "scan-on" \/ (scan /\ c.op \notin {"scan-off", "reset"}))
       /\ mask' = IF c.op = "mask" THEN Masks ELSE mask
       /\ creating' = (creating \/ c.op = "create")
       /\ leaving' = (leaving \/ (c.op = "disconnect" /\ c.target = link /\ link # 0))
       /\ Emit(AnswerTo(c))
    /\ UNCHANGED <<host, pending, acl, link, links, drops>>

\* A central connects to the advertiser, or the peer that was called answers.
Connect ==
    /\ adv \/ creating
    /\ link = 0
    /\ links' = links + 1 /\ link' = links + 1
    /\ IF adv THEN adv' = FALSE /\ UNCHANGED creating ELSE creating' = FALSE /\ UNCHANGED adv
    /\ Emit(Event("connection", "none", links + 1))
    /\ UNCHANGED <<host, pending, acl, down, scan, leaving, drops, mask>>

PeerSends ==
    /\ link # 0 /\ ~acl /\ \A i \in DOMAIN wire : wire[i].kind # "acl"
    /\ Emit(Event("acl", "none", link))
    /\ UNCHANGED <<host, pending, acl, down, controller>>

\* The link ends, as the host asked or because the peer left.
EndLink ==
    /\ link # 0
    /\ leaving \/ drops < MaxDrops
    /\ drops' = IF leaving THEN drops ELSE drops + 1
    /\ link' = 0 /\ leaving' = FALSE
    /\ Emit(Event("disconnection", "none", link))
    /\ UNCHANGED <<host, pending, acl, down, adv, scan, creating, links, mask>>

Report ==
    /\ scan /\ \A i \in DOMAIN wire : wire[i].kind # "report"
    /\ Emit(Event("report", "none", 0))
    /\ UNCHANGED <<host, pending, acl, down, controller>>

Runs == Send \/ BeginWait \/ Take \/ Observe

Closes == SendClosing \/ TakeClosing

Next ==
    \/ Runs \/ Raise \/ Closes \/ RaiseClosing \/ (\E k \in 1..MaxChunk : Read(k))
    \/ Execute \/ Connect \/ PeerSends \/ EndLink \/ Report

\* Every wait has a deadline.
Spec == Init /\ [][Next]_vars /\ WF_vars(Raise) /\ WF_vars(RaiseClosing)

-----------------------------------------------------------------------------
\* A successful report means that both roles were connected and disconnected, and the
\* controller is left without advertising, scanning, calling or a link, although the
\* oracle never disables advertising on this path.
OkMeansQuiet ==
    status = "ok" => ~adv /\ ~scan /\ ~creating /\ link = 0 /\ links >= 2

\* An answer that a command accepts is its own: a late answer to a command that timed
\* out is not taken for the answer of the finally clause, which has the same opcode.
AnswerIsMine ==
    /\ phase = "send" => answer = issued
    /\ phase = "done" /\ closing # "none" /\ ~unclean => answer = issued

\* A run that fails outside the commands that switch advertising and scanning leaves
\* neither behind, unless the command of the finally clause failed as well.
QuietAfterFailure ==
    phase = "done" /\ status = "failed" /\ ~unclean
      /\ Step.op \notin {"adv-on", "scan-on", "scan-off"} => ~adv /\ ~scan
=============================================================================
