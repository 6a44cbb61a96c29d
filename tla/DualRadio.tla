------------------------------ MODULE DualRadio -----------------------------
(***************************************************************************)
(* The two-board gates m5-radio-dual, m7-radio-dual and m7-coexistence     *)
(* (tools/nrfkit_tools/cli.py). Each round starts the receiver command in  *)
(* the background, waits for the ready marker that it writes once its      *)
(* board was reset, runs the transmitter command (for m7-coexistence the   *)
(* SDC oracle, whose Timeslot burst the peer receives) and then waits for  *)
(* the receiver and compares the evidence of the two.                      *)
(***************************************************************************)
EXTENDS Naturals, FiniteSets

CONSTANTS Rounds   \* --rounds

ConstantsOk == Rounds \in Nat \ {0}

VARIABLES
    shared,       \* both probe arguments name one probe, one of them by its alias
    pc, round,
    receiver,     \* background child: none, starting, listening, passed, failed
    transmitter,  \* foreground child: none, starting, sending, passed, failed
    reaped,       \* the variable `receiver` is None again
    ready,        \* rounds whose marker file exists
    heard,        \* rounds whose receiver met packets of its own round
    proven,       \* rounds whose evidence was accepted
    status, left  \* report: "status" and cleanup.receiver_running

vars == <<shared, pc, round, receiver, transmitter, reaped, ready, heard, proven, status, left>>

Alive == {"starting", "listening"}

Init ==
    /\ shared \in BOOLEAN
    /\ pc = "receiver" /\ round = 1
    /\ receiver = "none" /\ transmitter = "none" /\ reaped = TRUE
    /\ ready = {} /\ heard = {} /\ proven = {}
    /\ status = "running" /\ left = FALSE

-----------------------------------------------------------------------------
(***************************************************************************)
(* The gate                                                                *)
(***************************************************************************)
SpawnReceiver ==
    /\ pc = "receiver"
    /\ receiver' = "starting" /\ reaped' = FALSE
    /\ pc' = "ready"
    /\ UNCHANGED <<shared, round, transmitter, ready, heard, proven, status, left>>

\* Mutant of AwaitReady: a receiver that runs is taken for one that listens.
MutantAwaitReady ==
    /\ pc = "ready"
    /\ receiver # "failed"
    /\ transmitter' = "starting"
    /\ pc' = "transmitter"
    /\ UNCHANGED <<shared, round, receiver, reaped, ready, heard, proven, status, left>>

\* The marker of this round exists; the transmitter child is started.
AwaitReady ==
    /\ pc = "ready"
    /\ round \in ready
    /\ transmitter' = "starting"
    /\ pc' = "transmitter"
    /\ UNCHANGED <<shared, round, receiver, reaped, ready, heard, proven, status, left>>

\* _run_p0_child() returned the transmitter's report.
TransmitterOk ==
    /\ pc = "transmitter" /\ transmitter = "passed"
    /\ transmitter' = "none"
    /\ pc' = "join"
    /\ UNCHANGED <<shared, round, receiver, reaped, ready, heard, proven, status, left>>

\* receiver.wait(); a return code other than 0 raises.
JoinReceiver ==
    /\ pc = "join" /\ receiver = "passed"
    /\ receiver' = "none"
    /\ pc' = "evidence"
    /\ UNCHANGED <<shared, round, transmitter, reaped, ready, heard, proven, status, left>>

\* The counters of both transcripts agree (retry contract, rejected CRCs, cycle
\* counts; the last sequence number and the active-connection stage). Counters
\* that do not agree raise. Then the next round.
Evidence ==
    /\ pc = "evidence"
    /\ proven' = proven \cup {round}
    /\ reaped' = TRUE
    /\ ready' = ready \ {round}
    /\ IF round < Rounds THEN round' = round + 1 /\ pc' = "receiver"
                         ELSE pc' = "finally" /\ UNCHANGED round
    /\ UNCHANGED <<shared, receiver, transmitter, heard, status, left>>

\* Mutant of Raise: the wait for the marker has no timeout.
MutantRaise ==
    /\ \/ pc \in {"receiver", "transmitter", "join", "evidence"}
       \/ pc = "ready" /\ receiver = "failed"
    /\ transmitter' = "none"
    /\ status' = "failed"
    /\ pc' = "finally"
    /\ UNCHANGED <<shared, round, receiver, reaped, ready, heard, proven, left>>

\* A child failed, a deadline passed, evidence is missing, or an interrupt.
\* run_logged() ends the transmitter on its way out.
Raise ==
    /\ pc \in {"receiver", "ready", "transmitter", "join", "evidence"}
    /\ transmitter' = "none"
    /\ status' = "failed"
    /\ pc' = "finally"
    /\ UNCHANGED <<shared, round, receiver, reaped, ready, heard, proven, left>>

\* The finally clause: SIGTERM, then SIGKILL, and the receiver is waited for.
Finally ==
    /\ pc = "finally"
    /\ receiver' = IF reaped THEN receiver ELSE "none"
    /\ ready' = ready \ {round}
    /\ left' = (~reaped /\ receiver' \in Alive)
    /\ status' = IF status = "failed" THEN "failed" ELSE "ok"
    /\ pc' = "done"
    /\ UNCHANGED <<shared, round, transmitter, reaped, heard, proven>>

Gate == \/ SpawnReceiver \/ AwaitReady \/ TransmitterOk \/ JoinReceiver
        \/ Evidence \/ Raise \/ Finally

(***************************************************************************)
(* The children and the air                                                *)
(***************************************************************************)
\* command_run() of the receiver: board reset, then the marker.
ReceiverReady ==
    /\ receiver = "starting"
    /\ receiver' = "listening"
    /\ ready' = ready \cup {round}
    /\ UNCHANGED <<shared, pc, round, transmitter, reaped, heard, proven, status, left>>

\* The transmitter's board is programmed and reset, under its probe lock.
TransmitterBoots ==
    /\ transmitter = "starting"
    /\ shared => receiver \notin Alive
    /\ transmitter' = "sending"
    /\ UNCHANGED <<shared, pc, round, receiver, reaped, ready, heard, proven, status, left>>

\* The receiver's firmware prints its token only for packets that it received.
Received ==
    /\ receiver = "listening" /\ transmitter = "sending"
    /\ receiver' = "passed" /\ heard' = heard \cup {round}
    /\ UNCHANGED <<shared, pc, round, transmitter, reaped, ready, proven, status, left>>

TransmitterPasses ==
    /\ transmitter = "sending"
    /\ transmitter' = "passed"
    /\ UNCHANGED <<shared, pc, round, receiver, reaped, ready, heard, proven, status, left>>

\* A child fails at any time (probe, image, token timeout). A failed transmitter
\* makes _run_p0_child() raise.
ReceiverFails ==
    /\ receiver \in Alive
    /\ receiver' = "failed"
    /\ UNCHANGED <<shared, pc, round, transmitter, reaped, ready, heard, proven, status, left>>

TransmitterFails ==
    /\ transmitter \in {"starting", "sending"}
    /\ transmitter' = "failed"
    /\ UNCHANGED <<shared, pc, round, receiver, reaped, ready, heard, proven, status, left>>

Next == \/ Gate \/ ReceiverReady \/ TransmitterBoots \/ Received \/ TransmitterPasses
        \/ ReceiverFails \/ TransmitterFails

Spec     == Init /\ [][Next]_vars
FairSpec == Spec /\ WF_vars(Gate)

-----------------------------------------------------------------------------
\* The burst is never sent to nobody: while the transmitter's firmware sends, the
\* receiver of the same round has been reset and listens, or has ended since.
BurstAwaited ==
    transmitter = "sending" => round \in ready /\ receiver # "starting" /\ receiver # "none"

\* A gate reported ok had, in every round, a receiver that met packets of that
\* round's transmitter.
OkMeansLinked == status = "ok" => heard = 1..Rounds /\ proven = 1..Rounds

\* On every exit, no child and no marker of the gate is left.
NothingLeft ==
    pc = "done" => /\ receiver \notin Alive /\ transmitter \notin {"starting", "sending"}
                   /\ ready = {} /\ ~left
=============================================================================
