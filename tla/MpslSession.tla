---------------------------- MODULE MpslSession -----------------------------
(***************************************************************************)
(* External: one timeslot session of the MPSL library, as timeslot.c and   *)
(* rram.c use it. MPSL answers a request by a grant (START, in interrupt   *)
(* context), or by BLOCKED or CANCELLED; a grant ends when the callback    *)
(* returns END or REQUEST; SESSION_IDLE and SESSION_CLOSED follow. All     *)
(* but START and the signals inside a grant are deferred, in order, to     *)
(* mpsl_low_priority_process() in main context.                            *)
(***************************************************************************)
EXTENDS Integers, Sequences

VARIABLES
    vstate,     \* none, idle, requested, granted, extending, ending, closed
    vlength,    \* length of the requested or running grant, 0 without one
    vdeferred   \* signals waiting for mpsl_low_priority_process()

sessionVars == <<vstate, vlength, vdeferred>>

\* The states in which a grant runs; "ending" is a grant whose session was closed.
InGrant == vstate \in {"granted", "extending", "ending"}

DeferredSignals == {"BLOCKED", "CANCELLED", "IDLE", "CLOSED"}

SessionInit == vstate = "none" /\ vlength = 0 /\ vdeferred = <<>>

\* mpsl_timeslot_session_open succeeds.
VendorOpen ==
    /\ vstate = "none"
    /\ vstate' = "idle" /\ vlength' = 0 /\ vdeferred' = <<>>

\* mpsl_timeslot_request accepts a request; it refuses one while another is open.
VendorRequest(length) ==
    /\ vstate = "idle"
    /\ vstate' = "requested" /\ vlength' = length
    /\ UNCHANGED vdeferred

\* A request is not granted.
VendorDrops ==
    /\ vstate = "requested"
    /\ vstate' = "idle"
    /\ vlength' = 0
    /\ \E signal \in {"BLOCKED", "CANCELLED"} : vdeferred' = Append(vdeferred, signal)

\* The running grant (or the one START just announced) is over.
VendorEnd ==
    /\ IF vstate = "ending"
       THEN vstate' = "closed" /\ vdeferred' = Append(vdeferred, "CLOSED")
       ELSE vstate' = "idle" /\ vdeferred' = Append(vdeferred, "IDLE")
    /\ vlength' = 0

\* mpsl_timeslot_session_close accepts: an open request is forgotten, a running
\* grant is allowed to end.
VendorClose ==
    /\ vstate \in {"idle", "requested", "granted"}
    /\ IF vstate = "granted"
       THEN vstate' = "ending" /\ UNCHANGED <<vlength, vdeferred>>
       ELSE vstate' = "closed" /\ vlength' = 0 /\ vdeferred' = Append(vdeferred, "CLOSED")

\* mpsl_low_priority_process hands the oldest deferred signal to the callback.
VendorDelivers(signal) ==
    /\ vdeferred # <<>> /\ signal = Head(vdeferred)
    /\ vdeferred' = Tail(vdeferred)
    /\ vstate' = IF signal = "CLOSED" THEN "none" ELSE vstate
    /\ UNCHANGED vlength

=============================================================================
