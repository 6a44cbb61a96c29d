----------------------------- MODULE MpslClient -----------------------------
(***************************************************************************)
(* What the platform expects of a client of MPSL timeslots (timeslot.c and *)
(* rram.c): it takes one reference when it opens its session and returns   *)
(* it exactly when MPSL reports the session closed; a close, once          *)
(* accepted, is eventually reported. Module Platform's clients are of this *)
(* kind: holds is membership in its holders.                               *)
(***************************************************************************)
VARIABLES holds, session

Init == holds = FALSE /\ session = "none"

Open   == session = "none" /\ session' = "open" /\ holds' = TRUE
Close  == session = "open" /\ session' = "closing" /\ UNCHANGED holds
Closed == session = "closing" /\ session' = "none" /\ holds' = FALSE

\* A reset of the chip takes the session and the reference together.
Reset  == session # "none" /\ session' = "none" /\ holds' = FALSE

Next == Open \/ Close \/ Closed \/ Reset
Spec == Init /\ [][Next]_<<holds, session>>

\* MPSL reports every session that it was asked to close.
Fairness == WF_<<holds, session>>(Closed)
=============================================================================
