--------------------------- MODULE TimeslotProofs ---------------------------
(***************************************************************************)
(* Proofs about module Timeslot, for every length, margin and extension    *)
(* limit and every set of lengths the callers pass.                        *)
(***************************************************************************)
EXTENDS Timeslot, TLAPS

\* The handler and the platform reference live as long as MPSL's session, and a
\* session that closes was asked to by close(), which is then no longer under way.
SessionLives ==
    /\ (application_handler <=> retained) /\ (session_closing => vstate # "none")
    /\ vstate \in {"ending", "closed"} => session_closing /\ pc \notin {"request", "close"}
    /\ pc = "close" => session_closing
    /\ pc = "request" => vstate = "idle"

\* MPSL owes main at most one signal about a request, and only while session_idle
\* still keeps main from making the next one; then at most SESSION_CLOSED.
DeferredShape ==
    \/ vdeferred = <<>> /\ vstate # "closed"
    \/ vdeferred = <<"CLOSED">> /\ vstate = "closed"
    \/ \E signal \in DeferredSignals \ {"CLOSED"} :
        /\ ~session_idle
        /\ \/ vdeferred = <<signal>> /\ vstate = "idle" /\ pc # "request"
           \/ vdeferred = <<signal, "CLOSED">> /\ vstate = "closed"

\* The published parameters are those MPSL works with, and leave room for the
\* margin, from before the vendor call until the grant is over.
ParametersHold ==
    /\ vstate = "requested" \/ InGrant => vlength = grant_length_us
    /\ pc = "request" => next_request = grant_length_us
    /\ vstate = "requested" \/ InGrant \/ pc = "request" =>
        MarginMin <= cleanup_margin_us /\ cleanup_margin_us < grant_length_us

\* A grant is active exactly while MPSL runs one, with its deadline armed.
GrantTracked ==
    /\ grant_active <=> InGrant
    /\ InGrant => compare = vlength - cleanup_margin_us

\* The timeslot owns RADIO throughout a grant, and a running RADIO has an owner.
RadioHeld == (InGrant => radio_owner = "timeslot") /\ ActiveRadioOwned

IInv == /\ TypeOK /\ SessionLives /\ SessionAgrees /\ DeferredShape
        /\ ParametersHold /\ GrantTracked /\ RadioHeld

-----------------------------------------------------------------------------
\* What appending to, and delivering from, a queue of at most two deferred signals
\* (mpsl_low_priority_process() hands out the oldest) leaves in it.
LEMMA DeferredQueue ==
  ASSUME NEW first \in DeferredSignals, NEW second \in DeferredSignals
  PROVE  /\ <<>> \in Seq(DeferredSignals) /\ <<first>> \in Seq(DeferredSignals)
         /\ <<first, second>> \in Seq(DeferredSignals)
         /\ Append(<<>>, first) = <<first>> /\ Append(<<first>>, second) = <<first, second>>
         /\ Head(<<first>>) = first /\ Tail(<<first>>) = <<>>
         /\ Head(<<first, second>>) = first /\ Tail(<<first, second>>) = <<second>>
  <1> DEFINE a == Append(<<first>>, second)
             b == <<first, second>>
  <1>1. <<first>> \in Seq(DeferredSignals) /\ a \in Seq(DeferredSignals)
        /\ b \in Seq(DeferredSignals)
      OBVIOUS
  <1>2. Len(a) = 2 /\ a[1] = first /\ a[2] = second
      OBVIOUS
  <1>3. Len(b) = 2 /\ b[1] = first /\ b[2] = second
      OBVIOUS
  <1> HIDE DEF a, b
  <1>4. a = b
      BY <1>1, <1>2, <1>3
  <1> USE DEF a, b
  <1>5. QED
      BY <1>1, <1>4

\* After reset nothing is open and nothing is owed.
LEMMA InitIInv == Init => IInv
  <1> SUFFICES ASSUME Init PROVE IInv
      OBVIOUS
  <1>1. vdeferred = <<>> /\ vdeferred \in Seq(DeferredSignals)
      BY DeferredQueue DEF Init, SessionInit, DeferredSignals
  <1>2. QED
      BY <1>1 DEF Init, SessionInit, IInv, TypeOK, SessionLives, SessionAgrees, DeferredShape,
         ParametersHold, GrantTracked, RadioHeld, ActiveRadioOwned, InGrant

\* A request that is open, or a grant, has nothing deferred yet; its end defers
\* SESSION_CLOSED if the session was closed meanwhile, and SESSION_IDLE otherwise.
LEMMA EndDefers ==
  ASSUME IInv, vstate = "requested" \/ InGrant, VendorEnd
  PROVE  /\ vlength' = 0
         /\ \/ vstate = "ending" /\ vstate' = "closed" /\ vdeferred' = <<"CLOSED">>
            \/ vstate # "ending" /\ vstate' = "idle" /\ vdeferred' = <<"IDLE">>
  <1>1. vdeferred = <<>>
      BY DEF IInv, DeferredShape, InGrant
  <1>2. Append(vdeferred, "CLOSED") = <<"CLOSED">> /\ Append(vdeferred, "IDLE") = <<"IDLE">>
      BY <1>1, DeferredQueue DEF DeferredSignals
  <1>3. QED
      BY <1>2 DEF VendorEnd

\* A callback that ends the grant by itself leaves RADIO without a running user.
LEMMA CleanupFrees ==
  ASSUME NEW state \in {"disabled", "active"}, cleanup_grant(state)
  PROVE  /\ grant_active' = FALSE /\ compare' = 0
         /\ radio' \in {"disabled", "active"} /\ radio_owner' \in {"none", "timeslot"}
         /\ radio' = "active" => radio_owner' = "timeslot"
         /\ CleanupOutcomes = {TRUE} => radio' = "disabled" /\ radio_owner' = "none"
  BY CleanupAssumption DEF cleanup_grant

\* Ending the grant, in whatever way, restores the invariant.
LEMMA EndStep ==
  ASSUME IInv, vstate = "requested" \/ InGrant, VendorEnd,
         NEW state \in {"disabled", "active"}, cleanup_grant(state),
         grant_length_us' \in Nat, pending_extension_us' \in Nat,
         UNCHANGED <<next_request, callbackFrame>>
  PROVE  IInv'
  <1> USE DEF IInv
  <1>1. TypeOK'
    <2>1. vdeferred' \in Seq(DeferredSignals)
        BY EndDefers, DeferredQueue DEF DeferredSignals
    <2>2. vlength' = 0 /\ vstate' \in {"idle", "closed"}
        BY EndDefers
    <2>3. /\ grant_active' = FALSE /\ compare' = 0
          /\ radio' \in {"disabled", "active"} /\ radio_owner' \in {"none", "timeslot"}
        BY CleanupFrees
    <2>4. QED
        BY <2>1, <2>2, <2>3 DEF TypeOK, callbackFrame, flagVars, mainVars
  <1>2. SessionLives'
      BY EndDefers DEF TypeOK, SessionLives, SessionAgrees, callbackFrame, flagVars, mainVars, InGrant
  <1>3. SessionAgrees' /\ DeferredShape'
      BY EndDefers DEF TypeOK, SessionLives, SessionAgrees, DeferredShape, DeferredSignals,
         callbackFrame, flagVars, mainVars, InGrant
  <1>4. ParametersHold'
      BY EndDefers DEF TypeOK, SessionLives, ParametersHold, callbackFrame, flagVars, mainVars, InGrant
  <1>5. GrantTracked' /\ RadioHeld'
      BY EndDefers, CleanupFrees DEF GrantTracked, RadioHeld, ActiveRadioOwned, InGrant
  <1>6. QED
      BY <1>1, <1>2, <1>3, <1>4, <1>5

\* The grant as START, an extension or another signal hands it to the handler:
\* MPSL's length is the published one and the deadline leaves the margin.
SoundGrant(g) ==
    /\ g.radio \in {"disabled", "active"}
    /\ g.length \in Nat /\ g.extension \in Nat /\ g.granted = g.length
    /\ g.deadline = g.length - cleanup_margin_us /\ cleanup_margin_us < g.length

\* Whatever the handler returns, and wherever it left RADIO, what the callback does
\* with its action keeps the invariant.
LEMMA HandlerStep ==
  ASSUME IInv, vstate \in {"requested", "granted", "ending", "extending"},
         vstate = "ending" => session_closing,
         NEW action, action.length \in Nat, NEW g, SoundGrant(g), handle_action(action, g),
         UNCHANGED callbackFrame
  PROVE  IInv'
  <1>1. CASE MustEnd(action) /\ end_grant(g.radio)
             /\ grant_length_us' = g.length /\ pending_extension_us' = g.extension
             /\ UNCHANGED next_request
      BY <1>1, EndStep DEF end_grant, SoundGrant, InGrant
  <1>2. CASE /\ ~MustEnd(action) /\ Continue(g)
             /\ pending_extension_us' \in Nat /\ vstate' \in {"granted", "extending"}
    <2>1. /\ ~session_closing /\ vstate # "ending"
        BY <1>2 DEF MustEnd
    <2>2. QED
        BY <1>2, <2>1, TimeAssumption DEF Continue, SoundGrant, IInv, TypeOK, SessionLives, SessionAgrees,
         DeferredShape, ParametersHold, GrantTracked, RadioHeld, ActiveRadioOwned, InGrant,
         callbackFrame, flagVars, mainVars
  <1>3. CASE /\ ~MustEnd(action) /\ RequestValid(action)
             /\ cleanup_grant(g.radio)
             /\ next_request' = action.length /\ grant_length_us' = action.length
             /\ pending_extension_us' = g.extension
             /\ vstate' = "requested" /\ vlength' = action.length
             /\ UNCHANGED vdeferred
    <2>1. /\ ~session_closing /\ vstate # "ending"
        BY <1>3 DEF MustEnd
    <2>2. g.radio \in {"disabled", "active"} /\ g.extension \in Nat
        BY DEF SoundGrant
    <2>3. /\ grant_active' = FALSE /\ compare' = 0
          /\ radio' \in {"disabled", "active"} /\ radio_owner' \in {"none", "timeslot"}
          /\ radio' = "active" => radio_owner' = "timeslot"
        BY <1>3, <2>2, CleanupFrees
    <2>4. TypeOK'
        BY <1>3, <2>2, <2>3 DEF IInv, TypeOK, callbackFrame, flagVars, mainVars
    <2>5. SessionLives' /\ SessionAgrees'
        BY <1>3, <2>1 DEF IInv, TypeOK, SessionLives, SessionAgrees, InGrant, callbackFrame, flagVars, mainVars
    <2>6. DeferredShape' /\ ParametersHold'
        BY <1>3, <2>1 DEF RequestValid, IInv, TypeOK, SessionLives, SessionAgrees, DeferredShape, ParametersHold, InGrant, callbackFrame, flagVars, mainVars
    <2>7. GrantTracked' /\ RadioHeld'
        BY <1>3, <2>3 DEF GrantTracked, RadioHeld, ActiveRadioOwned, InGrant
    <2>8. QED
        BY <2>4, <2>5, <2>6, <2>7 DEF IInv
  <1>4. QED
      BY <1>1, <1>2, <1>3 DEF handle_action, SoundGrant

\* A step of interrupt context keeps the invariant, wherever it falls among the
\* steps of the main-context calls.
LEMMA InterruptStep == IInv /\ Interrupts => IInv'
  <1> SUFFICES ASSUME IInv, Interrupts PROVE IInv'
      OBVIOUS
  <1>1. \A action \in Actions : action.length \in Nat /\ DeadlineAction(action).length \in Nat
      BY TimeAssumption DEF Actions, DeadlineAction
  <1>2. vstate = "ending" => session_closing
      BY DEF IInv, SessionLives
  <1>3. /\ cleanup_margin_us \in Nat /\ grant_length_us \in Nat /\ pending_extension_us \in Nat
        /\ vstate = "requested" \/ InGrant =>
               vlength = grant_length_us /\ cleanup_margin_us < grant_length_us
        /\ InGrant => compare = grant_length_us - cleanup_margin_us
      BY DEF IInv, TypeOK, ParametersHold, GrantTracked
  <1>4. ASSUME NEW length \in Nat, NEW extension \in Nat, NEW granted, NEW cc,
               vstate \in {"requested", "granted", "ending", "extending"},
               granted = length, cc = length - cleanup_margin_us, cleanup_margin_us < length,
               HandlerRuns(length, cc, extension, granted), UNCHANGED callbackFrame
        PROVE  IInv'
    <2>1. PICK action \in Actions, state \in {"disabled", "active"} :
             handle_action(action, Grant(state, length, cc, extension, granted))
        BY <1>4 DEF HandlerRuns
    <2>2. SoundGrant(Grant(state, length, cc, extension, granted))
        BY <1>4 DEF SoundGrant, Grant
    <2>3. QED
        BY <1>1, <1>2, <1>4, <2>1, <2>2, HandlerStep
  <1>5. CASE Start
    <2>1. CASE radio_owner # "none"
      <3>1. /\ VendorEnd /\ vstate = "requested" /\ ~grant_active
            /\ UNCHANGED <<grantVars, grant_length_us, next_request, pending_extension_us,
                           callbackFrame>>
          BY <1>5, <2>1 DEF Start, IInv, GrantTracked, InGrant
      <3>2. vlength' = 0 /\ vstate' = "idle" /\ vdeferred' = <<"IDLE">>
            /\ vdeferred' \in Seq(DeferredSignals)
          BY <3>1, EndDefers, DeferredQueue DEF DeferredSignals
      <3>3. QED
          BY <3>1, <3>2 DEF IInv, TypeOK, SessionLives, SessionAgrees, DeferredShape,
             ParametersHold, GrantTracked, RadioHeld, ActiveRadioOwned, InGrant, DeferredSignals,
             callbackFrame, flagVars, grantVars, mainVars
    <2>2. CASE radio_owner = "none"
        BY <1>3, <1>4, <1>5, <2>2 DEF Start, Deadline
    <2>3. QED
        BY <2>1, <2>2
  <1>6. CASE TimerDeadline
    <2>1. PICK action \in Actions, state \in {"disabled", "active"} :
             handle_action(DeadlineAction(action),
                 Grant(state, grant_length_us, compare, pending_extension_us, vlength))
        BY <1>6 DEF TimerDeadline
    <2>2. vstate \in {"granted", "ending"} /\ InGrant /\ UNCHANGED callbackFrame
        BY <1>6 DEF TimerDeadline, InGrant
    <2>3. SoundGrant(Grant(state, grant_length_us, compare, pending_extension_us, vlength))
        BY <1>3, <2>2 DEF SoundGrant, Grant
    <2>4. QED
        BY <1>1, <1>2, <2>1, <2>2, <2>3, HandlerStep
  <1>7. CASE RadioSignal
      BY <1>3, <1>4, <1>7 DEF RadioSignal, InGrant
  <1>8. CASE ExtendSucceeded
    <2> DEFINE length == grant_length_us + pending_extension_us
    <2>1. /\ vstate = "extending" /\ UNCHANGED callbackFrame
          /\ HandlerRuns(length, Deadline(length), 0, vlength + pending_extension_us)
        BY <1>8 DEF ExtendSucceeded
    <2>2. /\ length \in Nat /\ vlength + pending_extension_us = length
          /\ cleanup_margin_us < length /\ Deadline(length) = length - cleanup_margin_us
        BY <1>3, <2>1 DEF InGrant, Deadline
    <2> HIDE DEF length
    <2>3. QED
        BY <1>4, <2>1, <2>2
  <1>9. CASE GrantFails
    <2>1. cleanup_grant(radio) /\ VendorEnd /\ InGrant
          /\ UNCHANGED <<grant_length_us, next_request, pending_extension_us, callbackFrame>>
        BY <1>9 DEF GrantFails, CleanupIfActive, IInv, GrantTracked
    <2>2. radio \in {"disabled", "active"}
        BY DEF IInv, TypeOK
    <2>3. QED
        BY <1>3, <2>1, <2>2, EndStep
  <1>10. QED
      BY <1>5, <1>6, <1>7, <1>8, <1>9 DEF Interrupts

\* SESSION_CLOSED is the last signal of a session, and finds it closed.
LEMMA ClosedIsLast ==
  ASSUME IInv, DeliverClosed
  PROVE  vstate = "closed" /\ vdeferred' = <<>>
  <1>1. vdeferred # <<>> /\ Head(vdeferred) = "CLOSED" /\ vdeferred' = Tail(vdeferred)
      BY DEF DeliverClosed, VendorDelivers
  <1>2. Tail(<<"CLOSED">>) = <<>>
      BY DeferredQueue DEF DeferredSignals
  <1>3. ASSUME NEW first \in DeferredSignals \ {"CLOSED"}
        PROVE  vdeferred # <<first>> /\ vdeferred # <<first, "CLOSED">>
      BY <1>1, DeferredQueue DEF DeferredSignals
  <1>4. QED
      BY <1>1, <1>2, <1>3 DEF IInv, DeferredShape

\* Each step of a main-context call, each delivered signal, and the direct use of
\* RADIO between grants keep the invariant.
LEMMA MainStep ==
  ASSUME IInv, ApiCalls \/ CallReturns \/ DeliverSome \/ Drop \/ AppRadio
  PROVE  IInv'
  <1> USE TimeAssumption DEF IInv, TypeOK, SessionLives, SessionAgrees, DeferredShape,
      ParametersHold, GrantTracked, RadioHeld, ActiveRadioOwned, InGrant, DeferredSignals,
      flagVars, paramVars, grantVars, mainVars, sessionVars, MainAt
  <1>1. CASE Open
      BY <1>1 DEF Open, VendorOpen
  <1>2. CASE Close
      BY <1>2 DEF Close
  <1>3. ASSUME NEW length \in Times, NEW margin \in Times, RequestEarliest(length, margin)
        PROVE  IInv'
      BY <1>3 DEF RequestEarliest, RequestAllowed, valid_length
  <1>4. CASE RequestAccepted
      BY <1>4 DEF RequestAccepted, VendorRequest
  <1>5. CASE RequestRefused
      BY <1>5 DEF RequestRefused
  <1>6. CASE RequestReturns
      BY <1>6 DEF RequestReturns
  <1>7. CASE CloseAccepted
    <2>1. CASE vstate = "granted"
        BY <1>7, <2>1 DEF CloseAccepted, VendorClose
    <2>2. CASE vstate \in {"idle", "requested"}
      <3>1. /\ vstate' = "closed" /\ vlength' = 0 /\ vdeferred' = Append(vdeferred, "CLOSED")
          BY <1>7, <2>2 DEF CloseAccepted, VendorClose
      <3>2. CASE vdeferred = <<>>
        <4>1. vdeferred' = <<"CLOSED">> /\ vdeferred' \in Seq(DeferredSignals)
            BY <3>1, <3>2, DeferredQueue
        <4>2. QED
            BY <1>7, <2>2, <3>1, <4>1 DEF CloseAccepted
      <3>3. ASSUME NEW signal \in DeferredSignals \ {"CLOSED"}, vdeferred = <<signal>>,
                   ~session_idle
            PROVE  IInv'
        <4>1. vdeferred' = <<signal, "CLOSED">> /\ vdeferred' \in Seq(DeferredSignals)
            BY <3>1, <3>3, DeferredQueue
        <4>2. QED
            BY <1>7, <2>2, <3>1, <3>3, <4>1 DEF CloseAccepted
      <3>4. QED
          BY <2>2, <3>2, <3>3
    <2>3. QED
        BY <1>7, <2>1, <2>2 DEF CloseAccepted, VendorClose
  <1>8. CASE CloseRefused
      BY <1>8 DEF CloseRefused
  <1>9. ASSUME NEW signal \in DeferredSignals, Deliver(signal) PROVE IInv'
    <2>1. /\ vdeferred # <<>> /\ Head(vdeferred) # "CLOSED" /\ vdeferred' = Tail(vdeferred)
          /\ UNCHANGED <<vstate, vlength>> /\ pc = "idle"
        BY <1>9 DEF Deliver, VendorDelivers
    <2>2. Head(<<"CLOSED">>) = "CLOSED"
        BY DeferredQueue
    <2>3. ASSUME NEW first \in DeferredSignals \ {"CLOSED"}
          PROVE  Tail(<<first>>) = <<>> /\ Tail(<<first, "CLOSED">>) = <<"CLOSED">>
        BY DeferredQueue
    <2>4. \/ vdeferred' = <<>> /\ vstate = "idle"
          \/ vdeferred' = <<"CLOSED">> /\ vstate = "closed"
        BY <2>1, <2>2, <2>3
    <2>5. vdeferred' \in Seq(DeferredSignals)
        BY <2>4, DeferredQueue
    <2>6. QED
        BY <1>9, <2>1, <2>4, <2>5 DEF Deliver
  <1>10. CASE DeliverClosed
    <2>1. vstate = "closed" /\ vstate' = "none" /\ vlength' = vlength /\ vdeferred' = <<>>
        BY <1>10, ClosedIsLast DEF DeliverClosed, VendorDelivers
    <2>2. vdeferred' \in Seq(DeferredSignals)
        BY <2>1, DeferredQueue
    <2>3. UNCHANGED grantVars
        BY <1>10, <2>1 DEF DeliverClosed, CleanupIfActive
    <2>4. QED
        BY <1>10, <2>1, <2>2, <2>3 DEF DeliverClosed
  <1>11. CASE Drop
    <2>1. PICK signal \in {"BLOCKED", "CANCELLED"} : vdeferred' = Append(vdeferred, signal)
        BY <1>11 DEF Drop, VendorDrops
    <2>2. vdeferred' = <<signal>> /\ vdeferred' \in Seq(DeferredSignals)
        BY <1>11, <2>1, DeferredQueue DEF Drop, VendorDrops
    <2>3. QED
        BY <1>11, <2>2 DEF Drop, VendorDrops
  <1>12. CASE AppAcquires
      BY <1>12 DEF AppAcquires
  <1>13. CASE AppReleases
      BY <1>13 DEF AppReleases
  <1>14. CASE AppUsesRadio
      BY <1>14 DEF AppUsesRadio
  <1>15. CASE RadioSettles
      BY <1>15 DEF RadioSettles
  <1>16. QED
      BY <1>1, <1>2, <1>3, <1>4, <1>5, <1>6, <1>7, <1>8, <1>9, <1>10, <1>11, <1>12, <1>13,
         <1>14, <1>15 DEF ApiCalls, CallReturns, DeliverSome, AppRadio

\* The invariant holds in every reachable state.
LEMMA Inductive == Spec => []IInv
  <1>1. ASSUME IInv, [Next]_vars PROVE IInv'
    <2>1. CASE UNCHANGED vars
      <3> USE <1>1, <2>1 DEF vars, flagVars, paramVars, grantVars, mainVars, sessionVars, IInv
      <3>1. TypeOK'
          BY DEF TypeOK
      <3>2. SessionLives' /\ SessionAgrees' /\ DeferredShape'
          BY DEF SessionLives, SessionAgrees, DeferredShape, InGrant
      <3>3. ParametersHold' /\ GrantTracked' /\ RadioHeld'
          BY DEF ParametersHold, GrantTracked, RadioHeld, ActiveRadioOwned, InGrant
      <3>4. QED
          BY <3>1, <3>2, <3>3
    <2>2. QED
        BY <1>1, <2>1, MainStep, InterruptStep DEF Next
  <1>2. QED
      BY InitIInv, <1>1, PTL DEF Spec

\* Every variable keeps its type; in particular the unsigned subtraction that sets
\* the deadline never wraps.
THEOREM TypeCorrect == Spec => []TypeOK
  <1>1. IInv => TypeOK
      BY DEF IInv
  <1>2. QED
      BY Inductive, <1>1, PTL

\* In every grant the armed deadline leaves exactly the requested cleanup margin,
\* whatever the lengths, margins and extensions are.
THEOREM DeadlineAlwaysInGrant == Spec => []DeadlineInGrant
  <1>1. IInv => DeadlineInGrant
      BY TimeAssumption DEF IInv, TypeOK, ParametersHold, GrantTracked, DeadlineInGrant, InGrant
  <1>2. QED
      BY Inductive, <1>1, PTL

\* The session flags, the platform reference and the handler agree with MPSL's
\* side of the session whatever interrupts the vendor calls.
THEOREM SessionAlwaysAgrees == Spec => []SessionAgrees
  <1>1. IInv => SessionAgrees
      BY DEF IInv
  <1>2. QED
      BY Inductive, <1>1, PTL

\* A running RADIO always has an owner, also when cleanup_grant() gives up on it.
THEOREM ActiveRadioAlwaysOwned == Spec => []ActiveRadioOwned
  <1>1. IInv => ActiveRadioOwned
      BY DEF IInv, RadioHeld
  <1>2. QED
      BY Inductive, <1>1, PTL

-----------------------------------------------------------------------------
\* When RADIO always reaches DISABLED in time, what the callback does with the
\* handler's action either keeps the grant or gives RADIO back.
LEMMA HandlerGivesBack ==
  ASSUME CleanupOutcomes = {TRUE}, NEW action,
         NEW g, g.radio \in {"disabled", "active"}, handle_action(action, g)
  PROVE  InGrant' \/ radio_owner' = "none"
  <1>1. cleanup_grant(g.radio) => radio_owner' = "none"
      BY CleanupFrees
  <1>2. QED
      BY <1>1 DEF handle_action, end_grant, Continue, InGrant

\* The timeslot owns RADIO exactly inside a grant, and a running RADIO has an owner,
\* provided RADIO reaches DISABLED within the polls of cleanup_grant(). Without
\* that proviso only ActiveRadioAlwaysOwned holds.
THEOREM OwnershipOnlyInGrant ==
  ASSUME CleanupOutcomes = {TRUE}
  PROVE  Spec => []OwnerOnlyInGrant
  <1> DEFINE Owned == radio_owner = "timeslot" => InGrant
  <1>1. Init => Owned
      BY DEF Init
  <1>2. ASSUME IInv, Owned, [Next]_vars PROVE Owned'
    <2>1. ASSUME NEW length, NEW cc, NEW extension, NEW granted,
                 HandlerRuns(length, cc, extension, granted)
          PROVE  Owned'
        BY <2>1, HandlerGivesBack DEF HandlerRuns, Grant
    <2>2. CASE Start
      <3>1. CASE radio_owner = "none"
          BY <2>1, <2>2, <3>1 DEF Start
      <3>2. CASE radio_owner # "none"
          BY <1>2, <2>2, <3>2 DEF Start, grantVars, InGrant
      <3>3. QED
          BY <3>1, <3>2
    <2>3. CASE TimerDeadline
        BY <2>3, HandlerGivesBack DEF TimerDeadline, Grant
    <2>4. CASE RadioSignal
        BY <2>1, <2>4 DEF RadioSignal
    <2>5. CASE ExtendSucceeded
        BY <2>1, <2>5 DEF ExtendSucceeded
    <2>6. CASE GrantFails
      <3>1. cleanup_grant(radio) /\ radio \in {"disabled", "active"}
          BY <1>2, <2>6 DEF GrantFails, CleanupIfActive, IInv, TypeOK, GrantTracked
      <3>2. QED
          BY <3>1, CleanupFrees
    <2>7. CASE DeliverClosed
      <3>1. ~grant_active
          BY <1>2, <2>7, ClosedIsLast DEF IInv, GrantTracked, InGrant
      <3>2. QED
          BY <1>2, <2>7, <3>1, ClosedIsLast DEF DeliverClosed, CleanupIfActive, grantVars, InGrant
    <2>8. CASE CloseAccepted
        BY <1>2, <2>8 DEF CloseAccepted, VendorClose, grantVars, InGrant, IInv, GrantTracked
    <2>9. CASE Drop
        BY <1>2, <2>9 DEF Drop, VendorDrops, grantVars, InGrant
    <2>10. CASE \/ Open \/ Close \/ RequestAccepted \/ RequestRefused \/ RequestReturns
                \/ CloseRefused \/ AppRadio
                \/ \E length, margin \in Times : RequestEarliest(length, margin)
                \/ \E signal \in DeferredSignals : Deliver(signal)
        BY <1>2, <2>10 DEF Open, VendorOpen, Close, RequestAccepted, VendorRequest,
           RequestRefused, RequestReturns, CloseRefused, AppRadio, AppAcquires, AppReleases,
           AppUsesRadio, RadioSettles, RequestEarliest, Deliver, VendorDelivers, grantVars,
           sessionVars, InGrant
    <2>11. CASE UNCHANGED vars
        BY <1>2, <2>11 DEF vars, grantVars, sessionVars, InGrant
    <2>12. QED
        BY <1>2, <2>2, <2>3, <2>4, <2>5, <2>6, <2>7, <2>8, <2>9, <2>10, <2>11 DEF Next,
           ApiCalls, CallReturns, DeliverSome, Interrupts
  <1>3. IInv /\ Owned => OwnerOnlyInGrant
      BY DEF IInv, RadioHeld, OwnerOnlyInGrant
  <1>4. QED
      BY <1>1, <1>2, <1>3, Inductive, PTL DEF Spec

\* A step of a request or a grant neither opens nor frees the session: only the end
\* of a grant whose session was closed leads on to SESSION_CLOSED.
LEMMA GrantKeepsSession ==
  ASSUME IInv, Interrupts \/ Drop
  PROVE  /\ vstate \in {"requested", "granted", "extending", "ending"} /\ retained' = retained
         /\ IF vstate = "ending" THEN vstate' \in {"ending", "closed"}
            ELSE vstate' \in {"idle", "requested", "granted", "extending"}
  <1> USE DEF callbackFrame
  <1>1. vstate = "ending" => session_closing
      BY DEF IInv, SessionLives
  <1>2. ASSUME NEW action, NEW g, handle_action(action, g)
        PROVE  IF vstate = "ending" THEN vstate' = "closed"
               ELSE vstate' \in {"idle", "requested", "granted", "extending"}
      BY <1>1, <1>2 DEF handle_action, MustEnd, end_grant, VendorEnd
  <1>3. ASSUME NEW length, NEW cc, NEW extension, NEW granted,
               HandlerRuns(length, cc, extension, granted)
        PROVE  IF vstate = "ending" THEN vstate' = "closed"
               ELSE vstate' \in {"idle", "requested", "granted", "extending"}
      BY <1>2, <1>3 DEF HandlerRuns
  <1>4. CASE Start
      BY <1>3, <1>4 DEF Start, VendorEnd
  <1>5. CASE TimerDeadline
      BY <1>2, <1>5 DEF TimerDeadline
  <1>6. CASE RadioSignal
      BY <1>3, <1>6 DEF RadioSignal
  <1>7. CASE ExtendSucceeded
      BY <1>3, <1>7 DEF ExtendSucceeded
  <1>8. CASE GrantFails
      BY <1>8 DEF GrantFails, VendorEnd, InGrant
  <1>9. CASE Drop
      BY <1>9 DEF Drop, VendorDrops
  <1>10. QED
      BY <1>4, <1>5, <1>6, <1>7, <1>8, <1>9 DEF Interrupts

\* The session is a client of MPSL as MpslClient describes it, step by step: one
\* reference per session, taken with the open and returned with SESSION_CLOSED.
THEOREM ImplementsClientSteps == Spec => ImplementsClient
  <1>1. Init => Client!Init
      BY DEF Init, SessionInit, Client!Init, ClientSession
  <1>2. ASSUME IInv, [Next]_vars
        PROVE  [Client!Next]_<<retained, ClientSession>>
    <2> USE <1>2 DEF Client!Next, ClientSession
    <2>1. CASE Open
        BY <2>1 DEF Open, VendorOpen, Client!Open
    <2>2. CASE CloseAccepted
        BY <2>2 DEF CloseAccepted, VendorClose, Client!Close
    <2>3. CASE DeliverClosed
      <3>1. vstate = "closed"
          BY <2>3, ClosedIsLast
      <3>2. QED
          BY <2>3, <3>1 DEF DeliverClosed, VendorDelivers, Client!Closed
    <2>4. CASE Interrupts \/ Drop
      <3>1. /\ vstate \in {"requested", "granted", "extending", "ending"} /\ retained' = retained
            /\ IF vstate = "ending" THEN vstate' \in {"ending", "closed"}
               ELSE vstate' \in {"idle", "requested", "granted", "extending"}
          BY <2>4, GrantKeepsSession
      <3>2. QED
          BY <3>1
    <2>5. CASE \/ Close \/ RequestAccepted \/ RequestRefused \/ RequestReturns
               \/ CloseRefused \/ AppRadio
               \/ \E length, margin \in Times : RequestEarliest(length, margin)
               \/ \E signal \in DeferredSignals : Deliver(signal)
        BY <2>5 DEF Close, RequestAccepted, VendorRequest,
           RequestRefused, RequestReturns, CloseRefused, AppRadio, AppAcquires, AppReleases,
           AppUsesRadio, RadioSettles, RequestEarliest, Deliver, VendorDelivers,
           sessionVars
    <2>6. CASE UNCHANGED vars
        BY <2>6 DEF vars, sessionVars
    <2>7. QED
        BY <2>1, <2>2, <2>3, <2>4, <2>5, <2>6 DEF Next, ApiCalls, CallReturns, DeliverSome
  <1>3. QED
      BY <1>1, <1>2, Inductive, PTL DEF Spec, ImplementsClient, Client!Spec
=============================================================================
