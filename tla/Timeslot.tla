------------------------------ MODULE Timeslot ------------------------------
(***************************************************************************)
(* The single application timeslot session of                              *)
(* src/wireless/timeslot/nrf54l/timeslot.c with the RADIO ownership of     *)
(* src/wireless/radio/ownership.c.                                         *)
(*                                                                         *)
(* Two contexts share the static state. Main context runs the API calls    *)
(* and, through nrfkit_sdc_process(), the deferred signals; pc is where it *)
(* stands while a vendor call is under way:                                *)
(*   idle      no call under way                                           *)
(*   request   request_earliest() has published its parameters             *)
(*   accepted  MPSL took the request, request_earliest() has not returned  *)
(*   close     close() has set session_closing                             *)
(* Interrupt context (START, TIMER, RADIO, extension results, priority 0)  *)
(* runs between any two main steps; a callback is one step. The            *)
(* application's handler is arbitrary: it may use the radio inside a grant *)
(* and return any action.                                                  *)
(***************************************************************************)
EXTENDS MpslSession

CONSTANTS
    LengthMin, LengthMax,   \* MPSL_TIMESLOT_LENGTH_MIN_US, _MAX_US
    ExtensionMin,           \* MPSL_TIMESLOT_EXTENSION_TIME_MIN_US
    MarginMin,              \* the larger of the two minimum cleanup margins
    Times,                  \* lengths and margins callers may pass
    GrantMax,               \* MPSL extends no grant beyond this length
    CleanupOutcomes         \* {TRUE}: RADIO reaches DISABLED within the 1024
                            \* polls of cleanup_grant(); BOOLEAN: or it may not

ASSUME TimeAssumption ==
    /\ LengthMin \in Nat /\ LengthMax \in Nat /\ ExtensionMin \in Nat \ {0}
    /\ MarginMin \in Nat \ {0} /\ GrantMax \in Nat
    /\ Times \subseteq Nat
ASSUME CleanupAssumption == CleanupOutcomes \in (SUBSET BOOLEAN) \ {{}}

VARIABLES
    session_open, session_idle, session_closing, grant_active,
    grant_length_us, cleanup_margin_us, pending_extension_us,
    next_request,           \* length in the request structure MPSL reads
    application_handler,    \* TRUE while a handler is registered
    radio_owner, radio,     \* owner; "disabled" or "active"
    compare,                \* TIMER0 compare value of the armed deadline, 0 if off
    retained,               \* this client holds a platform reference
    pc, previous            \* main context; what request_earliest() saved

flagVars  == <<session_open, session_idle, session_closing>>
paramVars == <<grant_length_us, cleanup_margin_us, next_request>>
grantVars == <<grant_active, radio_owner, radio, compare>>
mainVars  == <<pc, previous>>
vars == <<sessionVars, flagVars, paramVars, grantVars, pending_extension_us,
          application_handler, retained, mainVars>>

TypeOK ==
    /\ vstate \in {"none", "idle", "requested", "granted", "extending", "ending", "closed"}
    /\ vlength \in Nat /\ vdeferred \in Seq(DeferredSignals)
    /\ session_open \in BOOLEAN /\ session_idle \in BOOLEAN
    /\ session_closing \in BOOLEAN /\ grant_active \in BOOLEAN
    /\ grant_length_us \in Nat /\ cleanup_margin_us \in Nat
    /\ pending_extension_us \in Nat /\ next_request \in Nat
    /\ application_handler \in BOOLEAN /\ retained \in BOOLEAN
    /\ radio_owner \in {"none", "timeslot", "proprietary"}
    /\ radio \in {"disabled", "active"}
    /\ compare \in Nat       \* an unsigned subtraction that did not wrap
    /\ pc \in {"idle", "request", "accepted", "close"}
    /\ previous \in [length : Nat, margin : Nat, request : Nat]

Init ==
    /\ SessionInit
    /\ session_open = FALSE /\ session_idle = FALSE /\ session_closing = FALSE
    /\ grant_active = FALSE /\ grant_length_us = 0 /\ cleanup_margin_us = 0
    /\ pending_extension_us = 0 /\ next_request = 0
    /\ application_handler = FALSE /\ retained = FALSE
    /\ radio_owner = "none" /\ radio = "disabled" /\ compare = 0
    /\ pc = "idle" /\ previous = [length |-> 0, margin |-> 0, request |-> 0]

-----------------------------------------------------------------------------
(***************************************************************************)
(* Helpers of the callback.                                                *)
(***************************************************************************)

valid_length(length) == length >= LengthMin /\ length <= LengthMax

\* Mutant of cleanup_grant: ownership is given back without disabling RADIO first.
MutantCleanup(state) ==
    /\ grant_active' = FALSE /\ compare' = 0
    /\ radio' = state
    /\ radio_owner' = IF state = "disabled" THEN "none" ELSE "timeslot"

\* Mutant of cleanup_grant: ownership is given back whatever state RADIO is in.
MutantCleanupUnchecked(state) ==
    /\ grant_active' = FALSE /\ compare' = 0 /\ radio_owner' = "none"
    /\ \E settled \in CleanupOutcomes : radio' = IF settled THEN "disabled" ELSE state

\* Disable deadline and RADIO and give the ownership back. state is RADIO as the
\* handler left it. nrfkit_radio_release() refuses while RADIO is not disabled,
\* and its result is ignored.
cleanup_grant(state) ==
    /\ grant_active' = FALSE /\ compare' = 0
    /\ \E settled \in CleanupOutcomes :
        /\ radio' = IF settled THEN "disabled" ELSE state
        /\ radio_owner' = IF settled \/ state = "disabled" THEN "none" ELSE "timeslot"

\* cleanup_grant() where the grant may already have been cleaned up.
CleanupIfActive == IF grant_active THEN cleanup_grant(radio) ELSE UNCHANGED grantVars

end_grant(state) == cleanup_grant(state) /\ VendorEnd

RequestValid(action) ==
    /\ action.kind = "REQUEST_NORMAL"
    /\ valid_length(action.length)
    /\ cleanup_margin_us < action.length

ExtendValid(action) == action.kind = "EXTEND" /\ action.length >= ExtensionMin

\* A grant as the handler leaves it: RADIO's state, grant_length_us, deadline,
\* extension asked for, and MPSL's own idea of the length.
Grant(state, length, cc, extension, granted) ==
    [radio |-> state, length |-> length, deadline |-> cc,
     extension |-> extension, granted |-> granted]

Continue(g) ==
    /\ grant_active' = TRUE /\ radio_owner' = "timeslot"
    /\ radio' = g.radio /\ compare' = g.deadline
    /\ grant_length_us' = g.length /\ vlength' = g.granted
    /\ UNCHANGED <<next_request, vdeferred>>

\* Mutant of MustEnd: a grant of a closing session goes on.
MutantMustEnd(action) ==
    \/ action.kind = "END"
    \/ action.kind # "NONE" /\ ~ExtendValid(action) /\ ~RequestValid(action)

MustEnd(action) ==
    \/ session_closing \/ action.kind = "END"
    \/ action.kind # "NONE" /\ ~ExtendValid(action) /\ ~RequestValid(action)

\* What the callback does with the action the handler returned.
handle_action(action, g) ==
    \/ /\ MustEnd(action)
       /\ end_grant(g.radio)
       /\ grant_length_us' = g.length /\ pending_extension_us' = g.extension
       /\ UNCHANGED next_request
    \/ /\ ~MustEnd(action) /\ action.kind = "NONE"
       /\ Continue(g)
       /\ pending_extension_us' = g.extension
       /\ vstate' = "granted"
    \/ /\ ~MustEnd(action) /\ ExtendValid(action)
       /\ Continue(g)
       /\ pending_extension_us' = action.length
       /\ vstate' = "extending"
    \/ /\ ~MustEnd(action) /\ RequestValid(action)
       /\ cleanup_grant(g.radio)
       /\ next_request' = action.length /\ grant_length_us' = action.length
       /\ pending_extension_us' = g.extension
       /\ vstate' = "requested" /\ vlength' = action.length
       /\ UNCHANGED vdeferred

Actions == [kind : {"NONE", "END"}, length : {0}]
             \union [kind : {"EXTEND", "REQUEST_NORMAL"}, length : Times]

\* The handler runs inside a grant: any action, and RADIO left in any state.
HandlerRuns(length, cc, extension, granted) ==
    \E action \in Actions, state \in {"disabled", "active"} :
        handle_action(action, Grant(state, length, cc, extension, granted))

callbackFrame == <<flagVars, cleanup_margin_us, application_handler, retained, mainVars>>

-----------------------------------------------------------------------------
(***************************************************************************)
(* Interrupt context: timeslot_callback for the signals of a grant.        *)
(***************************************************************************)

\* The compare value arm_deadline() sets.
Deadline(length) == length - cleanup_margin_us

\* START: the grant ends at once if somebody else owns RADIO.
Start ==
    /\ vstate = "requested"
    /\ IF radio_owner # "none"
       THEN /\ VendorEnd
            /\ UNCHANGED <<grantVars, grant_length_us, next_request, pending_extension_us>>
       ELSE HandlerRuns(grant_length_us, Deadline(grant_length_us),
                        pending_extension_us, vlength)
    /\ UNCHANGED callbackFrame

\* Mutant of DeadlineAction: NONE lets the grant run on past its deadline.
MutantDeadlineAction(action) == action

\* At the deadline NONE ends the grant.
DeadlineAction(action) ==
    [action EXCEPT !.kind = IF @ = "NONE" THEN "END" ELSE @]

\* TIMER0 with the deadline's compare event: the handler is asked a last time.
TimerDeadline ==
    /\ vstate \in {"granted", "ending"} /\ compare # 0
    /\ \E action \in Actions, state \in {"disabled", "active"} :
        handle_action(DeadlineAction(action),
                      Grant(state, grant_length_us, compare, pending_extension_us, vlength))
    /\ UNCHANGED callbackFrame

\* RADIO, or TIMER0 for another compare channel.
RadioSignal ==
    /\ vstate \in {"granted", "ending"}
    /\ HandlerRuns(grant_length_us, compare, pending_extension_us, vlength)
    /\ UNCHANGED callbackFrame

\* EXTEND_SUCCEEDED: length and deadline move with the grant.
ExtendSucceeded ==
    LET length == grant_length_us + pending_extension_us IN
    /\ vstate = "extending" /\ vlength + pending_extension_us <= GrantMax
    /\ HandlerRuns(length, Deadline(length), 0, vlength + pending_extension_us)
    /\ UNCHANGED callbackFrame

\* EXTEND_FAILED, OVERSTAYED or INVALID_RETURN: the grant is cleaned up before
\* the handler hears of it, and the handler's action is ignored.
GrantFails ==
    /\ InGrant
    /\ CleanupIfActive
    /\ VendorEnd
    /\ UNCHANGED <<grant_length_us, next_request, pending_extension_us, callbackFrame>>

-----------------------------------------------------------------------------
(***************************************************************************)
(* Main context. An extension's result follows in the same interrupt, so   *)
(* main does not run while one is decided.                                 *)
(***************************************************************************)

MainAt(place) == pc = place /\ vstate # "extending"

\* nrfkit_timeslot_open succeeds; on a failure the reference taken is returned.
Open ==
    /\ MainAt("idle") /\ ~session_open
    /\ retained' = TRUE
    /\ VendorOpen
    /\ application_handler' = TRUE
    /\ session_open' = TRUE /\ session_idle' = TRUE
    /\ UNCHANGED <<session_closing, paramVars, grantVars, pending_extension_us, mainVars>>

\* Mutant of RequestAllowed: a second request is let through to MPSL.
MutantRequestAllowed == session_open /\ ~session_closing
RequestAllowed == session_open /\ ~session_closing /\ session_idle

\* nrfkit_timeslot_request_earliest up to the vendor call: the parameters are
\* published first because START may interrupt that call.
RequestEarliest(length, margin) ==
    /\ MainAt("idle") /\ RequestAllowed
    /\ valid_length(length) /\ margin >= MarginMin /\ margin < length
    /\ previous' = [length |-> grant_length_us, margin |-> cleanup_margin_us,
                    request |-> next_request]
    /\ session_idle' = FALSE
    /\ grant_length_us' = length /\ cleanup_margin_us' = margin
    /\ next_request' = length
    /\ pc' = "request"
    /\ UNCHANGED <<sessionVars, session_open, session_closing, grantVars,
                   pending_extension_us, application_handler, retained>>

RequestAccepted ==
    /\ MainAt("request")
    /\ VendorRequest(next_request)
    /\ pc' = "accepted"
    /\ UNCHANGED <<flagVars, paramVars, grantVars, pending_extension_us,
                   application_handler, retained, previous>>

\* MPSL refuses: everything published is taken back.
RequestRefused ==
    /\ MainAt("request")
    /\ grant_length_us' = previous.length /\ cleanup_margin_us' = previous.margin
    /\ next_request' = previous.request
    /\ session_idle' = TRUE
    /\ pc' = "idle"
    /\ UNCHANGED <<sessionVars, session_open, session_closing, grantVars,
                   pending_extension_us, application_handler, retained, previous>>

RequestReturns ==
    /\ MainAt("accepted")
    /\ pc' = "idle"
    /\ UNCHANGED <<sessionVars, flagVars, paramVars, grantVars, pending_extension_us,
                   application_handler, retained, previous>>

\* Mutant of Close: the handler is forgotten when the close begins.
MutantClose ==
    /\ MainAt("idle") /\ session_open /\ ~session_closing
    /\ session_closing' = TRUE /\ application_handler' = FALSE
    /\ pc' = "close"
    /\ UNCHANGED <<sessionVars, session_open, session_idle, paramVars, grantVars,
                   pending_extension_us, retained, previous>>

\* nrfkit_timeslot_close: session_closing is set before the vendor call, so that
\* a grant that starts meanwhile ends itself.
Close ==
    /\ MainAt("idle") /\ session_open /\ ~session_closing
    /\ session_closing' = TRUE
    /\ pc' = "close"
    /\ UNCHANGED <<sessionVars, session_open, session_idle, paramVars, grantVars,
                   pending_extension_us, application_handler, retained, previous>>

CloseAccepted ==
    /\ MainAt("close")
    /\ VendorClose
    /\ pc' = "idle"
    /\ UNCHANGED <<flagVars, paramVars, grantVars, pending_extension_us,
                   application_handler, retained, previous>>

CloseRefused ==
    /\ MainAt("close")
    /\ session_closing' = FALSE
    /\ pc' = "idle"
    /\ UNCHANGED <<sessionVars, session_open, session_idle, paramVars, grantVars,
                   pending_extension_us, application_handler, retained, previous>>

\* Deferred BLOCKED, CANCELLED or SESSION_IDLE: a new request is allowed.
Deliver(signal) ==
    /\ MainAt("idle") /\ signal # "CLOSED"
    /\ VendorDelivers(signal)
    /\ session_idle' = TRUE
    /\ UNCHANGED <<session_open, session_closing, paramVars, grantVars,
                   pending_extension_us, application_handler, retained, mainVars>>

\* Deferred SESSION_CLOSED: clean up, notify, forget the handler, release MPSL.
DeliverClosed ==
    /\ MainAt("idle")
    /\ VendorDelivers("CLOSED")
    /\ CleanupIfActive
    /\ session_open' = FALSE /\ session_idle' = FALSE /\ session_closing' = FALSE
    /\ application_handler' = FALSE
    /\ retained' = FALSE
    /\ UNCHANGED <<paramVars, pending_extension_us, mainVars>>

\* The application owns RADIO directly between grants (nrfkit_radio_acquire and
\* nrfkit_radio_release mask interrupts), and starts and stops it.
AppAcquires ==
    /\ MainAt("idle") /\ radio_owner = "none"
    /\ radio_owner' = "proprietary"
    /\ UNCHANGED <<sessionVars, flagVars, paramVars, grant_active, radio, compare,
                   pending_extension_us, application_handler, retained, mainVars>>

AppReleases ==
    /\ MainAt("idle") /\ radio_owner = "proprietary" /\ radio = "disabled"
    /\ radio_owner' = "none"
    /\ UNCHANGED <<sessionVars, flagVars, paramVars, grant_active, radio, compare,
                   pending_extension_us, application_handler, retained, mainVars>>

AppUsesRadio ==
    /\ MainAt("idle") /\ radio_owner = "proprietary"
    /\ radio' \in {"disabled", "active"}
    /\ UNCHANGED <<sessionVars, flagVars, paramVars, grant_active, radio_owner, compare,
                   pending_extension_us, application_handler, retained, mainVars>>

\* A RADIO that outlasted the polls of cleanup_grant() is disabled at last.
RadioSettles ==
    /\ radio_owner = "timeslot" /\ ~InGrant /\ radio = "active"
    /\ radio' = "disabled"
    /\ UNCHANGED <<sessionVars, flagVars, paramVars, grant_active, radio_owner, compare,
                   pending_extension_us, application_handler, retained, mainVars>>

-----------------------------------------------------------------------------
Drop == VendorDrops /\ UNCHANGED <<flagVars, paramVars, grantVars, pending_extension_us,
                                   application_handler, retained, mainVars>>

DeliverSome == DeliverClosed \/ \E signal \in DeferredSignals : Deliver(signal)
CallReturns == RequestAccepted \/ RequestRefused \/ RequestReturns
               \/ CloseAccepted \/ CloseRefused
Interrupts  == Start \/ TimerDeadline \/ RadioSignal \/ ExtendSucceeded \/ GrantFails
ApiCalls    == Open \/ Close \/ \E length, margin \in Times : RequestEarliest(length, margin)
AppRadio    == AppAcquires \/ AppReleases \/ AppUsesRadio \/ RadioSettles

Next == ApiCalls \/ CallReturns \/ DeliverSome \/ Interrupts \/ Drop \/ AppRadio

Spec == Init /\ [][Next]_vars

\* A vendor call returns, the foreground keeps pumping nrfkit_sdc_process(), an
\* armed compare fires, and MPSL decides an extension; it need not notice a grant
\* that overstays.
ExtensionDecided == vstate = "extending" /\ (ExtendSucceeded \/ GrantFails)
Fairness ==
    /\ WF_vars(CallReturns) /\ WF_vars(DeliverSome)
    /\ WF_vars(TimerDeadline) /\ WF_vars(ExtensionDecided)
FairSpec == Spec /\ Fairness

-----------------------------------------------------------------------------
(***************************************************************************)
(* Properties.                                                             *)
(***************************************************************************)

\* In every grant the armed deadline leaves exactly the requested cleanup margin
\* before MPSL's end of the grant: through a START that interrupts the vendor
\* call, refused second requests, extensions and chained REQUEST_NORMAL grants.
DeadlineInGrant ==
    InGrant => /\ grant_active
               /\ compare = vlength - cleanup_margin_us
               /\ 0 < compare /\ compare < vlength

\* A RADIO that runs has an owner: nrfkit_radio_release() hands nobody a running
\* radio, also when cleanup_grant() gave up waiting for it.
ActiveRadioOwned == radio = "active" => radio_owner # "none"

\* "RADIO ownership exists only inside a grant": the timeslot owns RADIO exactly
\* there, and outside one RADIO is off unless its direct owner runs it.
OwnerOnlyInGrant == (radio_owner = "timeslot" <=> InGrant) /\ ActiveRadioOwned

\* The flags tell the truth about MPSL's side of the session: session_idle, which
\* lets request_earliest() overwrite the grant parameters, is never set while MPSL
\* has a request or a grant; the platform reference is held exactly while MPSL has
\* the session; and no callback finds application_handler NULL.
SessionAgrees ==
    /\ session_idle => vstate \in {"idle", "closed"} /\ pc \notin {"request", "accepted"}
    /\ (retained <=> vstate # "none") /\ (session_open <=> retained)
    /\ vstate = "requested" \/ InGrant \/ vdeferred # <<>> => application_handler

ClientSession == CASE vstate = "none" -> "none"
                   [] vstate \in {"ending", "closed"} -> "closing"
                   [] OTHER -> "open"

\* The session is a client of MPSL as MpslClient describes it: one reference per
\* session, taken at its opening and returned with SESSION_CLOSED.
Client == INSTANCE MpslClient WITH holds <- retained, session <- ClientSession
ImplementsClient == Client!Spec

\* A grant always ends, as the armed deadline outlasts every handler choice, and
\* with it a session that was closed in the grant: the client is a fair one.
GrantEnds == (grant_active ~> ~grant_active) /\ Client!Fairness
=============================================================================
