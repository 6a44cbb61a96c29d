------------------------------ MODULE UsbGlue -------------------------------
(***************************************************************************)
(* Cable and connection state of src/usb/nrf54l/usb_glue_dwc2.c, with the  *)
(* MPSL-arbitrated 24 MHz clock of a combined USB and SDC target.          *)
(*                                                                         *)
(* Main context runs usb_dc_low_level_init(), nrfkit_usbhs_connect() (from *)
(* usb_dc_init()) and usb_dc_low_level_deinit(); VREGUSB_IRQHandler runs   *)
(* between any two main steps. pc is where main stands:                    *)
(*   idle     no call under way                                            *)
(*   vreg     init: regulator started, cable sampled                       *)
(*   irqs     init: interrupts enabled, flags not yet set                  *)
(*   wanted   connect: connect_requested set, cable test to come           *)
(*   phy      connect: cable seen, PHY to attach                           *)
(*   flag     connect: PHY attached, connected to be set                   *)
(*   event    connect: connected set, the stack to be told                 *)
(*   halted   nrfkit_assert_fail()                                         *)
(* The regulator latches DETECTED and REMOVED when the cable moves.        *)
(***************************************************************************)
VARIABLES
    initialized, connected, connect_requested, vbus_present,
    mpsl_clock_requested,
    pc,
    cable,              \* the cable is plugged in
    vreg,               \* VREGUSB runs and its interrupts are unmasked
    detected, removed,  \* EVENTS_VBUSDETECTED, EVENTS_VBUSREMOVED
    irq,                \* VREGUSB_IRQn is enabled
    attached,           \* PHY overrides let the host see the device
    stack,              \* CherryUSB's last event was a connect (its deinit forgets)
    clock,              \* MPSL holds the HFCLK24M request
    disturbed           \* the cable was pulled inside connect(), or before its
                        \* plugging in was handled; until a removal is handled

flagVars  == <<initialized, connected, connect_requested, vbus_present>>
eventVars == <<detected, removed>>
clockVars == <<mpsl_clock_requested, clock>>
vars == <<flagVars, eventVars, clockVars, pc, cable, vreg, irq, attached, stack, disturbed>>

TypeOK ==
    /\ initialized \in BOOLEAN /\ connected \in BOOLEAN
    /\ connect_requested \in BOOLEAN /\ vbus_present \in BOOLEAN
    /\ mpsl_clock_requested \in BOOLEAN /\ clock \in BOOLEAN
    /\ cable \in BOOLEAN /\ vreg \in BOOLEAN /\ irq \in BOOLEAN
    /\ detected \in BOOLEAN /\ removed \in BOOLEAN
    /\ attached \in BOOLEAN /\ stack \in BOOLEAN /\ disturbed \in BOOLEAN
    /\ pc \in {"idle", "vreg", "irqs", "wanted", "phy", "flag", "event", "halted"}

Init ==
    /\ initialized = FALSE /\ connected = FALSE /\ connect_requested = FALSE
    /\ vbus_present = FALSE /\ mpsl_clock_requested = FALSE /\ clock = FALSE
    /\ cable \in BOOLEAN /\ vreg = FALSE /\ irq = FALSE
    /\ detected = FALSE /\ removed = FALSE
    /\ attached = FALSE /\ stack = FALSE /\ disturbed = FALSE
    /\ pc = "idle"

-----------------------------------------------------------------------------
InConnect == pc \in {"wanted", "phy", "flag", "event"}

(***************************************************************************)
(* usb_dc_low_level_init()                                                 *)
(***************************************************************************)

\* The regulator is restarted and its events cleared; with a cable DETECTED is
\* latched again, in time for the sample or after it.
InitVreg ==
    /\ pc = "idle" /\ ~initialized
    /\ vreg' = TRUE /\ removed' = FALSE
    /\ \E seen \in BOOLEAN :
        /\ vbus_present' = (cable /\ seen)
        /\ detected' = (cable /\ ~seen)
    /\ pc' = "vreg"
    /\ UNCHANGED <<initialized, connected, connect_requested, clockVars, cable, irq,
                   attached, stack, disturbed>>

\* The clock is requested from MPSL and polled; PHY and core are enabled with
\* VBUS overridden off; the interrupts are enabled.
InitClock ==
    /\ pc = "vreg"
    /\ mpsl_clock_requested' = TRUE /\ clock' = TRUE
    /\ attached' = FALSE
    /\ irq' = TRUE
    /\ pc' = "irqs"
    /\ UNCHANGED <<flagVars, eventVars, cable, vreg, stack, disturbed>>

\* The request is refused, or the clock does not run in time: it is released, the
\* result of that is ignored, and the call ends in nrfkit_assert_fail().
InitClockFails ==
    /\ pc = "vreg"
    /\ mpsl_clock_requested' = FALSE /\ clock' \in BOOLEAN
    /\ pc' = "halted"
    /\ UNCHANGED <<flagVars, eventVars, cable, vreg, irq, attached, stack, disturbed>>

InitFlags ==
    /\ pc = "irqs"
    /\ initialized' = TRUE /\ connected' = FALSE /\ connect_requested' = FALSE
    /\ pc' = "idle"
    /\ UNCHANGED <<vbus_present, eventVars, clockVars, cable, vreg, irq, attached, stack,
                   disturbed>>

(***************************************************************************)
(* usb_dc_low_level_deinit(): interrupts are off first, so it is one step. *)
(***************************************************************************)

Deinit ==
    /\ pc = "idle"
    /\ irq' = FALSE /\ attached' = FALSE /\ vreg' = FALSE
    /\ initialized' = FALSE /\ connected' = FALSE
    /\ connect_requested' = FALSE /\ vbus_present' = FALSE
    /\ IF mpsl_clock_requested
       THEN mpsl_clock_requested' = FALSE /\ clock' = FALSE
       ELSE UNCHANGED clockVars
    /\ stack' = FALSE
    /\ UNCHANGED <<eventVars, pc, cable, disturbed>>

\* MPSL refuses to release the clock: assertion, ownership stays recorded.
DeinitClockFails ==
    /\ pc = "idle" /\ mpsl_clock_requested
    /\ irq' = FALSE /\ attached' = FALSE
    /\ initialized' = FALSE /\ connected' = FALSE
    /\ connect_requested' = FALSE /\ vbus_present' = FALSE
    /\ pc' = "halted"
    /\ UNCHANGED <<eventVars, clockVars, cable, vreg, stack, disturbed>>

(***************************************************************************)
(* nrfkit_usbhs_connect()                                                  *)
(***************************************************************************)

\* Nothing to do when connected, an error before init.
ConnectBegin ==
    /\ pc = "idle" /\ ~connected /\ initialized
    /\ connect_requested' = TRUE
    /\ disturbed' = (disturbed \/ removed)
    /\ pc' = "wanted"
    /\ UNCHANGED <<initialized, connected, vbus_present, eventVars, clockVars, cable, vreg,
                   irq, attached, stack>>

\* Without a cable the connection is left to the interrupt.
ConnectTest ==
    /\ pc = "wanted"
    /\ pc' = IF vbus_present THEN "phy" ELSE "idle"
    /\ UNCHANGED <<flagVars, eventVars, clockVars, cable, vreg, irq, attached, stack, disturbed>>

ConnectPhy ==
    /\ pc = "phy"
    /\ attached' = TRUE
    /\ pc' = "flag"
    /\ UNCHANGED <<flagVars, eventVars, clockVars, cable, vreg, irq, stack, disturbed>>

ConnectFlag ==
    /\ pc = "flag"
    /\ connected' = TRUE
    /\ pc' = "event"
    /\ UNCHANGED <<initialized, connect_requested, vbus_present, eventVars, clockVars,
                   cable, vreg, irq, attached, stack, disturbed>>

ConnectEvent ==
    /\ pc = "event"
    /\ stack' = TRUE
    /\ pc' = "idle"
    /\ UNCHANGED <<flagVars, eventVars, clockVars, cable, vreg, irq, attached, disturbed>>

-----------------------------------------------------------------------------
(***************************************************************************)
(* VREGUSB_IRQHandler: REMOVED first, then DETECTED.                       *)
(***************************************************************************)

\* Mutant of IrqConnects: the interrupt connects without a recorded request.
MutantIrqConnects(connectedNow) == initialized /\ ~connectedNow
\* Mutant of IrqConnects: a deferred request is never honoured.
MutantIrqIgnores(connectedNow) == FALSE
IrqConnects(connectedNow) == initialized /\ connect_requested /\ ~connectedNow

VregusbIrq ==
    LET connectedNow == connected /\ ~removed
        connects     == detected /\ IrqConnects(connectedNow)
    IN
    /\ irq /\ vreg /\ (detected \/ removed) /\ pc # "halted"
    /\ detected' = FALSE /\ removed' = FALSE
    /\ vbus_present' = IF detected THEN TRUE ELSE IF removed THEN FALSE ELSE vbus_present
    /\ connected' = (connectedNow \/ connects)
    /\ attached' = ((attached /\ ~removed) \/ connects)
    /\ stack' = IF connects THEN TRUE ELSE IF removed /\ initialized THEN FALSE ELSE stack
    /\ disturbed' = (disturbed /\ (~removed \/ detected \/ InConnect))
    /\ UNCHANGED <<initialized, connect_requested, clockVars, pc, cable, vreg, irq>>

\* The cable is plugged in or pulled; a running regulator latches the event.
CableMoves ==
    /\ cable' = ~cable
    /\ detected' = (detected \/ (vreg /\ ~cable))
    /\ removed' = (removed \/ (vreg /\ cable))
    /\ disturbed' = (disturbed \/ (cable /\ (InConnect \/ detected)))
    /\ UNCHANGED <<flagVars, clockVars, pc, vreg, irq, attached, stack>>

-----------------------------------------------------------------------------
MainReturns == InitClock \/ InitClockFails \/ InitFlags \/ ConnectTest
               \/ ConnectPhy \/ ConnectFlag \/ ConnectEvent

Next == InitVreg \/ MainReturns \/ Deinit \/ DeinitClockFails \/ ConnectBegin
        \/ VregusbIrq \/ CableMoves

Spec == Init /\ [][Next]_vars

\* A call under way goes on, and a pending enabled interrupt is taken.
Fairness == WF_vars(MainReturns) /\ WF_vars(VregusbIrq)
FairSpec == Spec /\ Fairness

-----------------------------------------------------------------------------
(***************************************************************************)
(* Properties.                                                             *)
(***************************************************************************)

\* No call and no event is under way.
Quiet == pc = "idle" /\ ~detected /\ ~removed

\* At rest the flag, the PHY, the USB stack and the cable agree: the device is
\* attached exactly when it is connected, the stack was told, and only with VBUS.
\* This holds but for the two races that disturbed names, and again after the next
\* removal that is handled outside them. Races or not, a request made before the
\* cable came is not lost between the test in connect() and the interrupt, and
\* short of a failed assertion MPSL's clock is neither leaked nor dropped early.
ConnectionAgrees ==
    /\ Quiet /\ initialized /\ ~disturbed =>
        /\ vbus_present = cable
        /\ attached = connected
        /\ stack = connected
        /\ connected => vbus_present /\ connect_requested
    /\ Quiet /\ initialized /\ connect_requested /\ vbus_present => connected
    /\ pc # "halted" =>
        /\ mpsl_clock_requested <=> clock
        /\ initialized => clock
        /\ pc = "idle" /\ clock => initialized

\* "derives VBUS state from the documented VBUSDETECTED/VBUSREMOVED events": at
\* rest vbus_present is the cable's state.
VbusFollowsCable == Quiet /\ initialized => vbus_present = cable

\* "either connects immediately or defers it until the documented VBUS-detected
\* interrupt": at rest a requested device with VBUS is attached to the bus.
RequestedIsAttached ==
    Quiet /\ initialized /\ connect_requested /\ vbus_present => attached

\* A plugged cable eventually attaches a device that asked for it (races aside).
PlugAttaches ==
    (initialized /\ connect_requested /\ cable)
        ~> (attached \/ ~cable \/ ~connect_requested \/ disturbed)
=============================================================================
