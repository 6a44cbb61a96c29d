---------------------------- MODULE UsbGlueProofs ----------------------------
(***************************************************************************)
(* Proofs about module UsbGlue: what holds at rest, from what holds at     *)
(* every statement of init, connect and deinit.                            *)
(***************************************************************************)
EXTENDS UsbGlue, TLAPS

\* An initialized glue has its regulator, its interrupt and MPSL's clock; without it
\* no interrupt is enabled between two calls.
Powered ==
    pc # "halted" =>
        /\ mpsl_clock_requested = clock
        /\ initialized => clock /\ irq /\ vreg /\ pc # "vreg" /\ pc # "irqs"
        /\ ~initialized => /\ ~connected /\ ~attached /\ ~stack
                           /\ pc \in {"idle", "vreg", "irqs"}
        /\ pc = "idle" /\ ~initialized => ~clock /\ ~irq
        /\ pc = "vreg" => vreg /\ ~clock /\ ~irq
        /\ pc = "irqs" => vreg /\ clock /\ irq
        /\ InConnect => connect_requested

\* No request is lost between the test in connect() and the interrupt.
RequestKept ==
    /\ initialized /\ connect_requested /\ vbus_present /\ pc \in {"idle", "event"} => connected
    /\ connected => connect_requested

\* But for the two races, the pending events tell how the cable differs from
\* vbus_present, and connect() goes on only with a cable.
EventsTell ==
    /\ vreg /\ removed /\ ~detected => ~cable
    /\ vreg /\ pc # "halted" /\ ~disturbed =>
        /\ detected => cable
        /\ ~detected /\ ~removed => vbus_present = cable
        /\ InConnect => ~removed
        /\ pc \in {"phy", "flag", "event"} => vbus_present

\* Then PHY, flag and stack follow one another through connect(), and agree outside.
StepsAgree ==
    pc # "halted" /\ ~disturbed =>
        /\ connected => vbus_present /\ attached
        /\ pc \notin {"flag", "event"} => attached = connected
        /\ pc # "event" => stack = connected
        /\ pc = "flag" => attached
        /\ pc = "event" => connected

IInv == TypeOK /\ Powered /\ RequestKept /\ EventsTell /\ StepsAgree

\* Every statement of init, connect and deinit, the interrupt and the cable keep it.
LEMMA Inductive == IInv /\ [Next]_vars => IInv'
  <1> SUFFICES ASSUME IInv, [Next]_vars
               PROVE  IInv'
      OBVIOUS
  <1> USE DEF IInv, InConnect, flagVars, eventVars, clockVars
  <1>1. CASE InitVreg
    <2> USE <1>1 DEF InitVreg
    <2>1. TypeOK'
        BY DEF TypeOK
    <2>2. Powered'
        BY DEF TypeOK, Powered
    <2>3. RequestKept'
        BY DEF TypeOK, Powered, RequestKept, EventsTell
    <2>4. EventsTell'
        BY DEF TypeOK, Powered, EventsTell
    <2>5. StepsAgree'
        BY DEF TypeOK, Powered, RequestKept, EventsTell, StepsAgree
    <2>6. QED
        BY <2>1, <2>2, <2>3, <2>4, <2>5
  <1>2. CASE InitClock
    <2> USE <1>2 DEF InitClock
    <2>1. TypeOK'
        BY DEF TypeOK
    <2>2. Powered'
        BY DEF TypeOK, Powered
    <2>3. RequestKept'
        BY DEF TypeOK, Powered, RequestKept, EventsTell
    <2>4. EventsTell'
        BY DEF TypeOK, Powered, EventsTell
    <2>5. StepsAgree'
        BY DEF TypeOK, Powered, RequestKept, EventsTell, StepsAgree
    <2>6. QED
        BY <2>1, <2>2, <2>3, <2>4, <2>5
  <1>3. CASE InitClockFails
    <2> USE <1>3 DEF InitClockFails
    <2>1. TypeOK'
        BY DEF TypeOK
    <2>2. Powered'
        BY DEF TypeOK, Powered
    <2>3. RequestKept'
        BY DEF TypeOK, Powered, RequestKept, EventsTell
    <2>4. EventsTell'
        BY DEF TypeOK, Powered, EventsTell
    <2>5. StepsAgree'
        BY DEF TypeOK, Powered, RequestKept, EventsTell, StepsAgree
    <2>6. QED
        BY <2>1, <2>2, <2>3, <2>4, <2>5
  <1>4. CASE InitFlags
    <2> USE <1>4 DEF InitFlags
    <2>1. TypeOK'
        BY DEF TypeOK
    <2>2. Powered'
        BY DEF TypeOK, Powered
    <2>3. RequestKept'
        BY DEF TypeOK, Powered, RequestKept, EventsTell
    <2>4. EventsTell'
        BY DEF TypeOK, Powered, EventsTell
    <2>5. StepsAgree'
        BY DEF TypeOK, Powered, RequestKept, EventsTell, StepsAgree
    <2>6. QED
        BY <2>1, <2>2, <2>3, <2>4, <2>5
  <1>5. CASE Deinit
    <2> USE <1>5 DEF Deinit
    <2>1. TypeOK'
        BY DEF TypeOK
    <2>2. Powered'
      <3>1. ~clock' /\ ~mpsl_clock_requested'
          BY DEF TypeOK, Powered
      <3>2. QED
          BY <3>1 DEF Powered
    <2>3. RequestKept'
        BY DEF TypeOK, Powered, RequestKept, EventsTell
    <2>4. EventsTell'
        BY DEF TypeOK, Powered, EventsTell
    <2>5. StepsAgree'
        BY DEF TypeOK, Powered, RequestKept, EventsTell, StepsAgree
    <2>6. QED
        BY <2>1, <2>2, <2>3, <2>4, <2>5
  <1>6. CASE DeinitClockFails
    <2> USE <1>6 DEF DeinitClockFails
    <2>1. TypeOK'
        BY DEF TypeOK
    <2>2. Powered'
        BY DEF TypeOK, Powered
    <2>3. RequestKept'
        BY DEF TypeOK, Powered, RequestKept, EventsTell
    <2>4. EventsTell'
        BY DEF TypeOK, Powered, EventsTell
    <2>5. StepsAgree'
        BY DEF TypeOK, Powered, RequestKept, EventsTell, StepsAgree
    <2>6. QED
        BY <2>1, <2>2, <2>3, <2>4, <2>5
  <1>7. CASE ConnectBegin
    <2> USE <1>7 DEF ConnectBegin
    <2>1. TypeOK'
        BY DEF TypeOK
    <2>2. Powered'
        BY DEF TypeOK, Powered
    <2>3. RequestKept'
        BY DEF TypeOK, Powered, RequestKept, EventsTell
    <2>4. EventsTell'
        BY DEF TypeOK, Powered, EventsTell
    <2>5. StepsAgree'
        BY DEF TypeOK, Powered, RequestKept, EventsTell, StepsAgree
    <2>6. QED
        BY <2>1, <2>2, <2>3, <2>4, <2>5
  <1>8. CASE ConnectTest
    <2> USE <1>8 DEF ConnectTest
    <2>1. TypeOK'
        BY DEF TypeOK
    <2>2. Powered'
        BY DEF TypeOK, Powered
    <2>3. RequestKept'
        BY DEF TypeOK, Powered, RequestKept, EventsTell
    <2>4. EventsTell'
        BY DEF TypeOK, Powered, EventsTell
    <2>5. StepsAgree'
        BY DEF TypeOK, Powered, RequestKept, EventsTell, StepsAgree
    <2>6. QED
        BY <2>1, <2>2, <2>3, <2>4, <2>5
  <1>9. CASE ConnectPhy
    <2> USE <1>9 DEF ConnectPhy
    <2>1. TypeOK'
        BY DEF TypeOK
    <2>2. Powered'
        BY DEF TypeOK, Powered
    <2>3. RequestKept'
        BY DEF TypeOK, Powered, RequestKept, EventsTell
    <2>4. EventsTell'
        BY DEF TypeOK, Powered, EventsTell
    <2>5. StepsAgree'
        BY DEF TypeOK, Powered, RequestKept, EventsTell, StepsAgree
    <2>6. QED
        BY <2>1, <2>2, <2>3, <2>4, <2>5
  <1>10. CASE ConnectFlag
    <2> USE <1>10 DEF ConnectFlag
    <2>1. TypeOK'
        BY DEF TypeOK
    <2>2. Powered'
        BY DEF TypeOK, Powered
    <2>3. RequestKept'
        BY DEF TypeOK, Powered, RequestKept, EventsTell
    <2>4. EventsTell'
        BY DEF TypeOK, Powered, EventsTell
    <2>5. StepsAgree'
        BY DEF TypeOK, Powered, RequestKept, EventsTell, StepsAgree
    <2>6. QED
        BY <2>1, <2>2, <2>3, <2>4, <2>5
  <1>11. CASE ConnectEvent
    <2> USE <1>11 DEF ConnectEvent
    <2>1. TypeOK'
        BY DEF TypeOK
    <2>2. Powered'
        BY DEF TypeOK, Powered
    <2>3. RequestKept'
        BY DEF TypeOK, Powered, RequestKept, EventsTell
    <2>4. EventsTell'
        BY DEF TypeOK, Powered, EventsTell
    <2>5. StepsAgree'
        BY DEF TypeOK, Powered, RequestKept, EventsTell, StepsAgree
    <2>6. QED
        BY <2>1, <2>2, <2>3, <2>4, <2>5
  <1>12. CASE VregusbIrq
    <2> USE <1>12 DEF VregusbIrq, IrqConnects
    <2>1. TypeOK'
        BY DEF TypeOK
    <2>2. Powered'
        BY DEF TypeOK, Powered
    <2>3. RequestKept'
        BY DEF TypeOK, Powered, RequestKept, EventsTell
    <2>4. EventsTell'
        BY DEF TypeOK, Powered, EventsTell
    <2>5. StepsAgree'
        BY DEF TypeOK, Powered, RequestKept, EventsTell, StepsAgree
    <2>6. QED
        BY <2>1, <2>2, <2>3, <2>4, <2>5
  <1>13. CASE CableMoves
    <2> USE <1>13 DEF CableMoves
    <2>1. TypeOK'
        BY DEF TypeOK
    <2>2. Powered'
        BY DEF TypeOK, Powered
    <2>3. RequestKept'
        BY DEF TypeOK, Powered, RequestKept, EventsTell
    <2>4. EventsTell'
        BY DEF TypeOK, Powered, EventsTell
    <2>5. StepsAgree'
        BY DEF TypeOK, Powered, RequestKept, EventsTell, StepsAgree
    <2>6. QED
        BY <2>1, <2>2, <2>3, <2>4, <2>5
  <1>14. CASE UNCHANGED vars
      BY <1>14 DEF vars, TypeOK, Powered, RequestKept, EventsTell, StepsAgree
  <1>15. QED
      BY <1>1, <1>2, <1>3, <1>4, <1>5, <1>6, <1>7, <1>8, <1>9, <1>10, <1>11, <1>12, <1>13, <1>14 DEF Next, MainReturns

\* The glue begins uninitialized, with or without a cable.
LEMMA Initially == Init => IInv
  BY DEF Init, IInv, TypeOK, Powered, RequestKept, EventsTell, StepsAgree, InConnect

\* Every flag of the glue and of its hardware keeps its type.
THEOREM TypeCorrect == Spec => []TypeOK
  <1>1. IInv => TypeOK
      BY DEF IInv
  <1>2. QED
      BY <1>1, Initially, Inductive, PTL DEF Spec

\* At rest the flag, the PHY, the USB stack and the cable agree but for the two races, no
\* deferred request is lost, and MPSL's clock is held exactly while the glue is
\* initialized (usb_dc_low_level_init, nrfkit_usbhs_connect, VREGUSB_IRQHandler).
THEOREM ConnectionAlwaysAgrees == Spec => []ConnectionAgrees
  <1>1. IInv => ConnectionAgrees
    <2> SUFFICES ASSUME IInv
                 PROVE  ConnectionAgrees
        OBVIOUS
    <2> USE DEF IInv, TypeOK, Quiet
    <2>1. Quiet /\ initialized /\ ~disturbed =>
            /\ vbus_present = cable /\ attached = connected /\ stack = connected
            /\ connected => vbus_present /\ connect_requested
        BY DEF Powered, RequestKept, EventsTell, StepsAgree
    <2>2. Quiet /\ initialized /\ connect_requested /\ vbus_present => connected
        BY DEF RequestKept
    <2>3. pc # "halted" => /\ mpsl_clock_requested <=> clock
                           /\ initialized => clock
                           /\ pc = "idle" /\ clock => initialized
        BY DEF Powered
    <2>4. QED
        BY <2>1, <2>2, <2>3 DEF ConnectionAgrees
  <1>2. QED
      BY <1>1, Initially, Inductive, PTL DEF Spec
=============================================================================
