----------------------------- MODULE RramProofs -----------------------------
(***************************************************************************)
(* Proofs about module Rram, for every unit size, memory layout, set of    *)
(* regions, sizes and buffers, and every clock.                            *)
(***************************************************************************)
EXTENDS Rram, TLAPS

\* The session, the reference and the pending result live together, process() is
\* under way only with a session, and only process() closes it.
SessionLives ==
    /\ (opened <=> vstate # "none") /\ (retained <=> opened)
    /\ (result = "EINPROGRESS" <=> opened)
    /\ (closing => opened) /\ (pc # "idle" => opened)
    /\ (pc = "close" => closing) /\ (pc \in {"check", "request"} => ~closing)
    /\ vstate = "closed" => closing /\ pc = "idle"
    /\ pc = "request" => vstate = "idle" /\ ~idle
    /\ vstate = "requested" => ~idle

\* MPSL owes main at most one signal about a request, and only while idle is clear;
\* then at most SESSION_CLOSED.
DeferredShape ==
    \/ vdeferred = <<>> /\ vstate # "closed"
    \/ vdeferred = <<"CLOSED">> /\ vstate = "closed"
    \/ \E signal \in DeferredSignals \ {"CLOSED"} :
        /\ ~idle
        /\ \/ vdeferred = <<signal>> /\ vstate = "idle" /\ pc # "request"
           \/ vdeferred = <<signal, "CLOSED">> /\ vstate = "closed"

\* The accepted job passed the argument checks and is what the client works on: a
\* whole number of units is done and a whole number remains.
JobTracked ==
    opened =>
        /\ Accepts(job.region, job.address, job.size)
        /\ destination = job.address /\ offset + remaining = job.size
        /\ offset % UnitSize = 0 /\ remaining % UnitSize = 0
        /\ \A o \in Offsets : o < job.size => buffer[o] = job.data[o]
        /\ \A o \in Offsets : o < offset => flash[destination + o] = job.data[o]

\* A session closes without an error only when nothing remains to be written.
ClosesComplete == closing /\ operation_result = "OK" => remaining = 0

\* age is how far the counter is ahead of started, until age reaches its bound.
ClockTracked ==
    opened /\ age < Timeout + MaxGap =>
        now = started + age \/ now = started + age - Wrap

\* process() saw no expired deadline when it last ran.
DeadlineSeen == opened /\ operation_result = "OK" /\ ~closing => age < Timeout + gap

\* A timeout is reported only after the time.
TimeoutTrue == opened /\ operation_result = "ETIMEDOUT" => age >= Timeout

IInv == /\ TypeOK /\ SessionLives /\ DeferredShape /\ JobTracked /\ ClosesComplete
        /\ VerifiedMeansWritten /\ ClockTracked /\ DeadlineSeen /\ TimeoutTrue

-----------------------------------------------------------------------------
(***************************************************************************)
(* Arithmetic of whole units and of the wrapping counter.                  *)
(***************************************************************************)

\* What appending to, and delivering from, a queue of at most two deferred signals
\* (mpsl_low_priority_process() hands out the oldest) leaves in it.
LEMMA DeferredQueue ==
  ASSUME NEW first \in DeferredSignals, NEW second \in DeferredSignals
  PROVE  /\ <<>> \in Seq(DeferredSignals) /\ <<first>> \in Seq(DeferredSignals)
         /\ <<first, second>> \in Seq(DeferredSignals)
         /\ Append(<<>>, first) = <<first>> /\ Append(<<first>>, second) = <<first, second>>
         /\ Head(<<first>>) = first /\ Tail(<<first>>) = <<>>
         /\ Head(<<first, second>>) = first /\ Tail(<<first, second>>) = <<second>>
  <1> DEFINE a == Append(<<first>>, second)
             b == <<first, second>>
  <1>1. <<first>> \in Seq(DeferredSignals) /\ a \in Seq(DeferredSignals)
        /\ b \in Seq(DeferredSignals)
      OBVIOUS
  <1>2. Len(a) = 2 /\ a[1] = first /\ a[2] = second
      OBVIOUS
  <1>3. Len(b) = 2 /\ b[1] = first /\ b[2] = second
      OBVIOUS
  <1> HIDE DEF a, b
  <1>4. a = b
      BY <1>1, <1>2, <1>3
  <1> USE DEF a, b
  <1>5. QED
      BY <1>1, <1>4

\* The queue stays a sequence of deferred signals when MPSL adds one.
LEMMA DeferredAppend ==
  ASSUME vdeferred \in Seq(DeferredSignals), NEW signal \in DeferredSignals
  PROVE  Append(vdeferred, signal) \in Seq(DeferredSignals)
  OBVIOUS

\* A multiple of the unit is a whole number of units, and not less than one.
LEMMA WholeUnits ==
  ASSUME NEW unit \in Nat \ {0}, NEW a \in Nat, a % unit = 0
  PROVE  (\E q \in Nat : a = unit * q) /\ (a # 0 => a >= unit)
  <1>1. a \div unit \in Nat /\ a = unit * (a \div unit)
      OBVIOUS
  <1>2. a # 0 => a >= unit
      OBVIOUS
  <1>3. QED
      BY <1>1, <1>2

\* Sums and differences of multiples of the unit are multiples of it.
LEMMA UnitSums ==
  ASSUME NEW unit \in Nat \ {0}, NEW a \in Nat, NEW b \in Nat, a % unit = 0, b % unit = 0
  PROVE  (a + b) % unit = 0 /\ (a - b) % unit = 0
  <1>1. PICK p \in Nat : a = unit * p
      BY WholeUnits
  <1>2. PICK q \in Nat : b = unit * q
      BY WholeUnits
  <1>3. a + b = unit * (p + q) /\ a - b = unit * (p - q)
      BY <1>1, <1>2
  <1>4. \A n \in Int : (unit * n) % unit = 0
      OBVIOUS
  <1>5. (unit * (p + q)) % unit = 0 /\ (unit * (p - q)) % unit = 0
      BY <1>4
  <1>6. QED
      BY <1>3, <1>5, Zenon

\* No multiple of the unit lies strictly inside a unit.
LEMMA UnitsApart ==
  ASSUME NEW unit \in Nat \ {0}, NEW a \in Nat, NEW b \in Nat, a % unit = 0, b % unit = 0,
         b < a + unit
  PROVE  b <= a
  <1>1. (b - a) % unit = 0
      BY UnitSums
  <1>2. b > a => b - a \in Nat /\ b - a # 0
      OBVIOUS
  <1>3. b > a => b - a >= unit
      BY <1>1, <1>2, WholeUnits
  <1>4. QED
      BY <1>3

\* The counter's difference, taken modulo its width, is the true distance as long
\* as that is less than one revolution.
LEMMA WrappedDifference ==
  ASSUME NEW wrap \in Nat \ {0}, NEW distance \in 0..(wrap - 1), NEW from \in 0..(wrap - 1),
         NEW to \in 0..(wrap - 1),
         to = from + distance \/ to = from + distance - wrap
  PROVE  (to - from) % wrap = distance
  <1>1. distance % wrap = distance /\ (distance - wrap) % wrap = distance
      OBVIOUS
  <1>2. to - from = distance \/ to - from = distance - wrap
      OBVIOUS
  <1>3. QED
      BY <1>1, <1>2, Zenon

\* The counter advances by one, or wraps to zero.
LEMMA CounterAdvances ==
  ASSUME NEW wrap \in Nat \ {0}, NEW from \in 0..(wrap - 1)
  PROVE  /\ (from + 1) % wrap \in 0..(wrap - 1)
         /\ (from + 1) % wrap = IF from + 1 = wrap THEN 0 ELSE from + 1
  OBVIOUS

-----------------------------------------------------------------------------
\* A unit written by the START callback lies in RRAM and in the caller's data, and
\* the transaction's whole units stay whole.
LEMMA WriteLands ==
  ASSUME IInv, opened, MayWrite
  PROVE  /\ destination + offset \in Units /\ offset \in Offsets /\ offset < job.size
         /\ remaining >= UnitSize
         /\ (offset + UnitSize) % UnitSize = 0 /\ (remaining - UnitSize) % UnitSize = 0
         /\ \A o \in Offsets : o < offset + UnitSize => o <= offset
  <1>1. /\ UnitSize \in Nat \ {0} /\ Limit \in Nat /\ Top \in Nat /\ MaxWrite \in Nat /\ Limit <= Top + 1
      BY GeometryAssumption
  <1>2. /\ offset \in Nat /\ remaining \in Nat /\ remaining # 0 /\ destination \in Nat
        /\ job.size \in Nat /\ job.address \in Nat
        /\ job.region.origin \in Nat /\ job.region.length \in Nat
      BY DEF IInv, TypeOK, Jobs, MayWrite
  <1>3. /\ Accepts(job.region, job.address, job.size)
        /\ destination = job.address /\ offset + remaining = job.size
        /\ offset % UnitSize = 0 /\ remaining % UnitSize = 0
      BY DEF IInv, JobTracked
  <1>4. offset < job.size /\ offset \in Offsets
      BY <1>1, <1>2, <1>3 DEF Accepts, Offsets
  <1>5. destination + offset \in 0..Top
      BY <1>1, <1>2, <1>3 DEF Accepts
  <1>6. (destination + offset) % UnitSize = 0
      BY <1>1, <1>2, <1>3, UnitSums DEF Accepts
  <1>7. remaining >= UnitSize
      BY <1>1, <1>2, <1>3, WholeUnits
  <1>8. UnitSize % UnitSize = 0
      BY <1>1
  <1>9. (offset + UnitSize) % UnitSize = 0 /\ (remaining - UnitSize) % UnitSize = 0
      BY <1>1, <1>2, <1>3, <1>8, UnitSums
  <1>10. ASSUME NEW o \in Offsets, o < offset + UnitSize PROVE o <= offset
    <2>1. o \in Nat /\ o % UnitSize = 0
        BY <1>1 DEF Offsets
    <2>2. QED
        BY <1>1, <1>2, <1>3, <1>10, <2>1, UnitsApart
  <1>11. QED
      BY <1>4, <1>5, <1>6, <1>7, <1>9, <1>10 DEF Units

-----------------------------------------------------------------------------
\* After reset nothing is open, nothing is owed, and the empty job is written.
LEMMA InitIInv == Init => IInv
  <1> SUFFICES ASSUME Init PROVE IInv
      OBVIOUS
  <1>1. vdeferred = <<>> /\ vdeferred \in Seq(DeferredSignals)
      BY DeferredQueue DEF Init, SessionInit, DeferredSignals
  <1>2. TypeOK
    <2>1. /\ job \in Jobs /\ buffer \in [Offsets -> Cells] /\ flash \in [Units -> Cells]
        BY GeometryAssumption DEF Init, NoJob, Jobs
    <2>2. 0 \in 0..(Wrap - 1) /\ 0 \in 0..(Timeout + MaxGap) /\ 0 \in 0..MaxGap
        BY ClockAssumption
    <2>3. QED
        BY <1>1, <2>1, <2>2 DEF Init, SessionInit, TypeOK
  <1>3. SessionLives /\ DeferredShape
      BY <1>1 DEF Init, SessionInit, SessionLives, DeferredShape
  <1>4. JobTracked /\ ClosesComplete /\ ClockTracked /\ DeadlineSeen /\ TimeoutTrue
      BY DEF Init, JobTracked, ClosesComplete, ClockTracked, DeadlineSeen, TimeoutTrue
  <1>5. VerifiedMeansWritten
    <2>1. \A o \in Offsets : ~(o < 0)
        BY GeometryAssumption DEF Offsets
    <2>2. QED
        BY <2>1 DEF Init, NoJob, VerifiedMeansWritten
  <1>6. QED
      BY <1>2, <1>3, <1>4, <1>5 DEF IInv

\* The deferred signals after a step of MPSL, spelled out.
LEMMA QueueStep ==
  ASSUME IInv
  PROVE  /\ VendorEnd /\ vstate = "requested" => vstate' = "idle" /\ vdeferred' = <<"IDLE">>
         /\ VendorDrops => \E signal \in {"BLOCKED", "CANCELLED"} : vdeferred' = <<signal>>
         /\ VendorClose /\ vdeferred = <<>> => vdeferred' = <<"CLOSED">>
         /\ VendorClose => \A first \in DeferredSignals :
                vdeferred = <<first>> => vdeferred' = <<first, "CLOSED">>
         /\ DeliverClosed => vstate = "closed" /\ vdeferred' = <<>>
         /\ \A signal \in DeferredSignals : Deliver(signal) =>
                \/ vdeferred' = <<>> /\ vstate = "idle"
                \/ vdeferred' = <<"CLOSED">> /\ vstate = "closed"
  <1> USE DEF DeferredSignals
  <1>1. vstate \in {"none", "idle", "requested", "closed"} /\ DeferredShape
      BY DEF IInv, TypeOK
  <1>2. \A x \in DeferredSignals : /\ Append(<<>>, x) = <<x>> /\ Head(<<x>>) = x
                                   /\ Tail(<<x>>) = <<>>
      BY DeferredQueue
  <1>3. \A x \in DeferredSignals : /\ Append(<<x>>, "CLOSED") = <<x, "CLOSED">>
                                   /\ Head(<<x, "CLOSED">>) = x
                                   /\ Tail(<<x, "CLOSED">>) = <<"CLOSED">>
      BY DeferredQueue
  <1>4. VendorEnd /\ vstate = "requested" => vstate' = "idle" /\ vdeferred' = <<"IDLE">>
      BY <1>1, <1>2 DEF VendorEnd, DeferredShape
  <1>5. VendorDrops => \E signal \in {"BLOCKED", "CANCELLED"} : vdeferred' = <<signal>>
      BY <1>1, <1>2 DEF VendorDrops, DeferredShape
  <1>6. VendorClose => vdeferred' = Append(vdeferred, "CLOSED")
      BY <1>1 DEF VendorClose
  <1>7. DeliverClosed => vstate = "closed" /\ vdeferred' = <<>>
    <2> SUFFICES ASSUME DeliverClosed PROVE vstate = "closed" /\ vdeferred' = <<>>
        OBVIOUS
    <2>1. vdeferred # <<>> /\ Head(vdeferred) = "CLOSED" /\ vdeferred' = Tail(vdeferred)
        BY DEF DeliverClosed, VendorDelivers
    <2>2. QED
        BY <1>1, <1>2, <1>3, <2>1 DEF DeferredShape
  <1>8. ASSUME NEW signal \in DeferredSignals, Deliver(signal)
        PROVE  \/ vdeferred' = <<>> /\ vstate = "idle"
               \/ vdeferred' = <<"CLOSED">> /\ vstate = "closed"
    <2>1. vdeferred # <<>> /\ Head(vdeferred) # "CLOSED" /\ vdeferred' = Tail(vdeferred)
        BY <1>8 DEF Deliver, VendorDelivers
    <2>2. QED
        BY <1>1, <1>2, <1>3, <2>1 DEF DeferredShape
  <1>9. QED
      BY <1>2, <1>3, <1>4, <1>5, <1>6, <1>7, <1>8

\* Every step keeps the types: a unit is written only inside RRAM, remaining does
\* not go below zero, and the counter stays in its width.
LEMMA TypeStep == IInv /\ [Next]_vars => TypeOK'
  <1> SUFFICES ASSUME IInv, [Next]_vars PROVE TypeOK'
      OBVIOUS
  <1>0. \A first, second \in DeferredSignals :
            /\ <<>> \in Seq(DeferredSignals) /\ <<first>> \in Seq(DeferredSignals)
            /\ <<first, second>> \in Seq(DeferredSignals)
      BY DeferredQueue
  <1> USE DEF TypeOK, bufferVars, unitVars, flagVars, timeVars, sessionVars
  <1>t. TypeOK /\ SessionLives
      BY DEF IInv
  <1>1. ASSUME NEW region \in Regions, NEW address \in 0..Top, NEW data \in Contents,
               NEW size \in Sizes, Submit(region, address, data, size)
        PROVE  TypeOK'
    <2>1. region \in [origin : Nat, length : Nat] /\ address \in Nat /\ size \in Nat
          /\ data \in [Offsets -> Cells]
        BY GeometryAssumption
    <2>2. /\ buffer' \in [Offsets -> Cells] /\ destination' \in Nat /\ remaining' \in Nat
          /\ offset' = 0 /\ operation_result' = "OK"
          /\ idle' \in BOOLEAN /\ closing' \in BOOLEAN /\ retry' \in BOOLEAN
        BY <1>1, <1>t, <2>1 DEF Submit, Prepare
    <2>3. job' \in Jobs
        BY <1>1, <1>t, <2>1 DEF Submit, Jobs
    <2>4. vstate' \in {"none", "idle", "requested", "closed"} /\ vlength' \in Nat
          /\ vdeferred' \in Seq(DeferredSignals)
      <3>1. CASE VendorOpen
          BY <1>0, <3>1 DEF VendorOpen, DeferredSignals
      <3>2. CASE UNCHANGED sessionVars
          BY <1>t, <3>2
      <3>3. QED
          BY <1>1, <3>1, <3>2 DEF Submit
    <2>5. /\ started' \in 0..(Wrap - 1) /\ age' \in 0..(Timeout + MaxGap) /\ gap' \in 0..MaxGap
          /\ result' \in {"OK", "EINPROGRESS"} \union Errors /\ opened' \in BOOLEAN
          /\ retained' \in BOOLEAN
      <3>1. CASE /\ started' = now /\ age' = 0 /\ gap' = 0 /\ result' = "EINPROGRESS"
                 /\ opened' = TRUE /\ retained' = TRUE
          BY <1>t, <3>1, ClockAssumption
      <3>2. CASE UNCHANGED <<retained, started, opened, result, age, gap>>
          BY <1>t, <3>2
      <3>3. QED
          BY <1>1, <3>1, <3>2 DEF Submit
    <2>6. QED
        BY <1>1, <1>t, <2>2, <2>3, <2>4, <2>5 DEF Submit
  <1>2. CASE ProcessBegin
      BY <1>2, <1>t, ClockAssumption DEF ProcessBegin, Errors
  <1>3. CASE ProcessCheck
      BY <1>3, <1>t, ZenonT(60) DEF ProcessCheck, IdleOnceRequested
  <1>4. CASE CloseAccepted
    <2>0. vstate' = "closed" /\ vlength' = 0 /\ vdeferred' = Append(vdeferred, "CLOSED")
        BY <1>4, <1>t DEF CloseAccepted, VendorClose
    <2>1. vdeferred' \in Seq(DeferredSignals)
      <3>1. "CLOSED" \in DeferredSignals /\ vdeferred \in Seq(DeferredSignals)
          BY <1>t DEF DeferredSignals
      <3>2. Append(vdeferred, "CLOSED") \in Seq(DeferredSignals)
          BY <3>1, DeferredAppend
      <3>3. QED
          BY <2>0, <3>2
    <2>2. QED
        BY <1>4, <1>t, <2>0, <2>1 DEF CloseAccepted
  <1>5. CASE CloseRefused
      BY <1>5, <1>t DEF CloseRefused, Errors
  <1>6. CASE RequestAccepted
      BY <1>6, <1>t DEF RequestAccepted, VendorRequest
  <1>7. CASE RequestRefused
      BY <1>7, <1>t DEF RequestRefused, Errors
  <1>8. CASE DeliverClosed
    <2>1. vdeferred' \in Seq(DeferredSignals) /\ vstate' = "none" /\ UNCHANGED vlength
        BY <1>8, <1>0, QueueStep DEF DeliverClosed, VendorDelivers, DeferredSignals
    <2>2. QED
        BY <1>8, <1>t, <2>1 DEF DeliverClosed, ResultWhenClosed
  <1>9. ASSUME NEW signal \in DeferredSignals, Deliver(signal) PROVE TypeOK'
    <2>1. vdeferred' \in Seq(DeferredSignals) /\ UNCHANGED <<vstate, vlength>>
        BY <1>9, <1>0, QueueStep DEF Deliver, VendorDelivers, DeferredSignals
    <2>2. QED
        BY <1>9, <1>t, <2>1 DEF Deliver
  <1>10. CASE Start
    <2>1. vdeferred' \in Seq(DeferredSignals) /\ vstate' = "idle" /\ vlength' = 0 /\ opened
        BY <1>10, <1>0, <1>t, QueueStep DEF Start, VendorEnd, DeferredSignals, SessionLives
    <2>2. /\ operation_result' \in {"OK"} \union Errors /\ flash' \in [Units -> Cells]
          /\ remaining' \in Nat /\ offset' \in Nat /\ retry' \in BOOLEAN
      <3>1. CASE MayWrite /\ WriteUnit
        <4>1. remaining >= UnitSize /\ UnitSize \in Nat
            BY <2>1, <3>1, WriteLands, GeometryAssumption
        <4>2. CASE operation_result' = "EAGAIN" /\ UNCHANGED <<flash, unitVars>>
            BY <1>t, <4>2 DEF Errors
        <4>3. ASSUME NEW cell \in Cells,
                     flash' = [flash EXCEPT ![destination + offset] = cell],
                     \/ /\ offset' = offset + UnitSize /\ remaining' = remaining - UnitSize
                        /\ retry' = FALSE /\ UNCHANGED operation_result
                     \/ operation_result' = "EIO" /\ UNCHANGED unitVars
              PROVE  /\ operation_result' \in {"OK"} \union Errors /\ flash' \in [Units -> Cells]
                     /\ remaining' \in Nat /\ offset' \in Nat /\ retry' \in BOOLEAN
          <5>1. flash' \in [Units -> Cells]
              BY <1>t, <4>3
          <5>2. remaining \in Nat /\ offset \in Nat /\ retry \in BOOLEAN
                /\ operation_result \in {"OK"} \union Errors
              BY <1>t
          <5>3. CASE operation_result' = "EIO" /\ UNCHANGED unitVars
              BY <5>1, <5>2, <5>3 DEF Errors
          <5>4. CASE /\ offset' = offset + UnitSize /\ remaining' = remaining - UnitSize
                     /\ retry' = FALSE /\ UNCHANGED operation_result
            <6>1. offset' \in Nat /\ remaining' \in Nat
                BY <4>1, <5>2, <5>4
            <6>2. QED
                BY <5>1, <5>2, <5>4, <6>1
          <5>5. QED
              BY <4>3, <5>3, <5>4
        <4>4. QED
            BY <3>1, <4>2, <4>3 DEF WriteUnit
      <3>2. QED
          BY <1>10, <1>t, <3>1 DEF Start
    <2>3. QED
        BY <1>10, <1>t, <2>1, <2>2 DEF Start
  <1>11. CASE StartResets
    <2>1. job' \in Jobs /\ buffer' \in [Offsets -> Cells] /\ flash' \in [Units -> Cells]
      <3>1. PICK cell \in Cells : flash' = [flash EXCEPT ![destination + offset] = cell]
          BY <1>11 DEF StartResets
      <3>2. flash' \in [Units -> Cells]
          BY <1>t, <3>1
      <3>3. QED
          BY <1>11, <3>2, GeometryAssumption DEF StartResets, NoJob, Jobs
    <2>2. 0 \in 0..(Wrap - 1) /\ 0 \in 0..(Timeout + MaxGap) /\ 0 \in 0..MaxGap
        BY ClockAssumption
    <2>3. QED
        BY <1>11, <1>0, <1>t, <2>1, <2>2 DEF StartResets, DeferredSignals
  <1>12. CASE OtherSignal
      BY <1>12, <1>t DEF OtherSignal, Errors
  <1>13. CASE Drop
    <2>1. vdeferred' \in Seq(DeferredSignals) /\ vstate' = "idle" /\ vlength' = 0
        BY <1>13, <1>0, QueueStep DEF Drop, VendorDrops, DeferredSignals
    <2>2. QED
        BY <1>13, <1>t, <2>1 DEF Drop
  <1>14. CASE Tick
    <2>1. now' \in 0..(Wrap - 1)
        BY <1>14, <1>t, CounterAdvances, ClockAssumption DEF Tick
    <2>2. QED
        BY <1>14, <1>t, <2>1, ClockAssumption DEF Tick
  <1>15. CASE UNCHANGED vars
      BY <1>15, <1>t DEF vars
  <1>16. QED
      BY <1>1, <1>2, <1>3, <1>4, <1>5, <1>6, <1>7, <1>8, <1>9, <1>10, <1>11, <1>12, <1>13,
         <1>14, <1>15 DEF Next, CallReturns, DeliverSome

\* Every step keeps the flags and the queue in step with MPSL's session.
LEMMA SessionStep == IInv /\ [Next]_vars => SessionLives' /\ DeferredShape'
  <1> SUFFICES ASSUME IInv, [Next]_vars PROVE SessionLives' /\ DeferredShape'
      OBVIOUS
  <1>t. /\ SessionLives /\ DeferredShape
        /\ vstate \in {"none", "idle", "requested", "closed"}
        /\ pc \in {"idle", "check", "close", "request"}
        /\ opened \in BOOLEAN /\ idle \in BOOLEAN /\ closing \in BOOLEAN /\ retained \in BOOLEAN
        /\ operation_result # "EINPROGRESS"
      BY DEF IInv, TypeOK, Errors
  <1> USE <1>t DEF SessionLives, DeferredShape, DeferredSignals, bufferVars, unitVars, flagVars,
      timeVars, sessionVars
  <1>1. ASSUME NEW region \in Regions, NEW address \in 0..Top, NEW data \in Contents,
               NEW size \in Sizes, Submit(region, address, data, size)
        PROVE  SessionLives' /\ DeferredShape'
      BY <1>1 DEF Submit, Prepare, Ready, VendorOpen
  <1>2. CASE ProcessBegin
      BY <1>2 DEF ProcessBegin
  <1>3. CASE ProcessCheck
      BY <1>3 DEF ProcessCheck, IdleOnceRequested
  <1>4. CASE CloseAccepted
    <2>1. \/ vdeferred' = <<"CLOSED">>
          \/ ~idle /\ \E signal \in DeferredSignals \ {"CLOSED"} : vdeferred' = <<signal, "CLOSED">>
        BY <1>4, QueueStep DEF CloseAccepted, VendorClose
    <2>2. QED
        BY <1>4, <2>1 DEF CloseAccepted, VendorClose
  <1>5. CASE CloseRefused
      BY <1>5 DEF CloseRefused
  <1>6. CASE RequestAccepted
      BY <1>6 DEF RequestAccepted, VendorRequest
  <1>7. CASE RequestRefused
      BY <1>7 DEF RequestRefused
  <1>8. CASE DeliverClosed
      BY <1>8, QueueStep DEF DeliverClosed, VendorDelivers, ResultWhenClosed
  <1>9. ASSUME NEW signal \in DeferredSignals, Deliver(signal)
        PROVE  SessionLives' /\ DeferredShape'
      BY <1>9, QueueStep DEF Deliver, VendorDelivers
  <1>10. CASE Start
    <2>1. vstate' = "idle" /\ vdeferred' = <<"IDLE">>
        BY <1>10, QueueStep DEF Start
    <2>2. QED
        BY <1>10, <2>1 DEF Start
  <1>11. CASE StartResets
      BY <1>11 DEF StartResets
  <1>12. CASE OtherSignal
      BY <1>12 DEF OtherSignal
  <1>13. CASE Drop
    <2>1. PICK signal \in {"BLOCKED", "CANCELLED"} : vdeferred' = <<signal>>
        BY <1>13, QueueStep DEF Drop
    <2>2. QED
        BY <1>13, <2>1 DEF Drop, VendorDrops
  <1>14. CASE Tick
      BY <1>14 DEF Tick
  <1>15. CASE UNCHANGED vars
      BY <1>15 DEF vars
  <1>16. QED
      BY <1>1, <1>2, <1>3, <1>4, <1>5, <1>6, <1>7, <1>8, <1>9, <1>10, <1>11, <1>12, <1>13,
         <1>14, <1>15 DEF Next, CallReturns, DeliverSome

\* Every step keeps the counter's distance, the deadline and the reported timeout.
LEMMA ClockStep == IInv /\ [Next]_vars => ClockTracked' /\ DeadlineSeen' /\ TimeoutTrue'
  <1> SUFFICES ASSUME IInv, [Next]_vars PROVE ClockTracked' /\ DeadlineSeen' /\ TimeoutTrue'
      OBVIOUS
  <1>t. /\ ClockTracked /\ DeadlineSeen /\ TimeoutTrue
        /\ now \in 0..(Wrap - 1) /\ started \in 0..(Wrap - 1)
        /\ age \in 0..(Timeout + MaxGap) /\ gap \in 0..MaxGap
        /\ opened \in BOOLEAN /\ closing \in BOOLEAN
        /\ pc = "close" => closing
        /\ vstate = "requested" => opened
      BY DEF IInv, TypeOK, SessionLives
  <1> USE <1>t, ClockAssumption DEF ClockTracked, DeadlineSeen, TimeoutTrue, bufferVars, unitVars,
      flagVars, timeVars, sessionVars
  <1>1. ASSUME NEW region \in Regions, NEW address \in 0..Top, NEW data \in Contents,
               NEW size \in Sizes, Submit(region, address, data, size)
        PROVE  ClockTracked' /\ DeadlineSeen' /\ TimeoutTrue'
      BY <1>1 DEF Submit, Prepare, Ready
  <1>2. CASE ProcessBegin
    <2>1. opened /\ age < Timeout + MaxGap => (now - started) % Wrap = age
        BY WrappedDifference
    <2>2. QED
        BY <1>2, <2>1 DEF ProcessBegin, TimedOut
  <1>3. CASE ProcessCheck
      BY <1>3 DEF ProcessCheck
  <1>4. CASE CloseAccepted
      BY <1>4 DEF CloseAccepted
  <1>5. CASE CloseRefused
      BY <1>5 DEF CloseRefused
  <1>6. CASE RequestAccepted
      BY <1>6 DEF RequestAccepted
  <1>7. CASE RequestRefused
      BY <1>7 DEF RequestRefused
  <1>8. CASE DeliverClosed
      BY <1>8 DEF DeliverClosed
  <1>9. ASSUME NEW signal \in DeferredSignals, Deliver(signal)
        PROVE  ClockTracked' /\ DeadlineSeen' /\ TimeoutTrue'
      BY <1>9 DEF Deliver
  <1>10. CASE Start
      BY <1>10 DEF Start, WriteUnit, MayWrite
  <1>11. CASE StartResets
      BY <1>11 DEF StartResets
  <1>12. CASE OtherSignal
      BY <1>12 DEF OtherSignal
  <1>13. CASE Drop
      BY <1>13 DEF Drop
  <1>14. CASE Tick
    <2>1. now' = (now + 1) % Wrap
        BY <1>14 DEF Tick
    <2>2. now' = IF now + 1 = Wrap THEN 0 ELSE now + 1
      <3>1. Wrap \in Nat \ {0} /\ now \in 0..(Wrap - 1)
          OBVIOUS
      <3>2. (now + 1) % Wrap = IF now + 1 = Wrap THEN 0 ELSE now + 1
          BY ONLY <3>1, CounterAdvances
      <3>3. QED
          BY ONLY <2>1, <3>2
    <2>3. /\ UNCHANGED <<started, opened, closing, operation_result>>
          /\ gap' = IF opened THEN gap + 1 ELSE gap
          /\ age' = IF opened /\ age < Timeout + MaxGap THEN age + 1 ELSE age
        BY <1>14 DEF Tick
    <2>4. ClockTracked'
        BY <2>2, <2>3
    <2>5. QED
        BY <2>3, <2>4
  <1>15. CASE UNCHANGED vars
      BY <1>15 DEF vars
  <1>16. QED
      BY <1>1, <1>2, <1>3, <1>4, <1>5, <1>6, <1>7, <1>8, <1>9, <1>10, <1>11, <1>12, <1>13,
         <1>14, <1>15 DEF Next, CallReturns, DeliverSome

\* Every step keeps the account of the job, and result 0 true of what RRAM holds.
LEMMA JobStep ==
  IInv /\ [Next]_vars => JobTracked' /\ ClosesComplete' /\ VerifiedMeansWritten'
  <1> SUFFICES ASSUME IInv, [Next]_vars
               PROVE  JobTracked' /\ ClosesComplete' /\ VerifiedMeansWritten'
      OBVIOUS
  <1>t. /\ JobTracked /\ ClosesComplete /\ VerifiedMeansWritten
        /\ (result = "EINPROGRESS" <=> opened) /\ (closing => opened)
        /\ vstate = "requested" => opened
        /\ opened \in BOOLEAN /\ closing \in BOOLEAN
      BY DEF IInv, TypeOK, SessionLives
  <1> USE DEF bufferVars, unitVars, flagVars, timeVars, sessionVars
  <1>1. ASSUME NEW region \in Regions, NEW address \in 0..Top, NEW data \in Contents,
               NEW size \in Sizes, Submit(region, address, data, size)
        PROVE  JobTracked' /\ ClosesComplete' /\ VerifiedMeansWritten'
    <2>1. /\ Accepts(region, address, size) /\ ~opened /\ Prepare(address, data, size)
          /\ closing' = FALSE /\ flash' = flash
        BY <1>1 DEF Submit, Ready, Prepare
    <2>2. CASE opened' = FALSE /\ UNCHANGED <<result, job>>
        BY <1>t, <2>1, <2>2 DEF JobTracked, ClosesComplete, VerifiedMeansWritten
    <2>3. CASE /\ opened' = TRUE /\ result' = "EINPROGRESS"
               /\ job' = [region |-> region, address |-> address, size |-> size, data |-> data]
      <3>1. /\ job'.region = region /\ job'.address = address /\ job'.size = size
            /\ job'.data = data
          BY <2>3
      <3>2. Accepts(job'.region, job'.address, job'.size)
          BY <2>1, <3>1
      <3>3. /\ destination' = job'.address /\ offset' + remaining' = job'.size
            /\ offset' % UnitSize = 0 /\ remaining' % UnitSize = 0
          BY <2>1, <3>1, GeometryAssumption DEF Prepare, Accepts
      <3>4. \A o \in Offsets : o < job'.size => buffer'[o] = job'.data[o]
          BY <2>1, <3>1 DEF Prepare
      <3>5. \A o \in Offsets : ~(o < offset')
          BY <2>1, GeometryAssumption DEF Prepare, Offsets
      <3>6. JobTracked'
          BY <3>2, <3>3, <3>4, <3>5 DEF JobTracked, Accepts
      <3>7. QED
          BY <2>1, <2>3, <3>6 DEF ClosesComplete, VerifiedMeansWritten
    <2>4. QED
        BY <1>1, <1>t, <2>1, <2>2, <2>3 DEF Submit
  <1>2. CASE Start
    <2>1. opened /\ vstate = "requested" /\ result = "EINPROGRESS"
          /\ UNCHANGED <<bufferVars, flagVars, result, job>>
        BY <1>2, <1>t DEF Start
    <2>2. VerifiedMeansWritten'
        BY <2>1 DEF VerifiedMeansWritten
    <2>3. CASE UNCHANGED <<flash, unitVars>>
      <3>1. operation_result' = "OK" => operation_result = "OK"
          BY <1>2 DEF Start, MayWrite, WriteUnit
      <3>2. QED
          BY <1>t, <2>1, <2>2, <2>3, <3>1 DEF JobTracked, ClosesComplete, Accepts
    <2>4. ASSUME MayWrite, NEW cell \in Cells,
                 flash' = [flash EXCEPT ![destination + offset] = cell]
          PROVE  \A o \in Offsets : o < offset => flash'[destination + o] = flash[destination + o]
        BY <2>4, GeometryAssumption DEF IInv, TypeOK, Offsets
    <2>5. ASSUME MayWrite, NEW cell \in Cells, UNCHANGED unitVars,
                 flash' = [flash EXCEPT ![destination + offset] = cell],
                 operation_result' = "EIO"
          PROVE  JobTracked' /\ ClosesComplete'
        BY <1>t, <2>1, <2>4, <2>5 DEF JobTracked, ClosesComplete, Accepts
    <2>6. ASSUME MayWrite, flash' = [flash EXCEPT ![destination + offset] = buffer[offset]],
                 offset' = offset + UnitSize, remaining' = remaining - UnitSize,
                 buffer[offset] \in Cells
          PROVE  JobTracked' /\ ClosesComplete'
      <3>1. /\ destination + offset \in Units /\ offset \in Offsets /\ offset < job.size
            /\ offset' % UnitSize = 0 /\ remaining' % UnitSize = 0
            /\ \A o \in Offsets : o < offset' => o <= offset
          BY <2>1, <2>6, WriteLands
      <3>2. offset' + remaining' = job.size
          BY <1>t, <2>1, <2>6, GeometryAssumption DEF JobTracked, IInv, TypeOK
      <3>3. flash'[destination + offset] = job.data[offset]
          BY <1>t, <2>1, <2>6, <3>1 DEF JobTracked, IInv, TypeOK
      <3>4. ASSUME NEW o \in Offsets, o < offset' PROVE flash'[destination + o] = job.data[o]
        <4>1. o = offset \/ o < offset
            BY <3>1, <3>4, GeometryAssumption DEF IInv, TypeOK, Offsets
        <4>2. CASE o < offset
            BY <1>t, <2>1, <2>4, <2>6, <4>2 DEF JobTracked
        <4>3. QED
            BY <3>3, <4>1, <4>2
      <3>5. JobTracked'
          BY <1>t, <2>1, <3>1, <3>2, <3>4 DEF JobTracked, Accepts
      <3>6. ClosesComplete'
          BY <1>t, <2>1, <2>6 DEF ClosesComplete, MayWrite
      <3>7. QED
          BY <3>5, <3>6
    <2>7. QED
        BY <1>2, <2>2, <2>3, <2>5, <2>6 DEF Start, WriteUnit
  <1>3. CASE StartResets
    <2>1. \A o \in Offsets : ~(o < 0)
        BY GeometryAssumption DEF Offsets
    <2>2. QED
        BY <1>3, <2>1 DEF StartResets, NoJob, JobTracked, ClosesComplete, VerifiedMeansWritten
  <1>4. CASE DeliverClosed
    <2>1. closing
        BY <1>4, QueueStep DEF IInv, SessionLives
    <2>2. operation_result = "OK" =>
              \A o \in Offsets : o < job.size => flash[job.address + o] = job.data[o]
      <3>1. operation_result = "OK" => offset = job.size
          BY <1>t, <2>1 DEF JobTracked, ClosesComplete, IInv, TypeOK, Jobs
      <3>2. QED
          BY <1>t, <2>1, <3>1 DEF JobTracked
    <2>3. QED
        BY <1>4, <2>2 DEF DeliverClosed, ResultWhenClosed, JobTracked, ClosesComplete,
           VerifiedMeansWritten
  <1>5. CASE ProcessCheck
      BY <1>5, <1>t DEF ProcessCheck, Finished, JobTracked, ClosesComplete,
         VerifiedMeansWritten, Accepts
  <1>6. CASE \/ ProcessBegin \/ CloseAccepted \/ CloseRefused \/ RequestAccepted \/ RequestRefused
             \/ OtherSignal \/ Drop \/ Tick \/ (\E signal \in DeferredSignals : Deliver(signal))
             \/ UNCHANGED vars
    <2>1. /\ UNCHANGED <<opened, destination, buffer, remaining, offset, result, flash, job>>
          /\ closing' => closing /\ (operation_result' = "OK" => operation_result = "OK")
        BY <1>6 DEF ProcessBegin, CloseAccepted, CloseRefused, RequestAccepted, RequestRefused,
           OtherSignal, Drop, Tick, Deliver, vars
    <2>2. QED
        BY <1>t, <2>1 DEF JobTracked, ClosesComplete, VerifiedMeansWritten, Accepts
  <1>7. QED
      BY <1>1, <1>2, <1>3, <1>4, <1>5, <1>6 DEF Next, CallReturns, DeliverSome

\* The invariant holds in every reachable state.
LEMMA Inductive == Spec => []IInv
  <1>1. IInv /\ [Next]_vars => IInv'
      BY TypeStep, SessionStep, ClockStep, JobStep DEF IInv
  <1>2. QED
      BY InitIInv, <1>1, PTL DEF Spec

\* Every variable keeps its type: no unit is written outside RRAM, and remaining
\* never wraps below zero.
THEOREM TypeCorrect == Spec => []TypeOK
  <1>1. IInv => TypeOK
      BY DEF IInv
  <1>2. QED
      BY Inductive, <1>1, PTL

\* A transaction writes exactly what and where its caller said, and result 0 means
\* that RRAM holds the data, for every geometry and every interleaving.
THEOREM TransactionsExact == Spec => []TransactionExact
  <1>1. IInv => TransactionExact
    <2> SUFFICES ASSUME IInv PROVE TransactionExact
        OBVIOUS
    <2>1. opened => /\ job.region.origin <= job.address
                    /\ job.address + job.size <= job.region.origin + job.region.length
                    /\ job.address + job.size <= Limit
      <3>1. /\ job.size \in Nat /\ job.address \in Nat /\ Limit \in Nat
            /\ job.region.origin \in Nat /\ job.region.length \in Nat
          BY GeometryAssumption DEF IInv, TypeOK, Jobs
      <3>2. opened => Accepts(job.region, job.address, job.size)
          BY DEF IInv, JobTracked
      <3>3. QED
          BY <3>1, <3>2 DEF Accepts
    <2>2. QED
        BY <2>1 DEF IInv, SessionLives, JobTracked, TransactionExact
  <1>2. QED
      BY Inductive, <1>1, PTL

\* What a step may write: the one unit the transaction is at, whole, inside the
\* caller's data, the declared region and the memory below the configuration, while
\* nothing has failed.
WritesOnlyNext ==
    \A a \in Units : flash'[a] # flash[a] =>
        /\ opened /\ operation_result = "OK"
        /\ a = job.address + offset /\ offset + UnitSize <= job.size
        /\ job.region.origin <= a
        /\ a + UnitSize <= job.region.origin + job.region.length
        /\ a + UnitSize <= Limit

\* RRAM outside the next unit of the open transaction is never written, whatever the
\* unit read back, whether the chip was reset in the middle of it or not; a unit that
\* read back right is not written again, for offset has passed it (write_unit()).
THEOREM OnlyNextUnitWritten == Spec => [][WritesOnlyNext]_vars
  <1>1. ASSUME IInv, opened, MayWrite
        PROVE  /\ destination + offset = job.address + offset
               /\ operation_result = "OK" /\ offset + UnitSize <= job.size
               /\ job.region.origin <= job.address + offset
               /\ job.address + offset + UnitSize <= job.region.origin + job.region.length
               /\ job.address + offset + UnitSize <= Limit
    <2>1. /\ job.size \in Nat /\ job.address \in Nat /\ Limit \in Nat /\ UnitSize \in Nat
          /\ job.region.origin \in Nat /\ job.region.length \in Nat
          /\ offset \in Nat /\ remaining \in Nat
        BY <1>1, GeometryAssumption DEF IInv, TypeOK, Jobs
    <2>2. /\ Accepts(job.region, job.address, job.size)
          /\ destination = job.address /\ offset + remaining = job.size
        BY <1>1 DEF IInv, JobTracked
    <2>3. remaining >= UnitSize
        BY <1>1, WriteLands
    <2>4. /\ job.region.origin <= job.address
          /\ job.address + job.size <= job.region.origin + job.region.length
          /\ job.address + job.size <= Limit
        BY <2>1, <2>2 DEF Accepts
    <2>5. QED
        BY <1>1, <2>1, <2>2, <2>3, <2>4 DEF MayWrite
  <1>2. ASSUME IInv, [Next]_vars
        PROVE  [WritesOnlyNext]_vars
    <2>t. vstate = "requested" => opened
        BY <1>2 DEF IInv, SessionLives
    <2>f. flash \in [Units -> Cells]
        BY <1>2 DEF IInv, TypeOK
    <2>1. ASSUME opened, MayWrite, NEW cell \in Cells,
                 flash' = [flash EXCEPT ![destination + offset] = cell]
          PROVE  WritesOnlyNext
      <3>1. ASSUME NEW a \in Units, flash'[a] # flash[a]
            PROVE  a = destination + offset
          BY <2>1, <2>f, <3>1
      <3>2. QED
          BY <1>1, <1>2, <2>1, <3>1 DEF WritesOnlyNext
    <2>2. CASE flash' = flash
        BY <2>2 DEF WritesOnlyNext
    <2>3. CASE Start
        BY <2>t, <2>1, <2>2, <2>3 DEF Start, WriteUnit
    <2>4. CASE StartResets
        BY <2>t, <2>1, <2>4 DEF StartResets
    <2>5. CASE ~Start /\ ~StartResets
      <3>1. flash' = flash
          BY <1>2, <2>5 DEF Next, Submit, ProcessBegin, CallReturns, ProcessCheck,
             CloseAccepted, CloseRefused, RequestAccepted, RequestRefused, DeliverSome,
             DeliverClosed, Deliver, OtherSignal, Drop, Tick, vars
      <3>2. QED
          BY <2>2, <3>1
    <2>6. QED
        BY <2>3, <2>4, <2>5
  <1>3. QED
      BY <1>2, Inductive, PTL DEF Spec

\* The deadline is neither missed nor early, across the counter's wrap, whenever
\* the main loop pumps process() more than once per revolution.
THEOREM TimeoutsHonoured == Spec => []TimeoutHonoured
  <1>1. IInv => TimeoutHonoured
      BY ClockAssumption DEF IInv, TypeOK, DeadlineSeen, TimeoutTrue, TimeoutHonoured
  <1>2. QED
      BY Inductive, <1>1, PTL

\* The storage session is a client of MPSL as MpslClient describes it, step by step:
\* one reference per session, returned with SESSION_CLOSED or lost with a reset.
THEOREM ImplementsClientSteps == Spec => ImplementsClient
  <1>1. Init => Client!Init
      BY DEF Init, SessionInit, Client!Init, ClientSession
  <1>2. ASSUME IInv, [Next]_vars
        PROVE  [Client!Next]_<<retained, ClientSession>>
    <2>t. vstate = "closed" \/ vstate = "none" \/ vstate = "idle" \/ vstate = "requested"
        BY <1>2 DEF IInv, TypeOK
    <2> USE <1>2, <2>t DEF Client!Next, ClientSession
    <2>1. ASSUME NEW region \in Regions, NEW address \in 0..Top, NEW data \in Contents,
                 NEW size \in Sizes, Submit(region, address, data, size)
          PROVE  [Client!Next]_<<retained, ClientSession>>
        BY <2>1 DEF Submit, VendorOpen, Client!Open, sessionVars
    <2>2. CASE CloseAccepted
        BY <2>2 DEF CloseAccepted, VendorClose, Client!Close
    <2>3. CASE DeliverClosed
        BY <2>3, QueueStep DEF DeliverClosed, VendorDelivers, Client!Closed
    <2>4. CASE StartResets
        BY <2>4 DEF StartResets, Client!Reset
    <2>5. CASE Start \/ Drop
        BY <2>5 DEF Start, VendorEnd, Drop, VendorDrops
    <2>6. CASE \/ ProcessBegin \/ ProcessCheck \/ CloseRefused \/ RequestAccepted
               \/ RequestRefused \/ OtherSignal \/ Tick
               \/ (\E signal \in DeferredSignals : Deliver(signal)) \/ UNCHANGED vars
        BY <2>6 DEF ProcessBegin, ProcessCheck, CloseRefused, RequestAccepted, VendorRequest,
           RequestRefused, OtherSignal, Tick, Deliver, VendorDelivers, vars, sessionVars
    <2>7. QED
        BY <2>1, <2>2, <2>3, <2>4, <2>5, <2>6 DEF Next, CallReturns, DeliverSome
  <1>3. QED
      BY <1>1, <1>2, Inductive, PTL DEF Spec, ImplementsClient, Client!Spec
=============================================================================
