-------------------------------- MODULE Rram --------------------------------
(***************************************************************************)
(* The storage client of src/runtime/nrfx/rram.c: a write of up to         *)
(* MaxWrite bytes goes to RRAM one unit per MPSL grant.                    *)
(*                                                                         *)
(* Main context runs nrfkit_rram_submit(), nrfkit_rram_process() and the   *)
(* deferred signals; the START callback, in interrupt context, writes one  *)
(* unit and runs between any two main steps. pc is where process() stands: *)
(*   idle     no call under way                                            *)
(*   check    the deadline was tested                                      *)
(*   close    closing is set, mpsl_timeslot_session_close() to come        *)
(*   request  idle is cleared, mpsl_timeslot_request() to come             *)
(* Addresses and sizes are bytes, in units of UnitSize. The microsecond    *)
(* counter wraps at Wrap, as the code's uint32_t does.                     *)
(***************************************************************************)
EXTENDS MpslSession

CONSTANTS
    UnitSize,       \* 16 bytes: one 128-bit unit
    MaxWrite,       \* NRFKIT_RRAM_MAX_WRITE
    Limit,          \* 0x001FD000: configuration memory begins here
    Top,            \* last byte of RRAM the model looks at
    Regions,        \* regions callers declare: [origin, length]
    Sizes,          \* sizes callers pass
    Contents,       \* buffers callers pass: functions on Offsets
    Cells,          \* what a unit can hold
    Erased,         \* a unit never written; also static storage at reset
    Wrap,           \* the counter's modulus, 2^32
    Timeout,        \* TIMEOUT_US
    MaxGap          \* bound: ticks between two nrfkit_rram_process() calls

Offsets   == {o \in 0..(MaxWrite - 1) : o % UnitSize = 0}
Units     == {a \in 0..Top : a % UnitSize = 0}

ASSUME GeometryAssumption ==
    /\ UnitSize \in Nat \ {0} /\ MaxWrite \in Nat /\ Limit \in Nat /\ Top \in Nat
    /\ Limit <= Top + 1
    /\ Regions \subseteq [origin : Nat, length : Nat]
    /\ Sizes \subseteq Nat
    /\ Contents \subseteq [Offsets -> Cells] /\ Erased \in Cells
\* A deadline is seen although the counter wraps: the main loop pumps process()
\* more than once per revolution of the counter.
ASSUME ClockAssumption ==
    /\ Wrap \in Nat /\ Timeout \in Nat \ {0} /\ MaxGap \in Nat \ {0}
    /\ Timeout + MaxGap <= Wrap

Errors == {"EIO", "EAGAIN", "ETIMEDOUT", "vendor"}

VARIABLES
    buffer, destination, remaining, offset, started, result, operation_result,
    opened, idle, closing, retry,
    retained,       \* this client holds a platform reference
    pc,
    flash,          \* contents of RRAM
    now,            \* the GRTC counter, modulo Wrap
    age,            \* ticks since the submission, up to Timeout + MaxGap
    gap,            \* ticks since process() last ran
    job             \* the last accepted submission

bufferVars == <<buffer, destination, started>>
unitVars   == <<remaining, offset, retry>>
flagVars   == <<opened, idle, closing>>
timeVars   == <<now, age, gap>>
vars == <<sessionVars, bufferVars, unitVars, flagVars, timeVars, result,
          operation_result, retained, pc, flash, job>>

Jobs == [region : [origin : Nat, length : Nat], address : Nat, size : Nat,
         data : [Offsets -> Cells]]
NoJob == [region |-> [origin |-> 0, length |-> 0], address |-> 0, size |-> 0,
          data |-> [o \in Offsets |-> Erased]]

TypeOK ==
    /\ vstate \in {"none", "idle", "requested", "closed"}
    /\ vlength \in Nat /\ vdeferred \in Seq(DeferredSignals)
    /\ buffer \in [Offsets -> Cells]
    /\ destination \in Nat /\ remaining \in Nat /\ offset \in Nat
    /\ started \in 0..(Wrap - 1)
    /\ result \in {"OK", "EINPROGRESS"} \union Errors
    /\ operation_result \in {"OK"} \union Errors
    /\ opened \in BOOLEAN /\ idle \in BOOLEAN /\ closing \in BOOLEAN
    /\ retry \in BOOLEAN /\ retained \in BOOLEAN
    /\ pc \in {"idle", "check", "close", "request"}
    /\ flash \in [Units -> Cells]
    /\ now \in 0..(Wrap - 1) /\ age \in 0..(Timeout + MaxGap) /\ gap \in 0..MaxGap
    /\ job \in Jobs

Init ==
    /\ SessionInit
    /\ buffer = [o \in Offsets |-> Erased]
    /\ destination = 0 /\ remaining = 0 /\ offset = 0 /\ started = 0
    /\ result = "OK" /\ operation_result = "OK"
    /\ opened = FALSE /\ idle = FALSE /\ closing = FALSE /\ retry = FALSE
    /\ retained = FALSE /\ pc = "idle" /\ age = 0 /\ gap = 0 /\ job = NoJob
    /\ flash = [a \in Units |-> Erased]
    /\ now \in 0..(Wrap - 1)

-----------------------------------------------------------------------------
(***************************************************************************)
(* nrfkit_rram_submit()                                                    *)
(***************************************************************************)

\* Mutant of Accepts: the size is compared with the whole region.
MutantAccepts(region, address, size) ==
    /\ size # 0 /\ size <= MaxWrite
    /\ address % UnitSize = 0 /\ size % UnitSize = 0
    /\ region.origin < Limit /\ region.length # 0
    /\ region.length <= Limit - region.origin
    /\ address >= region.origin
    /\ address - region.origin <= region.length
    /\ size <= region.length

\* The argument checks, in the code's order: no subtraction wraps.
Accepts(region, address, size) ==
    /\ size # 0 /\ size <= MaxWrite
    /\ address % UnitSize = 0 /\ size % UnitSize = 0
    /\ region.origin < Limit /\ region.length # 0
    /\ region.length <= Limit - region.origin
    /\ address >= region.origin
    /\ address - region.origin <= region.length
    /\ size <= region.length - (address - region.origin)

\* Copy the data and reset the transaction; what submit() does before it knows
\* whether MPSL opens the session.
Prepare(address, data, size) ==
    /\ buffer' = [o \in Offsets |-> IF o < size THEN data[o] ELSE buffer[o]]
    /\ destination' = address
    /\ remaining' = size /\ offset' = 0
    /\ operation_result' = "OK"
    /\ idle' = TRUE /\ closing' = FALSE /\ retry' = FALSE

Ready == result # "EINPROGRESS" /\ ~opened

Submit(region, address, data, size) ==
    /\ pc = "idle"
    /\ Accepts(region, address, size) /\ Ready
    /\ Prepare(address, data, size)
    /\ \/ /\ VendorOpen
          /\ retained' = TRUE
          /\ started' = now
          /\ opened' = TRUE /\ result' = "EINPROGRESS"
          /\ age' = 0 /\ gap' = 0
          /\ job' = [region |-> region, address |-> address, size |-> size, data |-> data]
       \/ \* MPSL refuses: the reference is returned, result keeps its value.
          UNCHANGED <<sessionVars, retained, started, opened, result, age, gap, job>>
    /\ UNCHANGED <<pc, flash, now>>

-----------------------------------------------------------------------------
(***************************************************************************)
(* nrfkit_rram_process()                                                   *)
(***************************************************************************)

\* Mutant of TimedOut: the difference is not taken modulo the counter's width.
MutantTimedOut == now - started >= Timeout
TimedOut == (now - started) % Wrap >= Timeout

\* The early return, the deadline, and the choice that follows it.
ProcessBegin ==
    /\ pc = "idle" /\ opened /\ ~closing
    /\ gap' = 0
    /\ operation_result' = IF TimedOut THEN "ETIMEDOUT" ELSE operation_result
    /\ pc' = "check"
    /\ UNCHANGED <<sessionVars, bufferVars, unitVars, flagVars, now, age, result,
                   retained, flash, job>>

\* Mutant of Finished: a failed operation is not a reason to close.
MutantFinished == remaining = 0
Finished == operation_result # "OK" \/ remaining = 0

\* The value of idle from just before mpsl_timeslot_request().
IdleOnceRequested == FALSE

ProcessCheck ==
    /\ pc = "check"
    /\ \/ /\ Finished
          /\ closing' = TRUE /\ pc' = "close"
          /\ UNCHANGED idle
       \/ /\ ~Finished /\ idle
          /\ idle' = IdleOnceRequested /\ pc' = "request"
          /\ UNCHANGED closing
       \/ /\ ~Finished /\ ~idle
          /\ pc' = "idle"
          /\ UNCHANGED <<idle, closing>>
    /\ UNCHANGED <<sessionVars, bufferVars, unitVars, opened, timeVars, result,
                   operation_result, retained, flash, job>>

CloseAccepted ==
    /\ pc = "close"
    /\ VendorClose
    /\ pc' = "idle"
    /\ UNCHANGED <<bufferVars, unitVars, flagVars, timeVars, result,
                   operation_result, retained, flash, job>>

\* The close is tried again by the next process(), as a failed operation.
CloseRefused ==
    /\ pc = "close"
    /\ closing' = FALSE /\ operation_result' = "vendor"
    /\ pc' = "idle"
    /\ UNCHANGED <<sessionVars, bufferVars, unitVars, opened, idle, timeVars, result,
                   retained, flash, job>>

RequestAccepted ==
    /\ pc = "request"
    /\ VendorRequest(1)
    /\ pc' = "idle"
    /\ UNCHANGED <<bufferVars, unitVars, flagVars, timeVars, result,
                   operation_result, retained, flash, job>>

RequestRefused ==
    /\ pc = "request"
    /\ operation_result' = "vendor" /\ idle' = TRUE
    /\ pc' = "idle"
    /\ UNCHANGED <<sessionVars, bufferVars, unitVars, opened, closing, timeVars, result,
                   retained, flash, job>>

-----------------------------------------------------------------------------
(***************************************************************************)
(* callback(): START in interrupt context.                                 *)
(***************************************************************************)

MayWrite == operation_result = "OK" /\ remaining # 0

\* write_unit() finds the controller busy, or the unit reads back as cell.
\* CONFIG, READYNEXTTIMEOUT and POWER.CONFIG are restored before it returns.
WriteUnit ==
    \/ /\ operation_result' = "EAGAIN"
       /\ UNCHANGED <<flash, unitVars>>
    \/ \E cell \in Cells :
        /\ flash' = [flash EXCEPT ![destination + offset] = cell]
        /\ IF cell = buffer[offset]
           THEN /\ offset' = offset + UnitSize
                /\ remaining' = remaining - UnitSize
                /\ retry' = FALSE
                /\ UNCHANGED operation_result
           ELSE operation_result' = "EIO" /\ UNCHANGED unitVars

\* One unit per grant; the callback always returns END.
Start ==
    /\ vstate = "requested"
    /\ VendorEnd
    /\ IF MayWrite THEN WriteUnit ELSE UNCHANGED <<operation_result, flash, unitVars>>
    /\ UNCHANGED <<bufferVars, flagVars, timeVars, result, retained, pc, job>>

\* wait_ready() runs into its 450 us limit: the chip is reset, before the unit
\* was written or while it was being committed. Static storage restarts at zero
\* (result reads 0 again), RRAM keeps its contents.
StartResets ==
    /\ vstate = "requested" /\ MayWrite
    /\ \E cell \in Cells : flash' = [flash EXCEPT ![destination + offset] = cell]
    /\ vstate' = "none" /\ vlength' = 0 /\ vdeferred' = <<>>
    /\ buffer' = [o \in Offsets |-> Erased]
    /\ destination' = 0 /\ remaining' = 0 /\ offset' = 0 /\ started' = 0
    /\ result' = "OK" /\ operation_result' = "OK"
    /\ opened' = FALSE /\ idle' = FALSE /\ closing' = FALSE /\ retry' = FALSE
    /\ retained' = FALSE /\ pc' = "idle" /\ age' = 0 /\ gap' = 0 /\ job' = NoJob
    /\ UNCHANGED now

\* OVERSTAYED or INVALID_RETURN after a grant.
OtherSignal ==
    /\ vstate = "idle"
    /\ operation_result' = "EIO"
    /\ UNCHANGED <<sessionVars, bufferVars, unitVars, flagVars, timeVars, result,
                   retained, pc, flash, job>>

(***************************************************************************)
(* callback(): the deferred signals, in main context.                      *)
(***************************************************************************)

Deliver(signal) ==
    /\ pc = "idle" /\ signal # "CLOSED"
    /\ VendorDelivers(signal)
    /\ idle' = TRUE
    /\ retry' = (retry \/ signal # "IDLE")
    /\ UNCHANGED <<bufferVars, remaining, offset, opened, closing, timeVars, result,
                   operation_result, retained, pc, flash, job>>

ResultWhenClosed == operation_result

\* Mutant of DeliverClosed: the platform reference is kept.
MutantDeliverClosed ==
    /\ pc = "idle"
    /\ VendorDelivers("CLOSED")
    /\ opened' = FALSE /\ closing' = FALSE
    /\ result' = ResultWhenClosed
    /\ UNCHANGED <<bufferVars, unitVars, idle, timeVars, operation_result, retained,
                   pc, flash, job>>

DeliverClosed ==
    /\ pc = "idle"
    /\ VendorDelivers("CLOSED")
    /\ opened' = FALSE /\ closing' = FALSE
    /\ retained' = FALSE
    /\ result' = ResultWhenClosed
    /\ UNCHANGED <<bufferVars, unitVars, idle, timeVars, operation_result, pc, flash, job>>

-----------------------------------------------------------------------------
Drop == VendorDrops /\ UNCHANGED <<bufferVars, unitVars, flagVars, timeVars, result,
                                   operation_result, retained, pc, flash, job>>

\* The counter advances; while a transaction waits, process() is pumped in time.
Tick ==
    /\ opened => gap < MaxGap
    /\ now' = (now + 1) % Wrap
    /\ gap' = IF opened THEN gap + 1 ELSE gap
    /\ age' = IF opened /\ age < Timeout + MaxGap THEN age + 1 ELSE age
    /\ UNCHANGED <<sessionVars, bufferVars, unitVars, flagVars, result,
                   operation_result, retained, pc, flash, job>>

CallReturns == ProcessCheck \/ CloseAccepted \/ CloseRefused
               \/ RequestAccepted \/ RequestRefused
DeliverSome == DeliverClosed \/ \E signal \in DeferredSignals : Deliver(signal)

Next ==
    \/ \E region \in Regions, address \in 0..Top, data \in Contents, size \in Sizes :
            Submit(region, address, data, size)
    \/ ProcessBegin \/ CallReturns \/ DeliverSome
    \/ Start \/ StartResets \/ OtherSignal \/ Drop \/ Tick

Spec == Init /\ [][Next]_vars

\* The foreground loop pumps both process functions, calls return, time passes,
\* and MPSL does not refuse to close a session for ever.
Fairness ==
    /\ WF_vars(ProcessBegin) /\ WF_vars(CallReturns) /\ WF_vars(DeliverSome)
    /\ WF_vars(Tick) /\ SF_vars(CloseAccepted)
FairSpec == Spec /\ Fairness

-----------------------------------------------------------------------------
(***************************************************************************)
(* Properties.                                                             *)
(***************************************************************************)

\* "zero on verified completion" (include/nrfkit/rram.h): when the last accepted
\* transaction ended with result 0, RRAM holds exactly its data, however its
\* grants, retries, refusals and the timeout interleaved.
VerifiedMeansWritten ==
    result = "OK" =>
        \A o \in Offsets : o < job.size => flash[job.address + o] = job.data[o]

\* A transaction writes what and where its caller said: it lies inside the region
\* the caller declared and below configuration memory, while it runs offset and
\* remaining account for the whole of it, and the units before offset are written.
\* The result is pending exactly while the session is open, so nobody submits over
\* a session or reads a result that is not final.
TransactionExact ==
    /\ VerifiedMeansWritten
    /\ result = "EINPROGRESS" <=> opened
    /\ opened => /\ job.region.origin <= job.address
                 /\ job.address + job.size <= job.region.origin + job.region.length
                 /\ job.address + job.size <= Limit
                 /\ destination = job.address /\ offset + remaining = job.size
                 /\ \A o \in Offsets : o < offset => flash[destination + o] = job.data[o]
                 /\ \A o \in Offsets : o < job.size => buffer[o] = job.data[o]

\* The deadline is neither missed nor early, across the counter's wrap.
TimeoutHonoured ==
    /\ opened /\ age = Timeout + MaxGap => operation_result # "OK" \/ closing
    /\ opened /\ operation_result = "ETIMEDOUT" => age >= Timeout

ClientSession == CASE vstate = "none" -> "none"
                   [] vstate = "closed" -> "closing"
                   [] OTHER -> "open"

\* The storage session is a client of MPSL as MpslClient describes it.
Client == INSTANCE MpslClient WITH holds <- retained, session <- ClientSession
ImplementsClient == Client!Spec

\* Every transaction ends, with MPSL granting nothing by the deadline, and every
\* session that process() closes is reported closed: the client is a fair one.
Completes == (opened ~> ~opened) /\ Client!Fairness
=============================================================================
