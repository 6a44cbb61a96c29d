------------------------------ MODULE Platform ------------------------------
(***************************************************************************)
(* The SDC/MPSL lifecycle of src/wireless/sdc/nrf54l/platform.c: who keeps *)
(* the radio scheduler (MPSL) initialized, when the controller (SDC) is    *)
(* enabled, and how work deferred by the SWI00 interrupt reaches           *)
(* nrfkit_sdc_process() in main context.                                   *)
(*                                                                         *)
(* The main context is serialized (include/nrfkit/mpsl.h); pc is where it  *)
(* stands inside a call that an interrupt can split:                       *)
(*   idle     between two API calls                                        *)
(*   lowprio  process(): low_priority_pending cleared, vendor call to come *)
(*   tail     process(): vendor call done, teardown test to come           *)
(*   release  release_mpsl(): MPSL is down, its interrupts not yet masked  *)
(* The interrupts (MPSL raising deferred work, SWI00) run between any two  *)
(* of these points. MPSL, SDC, CRACEN, NVIC and GRTC are external: they    *)
(* are the variables of the second group and do what their callers rely on.*)
(***************************************************************************)
EXTENDS Integers, FiniteSets

CONSTANTS
    Configs,        \* configurations a caller may pass
    InRange,        \* those that pass the range test
    RcConsistent,   \* those whose RC calibration fields agree with the LF source
    NoConfig,       \* locked_config before it is assigned
    Clients,        \* callers of timeslot_retain: timeslot.c and rram.c
    MaxSessions,    \* MPSL session contexts the platform configures
    HciBound,       \* bound: HCI packets waiting in the controller
    DepthBound,     \* bound: nested low-latency requests of MPSL
    PowerModes,     \* RRAMC low-power modes an application may select
    Standby         \* the mode MPSL's low-latency periods need

ASSUME ConfigAssumption == /\ InRange \subseteq Configs
                           /\ RcConsistent \subseteq Configs
                           /\ NoConfig \notin Configs
ASSUME ClientAssumption == IsFiniteSet(Clients)
ASSUME BoundAssumption  == /\ MaxSessions \in Nat /\ HciBound \in Nat
                           /\ DepthBound \in 1..254   \* low_latency_depth is a uint8_t
ASSUME PowerAssumption  == Standby \in PowerModes

VARIABLES
    low_priority_pending, hci_pending, enabled, controller_initialized,
    locked_config, mpsl_initialized, timeslot_references,
    mpsl_client_references, hfclk24m_references, grtc_was_enabled,
    low_latency_depth, saved_rram_low_power,
    pc,
    holders,        \* clients that retained and have not released
    work,           \* MPSL has low-priority work to run
    swi,            \* SWI00 is pending in the NVIC
    irqs,           \* the five MPSL interrupts are enabled
    hciQueue,       \* packets sdc_hci_get would return
    cracen,         \* the entropy source is initialized
    hf24m,          \* MPSL's clock arbiter holds a request for HFCLK24M
    mpslConfig,     \* configuration MPSL was initialized with
    grtc,           \* the GRTC system counter runs
    appGrtc,        \* the counter setting the application last made
    lowPowerConfig, \* RRAMC POWER.LOWPOWERCONFIG
    appPower,       \* the mode the application last wrote there
    constlat        \* the power peripheral is in constant-latency mode

platformVars == <<low_priority_pending, hci_pending, enabled,
                  controller_initialized, locked_config, mpsl_initialized,
                  timeslot_references, mpsl_client_references,
                  hfclk24m_references, grtc_was_enabled>>
vendorVars   == <<work, swi, irqs, hciQueue, cracen, hf24m, mpslConfig, grtc, appGrtc>>
latencyVars  == <<low_latency_depth, saved_rram_low_power, lowPowerConfig,
                  appPower, constlat>>
vars == <<platformVars, pc, holders, vendorVars, latencyVars>>

FlagsOK ==
    /\ low_priority_pending \in BOOLEAN /\ hci_pending \in BOOLEAN
    /\ enabled \in BOOLEAN /\ controller_initialized \in BOOLEAN
    /\ mpsl_initialized \in BOOLEAN /\ grtc_was_enabled \in BOOLEAN
    /\ work \in BOOLEAN /\ swi \in BOOLEAN /\ irqs \in BOOLEAN
    /\ cracen \in BOOLEAN /\ hf24m \in BOOLEAN
    /\ grtc \in BOOLEAN /\ appGrtc \in BOOLEAN /\ constlat \in BOOLEAN

CountsOK ==
    /\ timeslot_references \in 0..MaxSessions
    /\ mpsl_client_references \in 0..(MaxSessions + 1)
    /\ hfclk24m_references \in 0..1
    /\ hciQueue \in 0..HciBound
    /\ low_latency_depth \in 0..DepthBound

ValuesOK ==
    /\ locked_config \in Configs \union {NoConfig}
    /\ mpslConfig \in Configs \union {NoConfig}
    /\ pc \in {"idle", "lowprio", "tail", "release"}
    /\ holders \subseteq Clients
    /\ saved_rram_low_power \in PowerModes
    /\ lowPowerConfig \in PowerModes /\ appPower \in PowerModes

TypeOK == FlagsOK /\ CountsOK /\ ValuesOK

\* Static storage is zero at reset (zero is one of the power modes); the
\* application may already run GRTC and have selected a power mode.
Init ==
    /\ low_priority_pending = FALSE /\ hci_pending = FALSE
    /\ enabled = FALSE /\ controller_initialized = FALSE
    /\ locked_config = NoConfig /\ mpsl_initialized = FALSE
    /\ timeslot_references = 0 /\ mpsl_client_references = 0
    /\ hfclk24m_references = 0 /\ grtc_was_enabled = FALSE
    /\ pc = "idle" /\ holders = {}
    /\ work = FALSE /\ swi = FALSE /\ irqs = FALSE /\ hciQueue = 0
    /\ cracen = FALSE /\ hf24m = FALSE /\ mpslConfig = NoConfig
    /\ grtc \in BOOLEAN /\ appGrtc = grtc
    /\ low_latency_depth = 0 /\ saved_rram_low_power \in PowerModes
    /\ lowPowerConfig \in PowerModes /\ appPower = lowPowerConfig
    /\ constlat = FALSE

-----------------------------------------------------------------------------
(***************************************************************************)
(* release_mpsl(), in two steps: SWI00 may still run after mpsl_uninit().  *)
(***************************************************************************)

MpslUninit ==
    /\ mpsl_initialized' = FALSE
    /\ work' = FALSE /\ hf24m' = FALSE /\ mpslConfig' = NoConfig
    /\ pc' = "release"

\* Mutant of GrtcAfterRelease: the counter is stopped whoever started it.
MutantGrtcStopped == FALSE
GrtcAfterRelease == grtc_was_enabled /\ grtc

ReleaseFinish ==
    /\ pc = "release"
    /\ irqs' = FALSE
    /\ low_priority_pending' = FALSE
    /\ grtc' = GrtcAfterRelease
    /\ pc' = "idle"
    /\ UNCHANGED <<hci_pending, enabled, controller_initialized, locked_config,
                   mpsl_initialized, timeslot_references, mpsl_client_references,
                   hfclk24m_references, grtc_was_enabled, holders, work, swi,
                   hciQueue, cracen, hf24m, mpslConfig, appGrtc, latencyVars>>

\* Mutant of ReleaseUnlessRetained: the reference test is dropped.
MutantReleaseAlways == MpslUninit

\* The guard every caller of release_mpsl() puts in front of it.
ReleaseUnlessRetained ==
    IF mpsl_client_references = 0
    THEN MpslUninit
    ELSE /\ pc' = "idle"
         /\ UNCHANGED <<mpsl_initialized, work, hf24m, mpslConfig>>

(***************************************************************************)
(* initialize_libraries(config).                                           *)
(***************************************************************************)

\* Mutant of Rejected: the configuration is not compared with the locked one.
MutantRejected(config) ==
    \/ config \notin InRange
    \/ ~mpsl_initialized /\ config \notin RcConsistent

\* An argument check fails; no state changes. The CPU clock is not part of
\* the state: a 64 MHz CPU is a rejection like the others.
Rejected(config) ==
    \/ config \notin InRange
    \/ controller_initialized /\ config # locked_config
    \/ ~mpsl_initialized /\ config \notin RcConsistent

\* MPSL comes up: counter, interrupts, mpsl_init. SWI00's pending bit is cleared
\* first; MPSL may set it again while it starts.
StartMpsl(config) ==
    /\ ~mpsl_initialized
    /\ grtc_was_enabled' = grtc
    /\ grtc' = TRUE
    /\ irqs' = TRUE /\ swi' \in BOOLEAN

\* mpsl_init fails: interrupts and counter are put back where they were.
MpslInitFails(config) ==
    /\ ~Rejected(config) /\ ~mpsl_initialized
    /\ grtc_was_enabled' = grtc
    /\ irqs' = FALSE /\ swi' = FALSE
    /\ UNCHANGED <<low_priority_pending, hci_pending, enabled,
                   controller_initialized, locked_config, mpsl_initialized,
                   timeslot_references, mpsl_client_references,
                   hfclk24m_references, pc, holders, work, hciQueue, cracen,
                   hf24m, mpslConfig, grtc, appGrtc, latencyVars>>

\* A step after mpsl_init fails (session contexts, HF latency, or, the first
\* time only, sdc_init and sdc_cfg_set) and ends in release_mpsl().
LaterInitFails(config) ==
    /\ ~Rejected(config)
    /\ StartMpsl(config)
    /\ MpslUninit
    /\ UNCHANGED <<low_priority_pending, hci_pending, enabled,
                   controller_initialized, locked_config, timeslot_references,
                   mpsl_client_references, hfclk24m_references, holders,
                   hciQueue, cracen, appGrtc, latencyVars>>

\* initialize_libraries returns 0, having started MPSL or found it running.
Initialized(config) ==
    /\ ~Rejected(config)
    /\ \/ /\ mpsl_initialized
          /\ UNCHANGED <<controller_initialized, locked_config, grtc_was_enabled,
                         grtc, irqs, swi>>
       \/ /\ StartMpsl(config)
          /\ controller_initialized' = TRUE
          /\ locked_config' = IF controller_initialized THEN locked_config ELSE config

\* MPSL as initialize_libraries leaves it, when the caller keeps it.
KeepMpsl(config) ==
    /\ mpsl_initialized' = TRUE
    /\ mpslConfig' = (IF mpsl_initialized THEN mpslConfig ELSE config)
    /\ pc' = "idle"
    /\ UNCHANGED <<work, hf24m>>

\* The libraries are initialized for a caller that then returns without keeping
\* them: MPSL stays up only if a client retains it.
InitializeAndRelease ==
    \E config \in Configs :
        /\ Initialized(config)
        /\ IF mpsl_client_references = 0 THEN MpslUninit ELSE KeepMpsl(config)

-----------------------------------------------------------------------------
(***************************************************************************)
(* API calls in main context.                                              *)
(***************************************************************************)

\* required_memory() and enable() share their failures.
InitializeFails ==
    /\ pc = "idle" /\ ~enabled
    /\ \E config \in Configs : MpslInitFails(config) \/ LaterInitFails(config)

\* The size is read from controller_memory_size; MPSL is kept only if retained.
RequiredMemory ==
    /\ pc = "idle" /\ ~enabled
    /\ InitializeAndRelease
    /\ UNCHANGED <<low_priority_pending, hci_pending, enabled,
                   timeslot_references, mpsl_client_references,
                   hfclk24m_references, holders, hciQueue, cracen, appGrtc,
                   latencyVars>>

\* CRACEN when enable() fails at a step: every failure from the registration of
\* the entropy source on ends in nrfx_cracen_uninit().
CracenAfter(failed) == IF failed = "memory" THEN cracen ELSE FALSE

\* The buffer is too small (before CRACEN is touched), or one of
\* sdc_rand_source_register, nrfx_cracen_init and sdc_enable fails.
EnableFails ==
    /\ pc = "idle" /\ ~enabled
    /\ InitializeAndRelease
    /\ \E failed \in {"memory", "rand", "cracen", "sdc"} : cracen' = CracenAfter(failed)
    /\ UNCHANGED <<low_priority_pending, hci_pending, enabled,
                   timeslot_references, mpsl_client_references,
                   hfclk24m_references, holders, hciQueue, appGrtc, latencyVars>>

Enable ==
    /\ pc = "idle" /\ ~enabled
    /\ \E config \in Configs : Initialized(config) /\ KeepMpsl(config)
    /\ cracen' = TRUE
    /\ enabled' = TRUE
    /\ UNCHANGED <<low_priority_pending, hci_pending, timeslot_references,
                   mpsl_client_references, hfclk24m_references, holders,
                   hciQueue, appGrtc, latencyVars>>

\* Mutant of PendingAfterDisable: the flag is cleared under a retained client.
MutantPendingAfterDisable == FALSE
PendingAfterDisable == low_priority_pending /\ mpsl_client_references # 0

\* sdc_disable succeeds (a failure changes nothing). Pending low-priority work
\* may belong to a retained client, so its flag survives while there is one.
Disable ==
    /\ pc = "idle" /\ enabled
    /\ enabled' = FALSE
    /\ hci_pending' = FALSE /\ hciQueue' = 0
    /\ low_priority_pending' = PendingAfterDisable
    /\ cracen' = FALSE
    /\ ReleaseUnlessRetained
    /\ UNCHANGED <<controller_initialized, locked_config, timeslot_references,
                   mpsl_client_references, hfclk24m_references, grtc_was_enabled,
                   holders, swi, irqs, grtc, appGrtc, latencyVars>>

\* Mutant of LowPriorityDue: work is run only for an enabled controller.
MutantLowPriorityDue == enabled /\ low_priority_pending
LowPriorityDue == mpsl_initialized /\ low_priority_pending

\* nrfkit_sdc_process, first test: the flag is cleared before the vendor runs.
ProcessStart ==
    /\ pc = "idle"
    /\ IF LowPriorityDue
       THEN low_priority_pending' = FALSE /\ pc' = "lowprio"
       ELSE pc' = "tail" /\ UNCHANGED low_priority_pending
    /\ UNCHANGED <<hci_pending, enabled, controller_initialized, locked_config,
                   mpsl_initialized, timeslot_references, mpsl_client_references,
                   hfclk24m_references, grtc_was_enabled, holders, vendorVars,
                   latencyVars>>

\* mpsl_low_priority_process: all work is run. The controller may queue HCI
\* packets and calls controller_callback() for them; SESSION_CLOSED may reach
\* clients, which call nrfkit_mpsl_timeslot_release().
ProcessWork ==
    /\ pc = "lowprio"
    /\ pc' = "tail"
    /\ work' = FALSE
    /\ \E packets \in 0..(HciBound - hciQueue) :
        /\ enabled \/ packets = 0
        /\ hciQueue' = hciQueue + packets
        /\ hci_pending' = (hci_pending \/ packets > 0)
    /\ \E closed \in SUBSET holders :
        /\ work \/ closed = {}
        /\ holders' = holders \ closed
        /\ timeslot_references' = timeslot_references - Cardinality(closed)
        /\ mpsl_client_references' = mpsl_client_references - Cardinality(closed)
    /\ UNCHANGED <<low_priority_pending, enabled, controller_initialized,
                   locked_config, mpsl_initialized, hfclk24m_references,
                   grtc_was_enabled, swi, irqs, cracen, hf24m, mpslConfig, grtc,
                   appGrtc, latencyVars>>

\* Mutant of TeardownDue: teardown waits for another low-priority request.
MutantTeardownDue == mpsl_initialized /\ ~enabled /\ low_priority_pending
TeardownDue == mpsl_initialized /\ ~enabled

\* nrfkit_sdc_process, second test: the deferred teardown.
ProcessTail ==
    /\ pc = "tail"
    /\ IF TeardownDue
       THEN ReleaseUnlessRetained
       ELSE pc' = "idle" /\ UNCHANGED <<mpsl_initialized, work, hf24m, mpslConfig>>
    /\ UNCHANGED <<low_priority_pending, hci_pending, enabled,
                   controller_initialized, locked_config, timeslot_references,
                   mpsl_client_references, hfclk24m_references, grtc_was_enabled,
                   holders, swi, irqs, hciQueue, cracen, grtc, appGrtc, latencyVars>>

HciPendingAfterGet == hciQueue > 0

\* nrfkit_sdc_hci_get: a packet, or -NRF_EAGAIN from an empty controller.
HciGet ==
    /\ pc = "idle" /\ enabled
    /\ hciQueue' = IF hciQueue > 0 THEN hciQueue - 1 ELSE 0
    /\ hci_pending' = HciPendingAfterGet
    /\ UNCHANGED <<low_priority_pending, enabled, controller_initialized,
                   locked_config, mpsl_initialized, timeslot_references,
                   mpsl_client_references, hfclk24m_references, grtc_was_enabled,
                   pc, holders, work, swi, irqs, cracen, hf24m, mpslConfig, grtc,
                   appGrtc, latencyVars>>

\* nrfkit_mpsl_timeslot_retain by a client that holds no reference.
TimeslotRetain(c) ==
    /\ pc = "idle" /\ c \notin holders
    /\ mpsl_initialized /\ timeslot_references < MaxSessions
    /\ timeslot_references' = timeslot_references + 1
    /\ mpsl_client_references' = mpsl_client_references + 1
    /\ holders' = holders \union {c}
    /\ UNCHANGED <<low_priority_pending, hci_pending, enabled,
                   controller_initialized, locked_config, mpsl_initialized,
                   hfclk24m_references, grtc_was_enabled, pc, vendorVars, latencyVars>>

\* nrfkit_mpsl_timeslot_release by a client whose session_open failed.
TimeslotRelease(c) ==
    /\ pc = "idle" /\ c \in holders
    /\ timeslot_references # 0
    /\ timeslot_references' = timeslot_references - 1
    /\ mpsl_client_references' = mpsl_client_references - 1
    /\ holders' = holders \ {c}
    /\ UNCHANGED <<low_priority_pending, hci_pending, enabled,
                   controller_initialized, locked_config, mpsl_initialized,
                   hfclk24m_references, grtc_was_enabled, pc, vendorVars, latencyVars>>

ReferencesAfterRequest(granted) ==
    LET taken == mpsl_client_references + 1 IN IF granted THEN taken ELSE taken - 1

\* Mutant of ReferencesAfterRelease: the reference of a released request is kept.
MutantReferencesAfterRelease == mpsl_client_references

ReferencesAfterRelease == mpsl_client_references - 1

\* nrfkit_mpsl_hfclk24m_request: the client reference is taken before the
\* vendor call and given back when that fails.
Hfclk24mRequest ==
    /\ pc = "idle"
    /\ mpsl_initialized /\ hfclk24m_references = 0
    /\ \E granted \in BOOLEAN :
        /\ mpsl_client_references' = ReferencesAfterRequest(granted)
        /\ IF granted
           THEN hfclk24m_references' = 1 /\ hf24m' = TRUE
           ELSE UNCHANGED <<hfclk24m_references, hf24m>>
    /\ UNCHANGED <<low_priority_pending, hci_pending, enabled,
                   controller_initialized, locked_config, mpsl_initialized,
                   timeslot_references, grtc_was_enabled, pc, holders, work, swi,
                   irqs, hciQueue, cracen, mpslConfig, grtc, appGrtc, latencyVars>>

\* nrfkit_mpsl_hfclk24m_release, when the vendor accepts (ownership stays
\* held otherwise). MPSL is torn down by a later nrfkit_sdc_process().
Hfclk24mRelease ==
    /\ pc = "idle"
    /\ mpsl_initialized /\ hfclk24m_references # 0 /\ mpsl_client_references # 0
    /\ hfclk24m_references' = 0
    /\ mpsl_client_references' = ReferencesAfterRelease
    /\ hf24m' = FALSE
    /\ UNCHANGED <<low_priority_pending, hci_pending, enabled,
                   controller_initialized, locked_config, mpsl_initialized,
                   timeslot_references, grtc_was_enabled, pc, holders, work, swi,
                   irqs, hciQueue, cracen, mpslConfig, grtc, appGrtc, latencyVars>>

-----------------------------------------------------------------------------
(***************************************************************************)
(* Interrupts and the application's own use of GRTC.                       *)
(***************************************************************************)

\* A RADIO, TIMER10, GRTC or CLOCK interrupt makes MPSL defer work to SWI00.
MpslDefersWork ==
    /\ mpsl_initialized /\ irqs
    /\ work' = TRUE /\ swi' = TRUE
    /\ UNCHANGED <<platformVars, pc, holders, irqs, hciQueue, cracen, hf24m,
                   mpslConfig, grtc, appGrtc, latencyVars>>

\* SWI00_IRQHandler.
Swi00 ==
    /\ swi /\ irqs
    /\ swi' = FALSE
    /\ low_priority_pending' = TRUE
    /\ UNCHANGED <<hci_pending, enabled, controller_initialized, locked_config,
                   mpsl_initialized, timeslot_references, mpsl_client_references,
                   hfclk24m_references, grtc_was_enabled, pc, holders, work, irqs,
                   hciQueue, cracen, hf24m, mpslConfig, grtc, appGrtc, latencyVars>>

\* The application starts or stops the counter while MPSL does not own it.
AppSetsGrtc ==
    /\ pc = "idle" /\ ~mpsl_initialized
    /\ grtc' = ~grtc /\ appGrtc' = ~grtc
    /\ UNCHANGED <<platformVars, pc, holders, work, swi, irqs, hciQueue, cracen,
                   hf24m, mpslConfig, latencyVars>>

\* Mutant of OutermostLatency: every nested request saves the mode again.
MutantEveryLatency == TRUE
OutermostLatency == low_latency_depth = 0

\* mpsl_low_latency_acquire_callback: only the outermost request saves the mode.
\* PRIMASK makes the callback one step.
LowLatencyAcquire ==
    /\ mpsl_initialized
    /\ low_latency_depth < DepthBound
    /\ low_latency_depth' = low_latency_depth + 1
    /\ IF OutermostLatency
       THEN /\ saved_rram_low_power' = lowPowerConfig
            /\ lowPowerConfig' = Standby
            /\ constlat' = TRUE
       ELSE UNCHANGED <<saved_rram_low_power, lowPowerConfig, constlat>>
    /\ UNCHANGED <<platformVars, pc, holders, vendorVars, appPower>>

\* mpsl_low_latency_release_callback; a release too many is ignored.
LowLatencyRelease ==
    /\ low_latency_depth # 0
    /\ low_latency_depth' = low_latency_depth - 1
    /\ IF low_latency_depth = 1
       THEN /\ lowPowerConfig' = saved_rram_low_power
            /\ constlat' = FALSE
       ELSE UNCHANGED <<lowPowerConfig, constlat>>
    /\ UNCHANGED <<platformVars, pc, holders, vendorVars, saved_rram_low_power,
                   appPower>>

\* The application selects a low-power mode outside MPSL's lifetime.
AppSetsPower ==
    /\ pc = "idle" /\ ~mpsl_initialized /\ low_latency_depth = 0
    /\ \E mode \in PowerModes : lowPowerConfig' = mode /\ appPower' = mode
    /\ UNCHANGED <<platformVars, pc, holders, vendorVars, low_latency_depth,
                   saved_rram_low_power, constlat>>

-----------------------------------------------------------------------------
Process == ProcessStart \/ ProcessWork \/ ProcessTail

Next ==
    \/ InitializeFails \/ RequiredMemory \/ EnableFails \/ Enable \/ Disable
    \/ Process \/ ReleaseFinish \/ HciGet
    \/ \E c \in Clients : TimeslotRetain(c) \/ TimeslotRelease(c)
    \/ Hfclk24mRequest \/ Hfclk24mRelease
    \/ MpslDefersWork \/ Swi00 \/ LowLatencyAcquire \/ LowLatencyRelease
    \/ AppSetsGrtc \/ AppSetsPower

Spec == Init /\ [][Next]_vars

\* The foreground loop keeps calling nrfkit_sdc_process() (mpsl.h: "Continue
\* pumping"), a call that began ends, and a pending enabled interrupt is taken.
Fairness == WF_vars(Process \/ ReleaseFinish) /\ WF_vars(Swi00)
FairSpec == Spec /\ Fairness

-----------------------------------------------------------------------------
(***************************************************************************)
(* Properties.                                                             *)
(***************************************************************************)

\* The one reference count that gates every mpsl_uninit() is the sum of the
\* per-kind counts, and the per-kind counts are the clients that really hold.
ReferencesCounted ==
    /\ timeslot_references = Cardinality(holders)
    /\ mpsl_client_references = timeslot_references + hfclk24m_references
    /\ (hfclk24m_references = 1) <=> hf24m

\* MPSL is uninitialized only after SDC is disabled and every retained client
\* is released, over every failure path of enable() and required_memory().
ClientsKeepMpsl ==
    (enabled \/ holders # {} \/ hf24m) => mpsl_initialized

\* Work MPSL deferred is never forgotten: it is announced in the NVIC or in
\* low_priority_pending, or process() is about to run it.
NoLostWork ==
    work => swi \/ low_priority_pending \/ pc = "lowprio"

\* No HCI packet waits in the controller without hci_pending being set.
NoLostHci == (enabled /\ hciQueue > 0) => hci_pending

\* Between calls MPSL's interrupts are enabled exactly while it is up, no
\* stale low-priority request survives its teardown, and a counter the
\* application did not start is stopped again (and one it did start is not).
CleanWhenDown ==
    (pc = "idle" /\ ~mpsl_initialized) =>
        ~irqs /\ ~low_priority_pending /\ grtc = appGrtc

\* The clock configuration MPSL runs with is the one locked by the first
\* successful initialization, however many configurations callers offer.
RunsLockedConfig ==
    mpsl_initialized => /\ controller_initialized
                        /\ mpslConfig = locked_config
                        /\ mpslConfig \in InRange \intersect RcConsistent

\* The controller's entropy callback finds CRACEN initialized, and nothing
\* leaves CRACEN on after the controller is down.
EntropyFollowsController == cracen <=> enabled

\* Nested low-latency periods hold RRAM in standby at constant latency, and the
\* last one to end gives the application its power mode back.
LatencyRestored ==
    IF low_latency_depth = 0
    THEN lowPowerConfig = appPower /\ ~constlat
    ELSE lowPowerConfig = Standby /\ constlat /\ saved_rram_low_power = appPower

\* Nothing that waits is forgotten: deferred work and HCI packets are announced to
\* process() whatever call or interrupt came between.
Announced == NoLostWork /\ NoLostHci

\* The hardware that the platform borrows follows the use it is borrowed for, on
\* every error path too: CRACEN the controller, RRAM's power mode the nesting.
HardwareFollows == EntropyFollowsController /\ LatencyRestored

\* Deferred work is eventually run (or MPSL goes down with it).
WorkRuns == work ~> ~work

\* Once SDC is off and no client holds MPSL, pumping process() takes it down
\* unless somebody claims it again.
TeardownCompletes ==
    (mpsl_initialized /\ ~enabled /\ mpsl_client_references = 0)
        ~> (~mpsl_initialized \/ enabled \/ mpsl_client_references > 0)
=============================================================================
