--------------------------- MODULE PlatformProofs ---------------------------
(***************************************************************************)
(* Proofs about module Platform, for every set of configurations, clients  *)
(* and power modes and every bound.                                        *)
(***************************************************************************)
EXTENDS Platform, FiniteSetTheorems, TLAPS

\* release_mpsl() finds MPSL down.
ReleasesDownMpsl == pc = "release" => ~mpsl_initialized

\* MPSL has work only while it is up.
WorkNeedsMpsl == work => mpsl_initialized

\* A disabled controller holds no packets.
QueueNeedsController == ~enabled => hciQueue = 0

\* While MPSL is up, or not yet released, the counter runs for it and
\* grtc_was_enabled remembers the application's setting; otherwise nothing of
\* MPSL is left.
CounterRemembered ==
    IF mpsl_initialized \/ pc = "release"
    THEN grtc /\ grtc_was_enabled = appGrtc
    ELSE ~irqs /\ ~low_priority_pending /\ grtc = appGrtc

ReferenceInv  == ReferencesCounted /\ ClientsKeepMpsl
TeardownInv   == ReleasesDownMpsl /\ WorkNeedsMpsl /\ NoLostWork /\ CounterRemembered
ControllerInv == QueueNeedsController /\ NoLostHci /\ RunsLockedConfig
                 /\ EntropyFollowsController

IInv == TypeOK /\ ReferenceInv /\ TeardownInv /\ ControllerInv /\ LatencyRestored

-----------------------------------------------------------------------------
\* The clients that hold MPSL are finitely many, so they can be counted, and
\* closing some of their sessions takes as many off the count.
LEMMA CountHolders ==
  ASSUME IInv
  PROVE  /\ IsFiniteSet(holders) /\ Cardinality(holders) \in Nat
         /\ holders = {} <=> Cardinality(holders) = 0
         /\ \A closed \in SUBSET holders :
                /\ Cardinality(closed) \in Nat
                /\ Cardinality(closed) <= Cardinality(holders)
                /\ Cardinality(holders \ closed) = Cardinality(holders) - Cardinality(closed)
  <1>1. IsFiniteSet(holders)
      BY ClientAssumption, FS_Subset DEF IInv, TypeOK, ValuesOK
  <1>2. Cardinality(holders) \in Nat /\ (holders = {} <=> Cardinality(holders) = 0)
      BY <1>1, FS_CardinalityType, FS_EmptySet
  <1>3. ASSUME NEW closed \in SUBSET holders
        PROVE  /\ Cardinality(closed) \in Nat
               /\ Cardinality(closed) <= Cardinality(holders)
               /\ Cardinality(holders \ closed) = Cardinality(holders) - Cardinality(closed)
    <2>1. Cardinality(closed) \in Nat /\ Cardinality(closed) <= Cardinality(holders)
        BY <1>1, FS_Subset, FS_CardinalityType
    <2>2. holders \cap closed = closed
        OBVIOUS
    <2>3. Cardinality(holders \ closed) = Cardinality(holders) - Cardinality(closed)
        BY <1>1, <2>2, FS_Difference
    <2>4. QED
        BY <1>2, <2>1, <2>3
  <1>4. QED
      BY <1>1, <1>2, <1>3

\* The reset state satisfies the inductive invariant.
LEMMA InitIInv == Init => IInv
  <1> SUFFICES ASSUME Init PROVE IInv
      OBVIOUS
  <1> USE DEF Init
  <1>1. TypeOK
    <2>1. FlagsOK
        BY DEF FlagsOK
    <2>2. CountsOK
        BY BoundAssumption DEF CountsOK
    <2>3. ValuesOK
        BY DEF ValuesOK
    <2>4. QED
        BY <2>1, <2>2, <2>3 DEF TypeOK
  <1>2. ReferenceInv
      BY FS_EmptySet DEF ReferenceInv, ReferencesCounted, ClientsKeepMpsl
  <1>3. LatencyRestored
      BY DEF LatencyRestored
  <1>4. TeardownInv
      BY DEF TeardownInv, ReleasesDownMpsl, WorkNeedsMpsl, NoLostWork,
             CounterRemembered
  <1>5. ControllerInv
      BY DEF ControllerInv, QueueNeedsController, NoLostHci, RunsLockedConfig,
             EntropyFollowsController
  <1>6. QED
      BY <1>1, <1>2, <1>3, <1>4, <1>5 DEF IInv

\* Every step keeps the flags Boolean.
LEMMA FlagsStep == FlagsOK /\ [Next]_vars => FlagsOK'
  <1> SUFFICES ASSUME FlagsOK, [Next]_vars PROVE FlagsOK'
      OBVIOUS
  <1> USE DEF FlagsOK
  <1>1. CASE InitializeFails
      BY <1>1 DEF InitializeFails, MpslInitFails, LaterInitFails, StartMpsl,
             MpslUninit, latencyVars
  <1>2. CASE RequiredMemory
    <2>1. /\ controller_initialized' \in BOOLEAN /\ grtc_was_enabled' \in BOOLEAN
          /\ grtc' \in BOOLEAN /\ irqs' \in BOOLEAN /\ swi' \in BOOLEAN
        BY <1>2 DEF RequiredMemory, InitializeAndRelease, Initialized, StartMpsl
    <2>2. mpsl_initialized' \in BOOLEAN /\ work' \in BOOLEAN /\ hf24m' \in BOOLEAN
        BY <1>2 DEF RequiredMemory, InitializeAndRelease, KeepMpsl, MpslUninit
    <2>3. QED
        BY <1>2, <2>1, <2>2 DEF RequiredMemory, latencyVars
  <1>3. CASE EnableFails
    <2>1. cracen' \in BOOLEAN
        BY <1>3 DEF EnableFails, CracenAfter
    <2>2. /\ controller_initialized' \in BOOLEAN /\ grtc_was_enabled' \in BOOLEAN
          /\ grtc' \in BOOLEAN /\ irqs' \in BOOLEAN /\ swi' \in BOOLEAN
        BY <1>3 DEF EnableFails, InitializeAndRelease, Initialized, StartMpsl
    <2>3. mpsl_initialized' \in BOOLEAN /\ work' \in BOOLEAN /\ hf24m' \in BOOLEAN
        BY <1>3 DEF EnableFails, InitializeAndRelease, KeepMpsl, MpslUninit
    <2>4. QED
        BY <1>3, <2>1, <2>2, <2>3 DEF EnableFails, latencyVars
  <1>4. CASE Enable
      BY <1>4, ZenonT(30) DEF Enable, Initialized, StartMpsl, KeepMpsl, latencyVars
  <1>5. CASE Disable
      BY <1>5 DEF Disable, PendingAfterDisable, ReleaseUnlessRetained, MpslUninit,
             latencyVars
  <1>6. CASE ProcessStart
    <2>1. low_priority_pending' \in BOOLEAN
        BY <1>6 DEF ProcessStart
    <2>2. QED
        BY <1>6, <2>1 DEF ProcessStart, vendorVars, latencyVars
  <1>7. CASE ProcessWork
    <2>1. hci_pending' \in BOOLEAN
        BY <1>7 DEF ProcessWork
    <2>2. /\ work' = FALSE
          /\ UNCHANGED <<low_priority_pending, enabled, controller_initialized,
                         mpsl_initialized, grtc_was_enabled, swi, irqs, cracen,
                         hf24m, grtc, appGrtc, constlat>>
        BY <1>7 DEF ProcessWork, latencyVars
    <2>3. QED
        BY <2>1, <2>2, ZenonT(30)
  <1>8. CASE ProcessTail
    <2>1. mpsl_initialized' \in BOOLEAN /\ work' \in BOOLEAN /\ hf24m' \in BOOLEAN
        BY <1>8 DEF ProcessTail, ReleaseUnlessRetained, MpslUninit
    <2>2. QED
        BY <1>8, <2>1 DEF ProcessTail, latencyVars
  <1>9. CASE ReleaseFinish
      BY <1>9, ZenonT(30) DEF ReleaseFinish, GrtcAfterRelease, latencyVars
  <1>10. CASE HciGet
      BY <1>10 DEF HciGet, HciPendingAfterGet, latencyVars
  <1>11. ASSUME NEW c \in Clients, TimeslotRetain(c) PROVE FlagsOK'
      BY <1>11 DEF TimeslotRetain, vendorVars, latencyVars
  <1>12. ASSUME NEW c \in Clients, TimeslotRelease(c) PROVE FlagsOK'
      BY <1>12 DEF TimeslotRelease, vendorVars, latencyVars
  <1>13. CASE Hfclk24mRequest
    <2>1. hf24m' \in BOOLEAN
        BY <1>13 DEF Hfclk24mRequest
    <2>2. QED
        BY <1>13, <2>1 DEF Hfclk24mRequest, latencyVars
  <1>14. CASE Hfclk24mRelease
    <2>1. hf24m' \in BOOLEAN
        BY <1>14 DEF Hfclk24mRelease
    <2>2. QED
        BY <1>14, <2>1 DEF Hfclk24mRelease, latencyVars
  <1>15. CASE MpslDefersWork
      BY <1>15 DEF MpslDefersWork, platformVars, latencyVars
  <1>16. CASE Swi00
      BY <1>16, ZenonT(30) DEF Swi00, latencyVars
  <1>17. CASE LowLatencyAcquire
    <2>1. constlat' \in BOOLEAN
        BY <1>17 DEF LowLatencyAcquire
    <2>2. QED
        BY <1>17, <2>1 DEF LowLatencyAcquire, platformVars, vendorVars
  <1>18. CASE LowLatencyRelease
    <2>1. constlat' \in BOOLEAN
        BY <1>18 DEF LowLatencyRelease
    <2>2. QED
        BY <1>18, <2>1 DEF LowLatencyRelease, platformVars, vendorVars
  <1>19. CASE AppSetsGrtc
      BY <1>19 DEF AppSetsGrtc, platformVars, latencyVars
  <1>20. CASE AppSetsPower
      BY <1>20 DEF AppSetsPower, platformVars, vendorVars
  <1>21. CASE UNCHANGED vars
      BY <1>21 DEF vars, platformVars, vendorVars, latencyVars
  <1>22. QED
      BY <1>1, <1>2, <1>3, <1>4, <1>5, <1>6, <1>7, <1>8, <1>9, <1>10, <1>11, <1>12,
         <1>13, <1>14, <1>15, <1>16, <1>17, <1>18, <1>19, <1>20, <1>21 DEF
         Next, Process

\* Every step keeps the counts in their ranges: no release takes one below zero.
LEMMA RangesStep == IInv /\ [Next]_vars => CountsOK'
  <1> SUFFICES ASSUME IInv, [Next]_vars PROVE CountsOK'
      OBVIOUS
  <1> USE BoundAssumption DEF IInv, TypeOK, CountsOK
  <1>1. CASE InitializeFails
      BY <1>1 DEF InitializeFails, MpslInitFails, LaterInitFails, StartMpsl,
             MpslUninit, latencyVars
  <1>2. CASE RequiredMemory
      BY <1>2 DEF RequiredMemory, InitializeAndRelease, Initialized, StartMpsl,
             KeepMpsl, MpslUninit, latencyVars
  <1>3. CASE EnableFails
      BY <1>3 DEF EnableFails, InitializeAndRelease, Initialized, StartMpsl,
             KeepMpsl, MpslUninit, CracenAfter, latencyVars
  <1>4. CASE Enable
      BY <1>4 DEF Enable, Initialized, StartMpsl, KeepMpsl, latencyVars
  <1>5. CASE Disable
      BY <1>5 DEF Disable, PendingAfterDisable, ReleaseUnlessRetained, MpslUninit,
             latencyVars
  <1>6. CASE ProcessStart
      BY <1>6 DEF ProcessStart, LowPriorityDue, vendorVars, latencyVars
  <1>7. CASE ProcessWork
    <2>1. timeslot_references = Cardinality(holders)
          /\ mpsl_client_references = timeslot_references + hfclk24m_references
        BY DEF ReferenceInv, ReferencesCounted
    <2>2. QED
        BY <1>7, <2>1, CountHolders DEF ProcessWork, latencyVars
  <1>8. CASE ProcessTail
      BY <1>8 DEF ProcessTail, TeardownDue, ReleaseUnlessRetained, MpslUninit,
             latencyVars
  <1>9. CASE ReleaseFinish
      BY <1>9 DEF ReleaseFinish, GrtcAfterRelease, latencyVars
  <1>10. CASE HciGet
      BY <1>10 DEF HciGet, HciPendingAfterGet, latencyVars
  <1>11. ASSUME NEW c \in Clients, TimeslotRetain(c) PROVE CountsOK'
    <2>1. mpsl_client_references = timeslot_references + hfclk24m_references
        BY DEF ReferenceInv, ReferencesCounted
    <2>2. QED
        BY <1>11, <2>1 DEF TimeslotRetain, vendorVars, latencyVars
  <1>12. ASSUME NEW c \in Clients, TimeslotRelease(c) PROVE CountsOK'
    <2>1. mpsl_client_references = timeslot_references + hfclk24m_references
        BY DEF ReferenceInv, ReferencesCounted
    <2>2. QED
        BY <1>12, <2>1 DEF TimeslotRelease, vendorVars, latencyVars
  <1>13. CASE Hfclk24mRequest
    <2>1. mpsl_client_references = timeslot_references + hfclk24m_references
        BY DEF ReferenceInv, ReferencesCounted
    <2>2. QED
        BY <1>13, <2>1 DEF Hfclk24mRequest, ReferencesAfterRequest, latencyVars
  <1>14. CASE Hfclk24mRelease
    <2>1. mpsl_client_references = timeslot_references + hfclk24m_references
        BY DEF ReferenceInv, ReferencesCounted
    <2>2. QED
        BY <1>14, <2>1 DEF Hfclk24mRelease, ReferencesAfterRelease, latencyVars
  <1>15. CASE MpslDefersWork
      BY <1>15 DEF MpslDefersWork, platformVars, latencyVars
  <1>16. CASE Swi00
      BY <1>16 DEF Swi00, latencyVars
  <1>17. CASE LowLatencyAcquire
      BY <1>17 DEF LowLatencyAcquire, OutermostLatency, platformVars, vendorVars
  <1>18. CASE LowLatencyRelease
      BY <1>18 DEF LowLatencyRelease, platformVars, vendorVars
  <1>19. CASE AppSetsGrtc
      BY <1>19 DEF AppSetsGrtc, platformVars, latencyVars
  <1>20. CASE AppSetsPower
      BY <1>20 DEF AppSetsPower, platformVars, vendorVars
  <1>21. CASE UNCHANGED vars
      BY <1>21 DEF vars, platformVars, vendorVars, latencyVars
  <1>22. QED
      BY <1>1, <1>2, <1>3, <1>4, <1>5, <1>6, <1>7, <1>8, <1>9, <1>10, <1>11, <1>12,
         <1>13, <1>14, <1>15, <1>16, <1>17, <1>18, <1>19, <1>20, <1>21 DEF
         Next, Process

\* Every step keeps configurations, power modes and places what they are.
LEMMA ValuesStep == ValuesOK /\ [Next]_vars => ValuesOK'
  <1> SUFFICES ASSUME ValuesOK, [Next]_vars PROVE ValuesOK'
      OBVIOUS
  <1> USE PowerAssumption DEF ValuesOK
  <1>1. CASE InitializeFails
      BY <1>1 DEF InitializeFails, MpslInitFails, LaterInitFails, StartMpsl,
             MpslUninit, latencyVars
  <1>2. CASE RequiredMemory
      BY <1>2 DEF RequiredMemory, InitializeAndRelease, Initialized, StartMpsl,
             KeepMpsl, MpslUninit, latencyVars
  <1>3. CASE EnableFails
      BY <1>3 DEF EnableFails, InitializeAndRelease, Initialized, StartMpsl,
             KeepMpsl, MpslUninit, CracenAfter, latencyVars
  <1>4. CASE Enable
      BY <1>4 DEF Enable, Initialized, StartMpsl, KeepMpsl, latencyVars
  <1>5. CASE Disable
      BY <1>5 DEF Disable, PendingAfterDisable, ReleaseUnlessRetained, MpslUninit,
             latencyVars
  <1>6. CASE ProcessStart
      BY <1>6 DEF ProcessStart, LowPriorityDue, vendorVars, latencyVars
  <1>7. CASE ProcessWork
      BY <1>7 DEF ProcessWork, latencyVars
  <1>8. CASE ProcessTail
      BY <1>8 DEF ProcessTail, TeardownDue, ReleaseUnlessRetained, MpslUninit,
             latencyVars
  <1>9. CASE ReleaseFinish
      BY <1>9 DEF ReleaseFinish, GrtcAfterRelease, latencyVars
  <1>10. CASE HciGet
      BY <1>10 DEF HciGet, HciPendingAfterGet, latencyVars
  <1>11. ASSUME NEW c \in Clients, TimeslotRetain(c) PROVE ValuesOK'
      BY <1>11 DEF TimeslotRetain, vendorVars, latencyVars
  <1>12. ASSUME NEW c \in Clients, TimeslotRelease(c) PROVE ValuesOK'
      BY <1>12 DEF TimeslotRelease, vendorVars, latencyVars
  <1>13. CASE Hfclk24mRequest
      BY <1>13 DEF Hfclk24mRequest, ReferencesAfterRequest, latencyVars
  <1>14. CASE Hfclk24mRelease
      BY <1>14 DEF Hfclk24mRelease, ReferencesAfterRelease, latencyVars
  <1>15. CASE MpslDefersWork
      BY <1>15 DEF MpslDefersWork, platformVars, latencyVars
  <1>16. CASE Swi00
      BY <1>16 DEF Swi00, latencyVars
  <1>17. CASE LowLatencyAcquire
      BY <1>17 DEF LowLatencyAcquire, OutermostLatency, platformVars, vendorVars
  <1>18. CASE LowLatencyRelease
      BY <1>18 DEF LowLatencyRelease, platformVars, vendorVars
  <1>19. CASE AppSetsGrtc
      BY <1>19 DEF AppSetsGrtc, platformVars, latencyVars
  <1>20. CASE AppSetsPower
      BY <1>20 DEF AppSetsPower, platformVars, vendorVars
  <1>21. CASE UNCHANGED vars
      BY <1>21 DEF vars, platformVars, vendorVars, latencyVars
  <1>22. QED
      BY <1>1, <1>2, <1>3, <1>4, <1>5, <1>6, <1>7, <1>8, <1>9, <1>10, <1>11, <1>12,
         <1>13, <1>14, <1>15, <1>16, <1>17, <1>18, <1>19, <1>20, <1>21 DEF
         Next, Process

\* Every step keeps the reference counts exact and MPSL up for whoever needs it.
LEMMA CountStep == IInv /\ [Next]_vars => ReferenceInv'
  <1> SUFFICES ASSUME IInv, [Next]_vars PROVE ReferenceInv'
      OBVIOUS
  <1> USE CountHolders
      DEF IInv, TypeOK, FlagsOK, CountsOK, ReferenceInv,
          ReferencesCounted, ClientsKeepMpsl
  <1>1. CASE InitializeFails
      BY <1>1 DEF InitializeFails, MpslInitFails, LaterInitFails, StartMpsl,
             MpslUninit
  <1>2. CASE RequiredMemory
      BY <1>2 DEF RequiredMemory, InitializeAndRelease, Initialized, StartMpsl,
             KeepMpsl, MpslUninit
  <1>3. CASE EnableFails
      BY <1>3 DEF EnableFails, InitializeAndRelease, Initialized, StartMpsl,
             KeepMpsl, MpslUninit, CracenAfter
  <1>4. CASE Enable
      BY <1>4 DEF Enable, Initialized, StartMpsl, KeepMpsl
  <1>5. CASE Disable
    <2>1. CASE mpsl_client_references = 0
      <3>1. timeslot_references = 0 /\ hfclk24m_references = 0
          BY <2>1
      <3>2. holders = {} /\ ~hf24m
          BY <3>1
      <3>3. QED
          BY <1>5, <2>1, <3>1, <3>2 DEF Disable, ReleaseUnlessRetained, MpslUninit
    <2>2. CASE mpsl_client_references # 0
        BY <1>5, <2>2 DEF Disable, ReleaseUnlessRetained
    <2>3. QED
        BY <2>1, <2>2
  <1>6. CASE ProcessStart
      BY <1>6 DEF ProcessStart, LowPriorityDue, vendorVars
  <1>7. CASE ProcessWork
    <2>1. PICK closed \in SUBSET holders :
            /\ holders' = holders \ closed
            /\ timeslot_references' = timeslot_references - Cardinality(closed)
            /\ mpsl_client_references' = mpsl_client_references - Cardinality(closed)
        BY <1>7 DEF ProcessWork
    <2>2. Cardinality(holders') = Cardinality(holders) - Cardinality(closed)
        BY <2>1
    <2>3. Cardinality(closed) \in Nat
        BY <2>1
    <2>4. ReferencesCounted'
        BY <1>7, <2>1, <2>2, <2>3 DEF ProcessWork
    <2>5. ClientsKeepMpsl'
        BY <1>7, <2>1 DEF ProcessWork
    <2>6. QED
        BY <2>4, <2>5
  <1>8. CASE ProcessTail
      BY <1>8 DEF ProcessTail, TeardownDue, ReleaseUnlessRetained, MpslUninit
  <1>9. CASE ReleaseFinish
      BY <1>9 DEF ReleaseFinish, GrtcAfterRelease
  <1>10. CASE HciGet
      BY <1>10 DEF HciGet, HciPendingAfterGet
  <1>11. ASSUME NEW c \in Clients, TimeslotRetain(c) PROVE ReferenceInv'
    <2>1. Cardinality(holders \union {c}) = Cardinality(holders) + 1
        BY <1>11, FS_AddElement DEF TimeslotRetain
    <2>2. QED
        BY <1>11, <2>1 DEF TimeslotRetain, vendorVars
  <1>12. ASSUME NEW c \in Clients, TimeslotRelease(c) PROVE ReferenceInv'
      BY <1>12, FS_RemoveElement DEF TimeslotRelease, vendorVars
  <1>13. CASE Hfclk24mRequest
      BY <1>13 DEF Hfclk24mRequest, ReferencesAfterRequest
  <1>14. CASE Hfclk24mRelease
      BY <1>14 DEF Hfclk24mRelease, ReferencesAfterRelease
  <1>15. CASE MpslDefersWork
      BY <1>15 DEF MpslDefersWork, platformVars
  <1>16. CASE Swi00
      BY <1>16 DEF Swi00
  <1>17. CASE LowLatencyAcquire
      BY <1>17 DEF LowLatencyAcquire, OutermostLatency, platformVars, vendorVars
  <1>18. CASE LowLatencyRelease
      BY <1>18 DEF LowLatencyRelease, platformVars, vendorVars
  <1>19. CASE AppSetsGrtc
      BY <1>19 DEF AppSetsGrtc, platformVars
  <1>20. CASE AppSetsPower
      BY <1>20 DEF AppSetsPower, platformVars, vendorVars
  <1>21. CASE UNCHANGED vars
      BY <1>21 DEF vars, platformVars, vendorVars
  <1>22. QED
      BY <1>1, <1>2, <1>3, <1>4, <1>5, <1>6, <1>7, <1>8, <1>9, <1>10, <1>11, <1>12,
         <1>13, <1>14, <1>15, <1>16, <1>17, <1>18, <1>19, <1>20, <1>21 DEF
         Next, Process

\* Every step keeps deferred work announced and the teardown of MPSL complete.
LEMMA ReleaseStep == IInv /\ [Next]_vars => TeardownInv'
  <1> SUFFICES ASSUME IInv, [Next]_vars PROVE TeardownInv'
      OBVIOUS
  <1> USE DEF IInv, TypeOK, FlagsOK, TeardownInv, ReleasesDownMpsl,
          WorkNeedsMpsl, NoLostWork, CounterRemembered
  <1>1. CASE InitializeFails
      BY <1>1 DEF InitializeFails, MpslInitFails, LaterInitFails, StartMpsl,
             MpslUninit
  <1>2. CASE RequiredMemory
      BY <1>2 DEF RequiredMemory, InitializeAndRelease, Initialized, StartMpsl,
             KeepMpsl, MpslUninit
  <1>3. CASE EnableFails
      BY <1>3 DEF EnableFails, InitializeAndRelease, Initialized, StartMpsl,
             KeepMpsl, MpslUninit, CracenAfter
  <1>4. CASE Enable
      BY <1>4 DEF Enable, Initialized, StartMpsl, KeepMpsl
  <1>5. CASE Disable
    <2>1. mpsl_initialized
        BY <1>5 DEF Disable, ReferenceInv, ClientsKeepMpsl
    <2>2. CASE mpsl_client_references = 0
        BY <1>5, <2>1, <2>2 DEF Disable, ReleaseUnlessRetained, MpslUninit
    <2>3. CASE mpsl_client_references # 0
        BY <1>5, <2>1, <2>3 DEF Disable, PendingAfterDisable, ReleaseUnlessRetained
    <2>4. QED
        BY <2>2, <2>3
  <1>6. CASE ProcessStart
      BY <1>6 DEF ProcessStart, LowPriorityDue, vendorVars
  <1>7. CASE ProcessWork
      BY <1>7 DEF ProcessWork
  <1>8. CASE ProcessTail
      BY <1>8 DEF ProcessTail, TeardownDue, ReleaseUnlessRetained, MpslUninit
  <1>9. CASE ReleaseFinish
      BY <1>9 DEF ReleaseFinish, GrtcAfterRelease
  <1>10. CASE HciGet
      BY <1>10 DEF HciGet, HciPendingAfterGet
  <1>11. ASSUME NEW c \in Clients, TimeslotRetain(c) PROVE TeardownInv'
      BY <1>11 DEF TimeslotRetain, vendorVars
  <1>12. ASSUME NEW c \in Clients, TimeslotRelease(c) PROVE TeardownInv'
      BY <1>12 DEF TimeslotRelease, vendorVars
  <1>13. CASE Hfclk24mRequest
      BY <1>13 DEF Hfclk24mRequest, ReferencesAfterRequest
  <1>14. CASE Hfclk24mRelease
      BY <1>14 DEF Hfclk24mRelease, ReferencesAfterRelease
  <1>15. CASE MpslDefersWork
      BY <1>15 DEF MpslDefersWork, platformVars
  <1>16. CASE Swi00
      BY <1>16 DEF Swi00
  <1>17. CASE LowLatencyAcquire
      BY <1>17 DEF LowLatencyAcquire, OutermostLatency, platformVars, vendorVars
  <1>18. CASE LowLatencyRelease
      BY <1>18 DEF LowLatencyRelease, platformVars, vendorVars
  <1>19. CASE AppSetsGrtc
      BY <1>19 DEF AppSetsGrtc, platformVars
  <1>20. CASE AppSetsPower
      BY <1>20 DEF AppSetsPower, platformVars, vendorVars
  <1>21. CASE UNCHANGED vars
      BY <1>21 DEF vars, platformVars, vendorVars
  <1>22. QED
      BY <1>1, <1>2, <1>3, <1>4, <1>5, <1>6, <1>7, <1>8, <1>9, <1>10, <1>11, <1>12,
         <1>13, <1>14, <1>15, <1>16, <1>17, <1>18, <1>19, <1>20, <1>21 DEF
         Next, Process

\* Every step keeps the controller's packets announced, its configuration locked
\* and its entropy source on.
LEMMA ControllerStep == IInv /\ [Next]_vars => ControllerInv'
  <1> SUFFICES ASSUME IInv, [Next]_vars PROVE ControllerInv'
      OBVIOUS
  <1> USE DEF IInv, TypeOK, FlagsOK, CountsOK, Rejected, ControllerInv,
          QueueNeedsController, NoLostHci, RunsLockedConfig, EntropyFollowsController
  <1>1. CASE InitializeFails
      BY <1>1 DEF InitializeFails, MpslInitFails, LaterInitFails, StartMpsl,
             MpslUninit
  <1>2. CASE RequiredMemory
      BY <1>2 DEF RequiredMemory, InitializeAndRelease, Initialized, StartMpsl,
             KeepMpsl, MpslUninit
  <1>3. CASE EnableFails
      BY <1>3 DEF EnableFails, InitializeAndRelease, Initialized, StartMpsl,
             KeepMpsl, MpslUninit, CracenAfter
  <1>4. CASE Enable
      BY <1>4 DEF Enable, Initialized, StartMpsl, KeepMpsl
  <1>5. CASE Disable
      BY <1>5 DEF Disable, PendingAfterDisable, ReleaseUnlessRetained, MpslUninit
  <1>6. CASE ProcessStart
      BY <1>6 DEF ProcessStart, LowPriorityDue, vendorVars
  <1>7. CASE ProcessWork
      BY <1>7 DEF ProcessWork
  <1>8. CASE ProcessTail
      BY <1>8 DEF ProcessTail, TeardownDue, ReleaseUnlessRetained, MpslUninit
  <1>9. CASE ReleaseFinish
      BY <1>9 DEF ReleaseFinish, GrtcAfterRelease
  <1>10. CASE HciGet
      BY <1>10 DEF HciGet, HciPendingAfterGet
  <1>11. ASSUME NEW c \in Clients, TimeslotRetain(c) PROVE ControllerInv'
      BY <1>11 DEF TimeslotRetain, vendorVars
  <1>12. ASSUME NEW c \in Clients, TimeslotRelease(c) PROVE ControllerInv'
      BY <1>12 DEF TimeslotRelease, vendorVars
  <1>13. CASE Hfclk24mRequest
      BY <1>13 DEF Hfclk24mRequest, ReferencesAfterRequest
  <1>14. CASE Hfclk24mRelease
      BY <1>14 DEF Hfclk24mRelease, ReferencesAfterRelease
  <1>15. CASE MpslDefersWork
      BY <1>15 DEF MpslDefersWork, platformVars
  <1>16. CASE Swi00
      BY <1>16 DEF Swi00
  <1>17. CASE LowLatencyAcquire
      BY <1>17 DEF LowLatencyAcquire, OutermostLatency, platformVars, vendorVars
  <1>18. CASE LowLatencyRelease
      BY <1>18 DEF LowLatencyRelease, platformVars, vendorVars
  <1>19. CASE AppSetsGrtc
      BY <1>19 DEF AppSetsGrtc, platformVars
  <1>20. CASE AppSetsPower
      BY <1>20 DEF AppSetsPower, platformVars, vendorVars
  <1>21. CASE UNCHANGED vars
      BY <1>21 DEF vars, platformVars, vendorVars
  <1>22. QED
      BY <1>1, <1>2, <1>3, <1>4, <1>5, <1>6, <1>7, <1>8, <1>9, <1>10, <1>11, <1>12,
         <1>13, <1>14, <1>15, <1>16, <1>17, <1>18, <1>19, <1>20, <1>21 DEF
         Next, Process

\* Every step keeps the application's power mode saved or restored.
LEMMA LatencyStep == IInv /\ [Next]_vars => LatencyRestored'
  <1> SUFFICES ASSUME IInv, [Next]_vars PROVE LatencyRestored'
      OBVIOUS
  <1> USE DEF IInv, TypeOK, FlagsOK, CountsOK, LatencyRestored
  <1>1. CASE InitializeFails
      BY <1>1 DEF InitializeFails, MpslInitFails, LaterInitFails, StartMpsl,
             MpslUninit, latencyVars
  <1>2. CASE RequiredMemory
      BY <1>2 DEF RequiredMemory, InitializeAndRelease, Initialized, StartMpsl,
             KeepMpsl, MpslUninit, latencyVars
  <1>3. CASE EnableFails
      BY <1>3 DEF EnableFails, InitializeAndRelease, Initialized, StartMpsl,
             KeepMpsl, MpslUninit, CracenAfter, latencyVars
  <1>4. CASE Enable
      BY <1>4 DEF Enable, Initialized, StartMpsl, KeepMpsl, latencyVars
  <1>5. CASE Disable
      BY <1>5 DEF Disable, PendingAfterDisable, ReleaseUnlessRetained, MpslUninit,
             latencyVars
  <1>6. CASE ProcessStart
      BY <1>6 DEF ProcessStart, LowPriorityDue, vendorVars, latencyVars
  <1>7. CASE ProcessWork
      BY <1>7 DEF ProcessWork, latencyVars
  <1>8. CASE ProcessTail
      BY <1>8 DEF ProcessTail, TeardownDue, ReleaseUnlessRetained, MpslUninit,
             latencyVars
  <1>9. CASE ReleaseFinish
      BY <1>9 DEF ReleaseFinish, GrtcAfterRelease, latencyVars
  <1>10. CASE HciGet
      BY <1>10 DEF HciGet, HciPendingAfterGet, latencyVars
  <1>11. ASSUME NEW c \in Clients, TimeslotRetain(c) PROVE LatencyRestored'
      BY <1>11 DEF TimeslotRetain, vendorVars, latencyVars
  <1>12. ASSUME NEW c \in Clients, TimeslotRelease(c) PROVE LatencyRestored'
      BY <1>12 DEF TimeslotRelease, vendorVars, latencyVars
  <1>13. CASE Hfclk24mRequest
      BY <1>13 DEF Hfclk24mRequest, ReferencesAfterRequest, latencyVars
  <1>14. CASE Hfclk24mRelease
      BY <1>14 DEF Hfclk24mRelease, ReferencesAfterRelease, latencyVars
  <1>15. CASE MpslDefersWork
      BY <1>15 DEF MpslDefersWork, platformVars, latencyVars
  <1>16. CASE Swi00
      BY <1>16 DEF Swi00, latencyVars
  <1>17. CASE LowLatencyAcquire
      BY <1>17 DEF LowLatencyAcquire, OutermostLatency, platformVars, vendorVars
  <1>18. CASE LowLatencyRelease
    <2>1. CASE low_latency_depth = 1
        BY <1>18, <2>1 DEF LowLatencyRelease, platformVars, vendorVars
    <2>2. CASE low_latency_depth # 1
        BY <1>18, <2>2 DEF LowLatencyRelease, platformVars, vendorVars
    <2>3. QED
        BY <2>1, <2>2
  <1>19. CASE AppSetsGrtc
      BY <1>19 DEF AppSetsGrtc, platformVars, latencyVars
  <1>20. CASE AppSetsPower
      BY <1>20 DEF AppSetsPower, platformVars, vendorVars
  <1>21. CASE UNCHANGED vars
      BY <1>21 DEF vars, platformVars, vendorVars, latencyVars
  <1>22. QED
      BY <1>1, <1>2, <1>3, <1>4, <1>5, <1>6, <1>7, <1>8, <1>9, <1>10, <1>11, <1>12,
         <1>13, <1>14, <1>15, <1>16, <1>17, <1>18, <1>19, <1>20, <1>21 DEF
         Next, Process

-----------------------------------------------------------------------------
\* The inductive invariant holds in every reachable state.
THEOREM Inductive == Spec => []IInv
  <1>1. Init => IInv
      BY InitIInv
  <1>2. IInv /\ [Next]_vars => IInv'
      BY FlagsStep, RangesStep, ValuesStep, CountStep, ReleaseStep, ControllerStep,
         LatencyStep DEF IInv, TypeOK
  <1>3. QED
      BY <1>1, <1>2, PTL DEF Spec

\* Every variable keeps its type; no release takes a count of references,
\* packets or nested low-latency requests below zero or past its limit.
THEOREM TypeCorrect == Spec => []TypeOK
  <1>1. IInv => TypeOK
      BY DEF IInv
  <1>2. QED
      BY Inductive, <1>1, PTL

\* mpsl_client_references, which gates every mpsl_uninit(), is the number of
\* clients that hold MPSL, over every failed enable() and clock request.
THEOREM ReferencesExact == Spec => []ReferencesCounted
  <1>1. IInv => ReferencesCounted
      BY DEF IInv, ReferenceInv
  <1>2. QED
      BY Inductive, <1>1, PTL

\* No path of platform.c uninitializes MPSL under an enabled controller, an open
\* timeslot session or a held clock request.
THEOREM MpslOutlivesClients == Spec => []ClientsKeepMpsl
  <1>1. IInv => ClientsKeepMpsl
      BY DEF IInv, ReferenceInv
  <1>2. QED
      BY Inductive, <1>1, PTL

\* Low-priority work that MPSL deferred is announced until process() runs it, and
\* a packet in the controller has hci_pending set, whatever interrupts what.
THEOREM NothingForgotten == Spec => []Announced
  <1>1. IInv => Announced
      BY DEF IInv, TeardownInv, ControllerInv, Announced
  <1>2. QED
      BY Inductive, <1>1, PTL

\* Between calls a torn-down MPSL has left no interrupt enabled, no request
\* pending, and GRTC as the application set it.
THEOREM TeardownClean == Spec => []CleanWhenDown
  <1>1. IInv => CleanWhenDown
      BY DEF IInv, TeardownInv, CounterRemembered, CleanWhenDown
  <1>2. QED
      BY Inductive, <1>1, PTL

\* MPSL only ever runs with the configuration the first initialization locked.
THEOREM ConfigurationLocked == Spec => []RunsLockedConfig
  <1>1. IInv => RunsLockedConfig
      BY DEF IInv, ControllerInv
  <1>2. QED
      BY Inductive, <1>1, PTL

\* CRACEN is on exactly for an enabled controller, and nested low-latency periods
\* give the application's RRAM power mode back.
THEOREM HardwareRestored == Spec => []HardwareFollows
  <1>1. IInv => HardwareFollows
      BY DEF IInv, ControllerInv, HardwareFollows
  <1>2. QED
      BY Inductive, <1>1, PTL

=============================================================================
