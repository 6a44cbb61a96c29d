------------------------ MODULE PowerCommandsProofs -------------------------
(***************************************************************************)
(* Proofs about module PowerCommands, for any number of profiles, samples, *)
(* instruments, suspensions and resumptions.                               *)
(***************************************************************************)
EXTENDS PowerCommands, SequenceTheorems, TLAPS

(***************************************************************************)
(* The power suite                                                         *)
(***************************************************************************)
\* The steps of one profile, up to the capture and from it on.
Measuring == {"on", "flash", "peer", "peer_ready", "cycle_off", "cycle_on", "capture"}
Measured  == {"observe", "off", "peer_join"}
BackingUp == {"args", "open", "off0", "volt", "on0", "backup", "peer_backup"}

\* The steps after the target's restoration.
Restored == {"rf_off", "rf_close", "report", "done"} \cup Suite!PeerRestoring

\* The suite is at one of its steps, and an error is recorded by its own try block.
SuitePlace ==
    /\ suitePc \in BackingUp \cup Measuring \cup Measured \cup Suite!Cleanup
                   \cup Suite!Restoring \cup Suite!PeerRestoring \cup Suite!Ended
    /\ profile \in 1..Profiles
    /\ sent \in BOOLEAN /\ suiteOutput \in BOOLEAN /\ output_on \in BOOLEAN
    /\ backup_report \in BOOLEAN /\ peer_backup \in BOOLEAN /\ orphaned \in BOOLEAN
    /\ operation_error \in BOOLEAN /\ restore_error \in BOOLEAN
    /\ peer_restore_error \in BOOLEAN
    /\ suitePc \in BackingUp \cup Measuring \cup Measured => ~operation_error
    /\ suiteStatus = "ok" =>
         suitePc = "done" /\ ~operation_error /\ ~restore_error /\ ~peer_restore_error

\* The target is changed only when its backup exists, and is as it was found after its
\* restoration, unless that failed.
TargetAccounted ==
    /\ suitePc \in Measuring \cup Measured \cup Suite!Restoring \cup {"peer_backup"} =>
         backup_report
    /\ target # Suite!Original => backup_report
    /\ suitePc \in Restored \cup {"r_off2"} => target = Suite!Original \/ restore_error

\* The peer is changed only when its backup exists; an nrfutil outlives its command only
\* in a suite that failed.
PeerAccounted ==
    /\ suitePc \in BackingUp => ~peer_backup
    /\ suitePc \in Suite!PeerRestoring => peer_backup
    /\ suitePc \in Measuring \cup Measured => (peer_backup <=> Peers # {})
    /\ peer # "original" \/ peer_process # "none" \/ orphaned => peer_backup
    /\ peer_process # "none" =>
         suitePc \in {"peer_ready", "cycle_off", "cycle_on", "capture", "f_peer", "aborted"}
                     \cup Measured
    /\ suitePc = "f_peer" /\ peer_process # "none" => operation_error
    /\ orphaned => operation_error
    /\ suitePc = "p_reset" => peer = "original" \/ orphaned
    /\ suitePc \in {"report", "done"} =>
         peer = "original" \/ (peer_backup /\ peer_restore_error) \/ orphaned

\* A profile is captured on its own firmware, which the supply cycle has just started;
\* a body that ended without an error has captured all of them.
ProfilesMeasured ==
    /\ suitePc \in BackingUp \cup Measuring => captured = 1..(profile - 1)
    /\ suitePc \in Measured => captured = 1..profile
    /\ suitePc \in {"peer", "peer_ready", "cycle_off", "cycle_on", "capture"} => target = profile
    /\ suitePc = "cycle_off" /\ sent => cpu = "off"
    /\ suitePc = "cycle_on" => cpu = IF sent THEN "running" ELSE "off"
    /\ suitePc = "capture" => cpu = "running"
    /\ suitePc \in Suite!Cleanup \cup Suite!Restoring \cup Suite!PeerRestoring \cup {"done"}
         /\ ~operation_error => captured = 1..Profiles /\ backup_report

\* The restoration of the target leaves the supply off.
SupplyOff ==
    /\ suitePc = "r_off2" /\ sent => ~suiteOutput
    /\ suitePc \in Restored => operation_error \/ restore_error \/ ~suiteOutput

SuiteInv == SuitePlace /\ TargetAccounted /\ PeerAccounted /\ ProfilesMeasured /\ SupplyOff

\* The steps follow one another in the order of the three lists (Blu939 suite, its
\* finally clause, and the restoration of the peer).
LEMMA StepsInOrder ==
  /\ Suite!Follow("args") = "open" /\ Suite!Follow("open") = "off0"
  /\ Suite!Follow("off0") = "volt" /\ Suite!Follow("volt") = "on0"
  /\ Suite!Follow("on0") = "backup" /\ Suite!Follow("backup") = "peer_backup"
  /\ Suite!Follow("peer_backup") = "on" /\ Suite!Follow("on") = "flash"
  /\ Suite!Follow("flash") = "peer" /\ Suite!Follow("peer") = "peer_ready"
  /\ Suite!Follow("peer_ready") = "cycle_off" /\ Suite!Follow("cycle_off") = "cycle_on"
  /\ Suite!Follow("cycle_on") = "capture" /\ Suite!Follow("capture") = "observe"
  /\ Suite!Follow("observe") = "off" /\ Suite!Follow("off") = "peer_join"
  /\ Suite!Follow("r_open") = "r_off" /\ Suite!Follow("r_off") = "r_volt"
  /\ Suite!Follow("r_volt") = "r_on" /\ Suite!Follow("r_on") = "r_restore"
  /\ Suite!Follow("r_restore") = "r_off2" /\ Suite!Follow("r_off2") = "rf_off"
  /\ Suite!Follow("rf_off") = "rf_close" /\ Suite!Follow("p_program") = "p_verify"
  /\ Suite!Follow("p_verify") = "p_reset" /\ Suite!Follow("p_reset") = "report"
  /\ Suite!Follow("report") = "done"
  /\ Suite!Follow("peer_join") = IF profile < Profiles THEN "on" ELSE "f_peer"
  /\ Suite!Follow("f_peer") = "f_off" /\ Suite!Follow("f_off") = "f_close"
  /\ Suite!Follow("f_close") = Suite!AfterClose
  /\ Suite!Follow("rf_close") = Suite!AfterRestore
  <1>1. ASSUME NEW i \in 1..16
        PROVE  Suite!Successor(Suite!Prologue, Suite!Prologue[i]) = Suite!Prologue[i + 1]
    <2>1. DOMAIN Suite!Prologue = 1..17
        BY DEF Suite!Prologue
    <2>2. \A j \in 1..17 : Suite!Prologue[j] = Suite!Prologue[i] => j = i
        BY DEF Suite!Prologue
    <2>3. (CHOOSE j \in DOMAIN Suite!Prologue : Suite!Prologue[j] = Suite!Prologue[i]) = i
        BY <2>1, <2>2
    <2>4. QED
        BY <2>3 DEF Suite!Successor
  <1>2. ASSUME NEW i \in 1..7
        PROVE  Suite!Successor(Suite!Restore, Suite!Restore[i]) = Suite!Restore[i + 1]
    <2>1. DOMAIN Suite!Restore = 1..8
        BY DEF Suite!Restore
    <2>2. \A j \in 1..8 : Suite!Restore[j] = Suite!Restore[i] => j = i
        BY DEF Suite!Restore
    <2>3. (CHOOSE j \in DOMAIN Suite!Restore : Suite!Restore[j] = Suite!Restore[i]) = i
        BY <2>1, <2>2
    <2>4. QED
        BY <2>3 DEF Suite!Successor
  <1>3. ASSUME NEW i \in 1..4
        PROVE  Suite!Successor(Suite!PeerPart, Suite!PeerPart[i]) = Suite!PeerPart[i + 1]
    <2>1. DOMAIN Suite!PeerPart = 1..5
        BY DEF Suite!PeerPart
    <2>2. \A j \in 1..5 : Suite!PeerPart[j] = Suite!PeerPart[i] => j = i
        BY DEF Suite!PeerPart
    <2>3. (CHOOSE j \in DOMAIN Suite!PeerPart : Suite!PeerPart[j] = Suite!PeerPart[i]) = i
        BY <2>1, <2>2
    <2>4. QED
        BY <2>3 DEF Suite!Successor
  <1>4. /\ Suite!Follow("args") = "open" /\ Suite!Follow("open") = "off0"
        /\ Suite!Follow("off0") = "volt" /\ Suite!Follow("volt") = "on0"
        /\ Suite!Follow("on0") = "backup" /\ Suite!Follow("backup") = "peer_backup"
        /\ Suite!Follow("peer_backup") = "on" /\ Suite!Follow("on") = "flash"
        /\ Suite!Follow("flash") = "peer" /\ Suite!Follow("peer") = "peer_ready"
        /\ Suite!Follow("peer_ready") = "cycle_off"
        /\ Suite!Follow("cycle_off") = "cycle_on"
        /\ Suite!Follow("cycle_on") = "capture" /\ Suite!Follow("capture") = "observe"
        /\ Suite!Follow("observe") = "off" /\ Suite!Follow("off") = "peer_join"
      BY <1>1 DEF Suite!Follow, Suite!Prologue, Suite!Restore, Suite!PeerPart
  <1>5. /\ Suite!Follow("r_open") = "r_off" /\ Suite!Follow("r_off") = "r_volt"
        /\ Suite!Follow("r_volt") = "r_on" /\ Suite!Follow("r_on") = "r_restore"
        /\ Suite!Follow("r_restore") = "r_off2" /\ Suite!Follow("r_off2") = "rf_off"
        /\ Suite!Follow("rf_off") = "rf_close"
      BY <1>2 DEF Suite!Follow, Suite!Prologue, Suite!Restore, Suite!PeerPart
  <1>6. /\ Suite!Follow("p_program") = "p_verify"
        /\ Suite!Follow("p_verify") = "p_reset" /\ Suite!Follow("p_reset") = "report"
        /\ Suite!Follow("report") = "done"
      BY <1>3 DEF Suite!Follow, Suite!Prologue, Suite!Restore, Suite!PeerPart
  <1>7. /\ Suite!Follow("peer_join") = IF profile < Profiles THEN "on" ELSE "f_peer"
        /\ Suite!Follow("f_peer") = "f_off" /\ Suite!Follow("f_off") = "f_close"
        /\ Suite!Follow("f_close") = Suite!AfterClose
        /\ Suite!Follow("rf_close") = Suite!AfterRestore
      BY DEF Suite!Follow, Suite!Restore, Suite!PeerPart
  <1>8. QED
      BY <1>4, <1>5, <1>6, <1>7

\* A suite has at least one profile, and its peers are profiles of it.
LEMMA SuiteConstants ==
  /\ Profiles \in Nat \ {0} /\ Peers \subseteq 1..Profiles /\ LateErrors \in BOOLEAN
  BY CommandsAssumption DEF Suite!ConstantsOk

\* Every step of the suite, of the peer command and of an nrfutil that outlives it keeps
\* it (blu939-suite).
LEMMA SuiteStep ==
  ASSUME SuiteInv, Suite!Next
  PROVE  SuiteInv'
  <1> USE SuiteConstants DEF SuiteInv, Suite!boards, Suite!errors, BackingUp, Measuring, Measured,
              Restored, Suite!Cleanup, Suite!Restoring, Suite!PeerRestoring, Suite!Ended,
              Suite!OnSteps, Suite!OffSteps, Suite!Original, Suite!Half
  <1>1. CASE Suite!Validate
    <2>1. suitePc = "args" /\ suitePc' = "open"
        BY <1>1, StepsInOrder
           DEF Suite!Validate, Suite!Advance
    <2>2. sent' = FALSE
        BY <1>1 DEF Suite!Validate, Suite!Advance
    <2>3. SuitePlace'
        BY <1>1, <2>1, <2>2 DEF Suite!Validate, SuitePlace
    <2>4. TargetAccounted'
        BY <1>1, <2>1, <2>2 DEF Suite!Validate, SuitePlace, TargetAccounted
    <2>5. PeerAccounted'
        BY <1>1, <2>1, <2>2 DEF Suite!Validate, SuitePlace, PeerAccounted
    <2>6. ProfilesMeasured'
        BY <1>1, <2>1, <2>2 DEF Suite!Validate, SuitePlace, ProfilesMeasured
    <2>7. SupplyOff'
        BY <1>1, <2>1, <2>2 DEF Suite!Validate, SuitePlace, ProfilesMeasured, SupplyOff
    <2>8. QED
        BY <2>3, <2>4, <2>5, <2>6, <2>7
  <1>2. CASE Suite!Open
    <2>1. \/ suitePc = "open" /\ suitePc' = "off0"
          \/ suitePc = "r_open" /\ suitePc' = "r_off"
        BY <1>2, StepsInOrder
           DEF Suite!Open, Suite!Advance
    <2>2. sent' = FALSE
        BY <1>2 DEF Suite!Open, Suite!Advance
    <2>3. SuitePlace'
        BY <1>2, <2>1, <2>2, ZenonT(60) DEF Suite!Open, SuitePlace
    <2>4. TargetAccounted'
        BY <1>2, <2>1, <2>2 DEF Suite!Open, SuitePlace, TargetAccounted
    <2>5. PeerAccounted'
        BY <1>2, <2>1, <2>2 DEF Suite!Open, SuitePlace, PeerAccounted
    <2>6. ProfilesMeasured'
        BY <1>2, <2>1, <2>2 DEF Suite!Open, SuitePlace, ProfilesMeasured
    <2>7. SupplyOff'
        BY <1>2, <2>1, <2>2 DEF Suite!Open, SuitePlace, ProfilesMeasured, SupplyOff
    <2>8. QED
        BY <2>3, <2>4, <2>5, <2>6, <2>7
  <1>3. CASE Suite!PowerWrite
    <2>1. SuitePlace'
        BY <1>3 DEF Suite!PowerWrite, Suite!Skipped, SuitePlace
    <2>2. TargetAccounted'
        BY <1>3 DEF Suite!PowerWrite, Suite!Skipped, SuitePlace, TargetAccounted
    <2>3. PeerAccounted'
        BY <1>3 DEF Suite!PowerWrite, Suite!Skipped, SuitePlace, PeerAccounted
    <2>4. ProfilesMeasured'
        BY <1>3 DEF Suite!PowerWrite, Suite!Skipped, SuitePlace, ProfilesMeasured
    <2>5. SupplyOff'
        BY <1>3 DEF Suite!PowerWrite, Suite!Skipped, SuitePlace, ProfilesMeasured, SupplyOff
    <2>6. QED
        BY <2>1, <2>2, <2>3, <2>4, <2>5
  <1>4. CASE Suite!PowerReturn
    <2>1. \/ suitePc = "on0" /\ suitePc' = "backup"
          \/ suitePc = "on" /\ suitePc' = "flash"
          \/ suitePc = "cycle_on" /\ suitePc' = "capture"
          \/ suitePc = "r_on" /\ suitePc' = "r_restore"
          \/ suitePc = "off0" /\ suitePc' = "volt"
          \/ suitePc = "cycle_off" /\ suitePc' = "cycle_on"
          \/ suitePc = "off" /\ suitePc' = "peer_join"
          \/ suitePc = "r_off" /\ suitePc' = "r_volt"
          \/ suitePc = "r_off2" /\ suitePc' = "rf_off"
        BY <1>4, StepsInOrder
           DEF Suite!PowerReturn, Suite!Advance, Suite!Skipped
    <2>2. sent' = FALSE
        BY <1>4 DEF Suite!PowerReturn, Suite!Advance
    <2>3. output_on' \in BOOLEAN
        BY <1>4 DEF Suite!PowerReturn, SuitePlace
    <2>4. UNCHANGED <<profile, suiteOutput, backup_report, peer_backup, orphaned, operation_error,
                      restore_error, peer_restore_error, suiteStatus>>
        BY <1>4 DEF Suite!PowerReturn
    <2>5. SuitePlace'
      <3>1. suitePc' \in BackingUp \cup Measuring \cup Measured \cup Suite!Restoring \cup {"rf_off"}
          BY <2>1
      <3>2. suitePc' \in BackingUp \cup Measuring \cup Measured =>
                suitePc \in BackingUp \cup Measuring \cup Measured
          BY <2>1
      <3>3. suitePc # "done" /\ sent' \in BOOLEAN
          BY <2>1, <2>2
      <3>4. QED
          BY <2>3, <2>4, <3>1, <3>2, <3>3 DEF SuitePlace
    <2>6. TargetAccounted'
        BY <1>4, <2>1, <2>2, <2>3 DEF Suite!PowerReturn, Suite!Skipped, SuitePlace,
           TargetAccounted
    <2>7. PeerAccounted'
        BY <1>4, <2>1, <2>2, <2>3 DEF Suite!PowerReturn, Suite!Skipped, SuitePlace,
           PeerAccounted
    <2>8. ProfilesMeasured'
        BY <1>4, <2>1, <2>2, <2>3 DEF Suite!PowerReturn, Suite!Skipped, SuitePlace,
           ProfilesMeasured
    <2>9. SupplyOff'
        BY <1>4, <2>1, <2>2, <2>3 DEF Suite!PowerReturn, Suite!Skipped, SuitePlace,
           ProfilesMeasured, SupplyOff
    <2>10. QED
        BY <2>5, <2>6, <2>7, <2>8, <2>9
  <1>5. CASE Suite!Voltage
    <2>1. \/ suitePc = "volt" /\ suitePc' = "on0"
          \/ suitePc = "r_volt" /\ suitePc' = "r_on"
        BY <1>5, StepsInOrder
           DEF Suite!Voltage, Suite!Advance
    <2>2. sent' = FALSE
        BY <1>5 DEF Suite!Voltage, Suite!Advance
    <2>3. SuitePlace'
        BY <1>5, <2>1, <2>2, ZenonT(60) DEF Suite!Voltage, SuitePlace
    <2>4. TargetAccounted'
        BY <1>5, <2>1, <2>2 DEF Suite!Voltage, SuitePlace, TargetAccounted
    <2>5. PeerAccounted'
        BY <1>5, <2>1, <2>2 DEF Suite!Voltage, SuitePlace, PeerAccounted
    <2>6. ProfilesMeasured'
        BY <1>5, <2>1, <2>2 DEF Suite!Voltage, SuitePlace, ProfilesMeasured
    <2>7. SupplyOff'
        BY <1>5, <2>1, <2>2 DEF Suite!Voltage, SuitePlace, ProfilesMeasured, SupplyOff
    <2>8. QED
        BY <2>3, <2>4, <2>5, <2>6, <2>7
  <1>6. CASE Suite!Backup
    <2>1. suitePc = "backup" /\ suitePc' = "peer_backup"
        BY <1>6, StepsInOrder
           DEF Suite!Backup, Suite!Advance
    <2>2. sent' = FALSE
        BY <1>6 DEF Suite!Backup, Suite!Advance
    <2>3. SuitePlace'
        BY <1>6, <2>1, <2>2 DEF Suite!Backup, SuitePlace
    <2>4. TargetAccounted'
        BY <1>6, <2>1, <2>2 DEF Suite!Backup, SuitePlace, TargetAccounted
    <2>5. PeerAccounted'
        BY <1>6, <2>1, <2>2 DEF Suite!Backup, SuitePlace, PeerAccounted
    <2>6. ProfilesMeasured'
        BY <1>6, <2>1, <2>2 DEF Suite!Backup, SuitePlace, ProfilesMeasured, TargetAccounted
    <2>7. SupplyOff'
        BY <1>6, <2>1, <2>2 DEF Suite!Backup, SuitePlace, ProfilesMeasured, SupplyOff
    <2>8. QED
        BY <2>3, <2>4, <2>5, <2>6, <2>7
  <1>7. CASE Suite!PeerBackup
    <2>1. suitePc = "peer_backup" /\ suitePc' = "on"
        BY <1>7, StepsInOrder
           DEF Suite!PeerBackup, Suite!Advance
    <2>2. sent' = FALSE
        BY <1>7 DEF Suite!PeerBackup, Suite!Advance
    <2>3. SuitePlace'
        BY <1>7, <2>1, <2>2 DEF Suite!PeerBackup, SuitePlace
    <2>4. TargetAccounted'
        BY <1>7, <2>1, <2>2 DEF Suite!PeerBackup, SuitePlace, TargetAccounted
    <2>5. PeerAccounted'
        BY <1>7, <2>1, <2>2 DEF Suite!PeerBackup, SuitePlace, PeerAccounted
    <2>6. ProfilesMeasured'
        BY <1>7, <2>1, <2>2 DEF Suite!PeerBackup, SuitePlace, ProfilesMeasured
    <2>7. SupplyOff'
        BY <1>7, <2>1, <2>2 DEF Suite!PeerBackup, SuitePlace, ProfilesMeasured, SupplyOff
    <2>8. QED
        BY <2>3, <2>4, <2>5, <2>6, <2>7
  <1>8. CASE Suite!FlashBegins
    <2>1. SuitePlace'
        BY <1>8 DEF Suite!FlashBegins, SuitePlace
    <2>2. TargetAccounted'
        BY <1>8 DEF Suite!FlashBegins, SuitePlace, TargetAccounted
    <2>3. PeerAccounted'
        BY <1>8 DEF Suite!FlashBegins, SuitePlace, PeerAccounted
    <2>4. ProfilesMeasured'
        BY <1>8 DEF Suite!FlashBegins, SuitePlace, ProfilesMeasured
    <2>5. SupplyOff'
        BY <1>8 DEF Suite!FlashBegins, SuitePlace, ProfilesMeasured, SupplyOff
    <2>6. QED
        BY <2>1, <2>2, <2>3, <2>4, <2>5
  <1>9. CASE Suite!FlashEnds
    <2>1. suitePc = "flash" /\ suitePc' = "peer"
        BY <1>9, StepsInOrder
           DEF Suite!FlashEnds, Suite!Advance
    <2>2. sent' = FALSE
        BY <1>9 DEF Suite!FlashEnds, Suite!Advance
    <2>3. SuitePlace'
        BY <1>9, <2>1, <2>2 DEF Suite!FlashEnds, SuitePlace
    <2>4. TargetAccounted'
        BY <1>9, <2>1, <2>2 DEF Suite!FlashEnds, SuitePlace, TargetAccounted
    <2>5. PeerAccounted'
        BY <1>9, <2>1, <2>2 DEF Suite!FlashEnds, SuitePlace, PeerAccounted
    <2>6. ProfilesMeasured'
        BY <1>9, <2>1, <2>2 DEF Suite!FlashEnds, SuitePlace, ProfilesMeasured
    <2>7. SupplyOff'
        BY <1>9, <2>1, <2>2 DEF Suite!FlashEnds, SuitePlace, ProfilesMeasured, SupplyOff
    <2>8. QED
        BY <2>3, <2>4, <2>5, <2>6, <2>7
  <1>10. CASE Suite!StartPeer
    <2>1. suitePc = "peer" /\ suitePc' = "peer_ready"
        BY <1>10, StepsInOrder
           DEF Suite!StartPeer, Suite!Advance
    <2>2. sent' = FALSE
        BY <1>10 DEF Suite!StartPeer, Suite!Advance
    <2>3. SuitePlace'
        BY <1>10, <2>1, <2>2 DEF Suite!StartPeer, SuitePlace
    <2>4. TargetAccounted'
        BY <1>10, <2>1, <2>2 DEF Suite!StartPeer, SuitePlace, TargetAccounted
    <2>5. PeerAccounted'
        BY <1>10, <2>1, <2>2 DEF Suite!StartPeer, SuitePlace, PeerAccounted
    <2>6. ProfilesMeasured'
        BY <1>10, <2>1, <2>2 DEF Suite!StartPeer, SuitePlace, ProfilesMeasured
    <2>7. SupplyOff'
        BY <1>10, <2>1, <2>2 DEF Suite!StartPeer, SuitePlace, ProfilesMeasured, SupplyOff
    <2>8. QED
        BY <2>3, <2>4, <2>5, <2>6, <2>7
  <1>11. CASE Suite!AwaitPeer
    <2>1. suitePc = "peer_ready" /\ suitePc' = "cycle_off"
        BY <1>11, StepsInOrder
           DEF Suite!AwaitPeer, Suite!Advance
    <2>2. sent' = FALSE
        BY <1>11 DEF Suite!AwaitPeer, Suite!Advance
    <2>3. SuitePlace'
        BY <1>11, <2>1, <2>2 DEF Suite!AwaitPeer, SuitePlace
    <2>4. TargetAccounted'
        BY <1>11, <2>1, <2>2 DEF Suite!AwaitPeer, SuitePlace, TargetAccounted
    <2>5. PeerAccounted'
        BY <1>11, <2>1, <2>2 DEF Suite!AwaitPeer, SuitePlace, PeerAccounted
    <2>6. ProfilesMeasured'
        BY <1>11, <2>1, <2>2 DEF Suite!AwaitPeer, SuitePlace, ProfilesMeasured
    <2>7. SupplyOff'
        BY <1>11, <2>1, <2>2 DEF Suite!AwaitPeer, SuitePlace, ProfilesMeasured, SupplyOff
    <2>8. QED
        BY <2>3, <2>4, <2>5, <2>6, <2>7
  <1>12. CASE Suite!Capture
    <2>1. suitePc = "capture" /\ suitePc' = "observe"
        BY <1>12, StepsInOrder
           DEF Suite!Capture, Suite!Advance
    <2>2. sent' = FALSE
        BY <1>12 DEF Suite!Capture, Suite!Advance
    <2>3. SuitePlace'
        BY <1>12, <2>1, <2>2 DEF Suite!Capture, SuitePlace
    <2>4. TargetAccounted'
        BY <1>12, <2>1, <2>2 DEF Suite!Capture, SuitePlace, TargetAccounted
    <2>5. PeerAccounted'
        BY <1>12, <2>1, <2>2 DEF Suite!Capture, SuitePlace, PeerAccounted
    <2>6. ProfilesMeasured'
        BY <1>12, <2>1, <2>2 DEF Suite!Capture, SuitePlace, ProfilesMeasured
    <2>7. SupplyOff'
        BY <1>12, <2>1, <2>2 DEF Suite!Capture, SuitePlace, ProfilesMeasured, SupplyOff
    <2>8. QED
        BY <2>3, <2>4, <2>5, <2>6, <2>7
  <1>13. CASE Suite!Observe
    <2>1. suitePc = "observe" /\ suitePc' = "off"
        BY <1>13, StepsInOrder
           DEF Suite!Observe, Suite!Advance
    <2>2. sent' = FALSE
        BY <1>13 DEF Suite!Observe, Suite!Advance
    <2>3. SuitePlace'
        BY <1>13, <2>1, <2>2 DEF Suite!Observe, SuitePlace
    <2>4. TargetAccounted'
        BY <1>13, <2>1, <2>2 DEF Suite!Observe, SuitePlace, TargetAccounted
    <2>5. PeerAccounted'
        BY <1>13, <2>1, <2>2 DEF Suite!Observe, SuitePlace, PeerAccounted
    <2>6. ProfilesMeasured'
        BY <1>13, <2>1, <2>2 DEF Suite!Observe, SuitePlace, ProfilesMeasured
    <2>7. SupplyOff'
        BY <1>13, <2>1, <2>2 DEF Suite!Observe, SuitePlace, ProfilesMeasured, SupplyOff
    <2>8. QED
        BY <2>3, <2>4, <2>5, <2>6, <2>7
  <1>14. CASE Suite!JoinPeer
    <2>1. /\ suitePc = "peer_join"
          /\ suitePc' = IF profile < Profiles THEN "on" ELSE "f_peer"
        BY <1>14, StepsInOrder
           DEF Suite!JoinPeer, Suite!Advance
    <2>2. sent' = FALSE
        BY <1>14 DEF Suite!JoinPeer, Suite!Advance
    <2>3. profile' \in 1..Profiles
        BY <1>14 DEF Suite!JoinPeer, SuitePlace
    <2>4. SuitePlace'
        BY <1>14, <2>1, <2>2, <2>3 DEF Suite!JoinPeer, SuitePlace
    <2>5. TargetAccounted'
        BY <1>14, <2>1, <2>2, <2>3 DEF Suite!JoinPeer, SuitePlace, TargetAccounted
    <2>6. PeerAccounted'
        BY <1>14, <2>1, <2>2, <2>3 DEF Suite!JoinPeer, SuitePlace, PeerAccounted
    <2>7. ProfilesMeasured'
        BY <1>14, <2>1, <2>2, <2>3 DEF Suite!JoinPeer, SuitePlace, ProfilesMeasured,
           TargetAccounted
    <2>8. SupplyOff'
        BY <1>14, <2>1, <2>2, <2>3 DEF Suite!JoinPeer, SuitePlace, ProfilesMeasured, SupplyOff
    <2>9. QED
        BY <2>4, <2>5, <2>6, <2>7, <2>8
  <1>15. CASE Suite!StopPeer
    <2>1. suitePc = "f_peer" /\ suitePc' = "f_off"
        BY <1>15, StepsInOrder
           DEF Suite!StopPeer, Suite!Advance
    <2>2. sent' = FALSE
        BY <1>15 DEF Suite!StopPeer, Suite!Advance
    <2>3. SuitePlace'
        BY <1>15, <2>1, <2>2 DEF Suite!StopPeer, SuitePlace
    <2>4. TargetAccounted'
        BY <1>15, <2>1, <2>2 DEF Suite!StopPeer, SuitePlace, TargetAccounted
    <2>5. PeerAccounted'
        BY <1>15, <2>1, <2>2 DEF Suite!StopPeer, SuitePlace, PeerAccounted
    <2>6. ProfilesMeasured'
        BY <1>15, <2>1, <2>2 DEF Suite!StopPeer, SuitePlace, ProfilesMeasured
    <2>7. SupplyOff'
        BY <1>15, <2>1, <2>2 DEF Suite!StopPeer, SuitePlace, ProfilesMeasured, SupplyOff
    <2>8. QED
        BY <2>3, <2>4, <2>5, <2>6, <2>7
  <1>16. CASE Suite!FinallyOff
    <2>1. \/ suitePc = "f_off" /\ suitePc' = "f_close"
          \/ suitePc = "rf_off" /\ suitePc' = "rf_close"
        BY <1>16, StepsInOrder
           DEF Suite!FinallyOff, Suite!Advance
    <2>2. sent' = FALSE
        BY <1>16 DEF Suite!FinallyOff, Suite!Advance
    <2>3. SuitePlace'
        BY <1>16, <2>1, <2>2 DEF Suite!FinallyOff, SuitePlace
    <2>4. TargetAccounted'
        BY <1>16, <2>1, <2>2 DEF Suite!FinallyOff, SuitePlace, TargetAccounted
    <2>5. PeerAccounted'
        BY <1>16, <2>1, <2>2 DEF Suite!FinallyOff, SuitePlace, PeerAccounted
    <2>6. ProfilesMeasured'
        BY <1>16, <2>1, <2>2 DEF Suite!FinallyOff, SuitePlace, ProfilesMeasured
    <2>7. SupplyOff'
        BY <1>16, <2>1, <2>2 DEF Suite!FinallyOff, SuitePlace, ProfilesMeasured, SupplyOff
    <2>8. QED
        BY <2>3, <2>4, <2>5, <2>6, <2>7
  <1>17. CASE Suite!FinallyOffFails
    <2>1. \/ suitePc = "f_off" /\ suitePc' = "f_close"
          \/ suitePc = "rf_off" /\ suitePc' = "rf_close"
        BY <1>17, StepsInOrder
           DEF Suite!FinallyOffFails, Suite!Advance
    <2>2. sent' = FALSE
        BY <1>17 DEF Suite!FinallyOffFails, Suite!Advance
    <2>3. SuitePlace'
        BY <1>17, <2>1, <2>2, ZenonT(60) DEF Suite!FinallyOffFails, SuitePlace
    <2>4. TargetAccounted'
        BY <1>17, <2>1, <2>2 DEF Suite!FinallyOffFails, SuitePlace, TargetAccounted
    <2>5. PeerAccounted'
        BY <1>17, <2>1, <2>2 DEF Suite!FinallyOffFails, SuitePlace, PeerAccounted
    <2>6. ProfilesMeasured'
        BY <1>17, <2>1, <2>2 DEF Suite!FinallyOffFails, SuitePlace, ProfilesMeasured
    <2>7. SupplyOff'
        BY <1>17, <2>1, <2>2 DEF Suite!FinallyOffFails, SuitePlace, ProfilesMeasured, SupplyOff
    <2>8. QED
        BY <2>3, <2>4, <2>5, <2>6, <2>7
  <1>18. CASE Suite!FinallyClose
    <2>1. \/ suitePc = "f_close" /\ suitePc' = IF backup_report THEN "r_open"
                      ELSE IF peer_backup THEN "p_program" ELSE "report"
          \/ suitePc = "rf_close" /\ suitePc' = IF peer_backup THEN "p_program" ELSE "report"
        BY <1>18, StepsInOrder
           DEF Suite!FinallyClose, Suite!Advance, Suite!AfterClose, Suite!AfterRestore
    <2>2. sent' = FALSE
        BY <1>18 DEF Suite!FinallyClose, Suite!Advance
    <2>3. SuitePlace'
        BY <1>18, <2>1, <2>2, ZenonT(60) DEF Suite!FinallyClose, SuitePlace
    <2>4. TargetAccounted'
        BY <1>18, <2>1, <2>2 DEF Suite!FinallyClose, SuitePlace, TargetAccounted
    <2>5. PeerAccounted'
        BY <1>18, <2>1, <2>2 DEF Suite!FinallyClose, SuitePlace, PeerAccounted
    <2>6. ProfilesMeasured'
        BY <1>18, <2>1, <2>2 DEF Suite!FinallyClose, SuitePlace, ProfilesMeasured
    <2>7. SupplyOff'
        BY <1>18, <2>1, <2>2 DEF Suite!FinallyClose, SuitePlace, ProfilesMeasured, SupplyOff
    <2>8. QED
        BY <2>3, <2>4, <2>5, <2>6, <2>7
  <1>19. CASE Suite!RestoreTarget
    <2>1. suitePc = "r_restore" /\ suitePc' = "r_off2"
        BY <1>19, StepsInOrder
           DEF Suite!RestoreTarget, Suite!Advance
    <2>2. sent' = FALSE
        BY <1>19 DEF Suite!RestoreTarget, Suite!Advance
    <2>3. SuitePlace'
        BY <1>19, <2>1, <2>2 DEF Suite!RestoreTarget, SuitePlace
    <2>4. TargetAccounted'
        BY <1>19, <2>1, <2>2 DEF Suite!RestoreTarget, SuitePlace, TargetAccounted
    <2>5. PeerAccounted'
        BY <1>19, <2>1, <2>2 DEF Suite!RestoreTarget, SuitePlace, PeerAccounted
    <2>6. ProfilesMeasured'
        BY <1>19, <2>1, <2>2 DEF Suite!RestoreTarget, SuitePlace, ProfilesMeasured
    <2>7. SupplyOff'
        BY <1>19, <2>1, <2>2 DEF Suite!RestoreTarget, SuitePlace, ProfilesMeasured, SupplyOff
    <2>8. QED
        BY <2>3, <2>4, <2>5, <2>6, <2>7
  <1>20. CASE Suite!PeerProgram
    <2>1. suitePc = "p_program" /\ suitePc' = "p_verify"
        BY <1>20, StepsInOrder
           DEF Suite!PeerProgram, Suite!Advance
    <2>2. sent' = FALSE
        BY <1>20 DEF Suite!PeerProgram, Suite!Advance
    <2>3. SuitePlace'
        BY <1>20, <2>1, <2>2 DEF Suite!PeerProgram, SuitePlace
    <2>4. TargetAccounted'
        BY <1>20, <2>1, <2>2 DEF Suite!PeerProgram, SuitePlace, TargetAccounted
    <2>5. PeerAccounted'
        BY <1>20, <2>1, <2>2 DEF Suite!PeerProgram, SuitePlace, PeerAccounted
    <2>6. ProfilesMeasured'
        BY <1>20, <2>1, <2>2 DEF Suite!PeerProgram, SuitePlace, ProfilesMeasured
    <2>7. SupplyOff'
        BY <1>20, <2>1, <2>2 DEF Suite!PeerProgram, SuitePlace, ProfilesMeasured, SupplyOff
    <2>8. QED
        BY <2>3, <2>4, <2>5, <2>6, <2>7
  <1>21. CASE Suite!PeerVerify
    <2>1. \/ suitePc = "p_verify" /\ suitePc' = "p_reset"
          \/ suitePc = "p_reset" /\ suitePc' = "report"
        BY <1>21, StepsInOrder
           DEF Suite!PeerVerify, Suite!Advance
    <2>2. sent' = FALSE
        BY <1>21 DEF Suite!PeerVerify, Suite!Advance
    <2>3. SuitePlace'
        BY <1>21, <2>1, <2>2, ZenonT(60) DEF Suite!PeerVerify, SuitePlace
    <2>4. TargetAccounted'
        BY <1>21, <2>1, <2>2 DEF Suite!PeerVerify, SuitePlace, TargetAccounted
    <2>5. PeerAccounted'
        BY <1>21, <2>1, <2>2 DEF Suite!PeerVerify, SuitePlace, PeerAccounted
    <2>6. ProfilesMeasured'
        BY <1>21, <2>1, <2>2 DEF Suite!PeerVerify, SuitePlace, ProfilesMeasured
    <2>7. SupplyOff'
        BY <1>21, <2>1, <2>2 DEF Suite!PeerVerify, SuitePlace, ProfilesMeasured, SupplyOff
    <2>8. QED
        BY <2>3, <2>4, <2>5, <2>6, <2>7
  <1>22. CASE Suite!Report
    <2>1. suitePc = "report" /\ suitePc' = "done"
        BY <1>22, StepsInOrder
           DEF Suite!Report, Suite!Advance
    <2>2. sent' = FALSE
        BY <1>22 DEF Suite!Report, Suite!Advance
    <2>3. SuitePlace'
        BY <1>22, <2>1, <2>2 DEF Suite!Report, SuitePlace, TargetAccounted, PeerAccounted
    <2>4. TargetAccounted'
        BY <1>22, <2>1, <2>2 DEF Suite!Report, SuitePlace, TargetAccounted
    <2>5. PeerAccounted'
        BY <1>22, <2>1, <2>2 DEF Suite!Report, SuitePlace, PeerAccounted
    <2>6. ProfilesMeasured'
        BY <1>22, <2>1, <2>2 DEF Suite!Report, SuitePlace, ProfilesMeasured
    <2>7. SupplyOff'
        BY <1>22, <2>1, <2>2 DEF Suite!Report, SuitePlace, ProfilesMeasured, SupplyOff
    <2>8. QED
        BY <2>3, <2>4, <2>5, <2>6, <2>7
  <1>23. CASE Suite!Raise
    <2>1. \/ Suite!Body(suitePc) /\ suitePc' = "f_peer" /\ operation_error' = TRUE
             /\ UNCHANGED <<restore_error, peer_restore_error, target, peer>>
          \/ /\ suitePc \in Suite!Restoring /\ suitePc' = "rf_off" /\ restore_error' = TRUE
             /\ target' = IF suitePc = "r_restore" THEN Suite!Half ELSE target
             /\ UNCHANGED <<operation_error, peer_restore_error, peer>>
          \/ /\ suitePc \in Suite!PeerRestoring /\ suitePc' = "report"
             /\ peer_restore_error' = TRUE
             /\ peer' = IF suitePc = "p_program" THEN "torn" ELSE peer
             /\ UNCHANGED <<operation_error, restore_error, target>>
        BY <1>23 DEF Suite!Raise, Suite!Body, Suite!TornTarget, Suite!TornPeer, SuitePlace
    <2>2. /\ UNCHANGED <<profile, suiteOutput, output_on, cpu, peer_process, orphaned,
                         backup_report, peer_backup, captured, suiteStatus>>
          /\ sent' = FALSE
        BY <1>23 DEF Suite!Raise
    <2>3. CASE /\ Suite!Body(suitePc)
               /\ suitePc' = "f_peer" /\ operation_error' = TRUE
               /\ UNCHANGED <<restore_error, peer_restore_error, target, peer>>
      <3>1. SuitePlace'
          BY <2>2, <2>3 DEF Suite!Body, SuitePlace
      <3>2. TargetAccounted'
          BY <2>2, <2>3 DEF Suite!Body, SuitePlace, TargetAccounted
      <3>3. PeerAccounted'
          BY <2>2, <2>3 DEF Suite!Body, SuitePlace, PeerAccounted
      <3>4. ProfilesMeasured'
          BY <2>2, <2>3 DEF Suite!Body, SuitePlace, ProfilesMeasured
      <3>5. SupplyOff'
          BY <2>2, <2>3 DEF Suite!Body, SuitePlace, ProfilesMeasured, SupplyOff
      <3>6. QED
          BY <3>1, <3>2, <3>3, <3>4, <3>5
    <2>4. CASE /\ suitePc \in Suite!Restoring
               /\ suitePc' = "rf_off" /\ restore_error' = TRUE
               /\ target' = IF suitePc = "r_restore" THEN Suite!Half ELSE target
               /\ UNCHANGED <<operation_error, peer_restore_error, peer>>
      <3>1. SuitePlace'
          BY <2>2, <2>4 DEF Suite!Body, SuitePlace
      <3>2. TargetAccounted'
          BY <2>2, <2>4 DEF Suite!Body, SuitePlace, TargetAccounted
      <3>3. PeerAccounted'
          BY <2>2, <2>4 DEF Suite!Body, SuitePlace, PeerAccounted
      <3>4. ProfilesMeasured'
          BY <2>2, <2>4 DEF Suite!Body, SuitePlace, ProfilesMeasured
      <3>5. SupplyOff'
          BY <2>2, <2>4 DEF Suite!Body, SuitePlace, ProfilesMeasured, SupplyOff
      <3>6. QED
          BY <3>1, <3>2, <3>3, <3>4, <3>5
    <2>5. CASE /\ suitePc \in Suite!PeerRestoring
               /\ suitePc' = "report" /\ peer_restore_error' = TRUE
               /\ peer' = IF suitePc = "p_program" THEN "torn" ELSE peer
               /\ UNCHANGED <<operation_error, restore_error, target>>
      <3>1. SuitePlace'
          BY <2>2, <2>5 DEF Suite!Body, SuitePlace
      <3>2. TargetAccounted'
          BY <2>2, <2>5 DEF Suite!Body, SuitePlace, TargetAccounted
      <3>3. PeerAccounted'
          BY <2>2, <2>5 DEF Suite!Body, SuitePlace, PeerAccounted
      <3>4. ProfilesMeasured'
          BY <2>2, <2>5 DEF Suite!Body, SuitePlace, ProfilesMeasured
      <3>5. SupplyOff'
          BY <2>2, <2>5 DEF Suite!Body, SuitePlace, ProfilesMeasured, SupplyOff
      <3>6. QED
          BY <3>1, <3>2, <3>3, <3>4, <3>5
    <2>6. QED
        BY <2>1, <2>3, <2>4, <2>5
  <1>24. CASE Suite!Abort
    <2>1. SuitePlace'
        BY <1>24 DEF Suite!Abort, SuitePlace
    <2>2. TargetAccounted'
        BY <1>24 DEF Suite!Abort, SuitePlace, TargetAccounted
    <2>3. PeerAccounted'
        BY <1>24 DEF Suite!Abort, SuitePlace, PeerAccounted
    <2>4. ProfilesMeasured'
        BY <1>24 DEF Suite!Abort, SuitePlace, ProfilesMeasured
    <2>5. SupplyOff'
        BY <1>24 DEF Suite!Abort, SuitePlace, ProfilesMeasured, SupplyOff
    <2>6. QED
        BY <2>1, <2>2, <2>3, <2>4, <2>5
  <1>25. CASE Suite!PeerRuns
    <2>1. SuitePlace'
        BY <1>25 DEF Suite!PeerRuns, SuitePlace
    <2>2. TargetAccounted'
        BY <1>25 DEF Suite!PeerRuns, SuitePlace, TargetAccounted
    <2>3. PeerAccounted'
        BY <1>25 DEF Suite!PeerRuns, SuitePlace, PeerAccounted
    <2>4. ProfilesMeasured'
        BY <1>25 DEF Suite!PeerRuns, SuitePlace, ProfilesMeasured
    <2>5. SupplyOff'
        BY <1>25 DEF Suite!PeerRuns, SuitePlace, ProfilesMeasured, SupplyOff
    <2>6. QED
        BY <2>1, <2>2, <2>3, <2>4, <2>5
  <1>26. CASE Suite!OrphanEnds
    <2>1. SuitePlace'
        BY <1>26 DEF Suite!OrphanEnds, SuitePlace
    <2>2. TargetAccounted'
        BY <1>26 DEF Suite!OrphanEnds, SuitePlace, TargetAccounted
    <2>3. PeerAccounted'
        BY <1>26 DEF Suite!OrphanEnds, SuitePlace, PeerAccounted
    <2>4. ProfilesMeasured'
        BY <1>26 DEF Suite!OrphanEnds, SuitePlace, ProfilesMeasured
    <2>5. SupplyOff'
        BY <1>26 DEF Suite!OrphanEnds, SuitePlace, ProfilesMeasured, SupplyOff
    <2>6. QED
        BY <2>1, <2>2, <2>3, <2>4, <2>5
  <1>27. QED
      BY <1>1, <1>2, <1>3, <1>4, <1>5, <1>6, <1>7, <1>8, <1>9, <1>10, <1>11, <1>12,
         <1>13, <1>14, <1>15, <1>16, <1>17, <1>18, <1>19, <1>20, <1>21, <1>22, <1>23, <1>24,
         <1>25, <1>26 DEF Suite!Next, Suite!Suite
-----------------------------------------------------------------------------
(***************************************************************************)
(* A session with the PPK2                                                 *)
(***************************************************************************)
\* The stream is what the host has taken followed by what is still on its way.
Stream(s, w, i) == IF i <= Len(s) THEN s[i] ELSE w[i - Len(s)]

Arrived(i) == Stream(samples, wire, i)
Total == Len(samples) + Len(wire)

\* The steps before a capture, in which nothing streams.
Opening == {"metadata", "off", "switch-off", "configure", "readback", "on", "start"}
Closing == {"cleanup", "close", "done"}

\* A session is at one of its steps, and its report is open until its cleanup.
SessionPlace ==
    /\ sessionPc \in Opening \cup Closing \cup {"capture", "stop", "decode"}
    /\ sessionStatus \in {"running", "failed", "ok", "gap"}
    /\ sessionPc \notin Closing => sessionStatus = "running"
    /\ streaming \in BOOLEAN
    /\ streaming => sessionPc \in {"capture", "stop"}
    /\ sessionPc \in Opening => samples = <<>> /\ wire = <<>>

\* The voltage is commanded before it is awaited, and awaited before the output is on.
OutputSafe ==
    /\ sessionOutput \in BOOLEAN
    /\ sessionPc \in {"readback", "on"} => setting = voltage
    /\ sessionPc = "on" => applied = voltage
    /\ sessionOutput => setting = voltage /\ applied = voltage
    /\ sessionPc \in (Opening \ {"start"}) \cup {"done"} => ~sessionOutput

\* Samples arrive in order, and the gap between two of them is not longer than what was
\* lost in all; nor is the gap that the next sample will close.
StreamOrdered ==
    /\ samples \in Seq(Nat) /\ wire \in Seq(Nat) /\ produced \in Nat /\ lost \in Nat
    /\ \A i \in 1..(Total - 1) : /\ Arrived(i) < Arrived(i + 1)
                                 /\ Arrived(i + 1) <= Arrived(i) + lost + 1
    /\ streaming /\ Total > 0 =>
         Arrived(Total) < produced /\ produced <= Arrived(Total) + lost + 1

\* What the report says of a capture is what its decoder found.
ReportTrue ==
    /\ sessionPc \in {"stop", "decode"} => Len(samples) = Count
    /\ sessionStatus = "ok" /\ samples # <<>> => Len(samples) = Count /\ Session!Continuous
    /\ sessionStatus = "gap" => ~Session!Continuous

SessionInv == SessionPlace /\ OutputSafe /\ StreamOrdered /\ ReportTrue

\* Taking the first words off the wire leaves the stream as it is.
LEMMA StreamTaken ==
  ASSUME NEW s \in Seq(Nat), NEW w \in Seq(Nat), NEW k \in 1..Len(w)
  PROVE  LET t == s \o SubSeq(w, 1, k)
             v == SubSeq(w, k + 1, Len(w))
         IN  /\ t \in Seq(Nat) /\ v \in Seq(Nat)
             /\ Len(t) = Len(s) + k /\ Len(t) + Len(v) = Len(s) + Len(w)
             /\ \A i \in 1..(Len(s) + Len(w)) : Stream(t, v, i) = Stream(s, w, i)
  <1> DEFINE u == SubSeq(w, 1, k)
             v == SubSeq(w, k + 1, Len(w))
  <1>1. Len(s) \in Nat /\ Len(w) \in Nat /\ \A i \in 1..Len(w) : w[i] \in Nat
      OBVIOUS
  <1>2. /\ u \in Seq(Nat) /\ Len(u) = k
        /\ \A i \in 1..k : u[i] = w[i]
      BY <1>1, SubSeqProperties
  <1>3. /\ v \in Seq(Nat) /\ Len(v) = Len(w) - k
        /\ \A i \in 1..(Len(w) - k) : v[i] = w[i + k]
      BY <1>1, SubSeqProperties
  <1> HIDE DEF u, v
  <1>4. /\ s \o u \in Seq(Nat) /\ Len(s \o u) = Len(s) + k
        /\ \A i \in 1..(Len(s) + k) : (s \o u)[i] = IF i <= Len(s) THEN s[i] ELSE u[i - Len(s)]
      BY <1>2, ConcatProperties
  <1>5. ASSUME NEW i \in 1..(Len(s) + Len(w))
        PROVE  Stream(s \o u, v, i) = Stream(s, w, i)
    <2>1. CASE i <= Len(s)
        BY <1>1, <1>4, <2>1 DEF Stream
    <2>2. CASE Len(s) < i /\ i <= Len(s) + k
      <3>1. i - Len(s) \in 1..k
          BY <1>1, <2>2
      <3>2. QED
          BY <1>1, <1>2, <1>4, <2>2, <3>1 DEF Stream
    <2>3. CASE i > Len(s) + k
      <3>1. i - (Len(s) + k) \in 1..(Len(w) - k) /\ (i - (Len(s) + k)) + k = i - Len(s)
          BY <1>1, <2>3
      <3>2. Stream(s \o u, v, i) = v[i - (Len(s) + k)]
          BY <1>1, <1>4, <2>3 DEF Stream
      <3>3. Stream(s, w, i) = w[i - Len(s)]
          BY <1>1, <2>3 DEF Stream
      <3>4. QED
          BY <1>3, <3>1, <3>2, <3>3
    <2>4. QED
        BY <1>1, <2>1, <2>2, <2>3
  <1>6. Len(s \o u) + Len(v) = Len(s) + Len(w)
      BY <1>1, <1>3, <1>4
  <1>7. QED
      BY <1>3, <1>4, <1>5, <1>6, Zenon DEF u, v

\* A sample that arrives is the last of the stream.
LEMMA StreamGrows ==
  ASSUME NEW s \in Seq(Nat), NEW w \in Seq(Nat), NEW p \in Nat
  PROVE  /\ Append(w, p) \in Seq(Nat) /\ Len(Append(w, p)) = Len(w) + 1
         /\ \A i \in 1..(Len(s) + Len(w)) : Stream(s, Append(w, p), i) = Stream(s, w, i)
         /\ Stream(s, Append(w, p), Len(s) + Len(w) + 1) = p
  <1>1. Len(s) \in Nat /\ Len(w) \in Nat
      OBVIOUS
  <1>2. /\ Append(w, p) \in Seq(Nat) /\ Len(Append(w, p)) = Len(w) + 1
        /\ \A i \in 1..Len(w) : Append(w, p)[i] = w[i]
        /\ Append(w, p)[Len(w) + 1] = p
      OBVIOUS
  <1>3. (Len(s) + Len(w) + 1) - Len(s) = Len(w) + 1 /\ ~(Len(s) + Len(w) + 1 <= Len(s))
      BY <1>1
  <1>4. QED
      BY <1>1, <1>2, <1>3 DEF Stream

\* A counter that follows has either advanced by one or turned at least once.
LEMMA CounterTells ==
  ASSUME NEW a \in Nat, NEW b \in Nat
  PROVE  /\ b = a + 1 => Session!Follows(a, b)
         /\ Session!Follows(a, b) /\ a < b /\ b <= a + Wrap => b = a + 1
  <1>1. Wrap \in Nat \ {0, 1}
      BY CommandsAssumption DEF Session!ConstantsOk
  <1>2. PICK q \in Nat, r \in 0..(Wrap - 1) : a = Wrap * q + r /\ a % Wrap = r
      BY <1>1
  <1>3. (a + 1) % Wrap = IF r + 1 = Wrap THEN 0 ELSE r + 1
      BY <1>1, <1>2
  <1>4. (r + 1) % Wrap = IF r + 1 = Wrap THEN 0 ELSE r + 1
      BY <1>1
  <1>5. ASSUME NEW d \in 1..Wrap, b = a + d, Session!Follows(a, b)
        PROVE  d = 1
    <2>1. (a + d) % Wrap = IF r + d >= Wrap THEN r + d - Wrap ELSE r + d
      <3>1. \A p \in Nat, x \in 0..(Wrap - 1) : (Wrap * p + x) % Wrap = x
          BY <1>1
      <3>2. CASE r + d >= Wrap
        <4>1. r + d - Wrap \in 0..(Wrap - 1) /\ q + 1 \in Nat
            BY <1>1, <1>2, <3>2
        <4>2. a + d = Wrap * (q + 1) + (r + d - Wrap)
            BY <1>1, <1>2
        <4>3. QED
            BY <3>1, <3>2, <4>1, <4>2
      <3>3. CASE r + d < Wrap
        <4>1. r + d \in 0..(Wrap - 1) /\ a + d = Wrap * q + (r + d)
            BY <1>1, <1>2, <3>3
        <4>2. QED
            BY <1>1, <1>2, <3>1, <3>3, <4>1
      <3>4. QED
          BY <1>1, <1>2, <3>2, <3>3
    <2>2. (a + d) % Wrap = (r + 1) % Wrap
        BY <1>2, <1>5 DEF Session!Follows
    <2>3. QED
        BY <1>1, <1>4, <2>1, <2>2
  <1>6. b = a + 1 => Session!Follows(a, b)
      BY <1>2, <1>3, <1>4 DEF Session!Follows
  <1>7. ASSUME a < b, b <= a + Wrap PROVE b - a \in 1..Wrap /\ b = a + (b - a)
      BY <1>1, <1>7
  <1>8. QED
      BY <1>5, <1>6, <1>7

\* The stream of a step that neither takes nor brings samples is as it was.
LEMMA StreamKept ==
  ASSUME StreamOrdered, UNCHANGED <<samples, wire, streaming, produced, lost>>
  PROVE  StreamOrdered'
  BY DEF StreamOrdered, Total, Arrived, Stream

\* Every step of the session and of the instrument keeps the order of the stream: Read
\* takes a prefix of the wire, and a loss widens the gap of the next sample only.
LEMMA StreamStep ==
  ASSUME SessionInv, Session!Next
  PROVE  StreamOrdered'
  <1> USE DEF SessionInv
  <1>1. ASSUME NEW k \in 1..Count, Session!Read(k) PROVE StreamOrdered'
    <2>1. samples \in Seq(Nat) /\ wire \in Seq(Nat) /\ k \in 1..Len(wire)
        BY <1>1 DEF StreamOrdered, Session!Read
    <2>2. /\ samples' = samples \o SubSeq(wire, 1, k)
          /\ wire' = SubSeq(wire, k + 1, Len(wire))
          /\ UNCHANGED <<streaming, produced, lost>>
        BY <1>1 DEF Session!Read
    <2>3. /\ samples' \in Seq(Nat) /\ wire' \in Seq(Nat) /\ Total' = Total
          /\ \A i \in 1..Total : Arrived(i)' = Arrived(i)
        BY <2>1, <2>2, StreamTaken DEF Total, Arrived
    <2>4. Total \in Nat
        BY <2>1 DEF Total
    <2>5. QED
        BY <2>2, <2>3, <2>4 DEF StreamOrdered
  <1>2. CASE Session!StartCapture
    <2>1. /\ samples' = <<>> /\ wire' = <<>> /\ UNCHANGED <<samples, produced, lost>>
        BY <1>2 DEF Session!StartCapture, SessionPlace, Opening
    <2>2. Total' = 0 /\ <<>> \in Seq(Nat)
        BY <2>1 DEF Total
    <2>3. QED
        BY <2>1, <2>2 DEF StreamOrdered
  <1>3. CASE Session!StopCapture
    <2>1. /\ wire' = <<>> /\ ~streaming' /\ UNCHANGED <<samples, produced, lost>>
        BY <1>3 DEF Session!StopCapture
    <2>2. samples \in Seq(Nat) /\ wire \in Seq(Nat)
        BY DEF StreamOrdered
    <2>3. /\ <<>> \in Seq(Nat) /\ Len(samples) \in Nat /\ Len(wire) \in Nat
          /\ Total' = Len(samples) /\ Total' <= Total /\ Total \in Nat
        BY <2>1, <2>2 DEF Total
    <2>4. \A i \in 1..Len(samples) : Arrived(i)' = Arrived(i)
        BY <2>1, <2>2 DEF Arrived, Stream
    <2>5. ASSUME NEW i \in 1..(Total' - 1)
          PROVE  /\ Arrived(i)' < Arrived(i + 1)'
                 /\ Arrived(i + 1)' <= Arrived(i)' + lost' + 1
      <3>1. i \in 1..(Total - 1) /\ i \in 1..Len(samples) /\ i + 1 \in 1..Len(samples)
          BY <2>3
      <3>2. QED
          BY <2>1, <2>4, <3>1 DEF StreamOrdered
    <2>6. QED
        BY <2>1, <2>2, <2>3, <2>5 DEF StreamOrdered
  <1>4. CASE Session!Sample
    <2>1. /\ streaming /\ UNCHANGED <<streaming, samples>> /\ produced' = produced + 1
          /\ samples \in Seq(Nat) /\ wire \in Seq(Nat) /\ produced \in Nat /\ lost \in Nat
        BY <1>4 DEF Session!Sample, StreamOrdered
    <2>2. Total \in Nat /\ \A i \in 1..Total : Arrived(i) \in Nat
      <3>1. Len(samples) \in Nat /\ Len(wire) \in Nat
          BY <2>1
      <3>2. \A i \in 1..Total : i <= Len(samples) \/ i - Len(samples) \in 1..Len(wire)
          BY <3>1 DEF Total
      <3>3. QED
          BY <2>1, <3>1, <3>2 DEF Arrived, Stream, Total
    <2>3. CASE wire' = Append(wire, produced) /\ UNCHANGED lost
      <3>1. /\ wire' \in Seq(Nat) /\ Total' = Total + 1
            /\ \A i \in 1..Total : Arrived(i)' = Arrived(i)
            /\ Arrived(Total)' = produced
        <4>1. Len(samples) \in Nat /\ Len(wire) \in Nat
            BY <2>1
        <4>2. wire' \in Seq(Nat) /\ Len(wire') = Len(wire) + 1
            BY <2>1, <2>3, StreamGrows
        <4>3. Total' = Len(samples) + Len(wire) + 1
            BY <2>1, <4>1, <4>2 DEF Total
        <4>4. Stream(samples, wire', Len(samples) + Len(wire) + 1) = produced
            BY <2>1, <2>3, StreamGrows
        <4>5. \A i \in 1..(Len(samples) + Len(wire)) :
                  Stream(samples, wire', i) = Stream(samples, wire, i)
            BY <2>1, <2>3, StreamGrows
        <4>6. QED
            BY <2>1, <4>2, <4>3, <4>4, <4>5 DEF Total, Arrived
      <3>2. ASSUME NEW i \in 1..(Total' - 1)
            PROVE  /\ Arrived(i)' < Arrived(i + 1)'
                   /\ Arrived(i + 1)' <= Arrived(i)' + lost' + 1
        <4>1. CASE i = Total
          <5>1. Total > 0 /\ Total \in 1..Total
              BY <2>2, <4>1
          <5>2. Arrived(Total) < produced /\ produced <= Arrived(Total) + lost + 1
              BY <2>1, <5>1 DEF StreamOrdered
          <5>3. Arrived(i)' = Arrived(Total) /\ Arrived(i + 1)' = produced
              BY <3>1, <4>1, <5>1 DEF Arrived
          <5>4. QED
              BY <2>3, <5>2, <5>3
        <4>2. CASE i \in 1..(Total - 1)
          <5>1. i \in 1..Total /\ i + 1 \in 1..Total
              BY <2>2, <4>2
          <5>2. Arrived(i)' = Arrived(i) /\ Arrived(i + 1)' = Arrived(i + 1)
              BY <3>1, <5>1
          <5>3. QED
              BY <2>3, <4>2, <5>2 DEF StreamOrdered
        <4>3. QED
            BY <2>2, <3>1, <4>1, <4>2
      <3>3. Arrived(Total)' < produced' /\ produced' <= Arrived(Total)' + lost' + 1
        <4>1. Arrived(Total)' = produced
            BY <3>1
        <4>2. QED
            BY <2>1, <2>3, <4>1
      <3>4. produced' \in Nat /\ lost' \in Nat
          BY <2>1, <2>3
      <3>5. QED
          BY <2>1, <3>1, <3>2, <3>3, <3>4 DEF StreamOrdered
    <2>4. CASE lost' = lost + 1 /\ UNCHANGED wire
      <3>1. Total' = Total /\ \A i \in 1..Total : Arrived(i)' = Arrived(i)
          BY <2>1, <2>4 DEF Total, Arrived, Stream
      <3>2. ASSUME NEW i \in 1..(Total - 1)
            PROVE  /\ Arrived(i)' < Arrived(i + 1)'
                   /\ Arrived(i + 1)' <= Arrived(i)' + lost' + 1
        <4>1. i \in 1..Total /\ i + 1 \in 1..Total
            BY <2>2
        <4>2. /\ Arrived(i) < Arrived(i + 1) /\ Arrived(i + 1) <= Arrived(i) + lost + 1
              /\ Arrived(i) \in Nat /\ Arrived(i + 1) \in Nat
            BY <2>2, <4>1 DEF StreamOrdered
        <4>3. Arrived(i)' = Arrived(i) /\ Arrived(i + 1)' = Arrived(i + 1)
            BY <3>1, <4>1
        <4>4. QED
            BY <2>1, <2>4, <4>2, <4>3
      <3>3. ASSUME Total > 0
            PROVE  Arrived(Total)' < produced' /\ produced' <= Arrived(Total)' + lost' + 1
        <4>1. Total \in 1..Total /\ Arrived(Total) \in Nat
            BY <2>2, <3>3
        <4>2. Arrived(Total) < produced /\ produced <= Arrived(Total) + lost + 1
            BY <2>1, <3>3 DEF StreamOrdered
        <4>3. Arrived(Total)' = Arrived(Total)
            BY <2>1, <2>4 DEF Total, Arrived, Stream
        <4>4. QED
            BY <2>1, <2>4, <4>1, <4>2, <4>3
      <3>4. produced' \in Nat /\ lost' \in Nat
          BY <2>1, <2>4
      <3>5. QED
          BY <2>1, <2>4, <3>1, <3>2, <3>3, <3>4 DEF StreamOrdered
    <2>5. QED
        BY <1>4, <2>3, <2>4 DEF Session!Sample
  <1>5. CASE \/ Session!Metadata \/ Session!PowerOff \/ Session!Configure
             \/ Session!Readback \/ Session!PowerOn
      BY <1>5, StreamKept DEF Session!Metadata, Session!PowerOff, Session!Configure,
         Session!Readback, Session!PowerOn, Session!stream
  <1>6. CASE \/ Session!Decode \/ Session!Raise \/ Session!Cleanup \/ Session!Close
             \/ Session!Apply
      BY <1>6, StreamKept DEF Session!Decode, Session!Raise, Session!Cleanup, Session!Close,
         Session!Apply, Session!stream
  <1>7. QED
      BY <1>1, <1>2, <1>3, <1>4, <1>5, <1>6 DEF Session!Next

\* Every step of the session and of the instrument keeps the rest of the invariant: the
\* output is switched on at the voltage that was read back, and the report is that of
\* the decoder (Ppk2.configure, capture, capture_report).
LEMMA SessionStep ==
  ASSUME SessionInv, Session!Next
  PROVE  SessionInv'
  <1> USE DEF Opening, Closing, Session!Goto, Session!regulator, Session!stream, Session!host,
              Session!Powers
  <1>1. StreamOrdered'
      BY StreamStep
  <1>2. UNCHANGED samples => (Session!Continuous <=> Session!Continuous')
      BY DEF Session!Continuous, Session!Follows
  <1>3. CASE Session!Metadata
    <2>1. SessionPlace'
        BY <1>3 DEF Session!Metadata, SessionInv, SessionPlace
    <2>2. OutputSafe'
        BY <1>3 DEF Session!Metadata, SessionInv, SessionPlace, OutputSafe
    <2>3. ReportTrue'
        BY <1>2, <1>3 DEF Session!Metadata, SessionInv, SessionPlace, ReportTrue
    <2>4. QED
        BY <1>1, <2>1, <2>2, <2>3 DEF SessionInv
  <1>4. CASE Session!PowerOff
    <2>1. SessionPlace'
        BY <1>4 DEF Session!PowerOff, SessionInv, SessionPlace
    <2>2. OutputSafe'
        BY <1>4 DEF Session!PowerOff, SessionInv, SessionPlace, OutputSafe
    <2>3. ReportTrue'
        BY <1>2, <1>4 DEF Session!PowerOff, SessionInv, SessionPlace, ReportTrue
    <2>4. QED
        BY <1>1, <2>1, <2>2, <2>3 DEF SessionInv
  <1>5. CASE Session!Configure
    <2>1. SessionPlace'
        BY <1>5 DEF Session!Configure, SessionInv, SessionPlace
    <2>2. OutputSafe'
        BY <1>5 DEF Session!Configure, SessionInv, SessionPlace, OutputSafe
    <2>3. ReportTrue'
        BY <1>2, <1>5 DEF Session!Configure, SessionInv, SessionPlace, ReportTrue
    <2>4. QED
        BY <1>1, <2>1, <2>2, <2>3 DEF SessionInv
  <1>6. CASE Session!Readback
    <2>1. SessionPlace'
        BY <1>6 DEF Session!Readback, SessionInv, SessionPlace
    <2>2. OutputSafe'
        BY <1>6 DEF Session!Readback, SessionInv, SessionPlace, OutputSafe
    <2>3. ReportTrue'
        BY <1>2, <1>6 DEF Session!Readback, SessionInv, SessionPlace, ReportTrue
    <2>4. QED
        BY <1>1, <2>1, <2>2, <2>3 DEF SessionInv
  <1>7. CASE Session!PowerOn
    <2>1. SessionPlace'
        BY <1>7 DEF Session!PowerOn, SessionInv, SessionPlace
    <2>2. OutputSafe'
        BY <1>7 DEF Session!PowerOn, SessionInv, SessionPlace, OutputSafe
    <2>3. ReportTrue'
        BY <1>2, <1>7 DEF Session!PowerOn, SessionInv, SessionPlace, ReportTrue
    <2>4. QED
        BY <1>1, <2>1, <2>2, <2>3 DEF SessionInv
  <1>8. CASE Session!StartCapture
    <2>1. SessionPlace'
        BY <1>8 DEF Session!StartCapture, SessionInv, SessionPlace
    <2>2. OutputSafe'
        BY <1>8 DEF Session!StartCapture, SessionInv, SessionPlace, OutputSafe
    <2>3. ReportTrue'
        BY <1>2, <1>8 DEF Session!StartCapture, SessionInv, SessionPlace, ReportTrue
    <2>4. QED
        BY <1>1, <2>1, <2>2, <2>3 DEF SessionInv
  <1>9. CASE Session!StopCapture
    <2>1. SessionPlace'
        BY <1>9 DEF Session!StopCapture, SessionInv, SessionPlace
    <2>2. OutputSafe'
        BY <1>9 DEF Session!StopCapture, SessionInv, SessionPlace, OutputSafe
    <2>3. ReportTrue'
        BY <1>2, <1>9 DEF Session!StopCapture, SessionInv, SessionPlace, ReportTrue
    <2>4. QED
        BY <1>1, <2>1, <2>2, <2>3 DEF SessionInv
  <1>10. CASE Session!Decode
    <2>1. SessionPlace'
        BY <1>10 DEF Session!Decode, SessionInv, SessionPlace
    <2>2. OutputSafe'
        BY <1>10 DEF Session!Decode, SessionInv, SessionPlace, OutputSafe
    <2>3. ReportTrue'
        BY <1>2, <1>10 DEF Session!Decode, SessionInv, SessionPlace, ReportTrue
    <2>4. QED
        BY <1>1, <2>1, <2>2, <2>3 DEF SessionInv
  <1>11. CASE Session!Raise
    <2>1. SessionPlace'
        BY <1>11 DEF Session!Raise, SessionInv, SessionPlace
    <2>2. OutputSafe'
        BY <1>11 DEF Session!Raise, SessionInv, SessionPlace, OutputSafe
    <2>3. ReportTrue'
        BY <1>2, <1>11 DEF Session!Raise, SessionInv, SessionPlace, ReportTrue
    <2>4. QED
        BY <1>1, <2>1, <2>2, <2>3 DEF SessionInv
  <1>12. CASE Session!Cleanup
    <2>1. SessionPlace'
        BY <1>12 DEF Session!Cleanup, SessionInv, SessionPlace
    <2>2. OutputSafe'
        BY <1>12 DEF Session!Cleanup, SessionInv, SessionPlace, OutputSafe
    <2>3. ReportTrue'
        BY <1>2, <1>12 DEF Session!Cleanup, SessionInv, SessionPlace, ReportTrue
    <2>4. QED
        BY <1>1, <2>1, <2>2, <2>3 DEF SessionInv
  <1>13. CASE Session!Close
    <2>1. SessionPlace'
        BY <1>13 DEF Session!Close, SessionInv, SessionPlace
    <2>2. OutputSafe'
        BY <1>13 DEF Session!Close, SessionInv, SessionPlace, OutputSafe
    <2>3. ReportTrue'
        BY <1>2, <1>13 DEF Session!Close, SessionInv, SessionPlace, ReportTrue
    <2>4. QED
        BY <1>1, <2>1, <2>2, <2>3 DEF SessionInv
  <1>14. CASE Session!Apply
    <2>1. SessionPlace'
        BY <1>14 DEF Session!Apply, SessionInv, SessionPlace
    <2>2. OutputSafe'
        BY <1>14 DEF Session!Apply, SessionInv, SessionPlace, OutputSafe
    <2>3. ReportTrue'
        BY <1>2, <1>14 DEF Session!Apply, SessionInv, SessionPlace, ReportTrue
    <2>4. QED
        BY <1>1, <2>1, <2>2, <2>3 DEF SessionInv
  <1>15. CASE Session!Sample
    <2>1. SessionPlace'
        BY <1>15 DEF Session!Sample, SessionInv, SessionPlace
    <2>2. OutputSafe'
        BY <1>15 DEF Session!Sample, SessionInv, SessionPlace, OutputSafe
    <2>3. ReportTrue'
        BY <1>2, <1>15 DEF Session!Sample, SessionInv, SessionPlace, ReportTrue
    <2>4. QED
        BY <1>1, <2>1, <2>2, <2>3 DEF SessionInv
  <1>16. ASSUME NEW k \in 1..Count, Session!Read(k) PROVE SessionInv'
    <2>1. SessionPlace'
        BY <1>16 DEF Session!Read, SessionInv, SessionPlace
    <2>2. OutputSafe'
        BY <1>16 DEF Session!Read, SessionInv, SessionPlace, OutputSafe
    <2>3. ReportTrue'
        BY <1>16 DEF Session!Read, SessionInv, SessionPlace, ReportTrue
    <2>4. QED
        BY <1>1, <2>1, <2>2, <2>3 DEF SessionInv
  <1>17. QED
      BY <1>3, <1>4, <1>5, <1>6, <1>7, <1>8, <1>9,
         <1>10, <1>11, <1>12, <1>13, <1>14, <1>15, <1>16 DEF Session!Next

\* What the invariant says of the report: a capture that the decoder finds continuous is
\* complete unless a whole turn of the counter was lost, and one without a loss is
\* continuous.
LEMMA SessionHolds ==
  ASSUME SessionInv
  PROVE  /\ Session!OutputAtRequest /\ Session!OffAtEnd
         /\ Session!GapFree /\ Session!NoFalseGap
  <1>1. Session!OutputAtRequest /\ Session!OffAtEnd
      BY DEF SessionInv, OutputSafe, Session!OutputAtRequest, Session!OffAtEnd
  \* The stream at two samples that follow one another.
  <1>2. ASSUME NEW i \in 1..(Len(samples) - 1)
        PROVE  /\ samples[i] \in Nat /\ samples[i + 1] \in Nat
               /\ samples[i] < samples[i + 1] /\ samples[i + 1] <= samples[i] + lost + 1
    <2>1. /\ samples \in Seq(Nat) /\ wire \in Seq(Nat)
          /\ Len(samples) \in Nat /\ Len(wire) \in Nat
        BY DEF SessionInv, StreamOrdered
    <2>2. i \in 1..(Total - 1) /\ i \in 1..Len(samples) /\ i + 1 \in 1..Len(samples)
        BY <2>1 DEF Total
    <2>3. Arrived(i) = samples[i] /\ Arrived(i + 1) = samples[i + 1]
        BY <2>2 DEF Arrived, Stream
    <2>4. Arrived(i) < Arrived(i + 1) /\ Arrived(i + 1) <= Arrived(i) + lost + 1
        BY <2>2 DEF SessionInv, StreamOrdered
    <2>5. samples[i] \in Nat /\ samples[i + 1] \in Nat
        BY <2>1, <2>2
    <2>6. QED
        BY <2>3, <2>4, <2>5
  <1>3. lost \in Nat /\ Wrap \in Nat
      BY CommandsAssumption DEF SessionInv, StreamOrdered, Session!ConstantsOk
  <1>4. Session!GapFree
    <2> SUFFICES ASSUME sessionStatus = "ok", samples # <<>>, lost < Wrap,
                        NEW i \in 1..(Len(samples) - 1)
                 PROVE  Len(samples) = Count /\ samples[i + 1] = samples[i] + 1
      <3>1. sessionStatus = "ok" /\ samples # <<>> => Len(samples) = Count
          BY DEF SessionInv, ReportTrue
      <3>2. QED
          BY <3>1 DEF Session!GapFree
    <2>1. Len(samples) = Count /\ Session!Follows(samples[i], samples[i + 1])
        BY DEF SessionInv, ReportTrue, Session!Continuous
    <2>2. samples[i + 1] <= samples[i] + Wrap
        BY <1>2, <1>3
    <2>3. QED
        BY <1>2, <2>1, <2>2, CounterTells
  <1>5. Session!NoFalseGap
    <2> SUFFICES ASSUME sessionStatus = "gap", ~(lost > 0) PROVE FALSE
        BY DEF Session!NoFalseGap
    <2>1. lost = 0
        BY <1>3
    <2>2. \A i \in 1..(Len(samples) - 1) : samples[i + 1] = samples[i] + 1
        BY <1>2, <2>1
    <2>3. Session!Continuous
        BY <1>2, <2>2, CounterTells DEF Session!Continuous
    <2>4. QED
        BY <2>3 DEF SessionInv, ReportTrue
  <1>6. QED
      BY <1>1, <1>4, <1>5

-----------------------------------------------------------------------------
(***************************************************************************)
(* The audit of PPK2 instruments                                           *)
(***************************************************************************)
\* What an audit claims at its end is inductive on its own: only the audit of an
\* instrument writes its firmware, and a shell that another audit took for its own
\* cannot switch an instrument that runs the official firmware.
AuditInv ==
    /\ DOMAIN firmware = Instruments /\ DOMAIN mode = Instruments
    /\ DOMAIN comesUp = Instruments /\ DOMAIN auditPc = Audited
    /\ DOMAIN required = Audited /\ DOMAIN restError = Audited
    /\ Audit!RestoredClaim

\* The audited instruments are instruments.
LEMMA AuditedOnBench == Audited \subseteq Instruments
  BY CommandsAssumption DEF Audit!ConstantsOk

\* An instrument that leaves the bus is away; the others are as they were.
LEMMA OthersStay ==
  ASSUME NEW i \in Instruments, NEW m, AuditInv, Audit!Leaves(i, m)
  PROVE  /\ DOMAIN mode' = Instruments /\ DOMAIN comesUp' = Instruments
         /\ \A j \in Instruments \ {i} : mode'[j] = mode[j]
  BY DEF AuditInv, Audit!Leaves

\* A step from one place of an audit to the next leaves the other audits where they are.
LEMMA OnlyOneMoves ==
  ASSUME NEW a \in Audited, NEW l, AuditInv, Audit!Goto(a, l)
  PROVE  /\ DOMAIN auditPc' = Audited /\ auditPc'[a] = l
         /\ \A b \in Audited \ {a} : auditPc'[b] = auditPc[b]
  BY DEF AuditInv, Audit!Goto

\* Every step of an audit, of an instrument that enumerates and of one that is unplugged
\* keeps it (ppk2_eeprom_cli.py).
LEMMA AuditStep ==
  ASSUME AuditInv, Audit!Next
  PROVE  AuditInv'
  <1> USE AuditedOnBench DEF Audit!device, Audit!flags
  <1>1. ASSUME NEW a \in Audited, Audit!Audit(a) PROVE AuditInv'
    \* A step that goes to another place than the end.
    <2>1. ASSUME NEW l, l # "done", Audit!Goto(a, l), UNCHANGED restError,
                 DOMAIN required' = Audited,
                 \A b \in Audited \ {a} : required'[b] = required[b],
                 DOMAIN firmware' = Instruments,
                 \A b \in Instruments \ {a} : firmware'[b] = firmware[b],
                 DOMAIN mode' = Instruments, DOMAIN comesUp' = Instruments,
                 \A b \in Audited \ {a} :
                     firmware[b] = "official" => mode'[b] = mode[b]
          PROVE  AuditInv'
        BY <2>1, OnlyOneMoves DEF AuditInv, Audit!RestoredClaim, Audit!Done
    <2>2. CASE Audit!Begin(a)
        BY <2>2, <2>1 DEF Audit!Begin, AuditInv
    <2>3. CASE Audit!SwitchToBootloader(a)
      <3>1. /\ DOMAIN mode' = Instruments /\ DOMAIN comesUp' = Instruments
            /\ \A j \in Instruments \ {a} : mode'[j] = mode[j]
          BY <2>3, OthersStay DEF Audit!SwitchToBootloader
      <3>2. QED
          BY <2>3, <2>1, <3>1 DEF Audit!SwitchToBootloader, AuditInv
    <2>4. CASE Audit!WaitBootloader(a)
        BY <2>4, <2>1 DEF Audit!WaitBootloader, AuditInv
    <2>5. CASE Audit!ProgramBegins(a)
        BY <2>5, <2>1 DEF Audit!ProgramBegins, AuditInv
    <2>6. CASE Audit!ProgramEnds(a)
      <3>1. /\ DOMAIN mode' = Instruments /\ DOMAIN comesUp' = Instruments
            /\ \A j \in Instruments \ {a} : mode'[j] = mode[j]
          BY <2>6, OthersStay DEF Audit!ProgramEnds
      <3>2. QED
          BY <2>6, <2>1, <3>1 DEF Audit!ProgramEnds, AuditInv
    <2>7. CASE Audit!WaitShell(a)
        BY <2>7, <2>1 DEF Audit!WaitShell, AuditInv
    <2>8. CASE \E first, second \in Audit!Reads(a) : Audit!ReadEeprom(a, first, second)
        BY <2>8, <2>1 DEF Audit!ReadEeprom, AuditInv
    <2>9. CASE Audit!Raise(a)
      <3>1. CASE required[a]
          BY <2>9, <3>1, <2>1 DEF Audit!Raise, AuditInv
      <3>2. CASE ~required[a]
          BY <2>9, <3>2, OnlyOneMoves
             DEF Audit!Raise, AuditInv, Audit!RestoredClaim, Audit!Done
      <3>3. QED
          BY <3>1, <3>2
    <2>10. CASE \E current \in {"Application", "Programming", Audit!None} :
                    Audit!Inspect(a, current)
      <3>1. PICK current : Audit!Inspect(a, current)
          BY <2>10
      <3>2. Audit!Decide(a, current) # "done"
          BY DEF Audit!Decide
      <3>3. QED
          BY <3>1, <3>2, <2>1 DEF Audit!Inspect, AuditInv
    <2>11. CASE Audit!FindShell(a)
        BY <2>11, <2>1 DEF Audit!FindShell, AuditInv
    <2>12. CASE Audit!ResetShell(a)
      <3>1. CASE shell[a] \in Audit!ShellPorts
        <4>1. shell[a] \in Instruments /\ firmware[shell[a]] = "temporary"
            BY <3>1 DEF Audit!ShellPorts
        <4>2. /\ DOMAIN mode' = Instruments /\ DOMAIN comesUp' = Instruments
              /\ \A j \in Instruments \ {shell[a]} : mode'[j] = mode[j]
            BY <2>12, <3>1, <4>1, OthersStay DEF Audit!ResetShell
        <4>3. \A b \in Audited : firmware[b] = "official" => mode'[b] = mode[b]
            BY <4>1, <4>2
        <4>4. QED
            BY <2>12, <2>1, <4>2, <4>3 DEF Audit!ResetShell, AuditInv
      <3>2. CASE shell[a] \notin Audit!ShellPorts
          BY <2>12, <3>2, <2>1 DEF Audit!ResetShell, AuditInv
      <3>3. QED
          BY <3>1, <3>2
    <2>13. CASE Audit!RestoreBegins(a)
        BY <2>13, <2>1 DEF Audit!RestoreBegins, AuditInv
    <2>14. CASE Audit!RestoreEnds(a)
      <3>1. /\ DOMAIN mode' = Instruments /\ DOMAIN comesUp' = Instruments
            /\ \A j \in Instruments \ {a} : mode'[j] = mode[j]
          BY <2>14, OthersStay DEF Audit!RestoreEnds
      <3>2. QED
          BY <2>14, <2>1, <3>1 DEF Audit!RestoreEnds, AuditInv
    <2>15. CASE Audit!Verify(a)
      <3>1. mode[a] = "application"
          BY <2>15 DEF Audit!Verify, Audit!McuState, Audit!None
      <3>2. restError'[a] = (firmware[a] # "official") /\ DOMAIN restError' = Audited
          BY <2>15 DEF Audit!Verify, AuditInv
      <3>3. \A b \in Audited \ {a} : restError'[b] = restError[b]
          BY <2>15 DEF Audit!Verify, AuditInv
      <3>4. QED
          BY <2>15, <3>1, <3>2, <3>3, OnlyOneMoves, ZenonT(60)
             DEF Audit!Verify, AuditInv, Audit!RestoredClaim, Audit!Done
    <2>16. CASE Audit!RestorationFails(a)
      <3>1. restError'[a] = TRUE /\ DOMAIN restError' = Audited
          BY <2>16 DEF Audit!RestorationFails, AuditInv
      <3>2. \A b \in Audited \ {a} : restError'[b] = restError[b]
          BY <2>16 DEF Audit!RestorationFails, AuditInv
      <3>3. QED
          BY <2>16, <3>1, <3>2, OnlyOneMoves
             DEF Audit!RestorationFails, AuditInv, Audit!RestoredClaim, Audit!Done
    <2>17. QED
        BY <1>1, <2>2, <2>3, <2>4, <2>5, <2>6, <2>7, <2>8, <2>9, <2>10, <2>11, <2>12,
           <2>13, <2>14, <2>15, <2>16 DEF Audit!Audit
  <1>2. ASSUME NEW i \in Instruments, Audit!Enumerate(i) PROVE AuditInv'
      BY <1>2 DEF Audit!Enumerate, AuditInv, Audit!RestoredClaim, Audit!Done
  <1>3. ASSUME NEW i \in Instruments, Audit!Unplug(i) PROVE AuditInv'
    <2>1. /\ DOMAIN mode' = Instruments /\ DOMAIN comesUp' = Instruments
          /\ \A j \in Instruments \ {i} : mode'[j] = mode[j]
        BY <1>3, OthersStay DEF Audit!Unplug
    <2>2. QED
        BY <1>3, <2>1 DEF Audit!Unplug, AuditInv, Audit!RestoredClaim, Audit!Done
  <1>4. QED
      BY <1>1, <1>2, <1>3 DEF Audit!Next

-----------------------------------------------------------------------------
(***************************************************************************)
(* The USB power gate                                                      *)
(***************************************************************************)
\* What each step of the gate may rely on of the power attributes: those of the device are
\* in attributes from the first reading on, and in force outside a phase.
AttributesKept ==
    /\ usbPc \in {"open", "claim", "auto", "poll", "restore", "unwind", "reclaim", "done"}
    /\ phase \in {"host", "remote"} /\ usbStatus \in {"running", "failed", "ok"}
    /\ usbStatus = "ok" => usbPc = "done"
    /\ DOMAIN power = {"control", "delay", "wakeup"} /\ DOMAIN original = DOMAIN power
    /\ attributes = original
    /\ usbPc \in {"open", "reclaim", "done"} => power = original
    /\ usbPc = "claim" /\ phase = "host" => power = original
    /\ usbPc \in {"claim", "auto", "poll"} /\ phase = "remote" => power.delay = "second"

Counts == [configured : Nat, suspend : Nat, resume : Nat, wakeup : Nat]

\* The counters of the firmware, and its wake timer, which runs only in a suspended
\* device.
Counted ==
    /\ counts \in Counts /\ before \in Counts
    /\ runtime \in {"active", "suspended"} /\ polled \in BOOLEAN /\ claimed \in BOOLEAN
    /\ armed \in BOOLEAN /\ timer \in BOOLEAN
    /\ suspended \in BOOLEAN /\ resumed \in BOOLEAN
    /\ claimed => runtime = "active"
    /\ runtime = "active" => ~timer

\* The host phase has cancelled a wake request; in the remote phase the one wakeup that
\* the device may make is the resumption that the gate sees next.
WakeupSeen ==
    /\ phase = "host" /\ usbPc \in {"auto", "poll", "restore", "reclaim"} =>
         ~armed /\ ~timer /\ counts.wakeup = before.wakeup
    /\ usbPc \in {"open", "claim", "auto"} => ~suspended /\ ~resumed
    /\ phase = "remote" /\ usbPc = "auto" =>
         /\ counts.wakeup = before.wakeup
         /\ runtime = "suspended" => ~polled /\ ~armed
    /\ usbPc = "poll" => ~resumed
    /\ phase = "remote" /\ usbPc = "poll" =>
         /\ \/ counts.wakeup = before.wakeup
            \/ cause = "device" /\ runtime = "active" /\ suspended /\ ~polled
         /\ suspended \/ runtime = "suspended" => ~armed
         /\ runtime = "suspended" /\ polled => suspended
    /\ phase = "remote" /\ usbPc \in {"restore", "reclaim"} /\ resumed =>
         /\ ~armed /\ ~timer
         /\ counts.wakeup = before.wakeup \/ seen = "device"
    /\ usbStatus = "ok" => seen = "device"

UsbInv == AttributesKept /\ Counted /\ WakeupSeen

\* A resumption counts itself, and the device's own as a wakeup.
LEMMA ResumptionCounted ==
  ASSUME NEW who, Counted, Usb!Activate(who)
  PROVE  /\ counts' \in Counts
         /\ who # "device" => counts'.wakeup = counts.wakeup
  <1>1. /\ counts = [configured |-> counts.configured, suspend |-> counts.suspend,
                     resume |-> counts.resume, wakeup |-> counts.wakeup]
        /\ counts.configured \in Nat /\ counts.suspend \in Nat
        /\ counts.resume \in Nat /\ counts.wakeup \in Nat
      BY DEF Counted, Counts
  <1>2. CASE who = "device"
    <2>1. counts' = [configured |-> counts.configured, suspend |-> counts.suspend,
                     resume |-> counts.resume + 1, wakeup |-> counts.wakeup + 1]
        BY <1>1, <1>2 DEF Usb!Activate
    <2>2. QED
        BY <1>1, <1>2, <2>1 DEF Counts
  <1>3. CASE who # "device"
    <2>1. counts' = [configured |-> counts.configured, suspend |-> counts.suspend,
                     resume |-> counts.resume + 1, wakeup |-> counts.wakeup]
        BY <1>1, <1>3 DEF Usb!Activate
    <2>2. QED
        BY <1>1, <1>3, <2>1 DEF Counts
  <1>4. QED
      BY <1>2, <1>3

\* Every step of the gate, of the kernel, of other programs and of the firmware keeps it
\* (run_host_resume_validation, run_power_validation).
LEMMA UsbStep ==
  ASSUME UsbInv, Usb!Next
  PROVE  UsbInv'
  <1> USE DEF UsbInv, Usb!Goto, Usb!Fail, Usb!seenflags, Usb!kernel, Usb!firmware
  <1>1. CASE Usb!Open
    <2>1. AttributesKept'
        BY <1>1 DEF Usb!Open, AttributesKept
    <2>2. Counted'
        BY <1>1 DEF Usb!Open, Counted, AttributesKept
    <2>3. WakeupSeen'
        BY <1>1 DEF Usb!Open, WakeupSeen, Counted, AttributesKept, Counts
    <2>4. QED
        BY <2>1, <2>2, <2>3
  <1>2. CASE Usb!Claim
    <2>1. AttributesKept'
        BY <1>2 DEF Usb!Claim, Usb!Activate, AttributesKept
    <2>2. Counted'
      <3>1. CASE runtime = "suspended" /\ Usb!Activate("open")
        <4>1. counts' \in Counts
            BY <3>1, ResumptionCounted
        <4>2. QED
            BY <1>2, <3>1, <4>1 DEF Usb!Claim, Usb!Activate, Counted
      <3>2. CASE runtime # "suspended" /\ UNCHANGED <<runtime, polled, cause, armed, timer, counts>>
          BY <1>2, <3>2 DEF Usb!Claim, Counted
      <3>3. QED
          BY <1>2, <3>1, <3>2 DEF Usb!Claim
    <2>3. WakeupSeen'
        BY <1>2 DEF Usb!Claim, Usb!Activate, WakeupSeen, Counted, AttributesKept, Counts
    <2>4. QED
        BY <2>1, <2>2, <2>3
  <1>3. CASE Usb!Prepare
    <2>1. AttributesKept'
        BY <1>3 DEF Usb!Prepare, AttributesKept
    <2>2. Counted'
        BY <1>3 DEF Usb!Prepare, Counted, AttributesKept
    <2>3. WakeupSeen'
        BY <1>3 DEF Usb!Prepare, WakeupSeen, Counted, AttributesKept, Counts
    <2>4. QED
        BY <2>1, <2>2, <2>3
  <1>4. CASE Usb!PrepareFails
    <2>1. AttributesKept'
        BY <1>4 DEF Usb!PrepareFails, AttributesKept
    <2>2. Counted'
        BY <1>4 DEF Usb!PrepareFails, Counted, AttributesKept
    <2>3. WakeupSeen'
        BY <1>4 DEF Usb!PrepareFails, WakeupSeen, Counted, AttributesKept, Counts
    <2>4. QED
        BY <2>1, <2>2, <2>3
  <1>5. CASE Usb!Auto
    <2>1. AttributesKept'
        BY <1>5 DEF Usb!Auto, AttributesKept
    <2>2. Counted'
        BY <1>5 DEF Usb!Auto, Counted, AttributesKept
    <2>3. WakeupSeen'
        BY <1>5 DEF Usb!Auto, WakeupSeen, Counted, AttributesKept, Counts
    <2>4. QED
        BY <2>1, <2>2, <2>3
  <1>6. CASE Usb!Poll
    <2>1. AttributesKept'
        BY <1>6 DEF Usb!Poll, AttributesKept
    <2>2. Counted'
        BY <1>6 DEF Usb!Poll, Counted, AttributesKept
    <2>3. WakeupSeen'
        BY <1>6 DEF Usb!Poll, WakeupSeen, Counted, AttributesKept, Counts
    <2>4. QED
        BY <2>1, <2>2, <2>3
  <1>7. CASE Usb!GiveUp
    <2>1. AttributesKept'
        BY <1>7 DEF Usb!GiveUp, AttributesKept
    <2>2. Counted'
        BY <1>7 DEF Usb!GiveUp, Counted, AttributesKept
    <2>3. WakeupSeen'
        BY <1>7 DEF Usb!GiveUp, WakeupSeen, Counted, AttributesKept, Counts
    <2>4. QED
        BY <2>1, <2>2, <2>3
  <1>8. CASE Usb!Restore
    <2>1. AttributesKept'
        BY <1>8 DEF Usb!Restore, AttributesKept
    <2>2. Counted'
        BY <1>8 DEF Usb!Restore, Counted, AttributesKept
    <2>3. WakeupSeen'
        BY <1>8 DEF Usb!Restore, WakeupSeen, Counted, AttributesKept, Counts
    <2>4. QED
        BY <2>1, <2>2, <2>3
  <1>9. CASE Usb!Conclude
    <2>1. AttributesKept'
        BY <1>9 DEF Usb!Conclude, Usb!Accepted, Usb!Unreset, Usb!Cycled,
            AttributesKept
    <2>2. Counted'
        BY <1>9 DEF Usb!Conclude, Usb!Accepted, Usb!Unreset, Usb!Cycled,
            Counted, AttributesKept
    <2>3. WakeupSeen'
        BY <1>9 DEF Usb!Conclude, Usb!Accepted, Usb!Unreset, Usb!Cycled,
            WakeupSeen, Counted, AttributesKept, Counts
    <2>4. QED
        BY <2>1, <2>2, <2>3
  <1>10. CASE Usb!Autosuspend
    <2>1. AttributesKept'
        BY <1>10 DEF Usb!Autosuspend, AttributesKept
    <2>2. Counted'
      <3>1. counts' \in Counts
          BY <1>10 DEF Usb!Autosuspend, Counted, Counts
      <3>2. UNCHANGED <<before, claimed, suspended, resumed>>
          BY <1>10 DEF Usb!Autosuspend
      <3>3. runtime' = "suspended" /\ polled' = FALSE /\ timer' = armed /\ armed' = FALSE
            /\ ~claimed
          BY <1>10 DEF Usb!Autosuspend
      <3>4. QED
          BY <3>1, <3>2, <3>3 DEF Counted
    <2>3. WakeupSeen'
        BY <1>10 DEF Usb!Autosuspend, WakeupSeen, Counted, AttributesKept, Counts
    <2>4. QED
        BY <2>1, <2>2, <2>3
  <1>11. CASE Usb!ControlOn
    <2>1. AttributesKept'
        BY <1>11 DEF Usb!ControlOn, Usb!Activate, AttributesKept
    <2>2. Counted'
      <3>1. Usb!Activate("host")
          BY <1>11 DEF Usb!ControlOn
      <3>2. counts' \in Counts
          BY <3>1, ResumptionCounted
      <3>3. UNCHANGED <<before, claimed, suspended, resumed>>
          BY <1>11 DEF Usb!ControlOn
      <3>4. QED
          BY <3>1, <3>2, <3>3 DEF Usb!Activate, Counted
    <2>3. WakeupSeen'
        BY <1>11 DEF Usb!ControlOn, Usb!Activate, WakeupSeen, Counted, AttributesKept, Counts
    <2>4. QED
        BY <2>1, <2>2, <2>3
  <1>12. CASE Usb!OtherProgram
    <2>1. AttributesKept'
        BY <1>12 DEF Usb!OtherProgram, Usb!Activate, AttributesKept
    <2>2. Counted'
      <3>1. Usb!Activate("other")
          BY <1>12 DEF Usb!OtherProgram
      <3>2. counts' \in Counts
          BY <3>1, ResumptionCounted
      <3>3. UNCHANGED <<before, claimed, suspended, resumed>>
          BY <1>12 DEF Usb!OtherProgram
      <3>4. QED
          BY <3>1, <3>2, <3>3 DEF Usb!Activate, Counted
    <2>3. WakeupSeen'
        BY <1>12 DEF Usb!OtherProgram, Usb!Activate, WakeupSeen, Counted, AttributesKept, Counts
    <2>4. QED
        BY <2>1, <2>2, <2>3
  <1>13. CASE Usb!RemoteWakeup
    <2>1. AttributesKept'
        BY <1>13 DEF Usb!RemoteWakeup, Usb!Activate, AttributesKept
    <2>2. Counted'
      <3>1. Usb!Activate("device")
          BY <1>13 DEF Usb!RemoteWakeup
      <3>2. counts' \in Counts
          BY <3>1, ResumptionCounted
      <3>3. UNCHANGED <<before, claimed, suspended, resumed>>
          BY <1>13 DEF Usb!RemoteWakeup
      <3>4. QED
          BY <3>1, <3>2, <3>3 DEF Usb!Activate, Counted
    <2>3. WakeupSeen'
        BY <1>13 DEF Usb!RemoteWakeup, Usb!Activate, WakeupSeen, Counted, AttributesKept, Counts
    <2>4. QED
        BY <2>1, <2>2, <2>3
  <1>14. CASE Usb!Reset
    <2>1. AttributesKept'
        BY <1>14 DEF Usb!Reset, AttributesKept
    <2>2. Counted'
      <3>1. counts' \in Counts
          BY <1>14 DEF Usb!Reset, Counted, Counts
      <3>2. QED
          BY <1>14, <3>1 DEF Usb!Reset, Counted
    <2>3. WakeupSeen'
        BY <1>14 DEF Usb!Reset, WakeupSeen, Counted, AttributesKept, Counts
    <2>4. QED
        BY <2>1, <2>2, <2>3
  <1>15. QED
      BY <1>1, <1>2, <1>3, <1>4, <1>5, <1>6, <1>7, <1>8, <1>9, <1>10, <1>11, <1>12, <1>13,
         <1>14 DEF Usb!Next, Usb!Gate


-----------------------------------------------------------------------------
(***************************************************************************)
(* The commands                                                            *)
(***************************************************************************)
\* A command that runs satisfies the invariant of its module; the others have no state.
CommandInv ==
    /\ command = "blu939-suite" => SuiteInv
    /\ command = "ppk2" => SessionInv
    /\ command = "ppk2-eeprom-audit" => AuditInv
    /\ command = "m4-usb-power" => UsbInv

\* It holds when a command begins, whatever the voltage, the power attributes and the
\* wake request that were left (main).
LEMMA CommandStart == Init => CommandInv
  <1>1. ASSUME Suite!Init PROVE SuiteInv
    <2>1. profile = 1 /\ captured = {} /\ 1..(profile - 1) = {} /\ profile \in 1..Profiles
        BY <1>1, SuiteConstants DEF Suite!Init
    <2>2. SuitePlace
        BY <1>1, <2>1 DEF Suite!Init, SuitePlace, BackingUp
    <2>3. TargetAccounted /\ SupplyOff
        BY <1>1 DEF Suite!Init, TargetAccounted, SupplyOff, Measuring, Measured, Restored,
           Suite!Restoring, Suite!PeerRestoring
    <2>4. PeerAccounted
        BY <1>1 DEF Suite!Init, PeerAccounted, Measuring, Measured, Suite!PeerRestoring
    <2>5. ProfilesMeasured
        BY <1>1, <2>1 DEF Suite!Init, ProfilesMeasured, BackingUp, Measuring, Measured,
           Suite!Cleanup, Suite!Restoring, Suite!PeerRestoring
    <2>6. QED
        BY <2>2, <2>3, <2>4, <2>5 DEF SuiteInv
  <1>2. ASSUME Session!Init PROVE SessionInv
    <2>1. samples = <<>> /\ wire = <<>> /\ <<>> \in Seq(Nat) /\ Total = 0
        BY <1>2 DEF Session!Init, Total
    <2>2. SessionPlace /\ OutputSafe
        BY <1>2 DEF Session!Init, SessionPlace, OutputSafe, Opening, Closing
    <2>3. StreamOrdered
        BY <1>2, <2>1 DEF Session!Init, StreamOrdered
    <2>4. ReportTrue
        BY <1>2 DEF Session!Init, ReportTrue
    <2>5. QED
        BY <2>2, <2>3, <2>4 DEF SessionInv
  <1>3. ASSUME Audit!Init PROVE AuditInv
      BY <1>3 DEF Audit!Init, AuditInv, Audit!RestoredClaim, Audit!Done
  <1>4. ASSUME Usb!Init PROVE UsbInv
    <2>1. AttributesKept
        BY <1>4 DEF Usb!Init, AttributesKept, Usb!Attributes
    <2>2. Counted
        BY <1>4 DEF Usb!Init, Counted, Counts
    <2>3. WakeupSeen
        BY <1>4 DEF Usb!Init, WakeupSeen
    <2>4. QED
        BY <2>1, <2>2, <2>3 DEF UsbInv
  <1>5. QED
      BY <1>1, <1>2, <1>3, <1>4 DEF Init, CommandInv

\* A step that changes nothing changes no invariant.
LEMMA CommandRests ==
  ASSUME UNCHANGED vars
  PROVE  /\ SuiteInv => SuiteInv'
         /\ SessionInv => SessionInv'
         /\ AuditInv => AuditInv'
         /\ UsbInv => UsbInv'
  <1>1. UNCHANGED <<suiteVars, sessionVars, auditVars, usbVars>>
      BY DEF vars
  <1>2. SuiteInv => SuiteInv'
    <2>1. SuitePlace => SuitePlace'
        BY <1>1 DEF suiteVars, SuitePlace
    <2>2. (TargetAccounted => TargetAccounted') /\ (SupplyOff => SupplyOff')
        BY <1>1 DEF suiteVars, TargetAccounted, SupplyOff
    <2>3. PeerAccounted => PeerAccounted'
        BY <1>1 DEF suiteVars, PeerAccounted
    <2>4. ProfilesMeasured => ProfilesMeasured'
        BY <1>1 DEF suiteVars, ProfilesMeasured
    <2>5. QED
        BY <2>1, <2>2, <2>3, <2>4 DEF SuiteInv
  <1>3. SessionInv => SessionInv'
    <2>1. SessionPlace => SessionPlace'
        BY <1>1 DEF sessionVars, SessionPlace
    <2>2. OutputSafe => OutputSafe'
        BY <1>1 DEF sessionVars, OutputSafe
    <2>3. StreamOrdered => StreamOrdered'
        BY <1>1, StreamKept DEF sessionVars
    <2>4. ReportTrue => ReportTrue'
        BY <1>1 DEF sessionVars, ReportTrue, Session!Continuous, Session!Follows
    <2>5. QED
        BY <2>1, <2>2, <2>3, <2>4 DEF SessionInv
  <1>4. AuditInv => AuditInv'
      BY <1>1 DEF auditVars, AuditInv, Audit!RestoredClaim, Audit!Done
  <1>5. UsbInv => UsbInv'
    <2>1. AttributesKept => AttributesKept'
        BY <1>1 DEF usbVars, AttributesKept
    <2>2. Counted => Counted'
        BY <1>1 DEF usbVars, Counted
    <2>3. WakeupSeen => WakeupSeen'
        BY <1>1 DEF usbVars, WakeupSeen
    <2>4. QED
        BY <2>1, <2>2, <2>3 DEF UsbInv
  <1>6. QED
      BY <1>2, <1>3, <1>4, <1>5

\* Every step of the process keeps it: it runs one command, and leaves the state of the
\* others alone.
LEMMA CommandStep == CommandInv /\ [Next]_vars => CommandInv'
  <1> SUFFICES ASSUME CommandInv, [Next]_vars PROVE CommandInv'
      OBVIOUS
  <1>1. CASE SuiteRuns(Suite!Next)
    <2>1. command = "blu939-suite" /\ UNCHANGED command /\ Suite!Next
        BY <1>1 DEF SuiteRuns
    <2>2. SuiteInv'
        BY <2>1, SuiteStep DEF CommandInv
    <2>3. QED
        BY <2>1, <2>2 DEF CommandInv
  <1>2. CASE SessionRuns(Session!Next)
    <2>1. command = "ppk2" /\ UNCHANGED command /\ Session!Next
        BY <1>2 DEF SessionRuns
    <2>2. SessionInv'
        BY <2>1, SessionStep DEF CommandInv
    <2>3. QED
        BY <2>1, <2>2 DEF CommandInv
  <1>3. CASE AuditRuns(Audit!Next)
    <2>1. command = "ppk2-eeprom-audit" /\ UNCHANGED command /\ Audit!Next
        BY <1>3 DEF AuditRuns
    <2>2. AuditInv'
        BY <2>1, AuditStep DEF CommandInv
    <2>3. QED
        BY <2>1, <2>2 DEF CommandInv
  <1>4. CASE UsbRuns(Usb!Next)
    <2>1. command = "m4-usb-power" /\ UNCHANGED command /\ Usb!Next
        BY <1>4 DEF UsbRuns
    <2>2. UsbInv'
        BY <2>1, UsbStep DEF CommandInv
    <2>3. QED
        BY <2>1, <2>2 DEF CommandInv
  <1>5. CASE UNCHANGED vars
    <2>1. UNCHANGED command
        BY <1>5 DEF vars
    <2>2. QED
        BY <1>5, <2>1, CommandRests DEF CommandInv
  <1>6. QED
      BY <1>1, <1>2, <1>3, <1>4, <1>5 DEF Next

\* Every reachable state of a command satisfies its invariant.
THEOREM CommandsCorrect == Spec => []CommandInv
  BY CommandStart, CommandStep, PTL DEF Spec

\* The report of the suite accounts for both boards, and a suite reported ok measured
\* every profile on its own cold-started firmware, for any number of profiles, whatever
\* fails and when (blu939-suite).
THEOREM SuiteAlwaysAccounts == Spec => []SuiteAccounts
  <1>1. ASSUME SuiteInv PROVE Suite!BoardsAccounted
      BY <1>1 DEF SuiteInv, SuitePlace, TargetAccounted, PeerAccounted, Restored,
         Suite!BoardsAccounted
  <1>2. ASSUME SuiteInv PROVE Suite!OkMeansMeasured
      BY <1>2 DEF SuiteInv, SuitePlace, TargetAccounted, PeerAccounted, ProfilesMeasured,
         SupplyOff, Restored, Suite!OkMeansMeasured
  <1>3. CommandInv => SuiteAccounts
      BY <1>1, <1>2 DEF CommandInv, SuiteAccounts
  <1>4. QED
      BY <1>3, CommandsCorrect, PTL

\* The output of the PPK2 never carries another voltage than the requested one and is off
\* at the end; a capture is reported continuous exactly if nothing was lost, up to whole
\* turns of the counter, for any counter, capture length and number of losses.
THEOREM SessionAlwaysExact == Spec => []SessionExact
  <1>1. CommandInv => SessionExact
      BY SessionHolds DEF CommandInv, SessionExact
  <1>2. QED
      BY <1>1, CommandsCorrect, PTL

\* The restoration that an audit claims is true of its instrument, for any number of
\* instruments and audits at the same time (ppk2_eeprom_cli.py).
THEOREM AuditAlwaysRestores == Spec => []AuditRestores
  <1>1. CommandInv => AuditRestores
      BY DEF CommandInv, AuditInv, AuditRestores
  <1>2. QED
      BY <1>1, CommandsCorrect, PTL

\* A USB power gate reported ok saw the device's own wakeup, its host phase was not woken
\* by a request left armed, and the power attributes are those it found, for any number
\* of suspensions, resumptions and resets (run_power_validation).
THEOREM WakeAlwaysProved == Spec => []WakeProved
  <1>1. ASSUME UsbInv
        PROVE  Usb!RemoteWakeProved /\ Usb!HostResumePure /\ Usb!AttributesRestored
      BY <1>1 DEF UsbInv, AttributesKept, WakeupSeen, Usb!RemoteWakeProved,
         Usb!HostResumePure, Usb!AttributesRestored
  <1>2. CommandInv => WakeProved
      BY <1>1 DEF CommandInv, WakeProved
  <1>3. QED
      BY <1>2, CommandsCorrect, PTL

-----------------------------------------------------------------------------
(***************************************************************************)
(* How far a command is from its report.                                   *)
(***************************************************************************)
Bit(b) == IF b THEN 1 ELSE 0

\* The steps that a suite in profile p has before it when it is at l: those of the
\* profiles to come, of the finally clause and of both restorations.
Ahead(l, p) ==
    LET profiles == 10 * (Profiles - p) IN
    CASE l = "report"      -> 1
      [] l = "p_reset"     -> 2
      [] l = "p_verify"    -> 3
      [] l = "p_program"   -> 4
      [] l = "rf_close"    -> 5
      [] l = "rf_off"      -> 6
      [] l = "r_off2"      -> 7
      [] l = "r_restore"   -> 8
      [] l = "r_on"        -> 9
      [] l = "r_volt"      -> 10
      [] l = "r_off"       -> 11
      [] l = "r_open"      -> 12
      [] l = "f_close"     -> 13
      [] l = "f_off"       -> 14
      [] l = "f_peer"      -> 15
      [] l = "peer_join"   -> 16 + profiles
      [] l = "off"         -> 17 + profiles
      [] l = "observe"     -> 18 + profiles
      [] l = "capture"     -> 19 + profiles
      [] l = "cycle_on"    -> 20 + profiles
      [] l = "cycle_off"   -> 21 + profiles
      [] l = "peer_ready"  -> 22 + profiles
      [] l = "peer"        -> 23 + profiles
      [] l = "flash"       -> 24 + profiles
      [] l = "on"          -> 25 + profiles
      [] l = "peer_backup" -> 26 + profiles
      [] l = "backup"      -> 27 + profiles
      [] l = "on0"         -> 28 + profiles
      [] l = "volt"        -> 29 + profiles
      [] l = "off0"        -> 30 + profiles
      [] l = "open"        -> 31 + profiles
      [] l = "args"        -> 32 + profiles

\* A command of the instrument and the programming of the target have two moments.
HalfDone == IF suitePc = "flash" THEN target = Suite!Half ELSE sent

SuiteLeft == IF suitePc \in Suite!Ended THEN 0 ELSE 2 * Ahead(suitePc, profile) + Bit(~HalfDone)

SessionLeft ==
    CASE sessionPc = "done"      -> 0
      [] sessionPc = "close"     -> 1
      [] sessionPc = "cleanup"   -> 2
      [] sessionPc \in {"decode", "switch-off"} -> 3
      [] sessionPc = "stop"      -> 4
      [] sessionPc = "capture"   -> 5
      [] sessionPc = "start"     -> 6
      [] sessionPc = "on"        -> 7
      [] sessionPc = "readback"  -> 8
      [] sessionPc = "configure" -> 9
      [] sessionPc = "off"       -> 10
      [] sessionPc = "metadata"  -> 11

\* A USB gate has its phases before it, and claims the device twice in each of them.
UsbLeft ==
    LET phases == IF phase = "host" THEN 8 ELSE 0 IN
    CASE usbPc = "done"    -> 0
      [] usbPc = "unwind"  -> 1 + phases
      [] usbPc = "reclaim" -> 2 - Bit(claimed) + phases
      [] usbPc = "restore" -> 3 + phases
      [] usbPc = "poll"    -> 4 + phases
      [] usbPc = "auto"    -> 5 + phases
      [] usbPc = "claim"   -> 7 - Bit(claimed) + phases
      [] usbPc = "open"    -> 8 + phases

\* The audit of each instrument has its own way to go.
AuditLeft(a) ==
    CASE auditPc[a] = "done"        -> 0
      [] auditPc[a] = "verify"      -> 1
      [] auditPc[a] = "restoring"   -> 2
      [] auditPc[a] = "restore"     -> 3
      [] auditPc[a] = "reset-shell" -> 4
      [] auditPc[a] = "find-shell"  -> 5
      [] auditPc[a] = "cleanup"     -> 6
      [] auditPc[a] = "read"        -> 7
      [] auditPc[a] = "wait-shell"  -> 8
      [] auditPc[a] = "programming" -> 9
      [] auditPc[a] = "program"     -> 10
      [] auditPc[a] = "wait-bootloader" -> 11
      [] auditPc[a] = "switch"      -> 12
      [] auditPc[a] = "start"       -> 13

Left == CASE command = "blu939-suite" -> SuiteLeft
          [] command = "ppk2"         -> SessionLeft
          [] command = "m4-usb-power" -> UsbLeft

\* What may still happen around a command that does not move: to the peer's process, in
\* the instrument, and in the kernel.
PeerLeft ==
    Bit(peer # "image") + CASE peer_process = "programming" -> 3
                            [] peer_process = "programmed"  -> 2
                            [] peer_process = "ready"       -> 1
                            [] OTHER                        -> 0

StreamLeft ==
    2 * Bit(applied # setting) + Bit(vdd # applied) + (Count - Len(samples))
      + (Count + MaxLost - produced)

DeviceLeft ==
    4 * (MaxSuspends - counts.suspend) + 2 * Bit(runtime = "suspended") + Bit(~polled)
      + (MaxResets - counts.configured)

Around == CASE command = "blu939-suite" -> PeerLeft
            [] command = "ppk2"         -> StreamLeft
            [] command = "m4-usb-power" -> DeviceLeft

\* The steps that Spec demands to be taken; a poll may find nothing new.
Due ==
    \/ SuiteRuns(Suite!Suite)
    \/ SessionRuns(Session!Ends)
    \/ UsbRuns(Usb!Gate /\ ~Usb!Poll)

\* No step takes a command back and a due one takes it on; where it stays, something
\* around it is used up. An audit is never taken back, and each step of its own takes it on.
Advances ==
    /\ command # "ppk2-eeprom-audit" => /\ Left' <= Left
                                        /\ Due => Left' < Left
                                        /\ Left' < Left \/ Around' < Around
    /\ command = "ppk2-eeprom-audit" => \A a \in Audited :
         /\ AuditLeft(a)' <= AuditLeft(a)
         /\ AuditRuns(Audit!Audit(a)) => AuditLeft(a)' < AuditLeft(a)

\* The bounds that the model counts up to, ...
SessionBounded == Len(samples) <= Count /\ produced <= Count + MaxLost

\* ... the steps of an audit, ...
AuditSteps == {"start", "switch", "wait-bootloader", "program", "programming", "wait-shell",
               "read", "done"} \cup Audit!Cleaning

AuditPlace == auditPc \in [Audited -> AuditSteps]

PowerSet == [control : {"on", "auto"}, wakeup : {"enabled", "disabled"},
             delay : {"default", "second", "zero"}]

\* ... and what a poll has seen: a status that did not change since it was read tells it
\* nothing new.
UsbSettled ==
    /\ counts.suspend <= MaxSuspends /\ counts.configured <= MaxResets
    /\ power \in PowerSet /\ attributes \in PowerSet
    /\ usbPc = "auto" /\ polled => runtime = "active"
    /\ usbPc = "poll" /\ polled => /\ runtime = "suspended" => suspended
                                   /\ phase = "host" /\ suspended => power.control = "on"

BoundsHold ==
    /\ command \in {"blu939-suite", "ppk2", "ppk2-eeprom-audit", "m4-usb-power"}
    /\ command = "ppk2" => SessionBounded
    /\ command = "ppk2-eeprom-audit" => AuditPlace
    /\ command = "m4-usb-power" => UsbSettled

ProgressInv == CommandInv /\ BoundsHold

\* The number of steps ahead of a suite at one of its steps is a positive number.
LEMMA AheadCounts ==
  ASSUME SuiteInv
  PROVE  suitePc \notin Suite!Ended => Ahead(suitePc, profile) \in Nat \ {0}
  <1>1. profile \in 1..Profiles /\ Profiles \in Nat
      BY SuiteConstants DEF SuiteInv, SuitePlace
  <1>2. 10 * (Profiles - profile) \in Nat
      BY <1>1
  <1>3. suitePc \in BackingUp \cup Measuring \cup Measured \cup Suite!Cleanup
                   \cup Suite!Restoring \cup Suite!PeerRestoring \cup Suite!Ended
      BY DEF SuiteInv, SuitePlace
  <1>4. CASE suitePc \in BackingUp
      BY <1>2, <1>4, SMTT(60) DEF Ahead, BackingUp
  <1>5. CASE suitePc \in Measuring \cup Measured
      BY <1>2, <1>5, SMTT(60) DEF Ahead, Measuring, Measured
  <1>6. CASE suitePc \in Suite!Cleanup
      BY <1>2, <1>6, SMTT(60) DEF Ahead, Suite!Cleanup
  <1>7. CASE suitePc \in Suite!Restoring \cup Suite!PeerRestoring
      BY <1>2, <1>7, SMTT(60) DEF Ahead, Suite!Restoring, Suite!PeerRestoring
  <1>8. QED
      BY <1>3, <1>4, <1>5, <1>6, <1>7

\* A suite that comes to its end, or to a step with less ahead, has less left.
LEMMA SuiteFalls ==
  ASSUME SuiteInv, SuiteInv', suitePc \notin Suite!Ended,
         suitePc' \in Suite!Ended \/ Ahead(suitePc, profile)' < Ahead(suitePc, profile)
  PROVE  SuiteLeft' < SuiteLeft
  <1>1. Ahead(suitePc, profile) \in Nat \ {0}
      BY AheadCounts
  <1>2. SuiteLeft \in Nat /\ SuiteLeft >= 2 * Ahead(suitePc, profile)
      BY <1>1 DEF SuiteLeft, Bit
  <1>3. CASE suitePc' \in Suite!Ended
    <2>1. SuiteLeft' = 0
        BY <1>3 DEF SuiteLeft
    <2>2. QED
        BY <1>1, <1>2, <2>1
  <1>4. CASE suitePc' \notin Suite!Ended
    <2>1. Ahead(suitePc, profile)' \in Nat
      <3>1. (suitePc \notin Suite!Ended => Ahead(suitePc, profile) \in Nat \ {0})'
          BY AheadCounts, PTL
      <3>2. QED
          BY <1>4, <3>1
    <2>2. SuiteLeft' \in Nat /\ SuiteLeft' <= 2 * Ahead(suitePc, profile)' + 1
        BY <1>4, <2>1 DEF SuiteLeft, Bit
    <2>3. QED
        BY <1>1, <1>2, <1>4, <2>1, <2>2
  <1>5. QED
      BY <1>3, <1>4

\* Going on to the next step leaves less ahead, in the same profile.
LEMMA NextIsNearer ==
  ASSUME SuiteInv, suitePc \notin Suite!Ended \cup {"peer_join"}, Suite!Advance, UNCHANGED profile
  PROVE  suitePc' \in Suite!Ended \/ Ahead(suitePc, profile)' < Ahead(suitePc, profile)
  <1>1. profile \in 1..Profiles /\ Profiles \in Nat
      BY SuiteConstants DEF SuiteInv, SuitePlace
  <1>2. 10 * (Profiles - profile) \in Nat
      BY <1>1
  <1>3. suitePc' = Suite!Follow(suitePc)
      BY DEF Suite!Advance
  <1>4. CASE suitePc \in BackingUp
    <2>1. \/ suitePc = "args" /\ suitePc' = "open"
          \/ suitePc = "open" /\ suitePc' = "off0"
          \/ suitePc = "off0" /\ suitePc' = "volt"
          \/ suitePc = "volt" /\ suitePc' = "on0"
          \/ suitePc = "on0" /\ suitePc' = "backup"
          \/ suitePc = "backup" /\ suitePc' = "peer_backup"
          \/ suitePc = "peer_backup" /\ suitePc' = "on"
        BY <1>3, <1>4, StepsInOrder DEF BackingUp
    <2>2. QED
        BY <1>2, <2>1, SMTT(60) DEF Ahead
  <1>5. CASE suitePc \in Measuring \cup Measured
    <2>1. \/ suitePc = "on" /\ suitePc' = "flash"
          \/ suitePc = "flash" /\ suitePc' = "peer"
          \/ suitePc = "peer" /\ suitePc' = "peer_ready"
          \/ suitePc = "peer_ready" /\ suitePc' = "cycle_off"
          \/ suitePc = "cycle_off" /\ suitePc' = "cycle_on"
          \/ suitePc = "cycle_on" /\ suitePc' = "capture"
          \/ suitePc = "capture" /\ suitePc' = "observe"
          \/ suitePc = "observe" /\ suitePc' = "off"
          \/ suitePc = "off" /\ suitePc' = "peer_join"
        BY <1>3, <1>5, StepsInOrder DEF Measuring, Measured
    <2>2. QED
        BY <1>2, <2>1, SMTT(60) DEF Ahead
  <1>6. CASE suitePc \in Suite!Cleanup
    <2>1. \/ suitePc = "f_peer" /\ suitePc' = "f_off"
          \/ suitePc = "f_off" /\ suitePc' = "f_close"
          \/ suitePc = "f_close" /\ suitePc' \in {"r_open", "p_program", "report"}
          \/ suitePc = "rf_off" /\ suitePc' = "rf_close"
          \/ suitePc = "rf_close" /\ suitePc' \in {"p_program", "report"}
          \/ suitePc' \in Suite!Ended
        BY <1>3, <1>6, StepsInOrder
           DEF Suite!Cleanup, Suite!Ended, Suite!AfterClose, Suite!AfterRestore
    <2>2. QED
        BY <2>1, SMTT(60) DEF Ahead
  <1>7. CASE suitePc \in Suite!Restoring \cup Suite!PeerRestoring
    <2>1. \/ suitePc = "r_open" /\ suitePc' = "r_off"
          \/ suitePc = "r_off" /\ suitePc' = "r_volt"
          \/ suitePc = "r_volt" /\ suitePc' = "r_on"
          \/ suitePc = "r_on" /\ suitePc' = "r_restore"
          \/ suitePc = "r_restore" /\ suitePc' = "r_off2"
          \/ suitePc = "r_off2" /\ suitePc' = "rf_off"
          \/ suitePc = "p_program" /\ suitePc' = "p_verify"
          \/ suitePc = "p_verify" /\ suitePc' = "p_reset"
          \/ suitePc = "p_reset" /\ suitePc' = "report"
        BY <1>3, <1>7, StepsInOrder DEF Suite!Restoring, Suite!PeerRestoring
    <2>2. QED
        BY <2>1, SMTT(60) DEF Ahead
  <1>8. QED
      BY <1>4, <1>5, <1>6, <1>7 DEF SuiteInv, SuitePlace

\* Every step of the suite brings it nearer to its report, an error as well, and what the
\* peer's process does in between is used up (power_suite_cli.py).
LEMMA SuiteMoves ==
  ASSUME SuiteInv, Suite!Next
  PROVE  /\ Suite!Suite => SuiteLeft' < SuiteLeft
         /\ ~Suite!Suite => SuiteLeft' = SuiteLeft /\ PeerLeft' < PeerLeft
  <1>1. profile \in 1..Profiles /\ Profiles \in Nat /\ 10 * (Profiles - profile) \in Nat
      BY SuiteConstants DEF SuiteInv, SuitePlace
  <1>2. SuiteInv'
      BY SuiteStep
  <1>3. CASE \/ Suite!Validate \/ Suite!Open \/ Suite!PowerReturn \/ Suite!Voltage
             \/ Suite!Backup \/ Suite!PeerBackup \/ Suite!FlashEnds \/ Suite!StartPeer
             \/ Suite!AwaitPeer \/ Suite!Capture \/ Suite!Observe \/ Suite!StopPeer
             \/ Suite!FinallyOff \/ Suite!FinallyOffFails \/ Suite!FinallyClose
             \/ Suite!RestoreTarget \/ Suite!PeerProgram \/ Suite!PeerVerify \/ Suite!Report
    <2>1. Suite!Advance /\ UNCHANGED profile
        BY <1>3 DEF Suite!Validate, Suite!Open, Suite!PowerReturn, Suite!Voltage,
           Suite!Backup, Suite!PeerBackup, Suite!FlashEnds, Suite!StartPeer,
           Suite!AwaitPeer, Suite!Capture, Suite!Observe, Suite!StopPeer,
           Suite!FinallyOff, Suite!FinallyOffFails, Suite!FinallyClose,
           Suite!RestoreTarget, Suite!PeerProgram, Suite!PeerVerify, Suite!Report
    <2>2. suitePc \notin Suite!Ended \cup {"peer_join"}
        BY <1>3 DEF Suite!Validate, Suite!Open, Suite!PowerReturn, Suite!Voltage,
           Suite!Backup, Suite!PeerBackup, Suite!FlashEnds, Suite!StartPeer,
           Suite!AwaitPeer, Suite!Capture, Suite!Observe, Suite!StopPeer,
           Suite!FinallyOff, Suite!FinallyOffFails, Suite!FinallyClose,
           Suite!RestoreTarget, Suite!PeerProgram, Suite!PeerVerify, Suite!Report,
           Suite!OnSteps, Suite!OffSteps, Suite!Ended
    <2>3. Suite!Suite
        BY <1>3 DEF Suite!Suite
    <2>4. QED
        BY <1>2, <2>1, <2>2, <2>3, NextIsNearer, SuiteFalls
  <1>4. CASE Suite!JoinPeer
    <2>1. suitePc = "peer_join" /\ suitePc' = IF profile < Profiles THEN "on" ELSE "f_peer"
        BY <1>4, StepsInOrder DEF Suite!JoinPeer, Suite!Advance
    <2>2. profile' = IF profile < Profiles THEN profile + 1 ELSE profile
        BY <1>4 DEF Suite!JoinPeer
    <2>3. Ahead(suitePc, profile)' < Ahead(suitePc, profile)
        BY <1>1, <2>1, <2>2, SMTT(60) DEF Ahead
    <2>4. Suite!Suite /\ suitePc \notin Suite!Ended
        BY <1>4, <2>1 DEF Suite!Suite, Suite!Ended
    <2>5. QED
        BY <1>2, <2>3, <2>4, SuiteFalls
  <1>5. CASE Suite!PowerWrite \/ Suite!FlashBegins
    <2>1. /\ UNCHANGED <<suitePc, profile>> /\ suitePc \notin Suite!Ended /\ ~HalfDone /\ HalfDone'
        BY <1>5 DEF Suite!PowerWrite, Suite!FlashBegins, HalfDone, Suite!OnSteps,
           Suite!OffSteps, Suite!Ended
    <2>2. Ahead(suitePc, profile) \in Nat \ {0}
        BY <2>1, AheadCounts
    <2>3. Ahead(suitePc, profile)' = Ahead(suitePc, profile)
        BY <2>1 DEF Ahead
    <2>4. QED
        BY <1>5, <2>1, <2>2, <2>3 DEF SuiteLeft, Bit, Suite!Suite
  <1>6. CASE Suite!Raise
    <2>1. /\ suitePc' = IF Suite!Body(suitePc) THEN "f_peer"
                        ELSE IF suitePc \in Suite!Restoring THEN "rf_off" ELSE "report"
          /\ UNCHANGED profile
          /\ suitePc \notin Suite!Cleanup \cup Suite!Ended
        BY <1>6 DEF Suite!Raise, Suite!Body, Suite!Cleanup, Suite!Ended, Suite!Restoring,
           Suite!PeerRestoring
    <2>2. Ahead(suitePc, profile)' < Ahead(suitePc, profile)
      <3>1. CASE suitePc \in BackingUp
        <4>1. suitePc' = "f_peer"
            BY <2>1, <3>1 DEF Suite!Body, BackingUp, Suite!Restoring, Suite!PeerRestoring,
               Suite!Cleanup, Suite!Ended
        <4>2. QED
            BY <1>1, <3>1, <4>1, SMTT(60) DEF Ahead, BackingUp
      <3>2. CASE suitePc \in Measuring \cup Measured
        <4>1. suitePc' = "f_peer"
            BY <2>1, <3>2 DEF Suite!Body, Measuring, Measured, Suite!Restoring,
               Suite!PeerRestoring, Suite!Cleanup, Suite!Ended
        <4>2. QED
            BY <1>1, <3>2, <4>1, SMTT(60) DEF Ahead, Measuring, Measured
      <3>3. CASE suitePc \in Suite!Restoring
        <4>1. suitePc' = "rf_off"
            BY <2>1, <3>3 DEF Suite!Body
        <4>2. QED
            BY <3>3, <4>1, SMTT(60) DEF Ahead, Suite!Restoring
      <3>4. CASE suitePc \in Suite!PeerRestoring
        <4>1. suitePc' = "report"
            BY <2>1, <3>4 DEF Suite!Body, Suite!Restoring, Suite!PeerRestoring
        <4>2. QED
            BY <3>4, <4>1, SMTT(60) DEF Ahead, Suite!PeerRestoring
      <3>5. QED
          BY <2>1, <3>1, <3>2, <3>3, <3>4 DEF SuiteInv, SuitePlace
    <2>3. Suite!Suite /\ suitePc \notin Suite!Ended
        BY <1>6, <2>1 DEF Suite!Suite
    <2>4. QED
        BY <1>2, <2>2, <2>3, SuiteFalls
  <1>7. CASE Suite!Abort
    <2>1. suitePc' \in Suite!Ended /\ suitePc \notin Suite!Ended /\ Suite!Suite
        BY <1>7 DEF Suite!Abort, Suite!Suite, Suite!Ended
    <2>2. QED
        BY <1>2, <2>1, SuiteFalls
  <1>8. CASE Suite!PeerRuns \/ Suite!OrphanEnds
    <2>1. UNCHANGED <<suitePc, profile, sent, target>>
        BY <1>8 DEF Suite!PeerRuns, Suite!OrphanEnds
    <2>2. SuiteLeft' = SuiteLeft
        BY <2>1 DEF SuiteLeft, Ahead, HalfDone
    <2>3. PeerLeft' < PeerLeft
        BY <1>8 DEF Suite!PeerRuns, Suite!OrphanEnds, PeerLeft, Bit
    <2>4. Suite!Suite => SuiteLeft' < SuiteLeft
        BY <1>3, <1>4, <1>5, <1>6, <1>7 DEF Suite!Suite
    <2>5. QED
        BY <2>2, <2>3, <2>4
  <1>9. QED
      BY <1>3, <1>4, <1>5, <1>6, <1>7, <1>8 DEF Suite!Next, Suite!Suite

\* Every step of a session brings it nearer to its report, except a reading that does not
\* agree yet, samples that arrive and the firmware's own steps, which are used up (ppk2.py).
LEMMA SessionMoves ==
  ASSUME SessionInv, SessionBounded, Session!Next
  PROVE  /\ Session!Ends => SessionLeft' < SessionLeft
         /\ \/ SessionLeft' < SessionLeft
            \/ SessionLeft' = SessionLeft /\ StreamLeft' < StreamLeft
            \/ UNCHANGED sessionVars
  <1>1. /\ Count \in Nat /\ MaxLost \in Nat
        /\ Len(samples) \in Nat /\ Len(samples) <= Count
        /\ produced \in Nat /\ produced <= Count + MaxLost
      BY CommandsAssumption DEF SessionInv, StreamOrdered, SessionBounded, Session!ConstantsOk
  <1> USE DEF Session!Goto, Session!Powers, Session!host, Session!regulator, Session!stream
  <1>2. ASSUME Session!Ends PROVE SessionLeft' < SessionLeft
    <2>1. \/ sessionPc \in Opening \cup {"decode"} /\ sessionPc' = "cleanup"
          \/ sessionPc = "stop" /\ sessionPc' = "decode"
          \/ sessionPc = "capture" /\ sessionPc' = "cleanup"
          \/ sessionPc = "cleanup" /\ sessionPc' = "close"
          \/ sessionPc = "close" /\ sessionPc' = "done"
        BY <1>2 DEF Session!Ends, Session!Raise, Session!StopCapture, Session!Decode,
           Session!Cleanup, Session!Close, SessionInv, SessionPlace, Opening, Closing
    <2>2. QED
        BY <2>1, SMTT(60) DEF SessionLeft, Opening
  <1>3. ASSUME \/ Session!Metadata \/ Session!PowerOff \/ Session!Configure \/ Session!PowerOn
               \/ Session!StartCapture
        PROVE  SessionLeft' < SessionLeft
    <2>1. \/ sessionPc = "metadata" /\ sessionPc' \in {"off", "switch-off", "start", "cleanup"}
          \/ sessionPc = "off" /\ sessionPc' = "configure"
          \/ sessionPc = "switch-off" /\ sessionPc' = "cleanup"
          \/ sessionPc = "configure" /\ sessionPc' = "readback"
          \/ sessionPc = "on" /\ sessionPc' \in {"cleanup", "start"}
          \/ sessionPc = "start" /\ sessionPc' = "capture"
        BY <1>3 DEF Session!Metadata, Session!PowerOff, Session!Configure, Session!PowerOn,
           Session!StartCapture
    <2>2. QED
        BY <2>1, SMTT(60) DEF SessionLeft
  \* A reading that agrees goes on; one that changed nothing is none.
  <1>4. ASSUME Session!Readback
        PROVE  \/ SessionLeft' < SessionLeft
               \/ SessionLeft' = SessionLeft /\ StreamLeft' < StreamLeft
               \/ UNCHANGED sessionVars
    <2>1. CASE applied = voltage
      <3>1. sessionPc = "readback" /\ sessionPc' = "on"
          BY <1>4, <2>1 DEF Session!Readback
      <3>2. QED
          BY <3>1 DEF SessionLeft
    <2>2. CASE applied # voltage /\ vdd # applied
      <3>1. /\ UNCHANGED <<sessionPc, samples, produced, setting, applied>> /\ vdd' = applied
          BY <1>4, <2>2 DEF Session!Readback
      <3>2. StreamLeft' < StreamLeft
          BY <1>1, <2>2, <3>1 DEF StreamLeft, Bit
      <3>3. QED
          BY <3>1, <3>2 DEF SessionLeft
    <2>3. CASE applied # voltage /\ vdd = applied
        BY <1>4, <2>3 DEF Session!Readback, sessionVars
    <2>4. QED
        BY <2>1, <2>2, <2>3
  <1>5. ASSUME NEW k \in 1..Count, Session!Read(k)
        PROVE  \/ SessionLeft' < SessionLeft
               \/ SessionLeft' = SessionLeft /\ StreamLeft' < StreamLeft
    <2>1. /\ sessionPc = "capture" /\ k <= Len(wire) /\ Len(samples) + k <= Count
          /\ samples' = samples \o SubSeq(wire, 1, k)
          /\ UNCHANGED <<produced, setting, applied, vdd>>
        BY <1>5 DEF Session!Read
    <2>2. samples \in Seq(Nat) /\ wire \in Seq(Nat) /\ k \in 1..Len(wire)
        BY <2>1 DEF SessionInv, StreamOrdered
    <2>3. Len(samples') = Len(samples) + k
        BY <2>1, <2>2, StreamTaken
    <2>4. StreamLeft' < StreamLeft
        BY <1>1, <2>1, <2>3 DEF StreamLeft, Bit
    <2>5. sessionPc' \in {"stop", "capture"}
        BY <1>5 DEF Session!Read
    <2>6. QED
        BY <2>1, <2>4, <2>5 DEF SessionLeft
  <1>6. ASSUME Session!Apply \/ Session!Sample
        PROVE  SessionLeft' = SessionLeft /\ StreamLeft' < StreamLeft
    <2>1. UNCHANGED <<sessionPc, samples, vdd, setting>>
        BY <1>6 DEF Session!Apply, Session!Sample
    <2>2. CASE Session!Apply
        BY <1>1, <2>1, <2>2 DEF Session!Apply, SessionLeft, StreamLeft, Bit
    <2>3. CASE Session!Sample
        BY <1>1, <2>1, <2>3 DEF Session!Sample, SessionLeft, StreamLeft, Bit
    <2>4. QED
        BY <1>6, <2>2, <2>3
  <1>7. QED
      BY <1>2, <1>3, <1>4, <1>5, <1>6 DEF Session!Next, Session!Ends

\* The places of an audit follow one another in the order of its transaction, which an
\* error leaves for the cleanup and an error of the cleanup for the report.
LEMMA AuditPath ==
  ASSUME NEW a \in Audited, Audit!Audit(a)
  PROVE  \/ auditPc[a] = "start" /\ Audit!Goto(a, "switch")
         \/ auditPc[a] = "switch" /\ Audit!Goto(a, "wait-bootloader")
         \/ auditPc[a] = "wait-bootloader" /\ Audit!Goto(a, "program")
         \/ auditPc[a] = "program" /\ Audit!Goto(a, "programming")
         \/ auditPc[a] = "programming" /\ Audit!Goto(a, "wait-shell")
         \/ auditPc[a] = "wait-shell" /\ Audit!Goto(a, "read")
         \/ auditPc[a] = "read" /\ Audit!Goto(a, "cleanup")
         \/ /\ auditPc[a] \in {"start", "switch", "wait-bootloader", "program",
                               "programming", "wait-shell", "read"}
            /\ \E l \in {"cleanup", "done"} : Audit!Goto(a, l)
         \/ /\ auditPc[a] = "cleanup"
            /\ \E l \in {"reset-shell", "verify", "restore", "find-shell"} : Audit!Goto(a, l)
         \/ auditPc[a] = "find-shell" /\ Audit!Goto(a, "reset-shell")
         \/ auditPc[a] = "reset-shell" /\ Audit!Goto(a, "restore")
         \/ auditPc[a] = "restore" /\ Audit!Goto(a, "restoring")
         \/ auditPc[a] = "restoring" /\ Audit!Goto(a, "verify")
         \/ auditPc[a] \in Audit!Cleaning /\ Audit!Goto(a, "done")
  <1>1. CASE \E current \in {"Application", "Programming", Audit!None} :
                 Audit!Inspect(a, current)
    <2>1. PICK current : Audit!Inspect(a, current)
        BY <1>1
    <2>2. Audit!Decide(a, current) \in {"reset-shell", "verify", "restore", "find-shell"}
        BY DEF Audit!Decide
    <2>3. QED
        BY <2>1, <2>2 DEF Audit!Inspect
  <1>2. CASE Audit!Raise(a)
    <2>1. (IF required[a] THEN "cleanup" ELSE "done") \in {"cleanup", "done"}
        OBVIOUS
    <2>2. QED
        BY <1>2, <2>1 DEF Audit!Raise
  <1>3. CASE \/ Audit!Begin(a) \/ Audit!SwitchToBootloader(a) \/ Audit!WaitBootloader(a)
             \/ Audit!ProgramBegins(a) \/ Audit!ProgramEnds(a) \/ Audit!WaitShell(a)
             \/ \E first, second \in Audit!Reads(a) : Audit!ReadEeprom(a, first, second)
      BY <1>3, ZenonT(30) DEF Audit!Begin, Audit!SwitchToBootloader, Audit!WaitBootloader,
         Audit!ProgramBegins, Audit!ProgramEnds, Audit!WaitShell, Audit!ReadEeprom
  <1>4. CASE \/ Audit!FindShell(a) \/ Audit!ResetShell(a) \/ Audit!RestoreBegins(a)
             \/ Audit!RestoreEnds(a) \/ Audit!RestorationFails(a)
      BY <1>4, ZenonT(30) DEF Audit!FindShell, Audit!ResetShell, Audit!RestoreBegins,
         Audit!RestoreEnds, Audit!RestorationFails
  <1>5. CASE Audit!Verify(a)
    <2>1. "verify" \in Audit!Cleaning
        BY DEF Audit!Cleaning
    <2>2. QED
        BY <1>5, <2>1 DEF Audit!Verify
  <1>6. QED
      BY <1>1, <1>2, <1>3, <1>4, <1>5 DEF Audit!Audit

\* Every step of an audit goes to a place of its transaction.
LEMMA AuditStaysPlaced ==
  ASSUME AuditPlace, Audit!Next
  PROVE  AuditPlace'
  <1>1. ASSUME NEW a \in Audited, Audit!Audit(a) PROVE AuditPlace'
    <2>1. PICK l \in AuditSteps : Audit!Goto(a, l)
      <3>1. {"switch", "wait-bootloader", "program", "programming", "wait-shell", "read",
             "cleanup", "done", "reset-shell", "verify", "restore", "find-shell", "restoring"}
              \subseteq AuditSteps
          BY DEF AuditSteps, Audit!Cleaning
      <3>2. QED
          BY <1>1, <3>1, AuditPath, ZenonT(60)
    <2>2. QED
        BY <2>1 DEF AuditPlace, Audit!Goto
  <1>2. ASSUME NEW i \in Instruments, Audit!Enumerate(i) \/ Audit!Unplug(i) PROVE AuditPlace'
    <2>1. UNCHANGED auditPc
        BY <1>2 DEF Audit!Enumerate, Audit!Unplug
    <2>2. QED
        BY <2>1 DEF AuditPlace
  <1>3. QED
      BY <1>1, <1>2 DEF Audit!Next

\* Every step of an audit brings it nearer to its report and leaves the others where they
\* are; an instrument that enumerates or is unplugged leaves all of them (ppk2_eeprom_cli.py).
LEMMA AuditMoves ==
  ASSUME AuditInv, AuditPlace, Audit!Next
  PROVE  \A a \in Audited : /\ AuditLeft(a)' <= AuditLeft(a)
                            /\ Audit!Audit(a) => AuditLeft(a)' < AuditLeft(a)
  <1>1. ASSUME NEW a \in Audited PROVE AuditLeft(a) \in Nat
    <2>1. auditPc[a] \in AuditSteps
        BY DEF AuditPlace
    <2>2. QED
        BY <2>1, SMTT(60) DEF AuditLeft, AuditSteps, Audit!Cleaning
  \* The step of one audit.
  <1>2. ASSUME NEW a \in Audited, Audit!Audit(a)
        PROVE  /\ AuditLeft(a)' < AuditLeft(a) /\ AuditLeft(a)' <= AuditLeft(a)
               /\ \A b \in Audited \ {a} : AuditLeft(b)' = AuditLeft(b)
    <2>1. \/ auditPc[a] = "start" /\ Audit!Goto(a, "switch")
          \/ auditPc[a] = "switch" /\ Audit!Goto(a, "wait-bootloader")
          \/ auditPc[a] = "wait-bootloader" /\ Audit!Goto(a, "program")
          \/ auditPc[a] = "program" /\ Audit!Goto(a, "programming")
          \/ auditPc[a] = "programming" /\ Audit!Goto(a, "wait-shell")
          \/ auditPc[a] = "wait-shell" /\ Audit!Goto(a, "read")
          \/ auditPc[a] = "read" /\ Audit!Goto(a, "cleanup")
          \/ /\ auditPc[a] \in {"start", "switch", "wait-bootloader", "program",
                                "programming", "wait-shell", "read"}
             /\ \E l \in {"cleanup", "done"} : Audit!Goto(a, l)
          \/ /\ auditPc[a] = "cleanup"
             /\ \E l \in {"reset-shell", "verify", "restore", "find-shell"} : Audit!Goto(a, l)
          \/ auditPc[a] = "find-shell" /\ Audit!Goto(a, "reset-shell")
          \/ auditPc[a] = "reset-shell" /\ Audit!Goto(a, "restore")
          \/ auditPc[a] = "restore" /\ Audit!Goto(a, "restoring")
          \/ auditPc[a] = "restoring" /\ Audit!Goto(a, "verify")
          \/ auditPc[a] \in Audit!Cleaning /\ Audit!Goto(a, "done")
        BY <1>2, AuditPath, Zenon
    <2>2. PICK l : Audit!Goto(a, l)
        BY <2>1, Zenon
    <2>3. \A b \in Audited \ {a} : AuditLeft(b)' = AuditLeft(b)
        BY <2>2, OnlyOneMoves DEF AuditLeft
    <2>4. AuditLeft(a)' < AuditLeft(a) /\ AuditLeft(a)' <= AuditLeft(a)
      <3>1. \A m : Audit!Goto(a, m) => auditPc'[a] = m
          BY OnlyOneMoves
      <3>2. \/ auditPc[a] = "start" /\ auditPc'[a] = "switch"
            \/ auditPc[a] = "switch" /\ auditPc'[a] = "wait-bootloader"
            \/ auditPc[a] = "wait-bootloader" /\ auditPc'[a] = "program"
            \/ auditPc[a] = "program" /\ auditPc'[a] = "programming"
            \/ auditPc[a] = "programming" /\ auditPc'[a] = "wait-shell"
            \/ auditPc[a] = "wait-shell" /\ auditPc'[a] = "read"
            \/ auditPc[a] = "read" /\ auditPc'[a] = "cleanup"
            \/ /\ auditPc[a] \in {"start", "switch", "wait-bootloader", "program",
                                  "programming", "wait-shell", "read"}
               /\ auditPc'[a] \in {"cleanup", "done"}
            \/ /\ auditPc[a] = "cleanup"
               /\ auditPc'[a] \in {"reset-shell", "verify", "restore", "find-shell"}
            \/ auditPc[a] = "find-shell" /\ auditPc'[a] = "reset-shell"
            \/ auditPc[a] = "reset-shell" /\ auditPc'[a] = "restore"
            \/ auditPc[a] = "restore" /\ auditPc'[a] = "restoring"
            \/ auditPc[a] = "restoring" /\ auditPc'[a] = "verify"
            \/ auditPc[a] \in Audit!Cleaning /\ auditPc'[a] = "done"
          BY <2>1, <3>1, ZenonT(60)
      <3>3. QED
          BY <3>2, SMTT(60) DEF AuditLeft, Audit!Cleaning
    <2>5. QED
        BY <2>3, <2>4
  \* What only an instrument does.
  <1>3. ASSUME NEW i \in Instruments, Audit!Enumerate(i) \/ Audit!Unplug(i)
        PROVE  \A b \in Audited : AuditLeft(b)' = AuditLeft(b)
    <2>1. UNCHANGED auditPc
        BY <1>3 DEF Audit!Enumerate, Audit!Unplug
    <2>2. QED
        BY <2>1 DEF AuditLeft
  <1>4. ASSUME NEW a \in Audited PROVE AuditLeft(a)' <= AuditLeft(a)
    <2>1. CASE \E b \in Audited : Audit!Audit(b)
      <3>1. PICK b \in Audited : Audit!Audit(b)
          BY <2>1
      <3>2. CASE a = b
          BY <1>2, <3>1, <3>2
      <3>3. CASE a # b
        <4>1. AuditLeft(a)' = AuditLeft(a)
            BY <1>2, <3>1, <3>3
        <4>2. QED
            BY <1>1, <4>1
      <3>4. QED
          BY <3>2, <3>3
    <2>2. CASE \E i \in Instruments : Audit!Enumerate(i) \/ Audit!Unplug(i)
      <3>1. AuditLeft(a)' = AuditLeft(a)
          BY <1>3, <2>2
      <3>2. QED
          BY <1>1, <3>1
    <2>3. QED
        BY <2>1, <2>2 DEF Audit!Next
  <1>5. QED
      BY <1>2, <1>4

\* A step counts at most one suspension or one reset of the device.
LEMMA UsbCounts ==
  ASSUME Counted, Usb!Next
  PROVE  \/ counts' = counts
         \/ /\ counts.suspend < MaxSuspends
            /\ counts'.suspend = counts.suspend + 1 /\ counts'.configured = counts.configured
         \/ counts'.suspend = counts.suspend /\ counts'.configured = counts.configured
         \/ /\ counts.configured < MaxResets
            /\ counts'.configured = counts.configured + 1 /\ counts'.suspend = counts.suspend
  <1>1. /\ DOMAIN counts = {"configured", "suspend", "resume", "wakeup"}
        /\ counts \in [{"configured", "suspend", "resume", "wakeup"} -> Nat]
      BY DEF Counted, Counts
  <1>2. CASE counts' = counts
      BY <1>2
  <1>3. CASE Usb!Autosuspend
    <2>1. counts' = [counts EXCEPT !.suspend = @ + 1] /\ counts.suspend < MaxSuspends
        BY <1>3 DEF Usb!Autosuspend
    <2>2. QED
        BY <1>1, <2>1
  <1>4. CASE Usb!Reset
    <2>1. counts' = [counts EXCEPT !.configured = @ + 1] /\ counts.configured < MaxResets
        BY <1>4 DEF Usb!Reset
    <2>2. QED
        BY <1>1, <2>1
  <1>5. CASE \E who \in {"open", "host", "other", "device"} : Usb!Activate(who)
    <2>1. PICK who : Usb!Activate(who)
        BY <1>5
    <2>2. counts' = [counts EXCEPT !.resume = @ + 1,
                                   !.wakeup = IF who = "device" THEN @ + 1 ELSE @]
        BY <2>1 DEF Usb!Activate
    <2>3. QED
        BY <1>1, <2>2
  <1>6. QED
      BY <1>2, <1>3, <1>4, <1>5 DEF Usb!Next, Usb!Gate, Usb!Open, Usb!Claim, Usb!Prepare,
         Usb!PrepareFails, Usb!Auto, Usb!Poll, Usb!GiveUp, Usb!Restore, Usb!Conclude,
         Usb!ControlOn, Usb!OtherProgram, Usb!RemoteWakeup, Usb!kernel, Usb!firmware

\* The gate and what it drives keep what a poll has seen.
LEMMA UsbStaysSettled ==
  ASSUME UsbInv, UsbSettled, Usb!Next
  PROVE  UsbSettled'
  <1>1. counts.suspend \in Nat /\ counts.configured \in Nat /\ MaxSuspends \in Nat
        /\ MaxResets \in Nat
      BY CommandsAssumption DEF UsbInv, Counted, Counts, Usb!ConstantsOk
  <1>2. counts'.suspend <= MaxSuspends /\ counts'.configured <= MaxResets
      BY <1>1, UsbCounts DEF UsbInv, UsbSettled
  <1> USE DEF Usb!Goto, Usb!Fail, Usb!seenflags, Usb!kernel, Usb!firmware
  <1>3. attributes' \in PowerSet
      BY DEF UsbSettled, Usb!Next, Usb!Gate, Usb!Open, Usb!Claim, Usb!Prepare,
         Usb!PrepareFails, Usb!Auto, Usb!Poll, Usb!GiveUp, Usb!Restore, Usb!Conclude,
         Usb!Autosuspend, Usb!ControlOn, Usb!OtherProgram, Usb!RemoteWakeup, Usb!Reset
  <1>4. power' \in PowerSet
    <2>1. \/ power' = power
          \/ power' = [power EXCEPT !.wakeup = "enabled", !.delay = "second"]
          \/ power' = [power EXCEPT !.control = "auto",
                                    !.delay = IF phase = "host" THEN "zero" ELSE @]
          \/ power' = [power EXCEPT !.control = "on"]
          \/ power' = attributes
        BY DEF Usb!Next, Usb!Gate, Usb!Open, Usb!Claim, Usb!Prepare,
           Usb!PrepareFails, Usb!Auto, Usb!Poll, Usb!GiveUp, Usb!Restore, Usb!Conclude,
           Usb!Autosuspend, Usb!ControlOn, Usb!OtherProgram, Usb!RemoteWakeup, Usb!Reset
    <2>2. QED
        BY <2>1 DEF UsbSettled, PowerSet
  <1>5. usbPc' = "auto" /\ polled' => runtime' = "active"
    <2>1. CASE Usb!Prepare
        BY <2>1 DEF Usb!Prepare, UsbInv, Counted
    <2>2. CASE /\ usbPc' = "auto" => usbPc = "auto"
               /\ UNCHANGED runtime /\ (polled' => polled \/ usbPc' # "auto")
        BY <2>2 DEF UsbSettled
    <2>3. CASE ~polled'
        BY <2>3
    <2>4. QED
        BY <2>1, <2>2, <2>3 DEF Usb!Next, Usb!Gate, Usb!Open, Usb!Claim, Usb!Prepare,
           Usb!PrepareFails, Usb!Auto, Usb!Poll, Usb!GiveUp, Usb!Restore, Usb!Conclude,
           Usb!Autosuspend, Usb!ControlOn, Usb!OtherProgram, Usb!RemoteWakeup, Usb!Reset,
           Usb!Activate
  <1>6. usbPc' = "poll" /\ polled' => /\ runtime' = "suspended" => suspended'
                                      /\ phase' = "host" /\ suspended' => power'.control = "on"
    <2>1. CASE Usb!Auto
        BY <2>1 DEF Usb!Auto, UsbInv, WakeupSeen, UsbSettled
    <2>2. CASE Usb!Poll
      <3>1. /\ UNCHANGED <<phase, runtime>>
            /\ suspended' = (suspended \/ runtime = "suspended")
            /\ phase = "host" /\ suspended' => power' = [power EXCEPT !.control = "on"]
          BY <2>2 DEF Usb!Poll
      <3>2. QED
          BY <3>1 DEF UsbSettled, PowerSet
    <2>3. CASE UNCHANGED <<usbPc, polled, runtime, suspended, phase, power>>
        BY <2>3 DEF UsbSettled
    <2>4. CASE usbPc' # "poll" \/ ~polled'
        BY <2>4
    <2>5. QED
        BY <2>1, <2>2, <2>3, <2>4 DEF Usb!Next, Usb!Gate, Usb!Open, Usb!Claim, Usb!Prepare,
           Usb!PrepareFails, Usb!Auto, Usb!Poll, Usb!GiveUp, Usb!Restore, Usb!Conclude,
           Usb!Autosuspend, Usb!ControlOn, Usb!OtherProgram, Usb!RemoteWakeup, Usb!Reset,
           Usb!Activate
  <1>7. QED
      BY <1>2, <1>3, <1>4, <1>5, <1>6 DEF UsbSettled

\* Every step of a USB power gate brings it nearer to its report, except a poll that does
\* not see the end yet; what the kernel, other programs and the device do in between is
\* used up, and a poll without any of it is no step (run_host_resume_validation,
\* run_power_validation).
LEMMA UsbMoves ==
  ASSUME UsbInv, UsbSettled, Usb!Next
  PROVE  /\ Usb!Gate /\ ~Usb!Poll => UsbLeft' < UsbLeft
         /\ \/ UsbLeft' < UsbLeft
            \/ UsbLeft' = UsbLeft /\ DeviceLeft' < DeviceLeft
            \/ UNCHANGED usbVars
  <1>1. /\ counts.suspend \in Nat /\ counts.configured \in Nat
        /\ MaxSuspends \in Nat /\ MaxResets \in Nat
        /\ counts.suspend <= MaxSuspends /\ counts.configured <= MaxResets
        /\ phase \in {"host", "remote"} /\ claimed \in BOOLEAN /\ polled \in BOOLEAN
        /\ suspended \in BOOLEAN /\ runtime \in {"active", "suspended"}
      BY CommandsAssumption
         DEF UsbInv, AttributesKept, Counted, Counts, UsbSettled, Usb!ConstantsOk
  <1> USE DEF Usb!Goto, Usb!Fail, Usb!seenflags, Usb!kernel, Usb!firmware
  <1>2. ASSUME Usb!Gate, ~Usb!Poll PROVE UsbLeft' < UsbLeft
    <2> USE <1>1 DEF UsbLeft, Bit
    <2>1. CASE Usb!Open
      <3>1. usbPc = "open" /\ usbPc' \in {"claim", "unwind", "done"} /\ UNCHANGED <<phase, claimed>>
          BY <2>1 DEF Usb!Open
      <3>2. QED
          BY <3>1
    <2>2. CASE Usb!Claim
        BY <2>2 DEF Usb!Claim
    <2>3. CASE Usb!Prepare
        BY <2>3 DEF Usb!Prepare
    <2>4. CASE Usb!PrepareFails
      <3>1. usbPc = "claim" /\ usbPc' \in {"unwind", "done"} /\ UNCHANGED phase
          BY <2>4 DEF Usb!PrepareFails
      <3>2. QED
          BY <3>1
    <2>5. CASE Usb!Auto
      <3>1. usbPc = "auto" /\ usbPc' \in {"poll", "unwind"} /\ UNCHANGED phase
          BY <2>5 DEF Usb!Auto
      <3>2. QED
          BY <3>1
    <2>6. CASE Usb!GiveUp
        BY <2>6 DEF Usb!GiveUp
    <2>7. CASE Usb!Restore
      <3>1. /\ \/ usbPc = "restore" /\ usbPc' = "reclaim"
               \/ usbPc = "unwind" /\ usbPc' = "done"
            /\ UNCHANGED <<phase, claimed>>
          BY <2>7 DEF Usb!Restore
      <3>2. QED
          BY <3>1
    <2>8. CASE Usb!Conclude
      <3>1. /\ usbPc = "reclaim" /\ claimed
            /\ \/ phase = "host" /\ phase' = "remote" /\ usbPc' = "open"
               \/ usbPc' = "done"
          BY <2>8 DEF Usb!Conclude
      <3>2. QED
          BY <3>1
    <2>9. QED
        BY <1>2, <2>1, <2>2, <2>3, <2>4, <2>5, <2>6, <2>7, <2>8 DEF Usb!Gate
  \* A poll sees the end, reads a status that is new to it, or changes nothing.
  <1>3. ASSUME Usb!Poll
        PROVE  \/ UsbLeft' < UsbLeft
               \/ UsbLeft' = UsbLeft /\ DeviceLeft' < DeviceLeft
               \/ UNCHANGED usbVars
    <2>1. /\ usbPc = "poll" /\ usbPc' = IF resumed' THEN "restore" ELSE "poll"
          /\ polled' = TRUE
          /\ suspended' = (suspended \/ runtime = "suspended")
          /\ resumed' = (suspended /\ runtime = "active")
          /\ seen' = IF resumed' THEN cause ELSE seen
          /\ power' = IF (phase = "host" /\ suspended') \/ resumed'
                      THEN [power EXCEPT !.control = "on"] ELSE power
          /\ UNCHANGED <<usbStatus, phase, attributes, before, runtime, cause, claimed, armed,
                         timer, counts, original, others>>
        BY <1>3 DEF Usb!Poll
    <2>2. CASE resumed'
        BY <1>1, <2>1, <2>2 DEF UsbLeft
    <2>3. CASE ~resumed' /\ ~polled
      <3>1. UsbLeft' = UsbLeft
          BY <2>1, <2>3 DEF UsbLeft
      <3>2. DeviceLeft' < DeviceLeft
          BY <1>1, <2>1, <2>3 DEF DeviceLeft, Bit
      <3>3. QED
          BY <3>1, <3>2
    <2>4. CASE ~resumed' /\ polled
      <3>1. /\ runtime = "suspended" => suspended
            /\ phase = "host" /\ suspended => power.control = "on"
          BY <2>1, <2>4 DEF UsbSettled
      <3>2. suspended' = suspended /\ resumed' = resumed
          BY <1>1, <2>1, <2>4, <3>1 DEF UsbInv, WakeupSeen, Counted
      <3>3. power' = power
        <4>1. power.control = "on" => [power EXCEPT !.control = "on"] = power
            BY DEF UsbSettled, PowerSet
        <4>2. QED
            BY <2>1, <2>4, <3>1, <3>2, <4>1
      <3>4. polled' = polled
          BY <2>1, <2>4
      <3>5. QED
          BY <2>1, <2>4, <3>2, <3>3, <3>4 DEF usbVars
    <2>5. QED
        BY <1>1, <2>2, <2>3, <2>4
  \* What only the kernel, other programs and the device do.
  <1>4. ASSUME \/ Usb!Autosuspend \/ Usb!ControlOn \/ Usb!OtherProgram \/ Usb!RemoteWakeup
               \/ Usb!Reset
        PROVE  UsbLeft' = UsbLeft /\ DeviceLeft' < DeviceLeft
    <2>1. UNCHANGED <<usbPc, phase, claimed>>
        BY <1>4 DEF Usb!Autosuspend, Usb!ControlOn, Usb!OtherProgram, Usb!RemoteWakeup,
           Usb!Reset
    <2>2. UsbLeft' = UsbLeft
        BY <2>1 DEF UsbLeft
    <2>3. counts \in [{"configured", "suspend", "resume", "wakeup"} -> Nat]
        BY DEF UsbInv, Counted, Counts
    <2>4. CASE Usb!Autosuspend
      <3>1. /\ runtime' = "suspended" /\ polled' = FALSE
            /\ counts' = [counts EXCEPT !.suspend = @ + 1] /\ counts.suspend < MaxSuspends
          BY <2>4 DEF Usb!Autosuspend
      <3>2. counts'.suspend = counts.suspend + 1 /\ counts'.configured = counts.configured
          BY <2>3, <3>1
      <3>3. QED
          BY <1>1, <2>2, <3>1, <3>2 DEF DeviceLeft, Bit
    <2>5. CASE Usb!ControlOn \/ Usb!OtherProgram \/ Usb!RemoteWakeup
      <3>1. runtime = "suspended" /\ \E who \in {"host", "other", "device"} : Usb!Activate(who)
          BY <2>5 DEF Usb!ControlOn, Usb!OtherProgram, Usb!RemoteWakeup
      <3>2. PICK who : Usb!Activate(who)
          BY <3>1
      <3>3. /\ runtime' = "active" /\ polled' = FALSE
            /\ counts' = [counts EXCEPT !.resume = @ + 1,
                                        !.wakeup = IF who = "device" THEN @ + 1 ELSE @]
          BY <3>2 DEF Usb!Activate
      <3>4. counts'.suspend = counts.suspend /\ counts'.configured = counts.configured
          BY <2>3, <3>3
      <3>5. QED
          BY <1>1, <2>2, <3>1, <3>3, <3>4 DEF DeviceLeft, Bit
    <2>6. CASE Usb!Reset
      <3>1. /\ counts' = [counts EXCEPT !.configured = @ + 1] /\ counts.configured < MaxResets
            /\ UNCHANGED <<runtime, polled>>
          BY <2>6 DEF Usb!Reset
      <3>2. counts'.configured = counts.configured + 1 /\ counts'.suspend = counts.suspend
          BY <2>3, <3>1
      <3>3. QED
          BY <1>1, <2>2, <3>1, <3>2 DEF DeviceLeft, Bit
    <2>7. QED
        BY <1>4, <2>4, <2>5, <2>6
  <1>5. QED
    <2>1. Usb!Gate => \/ UsbLeft' < UsbLeft
                      \/ UsbLeft' = UsbLeft /\ DeviceLeft' < DeviceLeft
                      \/ UNCHANGED usbVars
        BY <1>2, <1>3
    <2>2. QED
        BY <1>2, <1>4, <2>1 DEF Usb!Next

\* The bounds hold when a command begins, and every command keeps its own.
LEMMA ProgressInvHolds == Spec => []ProgressInv
  <1>1. /\ Count \in Nat /\ MaxLost \in Nat /\ MaxSuspends \in Nat /\ MaxResets \in Nat
      BY CommandsAssumption DEF Session!ConstantsOk, Usb!ConstantsOk
  <1>2. Init => BoundsHold
    <2>1. Session!Init => SessionBounded
        BY <1>1 DEF Session!Init, SessionBounded
    <2>2. Audit!Init => AuditPlace
        BY DEF Audit!Init, AuditPlace, AuditSteps
    <2>3. Usb!Init => UsbSettled
        BY <1>1 DEF Usb!Init, UsbSettled, PowerSet, Usb!Attributes
    <2>4. QED
        BY <2>1, <2>2, <2>3 DEF Init, BoundsHold
  <1>3. CommandInv /\ BoundsHold /\ [Next]_vars => BoundsHold'
    <2> SUFFICES ASSUME CommandInv, BoundsHold, [Next]_vars PROVE BoundsHold'
        OBVIOUS
    <2>1. CASE SessionRuns(Session!Next)
      <3>1. /\ command = "ppk2" /\ UNCHANGED command
            /\ Session!Next /\ SessionInv /\ SessionBounded
          BY <2>1 DEF SessionRuns, CommandInv, BoundsHold
      <3>2. CASE \E k \in 1..Count : Session!Read(k)
        <4>1. PICK k \in 1..Count : Session!Read(k)
            BY <3>2
        <4>2. /\ k <= Len(wire) /\ Len(samples) + k <= Count
              /\ samples' = samples \o SubSeq(wire, 1, k) /\ produced' = produced
            BY <4>1 DEF Session!Read
        <4>3. samples \in Seq(Nat) /\ wire \in Seq(Nat) /\ k \in 1..Len(wire)
            BY <3>1, <4>2 DEF SessionInv, StreamOrdered
        <4>4. Len(samples') = Len(samples) + k
            BY <4>2, <4>3, StreamTaken
        <4>5. QED
            BY <3>1, <4>2, <4>4 DEF SessionBounded, BoundsHold
      <3>3. CASE Session!Sample
        <4>1. produced < Count + MaxLost /\ produced' = produced + 1 /\ samples' = samples
            BY <3>3 DEF Session!Sample
        <4>2. produced \in Nat
            BY <3>1 DEF SessionInv, StreamOrdered
        <4>3. QED
            BY <1>1, <3>1, <4>1, <4>2 DEF SessionBounded, BoundsHold
      <3>4. CASE UNCHANGED <<samples, produced>>
          BY <3>1, <3>4 DEF SessionBounded, BoundsHold
      <3>5. QED
          BY <3>1, <3>2, <3>3, <3>4 DEF Session!Next, Session!Metadata, Session!PowerOff,
             Session!Configure, Session!Readback, Session!PowerOn, Session!StartCapture,
             Session!StopCapture, Session!Decode, Session!Raise, Session!Cleanup,
             Session!Close, Session!Apply, Session!stream
    <2>2. CASE AuditRuns(Audit!Next)
      <3>1. /\ command = "ppk2-eeprom-audit" /\ UNCHANGED command /\ Audit!Next /\ AuditPlace
          BY <2>2 DEF AuditRuns, BoundsHold
      <3>2. QED
          BY <3>1, AuditStaysPlaced DEF BoundsHold
    <2>3. CASE UsbRuns(Usb!Next)
      <3>1. /\ command = "m4-usb-power" /\ UNCHANGED command
            /\ Usb!Next /\ UsbInv /\ UsbSettled
          BY <2>3 DEF UsbRuns, CommandInv, BoundsHold
      <3>2. QED
          BY <3>1, UsbStaysSettled DEF BoundsHold
    <2>4. CASE SuiteRuns(Suite!Next)
        BY <2>4 DEF SuiteRuns, BoundsHold
    <2>5. CASE UNCHANGED vars
      <3>1. /\ UNCHANGED <<command, samples, produced, auditPc, counts, power, attributes,
                           usbPc, polled, runtime, suspended, phase>>
          BY <2>5 DEF vars, sessionVars, auditVars, usbVars
      <3>2. QED
          BY <3>1 DEF BoundsHold, SessionBounded, AuditPlace, UsbSettled
    <2>6. QED
        BY <2>1, <2>2, <2>3, <2>4, <2>5 DEF Next
  <1>4. QED
      BY <1>2, <1>3, CommandsCorrect, PTL DEF Spec, ProgressInv

\* What is left is a number, and nothing is left exactly at the report.
LEMMA LeftCounts ==
  ASSUME ProgressInv
  PROVE  /\ command # "ppk2-eeprom-audit" =>
              Left \in Nat /\ Around \in Nat /\ (Left = 0 <=> Ended)
         /\ command = "ppk2-eeprom-audit" => \A a \in Audited :
              AuditLeft(a) \in Nat /\ (AuditLeft(a) = 0 <=> Audit!Done(a))
  <1>1. /\ Count \in Nat /\ MaxLost \in Nat /\ MaxSuspends \in Nat /\ MaxResets \in Nat
      BY CommandsAssumption DEF Session!ConstantsOk, Usb!ConstantsOk
  <1>2. CASE command = "blu939-suite"
    <2>1. suitePc \notin Suite!Ended => Ahead(suitePc, profile) \in Nat \ {0}
        BY <1>2, AheadCounts DEF ProgressInv, CommandInv
    <2>2. SuiteLeft \in Nat /\ (SuiteLeft = 0 <=> suitePc \in Suite!Ended)
        BY <2>1 DEF SuiteLeft, Bit
    <2>3. PeerLeft \in Nat
        BY DEF PeerLeft, Bit
    <2>4. QED
        BY <1>2, <2>2, <2>3 DEF Left, Around, Ended
  <1>3. CASE command = "ppk2"
    <2>1. SessionInv /\ SessionBounded
        BY <1>3 DEF ProgressInv, CommandInv, BoundsHold
    <2>2. sessionPc \in Opening \cup Closing \cup {"capture", "stop", "decode"}
        BY <2>1 DEF SessionInv, SessionPlace
    <2>3. SessionLeft \in Nat
        BY <2>2, SMTT(60) DEF SessionLeft, Opening, Closing
    <2>4. SessionLeft = 0 <=> sessionPc = "done"
        BY <2>2, SMTT(60) DEF SessionLeft, Opening, Closing
    <2>5. StreamLeft \in Nat
        BY <1>1, <2>1 DEF SessionInv, StreamOrdered, SessionBounded, StreamLeft, Bit
    <2>6. QED
        BY <1>3, <2>3, <2>4, <2>5 DEF Left, Around, Ended
  <1>4. CASE command = "ppk2-eeprom-audit"
    <2> SUFFICES ASSUME NEW a \in Audited
                 PROVE  AuditLeft(a) \in Nat /\ (AuditLeft(a) = 0 <=> Audit!Done(a))
        BY <1>4
    <2>1. auditPc[a] \in AuditSteps
        BY <1>4 DEF ProgressInv, BoundsHold, AuditPlace
    <2>2. AuditLeft(a) \in Nat
        BY <2>1, SMTT(60) DEF AuditLeft, AuditSteps, Audit!Cleaning
    <2>3. AuditLeft(a) = 0 <=> auditPc[a] = "done"
        BY <2>1, SMTT(60) DEF AuditLeft, AuditSteps, Audit!Cleaning
    <2>4. QED
        BY <2>2, <2>3 DEF Audit!Done
  <1>5. CASE command = "m4-usb-power"
    <2>1. UsbInv /\ UsbSettled
        BY <1>5 DEF ProgressInv, CommandInv, BoundsHold
    <2>2. usbPc \in {"open", "claim", "auto", "poll", "restore", "unwind", "reclaim", "done"}
        BY <2>1 DEF UsbInv, AttributesKept
    <2>3. UsbLeft \in Nat
        BY <2>2, SMTT(60) DEF UsbLeft, Bit
    <2>4. UsbLeft = 0 <=> usbPc = "done"
        BY <2>2, SMTT(60) DEF UsbLeft, Bit
    <2>5. counts.suspend \in Nat /\ counts.configured \in Nat
        BY <2>1 DEF UsbInv, Counted, Counts
    <2>6. DeviceLeft \in Nat
        BY <1>1, <2>1, <2>5 DEF UsbSettled, DeviceLeft, Bit
    <2>7. QED
        BY <1>5, <2>3, <2>4, <2>6 DEF Left, Around, Ended
  <1>6. QED
      BY <1>2, <1>3, <1>4, <1>5 DEF ProgressInv, BoundsHold

\* Every command has a number of steps left that is zero exactly at its report, an audit of
\* several instruments one for each of them. No step adds to it, and each step that a
\* timeout of the code forces takes from it, an error as well. The suite, the session and
\* the USB gate even take finitely many steps whatever the boards, the instrument and the
\* kernel do: while the command stays where it is, what happens around it runs out. This
\* is the part of CommandEnds that is about steps, for any number of profiles, samples,
\* instruments, suspensions and resets.
THEOREM CommandsAdvance ==
  Spec => /\ [](command # "ppk2-eeprom-audit" =>
                  Left \in Nat /\ Around \in Nat /\ (Left = 0 <=> Ended))
          /\ [](command = "ppk2-eeprom-audit" => \A a \in Audited :
                  AuditLeft(a) \in Nat /\ (AuditLeft(a) = 0 <=> Audit!Done(a)))
          /\ [][Advances]_vars
  <1>1. ProgressInv => /\ command # "ppk2-eeprom-audit" =>
                            Left \in Nat /\ Around \in Nat /\ (Left = 0 <=> Ended)
                       /\ command = "ppk2-eeprom-audit" => \A a \in Audited :
                            AuditLeft(a) \in Nat /\ (AuditLeft(a) = 0 <=> Audit!Done(a))
      BY LeftCounts
  <1>2. ProgressInv /\ ProgressInv' /\ [Next]_vars => [Advances]_vars
    <2> SUFFICES ASSUME ProgressInv, ProgressInv', Next, vars' # vars
                 PROVE  Advances
        OBVIOUS
    <2> DEFINE Number == command # "ppk2-eeprom-audit" => Left \in Nat
    <2>1. Number /\ Number'
      <3>1. Number
          BY LeftCounts
      <3>2. Number'
          BY LeftCounts, PTL
      <3>3. QED
          BY <3>1, <3>2
    <2>2. CASE SuiteRuns(Suite!Next)
      <3>1. /\ command = "blu939-suite" /\ command' = "blu939-suite"
            /\ Suite!Next /\ SuiteInv
          BY <2>2 DEF SuiteRuns, ProgressInv, CommandInv
      <3>2. /\ Left = SuiteLeft /\ Left' = SuiteLeft'
            /\ Around = PeerLeft /\ Around' = PeerLeft'
          BY <3>1 DEF Left, Around
      <3>3. Due => Suite!Suite
          BY <3>1 DEF Due, SuiteRuns, SessionRuns, UsbRuns
      <3>4. QED
          BY <2>1, <3>1, <3>2, <3>3, SuiteMoves DEF Advances
    <2>3. CASE SessionRuns(Session!Next)
      <3>1. /\ command = "ppk2" /\ command' = "ppk2"
            /\ Session!Next /\ SessionInv /\ SessionBounded /\ ~UNCHANGED sessionVars
          BY <2>3 DEF SessionRuns, ProgressInv, CommandInv, BoundsHold, vars
      <3>2. /\ Left = SessionLeft /\ Left' = SessionLeft'
            /\ Around = StreamLeft /\ Around' = StreamLeft'
          BY <3>1 DEF Left, Around
      <3>3. Due => Session!Ends
          BY <3>1 DEF Due, SuiteRuns, SessionRuns, UsbRuns
      <3>4. QED
          BY <2>1, <3>1, <3>2, <3>3, SessionMoves DEF Advances
    <2>4. CASE AuditRuns(Audit!Next)
      <3>1. command = "ppk2-eeprom-audit" /\ Audit!Next /\ AuditInv /\ AuditPlace
          BY <2>4 DEF AuditRuns, ProgressInv, CommandInv, BoundsHold
      <3>2. QED
          BY <3>1, AuditMoves DEF Advances, AuditRuns
    <2>5. CASE UsbRuns(Usb!Next)
      <3>1. /\ command = "m4-usb-power" /\ command' = "m4-usb-power"
            /\ Usb!Next /\ UsbInv /\ UsbSettled /\ ~UNCHANGED usbVars
          BY <2>5 DEF UsbRuns, ProgressInv, CommandInv, BoundsHold, vars
      <3>2. /\ Left = UsbLeft /\ Left' = UsbLeft'
            /\ Around = DeviceLeft /\ Around' = DeviceLeft'
          BY <3>1 DEF Left, Around
      <3>3. Due => Usb!Gate /\ ~Usb!Poll
          BY <3>1 DEF Due, SuiteRuns, SessionRuns, UsbRuns
      <3>4. QED
          BY <2>1, <3>1, <3>2, <3>3, UsbMoves DEF Advances
    <2>6. QED
        BY <2>2, <2>3, <2>4, <2>5 DEF Next
  <1>3. QED
      BY <1>1, <1>2, ProgressInvHolds, PTL DEF Spec
=============================================================================
