------------------------- MODULE ImageCommandsProofs ------------------------
(***************************************************************************)
(* Proofs about module ImageCommands, for any number of boards, commands,  *)
(* receipts, records of an image file, processes and cycles.               *)
(***************************************************************************)
EXTENDS ImageCommands, Sequences, WellFoundedInduction, TLAPS

(***************************************************************************)
(* The OpenOCD backend.                                                    *)
(***************************************************************************)
OcdPlaces == {"idle", "dump", "publish", "clear", "clearing", "write", "writing", "identify",
              "restore", "restoring", "reset", "halted", "resume", "server", "client",
              "observe"}

\* The last place at which each command may have read or written its board.
Halts == {"publish", "clearing", "writing", "restoring", "halted", "resume"}

OcdTyped ==
    /\ DOMAIN ocdMemory = Boards
    /\ \A b \in Boards : ocdMemory[b] = [r \in Ocd!Regions |-> ocdMemory[b][r]]
    /\ cpu \in [Boards -> {"halted", "running"}]
    /\ connected \in Boards /\ reported \in Boards
    /\ ocdPc \in OcdPlaces /\ ocdRanges \subseteq Ocd!Regions
    /\ ocdReport \in [status : {"none", "ok", "failed"},
                      state : {"unknown", "unverified", "halted", "running"},
                      claim : {"none", "restored", "cleared"}]

\* A backup is data of regions of a board, and what was destroyed is in one.
BackupsKept ==
    /\ \A b \in published :
        /\ b.target \in Boards /\ DOMAIN b.data \subseteq Ocd!Regions
        /\ b.data = [r \in DOMAIN b.data |-> b.data[r]]
    /\ destroyed \subseteq published

\* Until clear-rram erases it, the board has the contents that were dumped.
DumpCurrent ==
    /\ cmd = "clear" /\ ocdPc # "idle" => ocdRanges = Ocd!Regions
    /\ ocdPc \in {"dump", "publish"} => cmd \in {"backup", "clear"}
    /\ ocdPc = "clear" => cmd = "clear" /\ dump \subseteq published
    /\ ocdPc \in {"publish", "clear"} =>
        dump = {[target |-> reported, data |-> Ocd!Part(reported, ocdRanges)]}

\* The backup of a restore is one that was published, and of the board it names.
BackupChosen ==
    /\ ocdPc \in {"identify", "restore", "restoring"} =>
        \E b \in published : ocdChosen = {b}
    /\ ocdPc \in {"restore", "restoring"} => \A b \in ocdChosen : b.target = reported
    /\ ocdPc \in {"restore", "restoring"} /\ ~SwapInRestore => reported = connected

\* A session names the board it works on, which it has halted.
SessionNamed ==
    /\ ocdPc \in {"clearing", "writing", "halted", "resume"} => reported = connected
    /\ ocdPc \in Halts \ {"restoring"} => cpu[reported] = "halted"
    /\ ocdPc = "restoring" => cpu[connected] = "halted"

\* A command claims nothing before its end, and a state only of a board it halted.
ReportHonest ==
    /\ ocdPc # "idle" => ocdReport.claim = "none" /\ ocdReport.state # "running"
    /\ ocdPc # "idle" /\ ocdReport.state = "halted" => ocdPc = "publish"
    /\ ocdPc # "idle" => ocdReport.status = "none"
    /\ ~SwapInRestore => Ocd!ClaimsHold /\ Ocd!StateHolds

OcdInv ==
    OcdTyped /\ BackupsKept /\ DumpCurrent /\ BackupChosen /\ SessionNamed /\ ReportHonest

(***************************************************************************)
(* reference prepare and build.                                            *)
(***************************************************************************)
BuildPlaces == {"idle", "load", "hash", "configure", "compile", "exit"}

\* Only one of the two processes runs, unless preparations may overlap builds.
OneAtATime ==
    /\ bpc \in BuildPlaces /\ ppc \in {"idle", "check"}
    /\ ~Overlap => ppc = "idle" \/ bpc = "idle"

\* The receipt that a build works with describes the workspace until the build ends; the
\* one whose hash the manifest will name is the same, unless it was replaced meanwhile.
ReceiptRead ==
    /\ bpc \in {"hash", "configure", "compile"} \/ (bpc = "exit" /\ code = 0) =>
        /\ head = loaded.lock /\ fixture = loaded.lock
        /\ ~Overlap => loaded = receipt
    /\ bpc \in {"configure", "compile"} \/ (bpc = "exit" /\ code = 0) =>
        (~Overlap => bound = loaded)

\* What is in the build directory was configured for the receipt and compiled from the
\* checked workspace, once west succeeded.
BuildFromReceipt ==
    /\ bpc = "compile" \/ (bpc = "exit" /\ code = 0) =>
        /\ manifest = None
        /\ cache = [toolchain |-> loaded.toolchain, variant |-> loaded.variant]
    /\ bpc = "exit" /\ code = 0 =>
        /\ image.built = cache /\ image.done
        /\ image.head = head /\ image.fixture = fixture

ReferenceInv ==
    /\ OneAtATime /\ ReceiptRead /\ BuildFromReceipt
    /\ Reference!ManifestOfBuild
    /\ ~Overlap => Reference!BindsToolchain /\ Reference!BindsModules

(***************************************************************************)
(* The audit of an image.                                                  *)
(***************************************************************************)
\* The address of byte n of record i.
Place(i, n) == Hex!BaseAt(i) + records[i].offset + n - 1

IsData(i) == records[i].kind = "data"

InRanges(a) == \E i \in DOMAIN hexRanges : hexRanges[i][1] <= a /\ a < hexRanges[i][2]

\* No two allowed ranges overlap.
WindowsApart ==
    \A v, w \in Allowlist :
        (\E a \in Nat : v[1] <= a /\ a < v[2] /\ w[1] <= a /\ a < w[2]) => v = w

HexTyped ==
    /\ records \in Seq(Hex!Records) /\ Len(records) >= 1
    /\ k \in 0..Len(records) /\ eof \in BOOLEAN
    /\ hexPc \in {"parse", "scan", "check", "accepted", "rejected"}

\* The base is that of the last base record, and the end record the last one read.
RecordsRead ==
    /\ \A i \in 1..(k + 1) : Hex!BaseAt(i) \in Nat
    /\ hexPc = "parse" => base = Hex!BaseAt(k + 1)
    /\ eof => k >= 1
    /\ hexPc # "rejected" =>
        \A i \in 1..k : records[i].kind = "eof" <=> eof /\ i = k
    /\ hexPc \in {"scan", "check", "accepted"} => eof /\ k = Len(records)

\* The memory map has the bytes of the records read, one value for each address.
MemoryRead ==
    hexPc # "rejected" =>
        /\ \A a \in DOMAIN hexMemory :
            /\ a \in Nat /\ a < Limit
            /\ \E i \in 1..k : IsData(i) /\ \E n \in 1..Len(records[i].payload) : a = Place(i, n)
        /\ \A i \in 1..k : IsData(i) =>
            \A n \in 1..Len(records[i].payload) :
                /\ Place(i, n) \in DOMAIN hexMemory
                /\ hexMemory[Place(i, n)] = records[i].payload[n]

\* The ranges so far, the current one and the addresses to come are the map.
RangesScanned ==
    /\ hexRanges \in Seq(Nat \X Nat)
    /\ \A i \in 1..Len(hexRanges) : hexRanges[i][1] < hexRanges[i][2]
    /\ \A i \in 1..(Len(hexRanges) - 1) : hexRanges[i][2] < hexRanges[i + 1][1]
    /\ hexPc = "parse" => hexRanges = <<>>
    /\ hexPc = "scan" =>
        /\ start \in Nat /\ previous \in Nat /\ start <= previous
        /\ hexRanges # <<>> => hexRanges[Len(hexRanges)][2] < start
        /\ \A a \in todo : a \in Nat /\ previous < a
        /\ \A a \in Nat : a \in DOMAIN hexMemory <=>
                              a \in todo \/ (start <= a /\ a <= previous) \/ InRanges(a)
    /\ hexPc \in {"check", "accepted"} =>
        \A a \in Nat : a \in DOMAIN hexMemory <=> InRanges(a)

Audited ==
    /\ hexPc = "accepted" => \A i \in DOMAIN hexRanges : Hex!RangeAllowed(hexRanges[i])
    /\ WindowsApart => Hex!RejectedIsWrong

HexInv == HexTyped /\ RecordsRead /\ MemoryRead /\ RangesScanned /\ Audited

(***************************************************************************)
(* m2-gate and its children.                                               *)
(***************************************************************************)
PlanSteps(o) == {Gate!Plan(o)[j] : j \in DOMAIN Gate!Plan(o)}

\* The commands that the gate starts.
ChildOps == {"run", "gdb", "flash", "debug"}

\* The steps that run under the probe lock.
Locked == {"snapshot", "program", "serial", "server", "gdb", "reset", "token", "stop", "unlock"}

ChildStages == {"cycle", "gdb", "faultflash", "faultgdb", "restore"}

GatePlaces == ChildStages \cup {"audit", "finish", "done"}

\* Where the gate stands, and what it knows of its errors there.
GatePlace ==
    /\ stage \in GatePlaces /\ iteration \in Nat
    /\ operation_error \in BOOLEAN /\ restoration_error \in BOOLEAN
    /\ hardware_started \in BOOLEAN /\ orphaned \in BOOLEAN /\ claimed \in BOOLEAN
    /\ stage \in {"audit", "cycle"} => iteration < Cycles
    /\ stage \in {"gdb", "faultflash", "faultgdb"} => iteration = Cycles
    /\ stage \in {"restore", "finish", "done"} /\ ~operation_error => iteration = Cycles
    /\ stage \in {"finish", "done"} /\ ~operation_error => hardware_started
    /\ stage = "restore" => hardware_started
    /\ orphaned => operation_error \/ restoration_error
    /\ claimed => stage = "done" /\ hardware_started /\ ~restoration_error
    /\ status = "ok" => stage = "done" /\ ~operation_error /\ ~restoration_error

\* The state of the processes; an idle one has nothing behind it.
ProcsTyped ==
    /\ op \in [Procs -> Gate!Ops] /\ want \in [Procs -> Manifests]
    /\ gatePc \in [Procs -> Gate!Steps \cup {"idle", "ended", "killed"}]
    /\ err \in [Procs -> BOOLEAN] /\ gateReport \in [Procs -> {"none", "running", "failed", "ok"}]
    /\ snapshot \in [Procs -> [Gate!Images -> Manifests \cup {Other}]]
    /\ programmed \in [Procs -> Nat]
    /\ tool \in [Procs -> [job : {"none", "program", "reset", "server", "exited"},
                           busy : BOOLEAN]]
    /\ \A p \in Procs : gatePc[p] = "idle" =>
        ~err[p] /\ programmed[p] = 0 /\ tool[p] = Gate!NoTool

\* Only the child of the stage runs; it holds the lock at the steps that need it, and
\* nobody but it the serial port.
OneChild ==
    /\ child \in Procs \cup {NoProc}
    /\ \A p \in Procs : p # child => gatePc[p] \in {"idle", "killed"}
    /\ child # NoProc =>
        /\ stage \in ChildStages /\ hardware_started
        /\ op[child] = Gate!Job(stage).op /\ want[child] = Gate!Job(stage).manifest
        /\ gatePc[child] \in PlanSteps(op[child]) \cup {"ended"}
    /\ gateLock = IF child # NoProc /\ gatePc[child] \in Locked THEN child ELSE NoProc
    /\ tty \in {NoProc, child}
    /\ ~orphaned => \A p \in Procs : p # child => tool[p] = Gate!NoTool

Holds(m) == \A i \in Gate!Images : board[i] = m

Runs(m) == \A i \in Gate!Images : running[i] = m

\* What a child that programs and resets the board knows at each of its steps.
RunKnown ==
    child # NoProc /\ op[child] = "run" =>
        /\ gatePc[child] \in {"load", "select", "lock", "snapshot"} => programmed[child] = 0
        /\ gatePc[child] = "program" =>
            /\ programmed[child] < NImages
            /\ tool[child].job \in {"none", "program", "exited"}
            /\ \A i \in Gate!Images : snapshot[child][i] = want[child]
            /\ ~orphaned => \A i \in Gate!Images :
                  \/ i <= programmed[child]
                  \/ tool[child].job = "exited" /\ i = programmed[child] + 1
                  => board[i] = want[child]
        /\ gatePc[child] = "reset" => tool[child].job \in {"none", "reset", "exited"}
        /\ gatePc[child] \notin {"program", "reset"} => tool[child] = Gate!NoTool
        /\ gatePc[child] \notin {"unlock", "close", "ended"} => ~err[child]
        /\ gateReport[child] = "ok" => gatePc[child] = "ended" /\ ~err[child]
        /\ ~orphaned /\ ~err[child] =>
            /\ gatePc[child] \in {"serial", "reset", "token", "unlock", "close", "ended"} =>
                  Holds(want[child])
            /\ \/ gatePc[child] \in {"token", "unlock", "close", "ended"}
               \/ gatePc[child] = "reset" /\ tool[child].job = "exited"
               => Runs(want[child])

\* Once the gate has restored the board, nobody touches it.
BoardRestored ==
    /\ board \in [Gate!Images -> Manifests \cup {Torn, Other}]
    /\ stage \in {"finish", "done"} /\ hardware_started /\ ~restoration_error /\ ~orphaned =>
        Holds(Normal) /\ Runs(Normal)

GateInv == GatePlace /\ ProcsTyped /\ OneChild /\ RunKnown /\ BoardRestored

\* Every step of a command of the OpenOCD backend, and a swap of boards, keeps OcdInv.
LEMMA OcdStep ==
  ASSUME OcdInv, Ocd!Next
  PROVE  OcdInv'
  <1>1. CASE \E rs \in {{"image"}, {"image", "settings"}, Ocd!Regions} :
              \E c \in Ocd!Commands : Ocd!Start(c, rs)
    <2>1. OcdTyped'
        BY <1>1 DEF OcdInv, OcdTyped, OcdPlaces, Ocd!Regions, Ocd!Start, Ocd!First,
         Ocd!Commands, Ocd!NoReport
    <2>2. BackupsKept'
        BY <1>1 DEF OcdInv, OcdTyped, BackupsKept, DumpCurrent, Ocd!Regions, Ocd!Start,
         Ocd!First, Ocd!Commands, Ocd!NoReport
    <2>3. DumpCurrent'
        BY <1>1 DEF OcdInv, OcdTyped, DumpCurrent, Ocd!Part, Ocd!Regions, Ocd!Start, Ocd!First,
         Ocd!Commands, Ocd!NoReport
    <2>4. BackupChosen'
        BY <1>1 DEF OcdInv, OcdTyped, BackupChosen, SessionNamed, Ocd!Start, Ocd!First,
         Ocd!Commands, Ocd!NoReport
    <2>5. SessionNamed'
        BY <1>1 DEF OcdInv, OcdTyped, SessionNamed, Halts, Ocd!Start, Ocd!First, Ocd!Commands,
         Ocd!NoReport
    <2>6. ReportHonest'
        BY <1>1 DEF OcdInv, OcdTyped, BackupChosen, SessionNamed, ReportHonest, Ocd!ClaimsHold,
         Ocd!StateHolds, Ocd!Part, Ocd!Start, Ocd!First, Ocd!Commands, Ocd!NoReport
    <2>7. QED
        BY <2>1, <2>2, <2>3, <2>4, <2>5, <2>6 DEF OcdInv
  <1>2. CASE \E rs \in {{"image"}, {"image", "settings"}, Ocd!Regions} :
              Ocd!StartRestore(rs)
    <2>1. OcdTyped'
        BY <1>2 DEF OcdInv, OcdTyped, OcdPlaces, Ocd!Regions, Ocd!StartRestore, Ocd!NoReport
    <2>2. BackupsKept'
        BY <1>2 DEF OcdInv, OcdTyped, BackupsKept, DumpCurrent, Ocd!Regions, Ocd!StartRestore,
         Ocd!NoReport
    <2>3. DumpCurrent'
        BY <1>2 DEF OcdInv, OcdTyped, DumpCurrent, Ocd!Part, Ocd!Regions, Ocd!StartRestore,
         Ocd!NoReport
    <2>4. BackupChosen'
        BY <1>2 DEF OcdInv, OcdTyped, BackupChosen, SessionNamed, Ocd!StartRestore, Ocd!NoReport
    <2>5. SessionNamed'
        BY <1>2 DEF OcdInv, OcdTyped, SessionNamed, Halts, Ocd!StartRestore, Ocd!NoReport
    <2>6. ReportHonest'
        BY <1>2 DEF OcdInv, OcdTyped, BackupChosen, SessionNamed, ReportHonest, Ocd!ClaimsHold,
         Ocd!StateHolds, Ocd!Part, Ocd!StartRestore, Ocd!NoReport
    <2>7. QED
        BY <2>1, <2>2, <2>3, <2>4, <2>5, <2>6 DEF OcdInv
  <1>3. CASE \E first, second \in Ocd!Reads : Ocd!Dump(first, second)
    <2>1. OcdTyped'
        BY <1>3 DEF OcdInv, OcdTyped, OcdPlaces, Ocd!Regions, Ocd!Dump, Ocd!Here
    <2>2. BackupsKept'
        BY <1>3 DEF OcdInv, OcdTyped, BackupsKept, DumpCurrent, Ocd!Regions, Ocd!Dump, Ocd!Here
    <2>3. DumpCurrent'
      <3>1. PICK first, second \in Ocd!Reads : Ocd!Dump(first, second)
          BY <1>3
      <3>2. first = Ocd!Part(connected, ocdRanges)
          BY <3>1 DEF Ocd!Dump, Ocd!Here
      <3>3. Ocd!Part(connected, ocdRanges) = [r \in ocdRanges |-> ocdMemory[connected][r]]
          BY DEF Ocd!Part
      <3>4. dump' = {[target |-> reported', data |-> Ocd!Part(reported, ocdRanges)']}
          BY <3>1, <3>2, <3>3 DEF Ocd!Dump, Ocd!Here, Ocd!Part
      <3>5. QED
          BY <1>3, <3>4 DEF OcdInv, OcdTyped, DumpCurrent, Ocd!Dump
    <2>4. BackupChosen'
        BY <1>3 DEF OcdInv, OcdTyped, BackupChosen, SessionNamed, Ocd!Dump, Ocd!Here
    <2>5. SessionNamed'
        BY <1>3 DEF OcdInv, OcdTyped, SessionNamed, Halts, Ocd!Dump, Ocd!Here
    <2>6. ReportHonest'
        BY <1>3 DEF OcdInv, OcdTyped, BackupChosen, SessionNamed, ReportHonest, Ocd!ClaimsHold,
         Ocd!StateHolds, Ocd!Part, Ocd!Dump, Ocd!Here
    <2>7. QED
        BY <2>1, <2>2, <2>3, <2>4, <2>5, <2>6 DEF OcdInv
  <1>4. CASE Ocd!Publish
    <2>1. OcdTyped'
        BY <1>4 DEF OcdInv, OcdTyped, OcdPlaces, Ocd!Regions, Ocd!Publish, Ocd!Succeed
    <2>2. BackupsKept'
      <3>1. \A b \in dump : /\ b.target \in Boards /\ DOMAIN b.data \subseteq Ocd!Regions
                            /\ b.data = [r \in DOMAIN b.data |-> b.data[r]]
          BY <1>4 DEF OcdInv, OcdTyped, DumpCurrent, Ocd!Publish, Ocd!Part
      <3>2. published' = published \cup dump /\ UNCHANGED destroyed
          BY <1>4 DEF Ocd!Publish
      <3>3. QED
          BY <3>1, <3>2 DEF OcdInv, BackupsKept
    <2>3. DumpCurrent'
        BY <1>4 DEF OcdInv, OcdTyped, DumpCurrent, Ocd!Part, Ocd!Regions, Ocd!Publish,
         Ocd!Succeed
    <2>4. BackupChosen'
        BY <1>4 DEF OcdInv, OcdTyped, BackupChosen, SessionNamed, Ocd!Publish, Ocd!Succeed
    <2>5. SessionNamed'
        BY <1>4 DEF OcdInv, OcdTyped, SessionNamed, Halts, Ocd!Publish, Ocd!Succeed
    <2>6. ReportHonest'
      <3>1. UNCHANGED <<ocdMemory, cpu, reported, ocdChosen>> /\ cpu[reported] = "halted"
          BY <1>4 DEF OcdInv, SessionNamed, Halts, Ocd!Publish
      <3>2. CASE cmd = "backup"
        <4>1. /\ ocdReport' = [status |-> "ok", state |-> "halted", claim |-> "none"]
              /\ ocdPc' = "idle"
            BY <1>4, <3>2 DEF Ocd!Publish, Ocd!Succeed
        <4>2. QED
            BY <4>1, <3>1 DEF ReportHonest, Ocd!ClaimsHold, Ocd!StateHolds
      <3>3. CASE cmd # "backup"
        <4>1. /\ ocdReport' = [ocdReport EXCEPT !.state = "unverified"]
              /\ ocdPc' = "clear" /\ ocdPc # "idle"
            BY <1>4, <3>3 DEF Ocd!Publish
        <4>2. ocdReport'.claim = "none" /\ ocdReport'.status = "none"
            BY <4>1 DEF OcdInv, OcdTyped, ReportHonest
        <4>3. ocdReport'.state = "unverified"
            BY <4>1 DEF OcdInv, OcdTyped
        <4>4. QED
            BY <4>1, <4>2, <4>3 DEF ReportHonest, Ocd!ClaimsHold, Ocd!StateHolds
      <3>4. QED
          BY <3>2, <3>3
    <2>7. QED
        BY <2>1, <2>2, <2>3, <2>4, <2>5, <2>6 DEF OcdInv
  <1>5. CASE Ocd!ClearBegins
    <2>1. OcdTyped'
        BY <1>5 DEF OcdInv, OcdTyped, OcdPlaces, Ocd!Regions, Ocd!ClearBegins, Ocd!Here
    <2>2. BackupsKept'
        BY <1>5 DEF OcdInv, OcdTyped, BackupsKept, DumpCurrent, Ocd!Regions, Ocd!ClearBegins,
         Ocd!Here
    <2>3. DumpCurrent'
        BY <1>5 DEF OcdInv, OcdTyped, DumpCurrent, Ocd!Part, Ocd!Regions, Ocd!ClearBegins,
         Ocd!Here
    <2>4. BackupChosen'
        BY <1>5 DEF OcdInv, OcdTyped, BackupChosen, SessionNamed, Ocd!ClearBegins, Ocd!Here
    <2>5. SessionNamed'
        BY <1>5 DEF OcdInv, OcdTyped, SessionNamed, Halts, Ocd!ClearBegins, Ocd!Here
    <2>6. ReportHonest'
        BY <1>5 DEF OcdInv, OcdTyped, BackupChosen, SessionNamed, ReportHonest, Ocd!ClaimsHold,
         Ocd!StateHolds, Ocd!Part, Ocd!ClearBegins, Ocd!Here
    <2>7. QED
        BY <2>1, <2>2, <2>3, <2>4, <2>5, <2>6 DEF OcdInv
  <1>6. CASE Ocd!ClearEnds
    <2>1. OcdTyped'
        BY <1>6 DEF OcdInv, OcdTyped, OcdPlaces, Ocd!Regions, Ocd!ClearEnds, Ocd!Succeed,
         Ocd!Here
    <2>2. BackupsKept'
        BY <1>6 DEF OcdInv, OcdTyped, BackupsKept, DumpCurrent, Ocd!Regions, Ocd!ClearEnds,
         Ocd!Succeed, Ocd!Here
    <2>3. DumpCurrent'
        BY <1>6 DEF OcdInv, OcdTyped, DumpCurrent, Ocd!Part, Ocd!Regions, Ocd!ClearEnds,
         Ocd!Succeed, Ocd!Here
    <2>4. BackupChosen'
        BY <1>6 DEF OcdInv, OcdTyped, BackupChosen, SessionNamed, Ocd!ClearEnds, Ocd!Succeed,
         Ocd!Here
    <2>5. SessionNamed'
        BY <1>6 DEF OcdInv, OcdTyped, SessionNamed, Halts, Ocd!ClearEnds, Ocd!Succeed, Ocd!Here
    <2>6. ReportHonest'
      <3>1. /\ ocdReport' = [status |-> "ok", state |-> "halted", claim |-> "cleared"]
            /\ ocdPc' = "idle" /\ UNCHANGED <<cpu, reported>>
          BY <1>6 DEF Ocd!ClearEnds, Ocd!Succeed
      <3>2. reported = connected /\ cpu[reported] = "halted" /\ connected \in Boards
          BY <1>6 DEF OcdInv, OcdTyped, SessionNamed, Halts, Ocd!ClearEnds
      <3>3. ocdMemory'[reported] = [r \in Ocd!Regions |-> "erased"]
          BY <1>6, <3>2 DEF OcdInv, OcdTyped, Ocd!ClearEnds, Ocd!Here
      <3>4. QED
          BY <3>1, <3>2, <3>3 DEF ReportHonest, Ocd!ClaimsHold, Ocd!StateHolds
    <2>7. QED
        BY <2>1, <2>2, <2>3, <2>4, <2>5, <2>6 DEF OcdInv
  <1>7. CASE Ocd!FlashBegins
    <2>1. OcdTyped'
      <3>1. ocdMemory' = [ocdMemory EXCEPT
                             ![connected] = [ocdMemory[connected] EXCEPT !["image"] = "half"]]
          BY <1>7 DEF Ocd!FlashBegins, Ocd!Overwrite, Ocd!Here
      <3>2. DOMAIN ocdMemory' = Boards
          BY <3>1 DEF OcdInv, OcdTyped
      <3>3. ASSUME NEW b \in Boards
            PROVE  ocdMemory'[b] = [r \in Ocd!Regions |-> ocdMemory'[b][r]]
        <4>1. DOMAIN ocdMemory[connected] = Ocd!Regions
            BY DEF OcdInv, OcdTyped
        <4>2. b # connected => ocdMemory'[b] = ocdMemory[b]
            BY <3>1 DEF OcdInv, OcdTyped
        <4>3. ocdMemory'[connected] = [ocdMemory[connected] EXCEPT !["image"] = "half"]
            BY <3>1 DEF OcdInv, OcdTyped
        <4>4. CASE b = connected
            BY <4>1, <4>3, <4>4
        <4>5. CASE b # connected
            BY <4>2, <4>5 DEF OcdInv, OcdTyped
        <4>6. QED
            BY <4>4, <4>5
      <3>4. QED
          BY <1>7, <3>2, <3>3 DEF OcdInv, OcdTyped, OcdPlaces, Ocd!FlashBegins, Ocd!Here
    <2>2. BackupsKept'
        BY <1>7 DEF OcdInv, OcdTyped, BackupsKept, DumpCurrent, Ocd!Regions, Ocd!FlashBegins,
         Ocd!Overwrite, Ocd!Here
    <2>3. DumpCurrent'
        BY <1>7 DEF OcdInv, OcdTyped, DumpCurrent, Ocd!Part, Ocd!Regions, Ocd!FlashBegins,
         Ocd!Overwrite, Ocd!Here
    <2>4. BackupChosen'
        BY <1>7 DEF OcdInv, OcdTyped, BackupChosen, SessionNamed, Ocd!FlashBegins,
         Ocd!Overwrite, Ocd!Here
    <2>5. SessionNamed'
        BY <1>7 DEF OcdInv, OcdTyped, SessionNamed, Halts, Ocd!FlashBegins, Ocd!Overwrite,
         Ocd!Here
    <2>6. ReportHonest'
        BY <1>7 DEF OcdInv, OcdTyped, BackupChosen, SessionNamed, ReportHonest, Ocd!ClaimsHold,
         Ocd!StateHolds, Ocd!Part, Ocd!FlashBegins, Ocd!Overwrite, Ocd!Here
    <2>7. QED
        BY <2>1, <2>2, <2>3, <2>4, <2>5, <2>6 DEF OcdInv
  <1>8. CASE Ocd!FlashEnds
    <2>1. OcdTyped'
      <3>1. ocdMemory' = [ocdMemory EXCEPT
                             ![connected] = [ocdMemory[connected] EXCEPT !["image"] = "firmware"]]
          BY <1>8 DEF Ocd!FlashEnds, Ocd!Overwrite, Ocd!Here
      <3>2. DOMAIN ocdMemory' = Boards
          BY <3>1 DEF OcdInv, OcdTyped
      <3>3. ASSUME NEW b \in Boards
            PROVE  ocdMemory'[b] = [r \in Ocd!Regions |-> ocdMemory'[b][r]]
        <4>1. DOMAIN ocdMemory[connected] = Ocd!Regions
            BY DEF OcdInv, OcdTyped
        <4>2. b # connected => ocdMemory'[b] = ocdMemory[b]
            BY <3>1 DEF OcdInv, OcdTyped
        <4>3. ocdMemory'[connected] = [ocdMemory[connected] EXCEPT !["image"] = "firmware"]
            BY <3>1 DEF OcdInv, OcdTyped
        <4>4. CASE b = connected
            BY <4>1, <4>3, <4>4
        <4>5. CASE b # connected
            BY <4>2, <4>5 DEF OcdInv, OcdTyped
        <4>6. QED
            BY <4>4, <4>5
      <3>4. QED
          BY <1>8, <3>2, <3>3 DEF OcdInv, OcdTyped, OcdPlaces, Ocd!FlashEnds, Ocd!Succeed, Ocd!Here
    <2>2. BackupsKept'
        BY <1>8 DEF OcdInv, OcdTyped, BackupsKept, DumpCurrent, Ocd!Regions, Ocd!FlashEnds,
         Ocd!Succeed, Ocd!Overwrite, Ocd!Here
    <2>3. DumpCurrent'
        BY <1>8 DEF OcdInv, OcdTyped, DumpCurrent, Ocd!Part, Ocd!Regions, Ocd!FlashEnds,
         Ocd!Succeed, Ocd!Overwrite, Ocd!Here
    <2>4. BackupChosen'
        BY <1>8 DEF OcdInv, OcdTyped, BackupChosen, SessionNamed, Ocd!FlashEnds, Ocd!Succeed,
         Ocd!Overwrite, Ocd!Here
    <2>5. SessionNamed'
        BY <1>8 DEF OcdInv, OcdTyped, SessionNamed, Halts, Ocd!FlashEnds, Ocd!Succeed,
         Ocd!Overwrite, Ocd!Here
    <2>6. ReportHonest'
      <3>1. /\ ocdReport' = [status |-> "ok", state |-> "halted", claim |-> "none"]
            /\ ocdPc' = "idle" /\ UNCHANGED <<cpu, reported>>
          BY <1>8 DEF Ocd!FlashEnds, Ocd!Succeed
      <3>2. cpu[reported] = "halted"
          BY <1>8 DEF OcdInv, SessionNamed, Halts, Ocd!FlashEnds
      <3>3. QED
          BY <3>1, <3>2 DEF ReportHonest, Ocd!ClaimsHold, Ocd!StateHolds
    <2>7. QED
        BY <2>1, <2>2, <2>3, <2>4, <2>5, <2>6 DEF OcdInv
  <1>9. CASE Ocd!RestoreIdentify
    <2>1. OcdTyped'
        BY <1>9 DEF OcdInv, OcdTyped, OcdPlaces, Ocd!Regions, Ocd!RestoreIdentify, Ocd!Here
    <2>2. BackupsKept'
        BY <1>9 DEF OcdInv, OcdTyped, BackupsKept, DumpCurrent, Ocd!Regions,
         Ocd!RestoreIdentify, Ocd!Here
    <2>3. DumpCurrent'
        BY <1>9 DEF OcdInv, OcdTyped, DumpCurrent, Ocd!Part, Ocd!Regions, Ocd!RestoreIdentify,
         Ocd!Here
    <2>4. BackupChosen'
        BY <1>9 DEF OcdInv, OcdTyped, BackupChosen, SessionNamed, Ocd!RestoreIdentify, Ocd!Here
    <2>5. SessionNamed'
        BY <1>9 DEF OcdInv, OcdTyped, SessionNamed, Halts, Ocd!RestoreIdentify, Ocd!Here
    <2>6. ReportHonest'
        BY <1>9 DEF OcdInv, OcdTyped, BackupChosen, SessionNamed, ReportHonest, Ocd!ClaimsHold,
         Ocd!StateHolds, Ocd!Part, Ocd!RestoreIdentify, Ocd!Here
    <2>7. QED
        BY <2>1, <2>2, <2>3, <2>4, <2>5, <2>6 DEF OcdInv
  <1>10. CASE Ocd!RestoreBegins
    <2>1. OcdTyped'
        BY <1>10 DEF OcdInv, OcdTyped, BackupsKept, OcdPlaces, Ocd!Regions, Ocd!RestoreBegins,
         Ocd!Here
    <2>2. BackupsKept'
        BY <1>10 DEF OcdInv, OcdTyped, BackupsKept, DumpCurrent, Ocd!Regions, Ocd!RestoreBegins,
         Ocd!Here
    <2>3. DumpCurrent'
        BY <1>10 DEF OcdInv, OcdTyped, DumpCurrent, BackupsKept, Ocd!Part, Ocd!Regions,
         Ocd!RestoreBegins, Ocd!Here
    <2>4. BackupChosen'
        BY <1>10 DEF OcdInv, OcdTyped, BackupChosen, SessionNamed, BackupsKept,
         Ocd!RestoreBegins, Ocd!Here
    <2>5. SessionNamed'
        BY <1>10 DEF OcdInv, OcdTyped, SessionNamed, BackupsKept, Halts, Ocd!RestoreBegins,
         Ocd!Here
    <2>6. ReportHonest'
        BY <1>10 DEF OcdInv, OcdTyped, BackupChosen, SessionNamed, ReportHonest, BackupsKept,
         Ocd!ClaimsHold, Ocd!StateHolds, Ocd!Part, Ocd!RestoreBegins, Ocd!Here
    <2>7. QED
        BY <2>1, <2>2, <2>3, <2>4, <2>5, <2>6 DEF OcdInv
  <1>11. CASE Ocd!RestoreEnds
    <2>1. OcdTyped'
        BY <1>11 DEF OcdInv, OcdTyped, BackupsKept, OcdPlaces, Ocd!Regions, Ocd!RestoreEnds,
         Ocd!Succeed, Ocd!Here
    <2>2. BackupsKept'
        BY <1>11 DEF OcdInv, OcdTyped, BackupsKept, DumpCurrent, Ocd!Regions, Ocd!RestoreEnds,
         Ocd!Succeed, Ocd!Here
    <2>3. DumpCurrent'
        BY <1>11 DEF OcdInv, OcdTyped, DumpCurrent, BackupsKept, Ocd!Part, Ocd!Regions,
         Ocd!RestoreEnds, Ocd!Succeed, Ocd!Here
    <2>4. BackupChosen'
        BY <1>11 DEF OcdInv, OcdTyped, BackupChosen, SessionNamed, BackupsKept, Ocd!RestoreEnds,
         Ocd!Succeed, Ocd!Here
    <2>5. SessionNamed'
        BY <1>11 DEF OcdInv, OcdTyped, SessionNamed, BackupsKept, Halts, Ocd!RestoreEnds,
         Ocd!Succeed, Ocd!Here
    <2>6. ReportHonest'
      <3>1. /\ ocdReport' = [status |-> "ok", state |-> "halted", claim |-> "restored"]
            /\ ocdPc' = "idle" /\ UNCHANGED <<cpu, reported, ocdChosen>> /\ ocdPc = "restoring"
          BY <1>11 DEF Ocd!RestoreEnds, Ocd!Succeed
      <3>2. cpu[connected] = "halted" /\ connected \in Boards
          BY <3>1 DEF OcdInv, OcdTyped, SessionNamed, Halts
      <3>3. PICK b \in published : ocdChosen = {b}
          BY <3>1 DEF OcdInv, BackupChosen
      <3>4. b.target = reported /\ (~SwapInRestore => reported = connected)
          BY <3>1, <3>3 DEF OcdInv, BackupChosen
      <3>5. DOMAIN b.data \subseteq Ocd!Regions /\ b.data = [r \in DOMAIN b.data |-> b.data[r]]
          BY <3>3 DEF OcdInv, BackupsKept
      <3>6. ocdMemory' = [ocdMemory EXCEPT ![connected] = [r \in Ocd!Regions |->
                IF r \in DOMAIN b.data THEN b.data[r] ELSE ocdMemory[connected][r]]]
          BY <1>11, <3>3 DEF Ocd!RestoreEnds, Ocd!Here
      <3>7. \A r \in DOMAIN b.data : ocdMemory'[connected][r] = b.data[r]
          BY <3>2, <3>5, <3>6 DEF OcdInv, OcdTyped
      <3>8. [r \in DOMAIN b.data |-> ocdMemory'[connected][r]] = b.data
          BY <3>5, <3>7
      <3>9. ~SwapInRestore => Ocd!ClaimsHold'
          BY <3>1, <3>3, <3>4, <3>8 DEF Ocd!ClaimsHold, Ocd!Part
      <3>10. ~SwapInRestore => Ocd!StateHolds'
          BY <3>1, <3>2, <3>4 DEF Ocd!StateHolds
      <3>11. QED
          BY <3>1, <3>9, <3>10 DEF ReportHonest
    <2>7. QED
        BY <2>1, <2>2, <2>3, <2>4, <2>5, <2>6 DEF OcdInv
  <1>12. CASE \E halt \in BOOLEAN : Ocd!ResetBegins(halt)
    <2>1. OcdTyped'
        BY <1>12 DEF OcdInv, OcdTyped, OcdPlaces, Ocd!Regions, Ocd!ResetBegins, Ocd!Here
    <2>2. BackupsKept'
        BY <1>12 DEF OcdInv, OcdTyped, BackupsKept, DumpCurrent, Ocd!Regions, Ocd!ResetBegins,
         Ocd!Here
    <2>3. DumpCurrent'
        BY <1>12 DEF OcdInv, OcdTyped, DumpCurrent, Ocd!Part, Ocd!Regions, Ocd!ResetBegins,
         Ocd!Here
    <2>4. BackupChosen'
        BY <1>12 DEF OcdInv, OcdTyped, BackupChosen, SessionNamed, Ocd!ResetBegins, Ocd!Here
    <2>5. SessionNamed'
        BY <1>12 DEF OcdInv, OcdTyped, SessionNamed, Halts, Ocd!ResetBegins, Ocd!Here
    <2>6. ReportHonest'
        BY <1>12 DEF OcdInv, OcdTyped, BackupChosen, SessionNamed, ReportHonest, Ocd!ClaimsHold,
         Ocd!StateHolds, Ocd!Part, Ocd!ResetBegins, Ocd!Here
    <2>7. QED
        BY <2>1, <2>2, <2>3, <2>4, <2>5, <2>6 DEF OcdInv
  <1>13. CASE Ocd!ResetEnds
    <2>1. OcdTyped'
        BY <1>13 DEF OcdInv, OcdTyped, OcdPlaces, Ocd!Regions, Ocd!ResetEnds, Ocd!Succeed,
         Ocd!Here
    <2>2. BackupsKept'
        BY <1>13 DEF OcdInv, OcdTyped, BackupsKept, DumpCurrent, Ocd!Regions, Ocd!ResetEnds,
         Ocd!Succeed, Ocd!Here
    <2>3. DumpCurrent'
        BY <1>13 DEF OcdInv, OcdTyped, DumpCurrent, Ocd!Part, Ocd!Regions, Ocd!ResetEnds,
         Ocd!Succeed, Ocd!Here
    <2>4. BackupChosen'
        BY <1>13 DEF OcdInv, OcdTyped, BackupChosen, SessionNamed, Ocd!ResetEnds, Ocd!Succeed,
         Ocd!Here
    <2>5. SessionNamed'
        BY <1>13 DEF OcdInv, OcdTyped, SessionNamed, Halts, Ocd!ResetEnds, Ocd!Succeed, Ocd!Here
    <2>6. ReportHonest'
        BY <1>13 DEF OcdInv, OcdTyped, BackupChosen, SessionNamed, ReportHonest, Ocd!ClaimsHold,
         Ocd!StateHolds, Ocd!Part, Ocd!ResetEnds, Ocd!Succeed, Ocd!Here
    <2>7. QED
        BY <2>1, <2>2, <2>3, <2>4, <2>5, <2>6 DEF OcdInv
  <1>14. CASE Ocd!GdbServer
    <2>1. OcdTyped'
        BY <1>14 DEF OcdInv, OcdTyped, OcdPlaces, Ocd!Regions, Ocd!GdbServer
    <2>2. BackupsKept'
        BY <1>14 DEF OcdInv, OcdTyped, BackupsKept, DumpCurrent, Ocd!Regions, Ocd!GdbServer
    <2>3. DumpCurrent'
        BY <1>14 DEF OcdInv, OcdTyped, DumpCurrent, Ocd!Part, Ocd!Regions, Ocd!GdbServer
    <2>4. BackupChosen'
        BY <1>14 DEF OcdInv, OcdTyped, BackupChosen, SessionNamed, Ocd!GdbServer
    <2>5. SessionNamed'
        BY <1>14 DEF OcdInv, OcdTyped, SessionNamed, Halts, Ocd!GdbServer
    <2>6. ReportHonest'
        BY <1>14 DEF OcdInv, OcdTyped, BackupChosen, SessionNamed, ReportHonest, Ocd!ClaimsHold,
         Ocd!StateHolds, Ocd!Part, Ocd!GdbServer
    <2>7. QED
        BY <2>1, <2>2, <2>3, <2>4, <2>5, <2>6 DEF OcdInv
  <1>15. CASE Ocd!GdbHalts
    <2>1. OcdTyped'
        BY <1>15 DEF OcdInv, OcdTyped, OcdPlaces, Ocd!Regions, Ocd!GdbHalts, Ocd!Here
    <2>2. BackupsKept'
        BY <1>15 DEF OcdInv, OcdTyped, BackupsKept, DumpCurrent, Ocd!Regions, Ocd!GdbHalts,
         Ocd!Here
    <2>3. DumpCurrent'
        BY <1>15 DEF OcdInv, OcdTyped, DumpCurrent, Ocd!Part, Ocd!Regions, Ocd!GdbHalts,
         Ocd!Here
    <2>4. BackupChosen'
        BY <1>15 DEF OcdInv, OcdTyped, BackupChosen, SessionNamed, Ocd!GdbHalts, Ocd!Here
    <2>5. SessionNamed'
        BY <1>15 DEF OcdInv, OcdTyped, SessionNamed, Halts, Ocd!GdbHalts, Ocd!Here
    <2>6. ReportHonest'
        BY <1>15 DEF OcdInv, OcdTyped, BackupChosen, SessionNamed, ReportHonest, Ocd!ClaimsHold,
         Ocd!StateHolds, Ocd!Part, Ocd!GdbHalts, Ocd!Here
    <2>7. QED
        BY <2>1, <2>2, <2>3, <2>4, <2>5, <2>6 DEF OcdInv
  <1>16. CASE Ocd!GdbResumes
    <2>1. OcdTyped'
        BY <1>16 DEF OcdInv, OcdTyped, OcdPlaces, Ocd!Regions, Ocd!GdbResumes, Ocd!Succeed,
         Ocd!Here
    <2>2. BackupsKept'
        BY <1>16 DEF OcdInv, OcdTyped, BackupsKept, DumpCurrent, Ocd!Regions, Ocd!GdbResumes,
         Ocd!Succeed, Ocd!Here
    <2>3. DumpCurrent'
        BY <1>16 DEF OcdInv, OcdTyped, DumpCurrent, Ocd!Part, Ocd!Regions, Ocd!GdbResumes,
         Ocd!Succeed, Ocd!Here
    <2>4. BackupChosen'
        BY <1>16 DEF OcdInv, OcdTyped, BackupChosen, SessionNamed, Ocd!GdbResumes, Ocd!Succeed,
         Ocd!Here
    <2>5. SessionNamed'
        BY <1>16 DEF OcdInv, OcdTyped, SessionNamed, Halts, Ocd!GdbResumes, Ocd!Succeed,
         Ocd!Here
    <2>6. ReportHonest'
        BY <1>16 DEF OcdInv, OcdTyped, BackupChosen, SessionNamed, ReportHonest, Ocd!ClaimsHold,
         Ocd!StateHolds, Ocd!Part, Ocd!GdbResumes, Ocd!Succeed, Ocd!Here
    <2>7. QED
        BY <2>1, <2>2, <2>3, <2>4, <2>5, <2>6 DEF OcdInv
  <1>17. CASE Ocd!Fail
    <2>1. OcdTyped'
        BY <1>17 DEF OcdInv, OcdTyped, OcdPlaces, Ocd!Regions, Ocd!Fail
    <2>2. BackupsKept'
        BY <1>17 DEF OcdInv, OcdTyped, BackupsKept, DumpCurrent, Ocd!Regions, Ocd!Fail
    <2>3. DumpCurrent'
        BY <1>17 DEF OcdInv, OcdTyped, DumpCurrent, Ocd!Part, Ocd!Regions, Ocd!Fail
    <2>4. BackupChosen'
        BY <1>17 DEF OcdInv, OcdTyped, BackupChosen, SessionNamed, Ocd!Fail
    <2>5. SessionNamed'
        BY <1>17 DEF OcdInv, OcdTyped, SessionNamed, Halts, Ocd!Fail
    <2>6. ReportHonest'
      <3>1. /\ ocdPc # "idle" /\ ocdPc' = "idle" /\ UNCHANGED <<ocdMemory, cpu, reported>>
            /\ ocdReport' = [ocdReport EXCEPT !.status = "failed"]
          BY <1>17 DEF Ocd!Fail
      <3>2. /\ ocdReport'.claim = "none" /\ ocdReport'.state = ocdReport.state
            /\ ocdReport.state # "running"
          BY <3>1 DEF OcdInv, OcdTyped, ReportHonest
      <3>3. ocdReport.state = "halted" => cpu[reported] = "halted"
          BY <3>1 DEF OcdInv, ReportHonest, SessionNamed, Halts
      <3>4. QED
          BY <3>1, <3>2, <3>3 DEF ReportHonest, Ocd!ClaimsHold, Ocd!StateHolds
    <2>7. QED
        BY <2>1, <2>2, <2>3, <2>4, <2>5, <2>6 DEF OcdInv
  <1>18. CASE Ocd!Swap
    <2>1. OcdTyped'
        BY <1>18 DEF OcdInv, OcdTyped, OcdPlaces, Ocd!Regions, Ocd!Swap, Ocd!InSession
    <2>2. BackupsKept'
        BY <1>18 DEF OcdInv, OcdTyped, BackupsKept, DumpCurrent, Ocd!Regions, Ocd!Swap,
         Ocd!InSession
    <2>3. DumpCurrent'
        BY <1>18 DEF OcdInv, OcdTyped, DumpCurrent, Ocd!Part, Ocd!Regions, Ocd!Swap,
         Ocd!InSession
    <2>4. BackupChosen'
        BY <1>18 DEF OcdInv, OcdTyped, BackupChosen, SessionNamed, Ocd!Swap, Ocd!InSession
    <2>5. SessionNamed'
        BY <1>18 DEF OcdInv, OcdTyped, SessionNamed, Halts, Ocd!Swap, Ocd!InSession
    <2>6. ReportHonest'
        BY <1>18 DEF OcdInv, OcdTyped, BackupChosen, SessionNamed, ReportHonest, Ocd!ClaimsHold,
         Ocd!StateHolds, Ocd!Part, Ocd!Swap, Ocd!InSession
    <2>7. QED
        BY <2>1, <2>2, <2>3, <2>4, <2>5, <2>6 DEF OcdInv
  <1>19. QED
      BY <1>1, <1>2, <1>3, <1>4, <1>5, <1>6, <1>7, <1>8, <1>9, <1>10, <1>11, <1>12, <1>13,
         <1>14, <1>15, <1>16, <1>17, <1>18
         DEF Ocd!Next, Ocd!Command

\* A preparation or a build keeps it, whichever check fails and wherever west is stopped
\* (reference.py).
LEMMA ReferenceStep ==
  ASSUME ReferenceInv, Reference!Next
  PROVE  ReferenceInv'
  <1> USE DEF ReferenceInv, OneAtATime, ReceiptRead, BuildFromReceipt, BuildPlaces,
      Reference!ManifestOfBuild, Reference!BindsToolchain, Reference!BindsModules,
      Reference!products, Reference!prepareVars
  <1>1. CASE Reference!Checkout \/ Reference!Edit \/ Reference!Install
      BY <1>1 DEF Reference!Checkout, Reference!Edit, Reference!Install, Reference!Idle,
         Reference!buildVars
  <1>2. CASE Reference!PrepareStart
      BY <1>2 DEF Reference!PrepareStart, Reference!sources, Reference!buildVars
  <1>3. CASE Reference!PrepareEnd
      BY <1>3 DEF Reference!PrepareEnd, Reference!sources, Reference!buildVars
  <1>4. CASE Reference!BuildStart
      BY <1>4 DEF Reference!BuildStart, Reference!sources
  <1>5. CASE Reference!LoadReceipt
      BY <1>5 DEF Reference!LoadReceipt, Reference!ReceiptValid, Reference!sources
  <1>6. CASE Reference!HashReceipt
      BY <1>6 DEF Reference!HashReceipt, Reference!sources
  <1>7. CASE Reference!WestConfigure
      BY <1>7 DEF Reference!WestConfigure, Reference!sources
  <1>8. CASE Reference!WestCompile
      BY <1>8 DEF Reference!WestCompile, Reference!sources
  <1>9. CASE Reference!Timeout
      BY <1>9 DEF Reference!Timeout, Reference!sources
  <1>10. CASE Reference!WriteManifest
      BY <1>10 DEF Reference!WriteManifest, Reference!ExitOk, Reference!ImageOk,
         Reference!sources
  <1>11. CASE Reference!Raise
      BY <1>11 DEF Reference!Raise, Reference!sources
  <1>12. QED
      BY <1>1, <1>2, <1>3, <1>4, <1>5, <1>6, <1>7, <1>8, <1>9, <1>10, <1>11
         DEF Reference!Next

\* A set of natural numbers that is not empty has a least element.
LEMMA LeastNatural ==
  ASSUME NEW S, S \subseteq Nat, S # {}
  PROVE  \E x \in S : \A y \in S : x <= y
  <1> DEFINE R == {ss \in Nat \X Nat : ss[1] < ss[2]}
  <1>1. IsWellFoundedOn(R, Nat)
      BY NatLessThanWellFounded DEF OpToRel
  <1>2. PICK x \in S : \A y \in S : <<y, x>> \notin R
      BY <1>1, WFMin
  <1>3. ASSUME NEW y \in S PROVE  x <= y
    <2>1. x \in Nat /\ y \in Nat
        OBVIOUS
    <2>2. y < x => <<y, x>> \in R
        BY <2>1
    <2> HIDE DEF R
    <2>3. QED
        BY <1>2, <2>1, <2>2
  <1>4. QED
      BY <1>2, <1>3

\* What the audit takes for the next address is the least one (sorted()).
LEMMA SetMinIsLeast ==
  ASSUME NEW S, S \subseteq Nat, S # {}
  PROVE  Hex!SetMin(S) \in S /\ \A y \in S : Hex!SetMin(S) <= y
  BY LeastNatural DEF Hex!SetMin

\* The records of a file are of one of the kinds that parse_ihex() knows.
LEMMA RecordKinds ==
  ASSUME HexTyped, NEW i \in 1..Len(records)
  PROVE  \/ /\ IsData(i) /\ records[i].offset \in Nat
            /\ records[i].payload \in Seq(Nat) /\ records[i].payload # <<>>
         \/ records[i].kind \in {"segment", "linear"} /\ records[i].base \in 0..1
         \/ records[i].kind \in {"start", "eof"}
  <1>1. records[i] \in Hex!Records
      BY DEF HexTyped
  <1>2. Payloads \subseteq Seq(Nat) \ {<<>>} /\ Bank \in Nat
      BY CommandsAssumption DEF Hex!ConstantsOk
  <1>3. QED
      BY <1>1, <1>2 DEF Hex!Records, Hex!DataRecords, Hex!BaseRecords, IsData

BaseOf(r) == IF r.kind = "segment" THEN r.base * (Bank \div 2) ELSE r.base * Bank

\* A base is an address.
LEMMA BaseIsNatural ==
  ASSUME NEW r, r.base \in 0..1
  PROVE  BaseOf(r) \in Nat
  <1>1. Bank \in Nat /\ Bank \div 2 \in Nat
      BY CommandsAssumption DEF Hex!ConstantsOk
  <1>2. CASE r.base = 0
      BY <1>1, <1>2 DEF BaseOf
  <1>3. CASE r.base = 1
      BY <1>1, <1>3 DEF BaseOf
  <1>4. QED
      BY <1>2, <1>3

\* A base record replaces the base, every other one keeps it.
LEMMA BaseMoves ==
  /\ Hex!BaseAt(1) = 0
  /\ \A i \in Nat \ {0} :
        Hex!BaseAt(i + 1) = IF Hex!IsBase(i) THEN BaseOf(records[i]) ELSE Hex!BaseAt(i)
  <1>1. Hex!BaseAt(1) = 0
      BY DEF Hex!BaseAt
  <1>2. ASSUME NEW i \in Nat \ {0}, Hex!IsBase(i)
        PROVE  Hex!BaseAt(i + 1) = BaseOf(records[i])
    <2> DEFINE before == {j \in 1..((i + 1) - 1) : Hex!IsBase(j)}
    <2>1. i \in before /\ \A m \in before : m \in Nat /\ m <= i
        BY <1>2
    <2>2. (CHOOSE j \in before : \A m \in before : m <= j) = i
        BY <2>1
    <2>3. before # {}
        BY <2>1
    <2>4. Hex!BaseAt(i + 1) =
              IF before = {} THEN 0
              ELSE LET r == records[CHOOSE j \in before : \A m \in before : m <= j]
                   IN  BaseOf(r)
        BY DEF Hex!BaseAt, BaseOf
    <2>5. QED
        BY <2>2, <2>3, <2>4
  <1>3. ASSUME NEW i \in Nat \ {0}, ~Hex!IsBase(i)
        PROVE  Hex!BaseAt(i + 1) = Hex!BaseAt(i)
    <2> DEFINE before(x) == {j \in 1..(x - 1) : Hex!IsBase(j)}
               Last(S) == records[CHOOSE j \in S : \A m \in S : m <= j]
    <2>1. before(i + 1) = before(i)
        BY <1>3
    <2>2. \A x : Hex!BaseAt(x) = IF before(x) = {} THEN 0 ELSE BaseOf(Last(before(x)))
        BY DEF Hex!BaseAt, BaseOf
    <2> HIDE DEF before, Last
    <2>3. QED
        BY <2>1, <2>2
  <1>4. QED
      BY <1>1, <1>2, <1>3

\* The bytes of a file, byte by byte.
LEMMA BytesWritten ==
  ASSUME HexTyped
  PROVE  /\ \A w : w \in Hex!Written <=>
              \E i \in 1..Len(records) :
                  IsData(i) /\ \E n \in 1..Len(records[i].payload) :
                      w = <<Place(i, n), records[i].payload[n]>>
         /\ \A a : a \in Hex!Addresses <=>
              \E i \in 1..Len(records) :
                  IsData(i) /\ \E n \in 1..Len(records[i].payload) : a = Place(i, n)
  <1>1. DOMAIN records = 1..Len(records)
      BY DEF HexTyped
  <1>2. \A i \in Hex!DataAt : DOMAIN records[i].payload = 1..Len(records[i].payload)
      BY <1>1, RecordKinds DEF Hex!DataAt, IsData
  <1>3. \A w : w \in Hex!Written <=>
            \E i \in 1..Len(records) :
                IsData(i) /\ \E n \in 1..Len(records[i].payload) :
                    w = <<Place(i, n), records[i].payload[n]>>
      BY <1>1, <1>2 DEF Hex!Written, Hex!DataAt, IsData, Place
  <1>4. \A a : a \in Hex!Addresses <=> \E w \in Hex!Written : a = w[1]
      BY DEF Hex!Addresses
  <1>5. ASSUME NEW a
        PROVE  a \in Hex!Addresses <=>
                   \E i \in 1..Len(records) :
                       IsData(i) /\ \E n \in 1..Len(records[i].payload) : a = Place(i, n)
    <2>1. CASE a \in Hex!Addresses
      <3>1. PICK w \in Hex!Written : a = w[1]
          BY <1>4, <2>1
      <3>2. PICK i \in 1..Len(records) :
                IsData(i) /\ \E n \in 1..Len(records[i].payload) :
                    w = <<Place(i, n), records[i].payload[n]>>
          BY <1>3
      <3>3. QED
          BY <2>1, <3>1, <3>2
    <2>2. ASSUME NEW i \in 1..Len(records), IsData(i), NEW n \in 1..Len(records[i].payload),
                 a = Place(i, n)
          PROVE  a \in Hex!Addresses
      <3>1. <<Place(i, n), records[i].payload[n]>> \in Hex!Written
          BY <1>3, <2>2
      <3>2. QED
          BY <1>4, <2>2, <3>1
    <2>3. QED
        BY <2>1, <2>2
  <1>6. QED
      BY <1>3, <1>5

\* The audit keeps what it knows while it reads a record, and rejects a faulty file only
\* (parse_ihex).
LEMMA ParseStep ==
  ASSUME HexInv, Hex!Parse
  PROVE  HexInv'
  <1>1. /\ k \in Nat /\ k + 1 \in 1..Len(records) /\ k' = k + 1 /\ hexPc = "parse"
        /\ UNCHANGED <<records, todo, start, previous, hexRanges>> /\ eof \in BOOLEAN
      BY DEF HexInv, HexTyped, Hex!Parse
  <1>2. /\ \A i : Hex!BaseAt(i)' = Hex!BaseAt(i) /\ IsData(i)' = IsData(i)
        /\ \A i, n : Place(i, n)' = Place(i, n)
        /\ Hex!Faulty' = Hex!Faulty
      BY <1>1 DEF Hex!BaseAt, Hex!IsBase, IsData, Place, Hex!Faulty, Hex!Written,
         Hex!Addresses, Hex!DataAt
  <1>3. /\ base = Hex!BaseAt(k + 1) /\ base \in Nat
        /\ Hex!BaseAt(k + 2) = IF Hex!IsBase(k + 1) THEN BaseOf(records[k + 1]) ELSE base
        /\ Hex!BaseAt(k + 2) \in Nat
    <2>1. base = Hex!BaseAt(k + 1) /\ base \in Nat
        BY <1>1 DEF HexInv, RecordsRead
    <2>2. Hex!BaseAt((k + 1) + 1) =
              IF Hex!IsBase(k + 1) THEN BaseOf(records[k + 1]) ELSE base
      <3>1. k + 1 \in Nat \ {0}
          BY <1>1
      <3>2. QED
          BY <2>1, <3>1, BaseMoves
    <2>3. Hex!IsBase(k + 1) => BaseOf(records[k + 1]) \in Nat
        BY <1>1, RecordKinds, BaseIsNatural DEF HexInv, Hex!IsBase, IsData
    <2>4. (k + 1) + 1 = k + 2
        BY <1>1
    <2>5. QED
        BY <2>1, <2>2, <2>3, <2>4
  <1>4. \A i \in 1..(k' + 1) : Hex!BaseAt(i)' \in Nat
      BY <1>1, <1>2, <1>3 DEF HexInv, RecordsRead
  <1>5. \/ eof /\ Hex!Reject
        \/ ~eof /\ IsData(k + 1) /\ Hex!Data(records[k + 1])
        \/ ~eof /\ Hex!IsBase(k + 1) /\ Hex!SetBase(records[k + 1])
        \/ ~eof /\ records[k + 1].kind = "start" /\ UNCHANGED <<hexMemory, base, eof, hexPc>>
        \/ /\ ~eof /\ records[k + 1].kind = "eof" /\ eof' = TRUE
           /\ UNCHANGED <<hexMemory, base, hexPc>>
      BY <1>1, RecordKinds DEF HexInv, Hex!Parse, Hex!Accept, IsData, Hex!IsBase
  \* A rejection.
  <1>6. ASSUME hexPc' = "rejected", UNCHANGED <<hexMemory, base, eof>>, Hex!Faulty
        PROVE  HexInv'
    <2>1. HexTyped' /\ RecordsRead'
        BY <1>1, <1>4, <1>6 DEF HexInv, HexTyped, RecordsRead
    <2>2. MemoryRead' /\ RangesScanned'
        BY <1>1, <1>6 DEF HexInv, MemoryRead, RangesScanned
    <2>3. Audited'
        BY <1>2, <1>6 DEF Audited, Hex!RejectedIsWrong
    <2>4. QED
        BY <2>1, <2>2, <2>3 DEF HexInv
  \* A record that is accepted.
  <1>7. ASSUME hexPc' = "parse", ~eof, eof' \in BOOLEAN,
               eof' <=> records[k + 1].kind = "eof",
               base' = Hex!BaseAt(k + 2), MemoryRead'
        PROVE  HexInv'
    <2>1. HexTyped'
        BY <1>1, <1>7 DEF HexInv, HexTyped
    <2>2. \A i \in 1..k' : records'[i].kind = "eof" <=> eof' /\ i = k'
      <3>1. \A i \in 1..k : records[i].kind # "eof"
          BY <1>1, <1>7 DEF HexInv, RecordsRead
      <3>2. eof' <=> records[k + 1].kind = "eof"
          BY <1>7
      <3>3. QED
          BY <1>1, <3>1, <3>2
    <2>3. base' = Hex!BaseAt(k + 1)'
      <3>1. k' + 1 = k + 2
          BY <1>1
      <3>2. Hex!BaseAt(k + 1)' = Hex!BaseAt(k' + 1)
          BY <1>2
      <3>3. QED
          BY <1>7, <3>1, <3>2
    <2>4. RecordsRead'
        BY <1>1, <1>4, <1>7, <2>2, <2>3 DEF RecordsRead
    <2>5. RangesScanned'
        BY <1>1, <1>7 DEF HexInv, RangesScanned
    <2>6. Audited'
        BY <1>7 DEF Audited, Hex!RejectedIsWrong
    <2>7. QED
        BY <1>7, <2>1, <2>4, <2>5, <2>6 DEF HexInv
  \* A record without data leaves the map as it is.
  <1>8. ASSUME UNCHANGED <<hexMemory, hexPc>>, ~IsData(k + 1)
        PROVE  MemoryRead'
      BY <1>1, <1>2, <1>8 DEF HexInv, MemoryRead
  <1>9. CASE eof /\ Hex!Reject
    <2>1. k \in 1..Len(records) /\ records[k].kind = "eof" /\ k # Len(records)
        BY <1>1, <1>9 DEF HexInv, HexTyped, RecordsRead
    <2>2. Hex!Faulty
        BY <2>1 DEF HexInv, HexTyped, Hex!Faulty
    <2>3. QED
        BY <1>6, <1>9, <2>2 DEF Hex!Reject
  <1>10. CASE ~eof /\ IsData(k + 1) /\ Hex!Data(records[k + 1])
    <2> DEFINE r == records[k + 1]
    <2>1. /\ r.offset \in Nat /\ r.payload \in Seq(Nat) /\ Len(r.payload) >= 1
          /\ DOMAIN r.payload = 1..Len(r.payload) /\ r.kind = "data"
        BY <1>1, <1>10, RecordKinds DEF HexInv, IsData
    <2>2. \A n \in 1..Len(r.payload) :
              /\ Place(k + 1, n) = base + r.offset + n - 1
              /\ Place(k + 1, n) \in Nat
              /\ Place(k + 1, n) - base - r.offset + 1 = n
        BY <1>1, <1>3, <2>1, SMTT(30) DEF Place
    <2>3. \A a : a \in Hex!Span(r, base) <=>
                     \E n \in 1..Len(r.payload) : a = Place(k + 1, n)
        BY <2>1, <2>2 DEF Hex!Span
    <2>4. CASE base + r.offset + Len(r.payload) > Limit
      <3>1. Place(k + 1, Len(r.payload)) \in Hex!Addresses
          BY <1>1, <1>10, <2>1, BytesWritten DEF HexInv
      <3>2. Place(k + 1, Len(r.payload)) >= Limit
        <4>1. Len(r.payload) \in 1..Len(r.payload) /\ Limit \in Nat
            BY <2>1, CommandsAssumption DEF Hex!ConstantsOk
        <4>2. Place(k + 1, Len(r.payload)) = base + r.offset + Len(r.payload) - 1
            BY <2>2, <4>1
        <4>3. QED
            BY <1>3, <2>1, <2>4, <4>1, <4>2
      <3>3. Hex!Faulty
          BY <3>1, <3>2 DEF Hex!Faulty
      <3>4. QED
          BY <1>6, <1>10, <2>4, <3>3 DEF Hex!Data, Hex!Reject
    <2>5. CASE \E a \in Hex!Span(r, base) \cap DOMAIN hexMemory :
                  hexMemory[a] # r.payload[a - base - r.offset + 1]
      <3>1. PICK a \in Hex!Span(r, base) \cap DOMAIN hexMemory :
                  hexMemory[a] # r.payload[a - base - r.offset + 1]
          BY <2>5
      <3>2. PICK n \in 1..Len(r.payload) : a = Place(k + 1, n)
          BY <2>3, <3>1
      <3>3. hexMemory[a] # r.payload[n]
          BY <2>2, <3>1, <3>2
      <3>4. PICK i \in 1..k : /\ IsData(i)
                              /\ \E m \in 1..Len(records[i].payload) : a = Place(i, m)
          BY <1>1, <3>1 DEF HexInv, MemoryRead
      <3>5. PICK m \in 1..Len(records[i].payload) : a = Place(i, m)
          BY <3>4
      <3>6. hexMemory[a] = records[i].payload[m]
          BY <1>1, <3>4, <3>5 DEF HexInv, MemoryRead
      <3>7. /\ <<a, r.payload[n]>> \in Hex!Written
            /\ <<a, records[i].payload[m]>> \in Hex!Written
        <4>1. HexTyped /\ i \in 1..Len(records) /\ k + 1 \in 1..Len(records)
            BY <1>1, <3>4 DEF HexInv, HexTyped
        <4>2. <<a, r.payload[n]>> \in Hex!Written
            BY <1>10, <3>2, <4>1, BytesWritten
        <4>3. <<a, records[i].payload[m]>> \in Hex!Written
            BY <3>4, <3>5, <4>1, BytesWritten
        <4>4. QED
            BY <4>2, <4>3
      <3>8. Hex!Faulty
          BY <3>3, <3>6, <3>7 DEF Hex!Faulty
      <3>9. QED
          BY <1>6, <1>10, <2>5, <3>8 DEF Hex!Data, Hex!Reject
    <2>6. CASE /\ ~(base + r.offset + Len(r.payload) > Limit)
               /\ ~(\E a \in Hex!Span(r, base) \cap DOMAIN hexMemory :
                        hexMemory[a] # r.payload[a - base - r.offset + 1])
      <3>1. /\ hexMemory' = [a \in DOMAIN hexMemory \cup Hex!Span(r, base) |->
                                IF a \in DOMAIN hexMemory THEN hexMemory[a]
                                ELSE r.payload[a - base - r.offset + 1]]
            /\ UNCHANGED <<base, eof, hexPc>>
          BY <1>10, <2>6 DEF Hex!Data, Hex!Accept
      <3>2. \A n \in 1..Len(r.payload) :
                /\ Place(k + 1, n) \in DOMAIN hexMemory'
                /\ hexMemory'[Place(k + 1, n)] = r.payload[n]
        <4> SUFFICES ASSUME NEW n \in 1..Len(r.payload)
                     PROVE  /\ Place(k + 1, n) \in DOMAIN hexMemory'
                            /\ hexMemory'[Place(k + 1, n)] = r.payload[n]
            OBVIOUS
        <4>1. Place(k + 1, n) \in Hex!Span(r, base)
            BY <2>3
        <4>2. Place(k + 1, n) - base - r.offset + 1 = n
            BY <2>2
        <4>3. QED
            BY <2>6, <3>1, <4>1, <4>2
      <3>3. \A a \in DOMAIN hexMemory : a \in DOMAIN hexMemory' /\ hexMemory'[a] = hexMemory[a]
          BY <3>1
      <3>4. \A i \in 1..k' : IsData(i)' =>
                \A n \in 1..Len(records'[i].payload) :
                    /\ Place(i, n)' \in DOMAIN hexMemory'
                    /\ hexMemory'[Place(i, n)'] = records'[i].payload[n]
        <4> SUFFICES ASSUME NEW i \in 1..(k + 1), IsData(i),
                            NEW n \in 1..Len(records[i].payload)
                     PROVE  /\ Place(i, n) \in DOMAIN hexMemory'
                            /\ hexMemory'[Place(i, n)] = records[i].payload[n]
            BY <1>1, <1>2
        <4>1. CASE i = k + 1
            BY <3>2, <4>1
        <4>2. CASE i \in 1..k
            BY <1>1, <3>3, <4>2 DEF HexInv, MemoryRead
        <4>3. QED
            BY <1>1, <4>1, <4>2
      <3>5. \A a \in DOMAIN hexMemory' :
                /\ a \in Nat /\ a < Limit
                /\ \E i \in 1..k' : /\ IsData(i)'
                                    /\ \E n \in 1..Len(records'[i].payload) : a = Place(i, n)'
        <4> SUFFICES ASSUME NEW a \in DOMAIN hexMemory'
                     PROVE  /\ a \in Nat /\ a < Limit
                            /\ \E i \in 1..(k + 1) :
                                  /\ IsData(i)
                                  /\ \E n \in 1..Len(records[i].payload) : a = Place(i, n)
            BY <1>1, <1>2
        <4>1. CASE a \in DOMAIN hexMemory
            BY <1>1, <4>1 DEF HexInv, MemoryRead
        <4>2. CASE a \in Hex!Span(r, base)
          <5>1. PICK n \in 1..Len(r.payload) : a = Place(k + 1, n)
              BY <2>3, <4>2
          <5>2. a \in Nat /\ a < Limit
            <6>1. n \in Nat /\ n <= Len(r.payload) /\ Limit \in Nat /\ Len(r.payload) \in Nat
                BY <2>1, CommandsAssumption DEF Hex!ConstantsOk
            <6>2. a = base + r.offset + n - 1 /\ a \in Nat
                BY <2>2, <5>1
            <6>3. base + r.offset + Len(r.payload) <= Limit
                BY <1>3, <2>1, <2>6, <6>1
            <6>4. QED
                BY <1>3, <2>1, <6>1, <6>2, <6>3, SMTT(30)
          <5>3. QED
              BY <1>1, <1>10, <5>1, <5>2
        <4>3. QED
            BY <3>1, <4>1, <4>2
      <3>6. MemoryRead'
          BY <3>4, <3>5 DEF MemoryRead
      <3>7. base' = Hex!BaseAt(k + 2) /\ hexPc' = "parse" /\ ~eof'
          BY <1>1, <1>3, <1>10, <2>1, <3>1 DEF Hex!IsBase
      <3>8. eof' \in BOOLEAN /\ r.kind # "eof"
          BY <1>1, <2>1, <3>1
      <3>9. QED
          BY <1>7, <1>10, <3>6, <3>7, <3>8
    <2>7. QED
        BY <2>4, <2>5, <2>6
  <1>11. CASE ~eof /\ Hex!IsBase(k + 1) /\ Hex!SetBase(records[k + 1])
    <2>1. UNCHANGED <<hexMemory, eof, hexPc>> /\ base' = BaseOf(records[k + 1])
        BY <1>11 DEF Hex!SetBase, Hex!Accept, BaseOf
    <2>2. ~IsData(k + 1) /\ records[k + 1].kind # "eof"
        BY <1>11 DEF Hex!IsBase, IsData
    <2>3. QED
        BY <1>1, <1>3, <1>7, <1>8, <1>11, <2>1, <2>2
  <1>12. CASE /\ ~eof /\ records[k + 1].kind = "start"
              /\ UNCHANGED <<hexMemory, base, eof, hexPc>>
    <2>1. ~IsData(k + 1) /\ ~Hex!IsBase(k + 1) /\ records[k + 1].kind # "eof"
        BY <1>12 DEF Hex!IsBase, IsData
    <2>2. QED
        BY <1>1, <1>3, <1>7, <1>8, <1>12, <2>1
  <1>13. CASE /\ ~eof /\ records[k + 1].kind = "eof" /\ eof' = TRUE
              /\ UNCHANGED <<hexMemory, base, hexPc>>
    <2>1. ~IsData(k + 1) /\ ~Hex!IsBase(k + 1)
        BY <1>13 DEF Hex!IsBase, IsData
    <2>2. QED
        BY <1>1, <1>3, <1>7, <1>8, <1>13, <2>1
  <1>14. QED
      BY <1>5, <1>9, <1>10, <1>11, <1>12, <1>13

\* The end of the file: the scan begins with the least address, unless the file has no
\* end record or no data.
LEMMA EndOfRecordsStep ==
  ASSUME HexInv, Hex!EndOfRecords
  PROVE  HexInv'
  <1>1. /\ hexPc = "parse" /\ k = Len(records) /\ k \in 1..Len(records)
        /\ UNCHANGED <<records, k, hexMemory, base, eof, hexRanges>>
      BY DEF HexInv, HexTyped, Hex!EndOfRecords
  <1>2. /\ \A i : Hex!BaseAt(i)' = Hex!BaseAt(i) /\ IsData(i)' = IsData(i)
        /\ \A i, n : Place(i, n)' = Place(i, n)
        /\ Hex!Faulty' = Hex!Faulty /\ \A a : InRanges(a)' = InRanges(a)
      BY <1>1 DEF Hex!BaseAt, Hex!IsBase, IsData, Place, Hex!Faulty, Hex!Written,
         Hex!Addresses, Hex!DataAt, InRanges
  <1>3. ASSUME hexPc' \in {"scan", "rejected"} PROVE HexTyped' /\ MemoryRead'
      BY <1>1, <1>2, <1>3 DEF HexInv, HexTyped, MemoryRead
  <1>4. ASSUME hexPc' = "rejected", Hex!Faulty
        PROVE  HexInv'
    <2>1. RecordsRead'
        BY <1>1, <1>2, <1>4 DEF HexInv, RecordsRead
    <2>2. RangesScanned' /\ Audited'
        BY <1>1, <1>2, <1>4 DEF HexInv, RangesScanned, Audited, Hex!RejectedIsWrong
    <2>3. QED
        BY <1>3, <1>4, <2>1, <2>2 DEF HexInv
  <1>5. CASE ~eof
    <2>1. records[k].kind # "eof"
        BY <1>1, <1>5 DEF HexInv, RecordsRead
    <2>2. Hex!Faulty
        BY <1>1, <2>1 DEF HexInv, HexTyped, Hex!Faulty
    <2>3. QED
        BY <1>4, <1>5, <2>2 DEF Hex!EndOfRecords
  <1>6. CASE DOMAIN hexMemory = {}
    <2>1. ASSUME NEW w \in Hex!Written PROVE FALSE
      <3>1. PICK i \in 1..Len(records) :
                IsData(i) /\ \E n \in 1..Len(records[i].payload) :
                    w = <<Place(i, n), records[i].payload[n]>>
          BY BytesWritten DEF HexInv
      <3>2. \A n \in 1..Len(records[i].payload) : Place(i, n) \in DOMAIN hexMemory
          BY <1>1, <3>1 DEF HexInv, MemoryRead
      <3>3. QED
          BY <1>6, <3>1, <3>2
    <2>2. Hex!Faulty
        BY <2>1 DEF Hex!Faulty
    <2>3. QED
        BY <1>4, <1>6, <2>2 DEF Hex!EndOfRecords
  <1>7. CASE eof /\ DOMAIN hexMemory # {}
    <2>1. /\ start' = Hex!SetMin(DOMAIN hexMemory) /\ previous' = start'
          /\ todo' = DOMAIN hexMemory \ {start'} /\ hexPc' = "scan"
        BY <1>7 DEF Hex!EndOfRecords
    <2>2. DOMAIN hexMemory \subseteq Nat
        BY <1>1 DEF HexInv, MemoryRead
    <2>3. start' \in DOMAIN hexMemory /\ \A a \in DOMAIN hexMemory : start' <= a
        BY <1>7, <2>1, <2>2, SetMinIsLeast
    <2>4. hexRanges = <<>> /\ \A a : ~InRanges(a)
        BY <1>1 DEF HexInv, RangesScanned, InRanges
    <2>5. /\ \A a \in todo' : a \in Nat /\ previous' < a
          /\ \A a \in Nat : a \in DOMAIN hexMemory <=>
                  a \in todo' \/ (start' <= a /\ a <= previous')
        BY <2>1, <2>2, <2>3
    <2>6. RangesScanned'
        BY <1>1, <1>2, <2>1, <2>2, <2>3, <2>4, <2>5 DEF HexInv, RangesScanned
    <2>7. RecordsRead'
        BY <1>1, <1>2, <1>7, <2>1 DEF HexInv, RecordsRead
    <2>8. Audited'
        BY <2>1 DEF Audited, Hex!RejectedIsWrong
    <2>9. QED
        BY <1>3, <2>1, <2>6, <2>7, <2>8 DEF HexInv
  <1>8. QED
      BY <1>5, <1>6, <1>7

\* What the scan of the addresses leaves alone.
LEMMA FileStays ==
  ASSUME HexInv, UNCHANGED <<records, k, hexMemory, base, eof>>,
         hexPc \in {"scan", "check"},
         hexPc' \in {"scan", "check", "accepted", "rejected"}
  PROVE  /\ HexTyped' /\ RecordsRead' /\ MemoryRead'
         /\ \A i, n : Place(i, n)' = Place(i, n)
         /\ Hex!Faulty' = Hex!Faulty
  <1>1. /\ \A i : Hex!BaseAt(i)' = Hex!BaseAt(i) /\ IsData(i)' = IsData(i)
        /\ \A i, n : Place(i, n)' = Place(i, n)
        /\ Hex!Faulty' = Hex!Faulty
      BY DEF Hex!BaseAt, Hex!IsBase, IsData, Place, Hex!Faulty, Hex!Written,
         Hex!Addresses, Hex!DataAt
  <1>2. HexTyped'
      BY DEF HexInv, HexTyped
  <1>3. RecordsRead'
      BY <1>1 DEF HexInv, RecordsRead
  <1>4. MemoryRead'
      BY <1>1 DEF HexInv, MemoryRead
  <1>5. QED
      BY <1>1, <1>2, <1>3, <1>4

\* A range that is closed: it joins the others, in order and with its addresses.
LEMMA RangeCloses ==
  ASSUME RangesScanned, hexPc = "scan",
         hexRanges' = Append(hexRanges, <<start, previous + 1>>)
  PROVE  /\ hexRanges' \in Seq(Nat \X Nat) /\ Len(hexRanges') = Len(hexRanges) + 1
         /\ hexRanges' # <<>> /\ hexRanges'[Len(hexRanges')][2] = previous + 1
         /\ \A i \in 1..Len(hexRanges') : hexRanges'[i][1] < hexRanges'[i][2]
         /\ \A i \in 1..(Len(hexRanges') - 1) : hexRanges'[i][2] < hexRanges'[i + 1][1]
         /\ \A a \in Nat : InRanges(a)' <=> InRanges(a) \/ (start <= a /\ a <= previous)
  <1>1. /\ start \in Nat /\ previous \in Nat /\ start <= previous
        /\ hexRanges \in Seq(Nat \X Nat)
        /\ \A i \in 1..Len(hexRanges) : hexRanges[i][1] < hexRanges[i][2]
        /\ \A i \in 1..(Len(hexRanges) - 1) : hexRanges[i][2] < hexRanges[i + 1][1]
        /\ hexRanges # <<>> => hexRanges[Len(hexRanges)][2] < start
      BY DEF RangesScanned
  <1> DEFINE n == Len(hexRanges)
  <1>2. n \in Nat /\ (n > 0 => hexRanges # <<>>)
      BY <1>1
  <1>3. /\ hexRanges' \in Seq(Nat \X Nat) /\ Len(hexRanges') = n + 1
        /\ \A i \in 1..n : hexRanges'[i] = hexRanges[i]
        /\ hexRanges'[n + 1] = <<start, previous + 1>>
      BY <1>1
  <1>4. \A i \in 1..(n + 1) : hexRanges'[i][1] < hexRanges'[i][2]
      BY <1>1, <1>2, <1>3
  <1>5. \A i \in 1..n : hexRanges'[i][2] < hexRanges'[i + 1][1]
    <2> SUFFICES ASSUME NEW i \in 1..n
                 PROVE  hexRanges'[i][2] < hexRanges'[i + 1][1]
        OBVIOUS
    <2>1. CASE i = n
        BY <1>1, <1>2, <1>3, <2>1
    <2>2. CASE i \in 1..(n - 1)
      <3>1. i + 1 \in 1..n
          BY <1>2, <2>2
      <3>2. QED
          BY <1>1, <1>3, <2>2, <3>1
    <2>3. QED
        BY <1>2, <2>1, <2>2
  <1>6. \A a \in Nat : InRanges(a)' <=> InRanges(a) \/ (start <= a /\ a <= previous)
    <2>1. DOMAIN hexRanges = 1..n /\ DOMAIN hexRanges' = 1..(n + 1)
        BY <1>1, <1>3
    <2>2. ASSUME NEW a \in Nat, NEW i \in 1..(n + 1),
                 hexRanges'[i][1] <= a /\ a < hexRanges'[i][2]
          PROVE  InRanges(a) \/ (start <= a /\ a <= previous)
      <3>1. CASE i = n + 1
          BY <1>1, <1>3, <2>2, <3>1
      <3>2. CASE i \in 1..n
          BY <1>3, <2>1, <2>2, <3>2 DEF InRanges
      <3>3. QED
          BY <1>2, <3>1, <3>2
    <2>3. ASSUME NEW a \in Nat, NEW i \in 1..n,
                 hexRanges[i][1] <= a /\ a < hexRanges[i][2]
          PROVE  InRanges(a)'
      <3>1. i \in DOMAIN hexRanges' /\ hexRanges'[i] = hexRanges[i]
          BY <1>2, <1>3, <2>1
      <3>2. QED
          BY <2>3, <3>1 DEF InRanges
    <2>4. ASSUME NEW a \in Nat, start <= a, a <= previous
          PROVE  InRanges(a)'
      <3>1. n + 1 \in DOMAIN hexRanges'
          BY <1>2, <2>1
      <3>2. a < previous + 1
          BY <1>1, <2>4
      <3>3. QED
          BY <1>3, <2>4, <3>1, <3>2 DEF InRanges
    <2>5. QED
        BY <2>1, <2>2, <2>3, <2>4 DEF InRanges
  <1>7. QED
      BY <1>2, <1>3, <1>4, <1>5, <1>6, SMTT(30)

\* The scan takes the next address into the current range, or closes the range (_ranges).
LEMMA ScanStep ==
  ASSUME HexInv, Hex!Scan
  PROVE  HexInv'
  <1> DEFINE address == Hex!SetMin(todo)
  <1>1. /\ hexPc = "scan" /\ hexPc' = "scan" /\ todo # {}
        /\ UNCHANGED <<records, k, hexMemory, base, eof>>
        /\ previous' = address /\ todo' = todo \ {address}
      BY DEF Hex!Scan
  <1>2. /\ start \in Nat /\ previous \in Nat /\ start <= previous
        /\ todo \subseteq Nat /\ \A a \in todo : previous < a
        /\ \A a \in Nat : a \in DOMAIN hexMemory <=>
                              a \in todo \/ (start <= a /\ a <= previous) \/ InRanges(a)
      BY <1>1 DEF HexInv, RangesScanned
  <1>3. address \in todo /\ address \in Nat /\ \A a \in todo : address <= a
      BY <1>1, <1>2, SetMinIsLeast
  <1>4. previous < address /\ \A a \in todo' : a \in Nat /\ address < a
      BY <1>1, <1>2, <1>3
  <1>5. RangesScanned'
    <2>1. CASE address = previous + 1
      <3>1. UNCHANGED <<hexRanges, start>>
          BY <2>1 DEF Hex!Scan
      <3>2. \A a : InRanges(a)' = InRanges(a)
          BY <3>1 DEF InRanges
      <3>3. \A a \in Nat : start <= a /\ a <= address <=>
                              (start <= a /\ a <= previous) \/ a = address
          BY <1>2, <1>3, <2>1
      <3>4. \A a \in Nat : a \in DOMAIN hexMemory <=>
                              a \in todo' \/ (start <= a /\ a <= address) \/ InRanges(a)
          BY <1>1, <1>2, <1>3, <3>3
      <3>5. start <= address
          BY <1>2, <1>3, <1>4
      <3> HIDE DEF address
      <3>6. QED
          BY <1>1, <1>2, <1>3, <1>4, <3>1, <3>2, <3>4, <3>5 DEF HexInv, RangesScanned
    <2>2. CASE address # previous + 1
      <3>1. /\ hexRanges' = Append(hexRanges, <<start, previous + 1>>)
            /\ start' = address
          BY <2>2 DEF Hex!Scan
      <3>2. /\ hexRanges' \in Seq(Nat \X Nat) /\ Len(hexRanges') = Len(hexRanges) + 1
            /\ hexRanges' # <<>> /\ hexRanges'[Len(hexRanges')][2] = previous + 1
            /\ \A i \in 1..Len(hexRanges') : hexRanges'[i][1] < hexRanges'[i][2]
            /\ \A i \in 1..(Len(hexRanges') - 1) : hexRanges'[i][2] < hexRanges'[i + 1][1]
            /\ \A a \in Nat : InRanges(a)' <=> InRanges(a) \/ (start <= a /\ a <= previous)
          BY <1>1, <3>1, RangeCloses DEF HexInv
      <3>3. previous + 1 < address
          BY <1>2, <1>3, <1>4, <2>2
      <3>4. \A a \in Nat : a \in DOMAIN hexMemory <=>
                              a \in todo' \/ (address <= a /\ a <= address) \/ InRanges(a)'
          BY <1>1, <1>2, <1>3, <3>2
      <3> HIDE DEF address
      <3>5. QED
          BY <1>1, <1>3, <1>4, <3>1, <3>2, <3>3, <3>4 DEF RangesScanned
    <2>3. QED
        BY <2>1, <2>2
  <1>6. Audited'
      BY <1>1 DEF Audited, Hex!RejectedIsWrong
  <1>7. QED
      BY <1>1, <1>5, <1>6, FileStays DEF HexInv

\* The last range is closed at the end of the scan.
LEMMA EndOfScanStep ==
  ASSUME HexInv, Hex!EndOfScan
  PROVE  HexInv'
  <1>1. /\ hexPc = "scan" /\ hexPc' = "check" /\ todo = {}
        /\ hexRanges' = Append(hexRanges, <<start, previous + 1>>)
        /\ UNCHANGED <<records, k, hexMemory, base, eof, todo, start, previous>>
      BY DEF Hex!EndOfScan
  <1>2. /\ hexRanges' \in Seq(Nat \X Nat) /\ Len(hexRanges') = Len(hexRanges) + 1
        /\ \A i \in 1..Len(hexRanges') : hexRanges'[i][1] < hexRanges'[i][2]
        /\ \A i \in 1..(Len(hexRanges') - 1) : hexRanges'[i][2] < hexRanges'[i + 1][1]
        /\ \A a \in Nat : InRanges(a)' <=> InRanges(a) \/ (start <= a /\ a <= previous)
      BY <1>1, RangeCloses DEF HexInv
  <1>3. \A a \in Nat : a \in DOMAIN hexMemory <=> InRanges(a)'
      BY <1>1, <1>2 DEF HexInv, RangesScanned
  <1>4. RangesScanned'
      BY <1>1, <1>2, <1>3 DEF RangesScanned
  <1>5. Audited'
      BY <1>1 DEF Audited, Hex!RejectedIsWrong
  <1>6. QED
      BY <1>1, <1>4, <1>5, FileStays DEF HexInv

\* The bytes of a file that was read to its end are those of the map.
LEMMA MapIsFile ==
  ASSUME HexInv, hexPc \in {"scan", "check", "accepted"}
  PROVE  /\ \A w \in Hex!Written : w = <<w[1], hexMemory[w[1]]>> /\ w[1] \in DOMAIN hexMemory
         /\ Hex!Addresses = DOMAIN hexMemory
  <1>1. k = Len(records)
      BY DEF HexInv, RecordsRead
  <1>2. ASSUME NEW w \in Hex!Written
        PROVE  w = <<w[1], hexMemory[w[1]]>> /\ w[1] \in DOMAIN hexMemory
    <2>1. PICK i \in 1..Len(records) :
              IsData(i) /\ \E n \in 1..Len(records[i].payload) :
                  w = <<Place(i, n), records[i].payload[n]>>
        BY <1>2, BytesWritten DEF HexInv
    <2>2. PICK n \in 1..Len(records[i].payload) : w = <<Place(i, n), records[i].payload[n]>>
        BY <2>1
    <2>3. /\ Place(i, n) \in DOMAIN hexMemory
          /\ hexMemory[Place(i, n)] = records[i].payload[n]
        BY <1>1, <2>1, <2>2 DEF HexInv, MemoryRead
    <2>4. QED
        BY <2>2, <2>3
  <1>3. \A a : a \in Hex!Addresses <=> a \in DOMAIN hexMemory
    <2>1. \A a : a \in Hex!Addresses <=>
              \E i \in 1..Len(records) :
                  IsData(i) /\ \E n \in 1..Len(records[i].payload) : a = Place(i, n)
        BY BytesWritten DEF HexInv
    <2>2. QED
        BY <1>1, <2>1 DEF HexInv, MemoryRead
  <1>4. QED
      BY <1>2, <1>3

\* The comparison of the ranges accepts a file if all of its ranges are allowed
\* (require_allowed). A range that is not allowed has an address that is not, or two
\* neighbours that no allowed range has both.
LEMMA CheckStep ==
  ASSUME HexInv, Hex!Check
  PROVE  HexInv'
  <1>1. /\ hexPc = "check" /\ hexPc' \in {"accepted", "rejected"}
        /\ UNCHANGED <<records, k, hexMemory, base, eof, todo, start, previous, hexRanges>>
        /\ hexPc' = "accepted" <=> \A i \in DOMAIN hexRanges : Hex!RangeAllowed(hexRanges[i])
      BY DEF Hex!Check
  <1>2. \A a : InRanges(a)' = InRanges(a)
      BY <1>1 DEF InRanges
  <1>3. RangesScanned'
      BY <1>1, <1>2 DEF HexInv, RangesScanned
  <1>4. ASSUME NEW i \in DOMAIN hexRanges, ~Hex!RangeAllowed(hexRanges[i]), WindowsApart
        PROVE  Hex!Faulty
    <2> DEFINE s == hexRanges[i][1]
               e == hexRanges[i][2]
    <2>1. /\ hexRanges[i] \in Nat \X Nat /\ s \in Nat /\ e \in Nat /\ s < e
          /\ i \in 1..Len(hexRanges)
        BY DEF HexInv, RangesScanned
    <2>2. \A a \in Nat : s <= a /\ a < e => a \in Hex!Addresses
      <3>1. \A a \in Nat : InRanges(a) => a \in Hex!Addresses
          BY <1>1, MapIsFile DEF HexInv, RangesScanned
      <3>2. QED
          BY <3>1 DEF InRanges
    <2>3. /\ Limit \in Nat /\ Forbidden \subseteq Nat \X Nat /\ Allowlist \subseteq Nat \X Nat
          /\ \A f \in Forbidden : f[1] < f[2]
        BY CommandsAssumption DEF Hex!ConstantsOk
    <2> HIDE DEF s, e
    <2>4. CASE e > Limit
      <3>1. e - 1 \in Nat /\ s <= e - 1 /\ e - 1 < e /\ e - 1 >= Limit
          BY <2>1, <2>3, <2>4
      <3>2. QED
          BY <2>2, <3>1 DEF Hex!Faulty
    <2>5. CASE \E f \in Forbidden : s < f[2] /\ e > f[1]
      <3>1. PICK f \in Forbidden : s < f[2] /\ e > f[1]
          BY <2>5
      <3>2. f[1] \in Nat /\ f[2] \in Nat /\ f[1] < f[2]
          BY <2>3
      <3>3. \E a \in Nat : s <= a /\ a < e /\ f[1] <= a /\ a < f[2]
        <4>1. CASE s <= f[1]
            BY <2>1, <3>1, <3>2, <4>1
        <4>2. CASE f[1] <= s
            BY <2>1, <3>1, <3>2, <4>2
        <4>3. QED
            BY <2>1, <3>2, <4>1, <4>2
      <3>4. QED
          BY <2>2, <3>3 DEF Hex!Faulty
    <2>6. CASE ~\E w \in Allowlist : s >= w[1] /\ e <= w[2]
      <3>1. CASE ~\E w \in Allowlist : w[1] <= s /\ s < w[2]
        <4>1. s \in Hex!Addresses
            BY <2>1, <2>2
        <4>2. QED
            BY <3>1, <4>1 DEF Hex!Faulty
      <3>2. ASSUME NEW w \in Allowlist, w[1] <= s, s < w[2]
            PROVE  Hex!Faulty
        <4>1. w[1] \in Nat /\ w[2] \in Nat /\ w[2] < e
            BY <2>1, <2>3, <2>6, <3>2
        <4> DEFINE a == w[2] - 1
        <4>2. /\ a \in Nat /\ s <= a /\ a < e /\ a + 1 \in Nat /\ s <= a + 1 /\ a + 1 < e
              /\ w[1] <= a /\ a < w[2] /\ a + 1 = w[2]
            BY <2>1, <3>2, <4>1, SMTT(30)
        <4>3. a \in Hex!Addresses /\ a + 1 \in Hex!Addresses
            BY <2>2, <4>2
        <4>4. ASSUME NEW v \in Allowlist, v[1] <= a, a + 1 < v[2]
              PROVE  FALSE
          <5>1. v[1] \in Nat /\ v[2] \in Nat
              BY <2>3
          <5>2. a < v[2]
              BY <4>2, <4>4, <5>1
          <5>3. v = w
              BY <1>4, <4>2, <4>4, <5>2 DEF WindowsApart
          <5>4. QED
              BY <4>1, <4>2, <4>4, <5>3
        <4> HIDE DEF a
        <4>5. QED
            BY <4>3, <4>4 DEF Hex!Faulty
      <3>3. QED
          BY <3>1, <3>2
    <2>7. s >= 0
        BY <2>1
    <2>8. Hex!RangeAllowed(hexRanges[i]) <=>
              /\ 0 <= s /\ s < e /\ e <= Limit
              /\ \A f \in Forbidden : ~(s < f[2] /\ e > f[1])
              /\ \E w \in Allowlist : s >= w[1] /\ e <= w[2]
        BY DEF Hex!RangeAllowed, s, e
    <2>9. QED
        BY <1>4, <2>1, <2>3, <2>4, <2>5, <2>6, <2>7, <2>8
  <1>5. Audited'
    <2>1. hexPc' = "accepted" => \A i \in DOMAIN hexRanges : Hex!RangeAllowed(hexRanges[i])'
        BY <1>1 DEF Hex!RangeAllowed
    <2>2. WindowsApart /\ hexPc' = "rejected" => Hex!Faulty
        BY <1>1, <1>4
    <2>3. Hex!Faulty' = Hex!Faulty
        BY <1>1, FileStays
    <2>4. QED
        BY <1>1, <2>1, <2>2, <2>3 DEF Audited, Hex!RejectedIsWrong
  <1>6. QED
      BY <1>1, <1>3, <1>5, FileStays DEF HexInv

\* An accepted file has one value for each address, within the allowed ranges, and the
\* ranges are its addresses; a rejected one is faulty.
LEMMA AuditHolds ==
  ASSUME HexInv
  PROVE  /\ Hex!AcceptedIsAllowed /\ Hex!RangesExact /\ Hex!Unambiguous
         /\ WindowsApart => Hex!RejectedIsWrong
  <1>1. ASSUME hexPc = "accepted"
        PROVE  /\ Hex!Addresses = DOMAIN hexMemory /\ DOMAIN hexMemory \subseteq Nat
               /\ \A w \in Hex!Written : /\ w = <<w[1], hexMemory[w[1]]>>
                                         /\ w[1] \in Nat /\ InRanges(w[1])
               /\ \A a \in Nat : a \in DOMAIN hexMemory <=> InRanges(a)
    <2>1. DOMAIN hexMemory \subseteq Nat
        BY <1>1 DEF HexInv, MemoryRead
    <2>2. \A a \in Nat : a \in DOMAIN hexMemory <=> InRanges(a)
        BY <1>1 DEF HexInv, RangesScanned
    <2>3. QED
        BY <1>1, <2>1, <2>2, MapIsFile
  <1>2. \A i \in DOMAIN hexRanges : hexRanges[i][1] \in Nat /\ hexRanges[i][2] \in Nat
      BY DEF HexInv, RangesScanned
  <1>3. Allowlist \subseteq Nat \X Nat /\ Forbidden \subseteq Nat \X Nat
      BY CommandsAssumption DEF Hex!ConstantsOk
  <1>4. Hex!AcceptedIsAllowed
    <2> SUFFICES ASSUME hexPc = "accepted", NEW w \in Hex!Written
                 PROVE  /\ \E r \in Allowlist : r[1] <= w[1] /\ w[1] < r[2]
                        /\ \A f \in Forbidden : ~(f[1] <= w[1] /\ w[1] < f[2])
        BY DEF Hex!AcceptedIsAllowed
    <2>1. w[1] \in Nat /\ InRanges(w[1])
        BY <1>1
    <2>2. PICK i \in DOMAIN hexRanges : hexRanges[i][1] <= w[1] /\ w[1] < hexRanges[i][2]
        BY <2>1 DEF InRanges
    <2>3. Hex!RangeAllowed(hexRanges[i])
        BY DEF HexInv, Audited
    <2>4. PICK r \in Allowlist : hexRanges[i][1] >= r[1] /\ hexRanges[i][2] <= r[2]
        BY <2>3 DEF Hex!RangeAllowed
    <2>5. r[1] <= w[1] /\ w[1] < r[2]
        BY <1>2, <1>3, <2>1, <2>2, <2>4
    <2>6. ASSUME NEW f \in Forbidden, f[1] <= w[1], w[1] < f[2]
          PROVE  FALSE
      <3>1. ~(hexRanges[i][1] < f[2] /\ hexRanges[i][2] > f[1])
          BY <2>3 DEF Hex!RangeAllowed
      <3>2. f[1] \in Nat /\ f[2] \in Nat
          BY <1>3
      <3>3. QED
          BY <1>2, <2>1, <2>2, <2>6, <3>1, <3>2
    <2>7. QED
        BY <2>5, <2>6
  <1>5. Hex!RangesExact
    <2> SUFFICES ASSUME hexPc = "accepted"
                 PROVE  /\ Hex!Addresses = UNION {hexRanges[i][1]..(hexRanges[i][2] - 1) :
                                                      i \in DOMAIN hexRanges}
                        /\ \A i \in 1..(Len(hexRanges) - 1) :
                              hexRanges[i][2] < hexRanges[i + 1][1]
        BY DEF Hex!RangesExact
    <2>1. \A i \in DOMAIN hexRanges : \A a :
              a \in hexRanges[i][1]..(hexRanges[i][2] - 1) <=>
                  a \in Nat /\ hexRanges[i][1] <= a /\ a < hexRanges[i][2]
        BY <1>2
    <2>2. \A a : a \in UNION {hexRanges[i][1]..(hexRanges[i][2] - 1) : i \in DOMAIN hexRanges}
                 <=> a \in Nat /\ InRanges(a)
        BY <2>1 DEF InRanges
    <2>3. \A a : a \in Hex!Addresses <=> a \in Nat /\ InRanges(a)
        BY <1>1
    <2>4. QED
        BY <2>2, <2>3 DEF HexInv, RangesScanned
  <1>6. Hex!Unambiguous
    <2> SUFFICES ASSUME hexPc = "accepted"
                 PROVE  /\ \A v, w \in Hex!Written : v[1] = w[1] => v = w
                        /\ \A i \in DOMAIN records :
                              records[i].kind = "eof" <=> i = Len(records)
        BY DEF Hex!Unambiguous
    <2>1. \A v, w \in Hex!Written : v[1] = w[1] => v = w
        BY <1>1
    <2>2. \A i \in DOMAIN records : records[i].kind = "eof" <=> i = Len(records)
        BY DEF HexInv, HexTyped, RecordsRead
    <2>3. QED
        BY <2>1, <2>2
  <1>7. QED
      BY <1>4, <1>5, <1>6 DEF HexInv, Audited

\* The order of the steps of a child (Plan).
LEMMA StepOrder ==
  ASSUME NEW o \in ChildOps, NEW s \in PlanSteps(o)
  PROVE  /\ s \in Gate!Steps
         /\ s # "close" =>
              /\ Gate!After(o, s) \in PlanSteps(o) /\ Gate!After(o, s) \in Gate!Steps
              /\ Gate!After(o, s) \in Locked <=> s \in {"lock"} \cup (Locked \ {"unlock"})
              /\ Gate!After(o, s) # "load"
         /\ "unlock" \in PlanSteps(o) /\ "close" \in PlanSteps(o) /\ "load" \in PlanSteps(o)
         /\ Gate!After(o, "unlock") = "close"
  <1> USE DEF Locked, Gate!Steps
  <1>1. CASE o = "run"
    <2>1. PlanSteps("run") = {"load", "select", "lock", "snapshot", "program", "serial",
            "reset", "token", "unlock", "close"}
        BY DEF PlanSteps, Gate!Plan, Gate!RunPlan
    <2>2. /\ Gate!After("run", "load") = "select" /\ Gate!After("run", "select") = "lock"
          /\ Gate!After("run", "lock") = "snapshot"
          /\ Gate!After("run", "snapshot") = "program"
          /\ Gate!After("run", "program") = "serial" /\ Gate!After("run", "serial") = "reset"
          /\ Gate!After("run", "reset") = "token" /\ Gate!After("run", "token") = "unlock"
          /\ Gate!After("run", "unlock") = "close"
        BY DEF Gate!After, Gate!Plan, Gate!RunPlan
    <2>3. QED
        BY <1>1, <2>1, <2>2
  <1>2. CASE o = "gdb"
    <2>1. PlanSteps("gdb") = {"load", "select", "lock", "serial", "server", "gdb", "token",
            "stop", "unlock", "close"}
        BY DEF PlanSteps, Gate!Plan
    <2>2. /\ Gate!After("gdb", "load") = "select" /\ Gate!After("gdb", "select") = "lock"
          /\ Gate!After("gdb", "lock") = "serial" /\ Gate!After("gdb", "serial") = "server"
          /\ Gate!After("gdb", "server") = "gdb" /\ Gate!After("gdb", "gdb") = "token"
          /\ Gate!After("gdb", "token") = "stop" /\ Gate!After("gdb", "stop") = "unlock"
          /\ Gate!After("gdb", "unlock") = "close"
        BY DEF Gate!After, Gate!Plan
    <2>3. QED
        BY <1>2, <2>1, <2>2
  <1>3. CASE o = "flash"
    <2>1. PlanSteps("flash") = {"load", "select", "lock", "snapshot", "program", "unlock",
            "close"}
        BY DEF PlanSteps, Gate!Plan
    <2>2. /\ Gate!After("flash", "load") = "select" /\ Gate!After("flash", "select") = "lock"
          /\ Gate!After("flash", "lock") = "snapshot"
          /\ Gate!After("flash", "snapshot") = "program"
          /\ Gate!After("flash", "program") = "unlock"
          /\ Gate!After("flash", "unlock") = "close"
        BY DEF Gate!After, Gate!Plan
    <2>3. QED
        BY <1>3, <2>1, <2>2
  <1>4. CASE o = "debug"
    <2>1. PlanSteps("debug") = {"load", "select", "lock", "server", "gdb", "stop", "unlock",
            "close"}
        BY DEF PlanSteps, Gate!Plan
    <2>2. /\ Gate!After("debug", "load") = "select" /\ Gate!After("debug", "select") = "lock"
          /\ Gate!After("debug", "lock") = "server" /\ Gate!After("debug", "server") = "gdb"
          /\ Gate!After("debug", "gdb") = "stop" /\ Gate!After("debug", "stop") = "unlock"
          /\ Gate!After("debug", "unlock") = "close"
        BY DEF Gate!After, Gate!Plan
    <2>3. QED
        BY <1>4, <2>1, <2>2
  <1>5. QED
      BY <1>1, <1>2, <1>3, <1>4 DEF ChildOps

\* The order of the steps of a run.
LEMMA RunOrder ==
  /\ PlanSteps("run") = {"load", "select", "lock", "snapshot", "program", "serial",
                         "reset", "token", "unlock", "close"}
  /\ Gate!After("run", "load") = "select" /\ Gate!After("run", "select") = "lock"
  /\ Gate!After("run", "lock") = "snapshot" /\ Gate!After("run", "snapshot") = "program"
  /\ Gate!After("run", "program") = "serial" /\ Gate!After("run", "serial") = "reset"
  /\ Gate!After("run", "reset") = "token" /\ Gate!After("run", "token") = "unlock"
  /\ Gate!After("run", "unlock") = "close"
  BY DEF PlanSteps, Gate!After, Gate!Plan, Gate!RunPlan

\* The child of a stage runs one of these commands, on one of the two manifests.
LEMMA ChildJob ==
  ASSUME NEW s \in ChildStages
  PROVE  /\ Gate!Job(s).op \in ChildOps \cap Gate!Ops /\ Gate!Job(s).manifest \in Manifests
         /\ s = "restore" => Gate!Job(s).op = "run" /\ Gate!Job(s).manifest = Normal
  BY CommandsAssumption DEF Gate!ConstantsOk, ChildStages, Gate!Job, ChildOps, Gate!Ops

\* A step of a command is one of the child.
LEMMA ChildMoves ==
  ASSUME GateInv, NEW p \in Procs, Gate!Step(p)
  PROVE  /\ p = child /\ child # NoProc /\ stage \in ChildStages
         /\ op[p] \in ChildOps /\ gatePc[p] \in PlanSteps(op[p])
         /\ want[p] = Gate!Job(stage).manifest
  <1>1. gatePc[p] \notin {"idle", "killed", "ended"}
      BY DEF Gate!Step, Gate!Load, Gate!Select, Gate!Lock, Gate!Snapshot, Gate!SpawnTool,
         Gate!Program, Gate!Serial, Gate!ServerReady, Gate!Gdb, Gate!Reset, Gate!Token,
         Gate!StopServer, Gate!Unlock, Gate!Validate, Gate!Raise, Gate!Body, Gate!Close
  <1>2. p = child
      BY <1>1 DEF GateInv, OneChild
  <1>3. NoProc \notin Procs
      BY CommandsAssumption DEF Gate!ConstantsOk
  <1>4. QED
      BY <1>1, <1>2, <1>3, ChildJob DEF GateInv, OneChild

\* The child goes on to another step: what that step must keep.
LEMMA ChildPlaced ==
  ASSUME OneChild, ProcsTyped, child \in Procs, child # NoProc,
         NEW x \in PlanSteps(op[child]) \cup {"ended"},
         gatePc' = [gatePc EXCEPT ![child] = x],
         UNCHANGED <<op, want, Gate!gateVars>>,
         gateLock' = IF x \in Locked THEN child ELSE NoProc, tty' \in {NoProc, child},
         \A q \in Procs : q # child => tool'[q] = tool[q]
  PROVE  OneChild'
  BY DEF OneChild, ProcsTyped, Gate!gateVars

\* A step of the child keeps who runs, holds the lock and the serial port.
LEMMA ChildStaysAlone ==
  ASSUME GateInv, NEW p \in Procs, Gate!Step(p), UNCHANGED Gate!gateVars
  PROVE  OneChild'
  <1>1. /\ p = child /\ child # NoProc /\ op[child] \in ChildOps
        /\ gatePc[child] \in PlanSteps(op[child]) /\ OneChild /\ ProcsTyped
      BY ChildMoves DEF GateInv
  <1>2. /\ gatePc[child] # "close" =>
             /\ Gate!After(op[child], gatePc[child]) \in PlanSteps(op[child])
             /\ Gate!After(op[child], gatePc[child]) \in Locked <=>
                    gatePc[child] \in {"lock"} \cup (Locked \ {"unlock"})
        /\ "unlock" \in PlanSteps(op[child]) /\ "close" \in PlanSteps(op[child])
        /\ Gate!After(op[child], "unlock") = "close"
      BY <1>1, StepOrder
  <1>3. gateLock = IF gatePc[child] \in Locked THEN child ELSE NoProc
      BY <1>1 DEF OneChild
  <1>4. tty \in {NoProc, child}
      BY <1>1 DEF OneChild
  \* The next step of the plan.
  <1>5. ASSUME Gate!Advance(child), gatePc[child] # "close", UNCHANGED <<op, want>>,
               gatePc[child] = "lock" => gateLock' = child,
               gatePc[child] \notin {"lock", "unlock"} => gateLock' = gateLock,
               gatePc[child] # "unlock", tty' \in {NoProc, child},
               \A q \in Procs : q # child => tool'[q] = tool[q]
        PROVE  OneChild'
    <2>1. gateLock' = IF Gate!After(op[child], gatePc[child]) \in Locked THEN child ELSE NoProc
        BY <1>2, <1>3, <1>5 DEF Locked
    <2>2. QED
        BY <1>1, <1>2, <1>5, <2>1, ChildPlaced DEF Gate!Advance
  <1>6. CASE Gate!Load(p)
      BY <1>1, <1>4, <1>5, <1>6 DEF Gate!Load, ProcsTyped
  <1>7. CASE Gate!Select(p)
      BY <1>1, <1>4, <1>5, <1>7 DEF Gate!Select, ProcsTyped
  <1>8. CASE Gate!Lock(p)
      BY <1>1, <1>4, <1>5, <1>8 DEF Gate!Lock, ProcsTyped
  <1>9. CASE Gate!Snapshot(p)
      BY <1>1, <1>4, <1>5, <1>9 DEF Gate!Snapshot, ProcsTyped
  <1>10. CASE Gate!Serial(p)
      BY <1>1, <1>4, <1>5, <1>10 DEF Gate!Serial, ProcsTyped
  <1>11. CASE Gate!ServerReady(p)
      BY <1>1, <1>4, <1>5, <1>11 DEF Gate!ServerReady, ProcsTyped
  <1>12. CASE Gate!Gdb(p)
      BY <1>1, <1>4, <1>5, <1>12 DEF Gate!Gdb, ProcsTyped
  <1>13. CASE Gate!Reset(p)
      BY <1>1, <1>4, <1>5, <1>13 DEF Gate!Reset, ProcsTyped
  <1>14. CASE Gate!Token(p)
      BY <1>1, <1>4, <1>5, <1>14 DEF Gate!Token, ProcsTyped
  <1>15. CASE Gate!StopServer(p)
      BY <1>1, <1>4, <1>5, <1>15 DEF Gate!StopServer, ProcsTyped
  <1>16. CASE Gate!Validate(p)
      BY <1>1, <1>4, <1>5, <1>16 DEF Gate!Validate, ProcsTyped
  <1>17. CASE Gate!SpawnTool(p)
    <2>1. /\ UNCHANGED <<op, want, gatePc, gateLock, tty>>
          /\ \A q \in Procs : q # child => tool'[q] = tool[q]
        BY <1>1, <1>17 DEF Gate!SpawnTool, Gate!Spawn, Gate!procVars, ProcsTyped
    <2>2. QED
        BY <1>1, <2>1 DEF OneChild, Gate!gateVars
  <1>18. CASE Gate!Program(p)
    <2>1. /\ UNCHANGED <<op, want, gateLock, tty>> /\ gatePc[child] = "program"
          /\ UNCHANGED gatePc \/ Gate!Advance(child)
          /\ \A q \in Procs : q # child => tool'[q] = tool[q]
        BY <1>1, <1>18 DEF Gate!Program, ProcsTyped
    <2>2. CASE UNCHANGED gatePc
        BY <1>1, <2>1, <2>2 DEF OneChild, Gate!gateVars
    <2>3. CASE Gate!Advance(child)
        BY <1>4, <1>5, <2>1, <2>3
    <2>4. QED
        BY <2>1, <2>2, <2>3
  <1>19. CASE Gate!Unlock(p)
    <2>1. /\ gatePc' = [gatePc EXCEPT ![child] = "close"] /\ gateLock' = NoProc
          /\ UNCHANGED <<op, want, tool, tty>>
        BY <1>1, <1>2, <1>19 DEF Gate!Unlock
    <2>2. QED
        BY <1>1, <1>2, <1>4, <2>1, ChildPlaced DEF Locked
  <1>20. CASE Gate!Raise(p)
    <2>1. /\ gatePc' = [gatePc EXCEPT ![child] = IF gateLock = child THEN "unlock" ELSE "close"]
          /\ UNCHANGED <<op, want, gateLock, tty>>
          /\ \A q \in Procs : q # child => tool'[q] = tool[q]
        BY <1>1, <1>20 DEF Gate!Raise, ProcsTyped
    <2>2. CASE gateLock = child
        BY <1>1, <1>2, <1>4, <2>1, <2>2, ChildPlaced DEF Locked
    <2>3. CASE gateLock # child
        BY <1>1, <1>2, <1>3, <1>4, <2>1, <2>3, ChildPlaced DEF Locked
    <2>4. QED
        BY <2>2, <2>3
  <1>21. ASSUME NEW closed \in BOOLEAN, Gate!Close(p, closed) PROVE OneChild'
    <2>1. /\ gatePc' = [gatePc EXCEPT ![child] = "ended"] /\ gatePc[child] = "close"
          /\ UNCHANGED <<op, want, gateLock, tool>> /\ tty' \in {NoProc, child}
        BY <1>1, <1>4, <1>21 DEF Gate!Close
    <2>2. gateLock' = NoProc
        BY <1>3, <2>1 DEF Locked
    <2>3. QED
        BY <1>1, <2>1, <2>2, ChildPlaced DEF Locked
  <1>22. QED
      BY <1>6, <1>7, <1>8, <1>9, <1>10, <1>11, <1>12, <1>13, <1>14, <1>15, <1>16, <1>17, <1>18,
         <1>19, <1>20, <1>21 DEF Gate!Step

\* What a step of one process must keep of the types.
LEMMA TypesMove ==
  ASSUME ProcsTyped, NEW p \in Procs, NEW x \in Gate!Steps \cup {"ended", "killed"},
         gatePc' = [gatePc EXCEPT ![p] = x], UNCHANGED <<op, want>>,
         err' \in [Procs -> BOOLEAN],
         gateReport' \in [Procs -> {"none", "running", "failed", "ok"}],
         snapshot' \in [Procs -> [Gate!Images -> Manifests \cup {Other}]],
         programmed' \in [Procs -> Nat],
         tool' \in [Procs -> [job : {"none", "program", "reset", "server", "exited"},
                              busy : BOOLEAN]],
         \A q \in Procs : q # p =>
            err'[q] = err[q] /\ programmed'[q] = programmed[q] /\ tool'[q] = tool[q]
  PROVE  ProcsTyped'
  <1>1. x # "idle"
      BY DEF Gate!Steps
  <1>2. gatePc' \in [Procs -> Gate!Steps \cup {"idle", "ended", "killed"}]
      BY DEF ProcsTyped
  <1>3. Gate!NoTool' = Gate!NoTool
      BY DEF Gate!NoTool
  <1>4. ASSUME NEW q \in Procs, gatePc'[q] = "idle"
        PROVE  ~err'[q] /\ programmed'[q] = 0 /\ tool'[q] = Gate!NoTool
      BY <1>1, <1>4 DEF ProcsTyped
  <1>5. QED
      BY <1>2, <1>4 DEF ProcsTyped, Gate!NoTool, Gate!Images

\* A step of the child keeps the types, and the place and the errors of the gate.
LEMMA ChildKeepsTypes ==
  ASSUME GateInv, NEW p \in Procs, Gate!Step(p), UNCHANGED Gate!gateVars
  PROVE  ProcsTyped' /\ GatePlace'
  <1>1. /\ p = child /\ op[p] \in ChildOps /\ gatePc[p] \in PlanSteps(op[p]) /\ ProcsTyped
      BY ChildMoves DEF GateInv
  <1>2. /\ gatePc[p] # "close" => Gate!After(op[p], gatePc[p]) \in Gate!Steps
        /\ gatePc[p] \in Gate!Steps
      BY <1>1, StepOrder DEF Gate!Steps
  <1>3. GatePlace'
      BY DEF GateInv, GatePlace, Gate!gateVars
  <1>4. /\ err \in [Procs -> BOOLEAN]
        /\ gateReport \in [Procs -> {"none", "running", "failed", "ok"}]
        /\ snapshot \in [Procs -> [Gate!Images -> Manifests \cup {Other}]]
        /\ programmed \in [Procs -> Nat]
        /\ tool \in [Procs -> [job : {"none", "program", "reset", "server", "exited"},
                               busy : BOOLEAN]]
        /\ gatePc = [gatePc EXCEPT ![p] = gatePc[p]]
        /\ want[p] \in Manifests
      BY <1>1 DEF ProcsTyped
  <1>5. Gate!NoTool \in [job : {"none", "program", "reset", "server", "exited"},
                         busy : BOOLEAN]
      BY DEF Gate!NoTool
  \* The next step of the plan.
  <1>6. ASSUME Gate!Advance(p), gatePc[p] # "close",
               UNCHANGED <<op, want, err, gateReport, snapshot, programmed, tool>>
        PROVE  ProcsTyped'
      BY <1>1, <1>2, <1>4, <1>6, TypesMove DEF Gate!Advance
  <1>7. CASE Gate!Load(p)
      BY <1>3, <1>6, <1>7 DEF Gate!Load, Gate!boardVars
  <1>8. CASE Gate!Select(p)
      BY <1>3, <1>6, <1>8 DEF Gate!Select, Gate!boardVars
  <1>9. CASE Gate!Lock(p)
      BY <1>3, <1>6, <1>9 DEF Gate!Lock, Gate!boardVars
  <1>10. CASE Gate!Serial(p)
      BY <1>3, <1>6, <1>10 DEF Gate!Serial, Gate!boardVars
  <1>11. CASE Gate!ServerReady(p)
      BY <1>3, <1>6, <1>11 DEF Gate!ServerReady, Gate!boardVars
  <1>12. CASE Gate!Gdb(p)
      BY <1>3, <1>6, <1>12 DEF Gate!Gdb, Gate!boardVars
  <1>13. CASE Gate!Token(p)
      BY <1>3, <1>6, <1>13 DEF Gate!Token, Gate!boardVars
  <1>14. CASE Gate!Validate(p)
      BY <1>3, <1>6, <1>14 DEF Gate!Validate, Gate!boardVars
  <1>15. CASE Gate!Snapshot(p)
    <2>1. /\ UNCHANGED <<op, want, err, gateReport, programmed, tool>>
          /\ snapshot' \in [Procs -> [Gate!Images -> Manifests \cup {Other}]]
          /\ Gate!Advance(p) /\ gatePc[p] # "close"
        BY <1>4, <1>5, <1>15 DEF Gate!Snapshot, Gate!Content
    <2>2. QED
        BY <1>1, <1>2, <1>3, <1>4, <2>1, TypesMove DEF Gate!Advance, Gate!Steps
  <1>16. CASE Gate!SpawnTool(p)
    <2>1. /\ UNCHANGED <<op, want, gatePc, err, gateReport, snapshot, programmed>>
          /\ tool' \in [Procs -> [job : {"none", "program", "reset", "server", "exited"},
                                    busy : BOOLEAN]]
          /\ \A q \in Procs : q # p => tool'[q] = tool[q]
        BY <1>4, <1>5, <1>16 DEF Gate!SpawnTool, Gate!Spawn, Gate!StepJob,
           Gate!procVars
    <2>2. QED
        BY <1>1, <1>2, <1>3, <1>4, <2>1, TypesMove DEF Gate!Advance, Gate!Steps
  <1>17. CASE Gate!Program(p)
    <2>1. /\ UNCHANGED <<op, want, err, gateReport, snapshot>>
          /\ programmed' \in [Procs -> Nat] /\ gatePc[p] # "close"
          /\ tool' \in [Procs -> [job : {"none", "program", "reset", "server", "exited"},
                                    busy : BOOLEAN]]
          /\ UNCHANGED gatePc \/ Gate!Advance(p)
          /\ \A q \in Procs : q # p => programmed'[q] = programmed[q] /\ tool'[q] = tool[q]
        BY <1>4, <1>5, <1>17 DEF Gate!Program, Gate!NoTool
    <2>2. CASE UNCHANGED gatePc
        BY <1>1, <1>2, <1>3, <1>4, <2>1, <2>2, TypesMove
    <2>3. CASE Gate!Advance(p)
        BY <1>1, <1>2, <1>3, <1>4, <2>1, <2>3, TypesMove DEF Gate!Advance
    <2>4. QED
        BY <2>1, <2>2, <2>3
  <1>18. CASE Gate!Reset(p)
    <2>1. /\ UNCHANGED <<op, want, err, gateReport, snapshot, programmed>>
          /\ tool' \in [Procs -> [job : {"none", "program", "reset", "server", "exited"},
                                    busy : BOOLEAN]]
          /\ Gate!Advance(p) /\ gatePc[p] # "close"
          /\ \A q \in Procs : q # p => tool'[q] = tool[q]
        BY <1>4, <1>5, <1>18 DEF Gate!Reset, Gate!NoTool
    <2>2. QED
        BY <1>1, <1>2, <1>3, <1>4, <2>1, TypesMove DEF Gate!Advance, Gate!Steps
  <1>19. CASE Gate!StopServer(p)
    <2>1. /\ UNCHANGED <<op, want, err, gateReport, snapshot, programmed>>
          /\ tool' \in [Procs -> [job : {"none", "program", "reset", "server", "exited"},
                                    busy : BOOLEAN]]
          /\ Gate!Advance(p) /\ gatePc[p] # "close"
          /\ \A q \in Procs : q # p => tool'[q] = tool[q]
        BY <1>4, <1>5, <1>19 DEF Gate!StopServer, Gate!NoTool
    <2>2. QED
        BY <1>1, <1>2, <1>3, <1>4, <2>1, TypesMove DEF Gate!Advance, Gate!Steps
  <1>20. CASE Gate!Unlock(p)
    <2>1. /\ UNCHANGED <<op, want, err, gateReport, snapshot, programmed, tool>>
          /\ gatePc' = [gatePc EXCEPT ![p] =
                          IF err[p] THEN "close" ELSE Gate!After(op[p], "unlock")]
          /\ gatePc[p] = "unlock"
        BY <1>4, <1>5, <1>20 DEF Gate!Unlock, Gate!Steps
    <2>2. QED
        BY <1>1, <1>2, <1>3, <1>4, <2>1, TypesMove DEF Gate!Advance, Gate!Steps
  <1>21. CASE Gate!Raise(p)
    <2>1. /\ UNCHANGED <<op, want, gateReport, snapshot, programmed>>
          /\ err' \in [Procs -> BOOLEAN]
          /\ tool' \in [Procs -> [job : {"none", "program", "reset", "server", "exited"},
                                    busy : BOOLEAN]]
          /\ gatePc' = [gatePc EXCEPT ![p] = IF gateLock = p THEN "unlock" ELSE "close"]
          /\ \A q \in Procs : q # p => err'[q] = err[q] /\ tool'[q] = tool[q]
        BY <1>4, <1>5, <1>21 DEF Gate!Raise, Gate!NoTool
    <2>2. QED
        BY <1>1, <1>2, <1>3, <1>4, <2>1, TypesMove DEF Gate!Advance, Gate!Steps
  <1>22. ASSUME NEW closed \in BOOLEAN, Gate!Close(p, closed) PROVE ProcsTyped'
    <2>1. /\ UNCHANGED <<op, want, err, snapshot, programmed, tool>>
          /\ gateReport' \in [Procs -> {"none", "running", "failed", "ok"}]
          /\ gatePc' = [gatePc EXCEPT ![p] = "ended"]
        BY <1>4, <1>22 DEF Gate!Close, Gate!FinalStatus
    <2>2. QED
        BY <1>4, <1>1, <2>1, TypesMove
  <1>23. QED
      BY <1>3, <1>7, <1>8, <1>9, <1>10, <1>11, <1>12, <1>13, <1>14, <1>15, <1>16, <1>17,
         <1>18, <1>19, <1>20, <1>21, <1>22 DEF Gate!Step

\* A run of the child knows what it has programmed and reset, step by step (command_run).
LEMMA ChildKnows ==
  ASSUME GateInv, NEW p \in Procs, Gate!Step(p), UNCHANGED Gate!gateVars
  PROVE  RunKnown'
  <1> SUFFICES ASSUME op'[child] = "run" PROVE RunKnown'
      BY DEF RunKnown, Gate!gateVars
  <1>1. /\ p = child /\ child \in Procs /\ child # NoProc /\ ProcsTyped
        /\ UNCHANGED <<op, want, child, orphaned, board>>
      BY ChildMoves DEF GateInv, Gate!gateVars, Gate!boardVars, Gate!procVars, Gate!Step,
         Gate!Load, Gate!Select, Gate!Lock, Gate!Snapshot, Gate!SpawnTool, Gate!Program,
         Gate!Serial, Gate!ServerReady, Gate!Gdb, Gate!Reset, Gate!Token, Gate!StopServer,
         Gate!Unlock, Gate!Validate, Gate!Raise, Gate!Close
  <1>2. op[child] = "run" /\ gatePc[child] \in PlanSteps("run")
      BY <1>1, ChildMoves
  <1>3. gatePc[child] \in {"load", "select", "lock", "snapshot", "program", "serial",
                           "reset", "token", "unlock", "close"}
      BY <1>2, RunOrder
  <1>4. RunKnown
      BY DEF GateInv
  <1>5. CASE Gate!Load(p)
      BY <1>1, <1>2, <1>3, <1>4, <1>5, RunOrder DEF Gate!Load, ProcsTyped, RunKnown, Holds,
         Runs, Gate!Advance, Gate!boardVars
  <1>6. CASE Gate!Select(p)
      BY <1>1, <1>2, <1>3, <1>4, <1>6, RunOrder DEF Gate!Select, ProcsTyped, RunKnown, Holds,
         Runs, Gate!Advance, Gate!boardVars
  <1>7. CASE Gate!Lock(p)
      BY <1>1, <1>2, <1>3, <1>4, <1>7, RunOrder DEF Gate!Lock, ProcsTyped, RunKnown, Holds,
         Runs, Gate!Advance, Gate!boardVars
  <1>8. CASE Gate!Snapshot(p)
    <2>1. /\ gatePc[child] = "snapshot" /\ gatePc'[child] = "program"
          /\ \A i \in Gate!Images : snapshot'[child][i] = want'[child]
          /\ UNCHANGED <<programmed, err, gateReport, tool>>
        BY <1>1, <1>2, <1>8, RunOrder DEF Gate!Snapshot, Gate!Advance, ProcsTyped
    <2>2. programmed[child] = 0 /\ tool[child] = Gate!NoTool /\ ~err[child]
          /\ gateReport[child] # "ok"
        BY <1>2, <1>4, <2>1, <1>1 DEF RunKnown
    <2>3. NImages \in Nat \ {0}
        BY CommandsAssumption DEF Gate!ConstantsOk
    <2>4. \A i \in Gate!Images : ~(i <= 0)
        BY <2>3 DEF Gate!Images
    <2>5. QED
        BY <1>1, <2>1, <2>2, <2>3, <2>4 DEF RunKnown, Gate!NoTool
  <1>9. CASE Gate!SpawnTool(p)
      BY <1>1, <1>2, <1>3, <1>4, <1>9, RunOrder DEF Gate!SpawnTool, ProcsTyped, RunKnown, Holds,
         Runs, Gate!Spawn, Gate!StepJob, Gate!NoTool, Gate!procVars, Gate!boardVars
  <1>10. CASE Gate!Program(p)
    <2> DEFINE n == programmed[child]
    <2>1. /\ gatePc[child] = "program" /\ tool[child].job = "exited"
          /\ programmed'[child] = n + 1 /\ tool'[child] = Gate!NoTool
          /\ IF n + 1 = NImages THEN gatePc'[child] = "serial" ELSE UNCHANGED gatePc
          /\ UNCHANGED <<err, gateReport, snapshot>>
        BY <1>1, <1>2, <1>10, RunOrder DEF Gate!Program, Gate!Advance, ProcsTyped
    <2>2. /\ n < NImages /\ ~err[child] /\ gateReport[child] # "ok"
          /\ \A i \in Gate!Images : snapshot[child][i] = want[child]
          /\ ~orphaned => \A i \in Gate!Images : i <= n \/ i = n + 1 => board[i] = want[child]
        BY <1>1, <1>2, <1>4, <2>1 DEF RunKnown
    <2>3. n \in Nat /\ NImages \in Nat \ {0}
        BY <1>1, CommandsAssumption DEF ProcsTyped, Gate!ConstantsOk
    <2>4. \A i \in Gate!Images : i <= n + 1 <=> i <= n \/ i = n + 1
        BY <2>3 DEF Gate!Images
    <2>5. CASE n + 1 = NImages
      <3>1. ~orphaned => Holds(want[child])
          BY <2>2, <2>3, <2>4, <2>5 DEF Holds, Gate!Images
      <3>2. ~orphaned' => Holds(want[child])'
          BY <1>1, <3>1 DEF Holds
      <3>3. QED
          BY <1>1, <2>1, <2>2, <2>5, <3>1, <3>2 DEF RunKnown, Holds
    <2>6. CASE n + 1 # NImages
      <3>1. n + 1 < NImages
          BY <2>2, <2>3, <2>6
      <3>2. /\ gatePc'[child] = "program" /\ programmed'[child] < NImages
            /\ tool'[child].job = "none" /\ ~err'[child] /\ gateReport'[child] # "ok"
            /\ \A i \in Gate!Images : snapshot'[child][i] = want'[child]
          BY <1>1, <2>1, <2>2, <2>6, <3>1 DEF Gate!NoTool
      <3>3. ~orphaned' => \A i \in Gate!Images : i <= programmed'[child] => board'[i] = want'[child]
          BY <1>1, <2>1, <2>2, <2>4
      <3>4. QED
          BY <1>1, <3>2, <3>3 DEF RunKnown
    <2>7. QED
        BY <2>5, <2>6
  <1>11. CASE Gate!Serial(p)
      BY <1>1, <1>2, <1>3, <1>4, <1>11, RunOrder DEF Gate!Serial, ProcsTyped, RunKnown, Holds,
         Runs, Gate!NoTool, Gate!Advance, Gate!boardVars
  <1>12. CASE Gate!ServerReady(p)
      BY <1>1, <1>2, <1>3, <1>4, <1>12, RunOrder DEF Gate!ServerReady, ProcsTyped, RunKnown,
         Holds, Runs, Gate!Advance, Gate!boardVars
  <1>13. CASE Gate!Gdb(p)
      BY <1>1, <1>2, <1>3, <1>4, <1>13, RunOrder DEF Gate!Gdb, ProcsTyped, RunKnown, Holds,
         Runs, Gate!Advance, Gate!boardVars
  <1>14. CASE Gate!Reset(p)
      BY <1>1, <1>2, <1>3, <1>4, <1>14, RunOrder DEF Gate!Reset, ProcsTyped, RunKnown, Holds,
         Runs, Gate!NoTool, Gate!Advance, Gate!boardVars
  <1>15. CASE Gate!Token(p)
      BY <1>1, <1>2, <1>3, <1>4, <1>15, RunOrder DEF Gate!Token, ProcsTyped, RunKnown, Holds,
         Runs, Gate!Advance, Gate!boardVars
  <1>16. CASE Gate!StopServer(p)
      BY <1>1, <1>2, <1>3, <1>4, <1>16, RunOrder DEF Gate!StopServer, ProcsTyped, RunKnown,
         Holds, Runs, Gate!NoTool, Gate!Advance, Gate!boardVars
  <1>17. CASE Gate!Unlock(p)
      BY <1>1, <1>2, <1>3, <1>4, <1>17, RunOrder DEF Gate!Unlock, ProcsTyped, RunKnown, Holds,
         Runs, Gate!boardVars
  <1>18. CASE Gate!Validate(p)
      BY <1>1, <1>2, <1>3, <1>4, <1>18, RunOrder DEF Gate!Validate, ProcsTyped, RunKnown, Holds,
         Runs, Gate!Advance, Gate!boardVars
  <1>19. CASE Gate!Raise(p)
      BY <1>1, <1>2, <1>3, <1>4, <1>19, RunOrder DEF Gate!Raise, ProcsTyped, RunKnown, Holds,
         Runs, Gate!Body, Gate!NoTool, Gate!boardVars
  <1>20. ASSUME NEW closed \in BOOLEAN, Gate!Close(p, closed) PROVE RunKnown'
      BY <1>1, <1>2, <1>3, <1>4, <1>20, RunOrder DEF Gate!Close, ProcsTyped, RunKnown, Holds,
         Runs, Gate!FinalStatus, Gate!boardVars
  <1>21. QED
      BY <1>5, <1>6, <1>7, <1>8, <1>9, <1>10, <1>11, <1>12, <1>13, <1>14, <1>15, <1>16, <1>17,
         <1>18, <1>19, <1>20
         DEF Gate!Step

\* While a child runs the gate claims nothing of the board yet.
LEMMA ChildSteps ==
  ASSUME GateInv, NEW p \in Procs, Gate!Step(p), UNCHANGED Gate!gateVars
  PROVE  GateInv'
  <1>1. stage \in ChildStages
      BY ChildMoves
  <1>2. UNCHANGED <<board, stage>>
      BY DEF Gate!gateVars, Gate!boardVars, Gate!procVars, Gate!Step,
         Gate!Load, Gate!Select, Gate!Lock, Gate!Snapshot, Gate!SpawnTool, Gate!Program,
         Gate!Serial, Gate!ServerReady, Gate!Gdb, Gate!Reset, Gate!Token, Gate!StopServer,
         Gate!Unlock, Gate!Validate, Gate!Raise, Gate!Close
  <1>3. BoardRestored'
      BY <1>1, <1>2 DEF GateInv, BoardRestored, ChildStages, Gate!Images
  <1>4. QED
      BY <1>3, ChildStaysAlone, ChildKeepsTypes, ChildKnows DEF GateInv

\* What a vendor program does: it works for the child, unless a child was killed over it.
LEMMA DeviceMoves ==
  ASSUME GateInv, NEW p \in Procs, Gate!Device(p)
  PROVE  /\ UNCHANGED <<op, want, gatePc, err, gateReport, snapshot, programmed, gateLock, tty>>
         /\ tool[p] # Gate!NoTool /\ gatePc[p] # "idle"
         /\ p = child \/ orphaned
         /\ board' \in [Gate!Images -> Manifests \cup {Torn, Other}]
         /\ tool' \in [Procs -> [job : {"none", "program", "reset", "server", "exited"},
                                 busy : BOOLEAN]]
         /\ \A q \in Procs : q # p => tool'[q] = tool[q]
  <1>1. ProcsTyped /\ OneChild /\ BoardRestored
      BY DEF GateInv
  <1>2. /\ UNCHANGED <<op, want, gatePc, err, gateReport, snapshot, programmed, gateLock, tty>>
        /\ tool[p] # Gate!NoTool
      BY DEF Gate!Device, Gate!ToolBegins, Gate!ToolEnds, Gate!OrphanExits, Gate!procVars,
         Gate!NoTool
  <1>3. gatePc[p] # "idle" /\ (p = child \/ orphaned)
      BY <1>1, <1>2 DEF ProcsTyped, OneChild
  <1>4. /\ tool \in [Procs -> [job : {"none", "program", "reset", "server", "exited"},
                               busy : BOOLEAN]]
        /\ board \in [Gate!Images -> Manifests \cup {Torn, Other}]
        /\ snapshot[p] \in [Gate!Images -> Manifests \cup {Other}]
      BY <1>1 DEF ProcsTyped, BoardRestored
  <1>5. CASE Gate!ToolBegins(p)
      BY <1>2, <1>3, <1>4, <1>5 DEF Gate!ToolBegins
  <1>6. CASE Gate!ToolEnds(p)
    <2>1. board' \in [Gate!Images -> Manifests \cup {Torn, Other}]
      <3> DEFINE i == Gate!NextImage(p)
      <3>1. UNCHANGED board \/ board' = [board EXCEPT ![i] = snapshot[p][i]]
          BY <1>6 DEF Gate!ToolEnds
      <3>2. CASE i \in Gate!Images
          BY <1>4, <3>1, <3>2
      <3>3. CASE i \notin Gate!Images
          BY <1>4, <3>1, <3>3
      <3>4. QED
          BY <3>2, <3>3
    <2>2. tool' = [tool EXCEPT ![p] = [job |-> "exited", busy |-> FALSE]]
        BY <1>6 DEF Gate!ToolEnds
    <2>3. QED
        BY <1>2, <1>3, <1>4, <2>1, <2>2
  <1>7. CASE Gate!OrphanExits(p)
      BY <1>2, <1>3, <1>4, <1>7 DEF Gate!OrphanExits, Gate!NoTool, Gate!boardVars
  <1>8. QED
      BY <1>5, <1>6, <1>7 DEF Gate!Device

\* What the vendor program of a run does to the board is what the run knows of it
\* (nrfutil device program and reset).
LEMMA DeviceKnows ==
  ASSUME GateInv, NEW p \in Procs, Gate!Device(p), UNCHANGED Gate!gateVars
  PROVE  RunKnown'
  <1>1. /\ UNCHANGED <<op, want, gatePc, err, gateReport, snapshot, programmed>>
        /\ p = child \/ orphaned
        /\ \A q \in Procs : q # p => tool'[q] = tool[q]
      BY DeviceMoves
  <1>2. UNCHANGED <<child, orphaned>>
      BY DEF Gate!gateVars
  <1>3. RunKnown /\ OneChild /\ ProcsTyped /\ BoardRestored
      BY DEF GateInv
  <1> SUFFICES ASSUME child # NoProc, op[child] = "run" PROVE RunKnown'
      BY <1>1, <1>2 DEF RunKnown
  <1>4. child \in Procs /\ gatePc[child] \notin {"idle", "killed"}
      BY <1>3, RunOrder DEF OneChild
  <1>5. CASE p # child
      BY <1>1, <1>2, <1>3, <1>4, <1>5 DEF RunKnown
  <1>6. CASE p = child
    <2>1. Gate!ToolBegins(p) \/ Gate!ToolEnds(p)
        BY <1>4, <1>6 DEF Gate!Device, Gate!OrphanExits
    <2>2. gatePc[child] \in {"program", "reset"}
        BY <1>3, <1>6, <2>1 DEF RunKnown, Gate!NoTool, Gate!ToolBegins, Gate!ToolEnds
    <2>3. CASE gatePc[child] = "reset"
      <3>1. tool[child].job = "reset" /\ UNCHANGED board
          BY <1>3, <1>6, <2>1, <2>3 DEF RunKnown, Gate!ToolBegins, Gate!ToolEnds
      <3>2. \/ tool'[child].job = "reset"
            \/ tool'[child].job = "exited" /\ running' = board
          BY <1>3, <1>4, <1>6, <2>1, <3>1 DEF ProcsTyped, Gate!ToolBegins, Gate!ToolEnds
      <3>3. ~orphaned /\ ~err[child] => Holds(want[child])
          BY <1>3, <2>3 DEF RunKnown
      <3>4. /\ ~orphaned' /\ ~err'[child'] => Holds(want[child])'
            /\ ~orphaned' /\ ~err'[child'] /\ tool'[child].job = "exited" => Runs(want[child])'
          BY <1>1, <1>2, <3>1, <3>2, <3>3 DEF Holds, Runs
      <3>5. QED
          BY <1>1, <1>2, <1>3, <2>3, <3>2, <3>4 DEF RunKnown
    <2>4. CASE gatePc[child] = "program"
      <3> DEFINE i == programmed[child] + 1
      <3>1. /\ tool[child].job = "program" /\ programmed[child] \in Nat
            /\ programmed[child] < NImages /\ NImages \in Nat
            /\ \A j \in Gate!Images : snapshot[child][j] = want[child]
          BY <1>3, <1>4, <1>6, <2>1, <2>4, CommandsAssumption
             DEF RunKnown, ProcsTyped, Gate!ConstantsOk, Gate!ToolBegins, Gate!ToolEnds
      <3>2. /\ i \in Gate!Images /\ snapshot[child][i] = want[child]
            /\ \A j \in Gate!Images : j <= programmed[child] => j # i
          BY <3>1 DEF Gate!Images
      <3>3. ~orphaned => \A j \in Gate!Images : j <= programmed[child] => board[j] = want[child]
          BY <1>3, <2>4, <3>1 DEF RunKnown
      <3>4. /\ \A j \in Gate!Images : j # i => board'[j] = board[j]
            /\ \/ tool'[child].job = "program"
               \/ tool'[child].job = "exited" /\ board'[i] = want[child]
          BY <1>3, <1>4, <1>6, <2>1, <3>1, <3>2
             DEF ProcsTyped, BoardRestored, Gate!ToolBegins, Gate!ToolEnds, Gate!NextImage
      <3>5. ~orphaned' => \A j \in Gate!Images :
                \/ j <= programmed'[child']
                \/ tool'[child'].job = "exited" /\ j = programmed'[child'] + 1
                => board'[j] = want'[child']
          BY <1>1, <1>2, <3>2, <3>3, <3>4
      <3>6. /\ tool'[child'].job \in {"none", "program", "exited"}
            /\ programmed'[child'] < NImages
            /\ \A j \in Gate!Images : snapshot'[child'][j] = want'[child']
            /\ ~err'[child'] /\ gateReport'[child'] # "ok"
          BY <1>1, <1>2, <1>3, <2>4, <3>1, <3>4 DEF RunKnown
      <3>7. gatePc'[child'] = "program"
          BY <1>1, <1>2, <2>4
      <3>8. QED
          BY <3>5, <3>6, <3>7 DEF RunKnown
    <2>5. QED
        BY <2>2, <2>3, <2>4
  <1>7. QED
      BY <1>5, <1>6

\* A vendor program never touches a board that the gate has restored.
LEMMA DeviceStep ==
  ASSUME GateInv, NEW p \in Procs, Gate!Device(p), UNCHANGED Gate!gateVars
  PROVE  GateInv'
  <1>1. /\ UNCHANGED <<op, want, gatePc, err, gateReport, snapshot, programmed, gateLock, tty>>
        /\ tool[p] # Gate!NoTool /\ gatePc[p] # "idle"
        /\ p = child \/ orphaned
        /\ board' \in [Gate!Images -> Manifests \cup {Torn, Other}]
        /\ tool' \in [Procs -> [job : {"none", "program", "reset", "server", "exited"},
                                busy : BOOLEAN]]
        /\ \A q \in Procs : q # p => tool'[q] = tool[q]
      BY DeviceMoves
  <1>2. /\ UNCHANGED <<child, stage, hardware_started, restoration_error, orphaned>>
        /\ GatePlace'
      BY DEF GateInv, GatePlace, Gate!gateVars
  <1>3. OneChild /\ ProcsTyped /\ NoProc \notin Procs
      BY CommandsAssumption DEF GateInv, Gate!ConstantsOk
  <1>4. ProcsTyped'
      BY <1>1, <1>3 DEF ProcsTyped, Gate!NoTool, Gate!Images
  <1>5. OneChild'
      BY <1>1, <1>2, <1>3 DEF OneChild, Gate!NoTool
  <1>6. stage \in {"finish", "done"} => orphaned
      BY <1>1, <1>3 DEF OneChild, ChildStages
  <1>7. BoardRestored'
      BY <1>1, <1>2, <1>6 DEF BoardRestored, Gate!Images
  <1>8. QED
      BY <1>2, <1>4, <1>5, <1>7, DeviceKnows DEF GateInv

\* A token that is printed changes nothing that the gate relies on.
LEMMA TokenStep ==
  ASSUME GateInv, Gate!EmitToken, UNCHANGED Gate!gateVars
  PROVE  GateInv'
  <1>1. UNCHANGED <<op, want, gatePc, err, gateReport, snapshot, programmed, tool, gateLock,
                    tty, board, running, stage, iteration, child, hardware_started,
                    operation_error, restoration_error, status, claimed, orphaned>>
      BY DEF Gate!EmitToken, Gate!gateVars
  <1>2. GatePlace' /\ ProcsTyped'
      BY <1>1 DEF GateInv, GatePlace, ProcsTyped, Gate!Images, Gate!NoTool
  <1>3. OneChild' /\ RunKnown' /\ BoardRestored'
      BY <1>1 DEF GateInv, OneChild, RunKnown, BoardRestored, Holds, Runs, Gate!Images,
         Gate!NoTool
  <1>4. QED
      BY <1>2, <1>3 DEF GateInv

\* The slot of a child that is gone is as good as one never used (Cleared).
LEMMA ClearedSlot ==
  ASSUME GateInv, NEW c \in Procs, Gate!Cleared(c)
  PROVE  /\ ProcsTyped'
         /\ gatePc' = [gatePc EXCEPT ![c] = "idle"]
         /\ UNCHANGED <<board, running, gateLock>>
         /\ \A q \in Procs : q # c =>
              /\ op'[q] = op[q] /\ want'[q] = want[q] /\ err'[q] = err[q]
              /\ gateReport'[q] = gateReport[q] /\ snapshot'[q] = snapshot[q]
              /\ programmed'[q] = programmed[q] /\ tool'[q] = tool[q]
         /\ tool'[c] = Gate!NoTool
         /\ tty' = IF tty = c THEN NoProc ELSE tty
  <1>1. ProcsTyped
      BY DEF GateInv
  <1>2. (CHOOSE m \in Manifests : TRUE) \in Manifests
      BY CommandsAssumption DEF Gate!ConstantsOk
  <1>3. /\ op' \in [Procs -> Gate!Ops] /\ want' \in [Procs -> Manifests]
        /\ gatePc' \in [Procs -> Gate!Steps \cup {"idle", "ended", "killed"}]
        /\ gatePc' = [gatePc EXCEPT ![c] = "idle"]
      BY <1>1, <1>2 DEF ProcsTyped, Gate!Cleared, Gate!Ops
  <1>4. /\ err' \in [Procs -> BOOLEAN]
        /\ gateReport' \in [Procs -> {"none", "running", "failed", "ok"}]
        /\ snapshot' \in [Procs -> [Gate!Images -> Manifests \cup {Other}]]
        /\ programmed' \in [Procs -> Nat]
      BY <1>1 DEF ProcsTyped, Gate!Cleared
  <1>5. tool' \in [Procs -> [job : {"none", "program", "reset", "server", "exited"},
                             busy : BOOLEAN]]
      BY <1>1 DEF ProcsTyped, Gate!Cleared, Gate!NoTool
  <1>6. \A q \in Procs : q # c =>
            /\ op'[q] = op[q] /\ want'[q] = want[q] /\ err'[q] = err[q]
            /\ gateReport'[q] = gateReport[q] /\ snapshot'[q] = snapshot[q]
            /\ programmed'[q] = programmed[q] /\ tool'[q] = tool[q] /\ gatePc'[q] = gatePc[q]
      BY <1>1 DEF ProcsTyped, Gate!Cleared
  <1>7. ~err'[c] /\ programmed'[c] = 0 /\ tool'[c] = Gate!NoTool
      BY <1>1 DEF ProcsTyped, Gate!Cleared
  <1>8. \A q \in Procs : gatePc'[q] = "idle" =>
            ~err'[q] /\ programmed'[q] = 0 /\ tool'[q] = Gate!NoTool
      BY <1>1, <1>6, <1>7 DEF ProcsTyped
  <1>9. ProcsTyped'
      BY <1>3, <1>4, <1>5, <1>8 DEF ProcsTyped, Gate!NoTool, Gate!Images
  <1>10. QED
      BY <1>3, <1>6, <1>7, <1>9 DEF Gate!Cleared, Gate!boardVars

\* Of a child that is gone nothing is left to the gate: no lock, no port, no program.
LEMMA ChildGone ==
  ASSUME GateInv, child \in Procs, gatePc[child] = "ended", Gate!Cleared(child),
         child' = NoProc, UNCHANGED orphaned
  PROVE  OneChild' /\ RunKnown' /\ ProcsTyped' /\ UNCHANGED <<board, running>>
  <1>1. OneChild /\ ProcsTyped
      BY DEF GateInv
  <1>2. /\ ProcsTyped' /\ UNCHANGED <<board, running, gateLock>>
        /\ gatePc' = [gatePc EXCEPT ![child] = "idle"]
        /\ \A q \in Procs : q # child => tool'[q] = tool[q]
        /\ tool'[child] = Gate!NoTool /\ tty' = IF tty = child THEN NoProc ELSE tty
      BY ClearedSlot
  <1>3. gateLock' = NoProc /\ tty' = NoProc
      BY <1>1, <1>2 DEF OneChild, Locked
  <1>4. \A q \in Procs : gatePc'[q] \in {"idle", "killed"}
      BY <1>1, <1>2 DEF OneChild, ProcsTyped
  <1>5. ~orphaned' => \A q \in Procs : tool'[q] = Gate!NoTool
      BY <1>1, <1>2 DEF OneChild
  <1>6. OneChild'
      BY <1>3, <1>4, <1>5 DEF OneChild, Gate!NoTool
  <1>7. QED
      BY <1>2, <1>6 DEF RunKnown

\* A child that succeeded: the next stage, and after the restoration the board is restored.
LEMMA ChildOkStep ==
  ASSUME GateInv, Gate!ChildOk
  PROVE  GateInv'
  <1>1. /\ child # NoProc /\ child \in Procs /\ gatePc[child] = "ended"
        /\ gateReport[child] = "ok" /\ stage \in ChildStages /\ hardware_started
        /\ op[child] = Gate!Job(stage).op /\ want[child] = Gate!Job(stage).manifest
      BY DEF GateInv, OneChild, Gate!ChildOk
  <1>2. OneChild' /\ RunKnown' /\ ProcsTyped' /\ UNCHANGED <<board, running>>
      BY <1>1, ChildGone DEF Gate!ChildOk
  <1>3. GatePlace /\ RunKnown /\ BoardRestored
      BY DEF GateInv
  <1>4. /\ iteration' = IF stage = "cycle" THEN iteration + 1 ELSE iteration
        /\ UNCHANGED <<hardware_started, operation_error, restoration_error, status, claimed,
                       orphaned>>
      BY DEF Gate!ChildOk
  <1>5. \/ stage = "cycle" /\ stage' = "cycle" /\ iteration' < Cycles
        \/ stage = "cycle" /\ stage' = "gdb" /\ ~(iteration' < Cycles)
        \/ stage = "gdb" /\ stage' = "faultflash"
        \/ stage = "faultflash" /\ stage' = "faultgdb"
        \/ stage = "faultgdb" /\ stage' = "restore"
        \/ stage = "restore" /\ stage' = "finish"
    <2>1. stage' = Gate!NextStage
        BY DEF Gate!ChildOk
    <2>2. CASE stage = "cycle"
        BY <2>1, <2>2 DEF Gate!NextStage
    <2>3. CASE stage = "gdb"
        BY <2>1, <2>3 DEF Gate!NextStage
    <2>4. CASE stage = "faultflash"
        BY <2>1, <2>4 DEF Gate!NextStage
    <2>5. CASE stage = "faultgdb"
        BY <2>1, <2>5 DEF Gate!NextStage
    <2>6. CASE stage = "restore"
        BY <2>1, <2>6 DEF Gate!NextStage
    <2>7. QED
        BY <1>1, <2>2, <2>3, <2>4, <2>5, <2>6 DEF ChildStages
  <1>6. iteration \in Nat /\ Cycles \in Nat /\ (stage = "cycle" => iteration < Cycles)
      BY <1>3, CommandsAssumption DEF GatePlace, Gate!ConstantsOk
  <1>7. GatePlace'
      BY <1>1, <1>3, <1>4, <1>5, <1>6 DEF GatePlace, GatePlaces, ChildStages
  <1>8. stage = "restore" /\ ~orphaned => Holds(Normal) /\ Runs(Normal)
      BY <1>1, <1>3, ChildJob DEF RunKnown
  <1>9. BoardRestored'
      BY <1>2, <1>3, <1>4, <1>5, <1>8 DEF BoardRestored, Holds, Runs, Gate!Images
  <1>10. QED
      BY <1>2, <1>7, <1>9 DEF GateInv

\* After an error the gate claims nothing before it has restored the board.
LEMMA ErrorPlaced ==
  ASSUME GatePlace, BoardRestored, stage \notin {"finish", "done"}, Gate!Record(TRUE),
         orphaned' \in BOOLEAN, UNCHANGED <<board, running>>
  PROVE  GatePlace' /\ BoardRestored'
  <1>1. /\ operation_error' = (operation_error \/ stage # "restore")
        /\ restoration_error' = (restoration_error \/ stage = "restore")
        /\ UNCHANGED <<iteration, hardware_started, status, claimed>>
      BY DEF Gate!Record
  <1>2. stage' = IF stage = "restore" \/ ~hardware_started THEN "finish" ELSE "restore"
      BY DEF Gate!Record, Gate!AfterError
  <1>3. GatePlace'
      BY <1>1, <1>2 DEF GatePlace, GatePlaces, ChildStages
  <1>4. BoardRestored'
      BY <1>1, <1>2 DEF BoardRestored, Gate!Images, GatePlace
  <1>5. QED
      BY <1>3, <1>4

\* A child that failed, or was killed by the timeout of the gate, is an error of the gate.
LEMMA ChildErrorStep ==
  ASSUME GateInv, Gate!ChildFailed \/ Gate!ChildTimeout
  PROVE  GateInv'
  <1>1. /\ child # NoProc /\ child \in Procs /\ stage \in ChildStages
        /\ GatePlace /\ ProcsTyped /\ OneChild /\ BoardRestored /\ orphaned \in BOOLEAN
      BY DEF GateInv, OneChild, GatePlace, Gate!ChildFailed, Gate!ChildTimeout
  <1>2. stage \notin {"finish", "done"}
      BY <1>1 DEF ChildStages
  <1>3. CASE Gate!ChildFailed
    <2>1. OneChild' /\ RunKnown' /\ ProcsTyped' /\ UNCHANGED <<board, running>>
        BY <1>1, <1>3, ChildGone DEF Gate!ChildFailed
    <2>2. Gate!Record(TRUE) /\ orphaned' \in BOOLEAN
        BY <1>1, <1>3 DEF Gate!ChildFailed
    <2>3. QED
        BY <1>1, <1>2, <2>1, <2>2, ErrorPlaced DEF GateInv
  <1>4. CASE Gate!ChildTimeout
    <2>1. /\ Gate!Record(TRUE) /\ child' = NoProc
          /\ orphaned' = (orphaned \/ tool[child] # Gate!NoTool)
          /\ gatePc' = [gatePc EXCEPT ![child] = "killed"]
          /\ gateLock' = IF gateLock = child THEN NoProc ELSE gateLock
          /\ tty' = IF tty = child THEN NoProc ELSE tty
          /\ UNCHANGED <<op, want, err, gateReport, snapshot, programmed, tool, board, running>>
        BY <1>4 DEF Gate!ChildTimeout, Gate!Killed, Gate!boardVars
    <2>2. orphaned' \in BOOLEAN
        BY <2>1
    <2>3. GatePlace' /\ BoardRestored'
        BY <1>1, <1>2, <2>1, <2>2, ErrorPlaced
    <2>4. ProcsTyped'
      <3>1. /\ err' \in [Procs -> BOOLEAN]
            /\ gateReport' \in [Procs -> {"none", "running", "failed", "ok"}]
            /\ snapshot' \in [Procs -> [Gate!Images -> Manifests \cup {Other}]]
            /\ programmed' \in [Procs -> Nat]
            /\ tool' \in [Procs -> [job : {"none", "program", "reset", "server", "exited"},
                                    busy : BOOLEAN]]
          BY <1>1, <2>1 DEF ProcsTyped
      <3>2. QED
          BY <1>1, <2>1, <3>1, TypesMove
    <2>5. gateLock' = NoProc /\ tty' = NoProc
        BY <1>1, <2>1 DEF OneChild
    <2>6. \A q \in Procs : gatePc'[q] \in {"idle", "killed"}
        BY <1>1, <2>1 DEF OneChild, ProcsTyped
    <2>7. ~orphaned' => \A q \in Procs : tool'[q] = Gate!NoTool
        BY <1>1, <2>1 DEF OneChild
    <2>8. OneChild' /\ RunKnown'
        BY <2>1, <2>5, <2>6, <2>7 DEF OneChild, RunKnown, Gate!NoTool
    <2>9. QED
        BY <2>3, <2>4, <2>8 DEF GateInv
  <1>5. QED
      BY <1>3, <1>4

\* An error between two children.
LEMMA RaiseStep ==
  ASSUME GateInv, Gate!GateRaises
  PROVE  GateInv'
  <1>1. /\ UNCHANGED <<op, want, gatePc, err, gateReport, snapshot, programmed, tool, gateLock,
                       tty, board, running, child, orphaned>>
        /\ Gate!Record(TRUE) /\ stage \notin {"finish", "done"} /\ child = NoProc
      BY DEF Gate!GateRaises, Gate!vars, Gate!procVars, Gate!boardVars
  <1>2. GatePlace' /\ BoardRestored'
      BY <1>1, ErrorPlaced DEF GateInv, GatePlace
  <1>3. ProcsTyped'
      BY <1>1 DEF GateInv, ProcsTyped, Gate!NoTool, Gate!Images
  <1>4. OneChild' /\ RunKnown'
      BY <1>1 DEF GateInv, OneChild, RunKnown, Gate!NoTool
  <1>5. QED
      BY <1>2, <1>3, <1>4 DEF GateInv

\* The slot of an orphan is freed.
LEMMA ReapStep ==
  ASSUME GateInv, NEW c \in Procs, Gate!Reap(c)
  PROVE  GateInv'
  <1>1. /\ UNCHANGED <<stage, iteration, child, hardware_started, operation_error,
                       restoration_error, status, claimed, orphaned>>
        /\ Gate!Cleared(c) /\ gatePc[c] = "killed"
      BY DEF Gate!Reap, Gate!gateVars
  <1>2. OneChild /\ ProcsTyped /\ RunKnown /\ BoardRestored /\ NoProc \notin Procs
      BY CommandsAssumption DEF GateInv, Gate!ConstantsOk
  <1>3. child # c
    <2>1. ASSUME child = c PROVE FALSE
      <3>1. /\ child # NoProc /\ stage \in ChildStages /\ op[child] = Gate!Job(stage).op
            /\ gatePc[child] \in PlanSteps(op[child]) \cup {"ended"}
          BY <1>2, <2>1 DEF OneChild
      <3>2. gatePc[child] \in Gate!Steps \cup {"ended"}
          BY <3>1, ChildJob, StepOrder
      <3>3. QED
          BY <1>1, <2>1, <3>2 DEF Gate!Steps
    <2>2. QED
        BY <2>1
  <1>4. /\ ProcsTyped'
        /\ gatePc' = [gatePc EXCEPT ![c] = "idle"]
        /\ UNCHANGED <<board, running, gateLock>>
        /\ \A q \in Procs : q # c =>
             /\ op'[q] = op[q] /\ want'[q] = want[q] /\ err'[q] = err[q]
             /\ gateReport'[q] = gateReport[q] /\ snapshot'[q] = snapshot[q]
             /\ programmed'[q] = programmed[q] /\ tool'[q] = tool[q]
        /\ tool'[c] = Gate!NoTool
        /\ tty' = IF tty = c THEN NoProc ELSE tty
      BY <1>1, ClearedSlot
  <1>5. \A q \in Procs : q # c => gatePc'[q] = gatePc[q]
      BY <1>2, <1>4 DEF ProcsTyped
  <1>6. OneChild'
    <2>1. /\ \A q \in Procs : q # child' => gatePc'[q] \in {"idle", "killed"}
          /\ tty' \in {NoProc, child'} /\ child' \in Procs \cup {NoProc}
        BY <1>1, <1>2, <1>4 DEF OneChild, ProcsTyped
    <2>2. ~orphaned' => \A q \in Procs : q # child' => tool'[q] = Gate!NoTool
        BY <1>1, <1>2, <1>4 DEF OneChild
    <2>3. child # NoProc => /\ op'[child] = op[child] /\ want'[child] = want[child]
                            /\ gatePc'[child] = gatePc[child]
        BY <1>2, <1>3, <1>4, <1>5 DEF OneChild
    <2>4. QED
        BY <1>1, <1>2, <1>4, <2>1, <2>2, <2>3 DEF OneChild, Gate!NoTool
  <1>7. RunKnown'
    <2>1. child # NoProc =>
            /\ op'[child] = op[child] /\ want'[child] = want[child]
            /\ gatePc'[child] = gatePc[child] /\ err'[child] = err[child]
            /\ gateReport'[child] = gateReport[child] /\ snapshot'[child] = snapshot[child]
            /\ programmed'[child] = programmed[child] /\ tool'[child] = tool[child]
        BY <1>2, <1>3, <1>4, <1>5 DEF OneChild
    <2>2. QED
        BY <1>1, <1>2, <1>4, <2>1 DEF RunKnown, Holds, Runs, Gate!NoTool, Gate!Images
  <1>8. GatePlace' /\ BoardRestored'
      BY <1>1, <1>2, <1>4 DEF GateInv, GatePlace, BoardRestored, Holds, Runs, Gate!Images
  <1>9. QED
      BY <1>4, <1>6, <1>7, <1>8 DEF GateInv

\* Every child begins with load_manifest().
LEMMA LoadFirst ==
  ASSUME NEW o \in ChildOps
  PROVE  "load" \in PlanSteps(o)
  <1>1. 1 \in DOMAIN Gate!Plan(o) /\ Gate!Plan(o)[1] = "load"
    <2>1. CASE o = "run"
        BY <2>1 DEF Gate!Plan, Gate!RunPlan
    <2>2. CASE o = "gdb"
        BY <2>2 DEF Gate!Plan
    <2>3. CASE o = "flash"
        BY <2>3 DEF Gate!Plan
    <2>4. CASE o = "debug"
        BY <2>4 DEF Gate!Plan
    <2>5. QED
        BY <2>1, <2>2, <2>3, <2>4 DEF ChildOps
  <1>2. QED
      BY <1>1 DEF PlanSteps

\* A child is started in a free slot, before its first step (_run_p0_child).
LEMMA SpawnStep ==
  ASSUME GateInv, NEW c \in Procs, Gate!Spawns(c)
  PROVE  GateInv'
  <1> DEFINE o == Gate!Job(stage).op
             m == Gate!Job(stage).manifest
  <1>1. /\ stage \in ChildStages /\ child = NoProc /\ gatePc[c] = "idle" /\ child' = c
        /\ op' = [op EXCEPT ![c] = o] /\ want' = [want EXCEPT ![c] = m]
        /\ gatePc' = [gatePc EXCEPT ![c] = "load"]
        /\ gateReport' = [gateReport EXCEPT ![c] = "running"] /\ hardware_started' = TRUE
        /\ UNCHANGED <<err, snapshot, programmed, tool, gateLock, tty, board, running, stage,
                       iteration, operation_error, restoration_error, status, claimed, orphaned>>
      BY DEF Gate!Spawns, Gate!Start, Gate!boardVars, Gate!HardwareStages, ChildStages
  <1>2. OneChild /\ ProcsTyped /\ NoProc \notin Procs
      BY CommandsAssumption DEF GateInv, Gate!ConstantsOk
  <1>3. /\ o \in ChildOps \cap Gate!Ops /\ m \in Manifests
        /\ "load" \in PlanSteps(o) /\ "load" \in Gate!Steps
    <2>1. o \in ChildOps \cap Gate!Ops /\ m \in Manifests
        BY <1>1, ChildJob
    <2>2. QED
        BY <2>1, LoadFirst DEF Gate!Steps
  <1>4. ~err[c] /\ programmed[c] = 0 /\ tool[c] = Gate!NoTool
      BY <1>1, <1>2 DEF ProcsTyped
  <1>5. GatePlace'
      BY <1>1 DEF GateInv, GatePlace, ChildStages
  <1>6. ProcsTyped'
    <2>1. /\ op' \in [Procs -> Gate!Ops] /\ want' \in [Procs -> Manifests]
          /\ gatePc' \in [Procs -> Gate!Steps \cup {"idle", "ended", "killed"}]
          /\ gateReport' \in [Procs -> {"none", "running", "failed", "ok"}]
        BY <1>1, <1>2, <1>3 DEF ProcsTyped
    <2>2. \A q \in Procs : gatePc'[q] = "idle" =>
              ~err'[q] /\ programmed'[q] = 0 /\ tool'[q] = Gate!NoTool
        BY <1>1, <1>2 DEF ProcsTyped
    <2>3. QED
        BY <1>1, <1>2, <2>1, <2>2 DEF ProcsTyped, Gate!NoTool, Gate!Images
  <1>7. OneChild'
    <2>1. op'[c] = o /\ want'[c] = m /\ gatePc'[c] = "load"
        BY <1>1, <1>2 DEF ProcsTyped
    <2>2. \A q \in Procs : q # c => gatePc'[q] \in {"idle", "killed"}
        BY <1>1, <1>2 DEF OneChild, ProcsTyped
    <2>3. gateLock' = NoProc /\ tty' = NoProc
        BY <1>1, <1>2 DEF OneChild
    <2>4. ~orphaned' => \A q \in Procs : tool'[q] = Gate!NoTool
        BY <1>1, <1>2 DEF OneChild
    <2>5. Gate!Job(stage') = Gate!Job(stage)
        BY <1>1
    <2>6. QED
        BY <1>1, <1>3, <2>1, <2>2, <2>3, <2>4, <2>5 DEF OneChild, Locked, Gate!NoTool
  <1>8. RunKnown'
    <2>1. /\ gatePc'[c] = "load" /\ ~err'[c] /\ programmed'[c] = 0
          /\ tool'[c] = Gate!NoTool /\ gateReport'[c] = "running"
        BY <1>1, <1>2, <1>4 DEF ProcsTyped
    <2>2. QED
        BY <1>1, <2>1 DEF RunKnown, Gate!NoTool
  <1>9. BoardRestored'
      BY <1>1 DEF GateInv, BoardRestored, ChildStages, Gate!Images
  <1>10. QED
      BY <1>5, <1>6, <1>7, <1>8, <1>9 DEF GateInv

\* The checks before the first child, and the report after the last.
LEMMA EdgeStep ==
  ASSUME GateInv, Gate!Audit \/ Gate!Finish
  PROVE  GateInv'
  <1>1. /\ UNCHANGED <<op, want, gatePc, err, gateReport, snapshot, programmed, tool, gateLock,
                       tty, board, running, iteration, child, hardware_started,
                       operation_error, restoration_error, orphaned>>
        /\ \/ stage = "audit" /\ stage' = "cycle" /\ UNCHANGED <<status, claimed>>
           \/ /\ stage = "finish" /\ stage' = "done"
              /\ status' = IF operation_error \/ restoration_error THEN "failed" ELSE "ok"
              /\ claimed' = (hardware_started /\ ~restoration_error)
      BY DEF Gate!Audit, Gate!Finish, Gate!vars, Gate!procVars, Gate!boardVars
  <1>2. child = NoProc
      BY <1>1 DEF GateInv, OneChild, ChildStages
  <1>3. GatePlace'
      BY <1>1 DEF GateInv, GatePlace, GatePlaces, ChildStages
  <1>4. ProcsTyped'
      BY <1>1 DEF GateInv, ProcsTyped, Gate!NoTool, Gate!Images
  <1>5. OneChild' /\ RunKnown'
      BY <1>1, <1>2 DEF GateInv, OneChild, RunKnown, Gate!NoTool
  <1>6. BoardRestored'
      BY <1>1 DEF GateInv, BoardRestored, Holds, Runs, Gate!Images
  <1>7. QED
      BY <1>3, <1>4, <1>5, <1>6 DEF GateInv

\* Every step of the gate, of a child and of a vendor program keeps GateInv.
LEMMA GateStep ==
  ASSUME GateInv, Gate!GateNext
  PROVE  GateInv'
  <1>1. CASE Gate!GateStep
      BY <1>1, EdgeStep, ChildOkStep, ChildErrorStep, RaiseStep, SpawnStep DEF Gate!GateStep
  <1>2. CASE \E c \in Procs : Gate!Reap(c)
      BY <1>2, ReapStep
  <1>3. CASE /\ \/ \E p \in Procs : Gate!Step(p) \/ Gate!Device(p)
                \/ Gate!EmitToken
             /\ UNCHANGED Gate!gateVars
      BY <1>3, ChildSteps, DeviceStep, TokenStep
  <1>4. QED
      BY <1>1, <1>2, <1>3 DEF Gate!GateNext

\* The gate starts with idle slots and a board of any content.
LEMMA GateStart ==
  ASSUME Gate!GateInit
  PROVE  GateInv
  <1>1. /\ (CHOOSE m \in Manifests : TRUE) \in Manifests /\ Cycles \in Nat \ {0}
      BY CommandsAssumption DEF Gate!ConstantsOk
  <1>2. GatePlace
    <2>1. 0 \in Nat /\ 0 < Cycles
        BY <1>1
    <2>2. QED
        BY <2>1 DEF Gate!GateInit, GatePlace, GatePlaces
  <1>3. ProcsTyped
      BY <1>1 DEF Gate!GateInit, Gate!Init, ProcsTyped, Gate!Ops, Gate!NoTool
  <1>4. OneChild /\ RunKnown
      BY DEF Gate!GateInit, Gate!Init, OneChild, RunKnown, Gate!NoTool
  <1>5. BoardRestored
      BY DEF Gate!GateInit, Gate!Init, BoardRestored
  <1>6. QED
      BY <1>2, <1>3, <1>4, <1>5 DEF GateInv

\* A gate that is done tells the truth of the board, of its cycles and of its children.
LEMMA GateHolds ==
  ASSUME GateInv
  PROVE  Gate!RestoredClaim /\ Gate!OkMeansComplete
  <1>1. Gate!RestoredClaim
      BY DEF GateInv, GatePlace, BoardRestored, Holds, Runs, Gate!RestoredClaim
  <1>2. ASSUME status = "ok"
        PROVE  /\ iteration = Cycles /\ child = NoProc /\ gateLock = NoProc /\ tty = NoProc
               /\ \A i \in Gate!Images : board[i] = Normal
    <2>1. /\ stage = "done" /\ ~operation_error /\ ~restoration_error /\ ~orphaned
          /\ hardware_started /\ iteration = Cycles
        BY <1>2 DEF GateInv, GatePlace
    <2>2. child = NoProc /\ gateLock = NoProc /\ tty = NoProc
        BY <2>1 DEF GateInv, OneChild, ChildStages
    <2>3. Holds(Normal)
        BY <2>1 DEF GateInv, BoardRestored
    <2>4. QED
        BY <2>1, <2>2, <2>3 DEF Holds
  <1>3. QED
      BY <1>1, <1>2 DEF Gate!OkMeansComplete

-----------------------------------------------------------------------------
(***************************************************************************)
(* The commands                                                            *)
(***************************************************************************)
\* A command that runs satisfies the invariant of its module; the others have no state.
CommandInv ==
    /\ command = "openocd" => OcdInv
    /\ command = "reference" => ReferenceInv
    /\ command = "inspect" => HexInv
    /\ command = "m2-gate" => GateInv

\* The audit of an image begins with a file of at least one record and an empty map.
LEMMA HexStart ==
  ASSUME Hex!Init
  PROVE  HexInv
  <1>1. PICK n \in 1..MaxRecords : records \in [1..n -> Hex!Records]
      BY DEF Hex!Init, Hex!Files
  <1>2. n \in Nat \ {0}
      BY CommandsAssumption DEF Hex!ConstantsOk
  <1>3. records \in Seq(Hex!Records) /\ Len(records) = n
      BY <1>1, <1>2
  <1>4. HexTyped
    <2>1. k = 0 /\ eof = FALSE /\ hexPc = "parse"
        BY DEF Hex!Init
    <2>2. Len(records) >= 1 /\ 0 \in 0..Len(records)
        BY <1>2, <1>3
    <2>3. QED
        BY <1>3, <2>1, <2>2 DEF HexTyped
  <1>5. RecordsRead
    <2>1. \A i \in 1..(k + 1) : i = 1
        BY DEF Hex!Init
    <2>2. Hex!BaseAt(1) = 0
        BY BaseMoves
    <2>3. QED
        BY <2>1, <2>2 DEF Hex!Init, RecordsRead
  <1>6. MemoryRead
      BY DEF Hex!Init, MemoryRead
  <1>7. RangesScanned
      BY DEF Hex!Init, RangesScanned
  <1>8. Audited
      BY DEF Hex!Init, Audited, Hex!RejectedIsWrong
  <1>9. QED
      BY <1>4, <1>5, <1>6, <1>7, <1>8 DEF HexInv

\* Every step of the audit keeps HexInv.
LEMMA HexStep ==
  ASSUME HexInv, Hex!Next
  PROVE  HexInv'
  BY ParseStep, EndOfRecordsStep, ScanStep, EndOfScanStep, CheckStep DEF Hex!Next

\* The invariants hold when a command begins, whatever is on the boards, in the workspace
\* and in the file (main).
LEMMA CommandStart == Init => CommandInv
  <1>1. ASSUME Ocd!Init PROVE OcdInv
    <2>1. OcdTyped /\ BackupsKept
        BY <1>1 DEF Ocd!Init, OcdTyped, BackupsKept, OcdPlaces, Ocd!NoReport
    <2>2. DumpCurrent /\ BackupChosen /\ SessionNamed
        BY <1>1 DEF Ocd!Init, DumpCurrent, BackupChosen, SessionNamed, Halts
    <2>3. ReportHonest
        BY <1>1 DEF Ocd!Init, ReportHonest, Ocd!NoReport, Ocd!ClaimsHold, Ocd!StateHolds
    <2>4. QED
        BY <2>1, <2>2, <2>3 DEF OcdInv
  <1>2. ASSUME Reference!Init PROVE ReferenceInv
      BY <1>2 DEF Reference!Init, ReferenceInv, OneAtATime, ReceiptRead, BuildFromReceipt,
         BuildPlaces, Reference!ManifestOfBuild, Reference!BindsToolchain,
         Reference!BindsModules
  <1>3. QED
      BY <1>1, <1>2, HexStart, GateStart DEF Init, CommandInv

\* A step that changes nothing changes no invariant.
LEMMA CommandRests ==
  ASSUME UNCHANGED vars
  PROVE  /\ OcdInv => OcdInv'
         /\ ReferenceInv => ReferenceInv'
         /\ HexInv => HexInv'
         /\ GateInv => GateInv'
  <1>1. UNCHANGED <<ocdVars, referenceVars, hexVars, gateVars>>
      BY DEF vars
  <1>2. OcdInv => OcdInv'
    <2>1. (OcdTyped => OcdTyped') /\ (BackupsKept => BackupsKept')
        BY <1>1 DEF ocdVars, OcdTyped, BackupsKept, Ocd!Regions
    <2>2. (DumpCurrent => DumpCurrent') /\ (BackupChosen => BackupChosen')
        BY <1>1 DEF ocdVars, DumpCurrent, BackupChosen, Ocd!Part, Ocd!Regions
    <2>3. (SessionNamed => SessionNamed') /\ (ReportHonest => ReportHonest')
        BY <1>1 DEF ocdVars, SessionNamed, ReportHonest, Ocd!ClaimsHold, Ocd!StateHolds,
           Ocd!Part, Ocd!Regions
    <2>4. QED
        BY <2>1, <2>2, <2>3 DEF OcdInv
  <1>3. ReferenceInv => ReferenceInv'
      BY <1>1 DEF referenceVars, ReferenceInv, OneAtATime, ReceiptRead, BuildFromReceipt,
         Reference!ManifestOfBuild, Reference!BindsToolchain, Reference!BindsModules
  <1>4. HexInv => HexInv'
    <2>1. UNCHANGED <<records, k, hexMemory, base, eof, hexPc, todo, start, previous,
                      hexRanges>>
        BY <1>1 DEF hexVars
    <2>2. /\ \A i : Hex!BaseAt(i)' = Hex!BaseAt(i) /\ IsData(i)' = IsData(i)
          /\ \A i, n : Place(i, n)' = Place(i, n)
          /\ \A a : InRanges(a)' = InRanges(a)
        BY <2>1 DEF Hex!BaseAt, Hex!IsBase, IsData, Place, InRanges
    <2>3. (HexTyped => HexTyped') /\ (RecordsRead => RecordsRead')
        BY <2>1, <2>2 DEF HexTyped, RecordsRead
    <2>4. MemoryRead => MemoryRead'
        BY <2>1, <2>2 DEF MemoryRead
    <2>5. RangesScanned => RangesScanned'
        BY <2>1, <2>2 DEF RangesScanned
    <2>6. Hex!Faulty' <=> Hex!Faulty
        BY <2>1 DEF Hex!Faulty, Hex!Written, Hex!Addresses, Hex!DataAt, Hex!BaseAt, Hex!IsBase
    <2>7. Audited => Audited'
        BY <2>1, <2>6 DEF Audited, Hex!RejectedIsWrong
    <2>8. QED
        BY <2>3, <2>4, <2>5, <2>7 DEF HexInv
  <1>5. GateInv => GateInv'
    <2>1. (GatePlace => GatePlace') /\ (ProcsTyped => ProcsTyped')
        BY <1>1 DEF gateVars, GatePlace, ProcsTyped
    <2>2. (OneChild => OneChild') /\ (RunKnown => RunKnown') /\ (BoardRestored => BoardRestored')
        BY <1>1 DEF gateVars, OneChild, RunKnown, BoardRestored, Holds, Runs
    <2>3. QED
        BY <2>1, <2>2 DEF GateInv
  <1>6. QED
      BY <1>2, <1>3, <1>4, <1>5

\* Every step of the process keeps the invariants: it runs one command, and leaves the
\* state of the others alone.
LEMMA CommandStep == CommandInv /\ [Next]_vars => CommandInv'
  <1> SUFFICES ASSUME CommandInv, [Next]_vars PROVE CommandInv'
      OBVIOUS
  <1>1. CASE OcdRuns(Ocd!Next)
    <2>1. command = "openocd" /\ UNCHANGED command /\ Ocd!Next
        BY <1>1 DEF OcdRuns
    <2>2. OcdInv'
        BY <2>1, OcdStep DEF CommandInv
    <2>3. QED
        BY <2>1, <2>2 DEF CommandInv
  <1>2. CASE ReferenceRuns(Reference!Next)
    <2>1. command = "reference" /\ UNCHANGED command /\ Reference!Next
        BY <1>2 DEF ReferenceRuns
    <2>2. ReferenceInv'
        BY <2>1, ReferenceStep DEF CommandInv
    <2>3. QED
        BY <2>1, <2>2 DEF CommandInv
  <1>3. CASE HexRuns(Hex!Next)
    <2>1. command = "inspect" /\ UNCHANGED command /\ Hex!Next
        BY <1>3 DEF HexRuns
    <2>2. HexInv'
        BY <2>1, HexStep DEF CommandInv
    <2>3. QED
        BY <2>1, <2>2 DEF CommandInv
  <1>4. CASE GateRuns(Gate!GateNext)
    <2>1. command = "m2-gate" /\ UNCHANGED command /\ Gate!GateNext
        BY <1>4 DEF GateRuns
    <2>2. GateInv'
        BY <2>1, GateStep DEF CommandInv
    <2>3. QED
        BY <2>1, <2>2 DEF CommandInv
  <1>5. CASE UNCHANGED vars
    <2>1. UNCHANGED command
        BY <1>5 DEF vars
    <2>2. QED
        BY <1>5, <2>1, CommandRests DEF CommandInv
  <1>6. QED
      BY <1>1, <1>2, <1>3, <1>4, <1>5 DEF Next

\* Every reachable state of a command satisfies its invariant.
THEOREM CommandsCorrect == Spec => []CommandInv
  BY CommandStart, CommandStep, PTL DEF Spec

\* What clear-rram destroyed is in a published backup of the same board, for any number of
\* boards and commands, even if a board is swapped between the sessions of a restore.
THEOREM ClearAlwaysRecoverable == Spec => [](command = "openocd" => Ocd!ClearRecoverable)
  <1>1. CommandInv => (command = "openocd" => Ocd!ClearRecoverable)
      BY DEF CommandInv, OcdInv, BackupsKept, Ocd!ClearRecoverable
  <1>2. QED
      BY <1>1, CommandsCorrect, PTL

\* The claims and the target state of the last OpenOCD report hold for the board that it
\* names, as long as no board is swapped between the two sessions of a restore.
THEOREM ReportsAlwaysHold ==
  ASSUME ~SwapInRestore
  PROVE  Spec => []ReportsHold
  <1>1. CommandInv => ReportsHold
      BY DEF CommandInv, OcdInv, BackupsKept, ReportHonest, ReportsHold, Ocd!ClearRecoverable
  <1>2. QED
      BY <1>1, CommandsCorrect, PTL

\* A manifest describes what is in the build directory, from a west that succeeded, even
\* if a preparation ran during the build.
THEOREM ManifestAlwaysOfBuild ==
  Spec => [](command = "reference" => Reference!ManifestOfBuild)
  <1>1. CommandInv => (command = "reference" => Reference!ManifestOfBuild)
      BY DEF CommandInv, ReferenceInv
  <1>2. QED
      BY <1>1, CommandsCorrect, PTL

\* A manifest binds what was compiled to the receipt that it names, for any number of
\* locks, toolchains and layouts, as long as no preparation runs during a build.
THEOREM ManifestAlwaysBinds ==
  ASSUME ~Overlap
  PROVE  Spec => []ManifestBinds
  <1>1. CommandInv => ManifestBinds
      BY DEF CommandInv, ReferenceInv, ManifestBinds
  <1>2. QED
      BY <1>1, CommandsCorrect, PTL

\* Every byte of an accepted file is allowed and has one value, and the ranges are its
\* addresses, whatever the allowlist is (parse_ihex, require_allowed).
THEOREM AcceptedAlwaysAllowed ==
  Spec => [](command = "inspect" =>
                 Hex!AcceptedIsAllowed /\ Hex!RangesExact /\ Hex!Unambiguous)
  <1>1. CommandInv => (command = "inspect" =>
                           Hex!AcceptedIsAllowed /\ Hex!RangesExact /\ Hex!Unambiguous)
      BY AuditHolds DEF CommandInv
  <1>2. QED
      BY <1>1, CommandsCorrect, PTL

\* The audit of an image is exact for every file, address space and set of forbidden
\* ranges, if no two ranges of the allowlist overlap (parse_ihex, require_allowed).
THEOREM AuditAlwaysExact ==
  ASSUME WindowsApart
  PROVE  Spec => []AuditExact
  <1>1. CommandInv => AuditExact
      BY AuditHolds DEF CommandInv, AuditExact
  <1>2. QED
      BY <1>1, CommandsCorrect, PTL

\* The report of m2-gate may be believed, for any number of cycles, images and slots,
\* whichever child fails, is killed or leaves a vendor program behind (command_m2_gate).
THEOREM GateAlwaysRestores == Spec => []GateRestores
  <1>1. CommandInv => GateRestores
      BY GateHolds DEF CommandInv, GateRestores
  <1>2. QED
      BY <1>1, CommandsCorrect, PTL
=============================================================================
