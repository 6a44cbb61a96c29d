------------------------------ MODULE IntelHex ------------------------------
(***************************************************************************)
(* The audit of a programming image (tools/nrfkit_tools/image.py):         *)
(* parse_ihex() reads the records in order into a memory map, _ranges()    *)
(* turns the addresses into ranges in one scan, and require_allowed()      *)
(* compares each range with the forbidden regions and the allowlist. What  *)
(* passes is what the programmer writes.                                   *)
(*                                                                         *)
(* Addresses are scaled down: a record has an offset below Bank, the       *)
(* linear and the segment base count banks and half banks.                 *)
(***************************************************************************)
EXTENDS Integers, Sequences, FiniteSets

CONSTANTS
    Bank,        \* addresses of a linear bank (64 KiB), even
    Limit,       \* size of the address space (2^32)
    Payloads,    \* payloads of data records, nonempty sequences of bytes
    MaxRecords,  \* bound on the records of a file
    Forbidden,   \* forbidden ranges, pairs <<start, end>>
    Allowlist    \* allowed ranges of the manifest

ConstantsOk ==
    /\ Bank \in Nat \ {0} /\ Bank % 2 = 0 /\ Limit \in Nat /\ MaxRecords \in Nat
    /\ Payloads \subseteq Seq(Nat) \ {<<>>}
    /\ Forbidden \cup Allowlist \subseteq Nat \X Nat
    /\ \A f \in Forbidden : f[1] < f[2]

\* Records with a good marker, length and checksum; a bad one raises in any case.
DataRecords == [kind : {"data"}, offset : 0..(Bank - 1), payload : Payloads]
BaseRecords == [kind : {"segment", "linear"}, base : 0..1]
Records     == DataRecords \cup BaseRecords \cup [kind : {"start", "eof"}]

VARIABLES
    records,   \* the file
    k,         \* records parsed
    memory,    \* address -> value
    base, eof,
    pc,        \* "parse", "scan", "check", "accepted" or "rejected"
    todo,      \* addresses that the scan has not reached
    start, previous, ranges

vars == <<records, k, memory, base, eof, pc, todo, start, previous, ranges>>

Files == UNION {[1..n -> Records] : n \in 1..MaxRecords}

Init ==
    /\ records \in Files
    /\ k = 0 /\ memory = <<>> /\ base = 0 /\ eof = FALSE
    /\ pc = "parse" /\ todo = {} /\ start = 0 /\ previous = 0 /\ ranges = <<>>

-----------------------------------------------------------------------------
SetMin(S) == CHOOSE x \in S : \A y \in S : x <= y

Reject == pc' = "rejected" /\ UNCHANGED <<memory, base, eof>>

Accept == UNCHANGED pc

\* Addresses of a record with the given base.
Span(r, b) == {b + r.offset + i - 1 : i \in DOMAIN r.payload}

\* A data record: its end, then every byte, which must agree with an earlier one.
Data(r) ==
    IF \/ base + r.offset + Len(r.payload) > Limit
       \/ \E a \in Span(r, base) \cap DOMAIN memory :
             memory[a] # r.payload[a - base - r.offset + 1]
    THEN Reject
    ELSE /\ memory' = [a \in DOMAIN memory \cup Span(r, base) |->
                          IF a \in DOMAIN memory THEN memory[a]
                          ELSE r.payload[a - base - r.offset + 1]]
         /\ UNCHANGED <<base, eof>> /\ Accept

\* A segment record shifts by 4, a linear one by 16; each replaces the base.
SetBase(r) ==
    /\ base' = IF r.kind = "segment" THEN r.base * (Bank \div 2) ELSE r.base * Bank
    /\ UNCHANGED <<memory, eof>> /\ Accept

\* The next record; a record after the end of file raises.
Parse ==
    /\ pc = "parse" /\ k < Len(records)
    /\ k' = k + 1
    /\ LET r == records[k + 1] IN
       CASE eof -> Reject
         [] ~eof /\ r.kind = "data" -> Data(r)
         [] ~eof /\ r.kind \in {"segment", "linear"} -> SetBase(r)
         [] ~eof /\ r.kind = "start" -> Accept /\ UNCHANGED <<memory, base, eof>>
         [] ~eof /\ r.kind = "eof" -> eof' = TRUE /\ Accept /\ UNCHANGED <<memory, base>>
    /\ UNCHANGED <<records, todo, start, previous, ranges>>

\* No end of file raises, and so does an image without data.
EndOfRecords ==
    /\ pc = "parse" /\ k = Len(records)
    /\ IF ~eof \/ DOMAIN memory = {}
       THEN pc' = "rejected" /\ UNCHANGED <<todo, start, previous>>
       ELSE /\ start' = SetMin(DOMAIN memory) /\ previous' = start'
            /\ todo' = DOMAIN memory \ {start'}
            /\ pc' = "scan"
    /\ UNCHANGED <<records, k, memory, base, eof, ranges>>

\* Mutant of Scan: the start of a new range is not moved.
MutantScan ==
    /\ pc = "scan" /\ todo # {}
    /\ LET address == SetMin(todo) IN
       /\ ranges' = IF address # previous + 1 THEN Append(ranges, <<start, previous + 1>>)
                    ELSE ranges
       /\ previous' = address
       /\ todo' = todo \ {address}
    /\ UNCHANGED <<records, k, memory, base, eof, pc, start>>

\* The addresses in increasing order; a gap closes the current range.
Scan ==
    /\ pc = "scan" /\ todo # {}
    /\ LET address == SetMin(todo) IN
       /\ IF address # previous + 1
          THEN ranges' = Append(ranges, <<start, previous + 1>>) /\ start' = address
          ELSE UNCHANGED <<ranges, start>>
       /\ previous' = address
       /\ todo' = todo \ {address}
    /\ UNCHANGED <<records, k, memory, base, eof, pc>>

EndOfScan ==
    /\ pc = "scan" /\ todo = {}
    /\ ranges' = Append(ranges, <<start, previous + 1>>)
    /\ pc' = "check"
    /\ UNCHANGED <<records, k, memory, base, eof, todo, start, previous>>

\* The comparisons of require_allowed() for one range.
RangeAllowed(r) ==
    /\ 0 <= r[1] /\ r[1] < r[2] /\ r[2] <= Limit
    /\ \A f \in Forbidden : ~(r[1] < f[2] /\ r[2] > f[1])
    /\ \E w \in Allowlist : r[1] >= w[1] /\ r[2] <= w[2]

Check ==
    /\ pc = "check"
    /\ pc' = IF \A i \in DOMAIN ranges : RangeAllowed(ranges[i]) THEN "accepted" ELSE "rejected"
    /\ UNCHANGED <<records, k, memory, base, eof, todo, start, previous, ranges>>

Next == Parse \/ EndOfRecords \/ Scan \/ EndOfScan \/ Check

Spec == Init /\ [][Next]_vars

-----------------------------------------------------------------------------
(***************************************************************************)
(* What a programmer writes, defined on the whole file                     *)
(***************************************************************************)
IsBase(i) == records[i].kind \in {"segment", "linear"}

\* The base in force at record i is that of the last base record before it.
BaseAt(i) ==
    LET before == {j \in 1..(i - 1) : IsBase(j)} IN
    IF before = {} THEN 0
    ELSE LET r == records[CHOOSE j \in before : \A m \in before : m <= j] IN
         IF r.kind = "segment" THEN r.base * (Bank \div 2) ELSE r.base * Bank

DataAt == {i \in DOMAIN records : records[i].kind = "data"}

\* All bytes that the records name, as pairs of an address and a value.
Written == UNION {{<<BaseAt(i) + records[i].offset + n - 1, records[i].payload[n]>> :
                      n \in DOMAIN records[i].payload} : i \in DataAt}

Addresses == {w[1] : w \in Written}

\* Every byte that an accepted file writes is in an allowed range and in no forbidden
\* one, wherever its records and bases put it.
AcceptedIsAllowed ==
    pc = "accepted" => \A w \in Written :
        /\ \E r \in Allowlist : r[1] <= w[1] /\ w[1] < r[2]
        /\ \A f \in Forbidden : ~(f[1] <= w[1] /\ w[1] < f[2])

\* The ranges of an accepted file are its addresses, in order and with a gap between
\* two of them: the manifest compares them with those recorded at build time.
RangesExact ==
    pc = "accepted" =>
        /\ Addresses = UNION {ranges[i][1]..(ranges[i][2] - 1) : i \in DOMAIN ranges}
        /\ \A i \in 1..(Len(ranges) - 1) : ranges[i][2] < ranges[i + 1][1]

\* An accepted file gives every address one value, and ends with its end record: what
\* is written does not depend on the order in which a programmer takes the records.
Unambiguous ==
    pc = "accepted" =>
        /\ \A v, w \in Written : v[1] = w[1] => v = w
        /\ \A i \in DOMAIN records : records[i].kind = "eof" <=> i = Len(records)

\* A file without one end record at its end, without data, with an address that has two
\* values, lies beyond the address space or in a forbidden range, or with two neighbours
\* that are not inside one allowed range.
Faulty ==
    \/ \E i \in DOMAIN records : ~(records[i].kind = "eof" <=> i = Len(records))
    \/ Written = {}
    \/ \E v, w \in Written : v[1] = w[1] /\ v # w
    \/ \E a \in Addresses : a >= Limit \/ \E f \in Forbidden : f[1] <= a /\ a < f[2]
    \/ \E a, b \in Addresses : /\ b \in {a, a + 1}
                               /\ ~\E r \in Allowlist : r[1] <= a /\ b < r[2]

\* The audit refuses only what is wrong: a file that is not faulty is not rejected (if no
\* two allowed ranges overlap).
RejectedIsWrong == pc = "rejected" => Faulty
=============================================================================
