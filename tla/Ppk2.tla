--------------------------------- MODULE Ppk2 --------------------------------
(***************************************************************************)
(* A session with the PPK2 (tools/nrfkit_tools/ppk2.py and ppk2_cli.py):   *)
(* the power session and the bounded capture with its decoder, over the    *)
(* firmware of the instrument.                                             *)
(*                                                                         *)
(* The firmware applies a voltage some time after the command, numbers the *)
(* samples with a counter that wraps, and switches the output off when the *)
(* serial connection closes. Samples may be lost on the way. A sample is   *)
(* its index in the stream; the host sees the index modulo Wrap.           *)
(***************************************************************************)
EXTENDS Naturals, Sequences

CONSTANTS
    Wrap,        \* 64 in the instrument
    Count,       \* samples of a capture
    MaxLost,     \* bound on the samples that are lost
    Voltages     \* of the output

ConstantsOk ==
    Wrap \in Nat \ {0, 1} /\ Count \in Nat \ {0, 1} /\ MaxLost \in Nat /\ Voltages # {}

VARIABLES
    pc,
    action,              \* "on", "off", "capture" or "cycle" (a capture with --power-cycle)
    voltage,             \* requested
    vdd,                 \* what metadata said last
    setting, applied,    \* regulator: commanded, in force
    output, by,          \* the output is on; this session switched it on
    streaming, produced, lost, wire,
    samples,             \* the words of samples.bin
    status

host == <<action, voltage>>
regulator == <<setting, applied, output, by>>
stream == <<streaming, produced, lost, wire>>
vars == <<pc, host, vdd, regulator, stream, samples, status>>

Init ==
    /\ pc = "metadata" /\ status = "running"
    /\ action \in {"on", "off", "capture", "cycle"} /\ voltage \in Voltages
    /\ setting \in Voltages /\ applied = setting /\ vdd = applied
    /\ output = FALSE /\ by = FALSE
    /\ streaming = FALSE /\ produced = 0 /\ lost = 0 /\ wire = <<>> /\ samples = <<>>

Goto(p) == pc' = p /\ UNCHANGED status

Powers == action \in {"on", "cycle"}

-----------------------------------------------------------------------------
(***************************************************************************)
(* The session                                                             *)
(***************************************************************************)
\* A capture without a power cycle demands the voltage that is set.
Metadata ==
    /\ pc = "metadata"
    /\ vdd' = applied
    /\ \/ Powers /\ Goto("off")
       \/ action = "off" /\ Goto("switch-off")
       \/ action = "capture" /\ applied = voltage /\ Goto("start")
       \/ Goto("cleanup") /\ action = "capture" /\ applied # voltage
    /\ UNCHANGED <<host, regulator, stream, samples>>

PowerOff ==
    /\ pc \in {"off", "switch-off"}
    /\ output' = FALSE
    /\ IF pc = "off" THEN Goto("configure") ELSE pc' = "cleanup" /\ status' = "ok"
    /\ UNCHANGED <<host, vdd, setting, applied, by, stream, samples>>

Configure ==
    /\ pc = "configure" /\ Goto("readback")
    /\ setting' = voltage
    /\ UNCHANGED <<host, vdd, applied, output, by, stream, samples>>

\* configure() repeats the reading until it agrees with the request.
Readback ==
    /\ pc = "readback"
    /\ vdd' = applied
    /\ Goto(IF applied = voltage THEN "on" ELSE "readback")
    /\ UNCHANGED <<host, regulator, stream, samples>>

\* A power session holds the output for its duration.
PowerOn ==
    /\ pc = "on"
    /\ output' = TRUE /\ by' = TRUE
    /\ IF action = "on" THEN pc' = "cleanup" /\ status' = "ok" ELSE Goto("start")
    /\ UNCHANGED <<host, vdd, setting, applied, stream, samples>>

\* capture(): the input buffer is reset and the stream started.
StartCapture ==
    /\ pc = "start" /\ Goto("capture")
    /\ streaming' = TRUE /\ wire' = <<>>
    /\ UNCHANGED <<host, vdd, regulator, produced, lost, samples>>

\* Takes what is there, at most what is still wanted.
Read(k) ==
    /\ pc = "capture" /\ k <= Len(wire) /\ Len(samples) + k <= Count
    /\ samples' = samples \o SubSeq(wire, 1, k)
    /\ wire' = SubSeq(wire, k + 1, Len(wire))
    /\ Goto(IF Len(samples') = Count THEN "stop" ELSE "capture")
    /\ UNCHANGED <<host, vdd, regulator, streaming, produced, lost>>

\* The stream is stopped and what is left of it drained, after a timeout as well.
StopCapture ==
    /\ pc = "stop" \/ pc = "capture"
    /\ streaming' = FALSE /\ wire' = <<>>
    /\ Goto(IF pc = "stop" THEN "decode" ELSE "cleanup")
    /\ UNCHANGED <<host, vdd, regulator, produced, lost, samples>>

\* Mutant of Follows: every sample with counter zero is taken for a wrap.
MutantFollows(a, b) == (b % Wrap) \in {(a % Wrap) + 1, 0}

\* Decoder.sample(): the counter of a word follows that of the word before.
Follows(a, b) == b % Wrap = ((a % Wrap) + 1) % Wrap

Continuous == \A i \in 1..(Len(samples) - 1) : Follows(samples[i], samples[i + 1])

Decode ==
    /\ pc = "decode"
    /\ pc' = "cleanup" /\ status' = (IF Continuous THEN "ok" ELSE "gap")
    /\ UNCHANGED <<host, vdd, regulator, stream, samples>>

\* Any step may raise: a short write, a timeout, a failed check or an interrupt.
Raise ==
    /\ pc \notin {"capture", "stop", "cleanup", "close", "done"}
    /\ pc' = "cleanup" /\ status' = "failed"
    /\ UNCHANGED <<host, vdd, regulator, stream, samples>>

\* The output is requested off if the session may have switched it on; that may fail.
Cleanup ==
    /\ pc = "cleanup"
    /\ \/ output' = (output /\ ~Powers) /\ Goto("close")
       \/ Powers /\ UNCHANGED output /\ pc' = "close" /\ status' = "failed"
    /\ UNCHANGED <<host, vdd, setting, applied, by, stream, samples>>

\* The connection closes, with the process at the latest, and the output with it.
Close ==
    /\ pc = "close"
    /\ output' = FALSE /\ pc' = "done"
    /\ status' = IF status = "running" THEN "failed" ELSE status
    /\ UNCHANGED <<host, vdd, setting, applied, by, stream, samples>>

(***************************************************************************)
(* The firmware of the instrument                                          *)
(***************************************************************************)
Apply ==
    /\ applied # setting /\ applied' = setting
    /\ UNCHANGED <<pc, host, vdd, setting, output, by, stream, samples, status>>

Sample ==
    /\ streaming /\ produced < Count + MaxLost
    /\ produced' = produced + 1
    /\ \/ wire' = Append(wire, produced) /\ UNCHANGED lost
       \/ lost < MaxLost /\ lost' = lost + 1 /\ UNCHANGED wire
    /\ UNCHANGED <<pc, host, vdd, regulator, streaming, samples, status>>

Next ==
    \/ Metadata \/ PowerOff \/ Configure \/ Readback \/ PowerOn \/ StartCapture
    \/ (\E k \in 1..Count : Read(k)) \/ StopCapture \/ Decode \/ Raise \/ Cleanup \/ Close
    \/ Apply \/ Sample

\* What a session does at the latest when a wait is over.
Ends == Raise \/ StopCapture \/ Decode \/ Cleanup \/ Close

Spec == Init /\ [][Next]_vars /\ WF_vars(Ends)

-----------------------------------------------------------------------------
\* The output that a session switches on carries the requested voltage: never the one
\* that was set before, although the firmware applies a setting late.
OutputAtRequest == output => applied = voltage

\* A capture that is reported continuous has every sample, unless a whole turn of the
\* counter was lost.
GapFree ==
    status = "ok" /\ samples # <<>> /\ lost < Wrap =>
        Len(samples) = Count /\ \A i \in 1..(Len(samples) - 1) : samples[i + 1] = samples[i] + 1

\* A capture that lost nothing is never refused as discontinuous.
NoFalseGap == status = "gap" => lost > 0

\* However a session ends, the output is off.
OffAtEnd == pc = "done" => ~output
=============================================================================
