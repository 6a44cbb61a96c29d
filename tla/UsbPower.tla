------------------------------- MODULE UsbPower ------------------------------
(***************************************************************************)
(* The USB power gate (m4-usb-power: run_host_resume_validation() and then *)
(* run_power_validation() of tools/nrfkit_tools/usb_validation.py) over    *)
(* Linux runtime power management and the validation firmware.             *)
(*                                                                         *)
(* The kernel suspends an idle device whose control is "auto"; opening it, *)
(* control "on", another program or the device's remote wakeup resumes it. *)
(* The gate polls the runtime status every 0.1 ms; the autosuspend delay   *)
(* that it sets and the wake delay are far longer, so that they do not     *)
(* pass between two polls, unless the delay is zero.                       *)
(***************************************************************************)
EXTENDS Naturals

CONSTANTS
    MaxSuspends,   \* bound on suspensions
    MaxResets,     \* bound on resumptions that reset the device
    Resumers       \* bound on resumptions by other programs

ConstantsOk ==
    MaxSuspends \in Nat /\ MaxResets \in Nat /\ Resumers \in Nat

VARIABLES
    pc, phase,                 \* "host" or "remote"
    attributes,                \* what the phase read of the power directory
    suspended, resumed,        \* what the phase has seen
    before,                    \* the status of the firmware before the phase
    status,
    power,                     \* control, autosuspend delay and wakeup policy
    runtime, polled,           \* runtime_status; it was read since it changed
    claimed,                   \* the gate has the device open
    armed, timer,              \* firmware: wake request, wake timer
    counts,                    \* firmware: configured, suspend, resume, wakeup
    cause,                     \* who resumed the device last
    seen,                      \* the cause of the resumption that the gate observed
    original,                  \* the power attributes before the gate
    others

seenflags == <<suspended, resumed, seen>>
kernel == <<runtime, polled, cause>>
firmware == <<armed, timer, counts>>
vars == <<pc, phase, attributes, seenflags, before, status, power, kernel, claimed, firmware,
          original, others>>

Attributes == [control : {"on", "auto"}, delay : {"default"}, wakeup : {"enabled", "disabled"}]

Init ==
    /\ pc = "open" /\ phase = "host" /\ status = "running"
    /\ power \in Attributes /\ original = power /\ attributes = power
    /\ suspended = FALSE /\ resumed = FALSE /\ seen = "none" /\ cause = "none"
    /\ runtime = "active" /\ polled = TRUE /\ claimed = FALSE
    /\ armed \in BOOLEAN          \* left by an interrupted gate
    /\ timer = FALSE
    /\ counts = [configured |-> 0, suspend |-> 0, resume |-> 0, wakeup |-> 0]
    /\ before = counts /\ others = 0

Goto(p) == pc' = p /\ UNCHANGED status
Fail == pc' = "done" /\ status' = "failed"

\* The device becomes active; a resumption cancels the wake timer of the firmware.
Activate(who) ==
    /\ runtime' = "active" /\ polled' = FALSE /\ cause' = who
    /\ timer' = FALSE /\ UNCHANGED armed
    /\ counts' = [counts EXCEPT !.resume = @ + 1,
                                !.wakeup = IF who = "device" THEN @ + 1 ELSE @]

-----------------------------------------------------------------------------
(***************************************************************************)
(* The gate                                                                *)
(***************************************************************************)
\* The attributes are read before anything is changed. The remote phase enables the
\* wakeup policy and leaves a visible interval after the wakeup.
Open ==
    /\ pc = "open"
    /\ attributes' = power
    /\ \/ phase = "host" /\ UNCHANGED power /\ Goto("claim")
       \/ phase = "remote" /\ Goto("claim")
            /\ power' = [power EXCEPT !.wakeup = "enabled", !.delay = "second"]
       \/ phase = "remote" /\ UNCHANGED power /\ Goto("unwind")   \* no permission
       \/ UNCHANGED power /\ Fail                                 \* no device
    /\ UNCHANGED <<phase, seenflags, before, kernel, claimed, firmware, original, others>>

\* Claiming opens the device, which resumes it and keeps it active.
Claim ==
    /\ pc \in {"claim", "reclaim"} /\ ~claimed
    /\ claimed' = TRUE
    /\ IF runtime = "suspended" THEN Activate("open") ELSE UNCHANGED <<kernel, firmware>>
    /\ UNCHANGED <<pc, phase, attributes, seenflags, before, status, power, original, others>>

\* The host phase cancels a wake request, the remote phase makes one.
Prepare ==
    /\ pc = "claim" /\ claimed /\ claimed' = FALSE
    /\ before' = counts
    /\ armed' = (phase = "remote") /\ UNCHANGED <<timer, counts>>
    /\ Goto("auto")
    /\ UNCHANGED <<phase, attributes, seenflags, power, kernel, original, others>>

\* A device that does not answer: the host phase ends, the remote phase restores first.
PrepareFails ==
    /\ pc = "claim" /\ claimed /\ claimed' = FALSE
    /\ \/ phase = "host" /\ Fail
       \/ phase = "remote" /\ Goto("unwind")
    /\ UNCHANGED <<phase, attributes, seenflags, before, power, kernel, firmware, original, others>>

\* The device may suspend; without root permission nothing is written.
Auto ==
    /\ pc = "auto"
    /\ \/ /\ power' = [power EXCEPT !.control = "auto",
                                    !.delay = IF phase = "host" THEN "zero" ELSE @]
          /\ Goto("poll")
       \/ phase = "host" /\ UNCHANGED power /\ Goto("unwind")
    /\ UNCHANGED <<phase, attributes, seenflags, before, kernel, claimed, firmware, original, others>>

\* Reads the runtime status. The host phase sets control "on" when the device is
\* suspended, the remote phase when it is active again.
Poll ==
    /\ pc = "poll"
    /\ polled' = TRUE
    /\ suspended' = (suspended \/ runtime = "suspended")
    /\ resumed' = (suspended /\ runtime = "active")
    /\ seen' = IF resumed' THEN cause ELSE seen
    /\ power' = IF (phase = "host" /\ suspended') \/ resumed'
                THEN [power EXCEPT !.control = "on"] ELSE power
    /\ Goto(IF resumed' THEN "restore" ELSE "poll")
    /\ UNCHANGED <<phase, attributes, before, runtime, cause, claimed, firmware, original, others>>

GiveUp ==
    /\ pc = "poll" /\ polled /\ Goto("restore")
    /\ UNCHANGED <<phase, attributes, seenflags, before, power, kernel, claimed, firmware,
                   original, others>>

\* The finally clause.
Restore ==
    /\ \/ pc = "restore" /\ Goto("reclaim")
       \/ pc = "unwind" /\ Fail
    /\ power' = attributes
    /\ UNCHANGED <<phase, attributes, seenflags, before, kernel, claimed, firmware, original, others>>

Unreset == counts.configured = before.configured
Cycled == counts.suspend > before.suspend /\ counts.resume > before.resume

\* Mutant of Accepted: any resumption passes for a remote wakeup.
MutantAccepted == suspended /\ resumed /\ Unreset /\ Cycled

\* What the phase demands of its own observation and of the counters of the firmware.
Accepted ==
    /\ suspended /\ resumed /\ Unreset /\ Cycled
    /\ phase = "remote" => counts.wakeup > before.wakeup

\* Reads the status again and ends the phase.
Conclude ==
    /\ pc = "reclaim" /\ claimed /\ claimed' = FALSE
    /\ \/ Accepted /\ phase = "host" /\ phase' = "remote" /\ Goto("open")
       \/ Accepted /\ phase = "remote" /\ pc' = "done" /\ status' = "ok" /\ UNCHANGED phase
       \/ ~Accepted /\ Fail /\ UNCHANGED phase
    /\ IF phase' # phase
       THEN suspended' = FALSE /\ resumed' = FALSE /\ seen' = "none"
       ELSE UNCHANGED seenflags
    /\ UNCHANGED <<attributes, before, power, kernel, firmware, original, others>>

(***************************************************************************)
(* The kernel, other programs and the firmware                             *)
(***************************************************************************)
Autosuspend ==
    /\ power.control = "auto" /\ runtime = "active" /\ ~claimed
    /\ pc = "poll" /\ power.delay # "zero" => polled
    /\ counts.suspend < MaxSuspends
    /\ runtime' = "suspended" /\ polled' = FALSE
    /\ counts' = [counts EXCEPT !.suspend = @ + 1]
    /\ timer' = armed /\ armed' = FALSE
    /\ UNCHANGED <<pc, phase, attributes, seenflags, before, status, power, cause, claimed,
                   original, others>>

ControlOn ==
    /\ power.control = "on" /\ runtime = "suspended"
    /\ Activate("host")
    /\ UNCHANGED <<pc, phase, attributes, seenflags, before, status, power, claimed, original,
                   others>>

OtherProgram ==
    /\ runtime = "suspended" /\ others < Resumers /\ others' = others + 1
    /\ Activate("other")
    /\ UNCHANGED <<pc, phase, attributes, seenflags, before, status, power, claimed, original>>

RemoteWakeup ==
    /\ runtime = "suspended" /\ timer /\ power.wakeup = "enabled"
    /\ pc \in {"auto", "poll"} => polled
    /\ Activate("device")
    /\ UNCHANGED <<pc, phase, attributes, seenflags, before, status, power, claimed, original,
                   others>>

\* A selective resume that fails makes the kernel reset the device.
Reset ==
    /\ runtime = "active" /\ ~polled /\ counts.configured < MaxResets
    /\ counts' = [counts EXCEPT !.configured = @ + 1]
    /\ UNCHANGED <<pc, phase, attributes, seenflags, before, status, power, kernel, claimed,
                   armed, timer, original, others>>

Gate ==
    \/ Open \/ Claim \/ Prepare \/ PrepareFails \/ Auto \/ Poll \/ GiveUp \/ Restore \/ Conclude

Next == Gate \/ Autosuspend \/ ControlOn \/ OtherProgram \/ RemoteWakeup \/ Reset

\* Polling has a deadline.
Spec == Init /\ [][Next]_vars /\ WF_vars(Gate)

-----------------------------------------------------------------------------
\* However the gate ends, the power attributes are those that it found, although each
\* phase restores only what it read itself.
AttributesRestored == pc \in {"reclaim", "done"} => power = original

\* The host phase observes an ordinary resumption: a wake request that an interrupted
\* gate left armed does not wake the device in its place.
HostResumePure ==
    phase = "host" /\ pc \in {"auto", "poll", "restore", "reclaim"} =>
        counts.wakeup = before.wakeup

\* Success means that the resumption that the gate saw was the device's own.
RemoteWakeProved == status = "ok" => seen = "device"
=============================================================================
