-------------------------- MODULE ActuatorCalibration --------------------------
(***************************************************************************)
(* actuator_calibration of src/tools/actuator_calibration.cpp: one armed   *)
(* run of the stand-alone program that drives a single axis through        *)
(* alternating velocity pulses, each after a settled interval, and aborts  *)
(* on anything unexpected.  It begins where main() has written plan.ini    *)
(* and the first state=incomplete line of run.txt and has installed its    *)
(* signal handlers; a dry run and a refused plan open nothing.             *)
(*                                                                         *)
(* Time is in ticks.  An SDK exchange takes 0 .. MaxIo + 1 of them, the    *)
(* last standing for any that exceeds the I/O deadline, a sleep ends on    *)
(* time or late, and the code in between takes none.  What an exchange     *)
(* reads is only inside or outside what the code accepts, and position and *)
(* velocity are read in one step: interrupted is not looked at in between. *)
(* Speeds keep their sign.  The trace has room for four events per sample  *)
(* period and 128 more, a cycle adds three, and its limit is not modelled. *)
(***************************************************************************)
EXTENDS Integers, Sequences

CONSTANTS
  Pulses,         (* p.pulses.size()                                        *)
  Sample, MaxIo, MaxGap, PulseTime, SettleTime, SettleTimeout, MaxRun

(* The timing rules of parse_plan. *)
ValidPlan ==
  /\ {Pulses, Sample, MaxIo, MaxRun} \subseteq Nat \ {0}
  /\ MaxGap \in Nat /\ MaxGap >= Sample
  /\ PulseTime \in Nat /\ PulseTime >= Sample
  /\ SettleTime \in Nat /\ SettleTime >= Sample
  /\ SettleTimeout \in Nat /\ SettleTimeout > SettleTime
  /\ MaxRun > SettleTime * (Pulses + 1) + PulseTime * Pulses

ASSUME PlanAssumption == ValidPlan

VARIABLES
  pc,           (* where main() is                                          *)
  step,         (* how many setup exchanges are done                        *)
  interrupted,
  connected,    (* motor_ is there                                          *)
  enabled,      (* the drive: its power stage and its velocity target       *)
  target,
  clock,        (* ticks since begin, phase_start, stable_since, start and  *)
                (* since the last accepted position was sampled             *)
  pulsing,
  next,         (* pulses begun                                             *)
  success,      (* run() returned                                           *)
  stopped,      (* what Axis::stop has achieved so far                      *)
  closed,       (* closed_                                                  *)
  saved,        (* events.csv is complete                                   *)
  verdict,      (* the last state= line of run.txt                          *)
  lostDisables, (* the disables of Axis::stop and ~Axis it did not hear     *)
  late          (* an exchange or a sleep took longer than the plan allows  *)

drive == <<enabled, target, lostDisables>>
loop == <<pulsing, next, success>>
ending == <<stopped, closed, saved, verdict>>
vars == <<pc, step, interrupted, connected, drive, clock, loop, ending, late>>

ClockNames == {"cycle", "phase", "stable", "run", "unseen"}

(* The ages are compared with these and stand still there. *)
Oldest ==
  [cycle |-> MaxGap + 1,
   phase |-> IF PulseTime > SettleTimeout THEN PulseTime ELSE SettleTimeout,
   stable |-> SettleTime,
   run |-> MaxRun,
   unseen |-> MaxGap + 3 * MaxIo + 1]

Capped(n, limit) == IF n > limit THEN limit ELSE n
After(t, d) == [c \in ClockNames |-> Capped(t[c] + d, Oldest[c])]
Later(d) == After(clock, d)

(* The drive heard and answered, heard without being heard, or neither. *)
Replies == {"ok", "unheard", "lost"}
Durations == 0 .. MaxIo + 1

Init ==
  /\ pc = "attach"
  /\ step = 0
  /\ interrupted = FALSE
  /\ connected = FALSE
  /\ enabled \in BOOLEAN
  /\ target \in {-1, 0, 1}
  /\ clock = [c \in ClockNames |-> 0]
  /\ pulsing = FALSE
  /\ next = 0
  /\ success = FALSE
  /\ stopped = TRUE
  /\ closed = FALSE
  /\ saved = FALSE
  /\ verdict = "incomplete"
  /\ lostDisables = 0
  /\ late = FALSE

-----------------------------------------------------------------------------
(* Mutants of the operations below: feedback that is refused only skips    *)
(* the cycle; the verdict looks only at how run() ended.                   *)

CycleSkippingBadFeedback ==
  /\ pc = "cycle"
  /\ \E d \in 0 .. 2 * MaxIo, accepted \in BOOLEAN :
       /\ clock' = [Later(d) EXCEPT !.cycle = d, !.unseen = IF accepted THEN d ELSE @]
       /\ pc' = IF accepted THEN "command" ELSE "sleep"
  /\ UNCHANGED <<step, interrupted, connected, drive, loop, ending, late>>

VerdictOfRun == IF success THEN "complete" ELSE "aborted"

-----------------------------------------------------------------------------

(* One exchange, `checked`: its effect on the drive, the time it takes, and *)
(* where the program goes on.  An error and a missed I/O deadline both      *)
(* throw, out of run() and into Axis::stop.                                 *)
Exchange(reply, d) ==
  /\ clock' = Later(d)
  /\ late' = (late \/ d > MaxIo)

Worked(reply, d) == reply = "ok" /\ d <= MaxIo

SetTarget(v, reply) ==
  /\ target' = IF reply = "lost" THEN target ELSE v
  /\ UNCHANGED <<enabled, lostDisables>>

Disable(reply) ==
  /\ enabled' = (enabled /\ reply = "lost")
  /\ UNCHANGED target

(* Only the disables that end the run are counted, not that of the setup.  *)
CountDisable(reply) ==
  lostDisables' = IF reply = "lost" THEN Capped(lostDisables + 1, 2) ELSE lostDisables

(* A throw: main() catches it and goes on to Axis::stop. *)
Raise == pc' = "zero"

(* What `checked` refuses once a signal has come. *)
Refused == interrupted

-----------------------------------------------------------------------------
(* The start of run(), and Axis::open.                                     *)

Attach ==
  /\ pc = "attach"
  /\ \/ /\ ~interrupted
        /\ connected' = TRUE
        /\ pc' = "setup"
     \/ /\ Raise
        /\ UNCHANGED connected
  /\ UNCHANGED <<step, interrupted, drive, clock, loop, ending, late>>

SetupExchanges == <<"disable", "initialize", "mode", "pid", "torque", "command">>

SetupRefused ==
  /\ pc = "setup"
  /\ Refused
  /\ SetupExchanges[step + 1] \notin {"disable", "command"}
  /\ Raise
  /\ UNCHANGED <<step, interrupted, connected, drive, clock, loop, ending, late>>

Setup ==
  /\ pc = "setup"
  /\ LET op == SetupExchanges[step + 1] IN
     /\ Refused => op \in {"disable", "command"}
     /\ \E reply \in Replies, d \in {MaxIo, MaxIo + 1} :
          /\ IF op = "disable" THEN Disable(reply) /\ UNCHANGED lostDisables
             ELSE IF op = "command" THEN SetTarget(0, reply)
             ELSE UNCHANGED drive
          /\ IF Worked(reply, d)
             THEN /\ step' = step + 1
                  /\ pc' = IF step + 1 = Len(SetupExchanges) THEN "look" ELSE pc
             ELSE Raise /\ UNCHANGED step
  /\ UNCHANGED <<interrupted, connected, clock, loop, ending, late>>

(* The axis must lie inside its guards and at rest before it is enabled.   *)
Look ==
  /\ pc = "look"
  /\ \/ ~interrupted /\ pc' = "enable"
     \/ Raise
  /\ UNCHANGED <<step, interrupted, connected, drive, clock, loop, ending, late>>

Enable ==
  /\ pc = "enable"
  /\ IF Refused
     THEN Raise /\ UNCHANGED drive
     ELSE \E reply \in Replies, d \in {MaxIo, MaxIo + 1} :
            /\ enabled' = (enabled \/ reply # "lost")
            /\ UNCHANGED <<target, lostDisables>>
            /\ IF Worked(reply, d) THEN pc' = "verify" ELSE Raise
  /\ UNCHANGED <<step, interrupted, connected, clock, loop, ending, late>>

(* The mode is read back; the loop's clocks start when it is right.        *)
VerifyMode ==
  /\ pc = "verify"
  /\ \/ ~Refused /\ pc' = "cycle"
     \/ Raise
  /\ UNCHANGED <<step, interrupted, connected, drive, clock, loop, ending, late>>

-----------------------------------------------------------------------------
(* The loop of run().                                                      *)

(* The checks at the top of a cycle, both reads, and check_feedback.  The  *)
(* position may have been sampled as early as the cycle's begin.           *)
Cycle ==
  /\ pc = "cycle"
  /\ IF interrupted \/ clock.run >= MaxRun \/ clock.cycle > MaxGap
     THEN Raise /\ UNCHANGED <<clock, late>>
     ELSE \E d1, d2 \in Durations, accepted \in BOOLEAN :
            IF accepted /\ d1 <= MaxIo /\ d2 <= MaxIo /\ d1 + d2 <= MaxGap
            THEN /\ pc' = "command"
                 /\ clock' = [Later(d1 + d2) EXCEPT !.cycle = d1 + d2, !.unseen = d1 + d2]
                 /\ UNCHANGED late
            ELSE /\ Raise
                 /\ clock' = Later(d1 + d2)
                 /\ late' = (late \/ d1 > MaxIo \/ d2 > MaxIo)
  /\ UNCHANGED <<step, interrupted, connected, drive, loop, ending>>

(* A velocity is written with the clocks at t; the cycle must end within   *)
(* the gap.  Restarted are the clocks set to the time after the write.     *)
Command(v, t, Restarted, startsPulsing, begun) ==
  /\ IF v # 0 /\ Refused
     THEN Raise /\ UNCHANGED <<drive, clock, late, pulsing>>
     ELSE \E reply \in Replies, d \in Durations :
            /\ SetTarget(v, reply)
            /\ late' = (late \/ d > MaxIo)
            /\ IF Worked(reply, d)
               THEN /\ clock' = [c \in ClockNames |->
                                   IF c \in Restarted THEN 0 ELSE After(t, d)[c]]
                    /\ pulsing' = startsPulsing
                    /\ IF clock'.cycle <= MaxGap THEN pc' = "sleep" ELSE Raise
               ELSE /\ clock' = After(t, d)
                    /\ Raise
                    /\ UNCHANGED pulsing
  /\ next' = begun
  /\ UNCHANGED <<step, interrupted, connected, success, ending>>

(* Pulses alternate in sign. *)
Speed(n) == IF n % 2 = 1 THEN 1 ELSE -1

HoldPulse ==
  /\ pc = "command"
  /\ pulsing /\ clock.phase < PulseTime
  /\ Command(Speed(next), clock, {}, TRUE, next)

EndPulse ==
  /\ pc = "command"
  /\ pulsing /\ clock.phase >= PulseTime
  /\ Command(0, clock, {"phase", "stable"}, FALSE, next)

Unsettled ==
  /\ pc = "command"
  /\ ~pulsing /\ clock.phase >= SettleTimeout
  /\ Raise
  /\ UNCHANGED <<step, interrupted, connected, drive, clock, loop, ending, late>>

(* The axis still moves, or has not been at rest for long enough.          *)
Settle ==
  /\ pc = "command"
  /\ ~pulsing /\ clock.phase < SettleTimeout
  /\ \/ clock.stable < SettleTime /\ Command(0, clock, {}, FALSE, next)
     \/ Command(0, [clock EXCEPT !.stable = 0], {}, FALSE, next)

StartPulse ==
  /\ pc = "command"
  /\ ~pulsing /\ clock.phase < SettleTimeout
  /\ clock.stable >= SettleTime
  /\ next < Pulses
  /\ Command(Speed(next + 1), clock, {"phase"}, TRUE, next + 1)

Finish ==
  /\ pc = "command"
  /\ ~pulsing /\ clock.phase < SettleTimeout
  /\ clock.stable >= SettleTime
  /\ next = Pulses
  /\ success' = TRUE
  /\ pc' = "zero"
  /\ UNCHANGED <<step, interrupted, connected, drive, clock, pulsing, next, ending, late>>

(* sleep_until(begin + sample_s): no sooner, and possibly later.           *)
Sleep ==
  /\ pc = "sleep"
  /\ \E d \in 0 .. MaxGap + 1 :
       /\ clock.cycle + d >= Sample
       /\ clock' = Later(d)
       /\ late' = (late \/ clock.cycle + d > MaxGap)
  /\ pc' = "cycle"
  /\ UNCHANGED <<step, interrupted, connected, drive, loop, ending>>

-----------------------------------------------------------------------------
(* Axis::stop, the records, and ~Axis.                                     *)

StopZero ==
  /\ pc = "zero"
  /\ IF connected
     THEN \E reply \in Replies, d \in Durations :
            /\ SetTarget(0, reply)
            /\ Exchange(reply, d)
            /\ stopped' = Worked(reply, d)
     ELSE stopped' = FALSE /\ UNCHANGED <<drive, clock, late>>
  /\ pc' = "disable"
  /\ UNCHANGED <<step, interrupted, connected, loop, closed, saved, verdict>>

StopDisable ==
  /\ pc = "disable"
  /\ IF connected
     THEN \E reply \in Replies, d \in Durations :
            /\ Disable(reply)
            /\ CountDisable(reply)
            /\ Exchange(reply, d)
            /\ stopped' = (stopped /\ Worked(reply, d))
     ELSE UNCHANGED <<drive, clock, late, stopped>>
  /\ closed' = stopped'
  /\ pc' = "save"
  /\ UNCHANGED <<step, interrupted, connected, loop, saved, verdict>>

(* trace.save: a file error throws past the writing of the result.         *)
Save ==
  /\ pc = "save"
  /\ \/ saved' = TRUE /\ pc' = "result"
     \/ pc' = "unwind" /\ UNCHANGED saved
  /\ UNCHANGED <<step, interrupted, connected, drive, clock, loop, stopped, closed, verdict, late>>

Verdict == IF success /\ stopped THEN "complete" ELSE "aborted"

(* The last lines of run.txt may be lost to a file error.                  *)
WriteResult ==
  /\ pc = "result"
  /\ verdict' \in {Verdict, verdict}
  /\ pc' = "unwind"
  /\ UNCHANGED <<step, interrupted, connected, drive, clock, loop, stopped, closed, saved, late>>

(* ~Axis repeats zero and disable, unchecked, unless stop() succeeded.     *)
Unwind ==
  /\ pc = "unwind"
  /\ IF connected /\ ~closed
     THEN \E zero, disable \in Replies :
            /\ target' = IF zero = "lost" THEN target ELSE 0
            /\ enabled' = (enabled /\ disable = "lost")
            /\ CountDisable(disable)
     ELSE UNCHANGED drive
  /\ pc' = "ended"
  /\ UNCHANGED <<step, interrupted, connected, clock, loop, ending, late>>

-----------------------------------------------------------------------------
(* SIGINT and SIGTERM, at any moment, and SIGKILL or a loss of power.      *)

Interrupt ==
  /\ pc \notin {"ended", "killed"}
  /\ ~interrupted
  /\ interrupted' = TRUE
  /\ UNCHANGED <<pc, step, connected, drive, clock, loop, ending, late>>

Kill ==
  /\ pc \notin {"ended", "killed"}
  /\ pc' = "killed"
  /\ UNCHANGED <<step, interrupted, connected, drive, clock, loop, ending, late>>

Next ==
  \/ Attach \/ SetupRefused \/ Setup \/ Look \/ Enable \/ VerifyMode
  \/ Cycle \/ HoldPulse \/ EndPulse \/ Unsettled \/ Settle \/ StartPulse \/ Finish \/ Sleep
  \/ StopZero \/ StopDisable \/ Save \/ WriteResult \/ Unwind
  \/ Interrupt \/ Kill

Spec == Init /\ [][Next]_vars

-----------------------------------------------------------------------------
(* Properties.                                                             *)

(* The types of the run's state. *)
TypeOK ==
  /\ pc \in {"attach", "setup", "look", "enable", "verify", "cycle", "command", "sleep",
             "zero", "disable", "save", "result", "unwind", "ended", "killed"}
  /\ step \in 0 .. Len(SetupExchanges)
  /\ pc \in {"attach", "setup"} => step < Len(SetupExchanges)
  /\ interrupted \in BOOLEAN /\ connected \in BOOLEAN /\ enabled \in BOOLEAN
  /\ pulsing \in BOOLEAN /\ success \in BOOLEAN /\ late \in BOOLEAN
  /\ stopped \in BOOLEAN /\ closed \in BOOLEAN /\ saved \in BOOLEAN
  /\ target \in {-1, 0, 1}
  /\ clock \in [ClockNames -> Nat]
  /\ next \in 0 .. Pulses
  /\ verdict \in {"incomplete", "complete", "aborted"}
  /\ lostDisables \in 0 .. 2

(* From the first pulse until the program has asked for zero, the last     *)
(* position that passed the guards was sampled no longer ago than one      *)
(* sample gap and three exchanges, the two reads that notice and the zero  *)
(* write that acts, unless an exchange or a sleep overran.  The guard      *)
(* distance of parse_plan and check_feedback counts two exchanges; the     *)
(* third has to come out of the stopping margin.                           *)
ReactionIsBounded ==
  pc \in {"cycle", "command", "sleep", "zero", "disable"} /\ next > 0 /\ ~late =>
    clock.unseen <= MaxGap + 3 * MaxIo

(* run.txt ends in state=complete only when every pulse was run to its     *)
(* end, the trace is on disk, and the axis is at zero and disabled,        *)
(* wherever the program was interrupted, failed or was killed.             *)
VerdictIsHonest ==
  verdict = "complete" =>
    next = Pulses /\ ~pulsing /\ saved /\ target = 0 /\ ~enabled

(* A connected axis is still enabled at the end only if the drive heard    *)
(* neither the disable of Axis::stop nor that of ~Axis: whatever the setup *)
(* lost before, a single write lost at the end, or a thrown file error,    *)
(* leaves no axis enabled.                                                 *)
OneLostDisableIsRepaired ==
  pc = "ended" /\ connected /\ enabled => lostDisables = 2

(* Both together: what a reader of run.txt, and whoever stands beside the  *)
(* axis, may rely on when the program is gone.                             *)
RunEndsInOrder == VerdictIsHonest /\ OneLostDisableIsRepaired
==============================================================================
