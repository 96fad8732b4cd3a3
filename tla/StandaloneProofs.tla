--------------------------- MODULE StandaloneProofs ---------------------------
(***************************************************************************)
(* Proofs about what MCStandalone runs side by side: ActuatorCalibration   *)
(* for every plan parse_plan accepts (any number of pulses, and any times  *)
(* that satisfy ValidPlan), Configuration for any number of groups and any *)
(* integers in the file, FocalCalib for any cameras and steps.             *)
(***************************************************************************)
EXTENDS MCStandalone, TLAPS

-----------------------------------------------------------------------------
(* The clocks.                                                             *)

LEMMA PlanTypes ==
  /\ Pulses \in Nat /\ MaxIo \in Nat /\ MaxGap \in Nat /\ MaxRun \in Nat /\ Sample \in Nat
  /\ PulseTime \in Nat /\ SettleTime \in Nat /\ SettleTimeout \in Nat
BY PlanAssumption DEF ValidPlan

LEMMA OldestType ==
  /\ Oldest \in [ClockNames -> Nat]
  /\ Oldest["cycle"] = MaxGap + 1
  /\ Oldest["unseen"] = MaxGap + 3 * MaxIo + 1
BY PlanTypes DEF Oldest, ClockNames

(* Time adds to every clock alike, up to the clock's limit. *)
LEMMA AfterLemma ==
  ASSUME NEW t \in [ClockNames -> Nat], NEW d \in Nat
  PROVE  /\ After(t, d) \in [ClockNames -> Nat]
         /\ After(t, d)["cycle"] = Capped(t["cycle"] + d, MaxGap + 1)
         /\ After(t, d)["unseen"] = Capped(t["unseen"] + d, MaxGap + 3 * MaxIo + 1)
<1>1. \A c \in ClockNames : Capped(t[c] + d, Oldest[c]) \in Nat
  BY OldestType DEF Capped
<1>2. "cycle" \in ClockNames /\ "unseen" \in ClockNames
  BY DEF ClockNames
<1> QED  BY <1>1, <1>2, OldestType DEF After

LEMMA LaterLemma ==
  ASSUME TypeOK, NEW d \in Nat
  PROVE  /\ Later(d) \in [ClockNames -> Nat]
         /\ Later(d)["cycle"] = Capped(clock["cycle"] + d, MaxGap + 1)
         /\ Later(d)["unseen"] = Capped(clock["unseen"] + d, MaxGap + 3 * MaxIo + 1)
BY AfterLemma DEF Later, TypeOK

LEMMA DurationLemma ==
  /\ Durations \subseteq Nat
  /\ \A d \in Durations : d <= MaxIo + 1
BY PlanTypes DEF Durations

-----------------------------------------------------------------------------
(* Types.                                                                  *)

LEMMA CappedLemma ==
  /\ \A n, limit \in Nat : Capped(n, limit) \in Nat /\ Capped(n, limit) <= limit
  /\ \A n, limit \in Nat : n <= limit => Capped(n, limit) = n
BY DEF Capped

LEMMA BooleanLemma == \A a, b : (a /\ b) \in BOOLEAN /\ (a \/ b) \in BOOLEAN
OBVIOUS

LEMMA DriveTypes ==
  ASSUME TypeOK, NEW reply \in Replies
  PROVE  /\ \A v \in {-1, 0, 1} : SetTarget(v, reply) =>
              /\ target' \in {-1, 0, 1} /\ enabled' \in BOOLEAN
              /\ lostDisables' \in 0 .. 2
         /\ Disable(reply) => target' \in {-1, 0, 1} /\ enabled' \in BOOLEAN
         /\ CountDisable(reply) => lostDisables' \in 0 .. 2
<1>1. \A v \in {-1, 0, 1} : SetTarget(v, reply) => target' \in {-1, 0, 1}
  BY DEF TypeOK, SetTarget
<1>2. \A v \in {-1, 0, 1} : SetTarget(v, reply) => enabled' \in BOOLEAN
  BY DEF TypeOK, SetTarget
<1>3. \A v \in {-1, 0, 1} : SetTarget(v, reply) => lostDisables' \in 0 .. 2
  BY DEF TypeOK, SetTarget
<1>4. Disable(reply) => target' \in {-1, 0, 1}
  BY DEF TypeOK, Disable
<1>5. Disable(reply) => enabled' \in BOOLEAN
  BY Zenon DEF Disable
<1>6. CountDisable(reply) => lostDisables' \in 0 .. 2
  BY DEF TypeOK, CountDisable, Capped
<1> QED  BY <1>1, <1>2, <1>3, <1>4, <1>5, <1>6

(* A velocity command keeps the types. *)
LEMMA CommandTypes ==
  ASSUME TypeOK,
         NEW v \in {-1, 0, 1}, NEW t \in [ClockNames -> Nat], NEW Restarted,
         NEW startsPulsing \in BOOLEAN, NEW begun \in 0 .. Pulses,
         Command(v, t, Restarted, startsPulsing, begun)
  PROVE  TypeOK'
<1>1. CASE v # 0 /\ Refused
  BY <1>1 DEF Command, TypeOK, Raise, drive, ending
<1>2. CASE ~(v # 0 /\ Refused)
  <2>1. PICK reply \in Replies, d \in Durations :
          /\ SetTarget(v, reply)
          /\ late' = (late \/ d > MaxIo)
          /\ IF Worked(reply, d)
             THEN /\ clock' = [c \in ClockNames |->
                                 IF c \in Restarted THEN 0 ELSE After(t, d)[c]]
                  /\ pulsing' = startsPulsing
                  /\ IF clock'.cycle <= MaxGap THEN pc' = "sleep" ELSE Raise
             ELSE /\ clock' = After(t, d)
                  /\ Raise
                  /\ UNCHANGED pulsing
    BY <1>2 DEF Command
  <2>2. d \in Nat /\ After(t, d) \in [ClockNames -> Nat]
    BY DurationLemma, AfterLemma
  <2>3. clock' \in [ClockNames -> Nat]
    BY <2>1, <2>2
  <2>4. pc' \in {"sleep", "zero"} /\ pulsing' \in BOOLEAN /\ late' \in BOOLEAN
    BY <2>1 DEF Raise, TypeOK
  <2>5. /\ target' \in {-1, 0, 1} /\ enabled' \in BOOLEAN
        /\ lostDisables' \in 0 .. 2
    BY <2>1, DriveTypes
  <2>6. /\ next' = begun
        /\ UNCHANGED <<step, interrupted, connected, success, stopped, closed, saved, verdict>>
    BY DEF Command, ending
  <2> QED  BY <2>3, <2>4, <2>5, <2>6 DEF TypeOK
<1> QED  BY <1>1, <1>2

LEMMA SetupLength == Len(SetupExchanges) = 6
BY DEF SetupExchanges

LEMMA TypeInit == Init => TypeOK
<1> SUFFICES ASSUME Init PROVE TypeOK
  OBVIOUS
<1>1. step \in 0 .. Len(SetupExchanges) /\ step < Len(SetupExchanges) /\ next \in 0 .. Pulses
  BY SetupLength, PlanTypes DEF Init
<1>2. clock \in [ClockNames -> Nat]
  BY DEF Init
<1>3. target \in {-1, 0, 1} /\ lostDisables \in 0 .. 2
  BY DEF Init
<1> QED  BY <1>1, <1>2, <1>3, Zenon DEF Init, TypeOK

(* The setup before the loop, which leaves the clocks alone. *)
LEMMA SetupTypes ==
  ASSUME TypeOK, Attach \/ SetupRefused \/ Setup \/ Look \/ Enable \/ VerifyMode
  PROVE  TypeOK'
<1>1. CASE Attach
  <2>1. connected' \in BOOLEAN /\ pc' \in {"setup", "zero"} /\ step < Len(SetupExchanges)
    BY <1>1, Zenon DEF Attach, TypeOK, Raise
  <2>2. UNCHANGED <<step, interrupted, drive, clock, loop, ending, late>>
    BY <1>1, Zenon DEF Attach
  <2> QED  BY <2>1, <2>2 DEF TypeOK, drive, loop, ending
<1>2. CASE SetupRefused
  <2>1. pc' = "zero" /\ UNCHANGED <<step, interrupted, connected, drive, clock, loop, ending, late>>
    BY <1>2 DEF SetupRefused, Raise
  <2> QED  BY <2>1 DEF TypeOK, drive, loop, ending
<1>3. CASE Setup
  <2>1. PICK reply \in Replies, d \in {MaxIo, MaxIo + 1} :
          /\ IF SetupExchanges[step + 1] = "disable"
             THEN Disable(reply) /\ UNCHANGED lostDisables
             ELSE IF SetupExchanges[step + 1] = "command" THEN SetTarget(0, reply)
             ELSE UNCHANGED drive
          /\ IF Worked(reply, d)
             THEN /\ step' = step + 1
                  /\ pc' = IF step + 1 = Len(SetupExchanges) THEN "look" ELSE pc
             ELSE Raise /\ UNCHANGED step
    BY <1>3 DEF Setup
  <2>2. /\ target' \in {-1, 0, 1} /\ enabled' \in BOOLEAN
        /\ lostDisables' \in 0 .. 2
    BY <2>1, DriveTypes DEF TypeOK, drive
  <2>3. pc' \in {"look", "setup", "zero"}
    BY <1>3, <2>1 DEF Setup, Raise
  <2>4. /\ step' \in 0 .. Len(SetupExchanges)
        /\ pc' = "setup" => step' < Len(SetupExchanges)
    BY <1>3, <2>1, SetupLength DEF Setup, TypeOK, Raise
  <2>5. UNCHANGED <<interrupted, connected, clock, loop, ending, late>>
    BY <1>3, Zenon DEF Setup
  <2> QED  BY <2>2, <2>3, <2>4, <2>5 DEF TypeOK, loop, ending
<1>4. CASE Look  BY <1>4 DEF Look, TypeOK, Raise, drive, loop, ending
<1>5. CASE Enable
  <2>1. enabled' \in BOOLEAN
    BY <1>5, Zenon DEF Enable, TypeOK, drive
  <2>2. /\ pc' \in {"zero", "verify"}
        /\ UNCHANGED <<target, lostDisables>>
    BY <1>5 DEF Enable, Raise, drive
  <2> QED  BY <1>5, <2>1, <2>2 DEF Enable, TypeOK, loop, ending
<1>6. CASE VerifyMode  BY <1>6 DEF VerifyMode, TypeOK, Raise, drive, loop, ending
<1> QED  BY <1>1, <1>2, <1>3, <1>4, <1>5, <1>6

(* The loop. *)
LEMMA CycleTypes == ASSUME TypeOK, Cycle PROVE TypeOK'
<1>1. UNCHANGED <<step, interrupted, connected, drive, loop, ending>>
  BY Zenon DEF Cycle
<1>2. CASE UNCHANGED <<clock, late>> /\ Raise
  BY <1>1, <1>2 DEF TypeOK, Raise, drive, loop, ending
<1>3. CASE \E d1, d2 \in Durations, accepted \in BOOLEAN :
            IF accepted /\ d1 <= MaxIo /\ d2 <= MaxIo /\ d1 + d2 <= MaxGap
            THEN /\ pc' = "command"
                 /\ clock' = [Later(d1 + d2) EXCEPT !.cycle = d1 + d2, !.unseen = d1 + d2]
                 /\ UNCHANGED late
            ELSE /\ Raise
                 /\ clock' = Later(d1 + d2)
                 /\ late' = (late \/ d1 > MaxIo \/ d2 > MaxIo)
  <2>1. PICK d1, d2 \in Durations, accepted \in BOOLEAN :
            IF accepted /\ d1 <= MaxIo /\ d2 <= MaxIo /\ d1 + d2 <= MaxGap
            THEN /\ pc' = "command"
                 /\ clock' = [Later(d1 + d2) EXCEPT !.cycle = d1 + d2, !.unseen = d1 + d2]
                 /\ UNCHANGED late
            ELSE /\ Raise
                 /\ clock' = Later(d1 + d2)
                 /\ late' = (late \/ d1 > MaxIo \/ d2 > MaxIo)
    BY <1>3
  <2>2. d1 + d2 \in Nat /\ Later(d1 + d2) \in [ClockNames -> Nat]
    BY DurationLemma, LaterLemma
  <2>3. clock' \in [ClockNames -> Nat]
    BY <2>1, <2>2 DEF ClockNames
  <2>4. pc' \in {"command", "zero"} /\ late' \in BOOLEAN
    BY <2>1, Zenon DEF TypeOK, Raise
  <2> QED  BY <1>1, <2>3, <2>4 DEF TypeOK, drive, loop, ending
<1> QED  BY <1>2, <1>3 DEF Cycle

LEMMA LoopTypes ==
  ASSUME TypeOK,
         \/ HoldPulse \/ EndPulse \/ Unsettled \/ Settle \/ StartPulse \/ Finish \/ Sleep
  PROVE  TypeOK'
<1>1. CASE HoldPulse
  <2>1. Speed(next) \in {-1, 0, 1}
    BY DEF Speed
  <2> QED  BY <1>1, <2>1, CommandTypes DEF HoldPulse, TypeOK
<1>2. CASE EndPulse  BY <1>2, CommandTypes DEF EndPulse, TypeOK
<1>3. CASE Unsettled
  BY <1>3 DEF Unsettled, TypeOK, Raise, drive, loop, ending
<1>4. CASE Settle
  <2>1. [clock EXCEPT !.stable = 0] \in [ClockNames -> Nat]
    BY DEF TypeOK
  <2> QED  BY <1>4, <2>1, CommandTypes DEF Settle, TypeOK
<1>5. CASE StartPulse
  <2>1. Speed(next + 1) \in {-1, 0, 1} /\ next + 1 \in 0 .. Pulses
    BY <1>5, PlanTypes DEF Speed, StartPulse, TypeOK
  <2> QED  BY <1>5, <2>1, CommandTypes DEF StartPulse, TypeOK
<1>6. CASE Finish
  BY <1>6 DEF Finish, TypeOK, drive, ending
<1>7. CASE Sleep
  <2>1. PICK d \in 0 .. MaxGap + 1 :
          /\ clock' = Later(d)
          /\ late' = (late \/ clock.cycle + d > MaxGap)
    BY <1>7 DEF Sleep
  <2>2. clock' \in [ClockNames -> Nat]
    BY <2>1, LaterLemma, PlanTypes
  <2>3. late' \in BOOLEAN
    BY <2>1, Zenon
  <2>4. pc' = "cycle" /\ UNCHANGED <<step, interrupted, connected, drive, loop, ending>>
    BY <1>7, Zenon DEF Sleep
  <2> QED  BY <2>2, <2>3, <2>4 DEF TypeOK, drive, loop, ending
<1> QED  BY <1>1, <1>2, <1>3, <1>4, <1>5, <1>6, <1>7

(* Axis::stop, the records and the destructor. *)
LEMMA StopZeroTypes == ASSUME TypeOK, StopZero PROVE TypeOK'
<1>1. pc' = "disable" /\ UNCHANGED <<step, interrupted, connected, loop, closed, saved, verdict>>
  BY Zenon DEF StopZero
<1>2. CASE stopped' = FALSE /\ UNCHANGED <<drive, clock, late>>
  BY <1>1, <1>2, ZenonT(30) DEF TypeOK, drive, loop
<1>3. CASE \E reply \in Replies, d \in Durations :
             SetTarget(0, reply) /\ Exchange(reply, d) /\ stopped' = Worked(reply, d)
  <2>1. PICK reply \in Replies, d \in Durations :
             SetTarget(0, reply) /\ Exchange(reply, d) /\ stopped' = Worked(reply, d)
    BY <1>3
  <2>2. clock' \in [ClockNames -> Nat]
    BY <2>1, LaterLemma, DurationLemma DEF Exchange
  <2>3. late' \in BOOLEAN /\ stopped' \in BOOLEAN
    BY <2>1, Zenon DEF Exchange, Worked
  <2>4. target' \in {-1, 0, 1} /\ enabled' \in BOOLEAN /\ lostDisables' \in 0 .. 2
    BY <2>1, DriveTypes
  <2> QED  BY <1>1, <2>2, <2>3, <2>4 DEF TypeOK, loop
<1> QED  BY <1>2, <1>3 DEF StopZero

LEMMA StopDisableTypes == ASSUME TypeOK, StopDisable PROVE TypeOK'
<1>1. /\ pc' = "save" /\ closed' = stopped'
      /\ UNCHANGED <<step, interrupted, connected, loop, saved, verdict>>
  BY Zenon DEF StopDisable
<1>2. CASE UNCHANGED <<drive, clock, late, stopped>>
  BY <1>1, <1>2 DEF TypeOK, drive, loop
<1>3. CASE \E reply \in Replies, d \in Durations :
             /\ Disable(reply) /\ CountDisable(reply) /\ Exchange(reply, d)
             /\ stopped' = (stopped /\ Worked(reply, d))
  <2>1. PICK reply \in Replies, d \in Durations :
             /\ Disable(reply) /\ CountDisable(reply) /\ Exchange(reply, d)
             /\ stopped' = (stopped /\ Worked(reply, d))
    BY <1>3
  <2>2. clock' \in [ClockNames -> Nat]
    BY <2>1, LaterLemma, DurationLemma DEF Exchange
  <2>3. late' \in BOOLEAN /\ stopped' \in BOOLEAN
    BY <2>1, Zenon DEF Exchange
  <2>4. target' \in {-1, 0, 1} /\ enabled' \in BOOLEAN /\ lostDisables' \in 0 .. 2
    BY <2>1, DriveTypes
  <2> QED  BY <1>1, <2>2, <2>3, <2>4 DEF TypeOK, loop
<1> QED  BY <1>2, <1>3 DEF StopDisable

LEMMA UnwindTypes == ASSUME TypeOK, Unwind PROVE TypeOK'
<1>1. /\ pc' = "ended"
      /\ UNCHANGED <<step, interrupted, connected, clock, loop, ending, late>>
  BY Zenon DEF Unwind
<1>2. CASE UNCHANGED drive
  BY <1>1, <1>2 DEF TypeOK, drive, loop, ending
<1>3. CASE \E zero, disable \in Replies :
            /\ target' = IF zero = "lost" THEN target ELSE 0
            /\ enabled' = (enabled /\ disable = "lost")
            /\ CountDisable(disable)
  <2>1. target' \in {-1, 0, 1}
    BY <1>3 DEF TypeOK
  <2>2. enabled' \in BOOLEAN
    BY <1>3, Zenon
  <2>3. lostDisables' \in 0 .. 2
    BY <1>3 DEF TypeOK, CountDisable, Capped
  <2> QED  BY <1>1, <2>1, <2>2, <2>3 DEF TypeOK, loop, ending
<1> QED  BY <1>2, <1>3 DEF Unwind

LEMMA EndTypes ==
  ASSUME TypeOK, Save \/ WriteResult \/ Interrupt \/ Kill
  PROVE  TypeOK'
<1>1. CASE Save
  <2>1. saved' \in BOOLEAN /\ pc' \in {"result", "unwind"}
    BY <1>1, Zenon DEF Save, TypeOK
  <2>2. UNCHANGED <<step, interrupted, connected, drive, clock, loop, stopped, closed, verdict, late>>
    BY <1>1, Zenon DEF Save
  <2> QED  BY <2>1, <2>2 DEF TypeOK, drive, loop
<1>2. CASE WriteResult  BY <1>2 DEF WriteResult, Verdict, TypeOK, drive, loop
<1>3. CASE Interrupt  BY <1>3 DEF Interrupt, TypeOK, drive, loop, ending
<1>4. CASE Kill  BY <1>4 DEF Kill, TypeOK, drive, loop, ending
<1> QED  BY <1>1, <1>2, <1>3, <1>4

LEMMA TypeStep == TypeOK /\ [Next]_vars => TypeOK'
<1> SUFFICES ASSUME TypeOK, [Next]_vars PROVE TypeOK'
  OBVIOUS
<1>1. CASE UNCHANGED vars  BY <1>1 DEF vars, drive, loop, ending, TypeOK
<1>2. CASE Next
  BY <1>2, SetupTypes, CycleTypes, LoopTypes, StopZeroTypes, StopDisableTypes, UnwindTypes,
     EndTypes, Zenon DEF Next
<1> QED  BY <1>1, <1>2

(* The state keeps its types, and the setup sequence is never read beyond  *)
(* its end.                                                                *)
THEOREM TypeCorrect == Spec => []TypeOK
BY TypeInit, TypeStep, PTL DEF Spec

-----------------------------------------------------------------------------
(* The reaction.  While the program is in its loop, and nothing has        *)
(* overrun, the last accepted position is as old as the cycle.             *)
Reacting ==
  ~late =>
    /\ pc \in {"attach", "setup", "look", "enable", "verify", "cycle", "command", "sleep"} =>
         clock["unseen"] = clock["cycle"] /\ clock["cycle"] <= MaxGap
    /\ pc = "zero" => clock["unseen"] <= MaxGap + 2 * MaxIo
    /\ pc = "disable" => clock["unseen"] <= MaxGap + 3 * MaxIo

LEMMA CommandReacts ==
  ASSUME TypeOK, Reacting, pc = "command",
         NEW v \in {-1, 0, 1}, NEW t \in [ClockNames -> Nat],
         t["cycle"] = clock["cycle"], t["unseen"] = clock["unseen"],
         NEW Restarted \in SUBSET {"phase", "stable"},
         NEW startsPulsing \in BOOLEAN, NEW begun \in 0 .. Pulses,
         Command(v, t, Restarted, startsPulsing, begun)
  PROVE  Reacting'
<1>1. CASE v # 0 /\ Refused
  <2>1. pc' = "zero" /\ UNCHANGED <<clock, late>>
    BY <1>1 DEF Command, Raise
  <2> QED  BY <2>1, PlanTypes DEF Reacting, TypeOK, ClockNames
<1>2. CASE ~(v # 0 /\ Refused)
  <2>1. PICK reply \in Replies, d \in Durations :
          /\ late' = (late \/ d > MaxIo)
          /\ IF Worked(reply, d)
             THEN /\ clock' = [c \in ClockNames |->
                                 IF c \in Restarted THEN 0 ELSE After(t, d)[c]]
                  /\ IF clock'.cycle <= MaxGap THEN pc' = "sleep" ELSE Raise
             ELSE /\ clock' = After(t, d)
                  /\ Raise
    BY <1>2 DEF Command
  <2> SUFFICES ASSUME ~late' PROVE Reacting'
    BY DEF Reacting
  <2>2. ~late /\ ~(d > MaxIo)
    BY <2>1, Zenon
  <2>3. ~late /\ d \in Nat /\ d <= MaxIo
    BY <2>2, DurationLemma, PlanTypes
  <2>4. /\ clock'["cycle"] = Capped(clock["cycle"] + d, MaxGap + 1)
        /\ clock'["unseen"] = Capped(clock["unseen"] + d, MaxGap + 3 * MaxIo + 1)
    BY <2>1, <2>3, AfterLemma, ZenonT(30) DEF ClockNames
  <2>5. clock["unseen"] = clock["cycle"] /\ clock["cycle"] <= MaxGap /\ clock["cycle"] \in Nat
    BY <2>3 DEF Reacting, TypeOK, ClockNames
  <2>6. \/ pc' = "sleep" /\ clock'["cycle"] <= MaxGap
        \/ pc' = "zero"
    BY <2>1 DEF Raise
  <2> QED  BY <2>3, <2>4, <2>5, <2>6, PlanTypes DEF Reacting, Capped
<1> QED  BY <1>1, <1>2

LEMMA CycleReacts == ASSUME TypeOK, Reacting, Cycle PROVE Reacting'
<1> SUFFICES ASSUME ~late' PROVE Reacting'
  BY DEF Reacting
<1>1. CASE UNCHANGED <<clock, late>> /\ Raise
  BY <1>1, PlanTypes, SMTT(20) DEF Cycle, Reacting, Raise, TypeOK, ClockNames
<1>2. CASE \E d1, d2 \in Durations, accepted \in BOOLEAN :
            IF accepted /\ d1 <= MaxIo /\ d2 <= MaxIo /\ d1 + d2 <= MaxGap
            THEN /\ pc' = "command"
                 /\ clock' = [Later(d1 + d2) EXCEPT !.cycle = d1 + d2, !.unseen = d1 + d2]
                 /\ UNCHANGED late
            ELSE /\ Raise
                 /\ clock' = Later(d1 + d2)
                 /\ late' = (late \/ d1 > MaxIo \/ d2 > MaxIo)
  <2>1. PICK d1, d2 \in Durations, accepted \in BOOLEAN :
            IF accepted /\ d1 <= MaxIo /\ d2 <= MaxIo /\ d1 + d2 <= MaxGap
            THEN /\ pc' = "command"
                 /\ clock' = [Later(d1 + d2) EXCEPT !.cycle = d1 + d2, !.unseen = d1 + d2]
                 /\ UNCHANGED late
            ELSE /\ Raise
                 /\ clock' = Later(d1 + d2)
                 /\ late' = (late \/ d1 > MaxIo \/ d2 > MaxIo)
    BY <1>2
  <2>2. d1 \in Nat /\ d2 \in Nat /\ d1 + d2 \in Nat
    BY DurationLemma
  <2>3. /\ Later(d1 + d2) \in [ClockNames -> Nat]
        /\ Later(d1 + d2)["unseen"] = Capped(clock["unseen"] + (d1 + d2), MaxGap + 3 * MaxIo + 1)
    BY <2>2, LaterLemma
  <2>4. CASE accepted /\ d1 <= MaxIo /\ d2 <= MaxIo /\ d1 + d2 <= MaxGap
    <3>1. pc' = "command" /\ clock'["cycle"] = d1 + d2 /\ clock'["unseen"] = d1 + d2
      BY <2>1, <2>3, <2>4 DEF ClockNames
    <3> QED  BY <2>4, <3>1 DEF Reacting
  <2>5. CASE ~(accepted /\ d1 <= MaxIo /\ d2 <= MaxIo /\ d1 + d2 <= MaxGap)
    <3>1. /\ pc' = "zero" /\ clock' = Later(d1 + d2)
          /\ late' = (late \/ d1 > MaxIo \/ d2 > MaxIo)
      BY <2>1, <2>5 DEF Raise
    <3>2. ~late /\ ~(d1 > MaxIo) /\ ~(d2 > MaxIo)
      BY <3>1, Zenon
    <3>3. ~late /\ d1 <= MaxIo /\ d2 <= MaxIo
      BY <2>2, <3>2, PlanTypes
    <3>4. clock["unseen"] <= MaxGap /\ clock["unseen"] \in Nat
      BY <3>3 DEF Cycle, Reacting, TypeOK, ClockNames
    <3>5. clock'["unseen"] <= MaxGap + 2 * MaxIo
      BY <2>2, <2>3, <3>1, <3>3, <3>4, PlanTypes DEF Capped
    <3> QED  BY <3>1, <3>5 DEF Reacting
  <2> QED  BY <2>4, <2>5
<1> QED  BY <1>1, <1>2 DEF Cycle

LEMMA SleepReacts == ASSUME TypeOK, Reacting, Sleep PROVE Reacting'
<1> SUFFICES ASSUME ~late' PROVE Reacting'
  BY DEF Reacting
<1>1. PICK d \in 0 .. MaxGap + 1 :
        /\ clock' = Later(d)
        /\ late' = (late \/ clock.cycle + d > MaxGap)
  BY DEF Sleep
<1>2. d \in Nat /\ clock["cycle"] \in Nat
  BY PlanTypes DEF TypeOK, ClockNames
<1>3. ~late /\ ~(clock["cycle"] + d > MaxGap)
  BY <1>1, Zenon
<1>4. ~late /\ clock["cycle"] + d <= MaxGap
  BY <1>2, <1>3, PlanTypes
<1>5. clock["unseen"] = clock["cycle"]
  BY <1>4 DEF Sleep, Reacting
<1>6. /\ clock'["cycle"] = Capped(clock["cycle"] + d, MaxGap + 1)
      /\ clock'["unseen"] = Capped(clock["unseen"] + d, MaxGap + 3 * MaxIo + 1)
  BY <1>1, <1>2, LaterLemma
<1> QED  BY <1>2, <1>4, <1>5, <1>6, PlanTypes DEF Sleep, Reacting, Capped

LEMMA StopZeroReacts == ASSUME TypeOK, Reacting, StopZero PROVE Reacting'
<1> SUFFICES ASSUME ~late' PROVE Reacting'
  BY DEF Reacting
<1>1. CASE UNCHANGED <<clock, late>>
  BY <1>1, PlanTypes DEF StopZero, Reacting, TypeOK, ClockNames
<1>2. CASE \E reply \in Replies, d \in Durations : Exchange(reply, d)
  <2>1. PICK reply \in Replies, d \in Durations : Exchange(reply, d)
    BY <1>2
  <2>2. d \in Nat /\ clock["unseen"] \in Nat
    BY DurationLemma DEF TypeOK, ClockNames
  <2>3. ~late /\ ~(d > MaxIo)
    BY <2>1, Zenon DEF Exchange
  <2>4. ~late /\ d <= MaxIo
    BY <2>2, <2>3, PlanTypes
  <2>5. clock["unseen"] <= MaxGap + 2 * MaxIo
    BY <2>4 DEF StopZero, Reacting
  <2>6. clock'["unseen"] = Capped(clock["unseen"] + d, MaxGap + 3 * MaxIo + 1)
    BY <2>1, <2>2, LaterLemma DEF Exchange
  <2> QED  BY <2>2, <2>4, <2>5, <2>6, PlanTypes DEF StopZero, Reacting, Capped
<1> QED  BY <1>1, <1>2 DEF StopZero

LEMMA LoopReacts ==
  ASSUME TypeOK, Reacting, HoldPulse \/ EndPulse \/ Settle \/ StartPulse
  PROVE  Reacting'
<1> USE DEF TypeOK
<1>1. CASE HoldPulse
  <2>1. Speed(next) \in {-1, 0, 1}
    BY DEF Speed
  <2> QED  BY <1>1, <2>1, CommandReacts DEF HoldPulse
<1>2. CASE EndPulse  BY <1>2, CommandReacts DEF EndPulse
<1>3. CASE Settle
  <2>1. /\ [clock EXCEPT !.stable = 0] \in [ClockNames -> Nat]
        /\ [clock EXCEPT !.stable = 0]["cycle"] = clock["cycle"]
        /\ [clock EXCEPT !.stable = 0]["unseen"] = clock["unseen"]
    BY DEF ClockNames
  <2> QED  BY <1>3, <2>1, CommandReacts DEF Settle
<1>4. CASE StartPulse
  <2>1. Speed(next + 1) \in {-1, 0, 1} /\ next + 1 \in 0 .. Pulses
    BY <1>4, PlanTypes DEF Speed, StartPulse
  <2> QED  BY <1>4, <2>1, CommandReacts DEF StartPulse
<1> QED  BY <1>1, <1>2, <1>3, <1>4

(* What leaves the clocks alone, or has left the stop behind. *)
LEMMA OtherReacts ==
  ASSUME TypeOK, Reacting,
         \/ Attach \/ SetupRefused \/ Setup \/ Look \/ Enable \/ VerifyMode
         \/ Unsettled \/ Finish \/ StopDisable \/ Save \/ WriteResult \/ Unwind
         \/ Interrupt \/ Kill
  PROVE  Reacting'
<1>1. CASE StopDisable  BY <1>1 DEF StopDisable, Reacting
<1>2. CASE Save  BY <1>2 DEF Save, Reacting
<1>3. CASE WriteResult \/ Unwind \/ Kill  BY <1>3 DEF WriteResult, Unwind, Kill, Reacting
<1>4. CASE Interrupt  BY <1>4 DEF Interrupt, Reacting
<1>5. CASE Attach \/ SetupRefused \/ Look \/ Enable \/ VerifyMode \/ Unsettled \/ Finish
  <2>1. UNCHANGED <<clock, late>>
    BY <1>5, Zenon DEF Attach, SetupRefused, Look, Enable, VerifyMode, Unsettled, Finish
  <2>2. pc \in {"attach", "setup", "look", "enable", "verify", "command"}
    BY <1>5 DEF Attach, SetupRefused, Look, Enable, VerifyMode, Unsettled, Finish
  <2>3. pc' \in {"setup", "look", "enable", "verify", "cycle", "zero"}
    BY <1>5 DEF Attach, SetupRefused, Look, Enable, VerifyMode, Unsettled, Finish, Raise
  <2> QED  BY <2>1, <2>2, <2>3, PlanTypes DEF Reacting, TypeOK, ClockNames
<1>6. CASE Setup
  <2>1. UNCHANGED <<clock, late>> /\ pc = "setup"
    BY <1>6, Zenon DEF Setup
  <2>2. pc' \in {"setup", "look", "zero"}
    BY <1>6 DEF Setup, Raise
  <2> QED  BY <2>1, <2>2, PlanTypes DEF Reacting, TypeOK, ClockNames
<1> QED  BY <1>1, <1>2, <1>3, <1>4, <1>5, <1>6

(* However the exchanges of a cycle share its time, for every plan: while  *)
(* nothing overruns, zero is asked for within one sample gap and three     *)
(* exchanges of the last accepted position.                                *)
THEOREM ReactionCorrect == Spec => []ReactionIsBounded
<1>1. Init => Reacting
  BY PlanTypes DEF Init, Reacting, ClockNames
<1>2. TypeOK /\ Reacting /\ [Next]_vars => Reacting'
  <2> SUFFICES ASSUME TypeOK, Reacting, [Next]_vars PROVE Reacting'
    OBVIOUS
  <2>1. CASE UNCHANGED vars  BY <2>1 DEF vars, Reacting
  <2>2. CASE Next
    BY <2>2, CycleReacts, SleepReacts, StopZeroReacts, LoopReacts, OtherReacts, Zenon DEF Next
  <2> QED  BY <2>1, <2>2
<1>3. TypeOK /\ Reacting => ReactionIsBounded
  BY PlanTypes DEF TypeOK, Reacting, ReactionIsBounded, ClockNames
<1> QED  BY <1>1, <1>2, <1>3, TypeCorrect, PTL DEF Spec

-----------------------------------------------------------------------------
(* The end of a run.                                                       *)

Running == {"attach", "setup", "look", "enable", "verify", "cycle", "command", "sleep"}

(* run() returned only after the last pulse; what stop() achieved is what  *)
(* the drive is in until the destructor; the verdict comes after it; and   *)
(* a drive still enabled has not heard the disables sent so far.           *)
EndInv ==
  /\ success => next = Pulses /\ ~pulsing /\ pc \notin Running
  /\ pc = "disable" /\ stopped => connected /\ target = 0
  /\ pc \in {"save", "result", "unwind"} =>
       /\ closed = stopped
       /\ stopped => target = 0 /\ ~enabled
       /\ enabled /\ connected => lostDisables >= 1
  /\ pc = "result" => saved
  /\ verdict = "complete" => pc \in {"unwind", "ended", "killed"}
  /\ RunEndsInOrder

USE DEF RunEndsInOrder, VerdictIsHonest, OneLostDisableIsRepaired

(* Before the end the verdict is still open, and run() has not returned.   *)
LEMMA RunningEnds ==
  ASSUME EndInv, pc \in Running, pc' \in Running \cup {"zero"}, UNCHANGED <<success, verdict>>
  PROVE  EndInv'
BY DEF EndInv, Running

LEMMA CommandRuns ==
  ASSUME pc = "command", NEW v, NEW t, NEW Restarted, NEW startsPulsing, NEW begun,
         Command(v, t, Restarted, startsPulsing, begun)
  PROVE  pc' \in {"sleep", "zero"} /\ UNCHANGED <<success, verdict>>
BY DEF Command, Raise, ending

LEMMA LoopEnds ==
  ASSUME EndInv, Cycle \/ HoldPulse \/ EndPulse \/ Unsettled \/ Settle \/ StartPulse \/ Sleep
  PROVE  EndInv'
<1>1. pc \in {"cycle", "command", "sleep"}
  BY DEF Cycle, HoldPulse, EndPulse, Unsettled, Settle, StartPulse, Sleep
<1>2. CASE Cycle
  <2>1. pc' \in {"command", "zero"} /\ UNCHANGED <<success, verdict>>
    BY <1>2 DEF Cycle, Raise, loop, ending
  <2> QED  BY <1>1, <2>1, RunningEnds DEF Running
<1>3. CASE HoldPulse \/ EndPulse \/ Settle \/ StartPulse
  <2>1. pc = "command" /\ pc' \in {"sleep", "zero"} /\ UNCHANGED <<success, verdict>>
    BY <1>3, CommandRuns DEF HoldPulse, EndPulse, Settle, StartPulse
  <2> QED  BY <2>1, RunningEnds DEF Running
<1>4. CASE Unsettled
  <2>1. pc' = "zero" /\ UNCHANGED <<success, verdict>>
    BY <1>4 DEF Unsettled, Raise, loop, ending
  <2> QED  BY <1>1, <2>1, RunningEnds DEF Running
<1>5. CASE Sleep
  <2>1. pc' = "cycle" /\ UNCHANGED <<success, verdict>>
    BY <1>5 DEF Sleep, loop, ending
  <2> QED  BY <1>1, <2>1, RunningEnds DEF Running
<1> QED  BY <1>2, <1>3, <1>4, <1>5

LEMMA SetupEnds ==
  ASSUME EndInv, Attach \/ SetupRefused \/ Setup \/ Look \/ Enable \/ VerifyMode
  PROVE  EndInv'
<1>1. pc \in {"attach", "setup", "look", "enable", "verify"}
  BY DEF Attach, SetupRefused, Setup, Look, Enable, VerifyMode
<1>2. UNCHANGED <<success, verdict>>
  BY DEF Attach, SetupRefused, Setup, Look, Enable, VerifyMode, loop, ending
<1>3. pc' \in {"setup", "look", "enable", "verify", "cycle", "zero"}
  <2>1. CASE Attach \/ SetupRefused \/ Look \/ VerifyMode
    BY <2>1 DEF Attach, SetupRefused, Look, VerifyMode, Raise
  <2>2. CASE Setup  BY <2>2 DEF Setup, Raise
  <2>3. CASE Enable  BY <2>3 DEF Enable, Raise
  <2> QED  BY <2>1, <2>2, <2>3
<1> QED  BY <1>1, <1>2, <1>3, RunningEnds DEF Running

LEMMA FinishEnds == ASSUME EndInv, Finish PROVE EndInv'
BY DEF Finish, EndInv, Running, ending

LEMMA StopZeroEnds == ASSUME EndInv, StopZero PROVE EndInv'
<1>1. /\ pc = "zero" /\ pc' = "disable"
      /\ UNCHANGED <<connected, next, pulsing, success, verdict>>
  BY DEF StopZero, loop
<1>2. stopped' => connected /\ target' = 0
  <2>1. CASE ~connected  BY <2>1 DEF StopZero
  <2>2. CASE connected
    <3>1. PICK reply \in Replies, d \in Durations :
            SetTarget(0, reply) /\ stopped' = Worked(reply, d)
      BY <2>2 DEF StopZero
    <3> QED  BY <2>2, <3>1 DEF SetTarget, Worked
  <2> QED  BY <2>1, <2>2
<1> QED  BY <1>1, <1>2 DEF EndInv, Running

LEMMA StopDisableEnds == ASSUME TypeOK, EndInv, StopDisable PROVE EndInv'
<1>1. /\ pc = "disable" /\ pc' = "save" /\ closed' = stopped'
      /\ UNCHANGED <<connected, next, pulsing, success, verdict>>
  BY DEF StopDisable, loop
<1>2. CASE ~connected
  <2>1. UNCHANGED stopped
    BY <1>2 DEF StopDisable
  <2>2. ~stopped
    BY <1>1, <1>2 DEF EndInv
  <2> QED  BY <1>1, <1>2, <2>1, <2>2 DEF EndInv, Running
<1>3. CASE connected
  <2>1. PICK reply \in Replies, d \in Durations :
          Disable(reply) /\ CountDisable(reply) /\ stopped' = (stopped /\ Worked(reply, d))
    BY <1>3 DEF StopDisable
  <2>2. stopped' => stopped /\ reply = "ok"
    BY <2>1 DEF Worked
  <2>3. target' = target /\ (enabled' => reply = "lost")
    BY <2>1 DEF Disable
  <2>4. reply = "lost" => lostDisables' >= 1
    BY <2>1 DEF CountDisable, Capped, TypeOK
  <2> QED  BY <1>1, <2>2, <2>3, <2>4 DEF EndInv, Running
<1> QED  BY <1>2, <1>3

LEMMA RecordEnds == ASSUME EndInv, Save \/ WriteResult PROVE EndInv'
<1>1. CASE Save
  <2>1. /\ pc = "save" /\ pc' \in {"result", "unwind"} /\ (pc' = "result" => saved')
        /\ UNCHANGED <<connected, enabled, target, lostDisables>>
        /\ UNCHANGED <<next, pulsing, success, stopped, closed, verdict>>
    BY <1>1 DEF Save, drive, loop
  <2> QED  BY <2>1 DEF EndInv, Running
<1>2. CASE WriteResult
  <2>1. /\ pc = "result" /\ pc' = "unwind"
        /\ UNCHANGED <<connected, enabled, target, lostDisables>>
        /\ UNCHANGED <<next, pulsing, success, stopped, closed, saved>>
    BY <1>2 DEF WriteResult, drive, loop
  <2>2. verdict' = "complete" => success /\ stopped
    BY <1>2 DEF WriteResult, Verdict, EndInv
  <2> QED  BY <2>1, <2>2 DEF EndInv, Running
<1> QED  BY <1>1, <1>2

LEMMA UnwindEnds == ASSUME TypeOK, EndInv, Unwind PROVE EndInv'
<1>1. /\ pc = "unwind" /\ pc' = "ended"
      /\ UNCHANGED <<connected, next, pulsing, success, stopped, closed, saved, verdict>>
  BY DEF Unwind, loop, ending
<1>2. CASE connected /\ ~closed
  <2>1. PICK zero \in Replies, disable \in Replies :
            /\ target' = IF zero = "lost" THEN target ELSE 0
            /\ enabled' = (enabled /\ disable = "lost")
            /\ CountDisable(disable)
    BY <1>2 DEF Unwind
  <2>2. enabled' => enabled /\ disable = "lost"
    BY <2>1, Zenon
  <2>3. target = 0 => target' = 0
    BY <2>1
  <2>4. enabled /\ disable = "lost" => lostDisables' = 2
    <3> SUFFICES ASSUME enabled, disable = "lost" PROVE lostDisables' = 2
      OBVIOUS
    <3>1. lostDisables >= 1
      BY <1>1, <1>2 DEF EndInv
    <3> QED  BY <2>1, <3>1 DEF CountDisable, Capped, TypeOK
  <2> QED  BY <1>1, <2>2, <2>3, <2>4 DEF EndInv, Running
<1>3. CASE ~(connected /\ ~closed)
  <2>1. UNCHANGED <<enabled, target, lostDisables>>
    BY <1>3 DEF Unwind, drive
  <2>2. connected => ~enabled
    BY <1>1, <1>3 DEF EndInv
  <2> QED  BY <1>1, <2>1, <2>2 DEF EndInv, Running
<1> QED  BY <1>2, <1>3

LEMMA SignalEnds == ASSUME EndInv, Interrupt \/ Kill PROVE EndInv'
<1>1. CASE Interrupt  BY <1>1 DEF Interrupt, EndInv, drive, loop, ending
<1>2. CASE Kill  BY <1>2 DEF Kill, EndInv, Running, drive, loop, ending
<1> QED  BY <1>1, <1>2

(* For every plan, and wherever a run is interrupted, fails or is killed:  *)
(* state=complete is earned, and one lost disable leaves no axis enabled.  *)
THEOREM EndCorrect == Spec => []RunEndsInOrder
<1>1. Init => EndInv
  BY DEF Init, EndInv, Running
<1>2. TypeOK /\ EndInv /\ [Next]_vars => EndInv'
  <2> SUFFICES ASSUME TypeOK, EndInv, [Next]_vars PROVE EndInv'
    OBVIOUS
  <2>1. CASE UNCHANGED vars  BY <2>1 DEF vars, drive, loop, ending, EndInv
  <2>2. CASE Next
    BY <2>2, SetupEnds, LoopEnds, FinishEnds, StopZeroEnds, StopDisableEnds, RecordEnds,
       UnwindEnds, SignalEnds, Zenon DEF Next
  <2> QED  BY <2>1, <2>2
<1>3. EndInv => RunEndsInOrder
  BY DEF EndInv
<1> QED  BY <1>1, <1>2, <1>3, TypeCorrect, PTL DEF Spec

-----------------------------------------------------------------------------
(* The configuration of the gimbals.                                       *)

(* What fits a uint16_t; the solvers would enumerate an interval. *)
Words == {n \in Nat : n < Config!Word}

FileOK == MaxGroups \in Nat /\ FollowValues \subseteq Int /\ TimeoutValues \subseteq Int

(* Numbers.                                                                *)

(* A key that is narrowed is in the range of its type, whatever it says. *)
LEMMA Uint16Lemma ==
  ASSUME NEW values \in SUBSET Int, NEW key \in Config!Keys(values), NEW fallback \in Words
  PROVE  Config!Uint16(key, fallback) \in Words
<1>1. CASE key = {}
  BY <1>1 DEF Config!Uint16
<1>2. CASE key # {}
  <2>1. PICK v \in values : key = {v}
    BY <1>2 DEF Config!Keys
  <2>2. (CHOOSE w \in key : TRUE) = v
    BY <2>1
  <2>3. v % Config!Word \in Words
    BY <2>1 DEF Words, Config!Word
  <2>4. Config!Uint16(key, fallback) = (CHOOSE w \in key : TRUE) % Config!Word
    BY <1>2, Zenon DEF Config!Uint16
  <2> QED  BY <2>2, <2>3, <2>4, Zenon
<1> QED  BY <1>1, <1>2

(* The guard comes after the narrowing, so it is never left at zero. *)
LEMMA GuardedLemma ==
  ASSUME NEW values \in SUBSET Int, NEW key \in Config!Keys(values), NEW fallback \in Words \ {0}
  PROVE  Config!Guarded(key, fallback) \in Words \ {0}
<1>1. Config!Uint16(key, fallback) \in Words
  <2>1. fallback \in Words
    OBVIOUS
  <2> QED  BY <2>1, Uint16Lemma
<1> QED  BY <1>1 DEF Config!Guarded, Words, Config!Word

-----------------------------------------------------------------------------
(* The pass over follow=.                                                  *)

(* Of the file, what the steps rely on; it never changes. *)
FileInv ==
  /\ groups \subseteq 1 .. MaxGroups
  /\ followKey \in [Config!Sections(groups) -> Config!Keys(FollowValues)]
  /\ timeoutKey \in Config!Keys(TimeoutValues)
  /\ overrideKey \in Config!Keys(TimeoutValues)

(* A gimbal follows nobody, or one that is there and follows nobody. *)
Settled(f, i) == f[i] = 0 \/ (f[i] \in DOMAIN f \ {i} /\ f[f[i]] = 0)

(***************************************************************************)
(* The gimbals behind the pass are settled, those ahead are as in the      *)
(* file, and each correction is to zero, which unsettles nobody: that is   *)
(* why one pass is enough.                                                 *)
(***************************************************************************)
PassInv ==
  /\ FileInv
  /\ phase # "read" =>
       /\ DOMAIN follow = DOMAIN Config!Followed
       /\ \A i \in DOMAIN follow : follow[i] \in {0, Config!Followed[i]}
       /\ \A i \in DOMAIN follow : i >= g => follow[i] = Config!Followed[i]
       /\ \A i \in DOMAIN follow : i < g => Settled(follow, i)
  /\ g \in Nat \ {0}
  /\ phase \in {"read", "check", "split", "running"}
  /\ phase = "read" => g = 1
  /\ phase \in {"split", "running"} => g \notin DOMAIN follow
  /\ phase = "running" =>
       /\ leaders = {i \in DOMAIN follow : follow[i] = 0}
       /\ followers = [l \in DOMAIN follow |-> {i \in DOMAIN follow : follow[i] = l}]
  /\ Config!GoodFollowsAreKept
  /\ Config!TimeoutIsUsable

(* The gimbals are numbered from 1 without a gap, and follow 16-bit ids. *)
LEMMA FollowedLemma ==
  ASSUME FileOK, FileInv
  PROVE  /\ DOMAIN Config!Followed \subseteq Nat \ {0}
         /\ \A i \in DOMAIN Config!Followed : Config!Followed[i] \in Words
         /\ \A i \in DOMAIN Config!Followed : \A j \in 1 .. i : j \in DOMAIN Config!Followed
<1>1. CASE 1 \in groups
  <2>1. DOMAIN Config!Followed = Config!Numbered /\ \A i \in Config!Numbered : Config!Followed[i] = Config!Uint16(followKey[i], 0)
    BY <1>1 DEF Config!Followed
  <2>2. Config!Numbered \subseteq Nat \ {0} /\ Config!Numbered \subseteq groups
    BY DEF Config!Numbered, FileOK
  <2>3. \A i \in Config!Numbered : followKey[i] \in Config!Keys(FollowValues)
    BY <1>1, <2>2 DEF FileInv, Config!Sections
  <2>4. \A i \in Config!Numbered : Config!Uint16(followKey[i], 0) \in Words
    BY <2>3, Uint16Lemma DEF FileOK, Words, Config!Word
  <2>5. \A i \in Config!Numbered : \A j \in 1 .. i : j \in Config!Numbered
    BY DEF Config!Numbered, FileOK
  <2> QED  BY <2>1, <2>2, <2>4, <2>5
<1>2. CASE 1 \notin groups
  <2>1. DOMAIN Config!Followed = {1} /\ Config!Followed[1] = Config!Uint16(followKey[0], 0)
    BY <1>2 DEF Config!Followed
  <2>2. followKey[0] \in Config!Keys(FollowValues)
    BY <1>2 DEF FileInv, Config!Sections
  <2>3. Config!Uint16(followKey[0], 0) \in Words
    BY <2>2, Uint16Lemma DEF FileOK, Words, Config!Word
  <2> QED  BY <2>1, <2>3
<1> QED  BY <1>1, <1>2

(* What the file says is constant. *)
LEMMA FileKept ==
  ASSUME UNCHANGED Config!inFile
  PROVE  (FileInv => FileInv') /\ Config!Followed' = Config!Followed
BY DEF Config!inFile, FileInv, Config!Followed, Config!Numbered, Config!Sections

LEMMA PassRead ==
  ASSUME FileOK, PassInv, Config!ReadGimbals
  PROVE  PassInv'
<1>1. FileInv' /\ Config!Followed' = Config!Followed
  BY FileKept DEF PassInv, Config!ReadGimbals
<1>2. follow' = Config!Followed /\ g' = 1 /\ phase' = "check"
  BY DEF Config!ReadGimbals, PassInv
<1>3. timeout' \in Words \ {0}
  <2>1. Config!Guarded(timeoutKey, 150) \in Words \ {0}
    BY GuardedLemma DEF FileOK, PassInv, FileInv, Words, Config!Word
  <2>2. Config!Guarded(overrideKey, Config!Guarded(timeoutKey, 150)) \in Words \ {0}
    BY <2>1, GuardedLemma DEF FileOK, PassInv, FileInv
  <2> QED  BY <2>2 DEF Config!ReadGimbals
<1>4. \A i \in DOMAIN follow' : i >= 1
  BY <1>2, FollowedLemma DEF PassInv
<1>5. Config!GoodFollowsAreKept' /\ Config!TimeoutIsUsable'
  BY <1>1, <1>2, <1>3 DEF Config!GoodFollowsAreKept, Config!TimeoutIsUsable, Words
<1>6. \A i \in DOMAIN follow' : ~(i < g')
  BY <1>2, FollowedLemma DEF PassInv
<1>7. phase' # "running" /\ phase' \notin {"split", "running"} /\ phase' # "read"
  BY <1>2
<1> QED  BY <1>1, <1>2, <1>4, <1>5, <1>6, <1>7 DEF PassInv

LEMMA PassCheck ==
  ASSUME FileOK, PassInv, Config!CheckFollow
  PROVE  PassInv'
<1>1. FileInv' /\ Config!Followed' = Config!Followed
  BY FileKept DEF PassInv, Config!CheckFollow
<1>2. /\ phase = "check" /\ phase' = "check" /\ g \in DOMAIN follow /\ g' = g + 1 /\ timeout' = timeout
      /\ DOMAIN follow' = DOMAIN follow /\ DOMAIN follow = DOMAIN Config!Followed
  BY DEF Config!CheckFollow, PassInv
<1>3. DOMAIN follow \subseteq Nat \ {0}
  BY <1>2, FollowedLemma DEF PassInv
<1>4. follow'[g] = (IF Config!NotALeader(follow, g) THEN 0 ELSE follow[g])
  BY <1>2 DEF Config!CheckFollow
<1>5. \A i \in DOMAIN follow \ {g} : follow'[i] = follow[i]
  BY <1>2 DEF Config!CheckFollow
<1>6. \A i \in DOMAIN follow : follow[i] = 0 => follow'[i] = 0
  BY <1>2, <1>4, <1>5
<1>7. \A i \in DOMAIN follow : Settled(follow, i) => Settled(follow', i)
  BY <1>2, <1>4, <1>5, <1>6 DEF Settled, Config!NotALeader
<1>8. Settled(follow', g)
  BY <1>2, <1>4, <1>5, <1>6 DEF Settled, Config!NotALeader
<1>9. \A i \in DOMAIN follow' : i < g' => Settled(follow', i)
  BY <1>2, <1>3, <1>7, <1>8 DEF PassInv
<1>10. \A i \in DOMAIN follow' : follow'[i] \in {0, Config!Followed[i]}
  BY <1>2, <1>4, <1>5 DEF PassInv
<1>11. \A i \in DOMAIN follow' : i >= g' => follow'[i] = Config!Followed[i]
  BY <1>2, <1>3, <1>5 DEF PassInv
<1>12. Config!GoodFollowsAreKept'
  <2> SUFFICES ASSUME NEW i \in DOMAIN follow,
                      Config!Followed[i] \in DOMAIN follow \ {i}, Config!Followed[Config!Followed[i]] = 0
               PROVE  follow'[i] = Config!Followed[i]
    BY <1>1, <1>2, Zenon DEF Config!GoodFollowsAreKept
  <2>1. follow[i] = Config!Followed[i]
    BY <1>2 DEF PassInv, Config!GoodFollowsAreKept
  <2>2. follow[Config!Followed[i]] \in {0, Config!Followed[Config!Followed[i]]}
    BY <1>2 DEF PassInv
  <2>3. ~Config!NotALeader(follow, i)
    BY <2>1, <2>2 DEF Config!NotALeader
  <2> QED  BY <1>4, <1>5, <2>1, <2>3
<1>13. Config!TimeoutIsUsable'
  BY <1>2 DEF PassInv, Config!TimeoutIsUsable
<1>14. g' \in Nat \ {0}
  BY <1>2 DEF PassInv
<1> QED  BY <1>1, <1>2, <1>9, <1>10, <1>11, <1>12, <1>13, <1>14 DEF PassInv

LEMMA PassEnd ==
  ASSUME FileOK, PassInv, Config!Loaded \/ Config!Split \/ UNCHANGED configVars
  PROVE  PassInv'
<1>1. FileInv' /\ Config!Followed' = Config!Followed /\ g' = g
  BY FileKept DEF PassInv, Config!Loaded, Config!Split, configVars, Config!inFile
<1>2. follow' = follow /\ timeout' = timeout
  BY DEF Config!Loaded, Config!Split, configVars
<1>3. Config!GoodFollowsAreKept' /\ Config!TimeoutIsUsable'
  BY <1>1, <1>2 DEF PassInv, Config!GoodFollowsAreKept, Config!TimeoutIsUsable, Config!Loaded, Config!Split, configVars
<1>4. /\ phase' \in {"read", "check", "split", "running"}
      /\ phase' = "read" <=> phase = "read"
      /\ phase' \in {"split", "running"} => g \notin DOMAIN follow
      /\ phase' = "running" =>
           /\ leaders' = {i \in DOMAIN follow : follow[i] = 0}
           /\ followers' = [l \in DOMAIN follow |-> {i \in DOMAIN follow : follow[i] = l}]
  BY DEF PassInv, Config!Loaded, Config!Split, configVars, Config!result
<1> QED  BY <1>1, <1>2, <1>3, <1>4 DEF PassInv

LEMMA PassInit == Config!Init => PassInv
BY DEF Config!Init, PassInv, FileInv, Config!GoodFollowsAreKept, Config!TimeoutIsUsable

LEMMA PassStep ==
  ASSUME FileOK, PassInv, Config!Next \/ UNCHANGED configVars
  PROVE  PassInv'
BY PassRead, PassCheck, PassEnd DEF Config!Next

(* A leader follows nobody, and a follower has one that does not follow.   *)
LEMMA OneDriver ==
  ASSUME FileOK, PassInv
  PROVE  Config!EveryGimbalHasOneDriver
<1> SUFFICES ASSUME phase = "running", NEW i \in DOMAIN follow
             PROVE  \E l \in leaders :
                      Config!Drives(l, i) /\ \A m \in leaders : Config!Drives(m, i) => m = l
  BY DEF Config!EveryGimbalHasOneDriver
<1>1. \A l \in leaders : l \in DOMAIN follow /\ follow[l] = 0
  BY DEF PassInv
<1>2. \A l \in leaders : Config!Drives(l, i) <=> l = i \/ follow[i] = l
  BY <1>1 DEF Config!Drives, PassInv
<1>3. DOMAIN follow \subseteq Nat \ {0}
  BY FollowedLemma DEF PassInv
<1>4. Settled(follow, i)
  <2>1. g \in Nat \ {0} /\ g \notin DOMAIN follow /\ DOMAIN follow = DOMAIN Config!Followed
    BY DEF PassInv
  <2>2. ~(g <= i)
    BY <1>3, <2>1, FollowedLemma DEF PassInv
  <2>3. i < g
    BY <1>3, <2>1, <2>2
  <2> QED  BY <2>3 DEF PassInv
<1>5. CASE follow[i] = 0
  <2>1. i \in leaders
    BY <1>5 DEF PassInv
  <2> QED  BY <1>1, <1>2, <1>3, <1>5, <2>1
<1>6. CASE follow[i] # 0
  <2>1. follow[i] \in leaders /\ i \notin leaders
    BY <1>4, <1>6 DEF PassInv, Settled
  <2> QED  BY <1>2, <2>1
<1> QED  BY <1>5, <1>6

-----------------------------------------------------------------------------
(* The focal calibration.                                                  *)

(***************************************************************************)
(* Main disables the gimbal only after the motor thread has ended, and     *)
(* that thread's last command is the zero: what was driven is stopped by   *)
(* one of the two, or by neither.                                          *)
(***************************************************************************)
AxisInv ==
  /\ main \in {"final", "disable", "exit", "gone"} => focalLoop = "ended"
  /\ focalLoop = "ended" => axis # "driven" \/ "zero" \in failed
  /\ main \in {"exit", "gone"} => axis = "disabled" \/ "disable" \in failed

LEMMA AxisStep ==
  ASSUME AxisInv, Focal!Next \/ UNCHANGED focalVars
  PROVE  AxisInv'
<1> USE DEF AxisInv
<1>1. CASE Focal!MotorLoop
  BY <1>1 DEF Focal!MotorLoop, Focal!ReadPose, Focal!Told, Focal!DriveTo, Focal!StopAxis,
              Focal!Try, Focal!shared, Focal!mainVars
<1>2. CASE Focal!AllOpen \/ Focal!SetTarget \/ Focal!SweepEnds \/ Focal!GoHome \/ Focal!StopLoop
           \/ Focal!Join \/ Focal!FinalPose \/ Focal!Exit
  BY <1>2 DEF Focal!AllOpen, Focal!SetTarget, Focal!SweepEnds, Focal!GoHome, Focal!StopLoop,
              Focal!Join, Focal!FinalPose, Focal!Exit, Focal!shared, Focal!loopVars
<1>3. CASE Focal!Grab \/ \E c \in Cameras : Focal!OpenCamera(c) \/ Focal!RestoreCamera(c)
  BY <1>3 DEF Focal!Grab, Focal!OpenCamera, Focal!RestoreCamera, Focal!Throw,
              Focal!shared, Focal!loopVars
<1>4. CASE Focal!Disable
  BY <1>4 DEF Focal!Disable, Focal!shared, Focal!loopVars
<1>5. CASE UNCHANGED focalVars
  BY <1>5 DEF focalVars
<1> QED  BY <1>1, <1>2, <1>3, <1>4, <1>5 DEF Focal!Next, Focal!Main

-----------------------------------------------------------------------------
(* The three together: what does not run stays as it began.                *)

StandaloneInv ==
  /\ phase = "read" \/ PassInv
  /\ part = "config" => PassInv

LEMMA AxisAlways == MCSpec => []AxisInv
<1>1. MCInit => AxisInv
  BY DEF MCInit, Focal!Init, AxisInv
<1>2. AxisInv /\ [MCNext]_<<part, vars, focalVars, configVars>> => AxisInv'
  BY AxisStep DEF MCNext
<1> QED  BY <1>1, <1>2, PTL DEF MCSpec

LEMMA StandaloneCorrect ==
  ASSUME FileOK
  PROVE  MCSpec => []StandaloneInv
<1>1. MCInit => StandaloneInv
  BY PassInit DEF MCInit, NoConfig, StandaloneInv
<1>2. StandaloneInv /\ [MCNext]_<<part, vars, focalVars, configVars>> => StandaloneInv'
  <2> SUFFICES ASSUME StandaloneInv, [MCNext]_<<part, vars, focalVars, configVars>>
               PROVE  StandaloneInv'
    OBVIOUS
  <2>1. part' = part
    BY DEF MCNext
  <2>2. CASE part = "config" /\ (Config!Next \/ UNCHANGED configVars)
    BY <2>1, <2>2, PassStep DEF StandaloneInv
  <2>3. CASE part # "config" /\ UNCHANGED configVars
    BY <2>1, <2>3, PassStep DEF StandaloneInv, configVars
  <2> QED  BY <2>2, <2>3 DEF MCNext
<1> QED  BY <1>1, <1>2, PTL DEF MCSpec

(***************************************************************************)
(* With an abort or an exception at any moment, and any number of cameras  *)
(* and steps, the focal calibration leaves the gimbal stopped unless both  *)
(* of the writes that would stop it have failed (focal_calib.cpp:110).     *)
(***************************************************************************)
THEOREM AxisCorrect == MCSpec => []AxisIsLeftStopped
<1>1. AxisInv => AxisIsLeftStopped
  BY DEF AxisInv, AxisIsLeftStopped, Focal!AxisIsLeftStopped
<1> QED  BY <1>1, AxisAlways, PTL

(***************************************************************************)
(* Whatever file is read, each gimbal has exactly one thread to drive it,  *)
(* its own or its leader's (config.cpp:321, main.cpp:169).                 *)
(***************************************************************************)
THEOREM DriverCorrect ==
  ASSUME FileOK
  PROVE  MCSpec => []EveryGimbalHasOneDriver
<1>1. StandaloneInv => EveryGimbalHasOneDriver
  BY OneDriver DEF StandaloneInv, EveryGimbalHasOneDriver, Config!EveryGimbalHasOneDriver
<1> QED  BY <1>1, StandaloneCorrect, PTL

(* A follow= of a gimbal that follows nobody survives the pass             *)
(* (config.cpp:326).                                                       *)
THEOREM FollowCorrect ==
  ASSUME FileOK
  PROVE  MCSpec => []GoodFollowsAreKept
<1>1. StandaloneInv => GoodFollowsAreKept
  BY DEF StandaloneInv, PassInv, GoodFollowsAreKept, Config!GoodFollowsAreKept
<1> QED  BY <1>1, StandaloneCorrect, PTL

(* The timeout is never zero, whatever integers the file has               *)
(* (config.cpp:32).                                                        *)
THEOREM TimeoutCorrect ==
  ASSUME FileOK
  PROVE  MCSpec => []Config!TimeoutIsUsable
<1>1. StandaloneInv => Config!TimeoutIsUsable
  BY DEF StandaloneInv, PassInv, Config!TimeoutIsUsable
<1> QED  BY <1>1, StandaloneCorrect, PTL
=============================================================================
