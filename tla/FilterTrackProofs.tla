--------------------------- MODULE FilterTrackProofs ---------------------------
(***************************************************************************)
(* Proofs about FilterTrack for any camera, latencies and thresholds that  *)
(* its assumptions allow, and any number of frames, ticks and pose faults. *)
(***************************************************************************)
EXTENDS FilterTrack, TLAPS, FiniteSetTheorems, WellFoundedInduction

-----------------------------------------------------------------------------
(* The capture clock: one frame.                                           *)

ClockType ==
  /\ now \in Nat /\ retrieved \in Nat /\ lastArrival \in Nat /\ lastPts \in Nat
  /\ period \in Nat /\ offPeriod \in Nat /\ capture \in Nat
  /\ stretch \in Nat /\ drift \in Nat
  /\ stamped \in BOOLEAN
  /\ frame \in Frames

(* A period near the interval, moved a twentieth towards it, is still near *)
(* enough: the bounds of DtIsElapsed, for one frame.                       *)
LEMMA SmoothingLemma ==
  ASSUME NEW p \in Nat, NEW i \in Nat, p > 0, i > 0, 4 * Distance(i, p) <= p,
         NEW s, s = p + (i - p) \div 20
  PROVE  /\ s \in Nat /\ s > 0 /\ 3 * s <= 4 * i /\ 2 * i <= 3 * s
         /\ Distance(s, i) \in Nat /\ s <= i + Distance(s, i) /\ i <= s + Distance(s, i)
<1>1. s \in Int
  OBVIOUS
<1>2. CASE i > p
  <2>1. 4 * (i - p) <= p
    BY <1>2 DEF Distance
  <2>2. p <= s /\ s <= i
    BY <1>2
  <2> QED  BY <1>1, <1>2, <2>1, <2>2 DEF Distance
<1>3. CASE i <= p
  <2>1. 4 * (p - i) <= p
    BY <1>3 DEF Distance
  <2>2. i <= s /\ 20 * s <= 19 * p + i
    BY <1>3
  <2> QED  BY <1>1, <1>3, <2>1, <2>2 DEF Distance
<1> QED  BY <1>2, <1>3

(* What a frame does to the clock: it restarts at the arrival, or moves on *)
(* by the interval, but for what snapping adds or takes.                   *)
Restarts(i) == i <= 0 \/ i > MaxInterval

Advances(i) ==
  /\ capture' > capture
  /\ 3 * (capture' - capture) <= 4 * i /\ 2 * i <= 3 * (capture' - capture)
  /\ capture' - capture <= i + (drift' - drift)
  /\ i <= (capture' - capture) + (drift' - drift)

LEMMA AdvanceLemma ==
  ASSUME ClockType, NEW pts \in Nat, NEW arrival \in Nat \ {0}, NEW i \in Int,
         i = Interval(pts, arrival), AdvanceCaptureClock(pts, arrival)
  PROVE  /\ lastArrival' = arrival /\ lastPts' = pts
         /\ period' \in Nat /\ offPeriod' \in Nat /\ capture' \in Nat /\ drift' \in Nat
         /\ capture' > 0 /\ drift' >= drift
         /\ Restarts(i) => capture' = arrival
         /\ ~Restarts(i) => Advances(i)
<1>1. lastArrival' = arrival /\ lastPts' = pts
  BY DEF AdvanceCaptureClock
<1>2. CASE Restarts(i)
  <2>1. Restart(arrival)
    BY <1>2 DEF AdvanceCaptureClock, Restarts
  <2> QED  BY <1>1, <1>2, <2>1 DEF Restart, ClockType
<1>3. CASE ~Restarts(i)
  <2>1. LearnPeriod(i) \/ Snap(i) \/ OffPeriod(i)
    BY <1>3 DEF AdvanceCaptureClock, Restarts
  <2>2. i \in Nat /\ i > 0
    BY <1>3, ClockAssumption DEF Restarts
  <2>3. CASE LearnPeriod(i)
    BY <1>1, <1>3, <2>2, <2>3 DEF LearnPeriod, Advances, ClockType
  <2>4. CASE OffPeriod(i)
    BY <1>1, <1>3, <2>2, <2>4 DEF OffPeriod, Advances, ClockType
  <2>5. CASE Snap(i)
    <3>1. /\ period > 0 /\ 4 * Distance(i, period) <= period
          /\ period' = period + (i - period) \div 20
          /\ capture' = capture + period' /\ offPeriod' = 0
          /\ drift' = drift + Distance(period', i)
      BY <2>5 DEF Snap, OnPeriod, Smoothed
    <3>2. /\ period' \in Nat /\ period' > 0 /\ 3 * period' <= 4 * i /\ 2 * i <= 3 * period'
          /\ Distance(period', i) \in Nat
          /\ period' <= i + Distance(period', i) /\ i <= period' + Distance(period', i)
      BY <2>2, <3>1, SmoothingLemma DEF ClockType
    <3> QED  BY <1>1, <1>3, <2>2, <3>1, <3>2 DEF Advances, ClockType
  <2> QED  BY <2>1, <2>3, <2>4, <2>5
<1> QED  BY <1>2, <1>3

-----------------------------------------------------------------------------
(* The capture clock: all frames.                                          *)

(***************************************************************************)
(* The clock has the newest frame's times, and with stamps it is never     *)
(* ahead of what was retrieved by more than the longest latency and what   *)
(* snapping has added.                                                     *)
(***************************************************************************)
ClockInv ==
  /\ ClockType
  /\ lastPts = IF stamped THEN retrieved ELSE NoPts
  /\ frame.capture = capture /\ frame.retrieved = retrieved /\ frame.stretch = stretch
  /\ frame.time = lastArrival
  /\ lastArrival <= now
  /\ frame.id > 0 => capture > 0 /\ retrieved > 0 /\ lastArrival > 0
  /\ frame.id = 0 => lastArrival = 0
  /\ stamped => capture - retrieved <= MaxLatency + drift

(* What an arrival does, with e the time since the frame before: it goes   *)
(* on with the stretch, or begins another.                                 *)
GoesOn(e) ==
  /\ stretch' = stretch
  /\ 3 * (capture' - capture) <= 4 * e
  /\ 2 * e <= 3 * (capture' - capture)
  /\ capture' > capture
  /\ e <= (capture' - capture) + (drift' - drift)

BeginsAnew ==
  /\ stretch' = stretch + 1
  /\ capture' > capture \/ capture' - retrieved' >= MinLatency

Moves(e) ==
  /\ retrieved' = retrieved + e
  /\ frame'.id = frame.id + 1
  /\ drift' >= drift
  /\ stamped' = stamped
  /\ GoesOn(e) \/ BeginsAnew

LEMMA FrameMoves ==
  ASSUME ClockInv, Frame
  PROVE  ClockInv' /\ \E e \in Nat : Moves(e)
<1>1. PICK gap \in GapsNow, latency \in Latencies :
        LET exposed == retrieved + gap
            arrival == IF exposed + latency > now THEN exposed + latency ELSE now
            pts == IF stamped THEN exposed ELSE NoPts
        IN /\ arrival <= exposed + MaxLatency
           /\ now' = arrival
           /\ retrieved' = exposed
           /\ AdvanceCaptureClock(pts, arrival)
           /\ stretch' = IF TimedByStamps(pts) THEN stretch ELSE stretch + 1
           /\ frame' = [id |-> frame.id + 1, time |-> arrival, capture |-> capture',
                        captured |-> CapturedAt(pts, arrival), retrieved |-> exposed,
                        stretch |-> stretch']
  BY DEF Frame
<1> DEFINE exposed == retrieved + gap
           arrival == IF exposed + latency > now THEN exposed + latency ELSE now
           pts == IF stamped THEN exposed ELSE NoPts
           i == Interval(pts, arrival)
<1>2. /\ arrival <= exposed + MaxLatency
      /\ now' = arrival
      /\ retrieved' = exposed
      /\ AdvanceCaptureClock(pts, arrival)
      /\ stretch' = IF TimedByStamps(pts) THEN stretch ELSE stretch + 1
      /\ frame' = [id |-> frame.id + 1, time |-> arrival, capture |-> capture',
                   captured |-> CapturedAt(pts, arrival), retrieved |-> exposed,
                   stretch |-> stretch']
      /\ stamped' = stamped
  BY <1>1 DEF Frame
<1> HIDE DEF i
<1>3. gap \in Nat \ {0} /\ latency \in Nat /\ latency >= MinLatency
  <2>1. Gaps # {} /\ Gaps \subseteq Nat \ {0} /\ Latencies \subseteq MinLatency .. MaxLatency
        /\ MinLatency \in Nat /\ MaxLatency \in Nat
    BY ClockAssumption
  <2>2. gap \in Gaps
    <3>1. (CHOOSE g \in Gaps : TRUE) \in Gaps
      BY <2>1
    <3> QED  BY <3>1, Zenon DEF GapsNow
  <2> QED  BY <2>1, <2>2
<1>4. /\ exposed \in Nat \ {0} /\ arrival \in Nat \ {0} /\ pts \in Nat
      /\ arrival >= exposed + MinLatency /\ arrival >= now
  BY <1>3, ClockAssumption DEF ClockInv, ClockType, NoPts
<1>5. i \in Int
  BY <1>4 DEF i, Interval, ClockInv, ClockType
<1> HIDE DEF exposed, arrival, pts
<1>6. /\ lastArrival' = arrival /\ lastPts' = pts
      /\ period' \in Nat /\ offPeriod' \in Nat /\ capture' \in Nat /\ drift' \in Nat
      /\ capture' > 0 /\ drift' >= drift
      /\ Restarts(i) => capture' = arrival
      /\ ~Restarts(i) => Advances(i)
  BY <1>2, <1>4, <1>5, AdvanceLemma DEF i, ClockInv
<1>7. CapturedAt(pts, arrival) \in Nat
  BY <1>4, ClockAssumption DEF CapturedAt
<1>8. ClockType'
  <2>1. frame' \in Frames
    BY <1>2, <1>4, <1>6, <1>7 DEF Frames, ClockInv, ClockType
  <2>2. now' \in Nat /\ retrieved' \in Nat /\ stretch' \in Nat
    BY <1>2, <1>4 DEF ClockInv, ClockType
  <2>3. stamped' \in BOOLEAN
    BY <1>2, Zenon DEF ClockInv, ClockType
  <2> QED  BY <1>2, <1>4, <1>6, <2>1, <2>2, <2>3 DEF ClockType
<1>9. pts = (IF stamped THEN exposed ELSE NoPts) /\ exposed = retrieved + gap
  BY DEF pts, exposed
<1>10. i = IF TimedByStamps(pts) THEN pts - lastPts
           ELSE IF lastArrival > 0 THEN arrival - lastArrival ELSE 0
  BY DEF i, Interval
<1>11. frame'.id = frame.id + 1 /\ frame.id \in Nat
  BY <1>2 DEF ClockInv, ClockType, Frames
<1>12. ASSUME stamped'
       PROVE  capture' - retrieved' <= MaxLatency + drift'
  <2>1. /\ stamped /\ pts = exposed /\ lastPts = retrieved
        /\ capture - retrieved <= MaxLatency + drift
    BY <1>2, <1>9, <1>12 DEF ClockInv
  <2>4. /\ arrival <= exposed + MaxLatency /\ retrieved' = exposed
        /\ exposed = retrieved + gap /\ MaxLatency \in Nat
        /\ capture \in Nat /\ retrieved \in Nat /\ drift \in Nat
    BY <1>2, <1>9, ClockAssumption DEF ClockInv, ClockType
  <2>2. CASE Restarts(i)
    BY <1>4, <1>6, <2>2, <2>4
  <2>3. CASE ~Restarts(i)
    <3> DEFINE captureNext == capture'
               driftNext == drift'
    <3>1. /\ capture \in Nat /\ drift \in Nat /\ captureNext \in Nat /\ driftNext \in Nat
          /\ retrieved \in Nat /\ MaxLatency \in Nat /\ gap \in Nat /\ i \in Int
      BY <1>3, <1>5, <1>6, <2>4
    <3>2. i <= gap
      BY <1>3, <1>4, <1>5, <1>9, <1>10, <1>11, <2>1, <2>3, ClockAssumption
         DEF Restarts, TimedByStamps, ClockInv, ClockType, NoPts
    <3>3. captureNext - capture <= i + (driftNext - drift)
      BY <1>6, <2>3 DEF Advances
    <3>4. capture - retrieved <= MaxLatency + drift
      BY <2>1
    <3> HIDE DEF captureNext, driftNext
    <3>5. captureNext - (retrieved + gap) <= MaxLatency + driftNext
      BY <3>1, <3>2, <3>3, <3>4
    <3>6. capture' - (retrieved + gap) <= MaxLatency + drift'
      BY <3>5 DEF captureNext, driftNext
    <3> QED  BY <2>4, <3>6
  <2> QED  BY <2>2, <2>3
<1>13. ClockInv'
  <2>1. /\ frame'.capture = capture' /\ frame'.retrieved = retrieved'
        /\ frame'.stretch = stretch' /\ frame'.time = lastArrival'
        /\ lastPts' = IF stamped' THEN retrieved' ELSE NoPts
    BY <1>2, <1>6, <1>9
  <2>2. lastArrival' <= now' /\ capture' > 0 /\ retrieved' > 0 /\ lastArrival' > 0 /\ frame'.id > 0
    BY <1>2, <1>4, <1>6, <1>11
  <2> QED  BY <1>8, <1>12, <2>1, <2>2 DEF ClockInv
<1>14. Moves(gap)
  <2>1. retrieved' = retrieved + gap /\ frame'.id = frame.id + 1 /\ drift' >= drift
        /\ stamped' = stamped
    BY <1>2, <1>6, <1>9, <1>11
  <2>2. CASE TimedByStamps(pts)
    <3>1. stretch' = stretch /\ i = gap /\ i > 0 /\ i < MaxInterval
      BY <1>2, <1>3, <1>9, <1>10, <2>2 DEF TimedByStamps, ClockInv, ClockType
    <3>2. ~Restarts(i)
      BY <1>5, <3>1, ClockAssumption DEF Restarts
    <3> QED  BY <1>6, <2>1, <3>1, <3>2 DEF Moves, GoesOn, BeginsAnew, Advances
  <2>3. CASE ~TimedByStamps(pts)
    <3>1. stretch' = stretch + 1
      BY <1>2, <2>3
    <3>2. CASE Restarts(i)
      BY <1>2, <1>4, <1>6, <2>1, <3>1, <3>2, ClockAssumption DEF Moves, BeginsAnew
    <3>3. CASE ~Restarts(i)
      BY <1>6, <2>1, <3>1, <3>3 DEF Moves, GoesOn, BeginsAnew, Advances
    <3> QED  BY <3>2, <3>3
  <2> QED  BY <2>2, <2>3
<1> QED  BY <1>3, <1>13, <1>14

-----------------------------------------------------------------------------
(* Types.                                                                  *)

FilterType ==
  /\ past \in Frames /\ stepped \in Frames /\ refused \in Frames
  /\ pc \in {"pose", "observe"}
  /\ poseAt \in Nat /\ cursor \in Nat
  /\ samples \in [0 .. Capacity - 1 -> Nat]
  /\ head \in 0 .. Capacity - 1
  /\ count \in 0 .. Capacity
  /\ lastTime \in Nat /\ lastCapture \in Nat /\ coastFor \in Nat
  /\ initialized \in BOOLEAN /\ haveFramePose \in BOOLEAN /\ compensated \in BOOLEAN
  /\ frameCapture \in Int
  /\ trail \in Seq(Nat)

LEMMA NoFrameType ==
  /\ NoFrame \in Frames /\ NoFrame.id = 0 /\ NoFrame.time = 0 /\ NoFrame.capture = 0
  /\ NoFrame.stretch = 0 /\ NoFrame.retrieved = 0
BY DEF NoFrame, Frames

LEMMA FrameTypes ==
  \A f \in Frames : /\ f.id \in Nat /\ f.time \in Nat /\ f.capture \in Nat
                    /\ f.captured \in Nat /\ f.retrieved \in Nat /\ f.stretch \in Nat
BY DEF Frames

LEMMA BooleanLemma == \A a, b : (a /\ b) \in BOOLEAN
OBVIOUS

LEMMA TypeSplit == TypeOK <=> ClockType /\ FilterType
BY Zenon DEF TypeOK, ClockType, FilterType

LEMMA PushType ==
  ASSUME FilterType, PushGimbalSample
  PROVE  /\ samples' \in [0 .. Capacity - 1 -> Nat]
         /\ head' \in 0 .. Capacity - 1
         /\ count' \in 0 .. Capacity
         /\ trail' \in Seq(Nat)
<1>1. Capacity \in Nat \ {0}
  BY FilterAssumption
<1>2. head' = (head + 1) % Capacity /\ head \in Nat
  BY <1>1 DEF PushGimbalSample, FilterType
<1>3. head' \in 0 .. Capacity - 1
  BY <1>1, <1>2
<1> QED  BY <1>1, <1>3 DEF PushGimbalSample, FilterType

LEMMA DropType ==
  ASSUME DropTrack
  PROVE  initialized' \in BOOLEAN /\ coastFor' \in Nat
BY DEF DropTrack

LEMMA StepType ==
  ASSUME FilterType, NEW f \in Frames, Step(f)
  PROVE  /\ lastTime' = f.time /\ lastCapture' = f.capture
         /\ past' = stepped /\ stepped' = f /\ refused' = NoFrame
         /\ lastTime' \in Nat /\ lastCapture' \in Nat /\ coastFor' \in Nat
         /\ initialized' \in BOOLEAN /\ haveFramePose' \in BOOLEAN /\ compensated' \in BOOLEAN
         /\ frameCapture' \in Int
<1>1. /\ lastTime' = f.time /\ lastCapture' = f.capture
      /\ past' = stepped /\ stepped' = f /\ refused' = NoFrame
      /\ UpdateFramePose(f) /\ ~Untimely(f)
  BY DEF Step
<1>2. StepTime(f) \in Nat
  <2>1. Dt(f) \in Int
    BY FrameTypes DEF Dt, FilterType
  <2>2. ~FirstFrame => Dt(f) > 0
    BY <1>1, <2>1 DEF Untimely
  <2> QED  BY <2>1, <2>2, FilterAssumption DEF StepTime
<1>3. coastFor' \in Nat /\ initialized' \in BOOLEAN
  <2>1. CASE Accept
    BY <2>1 DEF Accept
  <2>2. CASE Search
    BY <2>2 DEF Search, trackVars, FilterType
  <2>3. CASE Coast(f)
    <3>1. CASE DropTrack
      BY <3>1, DropType
    <3>2. CASE ~DropTrack
      <4>1. coastFor' = coastFor + StepTime(f) /\ initialized' = initialized
        BY <2>3, <3>2, Zenon DEF Coast
      <4> QED  BY <1>2, <4>1 DEF FilterType
    <3> QED  BY <3>1, <3>2
  <2> QED  BY <2>1, <2>2, <2>3 DEF Step
<1>4. frameCapture' \in Int
  BY <1>1, FrameTypes, FilterAssumption DEF UpdateFramePose
<1>5. haveFramePose' \in BOOLEAN
  <2>1. haveFramePose' = (count' > 0)
    BY <1>1 DEF UpdateFramePose
  <2> QED  BY <2>1
<1>6. compensated' \in BOOLEAN
  <2>1. compensated' = (haveFramePose' /\ haveFramePose /\ StepTime(f) > 0)
    BY <1>1 DEF UpdateFramePose
  <2> QED  BY <2>1, BooleanLemma, Zenon
<1>7. lastTime' \in Nat /\ lastCapture' \in Nat
  BY <1>1, FrameTypes
<1> QED  BY <1>1, <1>3, <1>4, <1>5, <1>6, <1>7

LEMMA FreshType ==
  ASSUME ClockType, FilterType, ObserveFresh
  PROVE  FilterType'
<1>1. frame \in Frames /\ frame.id \in Nat
  BY FrameTypes DEF ClockType
<1>2. /\ samples' \in [0 .. Capacity - 1 -> Nat] /\ head' \in 0 .. Capacity - 1
      /\ count' \in 0 .. Capacity /\ trail' \in Seq(Nat)
  BY PushType DEF ObserveFresh
<1>3. /\ pc' = "pose" /\ poseAt' = poseAt /\ cursor' = frame.id
      /\ Refuse(frame) \/ Step(frame) \/ UNCHANGED <<stepVars, trackVars, refused>>
  BY Zenon DEF ObserveFresh
<1>4. /\ past' \in Frames /\ stepped' \in Frames /\ refused' \in Frames
      /\ lastTime' \in Nat /\ lastCapture' \in Nat /\ coastFor' \in Nat
      /\ initialized' \in BOOLEAN /\ haveFramePose' \in BOOLEAN /\ compensated' \in BOOLEAN
      /\ frameCapture' \in Int
  <2>1. CASE Step(frame)
    BY <1>1, <2>1, StepType, NoFrameType DEF FilterType
  <2>2. CASE Refuse(frame)
    BY <1>1, <2>2, Zenon DEF Refuse, stepVars, trackVars, FilterType
  <2>3. CASE UNCHANGED <<stepVars, trackVars, refused>>
    BY <2>3, Zenon DEF stepVars, trackVars, FilterType
  <2> QED  BY <1>3, <2>1, <2>2, <2>3
<1> QED  BY <1>1, <1>2, <1>3, <1>4 DEF FilterType

LEMMA FaultType ==
  ASSUME ClockType, FilterType, ObserveFault
  PROVE  FilterType'
<1>1. cursor' = frame.id /\ frame.id \in Nat /\ pc' = "pose" /\ ResetFilter /\ poseAt' = poseAt
  BY FrameTypes DEF ObserveFault, ClockType
<1>2. 0 \in 0 .. Capacity - 1 /\ 0 \in 0 .. Capacity
  BY FilterAssumption
<1>3. initialized' \in BOOLEAN /\ coastFor' \in Nat
  BY <1>1, DropType DEF ResetFilter
<1>4. /\ lastTime' = 0 /\ lastCapture' = 0 /\ haveFramePose' = FALSE
      /\ head' = 0 /\ count' = 0 /\ trail' = <<>>
      /\ past' = NoFrame /\ stepped' = NoFrame /\ refused' = NoFrame
      /\ samples' = samples /\ frameCapture' = frameCapture /\ compensated' = compensated
  BY <1>1 DEF ResetFilter
<1>5. trail' \in Seq(Nat)
  BY <1>4
<1>6. haveFramePose' \in BOOLEAN /\ compensated' \in BOOLEAN
  BY <1>4, Zenon DEF FilterType
<1> QED  BY <1>1, <1>2, <1>3, <1>4, <1>5, <1>6, NoFrameType DEF FilterType

LEMMA PoseType ==
  ASSUME ClockType, FilterType, Pose
  PROVE  FilterType' /\ now' \in Nat /\ now' >= now
<1>1. now' \in Nat /\ now' >= now
  BY FilterAssumption DEF Pose, ClockType
<1> QED  BY <1>1 DEF Pose, FilterType, poseVars, stepVars, trackVars

LEMMA FilterTypeKept ==
  ASSUME FilterType, UNCHANGED filterVars
  PROVE  FilterType'
BY DEF filterVars, poseVars, stepVars, trackVars, FilterType

LEMMA ClockKept ==
  ASSUME UNCHANGED clockVars
  PROVE  (ClockType => ClockType') /\ (ClockInv => ClockInv')
BY DEF clockVars, contextVars, ClockType, ClockInv

-----------------------------------------------------------------------------
(* Sums of what a frame adds to capture times c and retrieval times r.     *)

LEMMA ElapsedLemma ==
  ASSUME NEW c0 \in Nat, NEW c1 \in Nat, NEW r0 \in Nat, NEW e \in Nat,
         NEW c \in Nat, NEW r \in Nat,
         3 * (c1 - c0) <= 4 * e, 2 * e <= 3 * (c1 - c0),
         3 * (c0 - c) <= 4 * (r0 - r), 2 * (r0 - r) <= 3 * (c0 - c)
  PROVE  3 * (c1 - c) <= 4 * ((r0 + e) - r) /\ 2 * ((r0 + e) - r) <= 3 * (c1 - c)
OBVIOUS

LEMMA OrderLemma ==
  ASSUME NEW c0 \in Nat, NEW r0 \in Nat, NEW c \in Nat, NEW r \in Nat,
         3 * (c0 - c) <= 4 * (r0 - r), 2 * (r0 - r) <= 3 * (c0 - c)
  PROVE  c0 >= c
OBVIOUS

LEMMA LagLemma ==
  ASSUME NEW c0 \in Nat, NEW c1 \in Nat, NEW r0 \in Nat, NEW e \in Nat, NEW lag \in Int,
         NEW d0 \in Nat, NEW d1 \in Nat, NEW m \in Nat,
         e <= (c1 - c0) + (d1 - d0), (r0 - c0 + m) + lag <= d0
  PROVE  ((r0 + e) - c1 + m) + lag <= d1
OBVIOUS

LEMMA RestartLemma ==
  ASSUME NEW c1 \in Nat, NEW r1 \in Nat, NEW lag \in Int,
         NEW d0 \in Nat, NEW d1 \in Nat, NEW m \in Nat,
         c1 - r1 >= m, lag <= d0, d1 >= d0
  PROVE  (r1 - c1 + m) + lag <= d1
OBVIOUS

-----------------------------------------------------------------------------
(* Steps and refusals.                                                     *)

(* The frame last stepped on, as the filter and the clock have it.         *)
SteppedInv ==
  /\ lastTime = stepped.time /\ lastCapture = stepped.capture
  /\ stepped.id <= cursor /\ cursor <= frame.id
  /\ stepped.id > 0 => stepped.capture > 0
  /\ stepped.id = 0 => stepped.time = 0
  /\ stepped.stretch <= stretch

(* While the stretch lasts, the newest frame is as far ahead of it as      *)
(* DtIsElapsed says, and later; and it was itself not too far ahead.       *)
SameStretch ==
  stepped.id > 0 /\ stretch = stepped.stretch =>
    /\ 3 * (capture - stepped.capture) <= 4 * (retrieved - stepped.retrieved)
    /\ 2 * (retrieved - stepped.retrieved) <= 3 * (capture - stepped.capture)
    /\ frame.id > stepped.id => capture > stepped.capture
    /\ stamped => stepped.capture - stepped.retrieved <= MaxLatency + drift

(* In the next stretch the clock is ahead of it, or has restarted, and then *)
(* lags the retrievals by no less than the shortest latency.                *)
NextStretch ==
  stepped.id > 0 /\ stamped /\ stretch = stepped.stretch + 1 =>
    \/ capture > stepped.capture
    \/ (retrieved - capture + MinLatency) + (stepped.capture - stepped.retrieved - MaxLatency)
         <= drift

TimingInv ==
  /\ ClockInv /\ FilterType
  /\ SteppedInv /\ SameStretch /\ NextStretch
  /\ DtIsElapsed /\ FrozenBriefly

LEMMA ArrivalTiming ==
  ASSUME TimingInv, Arrival
  PROVE  TimingInv'
<1>1. ClockInv' /\ \E e \in Nat : Moves(e)
  BY FrameMoves DEF TimingInv, Arrival
<1>2. PICK e \in Nat : Moves(e)
  BY <1>1
<1>3. /\ FilterType' /\ past' = past /\ stepped' = stepped /\ refused' = refused
      /\ lastTime' = lastTime /\ lastCapture' = lastCapture /\ cursor' = cursor
  BY FilterTypeKept DEF TimingInv, Arrival, filterVars, stepVars
<1>4. /\ past \in Frames /\ stepped \in Frames /\ refused \in Frames /\ frame \in Frames
      /\ capture \in Nat /\ retrieved \in Nat /\ stretch \in Nat /\ drift \in Nat /\ cursor \in Nat
      /\ capture' \in Nat /\ retrieved' \in Nat /\ stretch' \in Nat /\ drift' \in Nat
      /\ frame' \in Frames
  BY <1>1 DEF TimingInv, ClockInv, ClockType, FilterType
<1>5. /\ retrieved' = retrieved + e /\ frame'.id = frame.id + 1 /\ drift' >= drift
      /\ stamped' = stamped /\ (stretch' = stretch \/ stretch' = stretch + 1)
  BY <1>2 DEF Moves, GoesOn, BeginsAnew
<1>14. /\ stepped.id \in Nat /\ stepped.capture \in Nat /\ stepped.retrieved \in Nat
       /\ stepped.stretch \in Nat /\ refused.retrieved \in Nat /\ refused.stretch \in Nat
       /\ frame.id \in Nat
  BY <1>4, FrameTypes
<1>6. MinLatency \in Nat /\ MaxLatency \in Nat
  BY ClockAssumption
<1>7. SteppedInv'
  BY <1>3, <1>4, <1>5, FrameTypes DEF TimingInv, SteppedInv
<1>8. DtIsElapsed'
  BY <1>3, Zenon DEF TimingInv, DtIsElapsed
<1>9. FrozenBriefly'
  <2>1. refused.id > 0 => refused.stretch > stepped.stretch
    BY DEF TimingInv, FrozenBriefly
  <2>2. ASSUME refused.id > 0, stamped, refused.stretch = stepped.stretch + 1
        PROVE  refused.retrieved - stepped.retrieved <= MaxLatency - MinLatency + drift'
    <3>1. refused.retrieved - stepped.retrieved <= MaxLatency - MinLatency + drift
      BY <2>2 DEF TimingInv, FrozenBriefly
    <3> QED  BY <1>4, <1>5, <1>6, <3>1, <1>14
  <2> QED  BY <1>3, <1>5, <2>1, <2>2 DEF FrozenBriefly
<1>10. ASSUME stepped.id > 0, stretch' = stepped.stretch
       PROVE  /\ 3 * (capture' - stepped.capture) <= 4 * (retrieved' - stepped.retrieved)
              /\ 2 * (retrieved' - stepped.retrieved) <= 3 * (capture' - stepped.capture)
              /\ capture' > stepped.capture
              /\ stamped => stepped.capture - stepped.retrieved <= MaxLatency + drift'
  <2>1. stretch' = stretch
    BY <1>4, <1>5, <1>10, FrameTypes DEF TimingInv, SteppedInv
  <2>2. /\ 3 * (capture' - capture) <= 4 * e /\ 2 * e <= 3 * (capture' - capture)
        /\ capture' > capture
    <3>1. ~BeginsAnew
      BY <1>4, <2>1 DEF BeginsAnew
    <3> QED  BY <1>2, <3>1 DEF Moves, GoesOn
  <2>3. /\ 3 * (capture - stepped.capture) <= 4 * (retrieved - stepped.retrieved)
        /\ 2 * (retrieved - stepped.retrieved) <= 3 * (capture - stepped.capture)
    BY <1>10, <2>1 DEF TimingInv, SameStretch
  <2>4. capture >= stepped.capture
    BY <1>4, <1>14, <2>3, OrderLemma
  <2>5. stamped => stepped.capture - stepped.retrieved <= MaxLatency + drift
    BY <1>10, <2>1 DEF TimingInv, SameStretch
  <2>6. stamped => stepped.capture - stepped.retrieved <= MaxLatency + drift'
    BY <1>4, <1>5, <1>6, <1>14, <2>5
  <2>7. capture' > stepped.capture
    BY <1>4, <1>14, <2>2, <2>4
  <2>8. /\ 3 * (capture' - stepped.capture) <= 4 * ((retrieved + e) - stepped.retrieved)
        /\ 2 * ((retrieved + e) - stepped.retrieved) <= 3 * (capture' - stepped.capture)
    BY <1>4, <1>14, <2>2, <2>3, ElapsedLemma
  <2> QED  BY <1>5, <2>6, <2>7, <2>8
<1>11. SameStretch'
  BY <1>3, <1>5, <1>10 DEF SameStretch
<1>12. ASSUME stepped.id > 0, stamped, stretch' = stepped.stretch + 1
       PROVE  \/ capture' > stepped.capture
              \/ (retrieved' - capture' + MinLatency)
                   + (stepped.capture - stepped.retrieved - MaxLatency) <= drift'
  <2>1. CASE stretch' = stretch
    <3>1. capture' > capture /\ e <= (capture' - capture) + (drift' - drift)
      <4>1. ~BeginsAnew
        BY <1>4, <2>1 DEF BeginsAnew
      <4> QED  BY <1>2, <4>1 DEF Moves, GoesOn
    <3>2. \/ capture > stepped.capture
          \/ (retrieved - capture + MinLatency)
               + (stepped.capture - stepped.retrieved - MaxLatency) <= drift
      BY <1>12, <2>1 DEF TimingInv, NextStretch
    <3>3. CASE capture > stepped.capture
      BY <1>4, <1>14, <3>1, <3>3
    <3>4. CASE ~(capture > stepped.capture)
      <4>1. PICK lag \in Int : lag = stepped.capture - stepped.retrieved - MaxLatency
        BY <1>6, <1>14
      <4>3. (retrieved - capture + MinLatency) + lag <= drift
        BY <3>2, <3>4, <4>1
      <4>4. e <= (capture' - capture) + (drift' - drift)
        BY <3>1
      <4>5. ((retrieved + e) - capture' + MinLatency) + lag <= drift'
        BY <1>4, <1>6, <4>3, <4>4, LagLemma
      <4>2. ((retrieved + e) - capture' + MinLatency)
              + (stepped.capture - stepped.retrieved - MaxLatency) <= drift'
        BY <4>1, <4>5
      <4> QED  BY <1>5, <4>2
    <3> QED  BY <3>3, <3>4
  <2>2. CASE stretch' = stretch + 1
    <3>1. stretch = stepped.stretch
      BY <1>4, <1>12, <1>14, <2>2
    <3>2. capture' > capture \/ capture' - retrieved' >= MinLatency
      <4>1. ~(stretch' = stretch)
        BY <1>4, <2>2
      <4>2. ~GoesOn(e)
        BY <4>1 DEF GoesOn
      <4> QED  BY <1>2, <4>2 DEF Moves, BeginsAnew
    <3>3. /\ 3 * (capture - stepped.capture) <= 4 * (retrieved - stepped.retrieved)
          /\ 2 * (retrieved - stepped.retrieved) <= 3 * (capture - stepped.capture)
      BY <1>12, <3>1 DEF TimingInv, SameStretch
    <3>4. CASE capture' > capture
      <4>1. capture >= stepped.capture
        BY <1>4, <1>14, <3>3, OrderLemma
      <4> QED  BY <1>4, <1>14, <3>4, <4>1
    <3>5. CASE capture' - retrieved' >= MinLatency
      <4>1. stepped.capture - stepped.retrieved <= MaxLatency + drift
        BY <1>12, <3>1 DEF TimingInv, SameStretch
      <4>2. /\ (stepped.capture - stepped.retrieved - MaxLatency) \in Int
            /\ stepped.capture - stepped.retrieved - MaxLatency <= drift
        BY <1>4, <1>6, <1>14, <4>1
      <4> QED  BY <1>4, <1>5, <1>6, <3>5, <4>2, RestartLemma
    <3> QED  BY <3>2, <3>4, <3>5
  <2> QED  BY <1>5, <2>1, <2>2
<1>13. NextStretch'
  BY <1>3, <1>5, <1>12 DEF NextStretch
<1> QED  BY <1>1, <1>3, <1>7, <1>8, <1>9, <1>11, <1>13 DEF TimingInv

(* A frame the filter takes, or refuses. *)
LEMMA FreshTiming ==
  ASSUME TimingInv, ObserveFresh
  PROVE  TimingInv'
<1>1. ClockInv' /\ FilterType'
  BY FreshType, ClockKept DEF TimingInv, ClockInv, ObserveFresh
<1>2. /\ frame' = frame /\ capture' = capture /\ retrieved' = retrieved /\ stretch' = stretch
      /\ drift' = drift /\ cursor' = frame.id
  BY DEF ObserveFresh, clockVars, contextVars
<1>3. stamped' <=> stamped
  BY Zenon DEF ObserveFresh, clockVars
<1>4. /\ frame \in Frames /\ stepped \in Frames
      /\ capture \in Nat /\ retrieved \in Nat /\ stretch \in Nat /\ drift \in Nat /\ cursor \in Nat
      /\ frame.capture = capture /\ frame.retrieved = retrieved /\ frame.stretch = stretch
  BY DEF TimingInv, ClockInv, ClockType, FilterType
<1>5. /\ frame.id \in Nat /\ frame.time \in Nat
      /\ stepped.id \in Nat /\ stepped.capture \in Nat /\ stepped.retrieved \in Nat
      /\ stepped.stretch \in Nat /\ stepped.time \in Nat
  BY <1>4, FrameTypes
<1>6. MinLatency \in Nat /\ MaxLatency \in Nat
  BY ClockAssumption
<1>7. stepped.id <= cursor /\ cursor <= frame.id /\ stepped.stretch <= stretch
      /\ lastTime = stepped.time /\ lastCapture = stepped.capture
      /\ (stepped.id > 0 => stepped.capture > 0) /\ (stepped.id = 0 => stepped.time = 0)
  BY DEF TimingInv, SteppedInv
<1>8. CASE /\ frame.id # cursor
           /\ Step(frame)
  <2>1. /\ lastTime' = frame.time /\ lastCapture' = frame.capture
        /\ past' = stepped /\ stepped' = frame /\ refused' = NoFrame
    BY <1>4, <1>8, StepType DEF TimingInv
  <2>2. frame.id > 0 /\ capture > 0
    BY <1>4, <1>5, <1>7, <1>8 DEF TimingInv, ClockInv
  <2>3. SteppedInv'
    BY <1>2, <1>4, <1>5, <2>1, <2>2 DEF SteppedInv
  <2>4. stamped => capture - retrieved <= MaxLatency + drift
    BY DEF TimingInv, ClockInv
  <2>5. SameStretch'
    BY <1>2, <1>3, <1>4, <1>5, <2>1, <2>4 DEF SameStretch
  <2>6. NextStretch'
    BY <1>2, <1>4, <1>5, <2>1 DEF NextStretch
  <2>7. DtIsElapsed'
    BY <1>2, <1>4, <1>5, <2>1 DEF TimingInv, SameStretch, DtIsElapsed
  <2>8. FrozenBriefly'
    BY <2>1, NoFrameType DEF FrozenBriefly
  <2> QED  BY <1>1, <2>3, <2>5, <2>6, <2>7, <2>8 DEF TimingInv
<1>9. CASE ~(frame.id # cursor /\ Step(frame))
  <2>1. /\ past' = past /\ stepped' = stepped
        /\ lastTime' = lastTime /\ lastCapture' = lastCapture
    BY <1>9, Zenon DEF ObserveFresh, Refuse, stepVars
  <2>8. refused' = refused \/ (frame.id # cursor /\ Untimely(frame) /\ refused' = frame)
    BY <1>9, Zenon DEF ObserveFresh, Refuse, stepVars
  <2>2. SteppedInv'
    <3>1. stepped'.id <= cursor' /\ cursor' <= frame'.id
      BY <1>2, <1>4, <1>5, <1>7, <2>1
    <3> QED  BY <1>2, <2>1, <3>1 DEF TimingInv, SteppedInv
  <2>6. SameStretch'
    BY <1>2, <1>3, <2>1 DEF TimingInv, SameStretch
  <2>7. NextStretch'
    BY <1>2, <1>3, <2>1 DEF TimingInv, NextStretch
  <2>3. DtIsElapsed'
    BY <2>1, Zenon DEF TimingInv, DtIsElapsed
  <2>4. refused' = refused => FrozenBriefly'
    BY <1>2, <1>3, <2>1 DEF TimingInv, FrozenBriefly
  <2>5. ASSUME frame.id # cursor /\ Untimely(frame) /\ refused' = frame
        PROVE  FrozenBriefly'
    <3>1. stepped.id > 0 /\ stepped.time > 0
      BY <1>5, <1>7, <2>5 DEF Untimely, FirstFrame
    <3>2. frame.id > stepped.id /\ capture > 0
      BY <1>4, <1>5, <1>7, <2>5, <3>1 DEF TimingInv, ClockInv
    <3>3. capture <= stepped.capture
      <4>1. Dt(frame) <= 0
        BY <2>5 DEF Untimely
      <4>2. Dt(frame) = capture - stepped.capture
        BY <1>4, <1>5, <1>7, <3>1, <3>2 DEF Dt
      <4> QED  BY <1>4, <1>5, <4>1, <4>2
    <3>4. stretch # stepped.stretch
      BY <1>4, <1>5, <3>1, <3>2, <3>3 DEF TimingInv, SameStretch
    <3>5. stretch > stepped.stretch
      BY <1>4, <1>5, <1>7, <3>4
    <3>6. ASSUME stamped, stretch = stepped.stretch + 1
          PROVE  retrieved - stepped.retrieved <= MaxLatency - MinLatency + drift
      <4>1. (retrieved - capture + MinLatency) + (stepped.capture - stepped.retrieved - MaxLatency)
              <= drift
        BY <1>4, <1>5, <3>1, <3>3, <3>6 DEF TimingInv, NextStretch
      <4> QED  BY <1>4, <1>5, <1>6, <3>3, <4>1
    <3>7. refused'.stretch = stretch /\ refused'.retrieved = retrieved
      BY <1>4, <2>5
    <3> QED  BY <1>2, <1>3, <2>1, <3>5, <3>6, <3>7 DEF FrozenBriefly
  <2> QED  BY <1>1, <2>1, <2>2, <2>3, <2>4, <2>5, <2>6, <2>7, <2>8 DEF TimingInv
<1> QED  BY <1>8, <1>9

LEMMA FaultTiming ==
  ASSUME TimingInv, ObserveFault
  PROVE  TimingInv'
<1>1. ClockInv' /\ FilterType'
  BY FaultType, ClockKept DEF TimingInv, ClockInv, ObserveFault
<1>2. /\ frame' = frame /\ stretch' = stretch /\ cursor' = frame.id
      /\ lastTime' = 0 /\ lastCapture' = 0
      /\ past' = NoFrame /\ stepped' = NoFrame /\ refused' = NoFrame
  BY DEF ObserveFault, ResetFilter, clockVars
<1>3. frame.id \in Nat /\ stretch \in Nat
  BY FrameTypes DEF TimingInv, ClockInv, ClockType
<1>4. SteppedInv'
  BY <1>2, <1>3, NoFrameType DEF SteppedInv
<1>5. SameStretch' /\ NextStretch' /\ DtIsElapsed' /\ FrozenBriefly'
  BY <1>2, NoFrameType DEF SameStretch, NextStretch, DtIsElapsed, FrozenBriefly
<1> QED  BY <1>1, <1>4, <1>5 DEF TimingInv

LEMMA PoseTiming ==
  ASSUME TimingInv, Pose
  PROVE  TimingInv'
<1>1. FilterType' /\ now' \in Nat /\ now' >= now
  BY PoseType DEF TimingInv, ClockInv
<1>2. UNCHANGED <<stamped, retrieved, contextVars, stretch, drift, frame, cursor, stepVars, refused>>
  BY Zenon DEF Pose
<1>3. /\ lastArrival' = lastArrival /\ lastPts' = lastPts /\ period' = period
      /\ offPeriod' = offPeriod /\ capture' = capture /\ stamped' = stamped
      /\ retrieved' = retrieved /\ stretch' = stretch /\ drift' = drift /\ frame' = frame
      /\ cursor' = cursor /\ refused' = refused
      /\ past' = past /\ stepped' = stepped /\ lastTime' = lastTime /\ lastCapture' = lastCapture
  BY <1>2 DEF contextVars, stepVars
<1>4. ClockType'
  BY <1>1, <1>3 DEF TimingInv, ClockInv, ClockType
<1>5. lastArrival' <= now'
  BY <1>1, <1>3 DEF TimingInv, ClockInv, ClockType
<1>6. ClockInv'
  BY <1>3, <1>4, <1>5 DEF TimingInv, ClockInv
<1>7. SteppedInv' /\ SameStretch' /\ NextStretch' /\ DtIsElapsed' /\ FrozenBriefly'
  BY <1>3, Zenon DEF TimingInv, SteppedInv, SameStretch, NextStretch, DtIsElapsed, FrozenBriefly
<1> QED  BY <1>1, <1>6, <1>7 DEF TimingInv

LEMMA TimingKept ==
  ASSUME TimingInv, UNCHANGED vars
  PROVE  TimingInv'
<1>1. ClockInv' /\ FilterType'
  BY ClockKept, FilterTypeKept DEF TimingInv, vars
<1>2. UNCHANGED <<stamped, retrieved, capture, stretch, drift, frame, cursor, lastTime, lastCapture,
                  past, stepped, refused>>
  BY DEF vars, clockVars, contextVars, filterVars, stepVars
<1> QED  BY <1>1, <1>2, Zenon
            DEF TimingInv, SteppedInv, SameStretch, NextStretch, DtIsElapsed, FrozenBriefly

LEMMA TimingInit == Init => TimingInv
<1> SUFFICES ASSUME Init PROVE TimingInv
  OBVIOUS
<1>1. stamped \in BOOLEAN
  BY Zenon DEF Init, ClockInit
<1>2. /\ now = 0 /\ retrieved = 0 /\ lastArrival = 0 /\ lastPts = NoPts /\ period = 0
      /\ offPeriod = 0 /\ capture = 0 /\ stretch = 0 /\ drift = 0 /\ frame = NoFrame
      /\ past = NoFrame /\ stepped = NoFrame /\ refused = NoFrame
  BY DEF Init, ClockInit
<1>3. ClockInv
  <2>1. ClockType
    BY <1>1, <1>2, NoFrameType DEF ClockType, NoPts
  <2> QED  BY <1>2, <2>1, NoFrameType, ClockAssumption DEF ClockInv, NoPts
<1>4. FilterType
  <2>1. initialized \in BOOLEAN /\ haveFramePose \in BOOLEAN /\ compensated \in BOOLEAN
    BY Zenon DEF Init
  <2>2. trail = <<>> /\ trail \in Seq(Nat)
    BY DEF Init
  <2>3. /\ pc = "pose" /\ poseAt = 0 /\ cursor = 0 /\ head = 0 /\ count = 0 /\ lastTime = 0
        /\ lastCapture = 0 /\ coastFor = 0 /\ frameCapture = 0
        /\ samples = [n \in 0 .. Capacity - 1 |-> 0]
    BY Zenon DEF Init
  <2> QED  BY <1>2, <2>1, <2>2, <2>3, NoFrameType, FilterAssumption DEF FilterType
<1>5. SteppedInv /\ SameStretch /\ NextStretch /\ DtIsElapsed /\ FrozenBriefly
  BY NoFrameType
     DEF Init, ClockInit, SteppedInv, SameStretch, NextStretch, DtIsElapsed, FrozenBriefly
<1> QED  BY <1>3, <1>4, <1>5 DEF TimingInv

LEMMA TimingCorrect == Spec => []TimingInv
<1>1. TimingInv /\ [Next]_vars => TimingInv'
  BY ArrivalTiming, FreshTiming, FaultTiming, PoseTiming, TimingKept, Zenon DEF Next
<1> QED  BY <1>1, TimingInit, PTL DEF Spec

(* The state of the clock and of the filter keep their types. *)
THEOREM TypeCorrect == Spec => []TypeOK
<1>1. TimingInv => TypeOK
  BY TypeSplit DEF TimingInv, ClockInv
<1> QED  BY <1>1, TimingCorrect, PTL

(* Two steps within a stretch are timed to within a third, however many    *)
(* frames came between (inference.cpp:373, target_filter.cpp:249).         *)
THEOREM ElapsedCorrect == Spec => []DtIsElapsed
<1>1. TimingInv => DtIsElapsed
  BY DEF TimingInv
<1> QED  BY <1>1, TimingCorrect, PTL

(* A refused frame means a restart of the capture clock, and is not much   *)
(* later than the last step (inference.cpp:387, target_filter.cpp:254).    *)
THEOREM FrozenCorrect == Spec => []FrozenBriefly
<1>1. TimingInv => FrozenBriefly
  BY DEF TimingInv
<1> QED  BY <1>1, TimingCorrect, PTL

-----------------------------------------------------------------------------
(* Poses across a fault.                                                   *)

(* A frame pose is kept only with the frame it was found for. *)
PoseInv ==
  /\ haveFramePose => stepped.id > 0
  /\ CompensationSpansOneHistory

(* No frame's motion is compensated by a pose from before a pose fault     *)
(* (main.cpp:353).                                                         *)
THEOREM CompensationCorrect == Spec => []CompensationSpansOneHistory
<1>1. Init => PoseInv
  BY NoFrameType DEF Init, PoseInv, CompensationSpansOneHistory
<1>2. TimingInv /\ PoseInv /\ [Next]_vars => PoseInv'
  <2> SUFFICES ASSUME TimingInv, PoseInv, [Next]_vars PROVE PoseInv'
    OBVIOUS
  <2>1. CASE ObserveFresh /\ frame.id # cursor /\ Step(frame)
    <3>1. frame \in Frames /\ frame.id \in Nat /\ stepped.id \in Nat /\ cursor \in Nat
          /\ stepped.id <= cursor /\ cursor <= frame.id
      BY FrameTypes DEF TimingInv, ClockInv, ClockType, FilterType, SteppedInv
    <3>2. frame.id > 0
      BY <2>1, <3>1
    <3>3. past' = stepped /\ stepped' = frame
      BY <2>1, <3>1, StepType DEF TimingInv
    <3>4. compensated' => haveFramePose
      BY <2>1, Zenon DEF Step, UpdateFramePose
    <3> QED  BY <3>2, <3>3, <3>4 DEF PoseInv, CompensationSpansOneHistory
  <2>2. CASE ObserveFresh /\ ~(frame.id # cursor /\ Step(frame))
    BY <2>2, Zenon DEF ObserveFresh, Refuse, stepVars, PoseInv, CompensationSpansOneHistory
  <2>3. CASE ObserveFault
    BY <2>3, NoFrameType DEF ObserveFault, ResetFilter, PoseInv, CompensationSpansOneHistory
  <2>4. CASE Arrival \/ Pose \/ UNCHANGED vars
    <3>1. UNCHANGED stepVars
      BY <2>4, Zenon DEF Arrival, Pose, vars, filterVars
    <3> QED  BY <3>1, Zenon DEF stepVars, PoseInv, CompensationSpansOneHistory
  <2> QED  BY <2>1, <2>2, <2>3, <2>4 DEF Next
<1>3. PoseInv => CompensationSpansOneHistory
  BY DEF PoseInv
<1> QED  BY <1>1, <1>2, <1>3, TimingCorrect, PTL DEF Spec

-----------------------------------------------------------------------------
(* Least and greatest.                                                     *)

(* A set of naturals that is not empty has a least member. *)
LEMMA LeastNatural ==
  ASSUME NEW S \in SUBSET Nat, S # {}
  PROVE  \E n \in S : \A m \in S : n <= m
<1> DEFINE R == OpToRel(<, Nat)
<1>1. PICK n \in S : \A m \in S : ~ (<<m, n>> \in R)
  BY NatLessThanWellFounded, WFMin, Zenon
<1> HIDE DEF R
<1>2. ASSUME NEW m \in S  PROVE n <= m
  <2>1. m \in Nat /\ n \in Nat
    OBVIOUS
  <2>2. m < n => <<m, n>> \in R
    BY <2>1 DEF R, OpToRel
  <2>3. ~(m < n)
    BY <1>1, <2>2
  <2> QED  BY <2>1, <2>3
<1> QED  BY <1>2

LEMMA LatestIs ==
  ASSUME NEW S \in SUBSET Nat, NEW t \in S, \A u \in S : u <= t
  PROVE  Latest(S) = t
<1>1. PICK l \in S : l = Latest(S) /\ \A u \in S : u <= l
  BY DEF Latest
<1> QED  BY <1>1

LEMMA EarliestIs ==
  ASSUME NEW S \in SUBSET Nat, NEW t \in S, \A u \in S : t <= u
  PROVE  Earliest(S) = t
<1>1. PICK l \in S : l = Earliest(S) /\ \A u \in S : l <= u
  BY DEF Earliest
<1> QED  BY <1>1

-----------------------------------------------------------------------------
(* The ring.                                                               *)

LEMMA Wrapping ==
  ASSUME NEW c \in Nat \ {0}, NEW x \in 0 .. c - 1
  PROVE  x % c = x /\ (x + c) % c = x /\ (x + 2 * c) % c = x
<1>1. x % c = x
  OBVIOUS
<1>2. (x + c) % c = x
  OBVIOUS
<1>3. (x + 2 * c) % c = x
  OBVIOUS
<1> QED  BY <1>1, <1>2, <1>3

LEMMA SlotIs ==
  ASSUME NEW h \in 0 .. Capacity - 1, NEW b \in 0 .. Capacity - 1
  PROVE  (h + 2 * Capacity - 1 - b) % Capacity
           = IF b < h THEN h - 1 - b ELSE h - 1 - b + Capacity
<1>1. Capacity \in Nat \ {0}
  BY FilterAssumption
<1>2. CASE b < h
  <2>1. h + 2 * Capacity - 1 - b = (h - 1 - b) + 2 * Capacity
    BY <1>1
  <2>2. h - 1 - b \in 0 .. Capacity - 1
    BY <1>1, <1>2
  <2> QED  BY <1>1, <1>2, <2>1, <2>2, Wrapping
<1>3. CASE ~(b < h)
  <2>1. h + 2 * Capacity - 1 - b = (h - 1 - b + Capacity) + Capacity
    BY <1>1
  <2>2. h - 1 - b + Capacity \in 0 .. Capacity - 1
    BY <1>1, <1>3
  <2> QED  BY <1>1, <1>3, <2>1, <2>2, Wrapping
<1> QED  BY <1>2, <1>3

LEMMA NextSlotIs ==
  ASSUME NEW h \in 0 .. Capacity - 1
  PROVE  (h + 1) % Capacity = IF h + 1 < Capacity THEN h + 1 ELSE 0
<1>1. Capacity \in Nat \ {0}
  BY FilterAssumption
<1>2. CASE h + 1 < Capacity
  BY <1>1, <1>2, Wrapping
<1>3. CASE ~(h + 1 < Capacity)
  BY <1>1, <1>3, Wrapping, h + 1 = 0 + Capacity
<1> QED  BY <1>2, <1>3

(* One sample is written: it is the newest, and every other is one older.  *)
LEMMA PushAges ==
  ASSUME FilterType, PushGimbalSample
  PROVE  /\ Aged(samples', head', 0) = poseAt
         /\ \A b \in 0 .. Capacity - 2 :
              Aged(samples', head', b + 1) = Aged(samples, head, b)
<1>1. /\ Capacity \in Nat \ {0} /\ head \in 0 .. Capacity - 1
      /\ samples' = [samples EXCEPT ![head] = poseAt]
      /\ samples \in [0 .. Capacity - 1 -> Nat]
      /\ head' = IF head + 1 < Capacity THEN head + 1 ELSE 0
  BY NextSlotIs, FilterAssumption DEF PushGimbalSample, FilterType
<1>2. head' \in 0 .. Capacity - 1
  BY <1>1
<1>3. Aged(samples', head', 0) = poseAt
  <2>1. (head' + 2 * Capacity - 1 - 0) % Capacity
          = IF 0 < head' THEN head' - 1 - 0 ELSE head' - 1 - 0 + Capacity
    BY <1>1, <1>2, SlotIs
  <2>2. (head' + 2 * Capacity - 1 - 0) % Capacity = head
    BY <1>1, <2>1
  <2> QED  BY <1>1, <2>2 DEF Aged
<1>4. ASSUME NEW b \in 0 .. Capacity - 2
      PROVE  Aged(samples', head', b + 1) = Aged(samples, head, b)
  <2>1. b \in 0 .. Capacity - 1 /\ b + 1 \in 0 .. Capacity - 1
    BY <1>1
  <2>2. (head' + 2 * Capacity - 1 - (b + 1)) % Capacity
          = IF b + 1 < head' THEN head' - 1 - (b + 1) ELSE head' - 1 - (b + 1) + Capacity
    BY <1>1, <1>2, <2>1, SlotIs
  <2>3. (head + 2 * Capacity - 1 - b) % Capacity
          = IF b < head THEN head - 1 - b ELSE head - 1 - b + Capacity
    BY <1>1, <2>1, SlotIs
  <2>4. (head' + 2 * Capacity - 1 - (b + 1)) % Capacity
          = (head + 2 * Capacity - 1 - b) % Capacity
    BY <1>1, <2>1, <2>2, <2>3
  <2>5. /\ (head + 2 * Capacity - 1 - b) % Capacity \in 0 .. Capacity - 1
        /\ (head + 2 * Capacity - 1 - b) % Capacity # head
    BY <1>1, <2>1, <2>3
  <2> QED  BY <1>1, <2>4, <2>5 DEF Aged
<1> QED  BY <1>3, <1>4

-----------------------------------------------------------------------------
(* The pose at a time, from the ages of the samples: a[b] is the time of   *)
(* the newest but b, of k that there are.                                  *)

Falling(a, k) ==
  /\ k \in Nat \ {0}
  /\ a \in [0 .. k - 1 -> Nat]
  /\ \A b, c \in 0 .. k - 1 : b < c => a[c] < a[b]

Times(a, k) == {a[b] : b \in 0 .. k - 1}

Holds(ring, h, a, k) == \A b \in 0 .. k - 1 : Aged(ring, h, b) = a[b]

LEMMA TimesFacts ==
  ASSUME NEW a, NEW k, Falling(a, k)
  PROVE  /\ Times(a, k) \in SUBSET Nat
         /\ 0 \in 0 .. k - 1 /\ k - 1 \in 0 .. k - 1
         /\ \A b \in 0 .. k - 1 : a[b] \in Times(a, k) /\ a[b] \in Nat /\ a[b] <= a[0] /\ a[k - 1] <= a[b]
         /\ \A u \in Times(a, k) : \E b \in 0 .. k - 1 : u = a[b]
         /\ Latest(Times(a, k)) = a[0]
         /\ Earliest(Times(a, k)) = a[k - 1]
<1>1. Times(a, k) \in SUBSET Nat
  BY DEF Times, Falling
<1>2. 0 \in 0 .. k - 1 /\ k - 1 \in 0 .. k - 1
  BY DEF Falling
<1>3. ASSUME NEW b \in 0 .. k - 1
      PROVE  a[b] \in Times(a, k) /\ a[b] \in Nat /\ a[b] <= a[0] /\ a[k - 1] <= a[b]
  <2>1. a[b] \in Times(a, k) /\ a[b] \in Nat /\ a[0] \in Nat /\ a[k - 1] \in Nat
    BY <1>2 DEF Times, Falling
  <2>2. a[b] <= a[0]
    <3>1. CASE b = 0
      BY <2>1, <3>1
    <3>2. CASE b # 0
      BY <1>2, <2>1, <3>2 DEF Falling
    <3> QED  BY <3>1, <3>2
  <2>3. a[k - 1] <= a[b]
    <3>1. CASE b = k - 1
      BY <2>1, <3>1
    <3>2. CASE b # k - 1
      BY <1>2, <2>1, <3>2 DEF Falling
    <3> QED  BY <3>1, <3>2
  <2> QED  BY <2>1, <2>2, <2>3
<1>4. \A u \in Times(a, k) : \E b \in 0 .. k - 1 : u = a[b]
  BY DEF Times
<1>5. Latest(Times(a, k)) = a[0]
  <2>1. a[0] \in Times(a, k) /\ \A u \in Times(a, k) : u <= a[0]
    BY <1>2, <1>3, <1>4
  <2> QED  BY <1>1, <2>1, LatestIs
<1>6. Earliest(Times(a, k)) = a[k - 1]
  <2>1. a[k - 1] \in Times(a, k) /\ \A u \in Times(a, k) : a[k - 1] <= u
    BY <1>2, <1>3, <1>4
  <2> QED  BY <1>1, <2>1, EarliestIs
<1> QED  BY <1>1, <1>2, <1>3, <1>4, <1>5, <1>6

(* Ages are ordered as their times are, backwards. *)
LEMMA FallingOrder ==
  ASSUME NEW a, NEW k, Falling(a, k), NEW b \in 0 .. k - 1, NEW c \in 0 .. k - 1
  PROVE  /\ a[b] <= a[c] => c <= b
         /\ c <= b => a[b] <= a[c]
         /\ a[b] = a[c] => b = c
<1>1. a[b] \in Nat /\ a[c] \in Nat /\ b \in Nat /\ c \in Nat
  BY DEF Falling
<1>2. (b < c => a[c] < a[b]) /\ (c < b => a[b] < a[c])
  BY DEF Falling
<1> QED  BY <1>1, <1>2

(* rate_at_newest measures from the oldest sample within the window, or    *)
(* from the second newest where none but the newest is.                    *)
LEMMA RateIsReference ==
  ASSUME NEW a, NEW k, Falling(a, k), k > 1, NEW ring, NEW h, Holds(ring, h, a, k),
         NEW T, T = Times(a, k), NEW recent,
         recent = {u \in T \ {a[0]} : a[0] - u <= RateWindow}
  PROVE  RateFrom(ring, h, k) = IF recent = {} THEN Latest(T \ {a[0]}) ELSE Earliest(recent)
<1> DEFINE Far(back) == back + 1 >= k
                        \/ Aged(ring, h, 0) - Aged(ring, h, back + 1) > RateWindow
           First(b) == Far(b) /\ \A c \in 1 .. b - 1 : ~Far(c)
           S == {b \in 1 .. k : Far(b)}
<1>1. k \in Nat /\ RateWindow \in Nat /\ T \in SUBSET Nat /\ 0 \in 0 .. k - 1
  BY TimesFacts, FilterAssumption DEF Falling
<1>2. k - 1 \in S /\ S \in SUBSET Nat
  BY <1>1
<1>3. PICK b \in S : \A c \in S : b <= c
  <2> HIDE DEF S
  <2> QED  BY <1>2, LeastNatural
<1>4. b \in 1 .. k - 1 /\ First(b) /\ \A c \in 1 .. k : First(c) => c = b
  <2>1. b \in 1 .. k /\ Far(b) /\ b <= k - 1
    BY <1>2, <1>3
  <2>2. \A c \in 1 .. k : Far(c) => b <= c
    BY <1>3
  <2> HIDE DEF Far
  <2>3. First(b)
    BY <1>1, <2>1, <2>2
  <2>4. \A c \in 1 .. k : First(c) => c = b
    BY <1>1, <2>1, <2>2
  <2> QED  BY <1>1, <2>1, <2>3, <2>4
<1>5. RateFrom(ring, h, k) = a[b]
  <2>1. RateFrom(ring, h, k) = Aged(ring, h, CHOOSE c \in 1 .. k : First(c))
    BY DEF RateFrom
  <2>2. (CHOOSE c \in 1 .. k : First(c)) = b
    <3> HIDE DEF First
    <3> QED  BY <1>1, <1>4
  <2>3. b \in 0 .. k - 1
    BY <1>1, <1>4
  <2> HIDE DEF First
  <2> QED  BY <2>1, <2>2, <2>3 DEF Holds
<1>6. \A c \in 1 .. k - 2 : Far(c) <=> a[0] - a[c + 1] > RateWindow
  BY <1>1 DEF Holds
<1>7. Far(b) /\ \A c \in 1 .. b - 1 : ~Far(c)
  BY <1>4
<1> HIDE DEF Far, First, S
<1>8. /\ \A c \in 0 .. k - 1 : a[c] \in Nat /\ a[c] \in T
      /\ \A u \in T : \E c \in 0 .. k - 1 : u = a[c]
  BY TimesFacts
<1>9. \A c \in 2 .. b : a[0] - a[c] <= RateWindow
  <2> SUFFICES ASSUME NEW c \in 2 .. b  PROVE a[0] - a[c] <= RateWindow
    OBVIOUS
  <2>1. c - 1 \in 1 .. k - 2 /\ c - 1 \in 1 .. b - 1 /\ (c - 1) + 1 = c /\ c \in 0 .. k - 1
    BY <1>1, <1>4
  <2>2. ~(a[0] - a[c] > RateWindow)
    BY <1>6, <1>7, <2>1
  <2> QED  BY <1>1, <1>8, <2>1, <2>2
<1>10. ASSUME NEW c \in b + 1 .. k - 1  PROVE a[0] - a[c] > RateWindow
  <2>1. b + 1 \in 0 .. k - 1 /\ b \in 1 .. k - 2 /\ c \in 0 .. k - 1
    BY <1>1, <1>4
  <2>2. a[0] - a[b + 1] > RateWindow
    BY <1>6, <1>7, <2>1
  <2>3. a[c] <= a[b + 1]
    BY <2>1, FallingOrder, <1>1
  <2> QED  BY <1>1, <1>8, <2>1, <2>2, <2>3
<1>11. /\ T \ {a[0]} \in SUBSET Nat /\ a[1] \in T \ {a[0]}
       /\ \A u \in T \ {a[0]} : u <= a[1]
  <2>1. 1 \in 0 .. k - 1
    BY <1>1
  <2>2. a[1] # a[0]
    BY <1>1, <2>1, FallingOrder
  <2>3. ASSUME NEW u \in T \ {a[0]}  PROVE u <= a[1]
    <3>1. PICK c \in 0 .. k - 1 : u = a[c]
      BY <1>8
    <3>2. 1 <= c
      BY <3>1
    <3> QED  BY <1>1, <2>1, <3>1, <3>2, FallingOrder
  <2> QED  BY <1>1, <1>8, <2>1, <2>2, <2>3
<1>12. Latest(T \ {a[0]}) = a[1]
  BY <1>11, LatestIs
<1>13. CASE recent = {}
  <2>1. a[0] - a[1] > RateWindow
    BY <1>1, <1>8, <1>11, <1>13
  <2>2. b = 1
    <3>1. SUFFICES ASSUME b # 1  PROVE FALSE
      OBVIOUS
    <3>2. b \in 2 .. b /\ b \in 0 .. k - 1 /\ 1 \in 0 .. k - 1
      BY <1>1, <1>4, <3>1
    <3>3. a[0] - a[b] <= RateWindow /\ a[b] <= a[1]
      BY <1>9, <3>2, FallingOrder
    <3> QED  BY <1>1, <1>8, <2>1, <3>2, <3>3
  <2> QED  BY <1>5, <1>12, <1>13, <2>2
<1>14. CASE recent # {}
  <2>1. \A u \in recent : a[b] <= u
    <3> SUFFICES ASSUME NEW u \in recent  PROVE a[b] <= u
      OBVIOUS
    <3>1. PICK c \in 0 .. k - 1 : u = a[c]
      BY <1>8
    <3>2. a[0] - a[c] <= RateWindow
      BY <3>1
    <3>3. ~(c \in b + 1 .. k - 1)
      BY <1>1, <1>8, <1>10, <3>2
    <3>4. c <= b /\ b \in 0 .. k - 1
      BY <1>1, <1>4, <3>3
    <3> QED  BY <3>1, <3>4, FallingOrder
  <2>2. a[b] \in recent
    <3>1. PICK u \in recent : TRUE
      BY <1>14
    <3>2. PICK c \in 0 .. k - 1 : u = a[c]
      BY <1>8
    <3>3. b \in 0 .. k - 1 /\ a[b] \in T /\ a[b] # a[0]
      BY <1>1, <1>4, <1>8, FallingOrder
    <3>4. a[0] - a[b] <= RateWindow
      <4>1. CASE b = 1
        <5>1. u \in T \ {a[0]} /\ a[0] - u <= RateWindow
          OBVIOUS
        <5>2. u <= a[1] /\ u \in Nat /\ a[1] \in Nat /\ a[0] \in Nat
          BY <1>1, <1>8, <1>11, <5>1
        <5> QED  BY <1>1, <4>1, <5>1, <5>2
      <4>2. CASE b # 1
        BY <1>4, <1>9, <4>2
      <4> QED  BY <4>1, <4>2
    <3> QED  BY <3>3, <3>4
  <2>3. recent \in SUBSET Nat
    BY <1>1
  <2>4. Earliest(recent) = a[b]
    BY <2>1, <2>2, <2>3, EarliestIs
  <2> QED  BY <1>5, <1>14, <2>4
<1> QED  BY <1>13, <1>14

(* angle_at rests on what it should, whatever the time asked for. *)
LEMMA AngleIsReference ==
  ASSUME NEW a, NEW k, Falling(a, k), NEW ring, NEW h, Holds(ring, h, a, k), NEW t \in Int
  PROVE  AngleAt(ring, h, k, t) = Reference(Times(a, k), t)
<1> DEFINE T == Times(a, k)
           before == {u \in T : u <= t}
           newest == Latest(T)
           recent == {u \in T \ {newest} : newest - u <= RateWindow}
           Older(b) == Aged(ring, h, b) <= t
           First(b) == Older(b) /\ \A c \in 1 .. b - 1 : ~Older(c)
<1> SUFFICES AngleAt(ring, h, k, t) = Reference(T, t)
  OBVIOUS
<1>1. /\ k \in Nat \ {0} /\ T \in SUBSET Nat /\ 0 \in 0 .. k - 1 /\ k - 1 \in 0 .. k - 1
      /\ \A b \in 0 .. k - 1 :
           a[b] \in T /\ a[b] \in Nat /\ a[b] <= a[0] /\ a[k - 1] <= a[b]
      /\ \A u \in T : \E b \in 0 .. k - 1 : u = a[b]
      /\ newest = a[0] /\ Earliest(T) = a[k - 1]
  BY TimesFacts DEF Falling
<1>2. /\ Aged(ring, h, 0) = a[0] /\ Aged(ring, h, k - 1) = a[k - 1]
      /\ \A b \in 1 .. k - 1 : Older(b) <=> a[b] <= t
  BY <1>1 DEF Holds
<1>3. Reference(T, t)
        = IF before = {} THEN <<Earliest(T), Earliest(T)>>
          ELSE IF before # T THEN <<Latest(before), Earliest(T \ before)>>
          ELSE IF Cardinality(T) = 1 THEN <<newest, newest>>
          ELSE <<IF recent = {} THEN Latest(T \ {newest}) ELSE Earliest(recent), newest>>
  BY DEF Reference
<1>4. AngleAt(ring, h, k, t)
        = IF t >= a[0]
          THEN IF k < 2 THEN <<a[0], a[0]>> ELSE <<RateFrom(ring, h, k), a[0]>>
          ELSE IF \E b \in 1 .. k - 1 : Older(b)
          THEN LET b == CHOOSE b \in 1 .. k - 1 : First(b)
               IN <<Aged(ring, h, b), Aged(ring, h, b - 1)>>
          ELSE <<a[k - 1], a[k - 1]>>
  BY <1>2 DEF AngleAt
<1>5. CASE t >= a[0]
  <2>1. before = T /\ before # {}
    <3>1. \A u \in T : u <= t
      <4> SUFFICES ASSUME NEW u \in T  PROVE u <= t
        OBVIOUS
      <4>1. PICK b \in 0 .. k - 1 : u = a[b]
        BY <1>1
      <4>2. a[b] <= a[0] /\ a[b] \in Nat /\ a[0] \in Nat
        BY <1>1
      <4> HIDE DEF T
      <4> QED  BY <1>5, <4>1, <4>2
    <3>2. a[0] \in T
      BY <1>1
    <3> HIDE DEF T
    <3> QED  BY <3>1, <3>2
  <2>2. CASE k < 2
    <3>1. T = {a[0]}
      <4>1. 0 .. k - 1 = {0}
        BY <1>1, <2>2
      <4>2. \A u \in T : u = a[0]
        BY <4>1 DEF Times
      <4>3. a[0] \in T
        BY <1>1
      <4> HIDE DEF T
      <4> QED  BY <4>2, <4>3
    <3>2. Cardinality(T) = 1
      BY <3>1, FS_Singleton
    <3> HIDE DEF T, before, newest, recent, Older, First
    <3> QED  BY <1>1, <1>3, <1>4, <1>5, <2>1, <2>2, <3>2
  <2>3. CASE ~(k < 2)
    <3>1. IsFiniteSet(T)
      <4>1. \A u \in T : u <= a[0]
        BY <1>1
      <4> HIDE DEF T
      <4> QED  BY <1>1, <4>1, FS_BoundedSetOfNaturals
    <3>2. a[1] \in T /\ a[1] # a[0] /\ a[0] \in T
      <4>1. 1 \in 0 .. k - 1
        BY <1>1, <2>3
      <4>2. a[1] # a[0]
        BY <1>1, <4>1, FallingOrder
      <4> QED  BY <1>1, <4>1, <4>2
    <3>3. Cardinality(T) # 1
      <4> HIDE DEF T
      <4>1. ~ \E x : T = {x}
        BY <3>2
      <4> QED  BY <3>1, <4>1, FS_Singleton, Zenon
    <3>4. recent = {u \in T \ {a[0]} : a[0] - u <= RateWindow}
      BY <1>1
    <3>5. k > 1
      BY <1>1, <2>3
    <3>6. RateFrom(ring, h, k) = IF recent = {} THEN Latest(T \ {a[0]}) ELSE Earliest(recent)
      <4> HIDE DEF recent
      <4> QED  BY <3>4, <3>5, RateIsReference
    <3> HIDE DEF T, before, newest, recent, Older, First
    <3> QED  BY <1>1, <1>3, <1>4, <1>5, <2>1, <2>3, <3>3, <3>6
  <2> QED  BY <2>2, <2>3
<1>6. CASE ~(t >= a[0]) /\ \E b \in 1 .. k - 1 : Older(b)
  <2> DEFINE S == {b \in 1 .. k - 1 : Older(b)}
  <2>1. PICK b \in S : \A c \in S : b <= c
    <3>1. S # {} /\ S \in SUBSET Nat
      BY <1>6
    <3> HIDE DEF S
    <3> QED  BY <3>1, LeastNatural
  <2>2. /\ b \in 1 .. k - 1 /\ First(b) /\ a[b] <= t
        /\ \A c \in 1 .. b - 1 : ~(a[c] <= t)
        /\ \A c \in 1 .. k - 1 : First(c) => c = b
    <3>1. b \in 1 .. k - 1 /\ Older(b) /\ \A c \in 1 .. k - 1 : Older(c) => b <= c
      BY <2>1
    <3>2. \A c \in 1 .. b - 1 : c \in 1 .. k - 1 /\ ~(b <= c)
      BY <1>1, <3>1
    <3>5. a[b] <= t /\ \A c \in 1 .. b - 1 : ~(a[c] <= t)
      BY <1>2, <3>1, <3>2
    <3> HIDE DEF Older
    <3>3. First(b)
      BY <3>1, <3>2
    <3>4. \A c \in 1 .. k - 1 : First(c) => c = b
      BY <1>1, <3>1
    <3> HIDE DEF First
    <3> QED  BY <3>1, <3>3, <3>4, <3>5
  <2>3. (CHOOSE c \in 1 .. k - 1 : First(c)) = b
    <3> HIDE DEF First
    <3> QED  BY <2>2
  <2>4. b \in 0 .. k - 1 /\ b - 1 \in 0 .. k - 1 /\ b \in Int
    BY <1>1, <2>2
  <2>5. Aged(ring, h, b) = a[b] /\ Aged(ring, h, b - 1) = a[b - 1]
    BY <2>4 DEF Holds
  <2>6. AngleAt(ring, h, k, t) = <<a[b], a[b - 1]>>
    <3> HIDE DEF Older, First, T
    <3> QED  BY <1>4, <1>6, <2>3, <2>5
  <2>7. ~(a[b - 1] <= t)
    <3>1. CASE b = 1
      BY <1>1, <1>6, <3>1
    <3>2. CASE b # 1
      BY <1>1, <2>2, <3>2
    <3> QED  BY <3>1, <3>2
  <2>8. ASSUME NEW c \in 0 .. k - 1
        PROVE  /\ a[c] <= t => a[c] <= a[b]
               /\ ~(a[c] <= t) => a[b - 1] <= a[c]
    <3>1. /\ c <= b - 1 => a[b - 1] <= a[c]
          /\ b <= c => a[c] <= a[b]
      BY <2>4, FallingOrder
    <3>2. a[c] \in Nat /\ a[b] \in Nat /\ a[b - 1] \in Nat
      BY <1>1, <2>4
    <3>3. a[b] <= t
      BY <2>2
    <3>4. c <= b - 1 \/ b <= c
      BY <2>4
    <3> HIDE DEF T, First, Older
    <3> QED  BY <2>7, <3>1, <3>2, <3>3, <3>4
  <2>9. /\ before \in SUBSET Nat /\ a[b] \in before /\ \A u \in before : u <= a[b]
        /\ T \ before \in SUBSET Nat /\ a[b - 1] \in T \ before
        /\ \A u \in T \ before : a[b - 1] <= u
    <3>1. a[b] \in T /\ a[b - 1] \in T
      BY <1>1, <2>4
    <3>2. \A u \in T : (u <= t => u <= a[b]) /\ (~(u <= t) => a[b - 1] <= u)
      BY <1>1, <2>8
    <3>3. a[b] <= t
      BY <2>2
    <3> HIDE DEF T, First, Older
    <3> QED  BY <1>1, <2>7, <3>1, <3>2, <3>3
  <2>10. Latest(before) = a[b] /\ Earliest(T \ before) = a[b - 1]
    <3> HIDE DEF T, before
    <3> QED  BY <2>9, LatestIs, EarliestIs
  <2>11. before # {} /\ before # T
    <3> HIDE DEF T, before
    <3> QED  BY <2>9
  <2> HIDE DEF T, before, newest, recent, Older, First
  <2> QED  BY <1>3, <2>6, <2>10, <2>11
<1>7. CASE ~(t >= a[0]) /\ ~ \E b \in 1 .. k - 1 : Older(b)
  <2>1. ASSUME NEW b \in 0 .. k - 1  PROVE ~(a[b] <= t)
    <3>1. CASE b = 0
      BY <1>1, <1>7, <3>1
    <3>2. CASE b # 0
      <4>1. b \in 1 .. k - 1
        BY <3>2
      <4> QED  BY <1>2, <1>7, <4>1
    <3> QED  BY <3>1, <3>2
  <2>2. before = {}
    BY <1>1, <2>1
  <2> HIDE DEF T, before, newest, recent, Older, First
  <2> QED  BY <1>1, <1>3, <1>4, <1>7, <2>2
<1> QED  BY <1>5, <1>6, <1>7

-----------------------------------------------------------------------------
(* The ring against the trail.                                             *)

(***************************************************************************)
(* The ring, read backwards from its next write, holds the newest of the   *)
(* samples taken since the last reset, as many as it has room for, and     *)
(* each was taken after the one before.                                    *)
(***************************************************************************)
Mirrors(ring, h, n, s) ==
  /\ n = IF Len(s) < Capacity THEN Len(s) ELSE Capacity
  /\ \A i, j \in DOMAIN s : i < j => s[i] < s[j]
  /\ \A b \in 0 .. n - 1 : Aged(ring, h, b) = s[Len(s) - b]

RingInv ==
  /\ Mirrors(samples, head, count, trail)
  /\ \A i \in DOMAIN trail : trail[i] <= now /\ (pc = "observe" => trail[i] < poseAt)
  /\ pc = "observe" => poseAt <= now

(* What the ring holds is right for any time asked of it. *)
LEMMA MirrorIsReference ==
  ASSUME NEW ring, NEW h, NEW n, NEW s \in Seq(Nat), Mirrors(ring, h, n, s), n > 0,
         NEW t \in Int
  PROVE  PairIsRight(t, AngleAt(ring, h, n, t), s)
<1> DEFINE a == [b \in 0 .. n - 1 |-> s[Len(s) - b]]
           kept == {s[i] : i \in {j \in DOMAIN s : j > Len(s) - Capacity}}
<1>1. /\ Capacity \in Nat \ {0} /\ Len(s) \in Nat /\ DOMAIN s = 1 .. Len(s)
      /\ \A i \in DOMAIN s : s[i] \in Nat
      /\ n = IF Len(s) < Capacity THEN Len(s) ELSE Capacity
      /\ \A i, j \in DOMAIN s : i < j => s[i] < s[j]
      /\ \A b \in 0 .. n - 1 : Aged(ring, h, b) = s[Len(s) - b]
  BY FilterAssumption DEF Mirrors
<1>2. n \in Nat \ {0} /\ n <= Capacity /\ \A b \in 0 .. n - 1 : Len(s) - b \in DOMAIN s
  BY <1>1
<1>3. Falling(a, n)
  <2>1. a \in [0 .. n - 1 -> Nat]
    BY <1>1, <1>2
  <2>2. ASSUME NEW b \in 0 .. n - 1, NEW c \in 0 .. n - 1, b < c
        PROVE  a[c] < a[b]
    <3>1. Len(s) - b \in DOMAIN s /\ Len(s) - c \in DOMAIN s
      BY <1>2
    <3>3. Len(s) - c < Len(s) - b
      <4>1. Len(s) \in Int /\ b \in Int /\ c \in Int /\ b < c
        BY <1>1, <2>2
      <4> QED  BY <4>1
    <3>2. s[Len(s) - c] < s[Len(s) - b]
      BY <1>1, <3>1, <3>3
    <3> QED  BY <3>2
  <2> QED  BY <1>2, <2>1, <2>2 DEF Falling
<1>4. Holds(ring, h, a, n)
  BY <1>1 DEF Holds
<1>5. Times(a, n) = kept
  <2>1. ASSUME NEW u \in Times(a, n)  PROVE u \in kept
    <3>1. PICK b \in 0 .. n - 1 : u = s[Len(s) - b]
      BY <2>1 DEF Times
    <3>2. Len(s) - b \in DOMAIN s
      BY <1>2
    <3>3. Len(s) - b > Len(s) - Capacity
      <4>1. n \in Int /\ n <= Capacity
        BY <1>2
      <4>2. b \in Int /\ b <= n - 1
        BY <4>1
      <4>3. Capacity \in Int
        BY FilterAssumption
      <4>4. Len(s) \in Int
        OBVIOUS
      <4> QED  BY <4>1, <4>2, <4>3, <4>4
    <3> QED  BY <3>1, <3>2, <3>3
  <2>2. ASSUME NEW u \in kept  PROVE u \in Times(a, n)
    <3>1. PICK i \in DOMAIN s : u = s[i] /\ i > Len(s) - Capacity
      BY <2>2
    <3>2. Len(s) - i \in 0 .. n - 1 /\ Len(s) - (Len(s) - i) = i
      BY <1>1, <3>1
    <3>3. a[Len(s) - i] = u
      BY <3>1, <3>2
    <3> QED  BY <3>2, <3>3 DEF Times
  <2> QED  BY <2>1, <2>2
<1>6. AngleAt(ring, h, n, t) = Reference(Times(a, n), t)
  <2> HIDE DEF a
  <2> QED  BY <1>3, <1>4, AngleIsReference
<1> HIDE DEF a
<1> QED  BY <1>5, <1>6 DEF PairIsRight

(* A new sample, later than all before, over wrap-around or not. *)
LEMMA PushMirrors ==
  ASSUME FilterType, RingInv, pc = "observe", PushGimbalSample
  PROVE  /\ Mirrors(samples', head', count', trail')
         /\ \A i \in DOMAIN trail' : trail'[i] <= now
         /\ count' > 0
<1>1. /\ Capacity \in Nat \ {0} /\ Len(trail) \in Nat /\ DOMAIN trail = 1 .. Len(trail)
      /\ poseAt \in Nat /\ trail \in Seq(Nat) /\ now >= poseAt
      /\ \A i \in DOMAIN trail : trail[i] \in Nat /\ trail[i] <= now /\ trail[i] < poseAt
  BY FilterAssumption DEF FilterType, RingInv
<1>2. /\ count = IF Len(trail) < Capacity THEN Len(trail) ELSE Capacity
      /\ \A i, j \in DOMAIN trail : i < j => trail[i] < trail[j]
      /\ \A b \in 0 .. count - 1 : Aged(samples, head, b) = trail[Len(trail) - b]
  BY DEF RingInv, Mirrors
<1>3. /\ trail' = Append(trail, poseAt) /\ Len(trail') = Len(trail) + 1
      /\ DOMAIN trail' = 1 .. Len(trail) + 1
      /\ trail'[Len(trail) + 1] = poseAt
      /\ \A i \in DOMAIN trail : trail'[i] = trail[i]
  BY <1>1 DEF PushGimbalSample
<1>4. count' = IF Len(trail') < Capacity THEN Len(trail') ELSE Capacity
  BY <1>1, <1>2, <1>3 DEF PushGimbalSample
<1>5. count' > 0 /\ count' \in Nat
  BY <1>1, <1>3, <1>4
<1>6. ASSUME NEW i \in DOMAIN trail', NEW j \in DOMAIN trail', i < j
      PROVE  trail'[i] < trail'[j]
  <2>1. i \in DOMAIN trail
    BY <1>1, <1>3, <1>6
  <2>2. CASE j \in DOMAIN trail
    BY <1>2, <1>3, <1>6, <2>1, <2>2
  <2>3. CASE j = Len(trail) + 1
    BY <1>1, <1>3, <2>1, <2>3
  <2> QED  BY <1>1, <1>3, <2>2, <2>3
<1>7. \A i \in DOMAIN trail' : trail'[i] <= now
  <2> SUFFICES ASSUME NEW i \in DOMAIN trail'  PROVE trail'[i] <= now
    OBVIOUS
  <2>1. CASE i \in DOMAIN trail
    BY <1>1, <1>3, <2>1
  <2>2. CASE i = Len(trail) + 1
    BY <1>1, <1>3, <2>2
  <2> QED  BY <1>1, <1>3, <2>1, <2>2
<1>8. ASSUME NEW b \in 0 .. count' - 1
      PROVE  Aged(samples', head', b) = trail'[Len(trail') - b]
  <2>1. CASE b = 0
    <3>1. Aged(samples', head', 0) = poseAt
      BY PushAges
    <3> QED  BY <1>1, <1>3, <2>1, <3>1
  <2>2. CASE b # 0
    <3> DEFINE c == b - 1
    <3>1. c \in 0 .. Capacity - 2 /\ c \in 0 .. count - 1 /\ b = c + 1
      BY <1>1, <1>2, <1>3, <1>4, <2>2
    <3>2. /\ Len(trail) - c \in DOMAIN trail
          /\ Len(trail') - b = Len(trail) - c
      BY <1>1, <1>2, <1>3, <3>1
    <3>3. Aged(samples', head', c + 1) = Aged(samples, head, c)
      BY <3>1, PushAges
    <3>4. Aged(samples, head, c) = trail[Len(trail) - c]
      BY <1>2, <3>1
    <3> HIDE DEF c
    <3> QED  BY <1>3, <3>1, <3>2, <3>3, <3>4
  <2> QED  BY <2>1, <2>2
<1> QED  BY <1>4, <1>5, <1>6, <1>7, <1>8 DEF Mirrors

LEMMA FreshMirrors ==
  ASSUME FilterType, RingInv, ObserveFresh
  PROVE  RingInv'
<1>1. PushGimbalSample /\ pc = "observe" /\ pc' = "pose"
  BY DEF ObserveFresh
<1>2. now' = now
  BY Zenon DEF ObserveFresh, clockVars
<1> QED  BY <1>1, <1>2, PushMirrors, Zenon DEF RingInv

LEMMA ResetMirrors ==
  ASSUME ObserveFault
  PROVE  RingInv'
<1>1. head' = 0 /\ count' = 0 /\ trail' = <<>> /\ pc' = "pose"
  BY DEF ObserveFault, ResetFilter
<1>2. Len(<<>>) = 0 /\ DOMAIN <<>> = {} /\ 0 .. 0 - 1 = {} /\ 0 < Capacity
  BY FilterAssumption
<1> QED  BY <1>1, <1>2 DEF RingInv, Mirrors

LEMMA PoseMirrors ==
  ASSUME TypeOK, RingInv, Pose
  PROVE  RingInv'
<1>1. /\ pc' = "observe" /\ poseAt' = now'
      /\ samples' = samples /\ head' = head /\ count' = count /\ trail' = trail
  BY DEF Pose, poseVars
<1>2. PICK d \in TickTimes : now' = now + d
  BY DEF Pose
<1>3. now \in Nat /\ now' \in Nat /\ now < now'
  BY <1>2, FilterAssumption DEF TypeOK
<1>4. /\ DOMAIN trail = 1 .. Len(trail) /\ \A i \in DOMAIN trail : trail[i] \in Nat
      /\ \A i \in DOMAIN trail : trail[i] <= now
  BY SMTT(20) DEF TypeOK, RingInv
<1>5. \A i \in DOMAIN trail : trail[i] < now' /\ trail[i] <= now'
  BY <1>3, <1>4
<1> QED  BY <1>1, <1>3, <1>5 DEF RingInv

LEMMA ArrivalMirrors ==
  ASSUME TypeOK, RingInv, now' \in Nat, now' >= now,
         UNCHANGED <<pc, poseAt, samples, head, count, trail>>
  PROVE  RingInv'
<1>1. /\ now \in Nat /\ poseAt \in Nat
      /\ DOMAIN trail = 1 .. Len(trail) /\ \A i \in DOMAIN trail : trail[i] \in Nat
  BY DEF TypeOK
<1>2. /\ \A i \in DOMAIN trail : trail[i] <= now'
      /\ pc = "observe" => poseAt <= now'
  BY <1>1 DEF RingInv
<1> QED  BY <1>2 DEF RingInv

LEMMA ArrivalNow ==
  ASSUME TimingInv, Arrival
  PROVE  now' \in Nat /\ now' >= now
<1>1. now' \in Nat /\ now \in Nat /\ retrieved \in Nat
  BY ArrivalTiming DEF TimingInv, ClockInv, ClockType
<1>2. PICK gap \in GapsNow, latency \in Latencies :
        LET exposed == retrieved + gap
        IN now' = IF exposed + latency > now THEN exposed + latency ELSE now
  BY DEF Arrival, Frame
<1>3. gap \in Int /\ latency \in Int
  <2>1. Gaps # {} /\ Gaps \subseteq Int /\ Latencies \subseteq Int
    BY ClockAssumption
  <2>2. (CHOOSE g \in Gaps : TRUE) \in Gaps
    BY <2>1
  <2>3. gap \in Gaps
    BY <2>2, Zenon DEF GapsNow
  <2> QED  BY <2>1, <2>3
<1> QED  BY <1>1, <1>2, <1>3

LEMMA RingInvCorrect == Spec => []RingInv
<1>1. Init => RingInv
  <2> SUFFICES ASSUME Init PROVE RingInv
    OBVIOUS
  <2>1. head = 0 /\ count = 0 /\ trail = <<>> /\ pc = "pose"
    BY DEF Init
  <2>2. Len(<<>>) = 0 /\ DOMAIN <<>> = {} /\ 0 .. 0 - 1 = {} /\ 0 < Capacity
    BY FilterAssumption
  <2> QED  BY <2>1, <2>2 DEF RingInv, Mirrors
<1>2. TimingInv /\ TypeOK /\ RingInv /\ [Next]_vars => RingInv'
  <2> SUFFICES ASSUME TimingInv, TypeOK, RingInv, [Next]_vars PROVE RingInv'
    OBVIOUS
  <2>1. CASE Arrival
    <3>1. now' \in Nat /\ now' >= now
      BY <2>1, ArrivalNow DEF TimingInv
    <3>2. UNCHANGED <<pc, poseAt, samples, head, count, trail>>
      BY <2>1 DEF Arrival, filterVars, poseVars
    <3> QED  BY <3>1, <3>2, ArrivalMirrors
  <2>2. CASE UNCHANGED vars
    <3>1. now' \in Nat /\ now' >= now
      BY <2>2 DEF vars, clockVars, TypeOK
    <3>2. UNCHANGED <<pc, poseAt, samples, head, count, trail>>
      BY <2>2 DEF vars, filterVars, poseVars
    <3> QED  BY <3>1, <3>2, ArrivalMirrors
  <2> QED  BY <2>1, <2>2, FreshMirrors, ResetMirrors, PoseMirrors, TypeSplit, Zenon DEF Next
<1> QED  BY <1>1, <1>2, TimingCorrect, TypeCorrect, PTL DEF Spec

(* A frame the filter steps on is given the pose it should rest on.        *)
LEMMA StepPairs ==
  ASSUME TypeOK, RingInv, ObserveFresh, Step(frame)
  PROVE  PairIsRight(frameCapture', pair', trail')
<1>1. FilterType /\ PushGimbalSample /\ pc = "observe" /\ UpdateFramePose(frame)
  BY TypeSplit DEF ObserveFresh, Step
<1>2. Mirrors(samples', head', count', trail') /\ count' > 0 /\ trail' \in Seq(Nat)
  BY <1>1, PushMirrors, PushType
<1>3. pair' = AngleAt(samples', head', count', frameCapture')
  BY <1>1, <1>2 DEF UpdateFramePose
<1>4. frameCapture' \in Int
  BY <1>1, StepType DEF TypeOK
<1> QED  BY <1>2, <1>3, <1>4, MirrorIsReference

(* The pose of a frame is interpolated between the samples on either side  *)
(* of its exposure, or extrapolated, out of one history and no older than  *)
(* the ring is long: for a ring of any capacity, over wrap-around and over *)
(* any number of pose faults (target_filter.cpp:50, :72).                  *)
THEOREM FramePoseCorrect == Spec => FramePoseIsRight
<1>1. TypeOK /\ RingInv /\ [Next]_vars =>
        [stepped' # stepped /\ stepped'.id > 0
           => PairIsRight(frameCapture', pair', trail')]_vars
  <2> SUFFICES ASSUME TypeOK, RingInv, [Next]_vars, stepped' # stepped, stepped'.id > 0
               PROVE  PairIsRight(frameCapture', pair', trail')
    OBVIOUS
  <2>1. CASE ObserveFresh
    <3>1. Step(frame)
      BY <2>1, Zenon DEF ObserveFresh, Refuse, stepVars
    <3> QED  BY <2>1, <3>1, StepPairs
  <2>2. CASE ObserveFault
    BY <2>2, NoFrameType DEF ObserveFault, ResetFilter
  <2>3. CASE Arrival \/ Pose \/ UNCHANGED vars
    <3>1. UNCHANGED stepVars
      BY <2>3, Zenon DEF Arrival, Pose, vars, filterVars
    <3> QED  BY <3>1, Zenon DEF stepVars
  <2> QED  BY <2>1, <2>2, <2>3, Zenon DEF Next
<1> QED  BY <1>1, TypeCorrect, RingInvCorrect, PTL DEF Spec, FramePoseIsRight
================================================================================
