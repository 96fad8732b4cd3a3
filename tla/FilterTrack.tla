----------------------------- MODULE FilterTrack ------------------------------
(***************************************************************************)
(* The frame state of the target filter (src/tracking/target_filter.cpp)   *)
(* under the clock that times its frames: which frames it steps on and by  *)
(* how much, with which encoder poses it pairs them, and when it gives a   *)
(* track up.  One driving thread, as in src/main.cpp: Pose reads the       *)
(* encoders, Observe does what follows the wait for a frame.               *)
(*                                                                         *)
(* Whether a frame has a detection that seeds a track or passes the gate   *)
(* is a choice.  An encoder sample is its time, and a pose the pair of     *)
(* samples it is interpolated between.  MaxTicks and MaxFaults bound it.   *)
(***************************************************************************)
EXTENDS CaptureClock, Sequences, FiniteSets

CONSTANTS
  TickTimes,        (* times from the end of a tick to the next pose        *)
  Capacity,         (* PoseHistory::capacity                                *)
  RateWindow,       (* k_rate_window_s                                      *)
  MaxStep,          (* k_max_step_s                                         *)
  MaxCoast,         (* filter_max_coast_ms, 0 for none                      *)
  PipelineLatency,  (* filter_pipeline_latency_ms, for frames with no stamp *)
  MaxTicks,
  MaxFaults         (* ticks with an unusable pose                          *)

ASSUME FilterAssumption ==
  /\ TickTimes \subseteq Nat \ {0}
  /\ Capacity \in Nat \ {0}
  /\ RateWindow \in Nat
  /\ MaxStep \in Nat \ {0}
  /\ MaxCoast \in Nat /\ PipelineLatency \in Nat /\ MaxTicks \in Nat /\ MaxFaults \in Nat

VARIABLES
  ticks,        (* so far                                                   *)
  faults,       (* of them with an unusable pose                            *)
  pc,           (* where the tick is                                        *)
  poseAt,       (* when this tick read the encoders                         *)
  cursor,       (* observation_cursor                                       *)
  samples,      (* PoseHistory: the ring of sample times                    *)
  head,
  count,
  lastTime,     (* FilterState, its members' names                          *)
  lastCapture,
  initialized,
  coastFor,     (* coast_s                                                  *)
  haveFramePose,
  frameCapture, (* frame_capture_s                                          *)
  pair,         (* the samples frame_pan_rad and frame_tilt_rad come from   *)
  compensated,  (* camera_compensated                                       *)
  trail,        (* history: the times of all samples since the last reset   *)
  past,         (* history: the frame stepped on before the last            *)
  stepped,      (* history: the frame last stepped on                       *)
  refused       (* history: the frame refused since, if any                 *)

poseVars == <<samples, head, count, trail>>
stepVars == <<lastTime, lastCapture, haveFramePose, frameCapture, pair, compensated,
              past, stepped>>
trackVars == <<initialized, coastFor>>
filterVars == <<ticks, faults, pc, poseAt, cursor, poseVars, stepVars, trackVars, refused>>
vars == <<clockVars, filterVars>>

NoPair == <<0, 0>>

Init ==
  /\ ClockInit
  /\ ticks = 0
  /\ faults = 0
  /\ pc = "pose"
  /\ poseAt = 0
  /\ cursor = 0
  /\ samples = [i \in 0 .. Capacity - 1 |-> 0]
  /\ head = 0
  /\ count = 0
  /\ lastTime = 0
  /\ lastCapture = 0
  /\ initialized = FALSE
  /\ coastFor = 0
  /\ haveFramePose = FALSE
  /\ frameCapture = 0
  /\ pair = NoPair
  /\ compensated = FALSE
  /\ trail = <<>>
  /\ past = NoFrame
  /\ stepped = NoFrame
  /\ refused = NoFrame

-----------------------------------------------------------------------------
(* The pose history, after this tick's sample. *)

PushGimbalSample ==
  /\ samples' = [samples EXCEPT ![head] = poseAt]
  /\ head' = (head + 1) % Capacity
  /\ count' = IF count < Capacity THEN count + 1 ELSE count
  /\ trail' = Append(trail, poseAt)

(* Mutant: the ring is read from its next write. *)
AgedFromHead(ring, h, back) == ring[(h + 2 * Capacity - back) % Capacity]

(* Of a ring with its next write at h, the time of the newest but back. *)
Aged(ring, h, back) == ring[(h + 2 * Capacity - 1 - back) % Capacity]

(* rate_at_newest: the sample the rate is measured from. *)
RateFrom(ring, h, n) ==
  LET Far(back) == back + 1 >= n
                   \/ Aged(ring, h, 0) - Aged(ring, h, back + 1) > RateWindow
  IN Aged(ring, h, CHOOSE b \in 1 .. n : Far(b) /\ \A c \in 1 .. b - 1 : ~Far(c))

(* angle_at: the samples on which the pose at time t rests. *)
AngleAt(ring, h, n, t) ==
  LET newest == Aged(ring, h, 0)
      Older(b) == Aged(ring, h, b) <= t
  IN IF t >= newest THEN IF n < 2 THEN <<newest, newest>> ELSE <<RateFrom(ring, h, n), newest>>
     ELSE IF \E b \in 1 .. n - 1 : Older(b)
     THEN LET b == CHOOSE b \in 1 .. n - 1 : Older(b) /\ \A c \in 1 .. b - 1 : ~Older(c)
          IN <<Aged(ring, h, b), Aged(ring, h, b - 1)>>
     ELSE <<Aged(ring, h, n - 1), Aged(ring, h, n - 1)>>

-----------------------------------------------------------------------------
(* Mutant: only the track is dropped, as for a lost target. *)

ResetKeepingFrames ==
  /\ initialized' = FALSE /\ coastFor' = 0
  /\ past' = NoFrame /\ stepped' = NoFrame /\ refused' = NoFrame
  /\ UNCHANGED <<poseVars, lastTime, lastCapture, haveFramePose, frameCapture, pair, compensated>>

-----------------------------------------------------------------------------
(* step_filter, on a frame f. *)

FirstFrame == lastTime <= 0

Dt(f) ==
  IF f.capture > 0 /\ lastCapture > 0 THEN f.capture - lastCapture ELSE f.time - lastTime

(* The time the filter is stepped by: capped, and none for a first frame. *)
StepTime(f) ==
  IF FirstFrame THEN 0 ELSE IF Dt(f) > MaxStep THEN MaxStep ELSE Dt(f)

Untimely(f) == ~FirstFrame /\ Dt(f) <= 0

Refuse(f) ==
  /\ Untimely(f)
  /\ refused' = f
  /\ UNCHANGED <<stepVars, trackVars>>

DropTrack ==
  /\ initialized' = FALSE
  /\ coastFor' = 0

UpdateFramePose(f) ==
  /\ frameCapture' = IF f.captured > 0 THEN f.captured ELSE f.time - PipelineLatency
  /\ haveFramePose' = (count' > 0)
  /\ pair' = IF count' > 0 THEN AngleAt(samples', head', count', frameCapture') ELSE NoPair
  /\ compensated' = (haveFramePose' /\ haveFramePose /\ StepTime(f) > 0)

(* A detection that seeds a track, or is followed. *)
Accept ==
  /\ initialized' = TRUE
  /\ coastFor' = 0

Search ==
  /\ ~initialized
  /\ UNCHANGED <<trackVars>>

(* No detection, or one outside the gate. *)
Coast(f) ==
  /\ initialized
  /\ LET coasted == coastFor + StepTime(f) IN
     IF MaxCoast > 0 /\ coasted > MaxCoast
     THEN DropTrack
     ELSE coastFor' = coasted /\ UNCHANGED initialized

Step(f) ==
  /\ ~Untimely(f)
  /\ lastTime' = f.time
  /\ lastCapture' = f.capture
  /\ UpdateFramePose(f)
  /\ Accept \/ Search \/ Coast(f)
  /\ past' = stepped
  /\ stepped' = f
  /\ refused' = NoFrame

(* reset_filter: the ring's slots keep what they hold. *)
ResetFilter ==
  /\ DropTrack
  /\ lastTime' = 0 /\ lastCapture' = 0
  /\ haveFramePose' = FALSE
  /\ head' = 0 /\ count' = 0 /\ trail' = <<>>
  /\ past' = NoFrame /\ stepped' = NoFrame /\ refused' = NoFrame
  /\ UNCHANGED <<samples, frameCapture, pair, compensated>>

-----------------------------------------------------------------------------
(* A tick. *)

Pose ==
  /\ pc = "pose"
  /\ \E d \in TickTimes : now' = now + d
  /\ ticks < MaxTicks /\ ticks' = ticks + 1
  /\ poseAt' = now'
  /\ pc' = "observe"
  /\ UNCHANGED <<stamped, retrieved, contextVars, stretch, drift, frame, faults, cursor, poseVars,
                 stepVars, trackVars, refused>>

(* The wait is over, with a frame or without, and the pose is usable. *)
ObserveFresh ==
  /\ pc = "observe"
  /\ PushGimbalSample
  /\ IF frame.id # cursor
     THEN Refuse(frame) \/ Step(frame)
     ELSE UNCHANGED <<stepVars, trackVars, refused>>
  /\ cursor' = frame.id
  /\ pc' = "pose"
  /\ UNCHANGED <<clockVars, ticks, faults, poseAt>>

(* The pose is not usable: a frame that came is not stepped on. *)
ObserveFault ==
  /\ pc = "observe"
  /\ faults < MaxFaults /\ faults' = faults + 1
  /\ ResetFilter
  /\ cursor' = frame.id
  /\ pc' = "pose"
  /\ UNCHANGED <<clockVars, ticks, poseAt>>

Arrival == Frame /\ UNCHANGED filterVars

Next == Arrival \/ Pose \/ ObserveFresh \/ ObserveFault

Spec == Init /\ [][Next]_vars

-----------------------------------------------------------------------------

Frames == [id : Nat, time : Nat, capture : Nat, captured : Nat,
           retrieved : Nat, stretch : Nat]

TypeOK ==
  /\ \A n \in {now, retrieved, lastArrival, lastPts, period, offPeriod, capture, stretch, drift} :
       n \in Nat
  /\ stamped \in BOOLEAN
  /\ \A f \in {frame, past, stepped, refused} : f \in Frames
  /\ pc \in {"pose", "observe"}
  /\ poseAt \in Nat /\ cursor \in Nat
  /\ samples \in [0 .. Capacity - 1 -> Nat]
  /\ head \in 0 .. Capacity - 1
  /\ count \in 0 .. Capacity
  /\ lastTime \in Nat /\ lastCapture \in Nat /\ coastFor \in Nat
  /\ \A b \in {initialized, haveFramePose, compensated} : b \in BOOLEAN
  /\ frameCapture \in Int
  /\ trail \in Seq(Nat)

(***************************************************************************)
(* The time between the last two frames the filter stepped on, before its  *)
(* cap, is the time that passed between their exposures to within a third, *)
(* however many frames came between them unread, as long as every frame    *)
(* since was timed by its stamp: the cadence is the camera's, whatever the *)
(* arrivals do (inference.cpp:373, target_filter.cpp:249).                 *)
(***************************************************************************)
DtIsElapsed ==
  past.id > 0 /\ past.stretch = stepped.stretch =>
    LET elapsed == stepped.retrieved - past.retrieved
        dt == stepped.capture - past.capture
    IN 3 * dt <= 4 * elapsed /\ 2 * elapsed <= 3 * dt

(***************************************************************************)
(* The filter refuses a frame (target_filter.cpp:254) only where the       *)
(* capture clock restarted behind itself (inference.cpp:387), and after    *)
(* one restart no frame that was exposed later than the frame it last      *)
(* stepped on by more than the pipeline's latency varies, and snapping     *)
(* has added: a clock that jumps back does not freeze the filter for long. *)
(***************************************************************************)
FrozenBriefly ==
  refused.id > 0 =>
    /\ refused.stretch > stepped.stretch
    /\ stamped /\ refused.stretch = stepped.stretch + 1 =>
         refused.retrieved - stepped.retrieved <= MaxLatency - MinLatency + drift

Latest(S) == CHOOSE t \in S : \A u \in S : u <= t
Earliest(S) == CHOOSE t \in S : \A u \in S : t <= u

(* What a pose at time t should rest on, among the times T of the samples. *)
Reference(T, t) ==
  LET before == {u \in T : u <= t}
      newest == Latest(T)
      recent == {u \in T \ {newest} : newest - u <= RateWindow}
  IN IF before = {} THEN <<Earliest(T), Earliest(T)>>
     ELSE IF before # T THEN <<Latest(before), Earliest(T \ before)>>
     ELSE IF Cardinality(T) = 1 THEN <<newest, newest>>
     ELSE <<IF recent = {} THEN Latest(T \ {newest}) ELSE Earliest(recent), newest>>

(***************************************************************************)
(* The pose given to a frame is interpolated between the two samples on    *)
(* either side of its exposure, or extrapolated from the newest, or is the *)
(* oldest there is, out of the last Capacity samples since the last pose   *)
(* fault and nothing older: over wrap-around, and over a reset that leaves *)
(* the ring's slots as they are (target_filter.cpp:50).                    *)
(***************************************************************************)
PairIsRight(f, p, s) ==
  LET kept == {s[i] : i \in {j \in DOMAIN s : j > Len(s) - Capacity}}
  IN p = Reference(kept, f)

FramePoseIsRight ==
  [][stepped' # stepped /\ stepped'.id > 0 => PairIsRight(frameCapture', pair', trail')]_vars

(***************************************************************************)
(* A frame's camera motion is only ever the difference of two poses of one *)
(* history: the first frame after a pose fault has none (main.cpp:353).    *)
(***************************************************************************)
CompensationSpansOneHistory == compensated /\ stepped.id > 0 => past.id > 0
=============================================================================
