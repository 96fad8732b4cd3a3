----------------------------- MODULE CaptureClock -----------------------------
(***************************************************************************)
(* The time of a frame, as the pad probe of src/pipeline/inference.cpp     *)
(* gives it to the tracking threads: the arrival, the capture cadence      *)
(* (advance_capture_clock) and the instant of exposure (captured_at).      *)
(*                                                                         *)
(* Times are integers of one unit.  A camera retrieves frames Gaps apart   *)
(* and they arrive, in order, between MinLatency and MaxLatency later.     *)
(* A source stamps all its frames or none; a stamp is the time of          *)
(* retrieval.  The double arithmetic of the period is rounded to the unit. *)
(* MaxFrames bounds the frames.                                            *)
(***************************************************************************)
EXTENDS Integers

CONSTANTS
  Gaps,             (* times between two frames' retrievals                 *)
  MinLatency,       (* of the pipeline, retrieval to probe                  *)
  MaxLatency,
  Latencies,        (* those that occur                                     *)
  BeforeRetrieval,  (* from mid-exposure to retrieval                       *)
  MaxInterval,      (* k_max_frame_interval_s                               *)
  MaxAge,           (* k_max_capture_age_s                                  *)
  RelearnFrames,    (* k_period_relearn_frames                              *)
  MaxFrames

ASSUME ClockAssumption ==
  /\ Gaps \subseteq Nat \ {0} /\ Gaps # {}
  /\ MinLatency \in Nat \ {0} /\ MaxLatency \in Nat
  /\ Latencies \subseteq MinLatency .. MaxLatency
  /\ BeforeRetrieval \in Nat
  /\ MaxInterval \in Nat \ {0} /\ MaxAge \in Nat
  /\ RelearnFrames \in Nat \ {0}
  /\ MaxFrames \in Nat

NoPts == 0      \* GST_CLOCK_TIME_NONE: no frame is stamped 0

VARIABLES
  now,          (* steady_now_s                                             *)
  stamped,      (* the source stamps its frames                             *)
  retrieved,    (* when the newest frame was retrieved                      *)
  lastArrival,  (* last_arrival_s .. capture_s of CameraContext             *)
  lastPts,
  period,
  offPeriod,
  capture,
  stretch,      (* history: the stretch of frames timed by their stamps     *)
  drift,        (* history: what snapping has added or taken, in all        *)
  frame         (* the observation in the channel                           *)

contextVars == <<lastArrival, lastPts, period, offPeriod, capture>>
clockVars == <<now, stamped, retrieved, contextVars, stretch, drift, frame>>

(* An observation without its detection; retrieved and stretch are history. *)
NoFrame == [id |-> 0, time |-> 0, capture |-> 0, captured |-> 0, retrieved |-> 0,
            stretch |-> 0]

ClockInit ==
  /\ now = 0
  /\ stamped \in BOOLEAN
  /\ retrieved = 0
  /\ lastArrival = 0
  /\ lastPts = NoPts
  /\ period = 0
  /\ offPeriod = 0
  /\ capture = 0
  /\ stretch = 0
  /\ drift = 0
  /\ frame = NoFrame

-----------------------------------------------------------------------------

(* Mutants: the interval always from the arrivals; an off-period frame     *)
(* counted but not added.                                                  *)

IntervalOfArrivals(pts, arrival) ==
  IF lastArrival > 0 THEN arrival - lastArrival ELSE 0

OffPeriodUncounted(interval) ==
  /\ period > 0
  /\ ~(4 * (IF interval > period THEN interval - period ELSE period - interval) <= period)
  /\ IF offPeriod + 1 >= RelearnFrames
     THEN period' = interval /\ offPeriod' = 0
     ELSE offPeriod' = offPeriod + 1 /\ UNCHANGED period
  /\ UNCHANGED <<capture, drift>>

-----------------------------------------------------------------------------

(* The stamps give the interval, if both are there and not too far apart. *)
TimedByStamps(pts) ==
  /\ lastArrival > 0
  /\ pts # NoPts /\ lastPts # NoPts
  /\ pts > lastPts
  /\ pts - lastPts < MaxInterval

Interval(pts, arrival) ==
  IF TimedByStamps(pts) THEN pts - lastPts
  ELSE IF lastArrival > 0 THEN arrival - lastArrival ELSE 0

Distance(a, b) == IF a > b THEN a - b ELSE b - a

(* k_period_tolerance and k_period_smoothing are a quarter and a twentieth. *)
OnPeriod(interval) == 4 * Distance(interval, period) <= period

Smoothed(interval) == period + (interval - period) \div 20

(* A first frame, a gap too long to be an interval, a clock gone back. *)
Restart(arrival) ==
  /\ capture' = arrival
  /\ period' = 0
  /\ offPeriod' = 0
  /\ UNCHANGED drift

LearnPeriod(interval) ==
  /\ period = 0
  /\ period' = interval
  /\ capture' = capture + interval
  /\ UNCHANGED <<offPeriod, drift>>

Snap(interval) ==
  /\ period > 0
  /\ OnPeriod(interval)
  /\ period' = Smoothed(interval)
  /\ capture' = capture + period'
  /\ offPeriod' = 0
  /\ drift' = drift + Distance(period', interval)

(* Off the period: a dropped frame, or, often enough, a new frame rate. *)
OffPeriod(interval) ==
  /\ period > 0
  /\ ~OnPeriod(interval)
  /\ capture' = capture + interval
  /\ IF offPeriod + 1 >= RelearnFrames
     THEN period' = interval /\ offPeriod' = 0
     ELSE offPeriod' = offPeriod + 1 /\ UNCHANGED period
  /\ UNCHANGED drift

(* advance_capture_clock. *)
AdvanceCaptureClock(pts, arrival) ==
  LET interval == Interval(pts, arrival) IN
  /\ lastArrival' = arrival
  /\ lastPts' = pts
  /\ IF interval <= 0 \/ interval > MaxInterval
     THEN Restart(arrival)
     ELSE LearnPeriod(interval) \/ Snap(interval) \/ OffPeriod(interval)

(* captured_at: mid-exposure, or 0 without a stamp or a credible age. *)
CapturedAt(pts, arrival) ==
  LET age == arrival - pts IN
  IF pts = NoPts \/ age < 0 \/ age > MaxAge \/ age + BeforeRetrieval >= arrival THEN 0
  ELSE arrival - age - BeforeRetrieval

(* Nothing depends on when the first frame is retrieved. *)
GapsNow == IF frame.id = 0 THEN {CHOOSE g \in Gaps : TRUE} ELSE Gaps

(* The probe, for a frame that arrives: its times, and its publication.      *)
Frame ==
  /\ frame.id < MaxFrames
  /\ \E gap \in GapsNow, latency \in Latencies :
       LET exposed == retrieved + gap
           arrival == IF exposed + latency > now THEN exposed + latency ELSE now
           pts == IF stamped THEN exposed ELSE NoPts
       IN /\ arrival <= exposed + MaxLatency
          /\ now' = arrival
          /\ retrieved' = exposed
          /\ AdvanceCaptureClock(pts, arrival)
          /\ stretch' = IF TimedByStamps(pts) THEN stretch ELSE stretch + 1
          /\ frame' = [id |-> frame.id + 1, time |-> arrival, capture |-> capture',
                       captured |-> CapturedAt(pts, arrival), retrieved |-> exposed,
                       stretch |-> stretch']
  /\ UNCHANGED stamped

=============================================================================
