---------------------------- MODULE MotorBringUp ----------------------------
(***************************************************************************)
(* The drives from attaching the CANdle to detaching it: init,             *)
(* boot_sequence and disable of src/comm/candle_motor.cpp.  boot_sequence  *)
(* holds the bus lock from its first line to its last, so this is one      *)
(* thread's run; the commands given between boot and disable are MotorBus. *)
(*                                                                         *)
(* A drive sits between two end stops, at 0 and at Span, and reports its   *)
(* position relative to where it was zeroed.  It is in the mode it was     *)
(* armed in, or idle: disabled, never armed, or fallen back because no CAN *)
(* frame has addressed it for Watchdog waits.  An armed drive that is      *)
(* pushed moves or, against friction or a stop, does not.  A position read *)
(* can fail.  The code ignores the result of every SDK write: Lossy says   *)
(* whether one can be lost.                                                *)
(***************************************************************************)
EXTENDS Integers

CONSTANTS
  DriveCount,     (* pan and tilt of the first gimbal, of the second ...    *)
  OnBoot,         (* the drives of the gimbals with calibrate_on_boot       *)
  Span,           (* the distance between an axis's end stops               *)
  Backoff,        (* k_boot_backoff_rad                                     *)
  Grace,          (* grace_samples                                          *)
  MaxStalls,      (* stall_samples                                          *)
  MaxSamples,     (* max_samples                                            *)
  MaxReadErrors,
  Attempts,       (* arm_drive's attempts                                   *)
  SettleSamples,
  StuckSamples,
  Watchdog,
  Lossy

Drives == 1 .. DriveCount

ASSUME BringUpAssumption ==
  /\ DriveCount \in Nat /\ OnBoot \subseteq Drives
  /\ {Span, Backoff, MaxSamples, Attempts, SettleSamples, StuckSamples, Watchdog}
       \subseteq Nat \ {0}
  /\ {Grace, MaxStalls, MaxReadErrors} \subseteq Nat
  /\ Lossy \in BOOLEAN

VARIABLES
  pc,
  at,         (* the drive being set up or calibrated                       *)
  attached,   (* candle_ is set                                             *)
  mode,       (* each drive's motionModeStatus                              *)
  demand,     (* the direction each drive was last told to go               *)
  quiet,      (* waits since a frame last addressed the drive               *)
  position,   (* where each axis is                                         *)
  zero,       (* where it was zeroed                                        *)
  limit,      (* its SoftLimit                                              *)
  failed,     (* the drives that cost boot_sequence its all_ok              *)
  goal,       (* the mode arm_drive is to reach                             *)
  dir,        (* find_barrier's direction                                   *)
  upper,      (* the barrier found above                                    *)
  tally       (* the counters and last reading of the loop under way        *)

driveVars == <<mode, demand, quiet, position>>
vars == <<pc, at, attached, driveVars, zero, limit, failed, goal, dir, upper, tally>>

Modes == {"idle", "velocity", "impedance"}
NoReading == Span + 1
Unknown == [calibrated |-> FALSE, min |-> 0, max |-> 0, home |-> 0]
Fresh == [samples |-> 0, errors |-> 0, still |-> 0, settled |-> 0, last |-> NoReading]

Reading(d) == position[d] - zero[d]

(* The locals of the axis that is done with mean nothing any more. *)
NextAxis ==
  /\ pc' = "select" /\ at' = at + 1
  /\ goal' = "impedance" /\ dir' = 1 /\ upper' = 0 /\ tally' = Fresh

(* What a write can leave behind. *)
Written(new, old) == IF Lossy THEN {new, old} ELSE {new}

Init ==
  /\ pc = "attach" /\ at = 1 /\ attached = FALSE
  /\ mode = [d \in Drives |-> "idle"]
  /\ demand = [d \in Drives |-> 0]
  /\ quiet = [d \in Drives |-> 0]
  /\ position \in {p \in [Drives -> 0 .. Span] : \A d \in Drives \ OnBoot : p[d] = 0}
  /\ zero = [d \in Drives |-> 0]
  /\ limit = [d \in Drives |-> Unknown]
  /\ failed = {}
  /\ goal = "impedance" /\ dir = 1 /\ upper = 0 /\ tally = Fresh

-----------------------------------------------------------------------------
(* Mutants. *)

(* Only the axes of the same kind are fed. *)
FeedingsOfOneKind == {{d \in Drives \ {at} : d % 2 = at % 2}}

(* The failed axis is left as it was. *)
FailAxisArmed ==
  /\ failed' = failed \union {at}
  /\ NextAxis
  /\ UNCHANGED <<attached, driveVars, zero, limit>>

(* The backoff is added to both ends. *)
LimitsFromUnsigned(lo, hi) ==
  [calibrated |-> TRUE, min |-> lo + Backoff, max |-> hi + Backoff,
   home |-> (lo + hi + 2 * Backoff) \div 2]

(* A failed read is retried without being counted. *)
MissUncounted == [tally EXCEPT !.errors = 1]

(* The axis is left at its last parking speed. *)
StopParkingMoving == UNCHANGED driveVars

-----------------------------------------------------------------------------
(* Waiting, and arming a drive. *)

(* feed_watchdogs: every drive but the active one is told to stand still. *)
Feedings == IF Lossy THEN SUBSET (Drives \ {at}) ELSE {Drives \ {at}}

(***************************************************************************)
(* wait_feeding while the active drive, addressed just before, is in mode  *)
(* m and pushed one way.  Only a drive in velocity mode heeds the feeding. *)
(***************************************************************************)
Elapse(m, push) ==
  \E fed \in Feedings :
    /\ demand' = [d \in Drives |->
                    CASE d = at -> push
                      [] d # at /\ d \in fed /\ mode[d] = "velocity" -> 0
                      [] OTHER -> demand[d]]
    /\ quiet' = [d \in Drives |->
                   CASE d = at \/ d \in fed -> 0
                     [] OTHER -> IF quiet[d] < Watchdog THEN quiet[d] + 1 ELSE Watchdog]
    /\ mode' = [d \in Drives |->
                  CASE d = at -> m
                    [] d # at /\ quiet'[d] = Watchdog -> "idle"
                    [] OTHER -> mode[d]]
    /\ LET free == {d \in Drives : /\ mode'[d] # "idle" /\ demand'[d] # 0
                                   /\ position[d] + demand'[d] \in 0 .. Span}
       IN \E moved \in SUBSET free :
            position' = [d \in Drives |->
                           IF d \in moved THEN position[d] + demand'[d] ELSE position[d]]

(* disable() on the axis, and on to the next. *)
FailAxis ==
  /\ mode' \in Written([mode EXCEPT ![at] = "idle"], mode)
  /\ failed' = failed \union {at}
  /\ NextAxis
  /\ UNCHANGED <<attached, demand, quiet, position, zero, limit>>

(* mode_is: the drive is believed only when it says so itself. *)
Seen(m) == m = goal

(* One attempt of arm_drive: disable, write, enable, read back.  The mode    *)
(* often does not take, and the read-backs can all fail.                     *)
ArmAttempt ==
  /\ pc = "arm" /\ tally.samples < Attempts
  /\ \E m \in {goal, "idle"} \union Written("idle", mode[at]) :
       /\ Elapse(m, 0)
       /\ \/ /\ Seen(m)
             /\ pc' = IF goal = "impedance" THEN "seek" ELSE "park"
             /\ tally' = Fresh
          \/ /\ pc' = "arm"
             /\ tally' = [tally EXCEPT !.samples = @ + 1]
  /\ UNCHANGED <<at, attached, zero, limit, failed, goal, dir, upper>>

ArmFails ==
  /\ pc = "arm" /\ tally.samples = Attempts
  /\ FailAxis

-----------------------------------------------------------------------------
(* init and disable. *)

(* md->disable() on every drive, then detachCandle; a second call finds     *)
(* nothing left to do.                                                      *)
Disable ==
  /\ mode' \in [Drives -> Modes]
  /\ \A d \in Drives : mode'[d] \in Written("idle", mode[d])
  /\ attached' = FALSE
  /\ pc' = "off"
  /\ UNCHANGED <<at, demand, quiet, position, zero, limit, failed, goal, dir, upper, tally>>

Attach ==
  /\ pc = "attach"
  /\ \/ attached' = TRUE /\ pc' = "power"
     \/ attached' = FALSE /\ pc' = "off"
  /\ UNCHANGED <<at, driveVars, zero, limit, failed, goal, dir, upper, tally>>

(* enable_pds: no PDS configured, none that answers, or a powered stage. *)
PowerUp ==
  /\ pc = "power"
  /\ pc' = "init"
  /\ UNCHANGED <<at, attached, driveVars, zero, limit, failed, goal, dir, upper, tally>>

NoPowerStage == pc = "power" /\ Disable

(* setup_md, unverified.  How long it takes is not known: drives set up      *)
(* before it may fall idle meanwhile.                                       *)
SetUp ==
  /\ pc = "init"
  /\ \E alive \in SUBSET {d \in Drives : mode[d] = "velocity"}, m \in {"idle", "velocity"} :
       mode' = [d \in Drives |-> CASE d = at -> m
                                   [] d # at /\ d \in alive -> "velocity"
                                   [] OTHER -> "idle"]
  /\ IF at < DriveCount THEN at' = at + 1 /\ pc' = "init"
                        ELSE at' = 1 /\ pc' = "select"
  /\ UNCHANGED <<attached, demand, quiet, position, zero, limit, failed, goal, dir, upper, tally>>

NoResponse == pc = "init" /\ Disable

-----------------------------------------------------------------------------
(* boot_sequence. *)

(* calibrate_axis forgets the old limits, disables and zeroes the axis. *)
Begin ==
  /\ pc = "select" /\ at \in OnBoot
  /\ limit' = [limit EXCEPT ![at].calibrated = FALSE]
  /\ mode' \in Written([mode EXCEPT ![at] = "idle"], mode)
  /\ zero' \in Written([zero EXCEPT ![at] = position[at]], zero)
  /\ pc' = "arm" /\ goal' = "impedance" /\ dir' = 1 /\ tally' = Fresh
  /\ UNCHANGED <<at, attached, demand, quiet, position, failed, upper>>

Skip ==
  /\ pc = "select" /\ at \in Drives \ OnBoot
  /\ at' = at + 1
  /\ UNCHANGED <<pc, attached, driveVars, zero, limit, failed, goal, dir, upper, tally>>

BootReturns ==
  /\ pc = "select" /\ at > DriveCount
  /\ pc' = "booted"
  /\ UNCHANGED <<at, attached, driveVars, zero, limit, failed, goal, dir, upper, tally>>

(* find_barrier's first read. *)
Seek ==
  /\ pc = "seek"
  /\ pc' = "sweep"
  /\ tally' = [Fresh EXCEPT !.last = Reading(at)]
  /\ UNCHANGED <<at, attached, driveVars, zero, limit, failed, goal, dir, upper>>

SeekFails == pc = "seek" /\ FailAxis

Stalled == tally.still > MaxStalls
GivenUp == tally.errors > MaxReadErrors \/ tally.samples = MaxSamples

(* A sample whose read failed leaves the stall count and the last reading. *)
Miss == [tally EXCEPT !.samples = @ + 1, !.errors = @ + 1]

(* Past the grace period, a reading like the last one counts as a stall. *)
Stall(reading) ==
  [tally EXCEPT !.samples = @ + 1, !.errors = 0, !.last = reading,
                !.still = IF tally.samples >= Grace /\ reading = tally.last
                          THEN @ + 1 ELSE 0]

(* Push, wait, read. *)
Sweep ==
  /\ pc = "sweep" /\ ~Stalled /\ ~GivenUp
  /\ \E push \in Written(dir, demand[at]) : Elapse(mode[at], push)
  /\ tally' \in {Miss, Stall(position'[at] - zero[at])}
  /\ UNCHANGED <<pc, at, attached, zero, limit, failed, goal, dir, upper>>

SweepFails ==
  /\ pc = "sweep" /\ ~Stalled /\ GivenUp
  /\ FailAxis

UpperFound ==
  /\ pc = "sweep" /\ Stalled /\ dir = 1
  /\ upper' = tally.last
  /\ dir' = -1 /\ pc' = "seek"
  /\ UNCHANGED <<at, attached, driveVars, zero, limit, failed, goal, tally>>

LimitsFrom(lo, hi) ==
  [calibrated |-> TRUE, min |-> lo + Backoff, max |-> hi - Backoff, home |-> (lo + hi) \div 2]

(* The range must leave something between the backoffs.  The axis is told    *)
(* to stay at the lower barrier and rearmed.                                *)
LowerFound ==
  /\ pc = "sweep" /\ Stalled /\ dir = -1
  /\ upper - tally.last > 2 * Backoff
  /\ limit' = [limit EXCEPT ![at] = LimitsFrom(tally.last, upper)]
  /\ demand' \in Written([demand EXCEPT ![at] = 0], demand)
  /\ pc' = "arm" /\ goal' = "velocity" /\ tally' = Fresh
  /\ UNCHANGED <<at, attached, mode, quiet, position, zero, failed, dir, upper>>

RangeTooSmall ==
  /\ pc = "sweep" /\ Stalled /\ dir = -1
  /\ upper - tally.last <= 2 * Backoff
  /\ FailAxis

(* park_axis.  last is the anchor of the window without progress. *)
Near(reading) == reading = limit[at].home

Progress(reading) ==
  LET stuck == reading = tally.last
  IN [samples |-> tally.samples + 1, errors |-> 0, last |-> reading,
      still   |-> IF ~stuck THEN 0 ELSE IF Near(reading) THEN tally.still ELSE tally.still + 1,
      settled |-> IF Near(reading) THEN tally.settled + 1 ELSE 0]

Parked ==
  \/ tally.settled >= SettleSamples
  \/ tally.still >= StuckSamples
  \/ tally.errors > MaxReadErrors

ParkRead ==
  /\ pc = "park" /\ tally.samples < MaxSamples
  /\ tally' \in {Miss, Progress(Reading(at))}
  /\ pc' = "push"
  /\ UNCHANGED <<at, attached, driveVars, zero, limit, failed, goal, dir, upper>>

(* The integral can push either way; a failed read commands nothing new. *)
ParkPush ==
  /\ pc = "push" /\ ~Parked
  /\ \E push \in IF tally.errors > 0 THEN {demand[at]} ELSE {-1, 0, 1} : Elapse(mode[at], push)
  /\ pc' = "park"
  /\ UNCHANGED <<at, attached, zero, limit, failed, goal, dir, upper, tally>>

(* Parked or given up: a last zero either way. *)
StopParking ==
  /\ demand' \in Written([demand EXCEPT ![at] = 0], demand)
  /\ UNCHANGED <<mode, quiet, position>>

ParkEnds ==
  /\ \/ pc = "push" /\ Parked
     \/ pc = "park" /\ tally.samples = MaxSamples
  /\ StopParking
  /\ NextAxis
  /\ UNCHANGED <<attached, zero, limit, failed>>

-----------------------------------------------------------------------------

(* The destructor, after the last command. *)
Close == pc = "booted" /\ Disable

InitSteps == Attach \/ PowerUp \/ NoPowerStage \/ SetUp \/ NoResponse
Calibrate ==
  \/ Begin \/ Skip \/ BootReturns \/ ArmAttempt \/ ArmFails
  \/ Seek \/ SeekFails \/ Sweep \/ SweepFails
  \/ UpperFound \/ LowerFound \/ RangeTooSmall
Park == ParkRead \/ ParkPush \/ ParkEnds
Next == InitSteps \/ Calibrate \/ Park \/ Close

Spec == Init /\ [][Next]_vars

(* The one thread runs; no SDK call blocks for ever. *)
FairSpec == Spec /\ WF_vars(InitSteps \/ Calibrate \/ Park)

-----------------------------------------------------------------------------

(***************************************************************************)
(* Whatever stopped the sweeps, the limits of a calibrated axis lie inside *)
(* its end stops with the backoff to spare, and its home between them: a   *)
(* stall short of a stop can narrow the range and never move it outside.   *)
(***************************************************************************)
LimitsWithinStops ==
  \A d \in Drives : limit[d].calibrated =>
    /\ zero[d] + limit[d].min >= Backoff
    /\ zero[d] + limit[d].max <= Span - Backoff
    /\ limit[d].min < limit[d].max
    /\ limit[d].home \in limit[d].min .. limit[d].max

(* candle_motor.h:53: failed axes are left disabled. *)
FailedAxesAreDisabled == \A d \in failed : mode[d] = "idle"

(* However parking ended, tracking starts from drives that stand still: in   *)
(* velocity mode at zero, or idle.                                           *)
BootLeavesStill ==
  pc = "booted" =>
    \A d \in Drives : mode[d] = "idle" \/ (mode[d] = "velocity" /\ demand[d] = 0)

(* Calibration moves one axis at a time: not one that failed before, nor    *)
(* one that is done.                                                        *)
OnlyActiveMoves == [][\A d \in Drives : position'[d] # position[d] => d = at]_vars

(***************************************************************************)
(* candle_motor.h:115: the drives not being calibrated keep being          *)
(* addressed.  None falls idle while another is swept, rearmed or parked.  *)
(***************************************************************************)
WatchdogsAreFed ==
  [][pc # "init" /\ pc' # "off" =>
       \A d \in Drives \ {at} : mode[d] = "velocity" => mode'[d] = "velocity"]_vars

(* Bring-up ends, with boot calibration done or the device given back. *)
BringUpEnds == <>(pc \in {"booted", "off"})
=============================================================================
