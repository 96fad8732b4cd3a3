-------------------------- MODULE MotorBringUpProofs --------------------------
(***************************************************************************)
(* Proofs about MotorBringUp for any number of drives, any travel and any  *)
(* budget of samples, errors and attempts.                                 *)
(***************************************************************************)
EXTENDS MotorBringUp, TLAPS

Calibrating == {"arm", "seek", "sweep", "park", "push"}
Stages == {"attach", "power", "init", "select", "booted", "off"} \union Calibrating

Travel == 0 .. Span

Limits == [calibrated : BOOLEAN, min : Int, max : Int, home : Int]
Tallies == [samples : Nat, errors : Nat, still : Nat, settled : Nat, last : Int]

-----------------------------------------------------------------------------
(* The invariant of the end stops, lost writes or not.                     *)

DriveType ==
  /\ mode \in [Drives -> Modes]
  /\ demand \in [Drives -> {-1, 0, 1}]
  /\ quiet \in [Drives -> 0 .. Watchdog]
  /\ position \in [Drives -> Travel]

BootType ==
  /\ pc \in Stages
  /\ at \in Nat
  /\ pc \in Calibrating => at \in Drives
  /\ zero \in [Drives -> Travel]
  /\ limit \in [Drives -> Limits]
  /\ failed \in SUBSET Drives
  /\ goal \in {"impedance", "velocity"} /\ dir \in {-1, 1}
  /\ upper \in Int /\ tally \in Tallies

(* What axis d reads is within its travel, wherever it was zeroed. *)
Readable(d, reading) == zero[d] + reading \in Travel

(***************************************************************************)
(* The reading a sweep has last taken and the barrier it found above are   *)
(* both places the axis has been, in terms of the zero it still has; and   *)
(* the limits made of two such places leave the backoff at either stop.    *)
(***************************************************************************)
StopsInv ==
  /\ DriveType /\ BootType
  /\ pc = "sweep" => Readable(at, tally.last)
  /\ pc \in {"seek", "sweep"} /\ dir = -1 => Readable(at, upper)
  /\ pc = "arm" /\ goal = "impedance" => dir = 1
  /\ LimitsWithinStops

-----------------------------------------------------------------------------
(* The invariant of who moves, which needs the writes to arrive.           *)

(* A drive in mode m with demand v that is left alone does not move. *)
Still(m, v) == m = "idle" \/ (m = "velocity" /\ v = 0)

AtRest(d) == Still(mode[d], demand[d])

(***************************************************************************)
(* Before calibration no axis has failed and none was told to move.  While *)
(* an axis is calibrated the others are at rest and those that failed are  *)
(* behind it; between axes and after the last all are at rest.  An axis    *)
(* that is parked is in velocity mode, where a zero stops it.              *)
(***************************************************************************)
RestInv ==
  /\ pc \in {"attach", "power", "init"} =>
       failed = {} /\ \A d \in Drives : demand[d] = 0 /\ mode[d] # "impedance"
  /\ pc \in {"select"} \union Calibrating => \A d \in failed : d < at
  /\ pc \in Calibrating => \A d \in Drives \ {at} : AtRest(d)
  /\ pc \in {"select", "booted"} => \A d \in Drives : AtRest(d)
  /\ pc \in {"park", "push"} => mode[at] # "impedance"
  /\ FailedAxesAreDisabled

-----------------------------------------------------------------------------
(* The operators.                                                          *)

LEMMA WrittenLemma ==
  ASSUME NEW new, NEW old
  PROVE  /\ Written(new, old) \subseteq {new, old}
         /\ ~Lossy => Written(new, old) = {new}
BY DEF Written

(* What a wait does to the active drive, and the most it does to another. *)
LEMMA ElapseLemma ==
  ASSUME DriveType, at \in Drives, NEW m \in Modes, NEW push \in {-1, 0, 1}, Elapse(m, push)
  PROVE  /\ DriveType'
         /\ mode'[at] = m
         /\ \A d \in Drives \ {at} :
              /\ mode'[d] \in {mode[d], "idle"} /\ demand'[d] \in {demand[d], 0}
              /\ ~Lossy => mode'[d] = mode[d]
         /\ \A d \in Drives : position'[d] # position[d] => mode'[d] # "idle" /\ demand'[d] # 0
<1>1. PICK fed \in Feedings :
        /\ demand' = [d \in Drives |->
                        CASE d = at -> push
                          [] d # at /\ d \in fed /\ mode[d] = "velocity" -> 0
                          [] OTHER -> demand[d]]
        /\ quiet' = [d \in Drives |->
                       CASE d = at \/ d \in fed -> 0
                         [] OTHER -> IF quiet[d] < Watchdog THEN quiet[d] + 1 ELSE Watchdog]
        /\ mode' = [d \in Drives |->
                      CASE d = at -> m
                        [] d # at /\ quiet'[d] = Watchdog -> "idle"
                        [] OTHER -> mode[d]]
        /\ LET free == {d \in Drives : /\ mode'[d] # "idle" /\ demand'[d] # 0
                                       /\ position[d] + demand'[d] \in 0 .. Span}
           IN \E moved \in SUBSET free :
                position' = [d \in Drives |->
                               IF d \in moved THEN position[d] + demand'[d] ELSE position[d]]
  BY DEF Elapse
<1>2. Watchdog \in Nat \ {0}
  BY BringUpAssumption
<1>3. /\ demand' \in [Drives -> {-1, 0, 1}] /\ demand'[at] = push
      /\ \A d \in Drives \ {at} : demand'[d] \in {demand[d], 0}
  BY <1>1 DEF DriveType
<1>4. quiet' \in [Drives -> 0 .. Watchdog]
  <2>1. \A d \in Drives : quiet[d] \in 0 .. Watchdog
    BY DEF DriveType
  <2>2. \A n \in 0 .. Watchdog :
          0 \in 0 .. Watchdog /\ (IF n < Watchdog THEN n + 1 ELSE Watchdog) \in 0 .. Watchdog
    BY <1>2
  <2> QED  BY <1>1, <2>1, <2>2
<1>5. mode' \in [Drives -> Modes] /\ mode'[at] = m
  BY <1>1 DEF DriveType, Modes
<1>6. \A d \in Drives \ {at} : mode'[d] \in {mode[d], "idle"}
  BY <1>1
<1>7. ASSUME NEW d \in Drives \ {at}, ~Lossy
      PROVE  mode'[d] = mode[d]
  <2>1. d \in fed
    BY <1>1, <1>7 DEF Feedings
  <2>2. quiet'[d] = 0
    BY <1>1, <2>1
  <2> QED  BY <1>1, <1>2, <2>2
<1>8. PICK moved \in SUBSET {d \in Drives : /\ mode'[d] # "idle" /\ demand'[d] # 0
                                            /\ position[d] + demand'[d] \in 0 .. Span} :
        position' = [d \in Drives |->
                       IF d \in moved THEN position[d] + demand'[d] ELSE position[d]]
  BY <1>1
<1>9. position' \in [Drives -> Travel]
  BY <1>8 DEF DriveType, Travel
<1>10. \A d \in Drives : position'[d] # position[d] => mode'[d] # "idle" /\ demand'[d] # 0
  BY <1>8
<1> QED  BY <1>3, <1>4, <1>5, <1>6, <1>7, <1>9, <1>10 DEF DriveType

(* Two places of an axis far enough apart make limits inside its stops. *)
LEMMA LimitsLemma ==
  ASSUME NEW z \in Travel, NEW lo \in Int, NEW hi \in Int,
         z + lo \in Travel, z + hi \in Travel, hi - lo > 2 * Backoff
  PROVE  /\ LimitsFrom(lo, hi) \in Limits
         /\ z + LimitsFrom(lo, hi).min >= Backoff
         /\ z + LimitsFrom(lo, hi).max <= Span - Backoff
         /\ LimitsFrom(lo, hi).min < LimitsFrom(lo, hi).max
         /\ LimitsFrom(lo, hi).home \in LimitsFrom(lo, hi).min .. LimitsFrom(lo, hi).max
<1>1. Backoff \in Nat /\ Span \in Nat
  BY BringUpAssumption
<1>2. /\ lo + Backoff \in Int /\ hi - Backoff \in Int /\ (lo + hi) \div 2 \in Int
      /\ z + (lo + Backoff) >= Backoff /\ z + (hi - Backoff) <= Span - Backoff
      /\ lo + Backoff < hi - Backoff
      /\ (lo + hi) \div 2 \in lo + Backoff .. hi - Backoff
  BY <1>1 DEF Travel
<1> QED  BY <1>2 DEF LimitsFrom, Limits

LEMMA TallyLemma ==
  /\ Fresh \in Tallies
  /\ \A n \in Int : [Fresh EXCEPT !.last = n] \in Tallies
  /\ tally \in Tallies =>
       /\ Miss \in Tallies /\ [tally EXCEPT !.samples = @ + 1] \in Tallies
       /\ Miss.last = tally.last
       /\ \A n \in Int : /\ Stall(n) \in Tallies /\ Stall(n).last = n
                          /\ Progress(n) \in Tallies
<1>1. NoReading \in Int
  BY BringUpAssumption DEF NoReading
<1>2. Fresh \in Tallies /\ \A n \in Int : [Fresh EXCEPT !.last = n] \in Tallies
  BY <1>1 DEF Fresh, Tallies
<1>3. ASSUME tally \in Tallies
      PROVE  Miss \in Tallies /\ [tally EXCEPT !.samples = @ + 1] \in Tallies
             /\ Miss.last = tally.last
  <2>1. tally.samples + 1 \in Nat /\ tally.errors + 1 \in Nat
    BY <1>3 DEF Tallies
  <2> QED  BY <1>3, <2>1 DEF Tallies, Miss
<1>4. ASSUME tally \in Tallies, NEW n \in Int
      PROVE  Stall(n) \in Tallies /\ Stall(n).last = n /\ Progress(n) \in Tallies
  <2>1. /\ tally.samples + 1 \in Nat /\ tally.still + 1 \in Nat /\ tally.settled + 1 \in Nat
        /\ tally.still \in Nat
    BY <1>4 DEF Tallies
  <2>2. Stall(n) \in Tallies /\ Stall(n).last = n
    BY <1>4, <2>1 DEF Tallies, Stall
  <2>3. Progress(n) \in Tallies
    BY <1>4, <2>1 DEF Tallies, Progress
  <2> QED  BY <2>2, <2>3
<1> QED  BY <1>2, <1>3, <1>4

(* An axis reads the distance between two places of its travel. *)
LEMMA ReadingLemma ==
  ASSUME DriveType, zero \in [Drives -> Travel], NEW d \in Drives
  PROVE  /\ Reading(d) \in Int /\ Readable(d, Reading(d))
         /\ \A p \in Travel : p - zero[d] \in Int /\ Readable(d, p - zero[d])
<1>1. zero[d] \in Int /\ position[d] \in Travel /\ Travel \subseteq Int
  BY DEF DriveType, Travel
<1>2. \A p \in Travel : p - zero[d] \in Int /\ zero[d] + (p - zero[d]) = p
  BY <1>1
<1> QED  BY <1>1, <1>2 DEF Reading, Readable

-----------------------------------------------------------------------------
(* The end stops: the steps.                                               *)

(* The limits of all axes stay what they are. *)
LEMMA LimitsKept ==
  ASSUME LimitsWithinStops, UNCHANGED <<zero, limit>>
  PROVE  LimitsWithinStops'
BY DEF LimitsWithinStops

LEMMA NextAxisStops ==
  ASSUME StopsInv, NextAxis, DriveType', UNCHANGED <<zero, limit>>, failed' \in SUBSET Drives
  PROVE  StopsInv'
<1>1. /\ pc' = "select" /\ at' = at + 1 /\ at' \in Nat
      /\ goal' = "impedance" /\ dir' = 1 /\ upper' = 0 /\ tally' = Fresh
  BY DEF NextAxis, StopsInv, BootType
<1>2. BootType'
  BY <1>1, TallyLemma DEF StopsInv, BootType, Stages, Calibrating
<1> QED  BY <1>1, <1>2, LimitsKept DEF StopsInv

LEMMA FailAxisStops ==
  ASSUME StopsInv, at \in Drives, FailAxis
  PROVE  StopsInv'
<1>1. mode' \in {[mode EXCEPT ![at] = "idle"], mode}
  BY WrittenLemma DEF FailAxis
<1>2. DriveType'
  BY <1>1 DEF FailAxis, StopsInv, DriveType, Modes
<1> QED  BY <1>2, NextAxisStops DEF FailAxis, StopsInv, BootType

LEMMA InitStepsStops ==
  ASSUME StopsInv, InitSteps \/ Close
  PROVE  StopsInv'
<1>1. CASE Attach \/ PowerUp
  <2>1. /\ pc' \in {"power", "init", "off"}
        /\ UNCHANGED <<at, driveVars, zero, limit, failed, goal, dir, upper, tally>>
    BY <1>1 DEF Attach, PowerUp
  <2> QED  BY <2>1, LimitsKept
              DEF StopsInv, DriveType, BootType, driveVars, Stages, Calibrating
<1>2. CASE SetUp
  <2>1. mode' \in [Drives -> Modes]
    <3>1. PICK alive \in SUBSET Drives, m \in {"idle", "velocity"} :
            mode' = [d \in Drives |-> CASE d = at -> m
                                        [] d # at /\ d \in alive -> "velocity"
                                        [] OTHER -> "idle"]
      BY <1>2 DEF SetUp
    <3> QED  BY <3>1 DEF Modes
  <2>2. pc' \in {"init", "select"} /\ at' \in Nat
    BY <1>2 DEF SetUp, StopsInv, BootType
  <2>3. UNCHANGED <<demand, quiet, position, zero, limit, failed, goal, dir, upper, tally>>
    BY <1>2 DEF SetUp
  <2> QED  BY <2>1, <2>2, <2>3, LimitsKept
              DEF StopsInv, DriveType, BootType, Stages, Calibrating
<1>3. CASE Disable
  BY <1>3, LimitsKept DEF Disable, StopsInv, DriveType, BootType, Stages, Calibrating
<1> QED  BY <1>1, <1>2, <1>3 DEF InitSteps, NoPowerStage, NoResponse, Close

(* Zeroing an axis forgets its limits. *)
LEMMA BeginStops ==
  ASSUME StopsInv, Begin
  PROVE  StopsInv'
<1>1. at \in Drives /\ OnBoot \subseteq Drives
  BY BringUpAssumption DEF Begin
<1>2. mode' \in {[mode EXCEPT ![at] = "idle"], mode}
      /\ zero' \in {[zero EXCEPT ![at] = position[at]], zero}
  BY WrittenLemma DEF Begin
<1>3. DriveType'
  BY <1>2 DEF Begin, StopsInv, DriveType, Modes
<1>4. zero' \in [Drives -> Travel] /\ \A d \in Drives \ {at} : zero'[d] = zero[d]
  BY <1>2 DEF StopsInv, DriveType, BootType
<1>5. /\ limit' \in [Drives -> Limits] /\ ~limit'[at].calibrated
      /\ \A d \in Drives \ {at} : limit'[d] = limit[d]
  BY <1>1 DEF Begin, StopsInv, BootType, Limits
<1>6. LimitsWithinStops'
  BY <1>4, <1>5 DEF StopsInv, LimitsWithinStops
<1>7. BootType'
  BY <1>1, <1>4, <1>5, TallyLemma DEF Begin, StopsInv, BootType, Stages, Calibrating
<1> QED  BY <1>3, <1>6, <1>7 DEF Begin, StopsInv

LEMMA SelectStops ==
  ASSUME StopsInv, Skip \/ BootReturns
  PROVE  StopsInv'
BY LimitsKept
   DEF Skip, BootReturns, StopsInv, DriveType, BootType, driveVars, Stages, Calibrating

LEMMA ArmStops ==
  ASSUME StopsInv, ArmAttempt
  PROVE  StopsInv'
<1>1. pc = "arm" /\ at \in Drives /\ mode[at] \in Modes
  BY DEF ArmAttempt, StopsInv, BootType, DriveType, Calibrating
<1>2. PICK m \in Modes : /\ Elapse(m, 0)
                         /\ \/ /\ pc' = IF goal = "impedance" THEN "seek" ELSE "park"
                               /\ tally' = Fresh
                            \/ /\ pc' = "arm"
                               /\ tally' = [tally EXCEPT !.samples = @ + 1]
  <2>1. {goal, "idle"} \union Written("idle", mode[at]) \subseteq Modes
    BY <1>1, WrittenLemma DEF StopsInv, BootType, Modes
  <2> QED  BY <2>1 DEF ArmAttempt
<1>3. DriveType'
  BY <1>1, <1>2, ElapseLemma DEF StopsInv
<1>4. /\ pc' \in {"seek", "park", "arm"} /\ tally' \in Tallies
      /\ pc' = "seek" => goal = "impedance"
  BY <1>2, TallyLemma DEF StopsInv, BootType
<1>5. UNCHANGED <<at, zero, limit, failed, goal, dir, upper>>
  BY DEF ArmAttempt
<1>6. BootType'
  BY <1>1, <1>4, <1>5 DEF StopsInv, BootType, Stages, Calibrating
<1>7. (pc' \in {"seek", "sweep"} => dir' = 1) /\ (pc' = "arm" => dir' = dir /\ goal' = goal)
  BY <1>1, <1>4, <1>5 DEF StopsInv
<1>8. LimitsWithinStops'
  BY <1>5, LimitsKept DEF StopsInv
<1> QED  BY <1>1, <1>3, <1>4, <1>6, <1>7, <1>8 DEF StopsInv

(* Each reading a sweep takes is of a place within the travel. *)
LEMMA SweepStops ==
  ASSUME StopsInv, Seek \/ Sweep
  PROVE  StopsInv'
<1>1. CASE Seek
  <2>1. pc = "seek" /\ at \in Drives /\ Reading(at) \in Int /\ Readable(at, Reading(at))
    BY <1>1, ReadingLemma DEF Seek, StopsInv, BootType, Calibrating
  <2>2. tally' \in Tallies /\ tally'.last = Reading(at)
    BY <1>1, <2>1, TallyLemma DEF Seek, Fresh
  <2>3. pc' = "sweep" /\ UNCHANGED <<at, attached, driveVars, zero, limit, failed, goal, dir, upper>>
    BY <1>1 DEF Seek
  <2>4. DriveType' /\ BootType'
    BY <2>1, <2>2, <2>3
       DEF StopsInv, DriveType, BootType, driveVars, Stages, Calibrating
  <2>5. Readable(at, tally.last)' /\ (dir' = -1 => Readable(at, upper)')
    BY <2>1, <2>2, <2>3 DEF StopsInv, Readable
  <2> QED  BY <2>3, <2>4, <2>5, LimitsKept DEF StopsInv
<1>2. CASE Sweep
  <2>1. /\ pc = "sweep" /\ pc' = "sweep" /\ at \in Drives /\ mode[at] \in Modes
        /\ UNCHANGED <<at, zero, limit, failed, goal, dir, upper>>
    BY <1>2 DEF Sweep, StopsInv, BootType, DriveType, Calibrating
  <2>2. PICK push \in {-1, 0, 1} : Elapse(mode[at], push)
    <3>1. Written(dir, demand[at]) \subseteq {-1, 0, 1}
      BY <2>1, WrittenLemma DEF StopsInv, BootType, DriveType
    <3> QED  BY <1>2, <3>1 DEF Sweep
  <2>3. DriveType'
    BY <2>1, <2>2, ElapseLemma DEF StopsInv
  <2>4. position'[at] \in Travel
    BY <2>1, <2>3 DEF DriveType
  <2>5. /\ position'[at] - zero[at] \in Int /\ Readable(at, position'[at] - zero[at])
    BY <2>1, <2>4, ReadingLemma DEF StopsInv, BootType
  <2>6. tally' \in Tallies /\ tally'.last \in {tally.last, position'[at] - zero[at]}
    BY <1>2, <2>5, TallyLemma DEF Sweep, StopsInv, BootType
  <2>7. Readable(at, tally'.last)
    BY <2>1, <2>5, <2>6 DEF StopsInv
  <2>8. Readable(at, tally.last)' /\ (dir' = -1 => Readable(at, upper)')
    BY <2>1, <2>7 DEF StopsInv, Readable
  <2>9. BootType'
    BY <2>1, <2>6 DEF StopsInv, BootType
  <2> QED  BY <2>1, <2>3, <2>8, <2>9, LimitsKept DEF StopsInv
<1> QED  BY <1>1, <1>2

LEMMA BarrierStops ==
  ASSUME StopsInv, UpperFound \/ LowerFound
  PROVE  StopsInv'
<1>1. pc = "sweep" /\ at \in Drives /\ tally.last \in Int /\ Readable(at, tally.last)
  BY DEF UpperFound, LowerFound, StopsInv, BootType, Calibrating, Tallies
<1>2. CASE UpperFound
  <2>1. /\ pc' = "seek" /\ dir' = -1 /\ upper' = tally.last
        /\ UNCHANGED <<at, driveVars, zero, limit, failed, goal, tally>>
    BY <1>2 DEF UpperFound
  <2>2. DriveType' /\ BootType'
    BY <1>1, <2>1 DEF StopsInv, DriveType, BootType, driveVars, Stages, Calibrating
  <2>3. Readable(at, upper)'
    BY <1>1, <2>1 DEF Readable
  <2> QED  BY <2>1, <2>2, <2>3, LimitsKept DEF StopsInv
<1>3. CASE LowerFound
  <2>1. Readable(at, upper) /\ upper \in Int /\ zero[at] \in Travel
        /\ upper - tally.last > 2 * Backoff
    BY <1>1, <1>3 DEF LowerFound, StopsInv, BootType
  <2> DEFINE limits == LimitsFrom(tally.last, upper)
  <2>2. /\ limits \in Limits
        /\ zero[at] + limits.min >= Backoff /\ zero[at] + limits.max <= Span - Backoff
        /\ limits.min < limits.max /\ limits.home \in limits.min .. limits.max
    BY <1>1, <2>1, LimitsLemma DEF Readable
  <2>3. limit' = [limit EXCEPT ![at] = limits]
    BY <1>3 DEF LowerFound
  <2> HIDE DEF limits
  <2>4. /\ limit' \in [Drives -> Limits] /\ limit'[at] = limits
        /\ \A d \in Drives \ {at} : limit'[d] = limit[d]
    BY <1>1, <2>2, <2>3 DEF StopsInv, BootType
  <2>5. /\ pc' = "arm" /\ goal' = "velocity" /\ tally' = Fresh
        /\ UNCHANGED <<at, mode, quiet, position, zero, failed, dir, upper>>
    BY <1>3 DEF LowerFound
  <2>6. LimitsWithinStops'
    <3> SUFFICES ASSUME NEW d \in Drives, limit'[d].calibrated
                 PROVE  /\ zero[d] + limit'[d].min >= Backoff
                        /\ zero[d] + limit'[d].max <= Span - Backoff
                        /\ limit'[d].min < limit'[d].max
                        /\ limit'[d].home \in limit'[d].min .. limit'[d].max
      BY <2>5 DEF LimitsWithinStops
    <3>1. CASE d = at
      BY <2>2, <2>4, <3>1
    <3>2. CASE d # at
      BY <2>4, <3>2 DEF StopsInv, LimitsWithinStops
    <3> QED  BY <3>1, <3>2
  <2>7. demand' \in [Drives -> {-1, 0, 1}]
    <3>1. demand' \in {[demand EXCEPT ![at] = 0], demand}
      BY <1>3, WrittenLemma DEF LowerFound
    <3> QED  BY <3>1 DEF StopsInv, DriveType
  <2>8. DriveType'
    BY <2>5, <2>7 DEF StopsInv, DriveType
  <2>9. BootType'
    BY <1>1, <2>4, <2>5, TallyLemma DEF StopsInv, BootType, Stages, Calibrating
  <2> QED  BY <2>5, <2>6, <2>8, <2>9 DEF StopsInv
<1> QED  BY <1>2, <1>3

LEMMA ParkStops ==
  ASSUME StopsInv, Park
  PROVE  StopsInv'
<1>1. pc \in {"park", "push"} /\ at \in Drives /\ mode[at] \in Modes
  BY DEF Park, ParkRead, ParkPush, ParkEnds, StopsInv, BootType, DriveType, Calibrating
<1>2. CASE ParkRead
  <2>1. /\ pc' = "push" /\ tally' \in {Miss, Progress(Reading(at))}
        /\ UNCHANGED <<at, driveVars, zero, limit, failed, goal, dir, upper>>
    BY <1>2 DEF ParkRead
  <2>2. tally' \in Tallies
    BY <1>1, <2>1, TallyLemma, ReadingLemma DEF StopsInv, BootType
  <2>3. DriveType' /\ BootType'
    BY <1>1, <2>1, <2>2 DEF StopsInv, DriveType, BootType, driveVars, Stages, Calibrating
  <2> QED  BY <2>1, <2>3, LimitsKept DEF StopsInv
<1>3. CASE ParkPush
  <2>1. PICK push \in {-1, 0, 1} : Elapse(mode[at], push)
    BY <1>1, <1>3 DEF ParkPush, StopsInv, DriveType
  <2>2. DriveType'
    BY <1>1, <2>1, ElapseLemma DEF StopsInv
  <2>3. pc' = "park" /\ UNCHANGED <<at, zero, limit, failed, goal, dir, upper, tally>>
    BY <1>3 DEF ParkPush
  <2>4. BootType'
    BY <1>1, <2>3 DEF StopsInv, BootType, Stages, Calibrating
  <2> QED  BY <2>2, <2>3, <2>4, LimitsKept DEF StopsInv
<1>4. CASE ParkEnds
  <2>1. demand' \in {[demand EXCEPT ![at] = 0], demand} /\ UNCHANGED <<mode, quiet, position>>
    BY <1>4, WrittenLemma DEF ParkEnds, StopParking
  <2>2. DriveType'
    BY <2>1 DEF StopsInv, DriveType
  <2> QED  BY <1>4, <2>2, NextAxisStops DEF ParkEnds, StopsInv, BootType
<1> QED  BY <1>2, <1>3, <1>4 DEF Park

LEMMA StopsCorrect == Spec => []StopsInv
<1>1. Init => StopsInv
  <2> SUFFICES ASSUME Init PROVE StopsInv
    OBVIOUS
  <2>1. Unknown \in Limits /\ ~Unknown.calibrated
    BY DEF Unknown, Limits
  <2>2. 0 \in Travel /\ 0 \in 0 .. Watchdog
    BY BringUpAssumption DEF Travel
  <2>3. DriveType
    BY <2>2 DEF Init, DriveType, Modes, Travel
  <2>4. BootType
    BY <2>1, <2>2, TallyLemma DEF Init, BootType, Stages, Calibrating
  <2> QED  BY <2>1, <2>3, <2>4 DEF Init, StopsInv, LimitsWithinStops
<1>2. StopsInv /\ [Next]_vars => StopsInv'
  <2> SUFFICES ASSUME StopsInv, [Next]_vars PROVE StopsInv'
    OBVIOUS
  <2>1. CASE InitSteps \/ Close
    BY <2>1, InitStepsStops
  <2>2. CASE Begin \/ Skip \/ BootReturns
    BY <2>2, BeginStops, SelectStops
  <2>3. CASE ArmAttempt \/ Seek \/ Sweep \/ UpperFound \/ LowerFound
    BY <2>3, ArmStops, SweepStops, BarrierStops
  <2>4. CASE ArmFails \/ SeekFails \/ SweepFails \/ RangeTooSmall
    BY <2>4, FailAxisStops
       DEF ArmFails, SeekFails, SweepFails, RangeTooSmall, StopsInv, BootType, Calibrating
  <2>5. CASE Park
    BY <2>5, ParkStops
  <2>6. CASE UNCHANGED vars
    BY <2>6, LimitsKept DEF vars, driveVars, StopsInv, DriveType, BootType, Readable
  <2> QED  BY <2>1, <2>2, <2>3, <2>4, <2>5, <2>6 DEF Next, Calibrate
<1> QED  BY <1>1, <1>2, PTL DEF Spec

(***************************************************************************)
(* Whatever writes are lost, reads fail and pushes meet friction, the soft *)
(* limits find_barrier leaves an axis with are inside its end stops.       *)
(***************************************************************************)
THEOREM LimitsCorrect == Spec => []LimitsWithinStops
<1>1. StopsInv => LimitsWithinStops
  BY DEF StopsInv
<1> QED  BY <1>1, StopsCorrect, PTL

-----------------------------------------------------------------------------
(* Who moves: the steps.                                                   *)

(* Nothing but the bookkeeping changes. *)
LEMMA RestKept ==
  ASSUME RestInv, pc' = pc, UNCHANGED <<at, mode, demand, failed, goal>>
  PROVE  RestInv'
BY DEF RestInv, AtRest, Still, FailedAxesAreDisabled

(* A step by which the axis under calibration is done with. *)
LEMMA NextAxisRest ==
  ASSUME StopsInv, RestInv, pc \in Calibrating, NextAxis,
         failed' \in {failed, failed \union {at}},
         Still(mode'[at], demand'[at]), at \in failed' => mode'[at] = "idle",
         \A d \in Drives \ {at} : mode'[d] = mode[d] /\ demand'[d] = demand[d]
  PROVE  RestInv'
<1>1. pc' = "select" /\ at' = at + 1 /\ at \in Nat /\ at \in Drives /\ failed \subseteq Drives
  BY DEF NextAxis, StopsInv, BootType
<1>2. \A d \in failed : d < at
  BY DEF RestInv
<1>3. \A d \in failed' : d < at'
  BY <1>1, <1>2 DEF Drives
<1>4. \A d \in Drives : AtRest(d)'
  <2>1. \A d \in Drives \ {at} : Still(mode[d], demand[d])
    BY DEF RestInv, AtRest
  <2> QED  BY <2>1 DEF AtRest
<1>5. FailedAxesAreDisabled'
  <2> SUFFICES ASSUME NEW d \in failed' PROVE mode'[d] = "idle"
    BY DEF FailedAxesAreDisabled
  <2>1. CASE d = at
    BY <2>1
  <2>2. CASE d # at
    BY <1>1, <2>2 DEF RestInv, FailedAxesAreDisabled
  <2> QED  BY <2>1, <2>2
<1> QED  BY <1>1, <1>3, <1>4, <1>5 DEF RestInv, Calibrating

LEMMA FailAxisRest ==
  ASSUME ~Lossy, StopsInv, RestInv, pc \in Calibrating, FailAxis
  PROVE  RestInv'
<1>1. at \in Drives /\ mode' = [mode EXCEPT ![at] = "idle"] /\ demand' = demand
  BY WrittenLemma DEF FailAxis, StopsInv, BootType
<1>2. mode'[at] = "idle" /\ \A d \in Drives \ {at} : mode'[d] = mode[d]
  BY <1>1 DEF StopsInv, DriveType
<1>3. Still(mode'[at], demand'[at])
  BY <1>2 DEF Still
<1> QED  BY <1>1, <1>2, <1>3, NextAxisRest DEF FailAxis

(* Nobody was told to move before the first axis is calibrated. *)
LEMMA InitStepsRest ==
  ASSUME ~Lossy, StopsInv, RestInv, InitSteps \/ Close
  PROVE  RestInv'
<1>1. CASE Attach \/ PowerUp
  <2>1. /\ pc \in {"attach", "power"} /\ pc' \in {"power", "init", "off"}
        /\ UNCHANGED <<at, driveVars, zero, limit, failed, goal, dir, upper, tally>>
    BY <1>1 DEF Attach, PowerUp
  <2> QED  BY <2>1 DEF RestInv, Calibrating, driveVars, FailedAxesAreDisabled
<1>2. CASE SetUp
  <2>1. /\ pc = "init" /\ pc' \in {"init", "select"} /\ UNCHANGED <<demand, failed>>
    BY <1>2 DEF SetUp
  <2>2. \A d \in Drives : mode'[d] \in {"idle", "velocity"}
    <3>1. PICK alive \in SUBSET Drives, m \in {"idle", "velocity"} :
            mode' = [d \in Drives |-> CASE d = at -> m
                                        [] d # at /\ d \in alive -> "velocity"
                                        [] OTHER -> "idle"]
      BY <1>2 DEF SetUp
    <3> QED  BY <3>1
  <2>3. failed = {} /\ \A d \in Drives : demand[d] = 0
    BY <2>1 DEF RestInv
  <2>4. \A d \in Drives : AtRest(d)'
    BY <2>1, <2>2, <2>3 DEF AtRest, Still
  <2> QED  BY <2>1, <2>2, <2>3, <2>4 DEF RestInv, Calibrating, FailedAxesAreDisabled
<1>3. CASE Disable
  <2>1. pc' = "off" /\ UNCHANGED <<failed, demand>>
    BY <1>3 DEF Disable
  <2>2. \A d \in Drives : mode'[d] = "idle"
    BY <1>3, WrittenLemma DEF Disable
  <2> QED  BY <2>1, <2>2 DEF RestInv, Calibrating, FailedAxesAreDisabled, StopsInv, BootType
<1> QED  BY <1>1, <1>2, <1>3 DEF InitSteps, NoPowerStage, NoResponse, Close

LEMMA SelectRest ==
  ASSUME ~Lossy, StopsInv, RestInv, Begin \/ Skip \/ BootReturns
  PROVE  RestInv'
<1>1. pc = "select" /\ (\A d \in Drives : AtRest(d)) /\ \A d \in failed : d < at
  BY DEF Begin, Skip, BootReturns, RestInv
<1>2. CASE Begin
  <2>1. /\ at \in Nat /\ failed \subseteq Drives /\ Drives \subseteq Nat
        /\ mode \in [Drives -> Modes]
    BY DEF StopsInv, DriveType, BootType, Drives
  <2>2. /\ mode' = [mode EXCEPT ![at] = "idle"]
        /\ pc' = "arm" /\ goal' = "impedance" /\ UNCHANGED <<at, demand, failed>>
    BY <1>2, WrittenLemma DEF Begin
  <2>3. \A d \in Drives : mode'[d] \in {mode[d], "idle"}
    BY <2>1, <2>2
  <2>4. \A d \in Drives : AtRest(d)'
    BY <1>1, <2>2, <2>3 DEF AtRest, Still
  <2>5. FailedAxesAreDisabled'
    BY <2>1, <2>2, <2>3 DEF RestInv, FailedAxesAreDisabled
  <2> QED  BY <1>1, <2>2, <2>4, <2>5 DEF RestInv, Calibrating
<1>3. CASE Skip
  <2>1. /\ pc' = pc /\ at' = at + 1 /\ at \in Nat /\ UNCHANGED <<mode, demand, failed>>
        /\ failed \subseteq Drives
    BY <1>3 DEF Skip, driveVars, StopsInv, BootType
  <2>2. \A d \in failed' : d < at'
    BY <1>1, <2>1 DEF Drives
  <2> QED  BY <1>1, <2>1, <2>2 DEF RestInv, Calibrating, AtRest, FailedAxesAreDisabled
<1>4. CASE BootReturns
  <2>1. pc' = "booted" /\ UNCHANGED <<at, mode, demand, failed>>
    BY <1>4 DEF BootReturns, driveVars
  <2> QED  BY <1>1, <2>1 DEF RestInv, Calibrating, AtRest, FailedAxesAreDisabled
<1> QED  BY <1>2, <1>3, <1>4

(* While the active drive is waited for, the others stay as they are. *)
LEMMA ElapseRest ==
  ASSUME ~Lossy, StopsInv, RestInv, pc \in Calibrating,
         NEW m \in Modes, NEW push \in {-1, 0, 1}, Elapse(m, push),
         pc' \in Calibrating, UNCHANGED <<at, failed>>,
         pc' \in {"park", "push"} => m # "impedance"
  PROVE  RestInv'
<1>1. at \in Drives /\ failed \subseteq Drives /\ \A d \in failed : d < at
  BY DEF StopsInv, BootType, RestInv, Calibrating
<1>2. at \notin failed
  BY <1>1 DEF Drives
<1>3. /\ mode'[at] = m
      /\ \A d \in Drives \ {at} : mode'[d] = mode[d] /\ demand'[d] \in {demand[d], 0}
  BY <1>1, ElapseLemma DEF StopsInv
<1>4. \A d \in Drives \ {at} : AtRest(d)'
  BY <1>3 DEF RestInv, AtRest, Still
<1>5. FailedAxesAreDisabled'
  BY <1>1, <1>2, <1>3 DEF RestInv, FailedAxesAreDisabled
<1> QED  BY <1>1, <1>3, <1>4, <1>5 DEF RestInv, Calibrating

LEMMA CalibrateRest ==
  ASSUME ~Lossy, StopsInv, RestInv, Calibrate
  PROVE  RestInv'
<1>1. CASE Begin \/ Skip \/ BootReturns
  BY <1>1, SelectRest
<1>2. CASE ArmAttempt
  <2>1. pc = "arm" /\ at \in Drives /\ goal \in {"impedance", "velocity"} /\ goal \in Modes
    BY <1>2 DEF ArmAttempt, StopsInv, BootType, DriveType, Calibrating, Modes
  <2>2. PICK m \in {goal, "idle"} :
          /\ Elapse(m, 0)
          /\ \/ m = goal /\ pc' = IF goal = "impedance" THEN "seek" ELSE "park"
             \/ pc' = "arm"
    BY <1>2, WrittenLemma DEF ArmAttempt, Seen
  <2>3. m \in Modes /\ pc' \in Calibrating /\ (pc' \in {"park", "push"} => m # "impedance")
    BY <2>1, <2>2 DEF Modes, Calibrating
  <2>4. UNCHANGED <<at, failed>>
    BY <1>2 DEF ArmAttempt
  <2> QED  BY <2>1, <2>2, <2>3, <2>4, ElapseRest DEF Calibrating
<1>3. CASE ArmFails \/ SeekFails \/ SweepFails \/ RangeTooSmall
  BY <1>3, FailAxisRest DEF ArmFails, SeekFails, SweepFails, RangeTooSmall, Calibrating
<1>4. CASE Seek
  BY <1>4 DEF Seek, driveVars, RestInv, Calibrating, AtRest, FailedAxesAreDisabled
<1>5. CASE Sweep
  <2>1. /\ pc = "sweep" /\ pc' = "sweep" /\ at \in Drives /\ mode[at] \in Modes
        /\ dir \in {-1, 1} /\ UNCHANGED <<at, failed>>
    BY <1>5 DEF Sweep, StopsInv, BootType, DriveType, Calibrating
  <2>2. Elapse(mode[at], dir)
    BY <1>5, WrittenLemma DEF Sweep
  <2> QED  BY <2>1, <2>2, ElapseRest DEF Calibrating
<1>6. CASE UpperFound
  BY <1>6 DEF UpperFound, driveVars, RestInv, Calibrating, AtRest, FailedAxesAreDisabled
<1>7. CASE LowerFound
  <2>1. /\ pc = "sweep" /\ pc' = "arm" /\ demand' = [demand EXCEPT ![at] = 0]
        /\ UNCHANGED <<at, mode, failed>>
    BY <1>7, WrittenLemma DEF LowerFound
  <2>2. \A d \in Drives \ {at} : demand'[d] = demand[d]
    BY <2>1 DEF StopsInv, DriveType
  <2>3. \A d \in Drives \ {at} : AtRest(d)'
    BY <2>1, <2>2 DEF RestInv, Calibrating, AtRest
  <2> QED  BY <2>1, <2>3 DEF RestInv, Calibrating, FailedAxesAreDisabled
<1> QED  BY <1>1, <1>2, <1>3, <1>4, <1>5, <1>6, <1>7 DEF Calibrate

LEMMA ParkRest ==
  ASSUME ~Lossy, StopsInv, RestInv, Park
  PROVE  RestInv'
<1>1. /\ pc \in {"park", "push"} /\ at \in Drives
      /\ mode[at] \in Modes /\ mode[at] # "impedance" /\ at \notin failed
  <2>1. pc \in {"park", "push"} /\ at \in Drives
    BY DEF Park, ParkRead, ParkPush, ParkEnds, StopsInv, BootType, Calibrating
  <2>2. at \notin failed
    BY <2>1 DEF RestInv, Calibrating, Drives
  <2> QED  BY <2>1, <2>2 DEF StopsInv, DriveType, RestInv
<1>2. CASE ParkRead
  BY <1>2 DEF ParkRead, driveVars, RestInv, Calibrating, AtRest, FailedAxesAreDisabled
<1>3. CASE ParkPush
  <2>1. PICK push \in {-1, 0, 1} : Elapse(mode[at], push)
    BY <1>1, <1>3 DEF ParkPush, StopsInv, DriveType
  <2>2. pc' = "park" /\ UNCHANGED <<at, failed>>
    BY <1>3 DEF ParkPush
  <2> QED  BY <1>1, <2>1, <2>2, ElapseRest DEF Calibrating
<1>4. CASE ParkEnds
  <2>1. /\ demand' = [demand EXCEPT ![at] = 0] /\ NextAxis
        /\ UNCHANGED <<mode, quiet, position, zero, limit, failed>>
    BY <1>4, WrittenLemma DEF ParkEnds, StopParking
  <2>2. demand'[at] = 0 /\ \A d \in Drives \ {at} : demand'[d] = demand[d]
    BY <1>1, <2>1 DEF StopsInv, DriveType
  <2>3. Still(mode'[at], demand'[at])
    BY <1>1, <2>1, <2>2 DEF Still, Modes
  <2> QED  BY <1>1, <2>1, <2>2, <2>3, NextAxisRest DEF Calibrating
<1> QED  BY <1>2, <1>3, <1>4 DEF Park

LEMMA RestCorrect ==
  ASSUME ~Lossy
  PROVE  Spec => []RestInv
<1>1. Init => RestInv
  BY DEF Init, RestInv, Calibrating, FailedAxesAreDisabled
<1>2. StopsInv /\ RestInv /\ [Next]_vars => RestInv'
  <2> SUFFICES ASSUME StopsInv, RestInv, [Next]_vars PROVE RestInv'
    OBVIOUS
  <2>1. CASE InitSteps \/ Close
    BY <2>1, InitStepsRest
  <2>2. CASE Calibrate
    BY <2>2, CalibrateRest
  <2>3. CASE Park
    BY <2>3, ParkRest
  <2>4. CASE UNCHANGED vars
    BY <2>4, RestKept DEF vars, driveVars
  <2> QED  BY <2>1, <2>2, <2>3, <2>4 DEF Next
<1> QED  BY <1>1, <1>2, StopsCorrect, PTL DEF Spec

(* With every write obeyed, an axis whose calibration failed is left       *)
(* disabled to the end, whatever the axes after it go through              *)
(* (candle_motor.h:53).                                                    *)
THEOREM FailedCorrect ==
  ASSUME ~Lossy
  PROVE  Spec => []FailedAxesAreDisabled
<1>1. RestInv => FailedAxesAreDisabled
  BY DEF RestInv
<1> QED  BY <1>1, RestCorrect, PTL

(* When boot_sequence returns, every drive is idle or in velocity mode at  *)
(* zero, however each axis's calibration and parking ended.                *)
THEOREM BootCorrect ==
  ASSUME ~Lossy
  PROVE  Spec => []BootLeavesStill
<1>1. RestInv => BootLeavesStill
  BY DEF RestInv, BootLeavesStill, AtRest, Still
<1> QED  BY <1>1, RestCorrect, PTL

-----------------------------------------------------------------------------
(* Who moves: what a step may do.                                          *)

(* Positions change during a wait only, and of the drives then at rest     *)
(* none moves.                                                             *)
LEMMA WaitMoves ==
  ASSUME ~Lossy, StopsInv, RestInv, pc \in Calibrating,
         NEW m \in Modes, NEW push \in {-1, 0, 1}, Elapse(m, push)
  PROVE  \A d \in Drives \ {at} : position'[d] = position[d] /\ mode'[d] = mode[d]
<1> SUFFICES ASSUME NEW d \in Drives \ {at}
             PROVE  position'[d] = position[d] /\ mode'[d] = mode[d]
  OBVIOUS
<1>1. at \in Drives
  BY DEF StopsInv, BootType
<1>2. /\ mode'[d] = mode[d] /\ demand'[d] \in {demand[d], 0}
      /\ position'[d] # position[d] => mode'[d] # "idle" /\ demand'[d] # 0
  BY <1>1, ElapseLemma DEF StopsInv
<1>3. mode[d] = "idle" \/ demand[d] = 0
  BY DEF RestInv, AtRest, Still
<1> QED  BY <1>2, <1>3

(* The waits of boot_sequence, each with what it tells the active drive.   *)
Waits == ArmAttempt \/ Sweep \/ ParkPush

LEMMA WaitsElapse ==
  ASSUME StopsInv, Waits
  PROVE  /\ pc \in Calibrating
         /\ \E m \in Modes, push \in {-1, 0, 1} : Elapse(m, push)
<1>1. pc \in Calibrating /\ at \in Drives /\ mode[at] \in Modes /\ demand[at] \in {-1, 0, 1}
  BY DEF Waits, ArmAttempt, Sweep, ParkPush, StopsInv, BootType, DriveType, Calibrating
<1>2. CASE ArmAttempt
  <2>1. {goal, "idle"} \union Written("idle", mode[at]) \subseteq Modes
    BY <1>1, WrittenLemma DEF StopsInv, BootType, Modes
  <2> QED  BY <1>1, <1>2, <2>1 DEF ArmAttempt
<1>3. CASE Sweep
  <2>1. Written(dir, demand[at]) \subseteq {-1, 0, 1}
    BY <1>1, WrittenLemma DEF StopsInv, BootType
  <2> QED  BY <1>1, <1>3, <2>1 DEF Sweep
<1>4. CASE ParkPush
  BY <1>1, <1>4 DEF ParkPush
<1> QED  BY <1>2, <1>3, <1>4 DEF Waits

(* No step but a wait moves a drive. *)
LEMMA OthersStand ==
  ASSUME StopsInv, Next, ~Waits
  PROVE  UNCHANGED position
BY DEF Next, Waits, InitSteps, Attach, PowerUp, NoPowerStage, NoResponse, SetUp, Close, Disable,
       Calibrate, Begin, Skip, BootReturns, ArmFails, Seek, SeekFails, SweepFails, UpperFound,
       LowerFound, RangeTooSmall, FailAxis, Park, ParkRead, ParkEnds, StopParking, driveVars

(***************************************************************************)
(* One axis at a time moves while calibrating: neither one that failed,    *)
(* nor one that is done, nor one whose turn has not come.                  *)
(***************************************************************************)
THEOREM MoveCorrect ==
  ASSUME ~Lossy
  PROVE  Spec => OnlyActiveMoves
<1>1. StopsInv /\ RestInv /\ [Next]_vars =>
        [\A d \in Drives : position'[d] # position[d] => d = at]_vars
  <2> SUFFICES ASSUME StopsInv, RestInv, Next, NEW d \in Drives, position'[d] # position[d]
               PROVE  d = at
    OBVIOUS
  <2>1. CASE Waits
    BY <2>1, WaitsElapse, WaitMoves
  <2>2. CASE ~Waits
    BY <2>2, OthersStand
  <2> QED  BY <2>1, <2>2
<1> QED  BY <1>1, StopsCorrect, RestCorrect, PTL DEF Spec, OnlyActiveMoves

(***************************************************************************)
(* No drive waiting in velocity mode falls back while another is armed,    *)
(* swept or parked (candle_motor.h:115): however long that takes, the      *)
(* watchdog never runs out on it.                                          *)
(***************************************************************************)
THEOREM WatchdogCorrect ==
  ASSUME ~Lossy
  PROVE  Spec => WatchdogsAreFed
<1>1. StopsInv /\ RestInv /\ [Next]_vars =>
        [pc # "init" /\ pc' # "off" =>
           \A d \in Drives \ {at} : mode[d] = "velocity" => mode'[d] = "velocity"]_vars
  <2> SUFFICES ASSUME StopsInv, RestInv, Next, pc # "init", pc' # "off",
                      NEW d \in Drives \ {at}, mode[d] = "velocity"
               PROVE  mode'[d] = "velocity"
    OBVIOUS
  <2>1. CASE Waits
    BY <2>1, WaitsElapse, WaitMoves
  <2>2. CASE FailAxis \/ Begin
    <3>1. mode' = [mode EXCEPT ![at] = "idle"]
      BY <2>2, WrittenLemma DEF FailAxis, Begin
    <3> QED  BY <3>1 DEF StopsInv, DriveType
  <2>3. CASE ~Waits /\ ~FailAxis /\ ~Begin
    BY <2>3 DEF Next, Waits, InitSteps, Attach, PowerUp, NoPowerStage, NoResponse, SetUp, Close,
                Disable, Calibrate, Skip, BootReturns, ArmFails, Seek, SeekFails, SweepFails,
                UpperFound, LowerFound, RangeTooSmall, Park, ParkRead, ParkEnds, StopParking,
                driveVars
  <2> QED  BY <2>1, <2>2, <2>3
<1> QED  BY <1>1, StopsCorrect, RestCorrect, PTL DEF Spec, WatchdogsAreFed
=============================================================================
