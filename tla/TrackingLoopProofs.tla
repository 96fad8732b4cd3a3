------------------------- MODULE TrackingLoopProofs -------------------------
(***************************************************************************)
(* Proofs about TrackingLoop, for every group of followers, every set of   *)
(* axes, every setting of the switches and all thresholds.                 *)
(***************************************************************************)
EXTENDS TrackingLoop, TLAPS

-----------------------------------------------------------------------------
(* What one decision returns. *)

LEMMA PhaseAfterInputFacts ==
  ASSUME NEW p \in Phases, NEW in \in ControlInputs
  PROVE  /\ PhaseAfterInput(p, in) \in Phases
         /\ in.manual => PhaseAfterInput(p, in) = "Manual"
         /\ ~in.manual => PhaseAfterInput(p, in) # "Manual"
         /\ ~in.manual /\ in.sighted => PhaseAfterInput(p, in) = "Tracking"
         /\ PhaseAfterInput(p, in) \in {"ReturningHome", "AtHome"} =>
              PhaseAfterInput(p, in) = p /\ ~in.manual /\ ~in.sighted
  BY DEF PhaseAfterInput, Phases, ControlInputs

LEMMA LeaderFacts ==
  ASSUME driving \in BOOLEAN,
         NEW p \in Phases, NEW a \in Nat, NEW in \in ControlInputs
  PROVE  /\ Leader(p, a, in) \in LeaderActions
         /\ Leader(p, a, in) = "Aim" => Aiming(a, in)
         /\ Leader(p, a, in) = "Manual" => in.manual
         /\ Leader(p, a, in) = "ReturnHome" => p = "ReturningHome"
  BY DEF Leader, LeaderActions, ControlInputs, Phases

LEMMA FollowersFacts ==
  ASSUME driving \in BOOLEAN, NEW in \in ControlInputs
  PROVE  Followers(in) \in FollowerActions
  BY DEF Followers, FollowerActions, ControlInputs

LEMMA NextPhaseFacts ==
  ASSUME NEW p \in Phases, NEW a \in Nat, NEW in \in ControlInputs
  PROVE  /\ NextPhase(p, a, in) \in Phases
         /\ \/ NextPhase(p, a, in) = p
            \/ /\ NextPhase(p, a, in) = "ReturningHome"
               /\ p = "Tracking" /\ ~in.manual /\ ~Aiming(a, in)
  BY DEF NextPhase, Phases

(***************************************************************************)
(* The decision as one fact: the leader's action fits the phase it leaves, *)
(* and a phase of home leaves no young estimate to aim by.                 *)
(***************************************************************************)
LEMMA StepControlFacts ==
  ASSUME driving \in BOOLEAN,
         NEW p \in Phases, NEW a \in 0 .. AgeCap, NEW in \in ControlInputs
  PROVE  LET d == StepControl(p, a, in)
         IN /\ d.phase \in Phases
            /\ d.age \in 0 .. AgeCap
            /\ d.leader \in LeaderActions
            /\ d.followers \in FollowerActions
            /\ d.leader = "Aim" =>
                 /\ ~in.manual /\ Aiming(d.age, in)
                 /\ p \in {"ReturningHome", "AtHome"} =>
                      d.phase = "Tracking" \/ (d.age = a /\ ~in.sighted)
                 /\ p \notin {"ReturningHome", "AtHome"} => d.phase = "Tracking"
            /\ d.leader = "Manual" => d.phase = "Manual"
            /\ d.leader = "ReturnHome" => d.phase = "ReturningHome"
            /\ d.phase = "AtHome" => p = "AtHome" /\ ~in.manual /\ ~in.sighted
            /\ d.phase \in {"ReturningHome", "AtHome"} =>
                 \/ p \in {"ReturningHome", "AtHome"} /\ d.age = a /\ ~in.sighted
                 \/ ~in.manual /\ ~Aiming(d.age, in)
<1> DEFINE q == PhaseAfterInput(p, in)
           b == AgeAfterInput(a, in)
           d == StepControl(p, a, in)
<1>1. b \in 0 .. AgeCap /\ b \in Nat
  BY LoopAssumption DEF AgeAfterInput
<1>2. /\ d.phase = NextPhase(q, b, in)
      /\ d.age = b
      /\ d.leader = Leader(q, b, in)
      /\ d.followers = Followers(in)
  BY DEF StepControl
<1>3. /\ q \in Phases
      /\ in.manual => q = "Manual"
      /\ ~in.manual => q # "Manual"
      /\ ~in.manual /\ in.sighted => q = "Tracking"
      /\ q \in {"ReturningHome", "AtHome"} => q = p /\ ~in.manual /\ ~in.sighted
  BY PhaseAfterInputFacts
<1>4. ~in.manual /\ ~in.sighted => b = a
  BY DEF AgeAfterInput, ControlInputs
<1>5. /\ Leader(q, b, in) \in LeaderActions
      /\ Leader(q, b, in) = "Aim" => Aiming(b, in)
      /\ Leader(q, b, in) = "Manual" => in.manual
      /\ Leader(q, b, in) = "ReturnHome" => q = "ReturningHome"
  BY <1>1, <1>3, LeaderFacts
<1>6. /\ NextPhase(q, b, in) \in Phases
      /\ \/ NextPhase(q, b, in) = q
         \/ /\ NextPhase(q, b, in) = "ReturningHome"
            /\ q = "Tracking" /\ ~in.manual /\ ~Aiming(b, in)
  BY <1>1, <1>3, NextPhaseFacts
<1>7. Aiming(b, in) => ~in.manual
  BY DEF Aiming
<1>8. p \notin {"ReturningHome", "AtHome"} /\ ~in.manual => q = "Tracking"
  BY <1>3 DEF Phases
<1> HIDE DEF q, b, d
<1>9. /\ d.phase \in Phases /\ d.age \in 0 .. AgeCap
      /\ d.leader \in LeaderActions /\ d.followers \in FollowerActions
  BY <1>1, <1>2, <1>5, <1>6, FollowersFacts
<1>10. d.leader = "Aim" =>
         /\ ~in.manual /\ Aiming(d.age, in)
         /\ p \in {"ReturningHome", "AtHome"} =>
              d.phase = "Tracking" \/ (d.age = a /\ ~in.sighted)
         /\ p \notin {"ReturningHome", "AtHome"} => d.phase = "Tracking"
  BY <1>2, <1>3, <1>4, <1>5, <1>6, <1>7, <1>8 DEF Phases
<1>11. /\ d.leader = "Manual" => d.phase = "Manual"
       /\ d.leader = "ReturnHome" => d.phase = "ReturningHome"
  BY <1>2, <1>3, <1>5, <1>6
<1>12. d.phase = "AtHome" => p = "AtHome" /\ ~in.manual /\ ~in.sighted
  BY <1>2, <1>3, <1>6
<1>13. d.phase \in {"ReturningHome", "AtHome"} =>
         \/ p \in {"ReturningHome", "AtHome"} /\ d.age = a /\ ~in.sighted
         \/ ~in.manual /\ ~Aiming(d.age, in)
  BY <1>2, <1>3, <1>4, <1>6
<1>14. QED
  BY <1>9, <1>10, <1>11, <1>12, <1>13 DEF d
-----------------------------------------------------------------------------
(* Types. *)

LEMMA SumFacts ==
  ASSUME NEW a \in 0 .. AgeCap, NEW b \in Nat
  PROVE  Sum(a, b) \in 0 .. AgeCap /\ Sum(a, b) >= a
  BY LoopAssumption DEF Sum

LEMMA SendFacts ==
  ASSUME TypeOK, NEW m \in Gimbals, NEW c \in Commands, NEW moving \in BOOLEAN,
         Send(m, c, moving)
  PROVE  /\ issued' \in [Gimbals -> Commands]
         /\ drive' \in [Gimbals -> Drives]
         /\ \A n \in Gimbals \ {m} : drive'[n] = drive[n]
         /\ ~moving /\ drive[m] = "still" => drive'[m] = "still"
<1>1. Outcomes(m, moving) \subseteq Drives
  BY DEF TypeOK, Outcomes, Drives
<1>2. PICK d \in Outcomes(m, moving) : drive' = [drive EXCEPT ![m] = d]
  BY DEF Send
<1>3. issued' \in [Gimbals -> Commands]
  BY DEF TypeOK, Send
<1>4. drive' \in [Gimbals -> Drives] /\ \A n \in Gimbals \ {m} : drive'[n] = drive[n]
  BY <1>1, <1>2 DEF TypeOK
<1>5. ~moving /\ drive[m] = "still" => drive'[m] = "still"
  BY <1>2 DEF TypeOK, Outcomes
<1>6. QED
  BY <1>3, <1>4, <1>5

LEMMA DriveFacts ==
  ASSUME TypeOK, Drive
  PROVE  /\ phase' \in Phases
         /\ issued' \in [Gimbals -> Commands]
         /\ drive' \in [Gimbals -> Drives]
         /\ \/ phase' = phase
            \/ leader = "ReturnHome" /\ phase' = "AtHome" /\ drive'[Gimbal] = "still"
         /\ leader \in {"None", "Hold"} /\ drive[Gimbal] = "still" =>
              drive'[Gimbal] = "still"
<1>1. Gimbal \in Gimbals
  BY DEF Gimbals
<1>2. CASE NoCommand
  BY <1>2 DEF NoCommand, TypeOK
<1>3. CASE Aim
  <2>1. "aim" \in Commands
    BY DEF Commands
  <2>2. CASE filterEnabled /\ ~track
    BY <1>3, <2>2 DEF Aim, TypeOK
  <2>3. CASE ~(filterEnabled /\ ~track)
    <3>1. leader = "Aim" /\ Send(Gimbal, "aim", TRUE) /\ UNCHANGED phase
      BY <1>3, <2>3 DEF Aim
    <3>2. QED
      BY <1>1, <2>1, <3>1, SendFacts DEF TypeOK
  <2>4. QED
    BY <2>2, <2>3
<1>4. CASE DriveManually
  <2>1. "manual" \in Commands /\ (\E a \in Axes : Command(a) # 0) \in BOOLEAN
    BY DEF Commands
  <2>2. QED
    BY <1>1, <1>4, <2>1, SendFacts DEF DriveManually, TypeOK
<1>5. CASE Arrive
  <2>1. phase' = phase \/ phase' = "AtHome"
    BY <1>5 DEF Arrive, ApplyHomeFeedback
  <2>2. /\ issued' \in [Gimbals -> Commands]
        /\ drive' \in [Gimbals -> Drives]
        /\ drive'[Gimbal] = "still"
    BY <1>1, <1>5 DEF Arrive, TypeOK, Commands, Drives
  <2>3. QED
    BY <1>5, <2>1, <2>2 DEF Arrive, TypeOK, Phases
<1>6. CASE Approach
  <2>1. "home" \in Commands
    BY DEF Commands
  <2>2. QED
    BY <1>1, <1>6, <2>1, SendFacts DEF Approach, TypeOK
<1>7. CASE Hold
  <2>1. "hold" \in Commands
    BY DEF Commands
  <2>2. QED
    BY <1>1, <1>7, <2>1, SendFacts DEF Hold, TypeOK
<1>8. QED
  BY <1>2, <1>3, <1>4, <1>5, <1>6, <1>7 DEF Drive

LEMMA DecideFacts ==
  ASSUME TypeOK, Decide
  PROVE  LET in == [manual |-> manual, sighted |-> frame = "sighted",
                    estimated |-> est, usable |-> usable]
         IN /\ in \in ControlInputs
            /\ phase' = StepControl(phase, age, in).phase
            /\ age' = StepControl(phase, age, in).age
            /\ leader' = StepControl(phase, age, in).leader
            /\ followers' = StepControl(phase, age, in).followers
  BY DEF TypeOK, OperatorTypeOK, Decide, ControlInputs

LEMMA SettingsAreFixed ==
  ASSUME [Next]_vars
  PROVE  driving' = driving /\ filterEnabled' = filterEnabled
<1> USE DEF settings
<1>1. CASE Tick
  BY <1>1 DEF Tick, Enter, ReadPose, Observe, StepFilter, Decide, Drive, EndTick
<1>2. CASE Exit \/ \E f \in FollowerGimbals : DriveFollower(f) \/ StopFollower(f)
  BY <1>2 DEF Exit, Leave, Finish, DriveFollower, StopFollower
<1>3. CASE Operate \/ Signal \/ Advance \/ \E kind \in Frames : Publish(kind)
  BY <1>3 DEF Operate, Signal, Advance, Publish
<1>4. CASE UNCHANGED vars
  BY <1>4 DEF vars
<1>5. QED
  BY <1>1, <1>2, <1>3, <1>4 DEF Next, Thread

(* Every variable of the loop, of the operator and of the channel keeps its *)
(* type, and every age stays within its bound.                              *)
THEOREM TypeCorrect == Spec => []TypeOK
<1>1. Init => TypeOK
  <2> SUFFICES ASSUME Init
               PROVE  TypeOK
    OBVIOUS
  <2>1. OperatorTypeOK
    <3>1. AtRest \in [direction : Directions \union {0}, age : 0 .. MoveTimeout]
      BY ManualAssumption DEF AtRest
    <3>2. QED
      BY <3>1 DEF Init, OperatorInit, OperatorTypeOK
  <2>2. AgeCap \in 0 .. AgeCap /\ 0 \in 0 .. AgeCap /\ 0 \in 0 .. StaleAfter
    BY LoopAssumption, ControlAssumption
  <2>3. /\ issued \in [Gimbals -> Commands]
        /\ drive \in [Gimbals -> Drives]
    BY DEF Init, Commands, Drives
  <2>4. QED
    BY <2>1, <2>2, <2>3
    DEF Init, TypeOK, Frames, Phases, LeaderActions, FollowerActions
<1>2. TypeOK /\ [Next]_vars => TypeOK'
  <2> SUFFICES ASSUME TypeOK, [Next]_vars
               PROVE  TypeOK'
    OBVIOUS
  <2>0. driving' = driving /\ filterEnabled' = filterEnabled
    BY SettingsAreFixed
  <2> USE <2>0 DEF operator, tickVars, filterVars, controlVars, motorVars
  <2>1. CASE Enter
    <3>1. /\ age' \in 0 .. AgeCap /\ sight' \in 0 .. AgeCap
          /\ elapsed' \in 0 .. AgeCap
      BY <2>1, SumFacts, LoopAssumption DEF Enter, TypeOK
    <3>2. poseRead' \in BOOLEAN /\ pc' \in {"pose", "observe"}
      BY <2>1 DEF Enter
    <3>3. poseAge' \in 0 .. StaleAfter
      BY <2>1, ControlAssumption DEF Enter
    <3>4. QED
      BY <2>1, <3>1, <3>2, <3>3 DEF Enter, TypeOK, OperatorTypeOK
  <2>1a. CASE ReadPose
    BY <2>1a DEF ReadPose, TypeOK, OperatorTypeOK
  <2>2. CASE Observe
    <3>1. usable' \in BOOLEAN
      BY <2>2 DEF Observe, TypeOK
    <3>2. /\ poses' \in BOOLEAN /\ track' \in BOOLEAN /\ timed' \in BOOLEAN
          /\ est' \in BOOLEAN /\ prediction' \in BOOLEAN
      BY <2>2 DEF Observe, DropEverything, TypeOK
    <3>3. QED
      BY <2>2, <3>1, <3>2 DEF Observe, TypeOK, OperatorTypeOK
  <2>3. CASE StepFilter
    <3>1. track' \in BOOLEAN /\ timed' \in BOOLEAN
      BY <2>3 DEF StepFilter, Untimely, Seed, Search, Follow, Coast, Lose, TypeOK
    <3>2. QED
      BY <2>3, <3>1 DEF StepFilter, TypeOK, OperatorTypeOK
  <2>4. CASE Decide
    <3>1. /\ phase' \in Phases /\ age' \in 0 .. AgeCap
          /\ leader' \in LeaderActions /\ followers' \in FollowerActions
      BY <2>4, DecideFacts, StepControlFacts DEF TypeOK
    <3>2. sight' \in 0 .. AgeCap
      BY <2>4, LoopAssumption DEF Decide, TypeOK
    <3>3. issued' \in [Gimbals -> Commands] /\ todo' \in SUBSET FollowerGimbals
      BY <2>4 DEF Decide, Commands
    <3>4. QED
      BY <2>4, <3>1, <3>2, <3>3 DEF Decide, TypeOK, OperatorTypeOK
  <2>5. CASE Drive
    BY <2>5, DriveFacts DEF Drive, TypeOK, OperatorTypeOK
  <2>6. ASSUME NEW f \in FollowerGimbals, DriveFollower(f) \/ StopFollower(f)
        PROVE  TypeOK'
    <3>1. f \in Gimbals /\ {"mirror", "hold", "stop"} \subseteq Commands
      BY DEF Gimbals, Commands
    <3>2. issued' \in [Gimbals -> Commands] /\ drive' \in [Gimbals -> Drives]
      BY <2>6, <3>1, SendFacts DEF DriveFollower, StopFollower
    <3>3. /\ todo' \in SUBSET FollowerGimbals
          /\ UNCHANGED <<operator, running, unread, pc, tickVars, filterVars, controlVars>>
      BY <2>6 DEF DriveFollower, StopFollower, TypeOK
    <3>4. QED
      BY <3>2, <3>3 DEF TypeOK, OperatorTypeOK
  <2>7. CASE EndTick
    BY <2>7 DEF EndTick, TypeOK, OperatorTypeOK
  <2>8. CASE Leave
    <3>1. Gimbal \in Gimbals /\ "stop" \in Commands
      BY DEF Gimbals, Commands
    <3>2. issued' \in [Gimbals -> Commands] /\ drive' \in [Gimbals -> Drives]
      <4>1. CASE driving
        BY <2>8, <3>1, <4>1, SendFacts DEF Leave
      <4>2. CASE ~driving
        BY <2>8, <4>2 DEF Leave, TypeOK
      <4>3. QED
        BY <4>1, <4>2
    <3>3. QED
      BY <2>8, <3>2 DEF Leave, TypeOK, OperatorTypeOK
  <2>9. CASE Finish
    <3>1. prediction' \in BOOLEAN /\ pc' = "done"
      BY <2>9 DEF Finish
    <3>2. QED
      BY <2>9, <3>1 DEF Finish, TypeOK, OperatorTypeOK
  <2>10. ASSUME NEW kind \in Frames, Publish(kind)
         PROVE  TypeOK'
    BY <2>10 DEF Publish, loopVars, TypeOK, OperatorTypeOK
  <2>11. CASE Operate
    <3>1. OperatorTypeOK'
      BY <2>11, ManualAssumption
      DEF Operate, SetMode, Move, OperatorTypeOK, AtRest, TypeOK
    <3>2. UNCHANGED <<running, unread, loopVars>>
      BY <2>11 DEF Operate
    <3>3. QED
      BY <3>1, <3>2 DEF loopVars, TypeOK
  <2>12. CASE Signal
    <3>1. running' \in BOOLEAN
      BY <2>12 DEF Signal
    <3>2. UNCHANGED <<operator, unread, loopVars>>
      BY <2>12 DEF Signal
    <3>3. QED
      BY <3>1, <3>2 DEF loopVars, TypeOK, OperatorTypeOK
  <2>13. CASE Advance
    <3>1. OperatorTypeOK'
      BY <2>13, ManualAssumption DEF Advance, AgeMoves, OperatorTypeOK, TypeOK
    <3>2. elapsed' \in 0 .. AgeCap /\ poseAge' \in 0 .. StaleAfter
      BY <2>13, SumFacts, ControlAssumption DEF Advance, TypeOK
    <3>3. QED
      BY <2>13, <3>1, <3>2 DEF Advance, TypeOK
  <2>14. CASE UNCHANGED vars
    BY <2>14 DEF vars, TypeOK, OperatorTypeOK
  <2>15. QED
    BY <2>1, <2>1a, <2>2, <2>3, <2>4, <2>5, <2>6, <2>7, <2>8, <2>9, <2>10, <2>11,
       <2>12, <2>13, <2>14
    DEF Next, Thread, Tick, Exit
<1>3. QED
  BY <1>1, <1>2, PTL DEF Spec
-----------------------------------------------------------------------------
(* The filter's life cycle. *)

(***************************************************************************)
(* The inductive form of NothingBridgesAPoseFault: the loop's estimate is  *)
(* always exactly the filter's track, and a frame is filtered only under a *)
(* usable pose.                                                            *)
(***************************************************************************)
FilterShape ==
  /\ est = track
  /\ pc # "done" => prediction = est
  /\ ~filterEnabled => ~est
  /\ pc = "filter" => usable /\ filterEnabled
  /\ pc \in {"decide", "drive", "follow"} /\ ~usable =>
       ~track /\ ~poses /\ ~est /\ ~prediction

LEMMA FilterShapeCorrect == Spec => []FilterShape
<1>1. Init => FilterShape
  BY DEF Init, FilterShape
<1>2. TypeOK /\ FilterShape /\ [Next]_vars => FilterShape'
  <2> SUFFICES ASSUME TypeOK, FilterShape, [Next]_vars
               PROVE  FilterShape'
    OBVIOUS
  <2>0. driving' = driving /\ filterEnabled' = filterEnabled
    BY SettingsAreFixed
  <2> USE <2>0 DEF FilterShape, operator, tickVars, filterVars, controlVars, motorVars
  <2>1. CASE Enter \/ ReadPose
    BY <2>1 DEF Enter, ReadPose, TypeOK
  <2>2. CASE Observe
    <3>1. usable' \in BOOLEAN
      BY <2>2 DEF Observe, TypeOK
    <3>2. CASE usable'
      BY <2>2, <3>2 DEF Observe, TypeOK, DropEverything
    <3>3. CASE ~usable'
      BY <2>2, <3>3 DEF Observe, TypeOK, DropEverything
    <3>4. QED
      BY <3>1, <3>2, <3>3
  <2>3. CASE StepFilter
    <3>1. track' \in BOOLEAN
      BY <2>3 DEF StepFilter, Untimely, Seed, Search, Follow, Coast, Lose, TypeOK
    <3>2. /\ est' = track' /\ prediction' = est' /\ pc' = "decide"
          /\ filterEnabled /\ usable /\ usable' = usable
      BY <2>3 DEF StepFilter
    <3>3. QED
      BY <3>1, <3>2
  <2>4. CASE Decide
    BY <2>4 DEF Decide, TypeOK
  <2>5. CASE Drive
    BY <2>5 DEF Drive, TypeOK
  <2>6. ASSUME NEW f \in FollowerGimbals, DriveFollower(f) \/ StopFollower(f)
        PROVE  FilterShape'
    <3>1. UNCHANGED <<pc, tickVars, filterVars>>
      BY <2>6 DEF DriveFollower, StopFollower
    <3>2. QED
      BY <3>1
  <2>7. CASE EndTick \/ Leave
    <3>1. pc \in {"follow", "top"} /\ pc' \in {"top", "leave"} /\ UNCHANGED filterVars
      BY <2>7 DEF EndTick, Leave
    <3>2. QED
      BY <3>1
  <2>8. CASE Finish
    BY <2>8 DEF Finish, TypeOK
  <2>9. CASE Operate \/ Signal \/ Advance \/ \E kind \in Frames : Publish(kind)
    <3>1. UNCHANGED <<pc, usable, filterVars>>
      BY <2>9 DEF Operate, Signal, Advance, Publish, loopVars
    <3>2. QED
      BY <3>1
  <2>10. CASE UNCHANGED vars
    BY <2>10 DEF vars
  <2>11. QED
    BY <2>1, <2>2, <2>3, <2>4, <2>5, <2>6, <2>7, <2>8, <2>9, <2>10
    DEF Next, Thread, Tick, Exit
<1>3. QED
  BY <1>1, <1>2, TypeCorrect, PTL DEF Spec

(* After a leader pose that is not usable, nothing of the track, the pose    *)
(* history, the estimate or the overlay's prediction is left.                *)
THEOREM PoseFaultCorrect == Spec => []NothingBridgesAPoseFault
<1>1. FilterShape => NothingBridgesAPoseFault
  BY DEF FilterShape, NothingBridgesAPoseFault
<1>2. QED
  BY <1>1, FilterShapeCorrect, PTL

-----------------------------------------------------------------------------
(* The way home. *)

(* What the leader's action says of the phase and the frame while it runs. *)
LeaderShape ==
  /\ AimOnlyWhileTracking
  /\ pc = "drive" =>
       /\ leader = "Manual" => phase = "Manual"
       /\ leader = "ReturnHome" => phase = "ReturningHome"
  /\ UnfilteredAimHasDetection

(***************************************************************************)
(* AimOnlyWhileTracking is not inductive: nothing in a state where the     *)
(* gimbal is coming home forbids the next decision to aim.                 *)
(* HomeMeansNoTarget does, and AtHomeMeansStill needs both, because it is  *)
(* the leader's action that could set a gimbal at home moving.             *)
(***************************************************************************)
HomeInv == LeaderShape /\ HomeMeansNoTarget /\ AtHomeMeansStill

LEMMA DecidePreservesHome ==
  ASSUME TypeOK, FilterShape, HomeInv, Decide
  PROVE  HomeInv'
<1> DEFINE in == [manual |-> manual, sighted |-> frame = "sighted",
                  estimated |-> est, usable |-> usable]
           d == StepControl(phase, age, in)
<1>1. in \in ControlInputs /\ phase \in Phases /\ age \in 0 .. AgeCap
  BY DecideFacts DEF TypeOK
<1>2. phase' = d.phase /\ age' = d.age /\ leader' = d.leader
  BY DecideFacts
<1>3. /\ pc = "decide" /\ pc' = "drive" /\ frame' = frame /\ est' = est
      /\ drive' = drive /\ driving' = driving /\ filterEnabled' = filterEnabled
  BY DEF Decide, tickVars, filterVars, settings
<1>4. in.manual = manual /\ in.sighted = (frame = "sighted") /\ in.estimated = est
  OBVIOUS
<1>5. /\ d.leader = "Aim" =>
           /\ ~in.manual /\ Aiming(d.age, in)
           /\ phase \in {"ReturningHome", "AtHome"} =>
                d.phase = "Tracking" \/ (d.age = age /\ ~in.sighted)
           /\ phase \notin {"ReturningHome", "AtHome"} => d.phase = "Tracking"
      /\ d.leader = "Manual" => d.phase = "Manual"
      /\ d.leader = "ReturnHome" => d.phase = "ReturningHome"
      /\ d.phase = "AtHome" => phase = "AtHome" /\ ~in.manual /\ ~in.sighted
      /\ d.phase \in {"ReturningHome", "AtHome"} =>
           \/ phase \in {"ReturningHome", "AtHome"} /\ d.age = age /\ ~in.sighted
           \/ ~in.manual /\ ~Aiming(d.age, in)
      /\ d.age \in 0 .. AgeCap
  BY <1>1, StepControlFacts DEF TypeOK
<1>6. Aiming(d.age, in) =>
        IF filterEnabled THEN est /\ d.age < StaleAfter ELSE frame = "sighted"
  BY <1>4 DEF Aiming
<1>7. ~in.manual /\ filterEnabled /\ est /\ d.age < StaleAfter => Aiming(d.age, in)
  BY <1>4 DEF Aiming
<1> HIDE DEF in, d
<1>8. d.leader = "Aim" => d.phase = "Tracking"
  <2>1. CASE phase \in {"ReturningHome", "AtHome"}
    <3>1. CASE filterEnabled
      <4>1. ~est \/ age >= StaleAfter \/ frame = "sighted"
        BY <2>1, <3>1 DEF HomeInv, HomeMeansNoTarget
      <4>2. SUFFICES ASSUME d.leader = "Aim", d.phase # "Tracking"
                     PROVE  FALSE
        OBVIOUS
      <4>3. d.age = age /\ ~in.sighted /\ Aiming(d.age, in)
        BY <1>5, <2>1, <4>2
      <4>4. est /\ d.age < StaleAfter /\ frame # "sighted"
        BY <1>4, <1>6, <3>1, <4>3
      <4>5. QED
        BY <1>1, <4>1, <4>3, <4>4, ControlAssumption
    <3>2. CASE ~filterEnabled
      BY <1>4, <1>5, <1>6, <2>1, <3>2
    <3>3. QED
      BY <3>1, <3>2
  <2>2. CASE phase \notin {"ReturningHome", "AtHome"}
    BY <1>5, <2>2
  <2>3. QED
    BY <2>1, <2>2
<1>9. LeaderShape'
  BY <1>2, <1>3, <1>5, <1>6, <1>8
  DEF LeaderShape, AimOnlyWhileTracking, UnfilteredAimHasDetection
<1>10. AtHomeMeansStill'
  BY <1>2, <1>3, <1>5 DEF HomeInv, AtHomeMeansStill
<1>11. HomeMeansNoTarget'
  <2> SUFFICES ASSUME filterEnabled, d.phase \in {"ReturningHome", "AtHome"}
               PROVE  ~est \/ d.age >= StaleAfter
    BY <1>2, <1>3 DEF HomeMeansNoTarget
  <2>1. CASE phase \in {"ReturningHome", "AtHome"} /\ d.age = age /\ ~in.sighted
    BY <1>3, <1>4, <2>1 DEF HomeInv, HomeMeansNoTarget
  <2>2. CASE ~in.manual /\ ~Aiming(d.age, in)
    BY <1>5, <1>7, <2>2, ControlAssumption
  <2>3. QED
    BY <1>5, <2>1, <2>2
<1>12. QED
  BY <1>9, <1>10, <1>11 DEF HomeInv

LEMMA HomeInvCorrect == Spec => []HomeInv
<1>1. Init => HomeInv
  BY DEF Init, HomeInv, LeaderShape, AimOnlyWhileTracking, UnfilteredAimHasDetection,
         HomeMeansNoTarget, AtHomeMeansStill
<1>2. TypeOK /\ FilterShape /\ HomeInv /\ [Next]_vars => HomeInv'
  <2> SUFFICES ASSUME TypeOK, FilterShape, HomeInv, [Next]_vars
               PROVE  HomeInv'
    OBVIOUS
  <2>0. driving' = driving /\ filterEnabled' = filterEnabled
    BY SettingsAreFixed
  <2> USE <2>0 DEF HomeInv, LeaderShape, AimOnlyWhileTracking, UnfilteredAimHasDetection,
              HomeMeansNoTarget, AtHomeMeansStill,
              operator, tickVars, filterVars, controlVars, motorVars
  <2>1. CASE Enter
    <3>1. age' >= age /\ age \in Nat /\ age' \in Nat
      BY <2>1, SumFacts DEF Enter, TypeOK
    <3>2. /\ pc' \in {"pose", "observe"} /\ pc = "top"
          /\ phase' = phase /\ est' = est /\ drive' = drive
      BY <2>1 DEF Enter
    <3>3. QED
      BY <3>1, <3>2, ControlAssumption
  <2>1a. CASE ReadPose
    BY <2>1a DEF ReadPose
  <2>2. CASE Observe
    <3>1. /\ pc = "observe" /\ pc' \in {"filter", "decide"}
          /\ phase' = phase /\ drive' = drive /\ age' = age
      BY <2>2 DEF Observe
    <3>2. est' = est \/ ~est'
      BY <2>2 DEF Observe, DropEverything
    <3>3. QED
      BY <3>1, <3>2
  <2>3. CASE StepFilter
    <3>1. /\ pc = "filter" /\ pc' = "decide" /\ phase' = phase /\ drive' = drive
          /\ age' = age /\ frame' = frame
      BY <2>3 DEF StepFilter
    <3>2. est' => est \/ frame = "sighted"
      BY <2>3 DEF StepFilter, Untimely, Seed, Search, Follow, Coast, Lose, TypeOK, FilterShape
    <3>3. QED
      BY <3>1, <3>2
  <2>4. CASE Decide
    BY <2>4, DecidePreservesHome
  <2>5. CASE Drive
    <3>1. /\ \/ phase' = phase
             \/ leader = "ReturnHome" /\ phase' = "AtHome" /\ drive'[Gimbal] = "still"
          /\ leader \in {"None", "Hold"} /\ drive[Gimbal] = "still" =>
               drive'[Gimbal] = "still"
      BY <2>5, DriveFacts
    <3>2. /\ pc = "drive" /\ pc' = "follow" /\ leader' = leader /\ age' = age
          /\ est' = est /\ leader \in LeaderActions
      BY <2>5 DEF Drive, TypeOK
    <3>3. phase = "AtHome" => leader \in {"None", "Hold"}
      BY <3>2 DEF LeaderActions
    <3>4. QED
      BY <3>1, <3>2, <3>3
  <2>6. ASSUME NEW f \in FollowerGimbals, DriveFollower(f) \/ StopFollower(f)
        PROVE  HomeInv'
    <3>1. f \in Gimbals /\ Gimbal \in Gimbals \ {f} /\ {"mirror", "hold", "stop"} \subseteq Commands
      BY LoopAssumption DEF Gimbals, Commands
    <3>2. drive'[Gimbal] = drive[Gimbal]
      BY <2>6, <3>1, SendFacts DEF DriveFollower, StopFollower
    <3>3. UNCHANGED <<pc, tickVars, filterVars, controlVars>>
      BY <2>6 DEF DriveFollower, StopFollower
    <3>4. QED
      BY <3>2, <3>3
  <2>7. CASE EndTick \/ Finish
    BY <2>7 DEF EndTick, Finish
  <2>8. CASE Leave
    <3>1. Gimbal \in Gimbals /\ "stop" \in Commands
      BY DEF Gimbals, Commands
    <3>2. drive[Gimbal] = "still" => drive'[Gimbal] = "still"
      <4>1. CASE driving
        BY <2>8, <3>1, <4>1, SendFacts DEF Leave
      <4>2. CASE ~driving
        BY <2>8, <4>2 DEF Leave
      <4>3. QED
        BY <4>1, <4>2
    <3>3. QED
      BY <2>8, <3>2 DEF Leave
  <2>9. CASE Operate \/ Signal \/ Advance \/ \E kind \in Frames : Publish(kind)
    <3>1. UNCHANGED <<pc, frame, filterVars, controlVars, motorVars>>
      BY <2>9 DEF Operate, Signal, Advance, Publish, loopVars
    <3>2. QED
      BY <3>1
  <2>10. CASE UNCHANGED vars
    BY <2>10 DEF vars
  <2>11. QED
    BY <2>1, <2>1a, <2>2, <2>3, <2>4, <2>5, <2>6, <2>7, <2>8, <2>9, <2>10
    DEF Next, Thread, Tick, Exit
<1>3. QED
  BY <1>1, <1>2, TypeCorrect, FilterShapeCorrect, PTL DEF Spec

(* On the way home and at home there is no estimate young enough to aim by. *)
THEOREM HomeCorrect == Spec => []HomeMeansNoTarget
BY HomeInvCorrect, PTL DEF HomeInv

(* The leader is aimed in phase Tracking and in no other. *)
THEOREM AimCorrect == Spec => []AimOnlyWhileTracking
BY HomeInvCorrect, PTL DEF HomeInv, LeaderShape

(* AtHome is not entered or kept while the leader is left moving. *)
THEOREM ArrivalCorrect == Spec => []AtHomeMeansStill
BY HomeInvCorrect, PTL DEF HomeInv

(* Unfiltered aiming never dereferences an empty detection. *)
THEOREM UnfilteredAimCorrect == Spec => []UnfilteredAimHasDetection
BY HomeInvCorrect, PTL DEF HomeInv, LeaderShape

-----------------------------------------------------------------------------
(* Every gimbal is commanded, and stopped at the end. *)

(***************************************************************************)
(* Whoever is not among those still to be driven has been: with a command  *)
(* of this tick, or with the last zero.  The leader's turn comes only with *)
(* a decision that commands it, and to aim there must be a track.          *)
(***************************************************************************)
CommandInv ==
  /\ driving /\ pc = "drive" =>
       /\ leader # "None" /\ todo = FollowerGimbals
       /\ leader = "Aim" /\ filterEnabled => est
  /\ driving /\ pc = "follow" => \A m \in Gimbals \ todo : issued[m] # "none"
  /\ driving /\ pc = "leave" => \A m \in Gimbals \ todo : issued[m] = "stop"
  /\ DoneMeansStopped

LEMMA SendIssues ==
  ASSUME TypeOK, NEW m \in Gimbals, NEW c, NEW moving, Send(m, c, moving)
  PROVE  issued'[m] = c /\ \A n \in Gimbals \ {m} : issued'[n] = issued[n]
BY DEF Send, TypeOK

LEMMA GroupFacts == Gimbal \in Gimbals /\ FollowerGimbals = Gimbals \ {Gimbal}
BY LoopAssumption DEF Gimbals

LEMMA DecideCommands ==
  ASSUME TypeOK, Decide, driving
  PROVE  /\ leader' # "None" /\ todo' = FollowerGimbals
         /\ leader' = "Aim" /\ filterEnabled => est
<1> DEFINE in == [manual |-> manual, sighted |-> frame = "sighted",
                  estimated |-> est, usable |-> usable]
           d == StepControl(phase, age, in)
<1>1. /\ in \in ControlInputs /\ phase \in Phases /\ age \in 0 .. AgeCap
      /\ leader' = d.leader /\ followers' = d.followers
  BY DecideFacts DEF TypeOK
<1>2. d.leader # "None"
  <2>1. d.leader = Leader(PhaseAfterInput(phase, in), AgeAfterInput(age, in), in)
    BY DEF StepControl
  <2>2. ASSUME NEW p, NEW a  PROVE Leader(p, a, in) # "None"
    <3>1. CASE ~in.usable
      BY <3>1, Zenon DEF Leader
    <3>2. CASE in.usable /\ in.manual
      BY <3>2, Zenon DEF Leader
    <3>3. CASE in.usable /\ ~in.manual
      BY <3>3 DEF Leader
    <3>4. QED
      BY <3>1, <3>2, <3>3
  <2>3. QED
    BY <2>1, <2>2
<1>3. d.leader = "Aim" => Aiming(d.age, in)
  BY <1>1, StepControlFacts DEF TypeOK
<1>4. d.leader = "Aim" /\ filterEnabled => est
  BY <1>3 DEF Aiming
<1>5. d.followers # "None"
  <2>1. d.followers = Followers(in)
    BY DEF StepControl
  <2>2. CASE in.usable
    BY <2>1, <2>2, Zenon DEF Followers
  <2>3. CASE ~in.usable
    BY <2>1, <2>3, Zenon DEF Followers
  <2>4. QED
    BY <2>2, <2>3
<1>6. todo' = FollowerGimbals
  <2>1. todo' = IF followers' = "None" THEN {} ELSE FollowerGimbals
    BY DEF Decide
  <2> HIDE DEF d
  <2>2. QED
    BY <1>1, <1>5, <2>1
<1> HIDE DEF d
<1>7. QED
  BY <1>1, <1>2, <1>4, <1>6

LEMMA DriveCommands ==
  ASSUME TypeOK, FilterShape, CommandInv, Drive, driving
  PROVE  issued'[Gimbal] # "none"
<1>1. /\ Gimbal \in Gimbals /\ leader # "None" /\ track = est
      /\ leader = "Aim" /\ filterEnabled => est
  BY GroupFacts DEF CommandInv, Drive, FilterShape
<1>2. CASE Aim
  BY <1>1, <1>2, SendIssues DEF Aim
<1>3. CASE DriveManually
  <2>1. PICK moving : Send(Gimbal, "manual", moving)
    BY <1>3 DEF DriveManually
  <2>2. QED
    BY <1>1, <2>1, SendIssues
<1>4. CASE Arrive
  BY <1>1, <1>4 DEF Arrive, TypeOK
<1>5. CASE Approach
  BY <1>1, <1>5, SendIssues DEF Approach
<1>6. CASE Hold
  BY <1>1, <1>6, SendIssues DEF Hold
<1>7. QED
  BY <1>1, <1>2, <1>3, <1>4, <1>5, <1>6 DEF Drive, NoCommand

LEMMA CommandInvCorrect == Spec => []CommandInv
<1>1. Init => CommandInv
  BY DEF Init, CommandInv, DoneMeansStopped
<1>2. TypeOK /\ FilterShape /\ CommandInv /\ [Next]_vars => CommandInv'
  <2> SUFFICES ASSUME TypeOK, FilterShape, CommandInv, [Next]_vars
               PROVE  CommandInv'
    OBVIOUS
  <2>0. driving' = driving /\ filterEnabled' = filterEnabled
    BY SettingsAreFixed
  <2> USE <2>0, GroupFacts
          DEF CommandInv, DoneMeansStopped, tickVars, filterVars, controlVars, motorVars
  <2>1. CASE Enter \/ ReadPose \/ Observe \/ StepFilter
    <3>1. pc' \in {"pose", "observe", "filter", "decide"}
      BY <2>1 DEF Enter, ReadPose, Observe, StepFilter
    <3>2. QED
      BY <3>1
  <2>2. CASE Decide
    <3>1. pc' = "drive" /\ est' = est
      BY <2>2 DEF Decide
    <3>2. QED
      BY <2>2, <3>1, DecideCommands
  <2>3. CASE Drive
    <3>1. pc = "drive" /\ pc' = "follow" /\ todo' = todo
      BY <2>3 DEF Drive
    <3>2. driving => issued'[Gimbal] # "none" /\ todo = FollowerGimbals
      BY <2>3, <3>1, DriveCommands
    <3>3. QED
      BY <3>1, <3>2
  <2>4. ASSUME NEW f \in FollowerGimbals, DriveFollower(f)  PROVE CommandInv'
    <3>1. /\ pc = "follow" /\ pc' = pc /\ f \in Gimbals /\ todo' = todo \ {f}
          /\ \E c \in {"mirror", "hold"}, moving \in BOOLEAN : Send(f, c, moving)
      BY <2>4 DEF DriveFollower
    <3>2. issued'[f] # "none" /\ \A n \in Gimbals \ {f} : issued'[n] = issued[n]
      BY <3>1, SendIssues
    <3>3. QED
      BY <3>1, <3>2
  <2>5. ASSUME NEW f \in FollowerGimbals, StopFollower(f)  PROVE CommandInv'
    <3>1. /\ pc = "leave" /\ pc' = pc /\ f \in Gimbals /\ todo' = todo \ {f}
          /\ Send(f, "stop", FALSE)
      BY <2>5 DEF StopFollower
    <3>2. issued'[f] = "stop" /\ \A n \in Gimbals \ {f} : issued'[n] = issued[n]
      BY <3>1, SendIssues
    <3>3. QED
      BY <3>1, <3>2
  <2>6. CASE EndTick
    BY <2>6 DEF EndTick
  <2>7. CASE Leave
    <3>1. pc' = "leave" /\ (driving => todo' = FollowerGimbals /\ Send(Gimbal, "stop", FALSE))
      BY <2>7 DEF Leave
    <3>2. driving => issued'[Gimbal] = "stop"
      BY <3>1, SendIssues
    <3>3. QED
      BY <3>1, <3>2
  <2>8. CASE Finish
    BY <2>8 DEF Finish
  <2>9. CASE Operate \/ Signal \/ Advance \/ \E kind \in Frames : Publish(kind)
    <3>1. UNCHANGED <<pc, est, prediction, leader, todo, issued>>
      BY <2>9 DEF Operate, Signal, Advance, Publish, loopVars
    <3>2. QED
      BY <3>1
  <2>10. CASE UNCHANGED vars
    BY <2>10 DEF vars
  <2>11. QED
    BY <2>1, <2>2, <2>3, <2>4, <2>5, <2>6, <2>7, <2>8, <2>9, <2>10
    DEF Next, Thread, Tick, Exit
<1>3. QED
  BY <1>1, <1>2, TypeCorrect, FilterShapeCorrect, PTL DEF Spec

(* A finished thread has sent every gimbal of its group the last zero, and   *)
(* its prediction is off the overlay.                                       *)
THEOREM DoneCorrect == Spec => []DoneMeansStopped
BY CommandInvCorrect, PTL DEF CommandInv

(* No tick that drives ends without a command to every gimbal of the group. *)
THEOREM TickCorrect == Spec => EveryTickCommands
<1>1. TypeOK /\ CommandInv /\ [Next]_vars =>
        [driving /\ pc = "follow" /\ pc' = "top" => \A m \in Gimbals : issued[m] # "none"]_vars
  <2> SUFFICES ASSUME TypeOK, CommandInv, [Next]_vars, driving, pc = "follow", pc' = "top",
                      NEW m \in Gimbals
               PROVE  issued[m] # "none"
    OBVIOUS
  <2>1. EndTick
    BY DEF Next, Thread, Tick, Exit, Enter, ReadPose, Observe, StepFilter, Decide, Drive, Leave,
           Finish, DriveFollower, StopFollower, Operate, Signal, Advance, Publish, loopVars, vars
  <2>2. QED
    BY <2>1 DEF EndTick, CommandInv
<1>2. QED
  BY <1>1, TypeCorrect, CommandInvCorrect, PTL DEF Spec, EveryTickCommands

-----------------------------------------------------------------------------
(* What may set a gimbal moving. *)

(***************************************************************************)
(* A pose taken as usable was read and young at the end of the wait; a     *)
(* decision that lets a gimbal move was taken on a usable pose, and the    *)
(* pose stays so until the tick is over; an axis that a key asks to move   *)
(* was asked in the spell of manual mode that lasts.                       *)
(***************************************************************************)
PoseWasYoung ==
  pc \in {"filter", "decide", "drive", "follow"} /\ driving /\ usable =>
    poseRead /\ poseAge < StaleAfter

MotionNeedsPose ==
  pc \in {"drive", "follow"} =>
    /\ leader \notin {"None", "Hold"} => driving /\ usable
    /\ followers = "Mirror" => driving /\ usable

KeysAreOfThisSpell ==
  \A a \in Axes : axis[a].direction # 0 => manual /\ a \in pressed

MotionInv == PoseWasYoung /\ MotionNeedsPose /\ KeysAreOfThisSpell

(* An unusable pose holds the leader and the followers: nothing moves on it, *)
(* and without motors nothing is asked of them.                             *)
LEMMA DecideNeedsPose ==
  ASSUME TypeOK, Decide
  PROVE  /\ leader' \notin {"None", "Hold"} => driving /\ usable
         /\ followers' = "Mirror" => driving /\ usable
<1> DEFINE in == [manual |-> manual, sighted |-> frame = "sighted",
                  estimated |-> est, usable |-> usable]
           p == PhaseAfterInput(phase, in)
           a == AgeAfterInput(age, in)
<1>1. in.usable = usable /\ driving \in BOOLEAN /\ usable \in BOOLEAN
  BY DEF TypeOK
<1>2. leader' = Leader(p, a, in) /\ followers' = Followers(in)
  BY DecideFacts DEF StepControl
<1> HIDE DEF in, p, a
<1>3. ASSUME ~(driving /\ usable)
      PROVE  /\ Leader(p, a, in) \in {"None", "Hold"}
             /\ Followers(in) # "Mirror"
  <2>1. CASE driving
    <3>1. Leader(p, a, in) = "Hold"
      BY <1>1, <1>3, <2>1, Zenon DEF Leader
    <3>2. Followers(in) = "Hold"
      BY <1>1, <1>3, <2>1, Zenon DEF Followers
    <3>3. QED
      BY <3>1, <3>2
  <2>2. CASE ~driving
    <3>1. Leader(p, a, in) = "None"
      BY <2>2, Zenon DEF Leader
    <3>2. Followers(in) = "None"
      BY <2>2, Zenon DEF Followers
    <3>3. QED
      BY <3>1, <3>2
  <2>3. QED
    BY <2>1, <2>2
<1>4. QED
  BY <1>2, <1>3

(* No action of the thread, of the camera or of the signal touches the      *)
(* operator's state.                                                        *)
LEMMA OperatorIsApart ==
  ASSUME Thread \/ Signal \/ \E kind \in Frames : Publish(kind)
  PROVE  manual' = manual /\ axis' = axis /\ pressed' = pressed
<1> USE DEF operator
<1>1. CASE Tick
  BY <1>1 DEF Tick, Enter, ReadPose, Observe, StepFilter, Decide, Drive, EndTick
<1>2. CASE Exit \/ \E f \in FollowerGimbals : DriveFollower(f) \/ StopFollower(f)
  BY <1>2 DEF Exit, Leave, Finish, DriveFollower, StopFollower
<1>3. CASE Signal \/ \E kind \in Frames : Publish(kind)
  BY <1>3 DEF Signal, Publish
<1>4. QED
  BY <1>1, <1>2, <1>3 DEF Thread

(* Whatever the operator does and however the time passes, only a key that  *)
(* was pressed since the mode last changed asks for motion.                 *)
LEMMA OldKeysAreForgotten ==
  ASSUME TypeOK, KeysAreOfThisSpell, Operate \/ Advance
  PROVE  KeysAreOfThisSpell'
<1>1. ASSUME NEW mode \in BOOLEAN, SetMode(mode)
      PROVE  KeysAreOfThisSpell'
  BY <1>1 DEF SetMode, AtRest, KeysAreOfThisSpell
<1>2. ASSUME NEW a \in Axes, NEW d \in Directions, Move(a, d)
      PROVE  KeysAreOfThisSpell'
  <2>1. manual /\ manual' /\ pressed' = pressed \union {a}
    BY <1>2 DEF Move
  <2>2. \A b \in Axes \ {a} : axis'[b] = axis[b]
    BY <1>2 DEF Move, TypeOK, OperatorTypeOK
  <2>3. QED
    BY <2>1, <2>2 DEF KeysAreOfThisSpell
<1>3. CASE Advance
  <2>1. \A a \in Axes : axis'[a].direction = axis[a].direction
    BY <1>3 DEF Advance, AgeMoves, TypeOK, OperatorTypeOK
  <2>2. manual' = manual /\ pressed' = pressed
    BY <1>3 DEF Advance, AgeMoves
  <2>3. QED
    BY <2>1, <2>2 DEF KeysAreOfThisSpell
<1>4. QED
  BY <1>1, <1>2, <1>3 DEF Operate

LEMMA MotionInvCorrect == Spec => []MotionInv
<1>1. Init => MotionInv
  BY DEF Init, OperatorInit, AtRest, MotionInv, PoseWasYoung, MotionNeedsPose,
         KeysAreOfThisSpell
<1>2. TypeOK /\ MotionInv /\ [Next]_vars => MotionInv'
  <2> SUFFICES ASSUME TypeOK, MotionInv, [Next]_vars
               PROVE  MotionInv'
    OBVIOUS
  <2>0. driving' = driving
    BY SettingsAreFixed
  <2>1. KeysAreOfThisSpell'
    <3>1. CASE Operate \/ Advance
      BY <3>1, OldKeysAreForgotten DEF MotionInv
    <3>2. CASE Thread \/ Signal \/ \E kind \in Frames : Publish(kind)
      BY <3>2, OperatorIsApart DEF MotionInv, KeysAreOfThisSpell
    <3>3. CASE UNCHANGED vars
      BY <3>3 DEF vars, operator, MotionInv, KeysAreOfThisSpell
    <3>4. QED
      BY <3>1, <3>2, <3>3 DEF Next
  <2>2. MotionNeedsPose'
    <3> USE <2>0 DEF tickVars, controlVars, MotionInv, MotionNeedsPose
    <3>1. CASE Decide
      <4>1. usable' = usable
        BY <3>1 DEF Decide
      <4>2. QED
        BY <3>1, <4>1, DecideNeedsPose
    <3>2. CASE Drive
      BY <3>2 DEF Drive
    <3>3. CASE Enter \/ ReadPose \/ Observe \/ StepFilter \/ EndTick \/ Exit
      <4>1. pc' \in {"pose", "observe", "filter", "decide", "top", "leave", "done"}
        BY <3>3 DEF Enter, ReadPose, Observe, StepFilter, EndTick, Exit, Leave, Finish
      <4>2. QED
        BY <4>1
    <3>4. CASE \E f \in FollowerGimbals : DriveFollower(f) \/ StopFollower(f)
      <4>1. UNCHANGED <<pc, usable, leader, followers>>
        BY <3>4 DEF DriveFollower, StopFollower
      <4>2. QED
        BY <4>1
    <3>5. CASE Operate \/ Signal \/ Advance \/ \E kind \in Frames : Publish(kind)
      <4>1. UNCHANGED <<pc, usable, leader, followers>>
        BY <3>5 DEF Operate, Signal, Advance, Publish, loopVars
      <4>2. QED
        BY <4>1
    <3>6. CASE UNCHANGED vars
      BY <3>6 DEF vars
    <3>7. QED
      BY <3>1, <3>2, <3>3, <3>4, <3>5, <3>6 DEF Next, Thread, Tick
  <2>3. PoseWasYoung'
    <3> USE <2>0 DEF tickVars, MotionInv, PoseWasYoung
    <3>1. CASE Observe
      BY <3>1 DEF Observe
    <3>2. CASE StepFilter \/ Decide \/ Drive
      BY <3>2 DEF StepFilter, Decide, Drive
    <3>3. CASE Enter \/ ReadPose \/ EndTick \/ Exit
      <4>1. pc' \in {"pose", "observe", "top", "leave", "done"}
        BY <3>3 DEF Enter, ReadPose, EndTick, Exit, Leave, Finish
      <4>2. QED
        BY <4>1
    <3>4. CASE \E f \in FollowerGimbals : DriveFollower(f) \/ StopFollower(f)
      <4>1. UNCHANGED <<pc, tickVars>>
        BY <3>4 DEF DriveFollower, StopFollower
      <4>2. QED
        BY <4>1
    <3>5. CASE Advance
      <4>1. UNCHANGED <<pc, usable, poseRead>>
        BY <3>5 DEF Advance
      <4>2. pc # "observe" => poseAge' = poseAge
        BY <3>5 DEF Advance
      <4>3. QED
        BY <4>1, <4>2
    <3>6. CASE Operate \/ Signal \/ \E kind \in Frames : Publish(kind)
      BY <3>6 DEF Operate, Signal, Publish, loopVars
    <3>7. CASE UNCHANGED vars
      BY <3>7 DEF vars
    <3>8. QED
      BY <3>1, <3>2, <3>3, <3>4, <3>5, <3>6, <3>7 DEF Next, Thread, Tick
  <2>4. QED
    BY <2>1, <2>2, <2>3 DEF MotionInv
<1>3. QED
  BY <1>1, <1>2, TypeCorrect, PTL DEF Spec

(* Only a turn of the leader or of a follower moves anything, and a command *)
(* of zero moves nothing that stands.                                       *)
LEMMA MotionComesFromACommand ==
  ASSUME TypeOK, [Next]_vars,
         NEW m \in Gimbals, drive[m] = "still", drive'[m] = "moving"
  PROVE  \/ /\ m = Gimbal /\ Drive /\ leader \notin {"None", "Hold"}
            /\ DriveManually => \E a \in Axes : Command(a) # 0
         \/ m # Gimbal /\ pc = "follow" /\ followers = "Mirror"
<1> USE GroupFacts DEF motorVars
<1>1. CASE Drive
  <2>1. drive' # drive
    OBVIOUS
  <2>2. m = Gimbal
    <3>1. SUFFICES ASSUME m # Gimbal  PROVE drive'[m] = drive[m]
      OBVIOUS
    <3>2. ASSUME NEW c, NEW moving, Send(Gimbal, c, moving)
          PROVE  drive'[m] = drive[m]
      BY <3>1, <3>2 DEF Send, TypeOK
    <3>3. CASE Arrive
      BY <3>1, <3>3 DEF Arrive, TypeOK
    <3>4. CASE NoCommand \/ Aim \/ DriveManually \/ Approach \/ Hold
      BY <3>2, <3>4, Zenon DEF NoCommand, Aim, DriveManually, Approach, Hold
    <3>5. QED
      BY <1>1, <3>3, <3>4 DEF Drive
  <2>3. leader \notin {"None", "Hold"}
    BY <1>1, <2>2, DriveFacts
  <2>4. ASSUME DriveManually  PROVE \E a \in Axes : Command(a) # 0
    <3>1. "manual" \in Commands /\ (\E a \in Axes : Command(a) # 0) \in BOOLEAN
      BY DEF Commands
    <3>2. Send(Gimbal, "manual", \E a \in Axes : Command(a) # 0)
      BY <2>4 DEF DriveManually
    <3>3. QED
      BY <2>2, <3>1, <3>2, SendFacts
  <2>5. QED
    BY <1>1, <2>2, <2>3, <2>4
<1>2. ASSUME NEW f \in FollowerGimbals, DriveFollower(f)
      PROVE  m # Gimbal /\ pc = "follow" /\ followers = "Mirror"
  <2>1. f \in Gimbals /\ {"mirror", "hold"} \subseteq Commands
    BY DEF Commands
  <2>2. CASE followers = "Mirror" /\ Send(f, "mirror", TRUE)
    <3>1. m = f
      BY <2>1, <2>2, SendFacts
    <3>2. QED
      BY <1>2, <2>2, <3>1 DEF DriveFollower
  <2>3. CASE Send(f, "hold", FALSE)
    BY <2>1, <2>3, SendFacts
  <2>4. QED
    BY <1>2, <2>2, <2>3 DEF DriveFollower
<1>3. ASSUME NEW f \in FollowerGimbals, StopFollower(f)
      PROVE  FALSE
  <2>1. f \in Gimbals /\ "stop" \in Commands /\ Send(f, "stop", FALSE)
    BY <1>3 DEF Commands, StopFollower
  <2>2. QED
    BY <2>1, SendFacts
<1>4. CASE Leave
  <2>1. Gimbal \in Gimbals /\ "stop" \in Commands
    BY DEF Commands
  <2>2. Send(Gimbal, "stop", FALSE) \/ drive' = drive
    BY <1>4 DEF Leave
  <2>3. QED
    BY <2>1, <2>2, SendFacts
<1>5. CASE Enter \/ ReadPose \/ Observe \/ StepFilter \/ Decide \/ EndTick \/ Finish
  BY <1>5 DEF Enter, ReadPose, Observe, StepFilter, Decide, EndTick, Finish
<1>6. CASE Operate \/ Signal \/ Advance \/ \E kind \in Frames : Publish(kind)
  BY <1>6 DEF Operate, Signal, Advance, Publish, loopVars
<1>7. CASE UNCHANGED vars
  BY <1>7 DEF vars
<1>8. QED
  BY <1>1, <1>2, <1>3, <1>4, <1>5, <1>6, <1>7 DEF Next, Thread, Tick, Exit

(* No gimbal that stands still, leader or follower, is set moving in a tick  *)
(* whose leader pose was not read, or was old when the wait was over.       *)
THEOREM FreshPoseCorrect == Spec => MotionStartsOnFreshPose
<1>1. TypeOK /\ MotionInv /\ [Next]_vars =>
        [\A m \in Gimbals :
           drive[m] = "still" /\ drive'[m] = "moving" => poseRead /\ poseAge < StaleAfter]_vars
  <2> SUFFICES ASSUME TypeOK, MotionInv, [Next]_vars,
                      NEW m \in Gimbals, drive[m] = "still", drive'[m] = "moving"
               PROVE  poseRead /\ poseAge < StaleAfter
    OBVIOUS
  <2>1. CASE Drive /\ leader \notin {"None", "Hold"}
    BY <2>1 DEF Drive, MotionInv, MotionNeedsPose, PoseWasYoung
  <2>2. CASE pc = "follow" /\ followers = "Mirror"
    BY <2>2 DEF MotionInv, MotionNeedsPose, PoseWasYoung
  <2>3. QED
    BY <2>1, <2>2, MotionComesFromACommand
<1>2. QED
  BY <1>1, TypeCorrect, MotionInvCorrect, PTL DEF Spec, MotionStartsOnFreshPose

(* Whatever mode the tick decided on, the keys that move the gimbal are of   *)
(* the spell of manual mode that lasts when they are read.                  *)
THEOREM KeysCorrect == Spec => KeysActOnlyInManual
<1>1. TypeOK /\ MotionInv /\ [Next]_vars =>
        [pc = "drive" /\ pc' = "follow" /\ leader = "Manual" =>
           /\ \A a \in Axes : Command(a) # 0 => manual /\ a \in pressed
           /\ drive[Gimbal] = "still" /\ drive'[Gimbal] = "moving" =>
                \E a \in pressed : Command(a) # 0]_vars
  <2> SUFFICES ASSUME TypeOK, MotionInv, [Next]_vars, leader = "Manual"
               PROVE  /\ \A a \in Axes : Command(a) # 0 => manual /\ a \in pressed
                      /\ drive[Gimbal] = "still" /\ drive'[Gimbal] = "moving" =>
                           \E a \in pressed : Command(a) # 0
    OBVIOUS
  <2>1. ASSUME NEW a \in Axes, Command(a) # 0
        PROVE  manual /\ a \in pressed
    <3>1. axis[a].direction # 0
      BY <2>1 DEF Command
    <3>2. QED
      BY <3>1 DEF MotionInv, KeysAreOfThisSpell
  <2>2. ASSUME drive[Gimbal] = "still", drive'[Gimbal] = "moving"
        PROVE  \E a \in pressed : Command(a) # 0
    <3>1. /\ Drive
          /\ DriveManually => \E a \in Axes : Command(a) # 0
      BY <2>2, GroupFacts, MotionComesFromACommand
    <3>2. DriveManually
      BY <2>2, <3>1 DEF Drive, NoCommand, Aim, Arrive, Approach, Hold
    <3>3. PICK a \in Axes : Command(a) # 0
      BY <3>1, <3>2
    <3>4. QED
      BY <2>1, <3>3
  <2>3. QED
    BY <2>1, <2>2
<1>2. QED
  BY <1>1, TypeCorrect, MotionInvCorrect, PTL DEF Spec, KeysActOnlyInManual
=============================================================================
