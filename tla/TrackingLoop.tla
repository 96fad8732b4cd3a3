---------------------------- MODULE TrackingLoop ----------------------------
(***************************************************************************)
(* One tracking thread: the lambda main.cpp starts for a leader gimbal     *)
(* (src/main.cpp:203-519), with the filter's track life cycle, the         *)
(* decision of ControlPhase, the operator of ManualControl, the camera     *)
(* that fills the thread's channel, and the followers it drives.           *)
(*                                                                         *)
(* The channel is the broadcast ObservationChannel implements: the newest  *)
(* unread frame, overwritten by the camera.  A motor call is one step,     *)
(* because each holds the bus lock throughout (MotorBus refines it); what  *)
(* the bus or a soft limit makes of a command is a choice, and only        *)
(* whether a gimbal is left moving is kept.  A frame is "empty" or         *)
(* "sighted"; whether the gate accepts its detection, the tracker seeds on *)
(* it, its timestamp moves forward or the coast time runs out is a choice. *)
(*                                                                         *)
(* Time passes between any two steps.  elapsed counts from the tick's      *)
(* entry, age and sight are as of that entry, and all saturate at AgeCap.  *)
(* poseAge counts from the reading of the pose to the end of the wait for  *)
(* a frame, and stays at what the check there found.                       *)
(***************************************************************************)
EXTENDS ManualControl, ControlPhase

CONSTANTS
  Gimbal,           (* the leader                                           *)
  FollowerGimbals,  (* the gimbals that mirror it                           *)
  AgeCap            (* ages beyond both thresholds are not told apart       *)

ASSUME LoopAssumption ==
  /\ Gimbal \notin FollowerGimbals
  /\ AgeCap \in Nat /\ AgeCap > StaleAfter /\ AgeCap > HomeDelay

VARIABLES
  running,      (* cleared by the signal handler                            *)
  unread,       (* the channel: the newest frame this thread has not read   *)
  pc,
  elapsed,      (* time since this tick's entry                             *)
  frame,        (* opt: the frame this tick read, or "none"                 *)
  poseRead,     (* get_position succeeded on both axes                      *)
  poseAge,      (* the age of the older axis's reading, up to StaleAfter    *)
  usable,       (* tick_rec.pose_usable                                     *)
  poses,        (* the pose history holds samples                           *)
  track,        (* filter.initialized                                       *)
  timed,        (* filter.last_time_s > 0                                   *)
  est,          (* the loop's estimate has a value                          *)
  prediction,   (* the overlay's slot for this gimbal is filled             *)
  phase,        (* control.phase                                            *)
  age,          (* this tick's entry minus control.last_detection_ns        *)
  leader,       (* decision.leader                                          *)
  followers,    (* decision.followers                                       *)
  todo,         (* followers still to be driven this tick                   *)
  issued,       (* history: what each gimbal was last commanded to do        *)
  drive,        (* whether each gimbal has been left moving                 *)
  sight         (* history: this tick's entry minus the last sighting       *)

filterVars == <<poses, track, timed, est, prediction>>
controlVars == <<phase, age, leader, followers, sight>>
motorVars == <<todo, issued, drive>>
tickVars == <<elapsed, frame, poseRead, poseAge, usable>>
vars == <<settings, operator, running, unread, pc, tickVars, filterVars, controlVars, motorVars>>

Gimbals == {Gimbal} \union FollowerGimbals
Frames == {"empty", "sighted"}
Commands == {"none", "aim", "manual", "home", "mirror", "hold", "stop"}
Drives == {"still", "moving"}
Sum(a, b) == IF a + b < AgeCap THEN a + b ELSE AgeCap

Init ==
  /\ driving \in BOOLEAN
  /\ filterEnabled \in BOOLEAN
  /\ OperatorInit
  /\ running = TRUE
  /\ unread = "none"
  /\ pc = "top"
  /\ elapsed = 0 /\ frame = "none"
  /\ poseRead = FALSE /\ poseAge = 0 /\ usable = FALSE
  /\ poses = FALSE /\ track = FALSE /\ timed = FALSE /\ est = FALSE
  /\ prediction = FALSE
  /\ phase = "Tracking" /\ age = 0
  /\ leader = "None" /\ followers = "None"
  /\ todo = {}
  /\ issued = [m \in Gimbals |-> "none"]
  /\ drive = [m \in Gimbals |-> "still"]
  /\ sight = AgeCap

-----------------------------------------------------------------------------
(* The motors, as this thread sees them. *)

(* What a command can leave behind.  A zero that fails leaves an axis as it *)
(* was; a velocity can be limited to zero or fail and be stopped.           *)
Outcomes(m, moving) == IF moving THEN Drives ELSE {"still", drive[m]}

Send(m, command, moving) ==
  /\ issued' = [issued EXCEPT ![m] = command]
  /\ \E d \in Outcomes(m, moving) : drive' = [drive EXCEPT ![m] = d]

-----------------------------------------------------------------------------
(* Mutants of the actions below. *)

(* The loop does not look at the running flag. *)
EnterAlways ==
  /\ pc = "top"
  /\ age' = Sum(age, elapsed)
  /\ sight' = Sum(sight, elapsed)
  /\ elapsed' = 0
  /\ frame' = "none" /\ poseRead' = FALSE /\ poseAge' = 0
  /\ pc' = IF driving THEN "pose" ELSE "observe"
  /\ UNCHANGED <<settings, operator, running, unread, usable, filterVars, phase, leader,
                 followers, motorVars>>

(* What was read before the wait is not looked at again after it. *)
ObserveWithoutRecheck ==
  /\ pc = "observe"
  /\ frame' = unread
  /\ unread' = "none"
  /\ usable' = (driving => poseRead)
  /\ poses' = (usable' /\ (poses \/ driving))
  /\ track' = (usable' /\ track)
  /\ timed' = (usable' /\ timed)
  /\ est' = (usable' /\ est)
  /\ prediction' = (usable' /\ prediction)
  /\ pc' = IF filterEnabled /\ usable' /\ frame' # "none" THEN "filter" ELSE "decide"
  /\ UNCHANGED <<settings, operator, running, elapsed, poseRead, poseAge, controlVars, motorVars>>

(* drop_track where reset_filter is due: the pose history stays. *)
DropTrackOnly ==
  /\ track' = FALSE /\ est' = FALSE /\ prediction' = FALSE
  /\ UNCHANGED <<poses, timed>>

(* A lost track leaves the last estimate in place. *)
StepFilterKeepingEstimate ==
  /\ pc = "filter"
  /\ \/ frame = "sighted" /\ track' = TRUE
     \/ track' = FALSE
  /\ timed' = TRUE
  /\ est' = (est \/ track')
  /\ prediction' = est'
  /\ pc' = "decide"
  /\ UNCHANGED <<settings, operator, running, unread, tickVars, poses, controlVars, motorVars>>

(* Arrival is the tolerance alone: the zero writes may have failed. *)
ArriveUnconfirmed ==
  /\ leader = "ReturnHome"
  /\ phase' = ApplyHomeFeedback(phase, TRUE)
  /\ Send(Gimbal, "home", FALSE)

(* The followers keep their last command when the loop ends. *)
LeaveLeaderOnly ==
  /\ pc = "top"
  /\ ~running
  /\ todo' = {}
  /\ IF driving THEN Send(Gimbal, "stop", FALSE) ELSE UNCHANGED <<issued, drive>>
  /\ pc' = "leave"
  /\ UNCHANGED <<settings, operator, running, unread, tickVars, filterVars, controlVars>>

-----------------------------------------------------------------------------
(* One tick. *)

(* The tick's entry: the time is taken and the tick's record is cleared. *)
Enter ==
  /\ pc = "top"
  /\ running
  /\ age' = Sum(age, elapsed)
  /\ sight' = Sum(sight, elapsed)
  /\ elapsed' = 0
  /\ frame' = "none" /\ poseRead' = FALSE /\ poseAge' = 0
  /\ pc' = IF driving THEN "pose" ELSE "observe"
  /\ UNCHANGED <<settings, operator, running, unread, usable, filterVars, phase, leader,
                 followers, motorVars>>

(* get_position: each axis is stamped in the middle of its exchange, the    *)
(* pan axis first, so that its age is the pose's.                           *)
ReadPose ==
  /\ pc = "pose"
  /\ poseRead' \in BOOLEAN
  /\ pc' = "observe"
  /\ UNCHANGED <<settings, operator, running, unread, elapsed, frame, poseAge, usable, filterVars,
                 controlVars, motorVars>>

(* reset_filter, est.reset() and predictions->clear. *)
DropEverything ==
  /\ poses' = FALSE /\ track' = FALSE /\ timed' = FALSE /\ est' = FALSE
  /\ prediction' = FALSE

(* try_read, the freshness check after its wait, and the pose history. *)
Observe ==
  /\ pc = "observe"
  /\ frame' = unread
  /\ unread' = "none"
  /\ usable' = (driving => poseRead /\ poseAge < StaleAfter)
  /\ \/ /\ usable'
        /\ poses' = (poses \/ driving)
        /\ UNCHANGED <<track, timed, est, prediction>>
     \/ /\ ~usable'
        /\ DropEverything
  /\ pc' = IF filterEnabled /\ usable' /\ frame' # "none" THEN "filter" ELSE "decide"
  /\ UNCHANGED <<settings, operator, running, elapsed, poseRead, poseAge, controlVars, motorVars>>

(* step_filter: what becomes of the track. *)
Untimely == timed /\ UNCHANGED <<track, timed>>
Seed     == ~track /\ frame = "sighted" /\ track' = TRUE  /\ timed' = TRUE
Search   == ~track                      /\ track' = FALSE /\ timed' = TRUE
Follow   == track  /\ frame = "sighted" /\ track' = TRUE  /\ timed' = TRUE
Coast    == track                       /\ track' = TRUE  /\ timed' = TRUE
Lose     == track                       /\ track' = FALSE /\ timed' = TRUE

(* The estimate is published to the overlay, or the overlay's is cleared. *)
StepFilter ==
  /\ pc = "filter"
  /\ Untimely \/ Seed \/ Search \/ Follow \/ Coast \/ Lose
  /\ est' = track'
  /\ prediction' = est'
  /\ pc' = "decide"
  /\ UNCHANGED <<settings, operator, running, unread, tickVars, poses, controlVars, motorVars>>

(* The operator's mode is read here, the operator's keys only in DriveManually. *)
Decide ==
  /\ pc = "decide"
  /\ LET in == [manual    |-> manual,
                sighted   |-> frame = "sighted",
                estimated |-> est,
                usable    |-> usable]
         decision == StepControl(phase, age, in)
     IN /\ phase' = decision.phase
        /\ age' = decision.age
        /\ leader' = decision.leader
        /\ followers' = decision.followers
  /\ sight' = IF frame = "sighted" THEN 0 ELSE sight
  /\ todo' = IF followers' = "None" THEN {} ELSE FollowerGimbals
  /\ pc' = "drive"
  /\ issued' = [m \in Gimbals |-> "none"]
  /\ UNCHANGED <<settings, operator, running, unread, tickVars, filterVars, drive>>

(* With no track to aim at, aim_at returns nothing and no command is sent. *)
Aim ==
  /\ leader = "Aim"
  /\ IF filterEnabled /\ ~track
     THEN UNCHANGED <<issued, drive>>
     ELSE Send(Gimbal, "aim", TRUE)
  /\ UNCHANGED phase

DriveManually ==
  /\ leader = "Manual"
  /\ Send(Gimbal, "manual", \E a \in Axes : Command(a) # 0)
  /\ UNCHANGED phase

(* The gimbal is within tolerance and both zero writes succeeded. *)
Arrive ==
  /\ leader = "ReturnHome"
  /\ phase' = ApplyHomeFeedback(phase, TRUE)
  /\ issued' = [issued EXCEPT ![Gimbal] = "home"]
  /\ drive' = [drive EXCEPT ![Gimbal] = "still"]

(* Further to go, a pose read that fails, or a stop at home that fails. *)
Approach ==
  /\ leader = "ReturnHome"
  /\ Send(Gimbal, "home", TRUE)
  /\ UNCHANGED phase

Hold ==
  /\ leader = "Hold"
  /\ Send(Gimbal, "hold", FALSE)
  /\ UNCHANGED phase

NoCommand ==
  /\ leader = "None"
  /\ UNCHANGED <<phase, issued, drive>>

Drive ==
  /\ pc = "drive"
  /\ NoCommand \/ Aim \/ DriveManually \/ Arrive \/ Approach \/ Hold
  /\ pc' = "follow"
  /\ UNCHANGED <<settings, operator, running, unread, tickVars, filterVars, age, leader,
                 followers, sight, todo>>

(* mirror_followers or hold_followers, after the leader; a follower whose    *)
(* own pose cannot be read is given a zero.                                 *)
DriveFollower(f) ==
  /\ pc = "follow"
  /\ f \in todo
  /\ todo' = todo \ {f}
  /\ \/ followers = "Mirror" /\ Send(f, "mirror", TRUE)
     \/ followers = "Hold" /\ Send(f, "hold", FALSE)
  /\ UNCHANGED <<settings, operator, running, unread, pc, tickVars, filterVars, controlVars>>

EndTick ==
  /\ pc = "follow"
  /\ todo = {}
  /\ pc' = "top"
  /\ UNCHANGED <<settings, operator, running, unread, tickVars, filterVars, controlVars, motorVars>>

(* The loop ends: one zero to the leader, one to each follower. *)
Leave ==
  /\ pc = "top"
  /\ ~running
  /\ todo' = IF driving THEN FollowerGimbals ELSE {}
  /\ IF driving THEN Send(Gimbal, "stop", FALSE) ELSE UNCHANGED <<issued, drive>>
  /\ pc' = "leave"
  /\ UNCHANGED <<settings, operator, running, unread, tickVars, filterVars, controlVars>>

StopFollower(f) ==
  /\ pc = "leave"
  /\ f \in todo
  /\ todo' = todo \ {f}
  /\ Send(f, "stop", FALSE)
  /\ UNCHANGED <<settings, operator, running, unread, pc, tickVars, filterVars, controlVars>>

Finish ==
  /\ pc = "leave"
  /\ todo = {}
  /\ prediction' = FALSE
  /\ pc' = "done"
  /\ UNCHANGED <<settings, operator, running, unread, tickVars, poses, track, timed, est,
                 controlVars, motorVars>>

Tick == Enter \/ ReadPose \/ Observe \/ StepFilter \/ Decide \/ Drive \/ EndTick
Exit == Leave \/ Finish
Thread ==
  \/ Tick
  \/ Exit
  \/ \E f \in FollowerGimbals : DriveFollower(f) \/ StopFollower(f)

-----------------------------------------------------------------------------
(* The other threads, and time. *)

loopVars == <<pc, tickVars, filterVars, controlVars, motorVars>>

Publish(kind) ==
  /\ unread' = kind
  /\ UNCHANGED <<settings, operator, running, loopVars>>

Operate ==
  /\ \/ \E mode \in BOOLEAN : SetMode(mode)
     \/ \E a \in Axes, d \in Directions : Move(a, d)
  /\ UNCHANGED <<settings, running, unread, loopVars>>

Signal ==
  /\ running' = FALSE
  /\ UNCHANGED <<settings, operator, unread, loopVars>>

Advance ==
  /\ AgeMoves
  /\ elapsed' = Sum(elapsed, 1)
  /\ poseAge' = IF pc = "observe" /\ poseRead /\ poseAge < StaleAfter THEN poseAge + 1 ELSE poseAge
  /\ UNCHANGED <<settings, running, unread, pc, frame, poseRead, usable, filterVars,
                 controlVars, motorVars>>

Next ==
  \/ Thread
  \/ \E kind \in Frames : Publish(kind)
  \/ Operate
  \/ Signal
  \/ Advance

Spec == Init /\ [][Next]_vars

(***************************************************************************)
(* The thread is scheduled, every bus call and every bounded wait returns, *)
(* and the clock runs.  A drive that is sent home over and over gets there *)
(* in the end.  Nothing is assumed of the camera, the operator or signals. *)
(***************************************************************************)
FairSpec ==
  /\ Spec
  /\ WF_vars(Thread)
  /\ WF_vars(Advance)
  /\ SF_vars(Drive /\ Arrive)

-----------------------------------------------------------------------------

TypeOK ==
  /\ driving \in BOOLEAN
  /\ filterEnabled \in BOOLEAN
  /\ OperatorTypeOK
  /\ running \in BOOLEAN
  /\ unread \in Frames \union {"none"}
  /\ pc \in {"top", "pose", "observe", "filter", "decide", "drive", "follow", "leave", "done"}
  /\ elapsed \in 0 .. AgeCap
  /\ frame \in Frames \union {"none"}
  /\ poseRead \in BOOLEAN
  /\ poseAge \in 0 .. StaleAfter
  /\ usable \in BOOLEAN
  /\ poses \in BOOLEAN
  /\ track \in BOOLEAN
  /\ timed \in BOOLEAN
  /\ est \in BOOLEAN
  /\ prediction \in BOOLEAN
  /\ phase \in Phases
  /\ age \in 0 .. AgeCap
  /\ leader \in LeaderActions
  /\ followers \in FollowerActions
  /\ todo \in SUBSET FollowerGimbals
  /\ issued \in [Gimbals -> Commands]
  /\ drive \in [Gimbals -> Drives]
  /\ sight \in 0 .. AgeCap

(***************************************************************************)
(* A bad pose leaves nothing behind: from the check that rejects it to the *)
(* next tick's, there is no track, no pose history to bridge the gap with, *)
(* no estimate to aim by, and nothing for the overlay to draw.  Outside a  *)
(* fault the overlay draws a prediction exactly while the loop could aim.  *)
(***************************************************************************)
NothingBridgesAPoseFault ==
  /\ pc \in {"decide", "drive", "follow"} /\ ~usable =>
       ~track /\ ~poses /\ ~est /\ ~prediction
  /\ pc # "done" => prediction = est

(***************************************************************************)
(* With the filter on, a gimbal on its way home or at home has no estimate *)
(* young enough to aim by; the one exception is a frame just read, whose   *)
(* detection the decision has still to see.                                *)
(***************************************************************************)
HomeMeansNoTarget ==
  filterEnabled /\ phase \in {"ReturningHome", "AtHome"} =>
    \/ ~est
    \/ age >= StaleAfter
    \/ pc = "decide" /\ frame = "sighted"

(***************************************************************************)
(* The gimbal is aimed only in phase Tracking.  The decision never looks   *)
(* at the phase before aiming: it holds because an estimate can come back  *)
(* or grow young again only through a sighting or a spell of manual mode,  *)
(* and each of those puts the phase back to Tracking first.                *)
(***************************************************************************)
AimOnlyWhileTracking ==
  pc \in {"drive", "follow"} /\ leader = "Aim" => phase = "Tracking"

(***************************************************************************)
(* AtHome is never entered, or kept, with the leader left moving: not by a *)
(* stop at home that failed, and not by a command given since.             *)
(***************************************************************************)
AtHomeMeansStill == phase = "AtHome" => drive[Gimbal] = "still"

(***************************************************************************)
(* Without the filter, the aim of a tick dereferences the detection of     *)
(* that very tick's frame (main.cpp:434): there must be one.               *)
(***************************************************************************)
UnfilteredAimHasDetection ==
  pc = "drive" /\ leader = "Aim" /\ ~filterEnabled => frame = "sighted"

(* A finished thread has sent every gimbal of its group a last zero and     *)
(* taken its prediction off the overlay.                                    *)
DoneMeansStopped ==
  pc = "done" =>
    /\ driving => \A m \in Gimbals : issued[m] = "stop"
    /\ ~prediction

(***************************************************************************)
(* A tick that drives commands every gimbal of the group, whatever it      *)
(* decided: no path leaves one running on the command of an earlier tick.  *)
(* Aiming with an estimate but no track would.                             *)
(***************************************************************************)
EveryTickCommands ==
  [][driving /\ pc = "follow" /\ pc' = "top" => \A m \in Gimbals : issued[m] # "none"]_vars

(***************************************************************************)
(* A gimbal standing still is set moving, leader or follower, only in a    *)
(* tick whose leader pose was read on both axes and was still young when   *)
(* the wait for a frame, up to a whole tick, was over (main.cpp:346).      *)
(***************************************************************************)
MotionStartsOnFreshPose ==
  [][\A m \in Gimbals :
       drive[m] = "still" /\ drive'[m] = "moving" => poseRead /\ poseAge < StaleAfter]_vars

(***************************************************************************)
(* The keys are read after the mode, in a lock of their own: a mode        *)
(* switched to auto, and even back, in between never lets an old key move  *)
(* the gimbal.  What a manual tick commands comes from keys pressed in the *)
(* very spell of manual mode that lasts when they are read, on every axis  *)
(* that it drives, and without such a key it sets nothing moving.          *)
(***************************************************************************)
KeysActOnlyInManual ==
  [][pc = "drive" /\ pc' = "follow" /\ leader = "Manual" =>
       /\ \A a \in Axes : Command(a) # 0 => manual /\ a \in pressed
       /\ drive[Gimbal] = "still" /\ drive'[Gimbal] = "moving" =>
            \E a \in pressed : Command(a) # 0]_vars

(* The signal ends the thread, whatever it was doing. *)
ShutdownCompletes == ~running ~> pc = "done"

(* An operator who takes over and keeps the gimbal has it: the tracker's     *)
(* own commands end.                                                         *)
TakeoverIsHonoured == <>[]manual => <>[](issued[Gimbal] \notin {"aim", "home"})

(***************************************************************************)
(* A target that is gone for good is given up: with no more sightings,     *)
(* good poses and no operator, the gimbal comes home and stays there, even *)
(* if the filter holds its last estimate for ever.                         *)
(***************************************************************************)
Deserted ==
  /\ running /\ ~manual
  /\ frame # "sighted" /\ unread # "sighted"
  /\ pc \in {"filter", "decide", "drive"} => usable

ComesHome == HomeReturnEnabled /\ driving /\ <>[]Deserted => <>[](phase = "AtHome")

(***************************************************************************)
(* What REPLAY.md:91 says: filtered aiming requires an estimate less than  *)
(* 45 ticks old.  Manual mode resets the age the code compares.            *)
(***************************************************************************)
AimOnFreshEstimate ==
  pc = "drive" /\ leader = "Aim" /\ filterEnabled => sight < StaleAfter
=============================================================================
