------------------------------ MODULE MotorBus ------------------------------
(***************************************************************************)
(* CandleMotor's hot path (src/comm/candle_motor.cpp, motor_result.h): the *)
(* calls of the tracking threads on one CAN link, exchange by exchange.    *)
(*                                                                         *)
(* Every call takes the bus mutex, then reads and writes the drives of one *)
(* gimbal, pan before tilt, and any exchange can fail.  A failed write may *)
(* still have been obeyed, its reply alone being lost.  What an encoder    *)
(* reads is a choice.  Positions and speeds are small integers; a pose too *)
(* old to use is a choice at the point where its age is checked.           *)
(*                                                                         *)
(* A call is a record: kind is "read" (get_position), "set"                *)
(* (set_velocity), "seek" (return_to_home, drive_to) or "mirror"           *)
(* (mirror_pose); speed is the velocity asked for, or mirror_pose's        *)
(* feed-forward; target is where a seek or a mirror goes and stop is a     *)
(* seek's stop_at_target; finite says that the request is a number.        *)
(***************************************************************************)
EXTENDS Integers, Sequences

CONSTANTS
  Threads,       (* the tracking threads                                    *)
  Gimbals,
  NoThread,
  Calls,         (* the calls made                                          *)
  Owner,         (* the thread that drives each gimbal                      *)
  Missing,       (* the <<gimbal, axis>> pairs without a drive              *)
  Calibrated,    (* the <<gimbal, axis>> pairs with a calibrated soft limit *)
  MinPosition, MaxPosition,   (* the soft limit                             *)
  Positions,     (* what an encoder may read                                *)
  MaxSpeed,      (* the configured velocity limit                           *)
  Scale,         (* the axes' velocity scale                                *)
  Tolerance      (* how near counts as there: tolerance_rad                 *)

Axes == {"pan", "tilt"}
Speeds == -MaxSpeed .. MaxSpeed
Statuses == {"NotAttempted", "Ok", "Error", "Unavailable"}

ASSUME BusAssumption ==
  /\ NoThread \notin Threads
  /\ MaxSpeed \in Nat /\ Scale \in Nat /\ Tolerance \in Nat
  /\ MinPosition \in Int /\ MaxPosition \in Int /\ Positions \subseteq Int
  /\ Owner \in [Gimbals -> Threads]
  /\ Calls \subseteq [kind : {"read", "set", "seek", "mirror"}, gimbal : Gimbals,
                      speed : [Axes -> Int], target : [Axes -> Int],
                      stop : BOOLEAN, finite : BOOLEAN]

VARIABLES
  holder,   (* bus_mutex_                                                   *)
  stage,    (* where each thread is in its call                             *)
  local,    (* the thread's call and the locals of the functions it runs    *)
  link,     (* the requests on the wire whose replies are outstanding       *)
  drive,    (* the velocity each drive obeys                                *)
  before    (* history: the holder's gimbal as the call found it            *)

vars == <<holder, stage, local, link, drive, before>>

Clamp(v, m) == IF v > m THEN m ELSE IF v < -m THEN -m ELSE v

NotRead == [status |-> "NotAttempted", value |-> 0]
Reading(status, value) == [status |-> status, value |-> value]

Fresh(c) ==
  [call    |-> c,
   axis    |-> "pan",
   asked   |-> FALSE,
   pose    |-> [a \in Axes |-> NotRead],   \* MotorReading
   within  |-> FALSE,                      \* within_tolerance
   failed  |-> FALSE,                      \* history: feedback was missing or old
   speed   |-> [a \in Axes |-> 0],         \* pan_rad_s, tilt_rad_s
   limit   |-> [a \in Axes |-> NotRead],   \* limit_position
   wrote   |-> [a \in Axes |-> "NotAttempted"],
   stopped |-> [a \in Axes |-> "NotAttempted"]]

NoCall == [kind |-> "none"]
IdleLocal == [call |-> NoCall]

Init ==
  /\ holder = NoThread
  /\ stage = [t \in Threads |-> "idle"]
  /\ local = [t \in Threads |-> IdleLocal]
  /\ link = <<>>
  /\ drive = [g \in Gimbals |-> [a \in Axes |-> 0]]
  /\ before = [a \in Axes |-> 0]

-----------------------------------------------------------------------------
(* What a call's locals say. *)

Gimbal(t) == local[t].call.gimbal
Drive(t, a) == <<Gimbal(t), a>>

BothPresent(t) == \A a \in Axes : Drive(t, a) \notin Missing

(* MotorCommand::ok *)
Ok(l) ==
  /\ \A a \in Axes : l.wrote[a] = "Ok" /\ l.limit[a].status # "Error"
  /\ l.call.finite

LimitFailed(l) == \E a \in Axes : l.limit[a].status = "Error"

ReachedUnconfirmed(l) == l.within                   \* mutant of Reached

(* MotionResult::reached. *)
Reached(l) == l.within /\ Ok(l)

LimitedPast(v, p) ==                                \* mutant of Limited
  IF (v > 0 /\ p > MaxPosition) \/ (v < 0 /\ p < MinPosition) THEN 0 ELSE v

(* apply_limit: nothing outward at or beyond the limit. *)
Limited(v, p) ==
  IF (v > 0 /\ p >= MaxPosition) \/ (v < 0 /\ p <= MinPosition) THEN 0 ELSE v

(* The stage that makes an SDK call, and where it needs none. *)
Exchanges(t) ==
  LET l == local[t]
      d == Drive(t, l.axis)
  IN CASE stage[t] = "limit" ->
            /\ d \notin Missing /\ d \in Calibrated
            /\ l.speed[l.axis] # 0 /\ ~LimitFailed(l)
       [] stage[t] \in {"read", "write", "stop"} -> d \notin Missing
       [] OTHER -> FALSE

StageAfterUnstopped(t, l) ==                        \* mutant of StageAfter
  CASE stage[t] = "read" -> IF l.call.kind = "read" THEN "done" ELSE "plan"
    [] stage[t] = "limit" -> "write"
    [] stage[t] \in {"write", "stop"} -> "done"

(* The stage after both axes have been through one. *)
StageAfter(t, l) ==
  CASE stage[t] = "read" -> IF l.call.kind = "read" THEN "done" ELSE "plan"
    [] stage[t] = "limit" -> "write"
    [] stage[t] = "write" ->
         IF ~Ok(l) /\ \E a \in Axes : l.speed[a] # 0 THEN "stop" ELSE "done"
    [] stage[t] = "stop" -> "done"

(* Both speeds are zeroed when a soft-limit read has failed. *)
Paired(t, l) ==
  IF stage[t] = "limit" /\ LimitFailed(l)
  THEN [l EXCEPT !.speed = [a \in Axes |-> 0]] ELSE l

(* On to the tilt axis, or to the next stage.  A pan pose that was not read  *)
(* makes the tilt read pointless.                                           *)
Step(t, l) ==
  IF l.axis = "pan" /\ ~(stage[t] = "read" /\ l.pose["pan"].status # "Ok")
  THEN /\ local' = [local EXCEPT ![t] = [l EXCEPT !.axis = "tilt", !.asked = FALSE]]
       /\ UNCHANGED stage
  ELSE /\ local' = [local EXCEPT ![t] =
                      [Paired(t, l) EXCEPT !.axis = "pan", !.asked = FALSE]]
       /\ stage' = [stage EXCEPT ![t] = StageAfter(t, l)]

-----------------------------------------------------------------------------

Call(t) ==
  /\ stage[t] = "idle"
  /\ stage' = [stage EXCEPT ![t] = "want"]
  /\ UNCHANGED <<holder, local, link, drive, before>>

AcquireShared(t, c) ==                              \* mutant of Acquire
  /\ stage[t] = "want"
  /\ Owner[c.gimbal] = t
  /\ holder' = t
  /\ local' = [local EXCEPT ![t] = Fresh(c)]
  /\ stage' = [stage EXCEPT ![t] = IF c.kind = "set" THEN "plan" ELSE "read"]
  /\ before' = drive[c.gimbal]
  /\ UNCHANGED <<link, drive>>

(* lock_bus.  The arguments are the caller's; they matter from here on. *)
Acquire(t, c) ==
  /\ stage[t] = "want"
  /\ holder = NoThread
  /\ Owner[c.gimbal] = t
  /\ holder' = t
  /\ local' = [local EXCEPT ![t] = Fresh(c)]
  /\ stage' = [stage EXCEPT ![t] = IF c.kind = "set" THEN "plan" ELSE "read"]
  /\ before' = drive[c.gimbal]
  /\ UNCHANGED <<link, drive>>

(* drive_to_locked and mirror_pose after their read: the velocity to ask for. *)
Correction(l, a) == Clamp(l.call.target[a] - l.pose[a].value, MaxSpeed)

NeedsPose(l) == l.call.kind \in {"seek", "mirror"}

WithinTolerance(l) ==
  /\ l.call.kind = "seek"
  /\ \A a \in Axes : l.pose[a].value - l.call.target[a] \in 1 - Tolerance .. Tolerance - 1

(* A mirror's feed-forward is scaled already, so the code undoes the scale.  *)
Request(l, a) ==
  IF l.failed \/ (l.within /\ l.call.stop) THEN 0
  ELSE CASE l.call.kind = "set" -> Scale * l.call.speed[a]
         [] l.call.kind = "seek" -> Scale * Correction(l, a)
         [] l.call.kind = "mirror" ->
              IF Scale = 0 THEN 0 ELSE l.call.speed[a] + Scale * Correction(l, a)

(* The freshness check, then set_velocity_locked up to its soft limits. *)
Plan(t) ==
  /\ stage[t] = "plan"
  /\ \E young \in BOOLEAN :
       LET l0 == local[t]
           fresh == young /\ \A a \in Axes : l0.pose[a].status = "Ok"
           l == [l0 EXCEPT !.failed = NeedsPose(l0) /\ ~fresh,
                           !.within = fresh /\ WithinTolerance(l0)]
       IN local' = [local EXCEPT ![t] =
            [l EXCEPT !.speed =
               [a \in Axes |-> IF BothPresent(t) /\ l.call.finite
                               THEN Clamp(Request(l, a), MaxSpeed) ELSE 0]]]
  /\ stage' = [stage EXCEPT ![t] = "limit"]
  /\ UNCHANGED <<holder, link, drive, before>>

(* An SDK call puts its request on the wire... *)
Ask(t) ==
  /\ Exchanges(t)
  /\ ~local[t].asked
  /\ local' = [local EXCEPT ![t].asked = TRUE]
  /\ link' = Append(link, <<t, Drive(t, local[t].axis)>>)
  /\ UNCHANGED <<holder, stage, drive, before>>

(* ...and takes the first reply that comes. *)
Reply(t) ==
  /\ local[t].call # NoCall
  /\ local[t].asked
  /\ link # <<>>
  /\ link' = Tail(link)
  /\ UNCHANGED <<holder, before>>

(* read_axis for the pose. *)
ReadPose(t) ==
  /\ stage[t] = "read"
  /\ Reply(t)
  /\ LET l == local[t] IN
       \/ \E p \in Positions : Step(t, [l EXCEPT !.pose[l.axis] = Reading("Ok", p)])
       \/ Step(t, [l EXCEPT !.pose[l.axis] = Reading("Error", 0)])
  /\ UNCHANGED drive

(* read_axis for the soft limit, and what apply_limit makes of it. *)
CheckLimit(t) ==
  /\ stage[t] = "limit"
  /\ Reply(t)
  /\ LET l == local[t] IN
       \/ \E p \in Positions :
            Step(t, [l EXCEPT !.limit[l.axis] = Reading("Ok", p),
                              !.speed[l.axis] = Limited(@, p)])
       \/ Step(t, [l EXCEPT !.limit[l.axis] = Reading("Error", 0),
                            !.speed[l.axis] = 0,
                            !.failed = TRUE])
  /\ UNCHANGED drive

(* write_axis: obeyed and confirmed, or unconfirmed and perhaps obeyed. *)
Written(t, v, status) ==
  /\ status \in {"Ok", "Error"}
  /\ \/ drive' = [drive EXCEPT ![Gimbal(t)][local[t].axis] = v]
     \/ status = "Error" /\ UNCHANGED drive

Write(t) ==
  /\ stage[t] = "write"
  /\ Reply(t)
  /\ \E status \in Statuses :
       /\ Written(t, local[t].speed[local[t].axis], status)
       /\ Step(t, [local[t] EXCEPT !.wrote[local[t].axis] = status])

WriteStop(t) ==
  /\ stage[t] = "stop"
  /\ Reply(t)
  /\ \E status \in Statuses :
       /\ Written(t, 0, status)
       /\ Step(t, [local[t] EXCEPT !.stopped[local[t].axis] = status])

(* A missing drive, or a limit that needs no reading. *)
Skip(t) ==
  /\ stage[t] \in {"read", "limit", "write", "stop"}
  /\ ~Exchanges(t)
  /\ LET l == local[t]
         missing == Drive(t, l.axis) \in Missing
     IN Step(t, [l EXCEPT
          !.pose[l.axis] = IF stage[t] = "read" THEN Reading("Unavailable", 0) ELSE @,
          !.wrote[l.axis] = IF stage[t] = "write" THEN "Unavailable" ELSE @,
          !.stopped[l.axis] = IF stage[t] = "stop" THEN "Unavailable" ELSE @])
  /\ UNCHANGED <<holder, link, drive, before>>

(* The call returns and the lock goes with its scope. *)
Release(t) ==
  /\ stage[t] = "done"
  /\ holder' = NoThread
  /\ stage' = [stage EXCEPT ![t] = "idle"]
  /\ local' = [local EXCEPT ![t] = IdleLocal]
  /\ UNCHANGED <<link, drive, before>>

Inside(t) ==
  \/ Plan(t) \/ Ask(t) \/ ReadPose(t) \/ CheckLimit(t) \/ Write(t) \/ WriteStop(t)
  \/ Skip(t) \/ Release(t)

Next ==
  \E t \in Threads :
    \/ Call(t)
    \/ \E c \in Calls : Acquire(t, c)
    \/ Inside(t)

Spec == Init /\ [][Next]_vars

-----------------------------------------------------------------------------

Done(t) == stage[t] = "done"
Writes(l) == l.call.kind # "read"

TypeOK ==
  /\ holder \in Threads \union {NoThread}
  /\ stage \in [Threads -> {"idle", "want", "read", "plan", "limit", "write",
                            "stop", "done"}]
  /\ \A t \in Threads : stage[t] \notin {"idle", "want"} =>
       /\ local[t].call \in Calls /\ local[t].axis \in Axes /\ local[t].asked \in BOOLEAN
       /\ local[t].speed \in [Axes -> Speeds]
       /\ local[t].wrote \in [Axes -> Statuses]
       /\ local[t].stopped \in [Axes -> Statuses]
  /\ drive \in [Gimbals -> [Axes -> Speeds]]
  /\ before \in [Axes -> Speeds]

(***************************************************************************)
(* The reply a thread takes is the reply to its own request: no two calls  *)
(* have a request on the wire at once, which is what the mutex is for      *)
(* (candle_motor.h:133).                                                   *)
(***************************************************************************)
RepliesAreMine ==
  \A t \in Threads :
    stage[t] \in {"read", "limit", "write", "stop"} /\ local[t].asked =>
      link = << <<t, Drive(t, local[t].axis)>> >>

(***************************************************************************)
(* A call that did not succeed leaves an axis moving only if the last      *)
(* write to that very axis was unconfirmed: one axis never goes on because *)
(* of what happened to the other.                                          *)
(***************************************************************************)
PartialFailureStops ==
  \A t \in Threads : Done(t) /\ Writes(local[t]) /\ ~Ok(local[t]) =>
    \A a \in Axes : drive[Gimbal(t)][a] # 0 =>
      LET l == local[t]
      IN \/ l.stopped[a] = "Error"
         \/ l.stopped[a] = "NotAttempted" /\ l.wrote[a] = "Error"

(***************************************************************************)
(* A call that succeeded leaves a calibrated axis moving only on a         *)
(* position read in that very call, under the same lock, and not outward   *)
(* from its soft limit.                                                    *)
(***************************************************************************)
LimitsAreReadInTheCall ==
  \A t \in Threads : Done(t) /\ Writes(local[t]) /\ Ok(local[t]) =>
    \A a \in Axes :
      LET v == drive[Gimbal(t)][a]
          r == local[t].limit[a]
      IN v # 0 /\ Drive(t, a) \in Calibrated =>
           /\ r.status = "Ok"
           /\ v > 0 => r.value < MaxPosition
           /\ v < 0 => r.value > MinPosition

Result ==
  IF \E t \in Threads : Done(t)
  THEN LET t == CHOOSE u \in Threads : Done(u)
           l == local[t]
       IN [gimbal  |-> Gimbal(t),
           writes  |-> Writes(l),
           held    |-> Writes(l) /\ \A a \in Axes : l.speed[a] = 0,
           ok      |-> Writes(l) /\ Ok(l),
           arrived |-> l.call.stop /\ Reached(l)]
  ELSE [gimbal |-> "none", writes |-> FALSE, held |-> FALSE, ok |-> FALSE,
        arrived |-> FALSE]

(* A gimbal in the middle of a call still shows what the last one left. *)
Motion ==
  [g \in Gimbals |->
     IF \E t \in Threads : stage[t] \notin {"idle", "want", "done"} /\ Gimbal(t) = g
     THEN before ELSE drive[g]]

Contract == INSTANCE MotorContract WITH motion <- Motion, result <- Result

(***************************************************************************)
(* Each call is one indivisible transaction that keeps the contract the    *)
(* tracking loop is written against: a hold never sets anything moving, a  *)
(* confirmed hold stops both axes, a read changes nothing, and home is     *)
(* reported reached only after a confirmed hold (main.cpp:476).            *)
(***************************************************************************)
ImplementsContract == Contract!Spec

=============================================================================
