---------------------------- MODULE MotorBusProofs ----------------------------
(***************************************************************************)
(* Proofs about MotorBus for any threads, gimbals, calls, encoder readings *)
(* and limits.                                                             *)
(***************************************************************************)
EXTENDS MotorBus, TLAPS

Inactive == {"idle", "want"}
Exchanging == {"read", "limit", "write", "stop"}
Active == Exchanging \union {"plan", "done"}

MotorReadings == [status : Statuses, value : Int]

Locals ==
  [call    : Calls,
   axis    : Axes,
   asked   : BOOLEAN,
   pose    : [Axes -> MotorReadings],
   within  : BOOLEAN,
   failed  : BOOLEAN,
   speed   : [Axes -> Speeds],
   limit   : [Axes -> MotorReadings],
   wrote   : [Axes -> Statuses],
   stopped : [Axes -> Statuses]]

-----------------------------------------------------------------------------
(* The invariant.                                                          *)

(* A pose that was asked for is the whole of its call. *)
NeedsPlan(l) == l.call.kind # "read"

(* The lock's holder is the thread in a call. *)
Exclusive ==
  /\ holder \in Threads \union {NoThread}
  /\ stage \in [Threads -> Inactive \union Active]
  /\ local \in [Threads -> Locals \union {IdleLocal}]
  /\ drive \in [Gimbals -> [Axes -> Speeds]]
  /\ before \in [Axes -> Speeds]
  /\ \A t \in Threads : stage[t] \in Active <=> holder = t
  /\ \A t \in Threads : stage[t] \in Active => local[t] \in Locals
  /\ \A t \in Threads : stage[t] = "plan" =>
       local[t].axis = "pan" /\ NeedsPlan(local[t])

(* What is on the wire is what the holder has asked for, and nothing else. *)
Wire ==
  /\ holder = NoThread => link = <<>>
  /\ \A t \in Threads : stage[t] \in Active =>
       IF local[t].asked
       THEN Exchanges(t) /\ link = << <<t, Drive(t, local[t].axis)>> >>
       ELSE link = <<>>

(* Axis a was read in this call, and is not told to go outward. *)
Limits(l, a) ==
  l.speed[a] # 0 /\ <<l.call.gimbal, a>> \in Calibrated =>
    /\ l.limit[a].status = "Ok"
    /\ l.speed[a] > 0 => l.limit[a].value < MaxPosition
    /\ l.speed[a] < 0 => l.limit[a].value > MinPosition

Absent(l, a) == <<l.call.gimbal, a>> \in Missing

(* Axis a obeys what this call told it. *)
Obeys(l, a) == l.wrote[a] = "Ok" => ~Absent(l, a) /\ drive[l.call.gimbal][a] = l.speed[a]

(***************************************************************************)
(* The axes behind the limit checks are within their limits, unless a read *)
(* has failed, after which neither will move; those behind the writes obey *)
(* them; and a call in need of stopping has not succeeded.                 *)
(***************************************************************************)
Bounded(s, l) ==
  /\ s = "limit" /\ l.axis = "tilt" =>
       Absent(l, "pan") \/ LimitFailed(l) \/ Limits(l, "pan")
  /\ s = "write" => \A a \in Axes : Absent(l, a) \/ Limits(l, a)
  /\ s = "write" /\ l.axis = "tilt" => Obeys(l, "pan")
  /\ s = "stop" => ~Ok(l)
  /\ s = "done" /\ Writes(l) /\ Ok(l) =>
       \A a \in Axes : Limits(l, a) /\ drive[l.call.gimbal][a] = l.speed[a]

BusInv ==
  /\ Exclusive
  /\ Wire
  /\ \A t \in Threads : stage[t] \in Active => Bounded(stage[t], local[t])

-----------------------------------------------------------------------------
(* The operators.                                                          *)

LEMMA ClampLemma ==
  ASSUME NEW v \in Int
  PROVE  Clamp(v, MaxSpeed) \in Speeds
BY BusAssumption DEF Clamp, Speeds

LEMMA LimitedLemma ==
  ASSUME NEW v \in Speeds, NEW p \in Int
  PROVE  /\ Limited(v, p) \in Speeds
         /\ Limited(v, p) > 0 => p < MaxPosition
         /\ Limited(v, p) < 0 => p > MinPosition
BY BusAssumption DEF Limited, Speeds

(* What Step makes of the locals l: the axis and asked move on, the speeds *)
(* are zeroed if a limit could not be read, and the rest is kept.          *)
LEMMA StepLemma ==
  ASSUME Exclusive, NEW t \in Threads, stage[t] \in Exchanging, NEW l \in Locals, Step(t, l)
  PROVE  /\ local' = [local EXCEPT ![t] = local'[t]]
         /\ stage' = [stage EXCEPT ![t] = stage'[t]]
         /\ local'[t] \in Locals
         /\ stage'[t] \in Active
         /\ local'[t].asked = FALSE
         /\ local'[t].call = l.call
         /\ local'[t].pose = l.pose
         /\ local'[t].within = l.within
         /\ local'[t].limit = l.limit
         /\ local'[t].wrote = l.wrote
         /\ local'[t].stopped = l.stopped
         /\ \/ /\ stage'[t] = stage[t] /\ l.axis = "pan" /\ local'[t].axis = "tilt"
               /\ local'[t].speed = l.speed
            \/ /\ stage'[t] = StageAfter(t, l) /\ local'[t].axis = "pan"
               /\ l.axis = "tilt" \/ stage[t] = "read"
               /\ local'[t].speed = IF stage[t] = "limit" /\ LimitFailed(l)
                                    THEN [a \in Axes |-> 0] ELSE l.speed
<1>1. [a \in Axes |-> 0] \in [Axes -> Speeds]
  BY BusAssumption DEF Speeds
<1>2. Paired(t, l) \in Locals
  BY <1>1 DEF Paired, Locals
<1>3. /\ Paired(t, l).call = l.call /\ Paired(t, l).pose = l.pose
      /\ Paired(t, l).within = l.within
      /\ Paired(t, l).limit = l.limit /\ Paired(t, l).wrote = l.wrote
      /\ Paired(t, l).stopped = l.stopped
      /\ Paired(t, l).speed = IF stage[t] = "limit" /\ LimitFailed(l)
                              THEN [a \in Axes |-> 0] ELSE l.speed
  BY DEF Paired, Locals
<1>4. StageAfter(t, l) \in Active
  BY DEF StageAfter, Exchanging, Active
<1>5. CASE l.axis = "pan" /\ ~(stage[t] = "read" /\ l.pose["pan"].status # "Ok")
  <2> DEFINE m == [l EXCEPT !.axis = "tilt", !.asked = FALSE]
  <2>1. local' = [local EXCEPT ![t] = m] /\ stage' = stage
    BY <1>5, Zenon DEF Step
  <2>2. /\ m \in Locals /\ m.asked = FALSE /\ m.axis = "tilt" /\ m.call = l.call
        /\ m.pose = l.pose /\ m.within = l.within /\ m.limit = l.limit /\ m.wrote = l.wrote
        /\ m.stopped = l.stopped /\ m.speed = l.speed
    BY DEF Locals, Axes
  <2> HIDE DEF m
  <2>3. local'[t] = m /\ stage'[t] = stage[t] /\ stage[t] \in Active
    BY <2>1 DEF Exclusive, Active
  <2>4. stage' = [stage EXCEPT ![t] = stage'[t]]
    BY <2>1 DEF Exclusive
  <2>5. local' = [local EXCEPT ![t] = local'[t]]
    BY <2>1, <2>3
  <2> QED  BY <1>5, <2>2, <2>3, <2>4, <2>5
<1>6. CASE ~(l.axis = "pan" /\ ~(stage[t] = "read" /\ l.pose["pan"].status # "Ok"))
  <2> DEFINE p == Paired(t, l)
             m == [p EXCEPT !.axis = "pan", !.asked = FALSE]
  <2>1. local' = [local EXCEPT ![t] = m] /\ stage' = [stage EXCEPT ![t] = StageAfter(t, l)]
    BY <1>6, Zenon DEF Step
  <2> HIDE DEF p
  <2>2. /\ m \in Locals /\ m.asked = FALSE /\ m.axis = "pan" /\ m.call = p.call
        /\ m.pose = p.pose /\ m.within = p.within /\ m.limit = p.limit /\ m.wrote = p.wrote
        /\ m.stopped = p.stopped /\ m.speed = p.speed
    BY <1>2 DEF Locals, Axes, p
  <2> HIDE DEF m
  <2>3. local'[t] = m /\ stage'[t] = StageAfter(t, l)
    BY <2>1 DEF Exclusive
  <2>4. stage' = [stage EXCEPT ![t] = stage'[t]]
    BY <2>1, <2>3, Zenon
  <2>5. local' = [local EXCEPT ![t] = local'[t]]
    BY <2>1, <2>3, Zenon
  <2>6. l.axis = "tilt" \/ stage[t] = "read"
    BY <1>6 DEF Locals, Axes
  <2> USE DEF p
  <2> QED  BY <1>3, <1>4, <2>2, <2>3, <2>4, <2>5, <2>6
<1> QED  BY <1>5, <1>6

-----------------------------------------------------------------------------
(* The steps.                                                              *)

(* A step of the holder that ends an exchange, or needs none. *)
LEMMA StepKeeps ==
  ASSUME BusInv, NEW t \in Threads, stage[t] \in Exchanging,
         NEW l \in Locals, Step(t, l),
         holder' = holder, before' = before, link' = <<>>,
         drive' \in [Gimbals -> [Axes -> Speeds]],
         Bounded(stage[t], local[t])'
  PROVE  BusInv'
<1>1. /\ local' = [local EXCEPT ![t] = local'[t]]
      /\ stage' = [stage EXCEPT ![t] = stage'[t]]
      /\ local'[t] \in Locals /\ stage'[t] \in Active /\ local'[t].asked = FALSE
      /\ local'[t].axis = "tilt" => stage'[t] = stage[t]
  BY StepLemma DEF BusInv, Axes
<1>2. holder = t /\ \A u \in Threads \ {t} : stage[u] \notin Active
  BY DEF BusInv, Exclusive, Active
<1>3. \A u \in Threads \ {t} : stage'[u] = stage[u] /\ local'[u] = local[u]
  BY <1>1 DEF BusInv, Exclusive
<1>4. stage' \in [Threads -> Inactive \union Active]
  BY <1>1 DEF BusInv, Exclusive
<1>5. local' \in [Threads -> Locals \union {IdleLocal}]
  BY <1>1 DEF BusInv, Exclusive
<1>6. stage'[t] = "plan" => local'[t].axis = "pan" /\ NeedsPlan(local'[t])
  <2> SUFFICES ASSUME stage'[t] = "plan"
               PROVE  local'[t].axis = "pan" /\ NeedsPlan(local'[t])
    OBVIOUS
  <2>1. local'[t].axis \in Axes
    BY <1>1 DEF Locals
  <2>2. stage'[t] # stage[t]
    BY DEF Exchanging
  <2>3. stage'[t] = StageAfter(t, l) /\ local'[t].call = l.call
    BY <2>2, StepLemma DEF BusInv
  <2>4. l.call.kind # "read"
    BY <2>3 DEF StageAfter, Exchanging
  <2> QED  BY <1>1, <2>1, <2>2, <2>3, <2>4 DEF NeedsPlan, Axes
<1>7. Exclusive'
  BY <1>1, <1>2, <1>3, <1>4, <1>5, <1>6 DEF BusInv, Exclusive, Active, Exchanging
<1>8. Wire'
  <2>1. holder' # NoThread
    BY <1>2, BusAssumption
  <2> QED  BY <1>1, <1>2, <1>3, <2>1 DEF Wire
<1> QED  BY <1>2, <1>3, <1>7, <1>8 DEF BusInv

(* The request on the wire was the only one. *)
LEMMA ReplyLemma ==
  ASSUME BusInv, NEW t \in Threads, stage[t] \in Exchanging, Reply(t)
  PROVE  /\ local[t] \in Locals /\ local[t].asked /\ Exchanges(t)
         /\ link' = <<>> /\ holder' = holder /\ before' = before
         /\ Bounded(stage[t], local[t])
<1>1. stage[t] \in Active
  BY DEF Active
<1>2. local[t] \in Locals /\ local[t].asked /\ Exchanges(t)
  BY <1>1 DEF Reply, BusInv, Exclusive, Wire
<1>3. link = << <<t, Drive(t, local[t].axis)>> >>
  BY <1>1, <1>2 DEF BusInv, Wire
<1>4. link' = <<>>
  BY <1>3 DEF Reply
<1> QED  BY <1>1, <1>2, <1>4 DEF Reply, BusInv

LEMMA ReadPoseKeeps ==
  ASSUME BusInv, NEW t \in Threads, ReadPose(t)
  PROVE  BusInv'
<1>1. stage[t] = "read" /\ stage[t] \in Exchanging /\ Reply(t) /\ drive' = drive
  BY DEF ReadPose, Exchanging
<1>2. /\ local[t] \in Locals /\ link' = <<>> /\ holder' = holder /\ before' = before
  BY <1>1, ReplyLemma
<1>3. PICK r \in MotorReadings : Step(t, [local[t] EXCEPT !.pose[local[t].axis] = r])
  <2>1. \A p \in Positions : Reading("Ok", p) \in MotorReadings
    BY BusAssumption DEF Reading, MotorReadings, Statuses
  <2>2. Reading("Error", 0) \in MotorReadings
    BY DEF Reading, MotorReadings, Statuses
  <2> QED  BY <2>1, <2>2 DEF ReadPose
<1> DEFINE l == [local[t] EXCEPT !.pose[local[t].axis] = r]
<1>4. l \in Locals /\ l.call = local[t].call
  BY <1>2 DEF Locals
<1>5. Step(t, l)
  BY <1>3
<1> HIDE DEF l
<1>6. /\ local'[t].call = l.call
      /\ stage'[t] = "read" \/ stage'[t] = StageAfter(t, l)
  BY <1>1, <1>4, <1>5, StepLemma DEF BusInv
<1>7. Bounded(stage[t], local[t])'
  BY <1>1, <1>6 DEF StageAfter, Bounded, Writes
<1>8. drive' \in [Gimbals -> [Axes -> Speeds]]
  BY <1>1 DEF BusInv, Exclusive
<1> QED  BY <1>1, <1>2, <1>4, <1>5, <1>7, <1>8, StepKeeps

(***************************************************************************)
(* The end of a limit check of either axis: what it found holds of the     *)
(* axis, and what was found of pan before still does.                      *)
(***************************************************************************)
LEMMA LimitStep ==
  ASSUME BusInv, NEW t \in Threads, stage[t] = "limit", local[t] \in Locals,
         NEW l \in Locals, Step(t, l), l.call = local[t].call, l.axis = local[t].axis,
         link' = <<>>, holder' = holder, before' = before, drive' = drive,
         Absent(l, l.axis) \/ LimitFailed(l) \/ Limits(l, l.axis),
         l.axis = "tilt" => Absent(l, "pan") \/ LimitFailed(l) \/ Limits(l, "pan")
  PROVE  BusInv'
<1>1. stage[t] \in Exchanging
  BY DEF Exchanging
<1> DEFINE m == local'[t]
<1>2. /\ m.call = l.call /\ m.limit = l.limit
      /\ \/ stage'[t] = "limit" /\ l.axis = "pan" /\ m.axis = "tilt" /\ m.speed = l.speed
         \/ /\ stage'[t] = "write" /\ m.axis = "pan" /\ l.axis = "tilt"
            /\ m.speed = IF LimitFailed(l) THEN [a \in Axes |-> 0] ELSE l.speed
  <2>1. StageAfter(t, l) = "write"
    BY DEF StageAfter
  <2>2. /\ m.call = l.call /\ m.limit = l.limit
        /\ \/ /\ stage'[t] = stage[t] /\ l.axis = "pan" /\ m.axis = "tilt"
              /\ m.speed = l.speed
           \/ /\ stage'[t] = StageAfter(t, l) /\ m.axis = "pan"
              /\ l.axis = "tilt" \/ stage[t] = "read"
              /\ m.speed = IF stage[t] = "limit" /\ LimitFailed(l)
                           THEN [a \in Axes |-> 0] ELSE l.speed
    BY <1>1, StepLemma DEF BusInv
  <2> HIDE DEF m
  <2> QED  BY <2>1, <2>2
<1> HIDE DEF m
<1>3. /\ \A a \in Axes : Absent(m, a) <=> Absent(l, a)
      /\ LimitFailed(m) <=> LimitFailed(l)
  BY <1>2 DEF Absent, LimitFailed
<1>4. CASE stage'[t] = "limit" /\ l.axis = "pan" /\ m.axis = "tilt" /\ m.speed = l.speed
  <2>1. Limits(m, "pan") <=> Limits(l, "pan")
    BY <1>2, <1>4 DEF Limits
  <2>2. Bounded("limit", m)
    BY <1>3, <1>4, <2>1 DEF Bounded, Axes
  <2>3. Bounded(stage[t], local[t])'
    BY <1>2, <1>4, <2>2 DEF Bounded, Absent, Limits, LimitFailed, m
  <2> QED  BY <1>1, <2>3, StepKeeps DEF BusInv, Exclusive
<1>5. CASE /\ stage'[t] = "write" /\ m.axis = "pan" /\ l.axis = "tilt"
           /\ m.speed = IF LimitFailed(l) THEN [a \in Axes |-> 0] ELSE l.speed
  <2>1. \A a \in Axes : Absent(m, a) \/ Limits(m, a)
    <3>1. CASE LimitFailed(l)
      BY <1>5, <3>1 DEF Limits
    <3>2. CASE ~LimitFailed(l)
      <4>1. \A a \in Axes : Absent(l, a) \/ Limits(l, a)
        BY <1>5, <3>2 DEF Axes
      <4>2. \A a \in Axes : Limits(m, a) <=> Limits(l, a)
        BY <1>2, <1>5, <3>2 DEF Limits
      <4> QED  BY <1>3, <4>1, <4>2
    <3> QED  BY <3>1, <3>2
  <2>2. Bounded(stage[t], local[t])'
    BY <1>5, <2>1 DEF Bounded, Absent, Limits, m
  <2> QED  BY <1>1, <2>2, StepKeeps DEF BusInv, Exclusive
<1> QED  BY <1>2, <1>4, <1>5

LEMMA CheckLimitKeeps ==
  ASSUME BusInv, NEW t \in Threads, CheckLimit(t)
  PROVE  BusInv'
<1> DEFINE a == local[t].axis
<1>1. stage[t] = "limit" /\ stage[t] \in Exchanging /\ Reply(t) /\ drive' = drive
  BY DEF CheckLimit, Exchanging
<1>2. /\ local[t] \in Locals /\ link' = <<>> /\ holder' = holder /\ before' = before
      /\ Bounded("limit", local[t])
  BY <1>1, ReplyLemma
<1>3. a \in Axes /\ local[t].speed[a] \in Speeds
  BY <1>2 DEF Locals
<1>4. ASSUME NEW p \in Positions,
             Step(t, [local[t] EXCEPT !.limit[a] = Reading("Ok", p),
                                      !.speed[a] = Limited(@, p)])
      PROVE  BusInv'
  <2> DEFINE l == [local[t] EXCEPT !.limit[a] = Reading("Ok", p), !.speed[a] = Limited(@, p)]
  <2>1. /\ Limited(local[t].speed[a], p) \in Speeds
        /\ Limited(local[t].speed[a], p) > 0 => p < MaxPosition
        /\ Limited(local[t].speed[a], p) < 0 => p > MinPosition
    BY <1>3, LimitedLemma, BusAssumption
  <2>2. Reading("Ok", p) \in MotorReadings
    BY BusAssumption DEF Reading, MotorReadings, Statuses
  <2>3. /\ l \in Locals /\ l.call = local[t].call /\ l.axis = a
        /\ l.limit = [local[t].limit EXCEPT ![a] = Reading("Ok", p)]
        /\ l.speed = [local[t].speed EXCEPT ![a] = Limited(local[t].speed[a], p)]
    BY <1>2, <1>3, <2>1, <2>2 DEF Locals
  <2>4. Step(t, l)
    BY <1>4
  <2> HIDE DEF l
  <2>5. /\ l.limit[a].status = "Ok" /\ l.limit[a].value = p
        /\ l.speed[a] = Limited(local[t].speed[a], p)
        /\ \A b \in Axes \ {a} : l.limit[b] = local[t].limit[b]
                               /\ l.speed[b] = local[t].speed[b]
    BY <1>2, <1>3, <2>3 DEF Locals, Reading
  <2>6. Limits(l, a)
    BY <2>1, <2>5 DEF Limits
  <2>7. a = "tilt" => Absent(l, "pan") \/ LimitFailed(l) \/ Limits(l, "pan")
    <3> SUFFICES ASSUME a = "tilt"
                 PROVE  Absent(l, "pan") \/ LimitFailed(l) \/ Limits(l, "pan")
      OBVIOUS
    <3>1. /\ l.limit["pan"] = local[t].limit["pan"]
          /\ l.speed["pan"] = local[t].speed["pan"]
      BY <2>5 DEF Axes
    <3>2. Absent(local[t], "pan") \/ LimitFailed(local[t]) \/ Limits(local[t], "pan")
      BY <1>2 DEF Bounded
    <3>3. ~LimitFailed(local[t])
      BY <1>1, <1>2, ReplyLemma DEF Exchanges
    <3> QED  BY <2>3, <3>1, <3>2, <3>3 DEF Absent, Limits
  <2> QED  BY <1>1, <1>2, <2>3, <2>4, <2>6, <2>7, LimitStep
<1>5. CASE Step(t, [local[t] EXCEPT !.limit[a] = Reading("Error", 0),
                                    !.speed[a] = 0, !.failed = TRUE])
  <2> DEFINE l == [local[t] EXCEPT !.limit[a] = Reading("Error", 0),
                                   !.speed[a] = 0, !.failed = TRUE]
  <2>1. Reading("Error", 0) \in MotorReadings /\ 0 \in Speeds
    BY BusAssumption DEF Reading, MotorReadings, Statuses, Speeds
  <2>2. /\ l \in Locals /\ l.call = local[t].call /\ l.axis = a
        /\ l.limit = [local[t].limit EXCEPT ![a] = Reading("Error", 0)]
    BY <1>2, <1>3, <2>1 DEF Locals
  <2>3. Step(t, l)
    BY <1>5
  <2> HIDE DEF l
  <2>4. LimitFailed(l)
    BY <1>2, <1>3, <2>2 DEF LimitFailed, Locals, Reading
  <2> QED  BY <1>1, <1>2, <2>2, <2>3, <2>4, LimitStep
<1> QED  BY <1>4, <1>5 DEF CheckLimit

(* The end of a write of either axis. *)
LEMMA WriteStep ==
  ASSUME BusInv, NEW t \in Threads, stage[t] = "write", local[t] \in Locals,
         NEW status \in Statuses,
         Step(t, [local[t] EXCEPT !.wrote[local[t].axis] = status]),
         link' = <<>>, holder' = holder, before' = before,
         drive' \in [Gimbals -> [Axes -> Speeds]],
         \A b \in Axes \ {local[t].axis} :
           drive'[local[t].call.gimbal][b] = drive[local[t].call.gimbal][b],
         status = "Ok" =>
           /\ ~Absent(local[t], local[t].axis)
           /\ drive'[local[t].call.gimbal][local[t].axis] = local[t].speed[local[t].axis]
  PROVE  BusInv'
<1> DEFINE a == local[t].axis
           l == [local[t] EXCEPT !.wrote[a] = status]
           m == local'[t]
           g == local[t].call.gimbal
<1>1. stage[t] \in Exchanging /\ stage[t] \in Active
  BY DEF Exchanging, Active
<1>2. a \in Axes
  BY DEF Locals
<1>3. /\ l \in Locals /\ l.call = local[t].call /\ l.axis = a
      /\ l.limit = local[t].limit /\ l.speed = local[t].speed
      /\ l.wrote = [local[t].wrote EXCEPT ![a] = status]
  BY <1>2 DEF Locals
<1>4. Step(t, l)
  OBVIOUS
<1> HIDE DEF l
<1>5. /\ m.call = l.call /\ m.limit = l.limit /\ m.wrote = l.wrote /\ m.speed = l.speed
      /\ \/ stage'[t] = "write" /\ a = "pan" /\ m.axis = "tilt"
         \/ stage'[t] = StageAfter(t, l) /\ m.axis = "pan" /\ a = "tilt"
  <2> HIDE DEF m
  <2>1. /\ m.call = l.call /\ m.limit = l.limit /\ m.wrote = l.wrote
        /\ \/ /\ stage'[t] = stage[t] /\ l.axis = "pan" /\ m.axis = "tilt"
              /\ m.speed = l.speed
           \/ /\ stage'[t] = StageAfter(t, l) /\ m.axis = "pan"
              /\ l.axis = "tilt" \/ stage[t] = "read"
              /\ m.speed = IF stage[t] = "limit" /\ LimitFailed(l)
                           THEN [b \in Axes |-> 0] ELSE l.speed
    BY <1>1, <1>3, <1>4, StepLemma, ZenonT(30) DEF BusInv, m
  <2> QED  BY <1>3, <2>1
<1>6. \A b \in Axes : Absent(m, b) \/ Limits(m, b)
  <2>1. \A b \in Axes : Absent(local[t], b) \/ Limits(local[t], b)
    BY <1>1 DEF BusInv, Bounded
  <2> HIDE DEF m
  <2> QED  BY <1>3, <1>5, <2>1 DEF Absent, Limits
<1>7. /\ m.wrote[a] = status
      /\ \A b \in Axes \ {a} : m.wrote[b] = local[t].wrote[b]
  <2> HIDE DEF m
  <2> QED  BY <1>2, <1>3, <1>5 DEF Locals
<1>8. status = "Ok" => ~Absent(m, a) /\ drive'[g][a] = m.speed[a]
  <2> HIDE DEF m
  <2> QED  BY <1>3, <1>5 DEF Absent
<1>9. CASE stage'[t] = "write" /\ a = "pan" /\ m.axis = "tilt"
  <2>1. m.wrote["pan"] = "Ok" => ~Absent(m, "pan") /\ drive'[m.call.gimbal]["pan"] = m.speed["pan"]
    BY <1>3, <1>5, <1>7, <1>8, <1>9
  <2>2. Bounded(stage[t], local[t])'
    BY <1>6, <1>9, <2>1 DEF Bounded, Absent, Limits, Obeys
  <2> QED  BY <1>1, <1>3, <1>4, <2>2, StepKeeps
<1>10. CASE stage'[t] = StageAfter(t, l) /\ m.axis = "pan" /\ a = "tilt"
  <2>1. Ok(m) <=> Ok(l)
    <3> HIDE DEF m
    <3> QED  BY <1>5 DEF Ok
  <2>2. CASE stage'[t] = "stop"
    <3>1. ~Ok(m)
      BY <1>10, <2>1, <2>2 DEF StageAfter
    <3>2. Bounded(stage[t], local[t])'
      BY <2>2, <3>1 DEF Bounded, Ok, m
    <3> QED  BY <1>1, <1>3, <1>4, <3>2, StepKeeps
  <2>3. CASE stage'[t] = "done"
    <3>1. Ok(m) => \A b \in Axes : Limits(m, b) /\ drive'[m.call.gimbal][b] = m.speed[b]
      <4> SUFFICES ASSUME Ok(m), NEW b \in Axes
                   PROVE  Limits(m, b) /\ drive'[m.call.gimbal][b] = m.speed[b]
        OBVIOUS
      <4>1. m.wrote["pan"] = "Ok" /\ m.wrote["tilt"] = "Ok"
        BY DEF Ok, Axes
      <4>2. CASE b = "tilt"
        BY <1>3, <1>5, <1>6, <1>7, <1>8, <1>10, <4>1, <4>2
      <4>3. CASE b = "pan"
        <5>1. Obeys(local[t], "pan")
          BY <1>1, <1>10 DEF BusInv, Bounded
        <5>2. local[t].wrote["pan"] = "Ok"
          BY <1>7, <1>10, <4>1 DEF Axes
        <5>3. ~Absent(m, "pan") /\ drive[g]["pan"] = m.speed["pan"]
          <6> HIDE DEF m
          <6> QED  BY <1>3, <1>5, <5>1, <5>2 DEF Obeys, Absent
        <5>4. drive'[g]["pan"] = drive[g]["pan"]
          BY <1>10 DEF Axes
        <5> QED  BY <1>3, <1>5, <1>6, <4>3, <5>3, <5>4
      <4> QED  BY <4>2, <4>3 DEF Axes
    <3>2. Bounded(stage[t], local[t])'
      BY <2>3, <3>1 DEF Bounded, Ok, Limits, m
    <3> QED  BY <1>1, <1>3, <1>4, <3>2, StepKeeps
  <2> QED  BY <1>10, <2>2, <2>3 DEF StageAfter
<1> QED  BY <1>5, <1>9, <1>10

LEMMA DriveLemma ==
  ASSUME Exclusive, NEW g \in Gimbals, NEW a \in Axes, NEW v \in Speeds
  PROVE  /\ [drive EXCEPT ![g][a] = v] \in [Gimbals -> [Axes -> Speeds]]
         /\ [drive EXCEPT ![g][a] = v][g][a] = v
         /\ \A b \in Axes \ {a} : [drive EXCEPT ![g][a] = v][g][b] = drive[g][b]
<1>1. drive[g] \in [Axes -> Speeds]
  BY DEF Exclusive
<1>2. [drive[g] EXCEPT ![a] = v] \in [Axes -> Speeds]
  BY <1>1
<1> QED  BY <1>1, <1>2 DEF Exclusive

LEMMA WriteKeeps ==
  ASSUME BusInv, NEW t \in Threads, Write(t)
  PROVE  BusInv'
<1> DEFINE a == local[t].axis
           g == local[t].call.gimbal
<1>1. stage[t] = "write" /\ stage[t] \in Exchanging /\ Reply(t)
  BY DEF Write, Exchanging
<1>2. /\ local[t] \in Locals /\ link' = <<>> /\ holder' = holder /\ before' = before
      /\ Exchanges(t)
  BY <1>1, ReplyLemma
<1>3. a \in Axes /\ g \in Gimbals /\ local[t].speed[a] \in Speeds
  BY <1>2, BusAssumption DEF Locals
<1>4. ~Absent(local[t], a)
  BY <1>1, <1>2 DEF Exchanges, Absent, Drive, Gimbal
<1>5. PICK status \in Statuses :
        /\ Written(t, local[t].speed[a], status)
        /\ Step(t, [local[t] EXCEPT !.wrote[a] = status])
  BY DEF Write
<1>6. \/ drive' = [drive EXCEPT ![g][a] = local[t].speed[a]]
      \/ status # "Ok" /\ drive' = drive
  BY <1>5 DEF Written, Gimbal
<1>7. /\ drive' \in [Gimbals -> [Axes -> Speeds]]
      /\ \A b \in Axes \ {a} : drive'[g][b] = drive[g][b]
      /\ status = "Ok" => drive'[g][a] = local[t].speed[a]
  <2>1. Exclusive /\ drive \in [Gimbals -> [Axes -> Speeds]]
    BY DEF BusInv, Exclusive
  <2>2. CASE drive' = [drive EXCEPT ![g][a] = local[t].speed[a]]
    <3> HIDE DEF a, g
    <3>1. PICK v \in Speeds : v = local[t].speed[a]
      BY <1>3
    <3>2. drive' = [drive EXCEPT ![g][a] = v]
      BY <2>2, <3>1
    <3>3. /\ [drive EXCEPT ![g][a] = v] \in [Gimbals -> [Axes -> Speeds]]
          /\ [drive EXCEPT ![g][a] = v][g][a] = v
          /\ \A b \in Axes \ {a} : [drive EXCEPT ![g][a] = v][g][b] = drive[g][b]
      BY <1>3, <2>1, DriveLemma
    <3> QED  BY <3>1, <3>2, <3>3, Zenon
  <2>3. CASE status # "Ok" /\ drive' = drive
    BY <2>1, <2>3
  <2> QED  BY <1>6, <2>2, <2>3
<1> QED  BY <1>1, <1>2, <1>4, <1>5, <1>7, WriteStep

(* A step in stage "stop": the call has failed, and will have. *)
LEMMA StopStep ==
  ASSUME BusInv, NEW t \in Threads, stage[t] = "stop", local[t] \in Locals,
         NEW status \in Statuses,
         Step(t, [local[t] EXCEPT !.stopped[local[t].axis] = status]),
         link' = <<>>, holder' = holder, before' = before,
         drive' \in [Gimbals -> [Axes -> Speeds]]
  PROVE  BusInv'
<1> DEFINE l == [local[t] EXCEPT !.stopped[local[t].axis] = status]
           m == local'[t]
<1>1. stage[t] \in Exchanging /\ stage[t] \in Active
  BY DEF Exchanging, Active
<1>2. /\ l \in Locals /\ l.call = local[t].call /\ l.limit = local[t].limit
      /\ l.wrote = local[t].wrote
  BY DEF Locals
<1>3. Step(t, l)
  OBVIOUS
<1> HIDE DEF l
<1>4. /\ m.call = l.call /\ m.limit = l.limit /\ m.wrote = l.wrote
      /\ stage'[t] = "stop" \/ stage'[t] = StageAfter(t, l)
  BY <1>1, <1>2, <1>3, StepLemma, ZenonT(30) DEF BusInv
<1>5. StageAfter(t, l) = "done"
  BY DEF StageAfter
<1>6. ~Ok(local[t])
  BY <1>1 DEF BusInv, Bounded
<1>7. ~Ok(m)
  <2> HIDE DEF m
  <2> QED  BY <1>2, <1>4, <1>6 DEF Ok
<1>8. Bounded(stage[t], local[t])'
  BY <1>4, <1>5, <1>7 DEF Bounded, Ok, m
<1> QED  BY <1>1, <1>2, <1>3, <1>8, StepKeeps

LEMMA WriteStopKeeps ==
  ASSUME BusInv, NEW t \in Threads, WriteStop(t)
  PROVE  BusInv'
<1> DEFINE a == local[t].axis
           g == local[t].call.gimbal
<1>1. stage[t] = "stop" /\ stage[t] \in Exchanging /\ Reply(t)
  BY DEF WriteStop, Exchanging
<1>2. /\ local[t] \in Locals /\ link' = <<>> /\ holder' = holder /\ before' = before
  BY <1>1, ReplyLemma
<1>3. a \in Axes /\ g \in Gimbals /\ 0 \in Speeds
  BY <1>2, BusAssumption DEF Locals, Speeds
<1>4. PICK status \in Statuses :
        /\ Written(t, 0, status)
        /\ Step(t, [local[t] EXCEPT !.stopped[a] = status])
  BY DEF WriteStop
<1>5. drive' = [drive EXCEPT ![g][a] = 0] \/ drive' = drive
  BY <1>4 DEF Written, Gimbal
<1>6. drive' \in [Gimbals -> [Axes -> Speeds]]
  <2>1. Exclusive /\ drive \in [Gimbals -> [Axes -> Speeds]]
    BY DEF BusInv, Exclusive
  <2> HIDE DEF a, g
  <2>2. [drive EXCEPT ![g][a] = 0] \in [Gimbals -> [Axes -> Speeds]]
    BY <1>3, <2>1, DriveLemma
  <2> QED  BY <1>5, <2>1, <2>2, Zenon
<1> QED  BY <1>1, <1>2, <1>4, <1>6, StopStep

(* Without an exchange nothing has been asked. *)
LEMMA SkipKeeps ==
  ASSUME BusInv, NEW t \in Threads, Skip(t)
  PROVE  BusInv'
<1> DEFINE a == local[t].axis
           l == [local[t] EXCEPT
                  !.pose[a] = IF stage[t] = "read" THEN Reading("Unavailable", 0) ELSE @,
                  !.wrote[a] = IF stage[t] = "write" THEN "Unavailable" ELSE @,
                  !.stopped[a] = IF stage[t] = "stop" THEN "Unavailable" ELSE @]
<1>1. /\ stage[t] \in Exchanging /\ stage[t] \in Active /\ ~Exchanges(t)
      /\ holder' = holder /\ link' = link /\ drive' = drive /\ before' = before
  BY DEF Skip, Exchanging, Active
<1>2. local[t] \in Locals /\ Bounded(stage[t], local[t]) /\ link = <<>>
  BY <1>1 DEF BusInv, Exclusive, Wire
<1>3. Step(t, l)
  BY Zenon DEF Skip
<1>4. a \in Axes
  BY <1>2 DEF Locals
<1>5. drive' \in [Gimbals -> [Axes -> Speeds]]
  BY <1>1 DEF BusInv, Exclusive
<1>6. Reading("Unavailable", 0) \in MotorReadings /\ "Unavailable" \in Statuses
  BY DEF Reading, MotorReadings, Statuses
<1>7. CASE stage[t] = "read"
  <2>1. l \in Locals /\ l.call = local[t].call
    BY <1>2, <1>4, <1>6, <1>7 DEF Locals
  <2> HIDE DEF l
  <2>2. stage'[t] = "read" \/ stage'[t] = StageAfter(t, l)
    BY <1>1, <1>3, <1>7, <2>1, StepLemma DEF BusInv
  <2>3. local'[t].call = l.call
    BY <1>1, <1>3, <2>1, StepLemma DEF BusInv
  <2>4. Bounded(stage[t], local[t])'
    BY <1>7, <2>2, <2>3 DEF StageAfter, Bounded, Writes
  <2> QED  BY <1>1, <1>2, <1>3, <1>5, <2>1, <2>4, StepKeeps
<1>8. CASE stage[t] = "limit"
  <2>1. l = local[t]
    BY <1>2, <1>4, <1>8 DEF Locals
  <2>2. Absent(local[t], a) \/ LimitFailed(local[t]) \/ Limits(local[t], a)
    BY <1>1, <1>8 DEF Exchanges, Absent, Limits, Drive, Gimbal
  <2>3. a = "tilt" => Absent(local[t], "pan") \/ LimitFailed(local[t]) \/ Limits(local[t], "pan")
    BY <1>2, <1>8 DEF Bounded
  <2> HIDE DEF l
  <2>4. Step(t, local[t])
    BY <1>3, <2>1
  <2> QED  BY <1>1, <1>2, <1>8, <2>2, <2>3, <2>4, LimitStep
<1>9. CASE stage[t] = "write"
  <2>1. l = [local[t] EXCEPT !.wrote[a] = "Unavailable"]
    BY <1>2, <1>4, <1>9 DEF Locals
  <2> HIDE DEF l
  <2>2. Step(t, [local[t] EXCEPT !.wrote[a] = "Unavailable"])
    BY <1>3, <2>1
  <2> QED  BY <1>1, <1>2, <1>5, <1>6, <1>9, <2>2, WriteStep
<1>10. CASE stage[t] = "stop"
  <2>1. l = [local[t] EXCEPT !.stopped[a] = "Unavailable"]
    BY <1>2, <1>4, <1>10 DEF Locals
  <2> HIDE DEF l
  <2>2. Step(t, [local[t] EXCEPT !.stopped[a] = "Unavailable"])
    BY <1>3, <2>1
  <2> QED  BY <1>1, <1>2, <1>5, <1>6, <1>10, <2>2, StopStep
<1> QED  BY <1>1, <1>7, <1>8, <1>9, <1>10 DEF Exchanging

LEMMA RequestLemma ==
  ASSUME NEW l \in Locals, NEW a \in Axes, NeedsPlan(l)
  PROVE  Request(l, a) \in Int
<1>1. /\ l.call.speed[a] \in Int /\ l.call.target[a] \in Int /\ l.pose[a].value \in Int
      /\ l.call.kind \in {"read", "set", "seek", "mirror"}
  BY BusAssumption DEF Locals, MotorReadings
<1>2. Correction(l, a) \in Int
  BY <1>1, ClampLemma, BusAssumption DEF Correction, Speeds
<1>3. Scale \in Int
  BY BusAssumption
<1>4. Scale * l.call.speed[a] \in Int /\ Scale * Correction(l, a) \in Int
  BY <1>1, <1>2, <1>3
<1>5. /\ 0 \in Int /\ l.call.speed[a] + Scale * Correction(l, a) \in Int
      /\ l.call.kind \in {"set", "seek", "mirror"}
  BY <1>1, <1>4 DEF NeedsPlan
<1>6. CASE l.call.kind = "set"
  BY <1>4, <1>5, <1>6 DEF Request
<1>7. CASE l.call.kind = "seek"
  BY <1>4, <1>5, <1>7 DEF Request
<1>8. CASE l.call.kind = "mirror"
  BY <1>5, <1>8 DEF Request
<1> QED  BY <1>5, <1>6, <1>7, <1>8

LEMMA PlanKeeps ==
  ASSUME BusInv, NEW t \in Threads, Plan(t)
  PROVE  BusInv'
<1>1. /\ stage[t] = "plan" /\ stage[t] \in Active /\ stage' = [stage EXCEPT ![t] = "limit"]
      /\ UNCHANGED <<holder, link, drive, before>>
  BY DEF Plan, Active
<1>2. holder = t /\ local[t] \in Locals /\ local[t].axis = "pan" /\ NeedsPlan(local[t])
  BY <1>1 DEF BusInv, Exclusive
<1>3. ~local[t].asked /\ link = <<>>
  BY <1>1 DEF BusInv, Wire, Exchanges
<1>4. PICK young \in BOOLEAN :
        LET l0 == local[t]
            fresh == young /\ \A a \in Axes : l0.pose[a].status = "Ok"
            l == [l0 EXCEPT !.failed = NeedsPose(l0) /\ ~fresh,
                            !.within = fresh /\ WithinTolerance(l0)]
        IN local' = [local EXCEPT ![t] =
             [l EXCEPT !.speed =
                [a \in Axes |-> IF BothPresent(t) /\ l.call.finite
                                THEN Clamp(Request(l, a), MaxSpeed) ELSE 0]]]
  BY DEF Plan
<1> DEFINE fresh == young /\ \A a \in Axes : local[t].pose[a].status = "Ok"
           l == [local[t] EXCEPT !.failed = NeedsPose(local[t]) /\ ~fresh,
                                 !.within = fresh /\ WithinTolerance(local[t])]
           speed == [a \in Axes |-> IF BothPresent(t) /\ l.call.finite
                                    THEN Clamp(Request(l, a), MaxSpeed) ELSE 0]
           m == [l EXCEPT !.speed = speed]
<1>5. local' = [local EXCEPT ![t] = m]
  BY <1>4, Zenon
<1>6. l \in Locals /\ l.axis = "pan" /\ l.asked = local[t].asked /\ NeedsPlan(l)
  <2>1. /\ (NeedsPose(local[t]) /\ ~fresh) \in BOOLEAN
        /\ (fresh /\ WithinTolerance(local[t])) \in BOOLEAN
    BY Zenon DEF NeedsPose, WithinTolerance
  <2> HIDE DEF fresh
  <2> QED  BY <1>2, <2>1 DEF Locals, NeedsPlan
<1> HIDE DEF l
<1>7. speed \in [Axes -> Speeds]
  <2>1. \A a \in Axes : Clamp(Request(l, a), MaxSpeed) \in Speeds
    BY <1>6, RequestLemma, ClampLemma
  <2>2. 0 \in Speeds
    BY BusAssumption DEF Speeds
  <2> QED  BY <2>1, <2>2
<1> HIDE DEF speed
<1>8. m \in Locals /\ m.axis = "pan" /\ m.asked = local[t].asked
  BY <1>6, <1>7 DEF Locals
<1> HIDE DEF m
<1>9. local'[t] = m /\ stage'[t] = "limit"
  BY <1>1, <1>5 DEF BusInv, Exclusive
<1>10. \A u \in Threads \ {t} : /\ stage'[u] = stage[u] /\ local'[u] = local[u]
                               /\ stage[u] \notin Active
  BY <1>1, <1>2, <1>5 DEF BusInv, Exclusive
<1>11. stage' \in [Threads -> Inactive \union Active]
  BY <1>1 DEF BusInv, Exclusive, Active, Exchanging
<1>12. local' \in [Threads -> Locals \union {IdleLocal}]
  BY <1>5, <1>8 DEF BusInv, Exclusive
<1>13. Exclusive'
  BY <1>1, <1>2, <1>8, <1>9, <1>10, <1>11, <1>12 DEF BusInv, Exclusive, Active, Exchanging
<1>14. Wire'
  BY <1>1, <1>2, <1>3, <1>8, <1>9, <1>10 DEF Wire
<1>15. Bounded(stage[t], local[t])'
  BY <1>8, <1>9 DEF Bounded
<1> QED  BY <1>10, <1>13, <1>14, <1>15 DEF BusInv

LEMMA AskKeeps ==
  ASSUME BusInv, NEW t \in Threads, Ask(t)
  PROVE  BusInv'
<1>1. /\ Exchanges(t) /\ stage[t] \in Active /\ ~local[t].asked
      /\ local' = [local EXCEPT ![t].asked = TRUE]
      /\ link' = Append(link, <<t, Drive(t, local[t].axis)>>)
      /\ UNCHANGED <<holder, stage, drive, before>>
  BY DEF Ask, Exchanges, Active, Exchanging
<1>2. holder = t /\ local[t] \in Locals /\ link = <<>> /\ Bounded(stage[t], local[t])
  BY <1>1 DEF BusInv, Exclusive, Wire
<1> DEFINE m == [local[t] EXCEPT !.asked = TRUE]
<1>3. /\ m \in Locals /\ m.asked /\ m.call = local[t].call /\ m.axis = local[t].axis
      /\ m.limit = local[t].limit /\ m.wrote = local[t].wrote /\ m.speed = local[t].speed
  BY <1>2 DEF Locals
<1>4. local' = [local EXCEPT ![t] = m]
  BY <1>1
<1> HIDE DEF m
<1>5. local'[t] = m
  BY <1>4 DEF BusInv, Exclusive
<1>6. \A u \in Threads \ {t} : stage[u] \notin Active /\ local'[u] = local[u]
  BY <1>2, <1>4 DEF BusInv, Exclusive
<1>7. Exclusive'
  <2>1. local' \in [Threads -> Locals \union {IdleLocal}]
    BY <1>3, <1>4 DEF BusInv, Exclusive
  <2>2. stage[t] # "plan"
    BY <1>1 DEF Exchanges
  <2>3. \A u \in Threads : stage[u] # "plan"
    BY <1>6, <2>2 DEF Active
  <2> QED  BY <1>1, <1>2, <1>3, <1>5, <1>6, <2>1, <2>3 DEF BusInv, Exclusive
<1>8. Exchanges(t)'
  BY <1>1, <1>3, <1>5 DEF Exchanges, Drive, Gimbal, LimitFailed
<1>9. link' = << <<t, Drive(t, local[t].axis)'>> >>
  BY <1>1, <1>2, <1>3, <1>5 DEF Drive, Gimbal
<1>10. Wire'
  <2>1. holder' # NoThread
    BY <1>1, <1>2, BusAssumption
  <2> QED  BY <1>1, <1>3, <1>5, <1>6, <1>8, <1>9, <2>1 DEF Wire
<1>11. Bounded(stage[t], local[t])'
  BY <1>1, <1>2, <1>3, <1>5 DEF Bounded, Absent, LimitFailed, Limits, Obeys, Ok, Writes
<1> QED  BY <1>1, <1>6, <1>7, <1>10, <1>11 DEF BusInv

LEMMA FreshLemma ==
  ASSUME NEW c \in Calls
  PROVE  /\ Fresh(c) \in Locals /\ Fresh(c).call = c
         /\ Fresh(c).axis = "pan" /\ Fresh(c).asked = FALSE
<1>1. /\ NotRead \in MotorReadings /\ 0 \in Speeds /\ "NotAttempted" \in Statuses
      /\ "pan" \in Axes
  BY BusAssumption DEF NotRead, MotorReadings, Statuses, Speeds, Axes
<1> QED  BY <1>1 DEF Fresh, Locals

LEMMA AcquireKeeps ==
  ASSUME BusInv, NEW t \in Threads, NEW c \in Calls, Acquire(t, c)
  PROVE  BusInv'
<1> DEFINE s == IF c.kind = "set" THEN "plan" ELSE "read"
<1>1. /\ stage[t] = "want" /\ holder = NoThread /\ holder' = t
      /\ local' = [local EXCEPT ![t] = Fresh(c)] /\ stage' = [stage EXCEPT ![t] = s]
      /\ before' = drive[c.gimbal] /\ link' = link /\ drive' = drive
  BY DEF Acquire
<1>2. s \in {"plan", "read"} /\ s \in Active /\ (s = "plan" => c.kind = "set")
  BY DEF Active, Exchanging
<1> HIDE DEF s
<1>3. /\ Fresh(c) \in Locals /\ Fresh(c).call = c
      /\ Fresh(c).axis = "pan" /\ Fresh(c).asked = FALSE
  BY FreshLemma
<1>4. stage'[t] = s /\ local'[t] = Fresh(c)
  BY <1>1 DEF BusInv, Exclusive
<1>5. \A u \in Threads \ {t} : stage'[u] = stage[u] /\ local'[u] = local[u]
  BY <1>1 DEF BusInv, Exclusive
<1>6. \A u \in Threads : stage[u] \notin Active
  BY <1>1, BusAssumption DEF BusInv, Exclusive
<1>7. Exclusive'
  <2>1. stage' \in [Threads -> Inactive \union Active]
    BY <1>1, <1>2 DEF BusInv, Exclusive
  <2>2. local' \in [Threads -> Locals \union {IdleLocal}]
    BY <1>1, <1>3 DEF BusInv, Exclusive
  <2>3. before' \in [Axes -> Speeds]
    <3>1. c.gimbal \in Gimbals
      BY BusAssumption
    <3> QED  BY <1>1, <3>1 DEF BusInv, Exclusive
  <2>4. NeedsPlan(Fresh(c)) \/ s = "read"
    BY <1>2, <1>3 DEF NeedsPlan
  <2>5. \A u \in Threads : stage'[u] \in Active <=> holder' = u
    BY <1>1, <1>2, <1>4, <1>5, <1>6
  <2>6. \A u \in Threads : stage'[u] \in Active => local'[u] \in Locals
    BY <1>3, <1>4, <1>5, <1>6
  <2>7. \A u \in Threads : stage'[u] = "plan" => local'[u].axis = "pan" /\ NeedsPlan(local'[u])
    <3>1. \A u \in Threads \ {t} : stage'[u] # "plan"
      BY <1>5, <1>6 DEF Active
    <3> QED  BY <1>2, <1>3, <1>4, <2>4, <3>1
  <2>8. drive' \in [Gimbals -> [Axes -> Speeds]]
    BY <1>1 DEF BusInv, Exclusive
  <2> QED  BY <1>1, <2>1, <2>2, <2>3, <2>5, <2>6, <2>7, <2>8 DEF Exclusive
<1>8. Wire'
  <2>1. link' = <<>> /\ holder' # NoThread
    BY <1>1, BusAssumption DEF BusInv, Wire
  <2> QED  BY <1>3, <1>4, <1>5, <1>6, <2>1 DEF Wire
<1>9. Bounded(stage[t], local[t])'
  BY <1>2, <1>4 DEF Bounded
<1> QED  BY <1>5, <1>6, <1>7, <1>8, <1>9 DEF BusInv

LEMMA ReleaseKeeps ==
  ASSUME BusInv, NEW t \in Threads, Release(t)
  PROVE  BusInv'
<1>1. /\ stage[t] = "done" /\ stage[t] \in Active /\ holder' = NoThread
      /\ stage' = [stage EXCEPT ![t] = "idle"] /\ local' = [local EXCEPT ![t] = IdleLocal]
      /\ UNCHANGED <<link, drive, before>>
  BY DEF Release, Active
<1>2. holder = t /\ ~local[t].asked /\ link = <<>>
  BY <1>1 DEF BusInv, Exclusive, Wire, Exchanges
<1>3. "idle" \notin Active
  BY DEF Active, Exchanging
<1>4. \A u \in Threads : stage'[u] \notin Active
  BY <1>1, <1>2, <1>3 DEF BusInv, Exclusive
<1>5. Exclusive'
  <2>1. stage' \in [Threads -> Inactive \union Active]
    BY <1>1 DEF BusInv, Exclusive, Inactive
  <2>2. local' \in [Threads -> Locals \union {IdleLocal}]
    BY <1>1 DEF BusInv, Exclusive
  <2>3. \A u \in Threads : stage'[u] # "plan"
    BY <1>4 DEF Active
  <2> QED  BY <1>1, <1>4, <2>1, <2>2, <2>3, BusAssumption DEF BusInv, Exclusive
<1>6. Wire'
  BY <1>1, <1>2, <1>4 DEF Wire
<1> QED  BY <1>4, <1>5, <1>6 DEF BusInv

LEMMA CallKeeps ==
  ASSUME BusInv, NEW t \in Threads, Call(t)
  PROVE  BusInv'
<1>1. /\ stage[t] \notin Active /\ stage' = [stage EXCEPT ![t] = "want"]
      /\ UNCHANGED <<holder, local, link, drive, before>> /\ "want" \notin Active
  BY DEF Call, Active, Exchanging
<1>2. \A u \in Threads : /\ stage'[u] \in Active <=> stage[u] \in Active
                        /\ stage'[u] \in Active => stage'[u] = stage[u] /\ u # t
  BY <1>1 DEF BusInv, Exclusive
<1>3. Exclusive'
  <2>1. stage' \in [Threads -> Inactive \union Active]
    BY <1>1 DEF BusInv, Exclusive, Inactive
  <2>2. \A u \in Threads : stage'[u] = "plan" => stage[u] = "plan"
    <3> TAKE u \in Threads
    <3>1. stage'[u] = IF u = t THEN "want" ELSE stage[u]
      BY <1>1 DEF BusInv, Exclusive
    <3> QED  BY <3>1
  <2>3. /\ \A u \in Threads : stage'[u] \in Active <=> holder' = u
        /\ \A u \in Threads : stage'[u] \in Active => local'[u] \in Locals
    BY <1>1, <1>2 DEF BusInv, Exclusive
  <2>4. \A u \in Threads : stage'[u] = "plan" => local'[u].axis = "pan" /\ NeedsPlan(local'[u])
    BY <1>1, <2>2 DEF BusInv, Exclusive
  <2>5. /\ holder' \in Threads \union {NoThread}
        /\ local' \in [Threads -> Locals \union {IdleLocal}]
        /\ drive' \in [Gimbals -> [Axes -> Speeds]] /\ before' \in [Axes -> Speeds]
    BY <1>1 DEF BusInv, Exclusive
  <2> QED  BY <2>1, <2>3, <2>4, <2>5 DEF Exclusive
<1>4. Wire'
  <2>1. \A u \in Threads : stage'[u] \in Active => (Exchanges(u)' <=> Exchanges(u))
    BY <1>1, <1>2 DEF Exchanges, Drive, Gimbal
  <2> QED  BY <1>1, <1>2, <2>1 DEF BusInv, Wire, Drive, Gimbal
<1>5. \A u \in Threads : stage'[u] \in Active => Bounded(stage[u], local[u])'
  BY <1>1, <1>2 DEF BusInv, Bounded, Obeys
<1> QED  BY <1>3, <1>4, <1>5 DEF BusInv

-----------------------------------------------------------------------------
(* The theorems.                                                           *)

THEOREM BusInvariant == Spec => []BusInv
<1>1. Init => BusInv
  <2> SUFFICES ASSUME Init  PROVE BusInv
    OBVIOUS
  <2>1. \A t \in Threads : stage[t] \notin Active /\ stage[t] # "plan" /\ holder # t
    BY BusAssumption DEF Init, Active, Exchanging
  <2>2. 0 \in Speeds /\ "idle" \in Inactive
    BY BusAssumption DEF Speeds, Inactive
  <2> QED  BY <2>1, <2>2 DEF Init, BusInv, Exclusive, Wire
<1>2. BusInv /\ [Next]_vars => BusInv'
  <2> SUFFICES ASSUME BusInv, [Next]_vars  PROVE BusInv'
    OBVIOUS
  <2>1. ASSUME NEW t \in Threads, Call(t)  PROVE BusInv'
    BY <2>1, CallKeeps
  <2>2. ASSUME NEW t \in Threads, NEW c \in Calls, Acquire(t, c)  PROVE BusInv'
    BY <2>2, AcquireKeeps
  <2>3. ASSUME NEW t \in Threads, Inside(t)  PROVE BusInv'
    BY <2>3, PlanKeeps, AskKeeps, ReadPoseKeeps, CheckLimitKeeps, WriteKeeps, WriteStopKeeps,
       SkipKeeps, ReleaseKeeps DEF Inside
  <2>4. CASE UNCHANGED vars
    <3>1. \A t \in Threads : /\ Exchanges(t)' <=> Exchanges(t)
                           /\ Bounded(stage[t], local[t])' <=> Bounded(stage[t], local[t])
      BY <2>4 DEF vars, Exchanges, Bounded, Obeys, Drive, Gimbal
    <3> QED  BY <2>4, <3>1 DEF vars, BusInv, Exclusive, Wire, Drive, Gimbal
  <2> QED  BY <2>1, <2>2, <2>3, <2>4 DEF Next
<1> QED  BY <1>1, <1>2, PTL DEF Spec

(* Stages, locals and speeds are what their types say. *)
THEOREM TypeCorrect == Spec => []TypeOK
<1>1. BusInv => TypeOK
  BY DEF BusInv, Exclusive, TypeOK, Active, Inactive, Exchanging, Locals
<1> QED  BY <1>1, BusInvariant, PTL

(***************************************************************************)
(* The mutex keeps requests and replies together: whatever fails and       *)
(* however the threads take turns, a reply is its own request's.           *)
(***************************************************************************)
THEOREM RepliesCorrect == Spec => []RepliesAreMine
<1>1. BusInv => RepliesAreMine
  BY DEF BusInv, Wire, RepliesAreMine, Active, Exchanging
<1> QED  BY <1>1, BusInvariant, PTL

(***************************************************************************)
(* A call that reports success has left no calibrated axis going outward   *)
(* from a limit, by a position read in the same call.                      *)
(***************************************************************************)
THEOREM LimitsCorrect == Spec => []LimitsAreReadInTheCall
<1>1. BusInv => LimitsAreReadInTheCall
  <2> SUFFICES ASSUME BusInv, NEW t \in Threads, Done(t), Writes(local[t]), Ok(local[t]),
                      NEW a \in Axes, drive[Gimbal(t)][a] # 0, Drive(t, a) \in Calibrated
               PROVE  /\ local[t].limit[a].status = "Ok"
                      /\ drive[Gimbal(t)][a] > 0 => local[t].limit[a].value < MaxPosition
                      /\ drive[Gimbal(t)][a] < 0 => local[t].limit[a].value > MinPosition
    BY DEF LimitsAreReadInTheCall
  <2>1. Bounded("done", local[t])
    BY DEF BusInv, Done, Active
  <2>2. Limits(local[t], a) /\ drive[Gimbal(t)][a] = local[t].speed[a]
    BY <2>1 DEF Bounded, Gimbal
  <2> QED  BY <2>2 DEF Limits, Drive, Gimbal
<1> QED  BY <1>1, BusInvariant, PTL

-----------------------------------------------------------------------------
(* What a call does to its drives.                                         *)

Held(l) == \A a \in Axes : l.speed[a] = 0

(* Axis a has not been written; has been told its speed, d being the       *)
(* velocities the gimbal's drives obey and b those of before the call; has *)
(* then been told to stop.                                                 *)
Untouched(l, a, d, b) ==
  d[a] = b[a] /\ l.wrote[a] = "NotAttempted" /\ l.stopped[a] = "NotAttempted"

Told(l, a, d, b) ==
  /\ l.stopped[a] = "NotAttempted"
  /\ \/ l.wrote[a] = "Ok" /\ d[a] = l.speed[a]
     \/ l.wrote[a] = "Error" /\ d[a] \in {l.speed[a], b[a]}
     \/ l.wrote[a] = "Unavailable" /\ Absent(l, a)

Halted(l, a, d) ==
  \/ l.stopped[a] = "Ok" /\ d[a] = 0
  \/ l.stopped[a] = "Error"
  \/ l.stopped[a] = "Unavailable" /\ Absent(l, a)

(* A seek that is to stop at its target and is there asks for no motion. *)
Arrival(l) == l.within => l.call.kind = "seek" /\ (l.call.stop => Held(l))

(* Nothing is written until the limits are read; then pan is told before   *)
(* tilt.  A call ends after its read; or after its writes, if they have    *)
(* succeeded or ask for no motion; or else after its stops.                *)
Effect(s, l, d, b) ==
  /\ Arrival(l)
  /\ s \in {"plan", "limit", "write", "stop"} => Writes(l)
  /\ s \in {"read", "plan", "limit"} => \A a \in Axes : Untouched(l, a, d, b)
  /\ s = "write" =>
       /\ Untouched(l, "tilt", d, b)
       /\ IF l.axis = "pan" THEN Untouched(l, "pan", d, b) ELSE Told(l, "pan", d, b)
  /\ s = "stop" =>
       /\ ~Ok(l) /\ ~Held(l) /\ Told(l, "tilt", d, b)
       /\ IF l.axis = "pan" THEN Told(l, "pan", d, b) ELSE Halted(l, "pan", d)
  /\ s = "done" =>
       \/ ~Writes(l) /\ \A a \in Axes : Untouched(l, a, d, b)
       \/ Writes(l) /\ (Ok(l) \/ Held(l)) /\ \A a \in Axes : Told(l, a, d, b)
       \/ Writes(l) /\ ~Ok(l) /\ ~Held(l) /\ \A a \in Axes : Halted(l, a, d)

MissingStill == \A g \in Gimbals, a \in Axes : <<g, a>> \in Missing => drive[g][a] = 0

EffectInv ==
  /\ MissingStill
  /\ \A t \in Threads : stage[t] \in Active =>
       Effect(stage[t], local[t], drive[local[t].call.gimbal], before)

(* The same right after axis l.axis has been through its exchange. *)
Exchanged(s, l, d, b) ==
  /\ Arrival(l)
  /\ s # "read" => Writes(l)
  /\ s \in {"read", "limit"} => \A a \in Axes : Untouched(l, a, d, b)
  /\ s = "write" =>
       /\ Told(l, l.axis, d, b)
       /\ IF l.axis = "pan" THEN Untouched(l, "tilt", d, b) ELSE Told(l, "pan", d, b)
  /\ s = "stop" =>
       /\ ~Ok(l) /\ ~Held(l) /\ Halted(l, l.axis, d)
       /\ IF l.axis = "pan" THEN Told(l, "tilt", d, b) ELSE Halted(l, "pan", d)

LEMMA StepEffect ==
  ASSUME Exclusive, NEW t \in Threads, stage[t] \in Exchanging, NEW l \in Locals, Step(t, l),
         NEW d, NEW b, Exchanged(stage[t], l, d, b)
  PROVE  Effect(stage'[t], local'[t], d, b)
<1> DEFINE m == local'[t]
           s == stage'[t]
<1>1. /\ m.call = l.call /\ m.within = l.within /\ m.limit = l.limit /\ m.wrote = l.wrote
      /\ m.stopped = l.stopped
      /\ \/ s = stage[t] /\ l.axis = "pan" /\ m.axis = "tilt" /\ m.speed = l.speed
         \/ /\ s = StageAfter(t, l) /\ m.axis = "pan" /\ (l.axis = "tilt" \/ stage[t] = "read")
            /\ m.speed = IF stage[t] = "limit" /\ LimitFailed(l)
                         THEN [a \in Axes |-> 0] ELSE l.speed
  BY StepLemma, ZenonT(30)
<1> HIDE DEF m, s
<1>2. /\ Writes(l) => Writes(m)
      /\ ~Writes(l) => ~Writes(m)
      /\ Ok(l) => Ok(m)
      /\ ~Ok(l) => ~Ok(m)
  BY <1>1 DEF Writes, Ok
<1>3. /\ Held(l) => Held(m)
      /\ m.speed = l.speed /\ ~Held(l) => ~Held(m)
  BY <1>1 DEF Held
<1>4. ASSUME NEW a \in Axes
      PROVE  /\ Untouched(l, a, d, b) => Untouched(m, a, d, b)
             /\ Halted(l, a, d) => Halted(m, a, d)
             /\ m.speed = l.speed /\ Told(l, a, d, b) => Told(m, a, d, b)
  BY <1>1 DEF Untouched, Halted, Told, Absent
<1>5. Arrival(m)
  BY <1>1, <1>3 DEF Exchanged, Arrival
<1>6. CASE stage[t] = "read"
  <2>1. \/ s = "read"
        \/ s = "plan" /\ Writes(l)
        \/ s = "done" /\ ~Writes(l)
    BY <1>1, <1>6 DEF StageAfter, Writes
  <2>2. \A a \in Axes : Untouched(m, a, d, b)
    BY <1>4, <1>6 DEF Exchanged
  <2>3. Effect(s, m, d, b)
    BY <1>2, <1>5, <2>1, <2>2 DEF Effect
  <2> QED  BY <2>3 DEF m, s
<1>7. CASE stage[t] = "limit"
  <2>1. \/ s = "limit"
        \/ s = "write" /\ m.axis = "pan"
    BY <1>1, <1>7 DEF StageAfter
  <2>2. Writes(m) /\ \A a \in Axes : Untouched(m, a, d, b)
    BY <1>2, <1>4, <1>7 DEF Exchanged
  <2>3. Effect(s, m, d, b)
    BY <1>5, <2>1, <2>2 DEF Effect, Axes
  <2> QED  BY <2>3 DEF m, s
<1>8. CASE stage[t] = "write"
  <2>1. m.speed = l.speed
    BY <1>1, <1>8
  <2>2. \/ s = "write" /\ l.axis = "pan" /\ m.axis = "tilt"
        \/ s = "stop" /\ l.axis = "tilt" /\ m.axis = "pan" /\ ~Ok(l) /\ ~Held(l)
        \/ s = "done" /\ l.axis = "tilt" /\ (Ok(l) \/ Held(l))
    BY <1>1, <1>8 DEF StageAfter, Held
  <2>3. Writes(m) /\ "pan" \in Axes /\ "tilt" \in Axes
    BY <1>2, <1>8 DEF Exchanged, Axes
  <2>4. /\ l.axis = "pan" => Told(m, "pan", d, b) /\ Untouched(m, "tilt", d, b)
        /\ l.axis = "tilt" => Told(m, "pan", d, b) /\ Told(m, "tilt", d, b)
    BY <1>4, <1>8, <2>1, <2>3 DEF Exchanged
  <2>5. s = "done" => \A a \in Axes : Told(m, a, d, b)
    BY <2>2, <2>4 DEF Axes
  <2>6. Effect(s, m, d, b)
    BY <1>2, <1>3, <1>5, <2>1, <2>2, <2>3, <2>4, <2>5 DEF Effect
  <2> QED  BY <2>6 DEF m, s
<1>9. CASE stage[t] = "stop"
  <2>1. m.speed = l.speed
    BY <1>1, <1>9
  <2>2. \/ s = "stop" /\ l.axis = "pan" /\ m.axis = "tilt"
        \/ s = "done" /\ l.axis = "tilt"
    BY <1>1, <1>9 DEF StageAfter
  <2>3. Writes(m) /\ ~Ok(m) /\ ~Held(m) /\ "pan" \in Axes /\ "tilt" \in Axes
    BY <1>2, <1>3, <1>9, <2>1 DEF Exchanged, Axes
  <2>4. /\ l.axis = "pan" => Halted(m, "pan", d) /\ Told(m, "tilt", d, b)
        /\ l.axis = "tilt" => Halted(m, "pan", d) /\ Halted(m, "tilt", d)
    BY <1>4, <1>9, <2>1, <2>3 DEF Exchanged
  <2>5. s = "done" => \A a \in Axes : Halted(m, a, d)
    BY <2>2, <2>4 DEF Axes
  <2>6. Effect(s, m, d, b)
    BY <1>5, <2>2, <2>3, <2>4, <2>5 DEF Effect
  <2> QED  BY <2>6 DEF m, s
<1> QED  BY <1>6, <1>7, <1>8, <1>9 DEF Exchanging

(* The thread that has the bus is the only one with a call. *)
LEMMA HolderEffect ==
  ASSUME Exclusive', MissingStill', NEW t \in Threads, stage'[t] \in Active,
         Effect(stage'[t], local'[t], drive'[local'[t].call.gimbal], before')
  PROVE  EffectInv'
<1>1. \A u \in Threads \ {t} : stage'[u] \notin Active
  BY DEF Exclusive
<1> QED  BY <1>1 DEF EffectInv

KeepsCall(t) == local'[t].call = local[t].call

LEMMA ExchangeEffect ==
  ASSUME BusInv, Exclusive', MissingStill', NEW t \in Threads, stage[t] \in Exchanging,
         NEW l \in Locals, Step(t, l), before' = before,
         Exchanged(stage[t], l, drive'[l.call.gimbal], before)
  PROVE  EffectInv' /\ local'[t].call = l.call
<1>1. stage'[t] \in Active /\ local'[t].call = l.call
  BY StepLemma DEF BusInv
<1>2. Effect(stage'[t], local'[t], drive'[l.call.gimbal], before)
  BY StepEffect DEF BusInv
<1> QED  BY <1>1, <1>2, HolderEffect

(* A pose or a limit has been read, or needs no reading. *)
LEMMA ReadEffect ==
  ASSUME BusInv, EffectInv, Exclusive', NEW t \in Threads, stage[t] \in {"read", "limit"},
         NEW l \in Locals, Step(t, l),
         l.call = local[t].call, l.within = local[t].within, l.wrote = local[t].wrote,
         l.stopped = local[t].stopped, Held(local[t]) => Held(l),
         drive' = drive, before' = before
  PROVE  EffectInv' /\ KeepsCall(t)
<1>1. stage[t] \in Active /\ stage[t] \in Exchanging
  BY DEF Active, Exchanging
<1>2. Effect(stage[t], local[t], drive[l.call.gimbal], before)
  BY <1>1 DEF EffectInv
<1>3. Exchanged(stage[t], l, drive'[l.call.gimbal], before)
  BY <1>2 DEF Effect, Exchanged, Arrival, Writes, Untouched
<1>4. MissingStill'
  BY DEF EffectInv, MissingStill
<1> QED  BY <1>1, <1>3, <1>4, ExchangeEffect DEF KeepsCall

LEMMA ReadPoseEffect ==
  ASSUME BusInv, EffectInv, Exclusive', NEW t \in Threads, ReadPose(t)
  PROVE  EffectInv' /\ KeepsCall(t)
<1>1. stage[t] = "read" /\ Reply(t) /\ drive' = drive
  BY DEF ReadPose
<1>2. local[t] \in Locals /\ before' = before
  BY <1>1, ReplyLemma DEF Exchanging
<1>3. PICK r \in MotorReadings : Step(t, [local[t] EXCEPT !.pose[local[t].axis] = r])
  <2>1. \A p \in Positions : Reading("Ok", p) \in MotorReadings
    BY BusAssumption DEF Reading, MotorReadings, Statuses
  <2>2. Reading("Error", 0) \in MotorReadings
    BY DEF Reading, MotorReadings, Statuses
  <2> QED  BY <2>1, <2>2 DEF ReadPose
<1> DEFINE l == [local[t] EXCEPT !.pose[local[t].axis] = r]
<1>4. /\ l \in Locals /\ l.call = local[t].call /\ l.within = local[t].within
      /\ l.wrote = local[t].wrote /\ l.stopped = local[t].stopped /\ l.speed = local[t].speed
  BY <1>2 DEF Locals
<1>5. Step(t, l)
  BY <1>3
<1> HIDE DEF l
<1>6. Held(local[t]) => Held(l)
  BY <1>4 DEF Held
<1> QED  BY <1>1, <1>2, <1>4, <1>5, <1>6, ReadEffect

LEMMA CheckLimitEffect ==
  ASSUME BusInv, EffectInv, Exclusive', NEW t \in Threads, CheckLimit(t)
  PROVE  EffectInv' /\ KeepsCall(t)
<1> DEFINE a == local[t].axis
<1>1. stage[t] = "limit" /\ Reply(t) /\ drive' = drive
  BY DEF CheckLimit
<1>2. local[t] \in Locals /\ before' = before
  BY <1>1, ReplyLemma DEF Exchanging
<1>3. a \in Axes /\ local[t].speed[a] \in Speeds
  BY <1>2 DEF Locals
<1>4. ASSUME NEW p \in Positions,
             Step(t, [local[t] EXCEPT !.limit[a] = Reading("Ok", p),
                                      !.speed[a] = Limited(@, p)])
      PROVE  EffectInv' /\ KeepsCall(t)
  <2> DEFINE l == [local[t] EXCEPT !.limit[a] = Reading("Ok", p), !.speed[a] = Limited(@, p)]
  <2>1. /\ Limited(local[t].speed[a], p) \in Speeds /\ Limited(0, p) = 0
        /\ Reading("Ok", p) \in MotorReadings
    BY <1>3, LimitedLemma, BusAssumption DEF Limited, Reading, MotorReadings, Statuses
  <2>2. /\ l \in Locals /\ l.call = local[t].call /\ l.within = local[t].within
        /\ l.wrote = local[t].wrote /\ l.stopped = local[t].stopped
        /\ l.speed = [local[t].speed EXCEPT ![a] = Limited(local[t].speed[a], p)]
    BY <1>2, <1>3, <2>1 DEF Locals
  <2>3. Step(t, l)
    BY <1>4
  <2> HIDE DEF l
  <2>4. Held(local[t]) => Held(l)
    BY <1>2, <2>1, <2>2 DEF Held, Locals
  <2> QED  BY <1>1, <1>2, <2>2, <2>3, <2>4, ReadEffect
<1>5. CASE Step(t, [local[t] EXCEPT !.limit[a] = Reading("Error", 0),
                                    !.speed[a] = 0, !.failed = TRUE])
  <2> DEFINE l == [local[t] EXCEPT !.limit[a] = Reading("Error", 0),
                                   !.speed[a] = 0, !.failed = TRUE]
  <2>1. Reading("Error", 0) \in MotorReadings /\ 0 \in Speeds
    BY BusAssumption DEF Reading, MotorReadings, Statuses, Speeds
  <2>2. /\ l \in Locals /\ l.call = local[t].call /\ l.within = local[t].within
        /\ l.wrote = local[t].wrote /\ l.stopped = local[t].stopped
        /\ l.speed = [local[t].speed EXCEPT ![a] = 0]
    BY <1>2, <1>3, <2>1 DEF Locals
  <2>3. Step(t, l)
    BY <1>5
  <2> HIDE DEF l
  <2>4. Held(local[t]) => Held(l)
    BY <1>2, <2>2 DEF Held, Locals
  <2> QED  BY <1>1, <1>2, <2>2, <2>3, <2>4, ReadEffect
<1> QED  BY <1>4, <1>5 DEF CheckLimit

(* What v does to the drives when it is written to axis a of gimbal g. *)
LEMMA DriveEffect ==
  ASSUME Exclusive, MissingStill, NEW g \in Gimbals, NEW a \in Axes, NEW v \in Speeds,
         <<g, a>> \notin Missing,
         drive' = [drive EXCEPT ![g][a] = v] \/ drive' = drive
  PROVE  /\ MissingStill'
         /\ drive'[g][a] \in {v, drive[g][a]}
         /\ \A b \in Axes \ {a} : drive'[g][b] = drive[g][b]
<1>1. CASE drive' = drive
  BY <1>1 DEF MissingStill
<1>2. CASE drive' = [drive EXCEPT ![g][a] = v]
  <2>1. \A h \in Gimbals \ {g} : drive'[h] = drive[h]
    BY <1>2 DEF Exclusive
  <2>2. drive'[g][a] = v /\ \A b \in Axes \ {a} : drive'[g][b] = drive[g][b]
    <3>1. /\ [drive EXCEPT ![g][a] = v][g][a] = v
          /\ \A b \in Axes \ {a} : [drive EXCEPT ![g][a] = v][g][b] = drive[g][b]
      BY DriveLemma
    <3> QED  BY <1>2, <3>1, Zenon
  <2>3. ASSUME NEW h \in Gimbals, NEW b \in Axes, <<h, b>> \in Missing
        PROVE  drive'[h][b] = 0
    <3>1. drive[h][b] = 0 /\ (h # g \/ b # a)
      BY <2>3 DEF MissingStill
    <3> QED  BY <2>1, <2>2, <3>1
  <2> QED  BY <2>2, <2>3 DEF MissingStill
<1> QED  BY <1>1, <1>2

(* The write of either axis: obeyed if it was confirmed. *)
LEMMA WriteStepEffect ==
  ASSUME BusInv, EffectInv, Exclusive', MissingStill', NEW t \in Threads, stage[t] = "write",
         local[t] \in Locals, NEW status \in {"Ok", "Error", "Unavailable"},
         Step(t, [local[t] EXCEPT !.wrote[local[t].axis] = status]), before' = before,
         \A b \in Axes \ {local[t].axis} :
           drive'[local[t].call.gimbal][b] = drive[local[t].call.gimbal][b],
         status = "Ok" =>
           drive'[local[t].call.gimbal][local[t].axis] = local[t].speed[local[t].axis],
         status = "Error" =>
           drive'[local[t].call.gimbal][local[t].axis]
             \in {local[t].speed[local[t].axis], drive[local[t].call.gimbal][local[t].axis]},
         status = "Unavailable" => Absent(local[t], local[t].axis)
  PROVE  EffectInv' /\ KeepsCall(t)
<1> DEFINE a == local[t].axis
           l == [local[t] EXCEPT !.wrote[a] = status]
           c == drive[local[t].call.gimbal]
           d == drive'[local[t].call.gimbal]
<1>1. stage[t] \in Active /\ stage[t] \in Exchanging
  BY DEF Active, Exchanging
<1>2. Effect("write", local[t], c, before)
  BY <1>1 DEF EffectInv
<1>3. a \in Axes
  BY DEF Locals
<1>4. /\ l \in Locals /\ l.call = local[t].call /\ l.axis = a /\ l.within = local[t].within
      /\ l.speed = local[t].speed /\ l.stopped = local[t].stopped /\ l.limit = local[t].limit
      /\ l.wrote = [local[t].wrote EXCEPT ![a] = status]
  BY <1>3 DEF Locals, Statuses
<1>5. Step(t, l)
  OBVIOUS
<1> HIDE DEF l
<1>6. l.wrote[a] = status /\ \A b \in Axes \ {a} : l.wrote[b] = local[t].wrote[b]
  BY <1>3, <1>4 DEF Locals
<1>7. Untouched(local[t], a, c, before)
  BY <1>2, <1>3 DEF Effect, Axes
<1>8. Told(l, a, d, before)
  BY <1>4, <1>6, <1>7 DEF Told, Untouched, Absent
<1>9. IF a = "pan" THEN Untouched(l, "tilt", d, before) ELSE Told(l, "pan", d, before)
  BY <1>2, <1>4, <1>6 DEF Effect, Told, Untouched, Absent, Axes
<1>10. Arrival(l) /\ Writes(l)
  BY <1>2, <1>4 DEF Effect, Arrival, Writes, Held
<1>11. Exchanged(stage[t], l, drive'[l.call.gimbal], before)
  BY <1>4, <1>8, <1>9, <1>10 DEF Exchanged
<1> QED  BY <1>1, <1>4, <1>5, <1>11, ExchangeEffect DEF KeepsCall

LEMMA StopStepEffect ==
  ASSUME BusInv, EffectInv, Exclusive', MissingStill', NEW t \in Threads, stage[t] = "stop",
         local[t] \in Locals, NEW status \in {"Ok", "Error", "Unavailable"},
         Step(t, [local[t] EXCEPT !.stopped[local[t].axis] = status]), before' = before,
         \A b \in Axes \ {local[t].axis} :
           drive'[local[t].call.gimbal][b] = drive[local[t].call.gimbal][b],
         status = "Ok" => drive'[local[t].call.gimbal][local[t].axis] = 0,
         status = "Unavailable" => Absent(local[t], local[t].axis)
  PROVE  EffectInv' /\ KeepsCall(t)
<1> DEFINE a == local[t].axis
           l == [local[t] EXCEPT !.stopped[a] = status]
           c == drive[local[t].call.gimbal]
           d == drive'[local[t].call.gimbal]
<1>1. stage[t] \in Active /\ stage[t] \in Exchanging
  BY DEF Active, Exchanging
<1>2. Effect("stop", local[t], c, before)
  BY <1>1 DEF EffectInv
<1>3. a \in Axes
  BY DEF Locals
<1>4. /\ l \in Locals /\ l.call = local[t].call /\ l.axis = a /\ l.within = local[t].within
      /\ l.speed = local[t].speed /\ l.wrote = local[t].wrote /\ l.limit = local[t].limit
      /\ l.stopped = [local[t].stopped EXCEPT ![a] = status]
  BY <1>3 DEF Locals, Statuses
<1>5. Step(t, l)
  OBVIOUS
<1> HIDE DEF l
<1>6. l.stopped[a] = status /\ \A b \in Axes \ {a} : l.stopped[b] = local[t].stopped[b]
  BY <1>3, <1>4 DEF Locals
<1>7. Halted(l, a, d)
  BY <1>4, <1>6 DEF Halted, Absent
<1>8. IF a = "pan" THEN Told(l, "tilt", d, before) ELSE Halted(l, "pan", d)
  BY <1>2, <1>4, <1>6 DEF Effect, Told, Halted, Absent, Axes
<1>9. Arrival(l) /\ Writes(l) /\ ~Ok(l) /\ ~Held(l)
  BY <1>2, <1>4 DEF Effect, Arrival, Writes, Ok, Held
<1>10. Exchanged(stage[t], l, drive'[l.call.gimbal], before)
  BY <1>4, <1>7, <1>8, <1>9 DEF Exchanged
<1> QED  BY <1>1, <1>4, <1>5, <1>10, ExchangeEffect DEF KeepsCall

LEMMA WriteEffect ==
  ASSUME BusInv, EffectInv, Exclusive', NEW t \in Threads, Write(t) \/ WriteStop(t)
  PROVE  EffectInv' /\ KeepsCall(t)
<1> DEFINE a == local[t].axis
           g == local[t].call.gimbal
           v == IF stage[t] = "write" THEN local[t].speed[a] ELSE 0
<1>1. stage[t] \in {"write", "stop"} /\ stage[t] \in Exchanging /\ Reply(t)
  BY DEF Write, WriteStop, Exchanging
<1>2. local[t] \in Locals /\ before' = before /\ Exchanges(t)
  BY <1>1, ReplyLemma
<1>3. a \in Axes /\ g \in Gimbals /\ v \in Speeds
  BY <1>2, BusAssumption DEF Locals, Speeds
<1>4. <<g, a>> \notin Missing
  BY <1>1, <1>2 DEF Exchanges, Drive, Gimbal
<1>5. PICK status \in Statuses :
        /\ Written(t, v, status)
        /\ stage[t] = "write" => Step(t, [local[t] EXCEPT !.wrote[a] = status])
        /\ stage[t] = "stop" => Step(t, [local[t] EXCEPT !.stopped[a] = status])
  BY <1>1 DEF Write, WriteStop
<1>6. /\ status \in {"Ok", "Error", "Unavailable"} /\ status # "Unavailable"
      /\ \/ drive' = [drive EXCEPT ![g][a] = v]
         \/ status # "Ok" /\ drive' = drive
  BY <1>5 DEF Written, Gimbal
<1> HIDE DEF v
<1>7. /\ MissingStill' /\ drive'[g][a] \in {v, drive[g][a]}
      /\ \A b \in Axes \ {a} : drive'[g][b] = drive[g][b]
  BY <1>3, <1>4, <1>6, DriveEffect DEF BusInv, EffectInv
<1>8. status = "Ok" => drive'[g][a] = v
  <2> SUFFICES ASSUME status = "Ok" PROVE drive'[g][a] = v
    OBVIOUS
  <2>1. drive' = [drive EXCEPT ![g][a] = v]
    BY <1>6
  <2>2. [drive EXCEPT ![g][a] = v][g][a] = v
    BY <1>3, DriveLemma DEF BusInv
  <2> QED  BY <2>1, <2>2, Zenon
<1>9. /\ \A b \in Axes \ {a} : drive'[g][b] = drive[g][b]
      /\ status = "Ok" => drive'[g][a] = v
      /\ drive'[g][a] \in {v, drive[g][a]}
      /\ MissingStill'
  BY <1>7, <1>8
<1>10. CASE stage[t] = "write"
  <2>1. v = local[t].speed[a]
    BY <1>10 DEF v
  <2>2. Step(t, [local[t] EXCEPT !.wrote[a] = status])
    BY <1>5, <1>10
  <2>3. /\ status = "Ok" => drive'[g][a] = local[t].speed[a]
        /\ status = "Error" => drive'[g][a] \in {local[t].speed[a], drive[g][a]}
        /\ status = "Unavailable" => Absent(local[t], a)
    BY <1>6, <1>9, <2>1
  <2> QED  BY <1>2, <1>6, <1>9, <1>10, <2>2, <2>3, WriteStepEffect
<1>11. CASE stage[t] = "stop"
  <2>1. v = 0 /\ stage[t] # "write"
    BY <1>11 DEF v
  <2>2. Step(t, [local[t] EXCEPT !.stopped[a] = status])
    BY <1>5, <1>11
  <2>3. /\ status = "Ok" => drive'[g][a] = 0
        /\ status = "Unavailable" => Absent(local[t], a)
    BY <1>6, <1>9, <2>1
  <2> QED  BY <1>2, <1>6, <1>9, <1>11, <2>2, <2>3, StopStepEffect
<1> QED  BY <1>1, <1>10, <1>11

LEMMA SkipEffect ==
  ASSUME BusInv, EffectInv, Exclusive', NEW t \in Threads, Skip(t)
  PROVE  EffectInv' /\ KeepsCall(t)
<1> DEFINE a == local[t].axis
           l == [local[t] EXCEPT
                  !.pose[a] = IF stage[t] = "read" THEN Reading("Unavailable", 0) ELSE @,
                  !.wrote[a] = IF stage[t] = "write" THEN "Unavailable" ELSE @,
                  !.stopped[a] = IF stage[t] = "stop" THEN "Unavailable" ELSE @]
<1>1. /\ stage[t] \in Exchanging /\ stage[t] \in Active /\ ~Exchanges(t)
      /\ drive' = drive /\ before' = before
  BY DEF Skip, Exchanging, Active
<1>2. local[t] \in Locals
  BY <1>1 DEF BusInv, Exclusive
<1>3. Step(t, l)
  BY Zenon DEF Skip
<1>4. a \in Axes /\ Reading("Unavailable", 0) \in MotorReadings
  BY <1>2 DEF Locals, Reading, MotorReadings, Statuses
<1>5. MissingStill'
  BY <1>1 DEF EffectInv, MissingStill
<1>6. CASE stage[t] \in {"read", "limit"}
  <2>1. /\ l \in Locals /\ l.call = local[t].call /\ l.within = local[t].within
        /\ l.wrote = local[t].wrote /\ l.stopped = local[t].stopped /\ l.speed = local[t].speed
    BY <1>2, <1>4, <1>6 DEF Locals
  <2> HIDE DEF l
  <2>2. Held(local[t]) => Held(l)
    BY <2>1 DEF Held
  <2> QED  BY <1>1, <1>3, <1>6, <2>1, <2>2, ReadEffect
<1>7. CASE stage[t] = "write"
  <2>1. l = [local[t] EXCEPT !.wrote[a] = "Unavailable"]
    BY <1>2, <1>4, <1>7 DEF Locals
  <2> HIDE DEF l
  <2>2. Step(t, [local[t] EXCEPT !.wrote[a] = "Unavailable"])
    BY <1>3, <2>1
  <2>3. Absent(local[t], a)
    BY <1>1, <1>7 DEF Exchanges, Absent, Drive, Gimbal
  <2> QED  BY <1>1, <1>2, <1>5, <1>7, <2>2, <2>3, WriteStepEffect
<1>8. CASE stage[t] = "stop"
  <2>1. l = [local[t] EXCEPT !.stopped[a] = "Unavailable"]
    BY <1>2, <1>4, <1>8 DEF Locals
  <2> HIDE DEF l
  <2>2. Step(t, [local[t] EXCEPT !.stopped[a] = "Unavailable"])
    BY <1>3, <2>1
  <2>3. Absent(local[t], a)
    BY <1>1, <1>8 DEF Exchanges, Absent, Drive, Gimbal
  <2> QED  BY <1>1, <1>2, <1>5, <1>8, <2>2, <2>3, StopStepEffect
<1> QED  BY <1>1, <1>6, <1>7, <1>8 DEF Exchanging

(* A call that finds its gimbal at the target asks for no motion. *)
LEMMA PlanEffect ==
  ASSUME BusInv, EffectInv, Exclusive', NEW t \in Threads, Plan(t)
  PROVE  EffectInv' /\ KeepsCall(t)
<1>1. /\ stage[t] = "plan" /\ stage[t] \in Active /\ stage' = [stage EXCEPT ![t] = "limit"]
      /\ UNCHANGED <<drive, before>>
  BY DEF Plan, Active
<1>2. local[t] \in Locals
  BY <1>1 DEF BusInv, Exclusive
<1>3. PICK young \in BOOLEAN :
        LET l0 == local[t]
            fresh == young /\ \A a \in Axes : l0.pose[a].status = "Ok"
            l == [l0 EXCEPT !.failed = NeedsPose(l0) /\ ~fresh,
                            !.within = fresh /\ WithinTolerance(l0)]
        IN local' = [local EXCEPT ![t] =
             [l EXCEPT !.speed =
                [a \in Axes |-> IF BothPresent(t) /\ l.call.finite
                                THEN Clamp(Request(l, a), MaxSpeed) ELSE 0]]]
  BY DEF Plan
<1> DEFINE fresh == young /\ \A a \in Axes : local[t].pose[a].status = "Ok"
           there == fresh /\ WithinTolerance(local[t])
           l == [local[t] EXCEPT !.failed = NeedsPose(local[t]) /\ ~fresh, !.within = there]
           speed == [a \in Axes |-> IF BothPresent(t) /\ l.call.finite
                                    THEN Clamp(Request(l, a), MaxSpeed) ELSE 0]
           m == [l EXCEPT !.speed = speed]
<1>4. local' = [local EXCEPT ![t] = m]
  BY <1>3, Zenon
<1>5. there => local[t].call.kind = "seek"
  BY DEF WithinTolerance
<1> HIDE DEF fresh, there
<1>6. /\ l.call = local[t].call /\ l.within = there /\ l.wrote = local[t].wrote
      /\ l.stopped = local[t].stopped
  BY <1>2 DEF Locals
<1>7. l.within /\ l.call.stop => \A a \in Axes : speed[a] = 0
  <2>1. Clamp(0, MaxSpeed) = 0
    BY BusAssumption DEF Clamp
  <2>2. ASSUME l.within, l.call.stop, NEW a \in Axes
        PROVE  Request(l, a) = 0
    BY <2>2 DEF Request
  <2> HIDE DEF l
  <2> QED  BY <2>1, <2>2
<1>8. /\ m.call = local[t].call /\ m.within = there /\ m.wrote = local[t].wrote
      /\ m.stopped = local[t].stopped /\ m.speed = speed
  <2>1. \E x : local[t] \in Locals /\ l = [local[t] EXCEPT !.failed = x, !.within = there]
    BY <1>2
  <2> HIDE DEF l, speed
  <2> QED  BY <1>2, <1>6, <2>1 DEF Locals
<1> HIDE DEF l, speed, m
<1>9. local'[t] = m /\ stage'[t] = "limit"
  BY <1>1, <1>4 DEF BusInv, Exclusive
<1>10. Effect("plan", local[t], drive[local[t].call.gimbal], before)
  BY <1>1 DEF EffectInv
<1>11. Arrival(m)
  BY <1>5, <1>6, <1>7, <1>8 DEF Arrival, Held
<1>12. Effect("limit", m, drive[m.call.gimbal], before)
  BY <1>8, <1>10, <1>11 DEF Effect, Writes, Untouched
<1>13. MissingStill'
  BY <1>1 DEF EffectInv, MissingStill
<1>14. stage'[t] \in Active
  BY <1>9 DEF Active, Exchanging
<1>15. KeepsCall(t)
  BY <1>8, <1>9 DEF KeepsCall
<1> QED  BY <1>1, <1>9, <1>12, <1>13, <1>14, <1>15, HolderEffect

LEMMA AskEffect ==
  ASSUME BusInv, EffectInv, Exclusive', NEW t \in Threads, Ask(t)
  PROVE  EffectInv' /\ KeepsCall(t)
<1>1. /\ stage[t] \in Active /\ local' = [local EXCEPT ![t].asked = TRUE]
      /\ UNCHANGED <<stage, drive, before>>
  BY DEF Ask, Exchanges, Active, Exchanging
<1>2. local[t] \in Locals
  BY <1>1 DEF BusInv, Exclusive
<1> DEFINE l == local[t]
           m == [l EXCEPT !.asked = TRUE]
<1>3. /\ m.call = l.call /\ m.within = l.within /\ m.axis = l.axis /\ m.speed = l.speed
      /\ m.limit = l.limit /\ m.wrote = l.wrote /\ m.stopped = l.stopped
  BY <1>2 DEF Locals
<1>4. local' = [local EXCEPT ![t] = m]
  BY <1>1
<1> HIDE DEF m
<1>5. local'[t] = m
  BY <1>4 DEF BusInv, Exclusive
<1> HIDE DEF l
<1>6. Effect(stage[t], l, drive[l.call.gimbal], before)
  BY <1>1 DEF EffectInv, l
<1>7. Effect(stage[t], m, drive[m.call.gimbal], before)
  BY <1>3, <1>6 DEF Effect, Arrival, Held, Writes, Ok, Untouched, Told, Halted, Absent
<1>8. MissingStill'
  BY <1>1 DEF EffectInv, MissingStill
<1>9. KeepsCall(t)
  BY <1>3, <1>5 DEF KeepsCall, l
<1> QED  BY <1>1, <1>5, <1>7, <1>8, <1>9, HolderEffect

LEMMA AcquireEffect ==
  ASSUME BusInv, EffectInv, Exclusive', NEW t \in Threads, NEW c \in Calls, Acquire(t, c)
  PROVE  EffectInv'
<1> DEFINE s == IF c.kind = "set" THEN "plan" ELSE "read"
           l == Fresh(c)
<1>1. /\ local' = [local EXCEPT ![t] = l] /\ stage' = [stage EXCEPT ![t] = s]
      /\ before' = drive[c.gimbal] /\ drive' = drive
  BY DEF Acquire
<1>2. /\ s \in {"plan", "read"} /\ s \in Active
      /\ s = "plan" => c.kind = "set"
  BY DEF Active, Exchanging
<1>3. /\ l.call = c /\ l.within = FALSE
      /\ \A a \in Axes : l.wrote[a] = "NotAttempted" /\ l.stopped[a] = "NotAttempted"
  BY DEF Fresh
<1> HIDE DEF s, l
<1>4. stage'[t] = s /\ local'[t] = l
  BY <1>1 DEF BusInv, Exclusive
<1>5. Effect(s, l, drive[c.gimbal], drive[c.gimbal])
  BY <1>2, <1>3 DEF Effect, Arrival, Writes, Untouched
<1>6. MissingStill'
  BY <1>1 DEF EffectInv, MissingStill
<1> QED  BY <1>1, <1>2, <1>3, <1>4, <1>5, <1>6, HolderEffect

(***************************************************************************)
(* At every stage of a call the drives obey what it has written so far,    *)
(* and what they obeyed before it where it has not, or may not have.       *)
(***************************************************************************)
THEOREM EffectInvariant == Spec => []EffectInv
<1>1. Init => EffectInv
  <2> SUFFICES ASSUME Init  PROVE EffectInv
    OBVIOUS
  <2>1. \A t \in Threads : stage[t] \notin Active
    BY DEF Init, Active, Exchanging
  <2> QED  BY <2>1 DEF Init, EffectInv, MissingStill
<1>2. BusInv /\ BusInv' /\ EffectInv /\ [Next]_vars => EffectInv'
  <2> SUFFICES ASSUME BusInv, BusInv', EffectInv, [Next]_vars  PROVE EffectInv'
    OBVIOUS
  <2>0. Exclusive'
    BY DEF BusInv
  <2>1. ASSUME NEW t \in Threads, Call(t) \/ Release(t)  PROVE EffectInv'
    <3>1. /\ UNCHANGED <<drive, before>>
          /\ \A u \in Threads : stage'[u] \in Active =>
               stage'[u] = stage[u] /\ local'[u] = local[u]
      BY <2>1 DEF Call, Release, BusInv, Exclusive, Active, Exchanging
    <3> QED  BY <3>1 DEF EffectInv, MissingStill
  <2>2. ASSUME NEW t \in Threads, NEW c \in Calls, Acquire(t, c)  PROVE EffectInv'
    BY <2>0, <2>2, AcquireEffect
  <2>3. ASSUME NEW t \in Threads, Inside(t)  PROVE EffectInv'
    BY <2>0, <2>1, <2>3, PlanEffect, AskEffect, ReadPoseEffect, CheckLimitEffect, WriteEffect,
       SkipEffect DEF Inside
  <2>4. CASE UNCHANGED vars
    BY <2>4 DEF vars, EffectInv, MissingStill
  <2> QED  BY <2>1, <2>2, <2>3, <2>4 DEF Next
<1> QED  BY <1>1, <1>2, BusInvariant, PTL DEF Spec

(***************************************************************************)
(* After a call that has not succeeded, an axis moves only on a write that *)
(* was not confirmed: its own, whatever became of the other's.             *)
(***************************************************************************)
THEOREM FailureCorrect == Spec => []PartialFailureStops
<1>1. BusInv /\ EffectInv => PartialFailureStops
  <2> SUFFICES ASSUME BusInv, EffectInv, NEW t \in Threads, Done(t), Writes(local[t]),
                      ~Ok(local[t]), NEW a \in Axes, drive[local[t].call.gimbal][a] # 0
               PROVE  \/ local[t].stopped[a] = "Error"
                      \/ local[t].stopped[a] = "NotAttempted" /\ local[t].wrote[a] = "Error"
    BY DEF PartialFailureStops, Gimbal
  <2>1. /\ local[t].call.gimbal \in Gimbals
        /\ Effect("done", local[t], drive[local[t].call.gimbal], before)
    BY BusAssumption DEF BusInv, EffectInv, Exclusive, Done, Active, Locals
  <2>2. ~Absent(local[t], a)
    BY <2>1 DEF EffectInv, MissingStill, Absent
  <2>3. CASE Held(local[t]) /\ Told(local[t], a, drive[local[t].call.gimbal], before)
    BY <2>2, <2>3 DEF Held, Told
  <2>4. CASE Halted(local[t], a, drive[local[t].call.gimbal])
    BY <2>2, <2>4 DEF Halted
  <2> QED  BY <2>1, <2>3, <2>4 DEF Effect
<1> QED  BY <1>1, BusInvariant, EffectInvariant, PTL

-----------------------------------------------------------------------------
(* The contract: what a tracking thread sees of the bus.                   *)

MotionOf(s, l, d, b) ==
  [g \in Gimbals |->
     IF \E t \in Threads : s[t] \notin {"idle", "want", "done"} /\ l[t].call.gimbal = g
     THEN b ELSE d[g]]

Outcome(l) ==
  [gimbal  |-> l.call.gimbal,
   writes  |-> Writes(l),
   held    |-> Writes(l) /\ \A a \in Axes : l.speed[a] = 0,
   ok      |-> Writes(l) /\ Ok(l),
   arrived |-> l.call.stop /\ Reached(l)]

ResultOf(s, l) ==
  IF \E t \in Threads : s[t] = "done"
  THEN Outcome(l[CHOOSE t \in Threads : s[t] = "done"])
  ELSE Contract!NoResult

LEMMA MappingLemma ==
  /\ Motion = MotionOf(stage, local, drive, before)
  /\ Motion' = MotionOf(stage', local', drive', before')
  /\ Result = ResultOf(stage, local)
  /\ Result' = ResultOf(stage', local')
<1>1. /\ Motion = MotionOf(stage, local, drive, before)
      /\ Motion' = MotionOf(stage', local', drive', before')
  BY DEF Motion, MotionOf, Gimbal
<1>2. Result = ResultOf(stage, local)
  BY DEF Result, ResultOf, Outcome, Contract!NoResult, Gimbal, Done
<1>3. Result' = ResultOf(stage', local')
  BY DEF Result, ResultOf, Outcome, Contract!NoResult, Gimbal, Done
<1> QED  BY <1>1, <1>2, <1>3

Drives == [Gimbals -> [Axes -> Speeds]]
Restored(d, g, b) == [d EXCEPT ![g] = b]

(* One thread at most is in a call. *)
LEMMA MotionLemma ==
  ASSUME NEW s, NEW l, NEW d \in Drives, NEW b, NEW t \in Threads,
         \A u \in Threads \ {t} : s[u] \in Inactive
  PROVE  /\ s[t] \in {"idle", "want", "done"} => MotionOf(s, l, d, b) = d
         /\ s[t] \notin {"idle", "want", "done"} =>
              MotionOf(s, l, d, b) = Restored(d, l[t].call.gimbal, b)
<1>1. \A g \in Gimbals :
        (\E u \in Threads : s[u] \notin {"idle", "want", "done"} /\ l[u].call.gimbal = g)
          <=> s[t] \notin {"idle", "want", "done"} /\ l[t].call.gimbal = g
  BY DEF Inactive
<1>2. MotionOf(s, l, d, b) =
        [g \in Gimbals |-> IF s[t] \notin {"idle", "want", "done"} /\ l[t].call.gimbal = g
                           THEN b ELSE d[g]]
  BY <1>1 DEF MotionOf
<1> QED  BY <1>2 DEF Restored, Drives

(* A gimbal that no call is at work on shows the motion its drives have. *)
LEMMA RestLemma ==
  ASSUME NEW s, NEW l, NEW d \in Drives, NEW b,
         \A t \in Threads : s[t] \in {"idle", "want", "done"}
  PROVE  MotionOf(s, l, d, b) = d
BY DEF MotionOf, Drives

LEMMA ResultLemma ==
  ASSUME NEW s, NEW l, NEW t \in Threads, \A u \in Threads \ {t} : s[u] \in Inactive
  PROVE  ResultOf(s, l) = IF s[t] = "done" THEN Outcome(l[t]) ELSE Contract!NoResult
<1>1. \A u \in Threads : s[u] = "done" => u = t
  BY DEF Inactive
<1>2. CASE s[t] = "done"
  <2>1. (CHOOSE u \in Threads : s[u] = "done") = t
    BY <1>1, <1>2
  <2> QED  BY <1>2, <2>1 DEF ResultOf
<1>3. CASE s[t] # "done"
  BY <1>1, <1>3 DEF ResultOf
<1> QED  BY <1>2, <1>3

(* The end of a call keeps the contract. *)
LEMMA OutcomeLemma ==
  ASSUME NEW l \in Locals, NEW d \in [Axes -> Speeds], NEW b \in [Axes -> Speeds],
         Effect("done", l, d, b), \A a \in Axes : Absent(l, a) => d[a] = 0
  PROVE  /\ Outcome(l) \in Contract!Results(l.call.gimbal)
         /\ Contract!Allowed(Outcome(l), b, d)
<1> DEFINE r == Outcome(l)
<1>1. l.call.stop \in BOOLEAN /\ l.within \in BOOLEAN /\ l.call.finite \in BOOLEAN
  BY BusAssumption DEF Locals
<1>2. /\ r.writes = Writes(l) /\ r.held = (Writes(l) /\ Held(l)) /\ r.ok = (Writes(l) /\ Ok(l))
      /\ r.arrived = (l.call.stop /\ Reached(l))
  BY DEF Outcome, Held
<1>3. r \in Contract!Results(l.call.gimbal)
  <2>1. /\ Writes(l) \in BOOLEAN /\ (Writes(l) /\ \A a \in Axes : l.speed[a] = 0) \in BOOLEAN
        /\ (Writes(l) /\ Ok(l)) \in BOOLEAN /\ (l.call.stop /\ Reached(l)) \in BOOLEAN
    BY Zenon DEF Writes
  <2> QED  BY <2>1 DEF Outcome, Contract!Results
<1> HIDE DEF r
<1>4. ~Writes(l) => d = b
  BY DEF Effect, Untouched
<1>5. ASSUME Writes(l), Held(l), NEW a \in Axes
      PROVE  /\ d[a] \in {0, b[a]}
             /\ Ok(l) => d[a] = 0
  <2>1. Told(l, a, d, b) /\ l.speed[a] = 0
    BY <1>5 DEF Effect, Held
  <2> QED  BY <2>1 DEF Told, Ok
<1>6. l.call.stop /\ Reached(l) => Writes(l) /\ Ok(l) /\ Held(l)
  BY <1>1 DEF Reached, Effect, Arrival, Writes
<1> QED  BY <1>2, <1>3, <1>4, <1>5, <1>6 DEF Contract!Allowed, r

(* Inside a call only its own drives change; the other threads wait.       *)
LEMMA InsideLemma ==
  ASSUME BusInv, BusInv', EffectInv, NEW t \in Threads, Inside(t), ~Release(t)
  PROVE  /\ stage[t] \in Active \ {"done"} /\ stage'[t] \in Active
         /\ local[t] \in Locals /\ local'[t] \in Locals /\ KeepsCall(t)
         /\ before' = before
         /\ \A g \in Gimbals \ {local[t].call.gimbal} : drive'[g] = drive[g]
<1>1. stage[t] \in Active \ {"done"} /\ holder' = holder /\ before' = before
  BY DEF Inside, Plan, Ask, Exchanges, ReadPose, CheckLimit, Write, WriteStop, Skip, Reply,
         Active, Exchanging
<1>2. holder = t /\ local[t] \in Locals
  BY <1>1 DEF BusInv, Exclusive
<1>3. stage'[t] \in Active /\ local'[t] \in Locals
  BY <1>1, <1>2 DEF BusInv, Exclusive
<1>4. KeepsCall(t)
  BY PlanEffect, AskEffect, ReadPoseEffect, CheckLimitEffect, WriteEffect, SkipEffect
  DEF Inside, BusInv
<1>5. ASSUME NEW g \in Gimbals, g # local[t].call.gimbal
      PROVE  drive'[g] = drive[g]
  <2>1. CASE Write(t) \/ WriteStop(t)
    <3>1. \/ \E v : drive' = [drive EXCEPT ![local[t].call.gimbal][local[t].axis] = v]
          \/ drive' = drive
      BY <2>1 DEF Write, WriteStop, Written, Gimbal
    <3> QED  BY <1>5, <3>1 DEF BusInv, Exclusive
  <2>2. CASE ~(Write(t) \/ WriteStop(t))
    <3>1. drive' = drive
      BY <2>2 DEF Inside, Plan, Ask, ReadPose, CheckLimit, Skip
    <3> QED  BY <3>1
  <2> QED  BY <2>1, <2>2
<1> QED  BY <1>1, <1>2, <1>3, <1>4, <1>5

(* A step inside a call shows nothing; the last one is the transaction.    *)
LEMMA InsideImplements ==
  ASSUME BusInv, BusInv', EffectInv, EffectInv', NEW t \in Threads, Inside(t), ~Release(t)
  PROVE  [Contract!Next]_(Contract!vars)
<1> DEFINE g == local[t].call.gimbal
<1>1. /\ stage[t] \in Active \ {"done"} /\ stage'[t] \in Active
      /\ local[t] \in Locals /\ local'[t] \in Locals /\ local'[t].call = local[t].call
      /\ before' = before /\ g \in Gimbals
      /\ \A h \in Gimbals \ {g} : drive'[h] = drive[h]
  BY InsideLemma, BusAssumption DEF KeepsCall, Locals
<1>2. \A u \in Threads \ {t} : stage[u] \in Inactive /\ stage'[u] \in Inactive
  BY <1>1 DEF BusInv, Exclusive
<1>3. drive \in Drives /\ drive' \in Drives /\ before \in [Axes -> Speeds]
  BY DEF BusInv, Exclusive, Drives
<1>4. stage[t] \notin {"idle", "want", "done"} /\ stage'[t] \notin {"idle", "want"}
  BY <1>1 DEF Active, Exchanging
<1>5. Motion = Restored(drive, g, before) /\ Result = Contract!NoResult
  <2>1. MotionOf(stage, local, drive, before) = Restored(drive, g, before)
    BY <1>2, <1>3, <1>4, MotionLemma
  <2>2. ResultOf(stage, local) = Contract!NoResult
    BY <1>2, <1>4, ResultLemma
  <2> QED  BY <2>1, <2>2, MappingLemma
<1>6. CASE stage'[t] # "done"
  <2>1. Motion' = Restored(drive', g, before) /\ Result' = Contract!NoResult
    <3>1. MotionOf(stage', local', drive', before') = Restored(drive', g, before)
      BY <1>1, <1>2, <1>3, <1>4, <1>6, MotionLemma
    <3>2. ResultOf(stage', local') = Contract!NoResult
      BY <1>2, <1>6, ResultLemma
    <3> QED  BY <3>1, <3>2, MappingLemma
  <2>2. Restored(drive', g, before) = Restored(drive, g, before)
    BY <1>1, <1>3 DEF Restored, Drives
  <2> QED  BY <1>5, <2>1, <2>2 DEF Contract!vars
<1>7. CASE stage'[t] = "done"
  <2> DEFINE after == drive'[g]
  <2>1. Motion' = drive' /\ Result' = Outcome(local'[t])
    <3>1. MotionOf(stage', local', drive', before') = drive'
      BY <1>2, <1>3, <1>7, MotionLemma
    <3>2. ResultOf(stage', local') = Outcome(local'[t])
      BY <1>2, <1>7, ResultLemma
    <3> QED  BY <3>1, <3>2, MappingLemma
  <2>2. after \in [Axes -> Speeds] /\ Motion[g] = before
    BY <1>1, <1>3, <1>5 DEF Restored, Drives
  <2>3. Motion' = [Motion EXCEPT ![g] = after]
    <3>1. Restored(drive, g, before) \in Drives
      BY <1>1, <1>3 DEF Restored, Drives
    <3>2. [Restored(drive, g, before) EXCEPT ![g] = drive'[g]] = drive'
      <4>1. \A h \in Gimbals \ {g} : Restored(drive, g, before)[h] = drive'[h]
        BY <1>1, <1>3 DEF Restored, Drives
      <4> QED  BY <1>1, <1>3, <3>1, <4>1 DEF Drives
    <3> QED  BY <1>5, <2>1, <3>2
  <2>4. /\ Effect("done", local'[t], after, before)
        /\ \A a \in Axes : Absent(local'[t], a) => after[a] = 0
    BY <1>1, <1>7 DEF EffectInv, MissingStill, Absent
  <2> HIDE DEF after
  <2>5. /\ Outcome(local'[t]) \in Contract!Results(g)
        /\ Contract!Allowed(Outcome(local'[t]), before, after)
    BY <1>1, <1>3, <2>2, <2>4, OutcomeLemma
  <2>6. Contract!Complete(g)
    BY <1>5, <2>1, <2>2, <2>3, <2>5 DEF Contract!Complete
  <2> QED  BY <1>1, <2>6 DEF Contract!Next
<1> QED  BY <1>6, <1>7

(* Before a call, at its start and at its end nothing moves. *)
LEMMA OutsideImplements ==
  ASSUME BusInv, BusInv', NEW t \in Threads,
         Call(t) \/ Release(t) \/ \E c \in Calls : Acquire(t, c)
  PROVE  [Contract!Next]_(Contract!vars)
<1>1. drive' = drive /\ drive \in Drives /\ drive' \in Drives
  BY DEF Call, Release, Acquire, BusInv, Exclusive, Drives
<1>2. CASE Call(t)
  <2>1. /\ local' = local /\ before' = before
        /\ \A u \in Threads \ {t} : stage'[u] = stage[u]
        /\ stage[t] = "idle" /\ stage'[t] = "want"
    BY <1>2 DEF Call, BusInv, Exclusive
  <2>2. \A u \in Threads : /\ stage'[u] = "done" <=> stage[u] = "done"
                          /\ stage'[u] \in {"idle", "want", "done"}
                               <=> stage[u] \in {"idle", "want", "done"}
    BY <2>1
  <2>3. Motion' = Motion /\ Result' = Result
    BY <1>1, <2>1, <2>2, MappingLemma DEF MotionOf, ResultOf
  <2> QED  BY <2>3 DEF Contract!vars
<1>3. CASE Release(t)
  <2>1. /\ stage[t] \in {"idle", "want", "done"} /\ stage'[t] \in {"idle", "want", "done"}
        /\ stage'[t] # "done"
        /\ \A u \in Threads \ {t} : stage[u] \in Inactive /\ stage'[u] \in Inactive
    <3>1. stage[t] = "done" /\ stage'[t] = "idle"
      BY <1>3 DEF Release, BusInv, Exclusive
    <3>2. \A u \in Threads \ {t} : stage[u] \in Inactive /\ stage'[u] \in Inactive
      BY <1>3 DEF Release, BusInv, Exclusive, Active
    <3> QED  BY <3>1, <3>2
  <2>2. Motion = drive /\ Motion' = drive /\ Result' = Contract!NoResult
    <3>1. MotionOf(stage, local, drive, before) = drive
      BY <1>1, <2>1, MotionLemma
    <3>2. MotionOf(stage', local', drive', before') = drive'
      <4>1. drive' \in Drives
        BY <1>1
      <4>2. \A u \in Threads : stage'[u] \in {"idle", "want", "done"}
        BY <2>1 DEF Inactive
      <4> QED  BY <4>1, <4>2, RestLemma
    <3>3. ResultOf(stage', local') = Contract!NoResult
      BY <2>1, ResultLemma
    <3> QED  BY <1>1, <3>1, <3>2, <3>3, MappingLemma
  <2> QED  BY <2>2 DEF Contract!Next, Contract!Return, Contract!vars
<1>4. ASSUME NEW c \in Calls, Acquire(t, c)
      PROVE  [Contract!Next]_(Contract!vars)
  <2>1. /\ stage[t] \in {"idle", "want", "done"} /\ stage'[t] \notin {"idle", "want", "done"}
        /\ stage[t] # "done" /\ stage'[t] # "done"
        /\ local'[t] = Fresh(c) /\ before' = drive[c.gimbal] /\ c.gimbal \in Gimbals
        /\ \A u \in Threads \ {t} : stage[u] \in Inactive /\ stage'[u] \in Inactive
    BY <1>4, BusAssumption DEF Acquire, BusInv, Exclusive
  <2>2. Motion = drive /\ Result = Contract!NoResult
    <3>1. MotionOf(stage, local, drive, before) = drive
      BY <1>1, <2>1, MotionLemma
    <3>2. ResultOf(stage, local) = Contract!NoResult
      BY <2>1, ResultLemma
    <3> QED  BY <3>1, <3>2, MappingLemma
  <2>3. Motion' = drive /\ Result' = Contract!NoResult
    <3>1. MotionOf(stage', local', drive', before')
            = Restored(drive', c.gimbal, drive[c.gimbal])
      <4>1. local'[t].call.gimbal = c.gimbal
        BY <2>1, FreshLemma
      <4>2. MotionOf(stage', local', drive', before')
              = Restored(drive', local'[t].call.gimbal, before')
        BY <1>1, <2>1, MotionLemma
      <4> QED  BY <2>1, <4>1, <4>2
    <3>2. Restored(drive, c.gimbal, drive[c.gimbal]) = drive
      BY <1>1 DEF Restored, Drives
    <3>3. ResultOf(stage', local') = Contract!NoResult
      BY <2>1, ResultLemma
    <3> QED  BY <1>1, <3>1, <3>2, <3>3, MappingLemma
  <2> QED  BY <2>2, <2>3 DEF Contract!vars
<1> QED  BY <1>2, <1>3, <1>4

(***************************************************************************)
(* For any calls on any gimbals: to the tracking threads each call is one  *)
(* step, which leaves its gimbal as its result says.                       *)
(***************************************************************************)
THEOREM ContractCorrect == Spec => ImplementsContract
<1>1. Init => Contract!Init
  <2> SUFFICES ASSUME Init PROVE Contract!Init
    OBVIOUS
  <2>1. Motion = [g \in Gimbals |-> [a \in Axes |-> 0]]
    BY DEF Init, Motion
  <2>2. Result = Contract!NoResult
    BY DEF Init, Result, Done, Contract!NoResult
  <2> QED  BY <2>1, <2>2 DEF Contract!Init
<1>2. BusInv /\ BusInv' /\ EffectInv /\ EffectInv' /\ [Next]_vars
        => [Contract!Next]_(Contract!vars)
  <2> SUFFICES ASSUME BusInv, BusInv', EffectInv, EffectInv', [Next]_vars
               PROVE  [Contract!Next]_(Contract!vars)
    OBVIOUS
  <2>1. ASSUME NEW t \in Threads, Inside(t)
        PROVE  [Contract!Next]_(Contract!vars)
    BY <2>1, InsideImplements, OutsideImplements
  <2>2. CASE UNCHANGED vars
    <3>1. Motion' = Motion /\ Result' = Result
      BY <2>2, MappingLemma DEF vars
    <3> QED  BY <3>1 DEF Contract!vars
  <2> QED  BY <2>1, <2>2, OutsideImplements DEF Next
<1> QED  BY <1>1, <1>2, BusInvariant, EffectInvariant, PTL DEF Spec, ImplementsContract,
            Contract!Spec
=============================================================================
