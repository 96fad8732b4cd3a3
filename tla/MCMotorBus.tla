----------------------------- MODULE MCMotorBus -----------------------------
(* Two threads with one gimbal each; every kind of call, on either gimbal.   *)
EXTENDS MotorBus

Pair(p, t) == [a \in Axes |-> IF a = "pan" THEN p ELSE t]

MCCall(k, g, v, stop, finite) ==
  [kind |-> k, gimbal |-> g, speed |-> v, target |-> Pair(1, 0),
   stop |-> stop, finite |-> finite]

(* Gimbal 0 has both drives and both limits; gimbal 1 lacks one of each.     *)
MCGimbals == {"g0", "g1"}
MCThreads == {"t0", "t1"}
MCOwner == [g \in MCGimbals |-> IF g = "g0" THEN "t0" ELSE "t1"]
MCMissing == {<<"g1", "tilt">>}
MCCalibrated == {<<"g0", "pan">>, <<"g0", "tilt">>}
MCPositions == -1 .. 1
MCMinPosition == -1

MCCalls ==
  {MCCall("read", "g0", Pair(0, 0), FALSE, TRUE)}
  \union {MCCall("set", "g0", Pair(p, t), FALSE, TRUE) : p \in {0, 1}, t \in {-2, 0}}
  \union {MCCall("set", "g0", Pair(1, 1), FALSE, FALSE)}
  \union {MCCall("seek", "g0", Pair(0, 0), TRUE, TRUE),
          MCCall("seek", "g0", Pair(0, 0), FALSE, TRUE),
          MCCall("mirror", "g0", Pair(1, 0), FALSE, TRUE)}
  \union {MCCall("set", "g1", Pair(1, 1), FALSE, TRUE),
          MCCall("seek", "g1", Pair(0, 0), TRUE, TRUE)}
=============================================================================
