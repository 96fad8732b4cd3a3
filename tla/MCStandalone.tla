------------------------------ MODULE MCStandalone ------------------------------
(***************************************************************************)
(* The programs and the part of one that run with nothing else of the      *)
(* turret: a behaviour is of the actuator calibration, of the focal        *)
(* calibration or of the loading of a configuration.                       *)
(*                                                                         *)
(* Actuators: two pulses, one up and one down.  A full cycle of two reads  *)
(* and a write at the I/O limit just fits the sample gap; a run that       *)
(* settles slowly meets the settling timeout, and one that drags on the    *)
(* run deadline.  Configuration: four groups, with values of follow= that  *)
(* name every gimbal, none, and the second one by wrapping around.         *)
(***************************************************************************)
EXTENDS ActuatorCalibration

CONSTANTS Cameras, Steps, MaxGroups, FollowValues, TimeoutValues

VARIABLES
  part,
  run, aborted, focalTarget, focalLoop, aim, axis, main, rc, cams, exposed, rows, code, failed,
  groups, followKey, timeoutKey, overrideKey, phase, follow, g, timeout, leaders, followers

Focal == INSTANCE FocalCalib WITH target <- focalTarget, loop <- focalLoop
Config == INSTANCE Configuration WITH pc <- phase

MCCameras == {"mono", "rgb"}
MCFollowValues == {0, 1, 3, 4, 65538}
MCTimeoutValues == {-5, 65536}

focalVars ==
  <<run, aborted, focalTarget, focalLoop, aim, axis, main, rc, cams, exposed, rows, code, failed>>
configVars ==
  <<groups, followKey, timeoutKey, overrideKey, phase, follow, g, timeout, leaders, followers>>

(* The configuration as it is before anything is loaded. *)
NoConfig ==
  /\ groups = {} /\ followKey = <<>> /\ timeoutKey = {} /\ overrideKey = {}
  /\ phase = "read" /\ follow = <<>> /\ g = 1 /\ timeout = 0 /\ leaders = {} /\ followers = <<>>

MCInit ==
  \/ part = "actuator" /\ Init /\ Focal!Init /\ NoConfig
  \/ part = "focal" /\ enabled = FALSE /\ target = 0 /\ Init /\ Focal!Init /\ NoConfig
  \/ part = "config" /\ enabled = FALSE /\ target = 0 /\ Init /\ Focal!Init /\ Config!Init

MCNext ==
  \/ part = "actuator" /\ Next /\ UNCHANGED <<part, focalVars, configVars>>
  \/ part = "focal" /\ Focal!Next /\ UNCHANGED <<part, vars, configVars>>
  \/ part = "config" /\ Config!Next /\ UNCHANGED <<part, vars, focalVars>>

MCSpec == MCInit /\ [][MCNext]_<<part, vars, focalVars, configVars>>

(* The properties of FocalCalib and of Configuration, stated there. *)
AxisIsLeftStopped == Focal!AxisIsLeftStopped
EveryGimbalHasOneDriver == Config!EveryGimbalHasOneDriver
GoodFollowsAreKept == Config!GoodFollowsAreKept
=============================================================================
