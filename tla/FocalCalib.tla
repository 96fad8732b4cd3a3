------------------------------ MODULE FocalCalib ------------------------------
(***************************************************************************)
(* The focal calibration tool, src/tools/focal_calib.cpp: a thread drives  *)
(* the gimbal to a shared target while main sets the targets of a sweep,   *)
(* waits, grabs a frame of each camera, and in the end brings everything   *)
(* back: the exposures, the gimbal, the thread.                            *)
(*                                                                         *)
(* Where the gimbal is is left out: a wait for stillness may end at any    *)
(* time, its timeout being there.  Any motor call, camera call and write   *)
(* may fail.                                                               *)
(***************************************************************************)
EXTENDS Naturals, FiniteSets

CONSTANTS
  Cameras,     (* "mono" and "rgb"                                          *)
  Steps        (* targets of the sweep; 0 is the start pose                 *)

VARIABLES
  run, aborted, target,    (* Shared                                        *)
  loop,        (* the motor thread                                          *)
  aim,         (* its copy of the target                                    *)
  axis,        (* what the gimbal was last told, and heard                  *)
  main,
  rc,
  cams,        (* the cameras that opened                                   *)
  exposed,     (* cameras with a changed exposure                           *)
  rows,        (* rows of poses.csv                                         *)
  code,        (* the exit code, once there is one                          *)
  failed       (* history: the calls that failed                            *)

shared == <<run, aborted, target>>
loopVars == <<loop, aim>>
mainVars == <<main, rc, cams, exposed, rows, code>>
focalVars == <<shared, loopVars, axis, mainVars, failed>>

NoCode == 99

Init ==
  /\ run = TRUE /\ aborted = FALSE /\ target = 0
  /\ loop = "read" /\ aim = 0
  /\ axis = "still"
  /\ main = "open"
  /\ rc = 0
  /\ cams = {} /\ exposed = {}
  /\ rows = 0
  /\ code = NoCode
  /\ failed = {}

-----------------------------------------------------------------------------
(* Mutant: main disables the gimbal before the thread has ended. *)
JoinWithoutWaiting ==
  /\ main = "join"
  /\ main' = "final"
  /\ UNCHANGED <<shared, loopVars, axis, rc, cams, exposed, rows, code, failed>>

-----------------------------------------------------------------------------
(* motor_loop *)

(* The motor call named succeeds, or fails and the thread gives up. *)
Try(call, next) ==
  \/ loop' = next /\ UNCHANGED <<aborted, failed>>
  \/ loop' = "stop" /\ aborted' = TRUE /\ failed' = failed \cup {call}

(* A pose that is not fresh, or outside the window, is a failure too. *)
ReadPose ==
  /\ loop = "read" /\ run
  /\ aim' = target
  /\ Try("pose", "drive")
  /\ UNCHANGED <<run, target, axis, mainVars>>

Told == loop = "read" /\ ~run /\ loop' = "stop"
        /\ UNCHANGED <<shared, aim, axis, mainVars, failed>>

DriveTo ==
  /\ loop = "drive"
  /\ axis' \in {axis, "driven"}
  /\ Try("drive", "read")
  /\ UNCHANGED <<run, target, aim, mainVars>>

StopAxis ==
  /\ loop = "stop"
  /\ \/ axis' = "still" /\ UNCHANGED failed
     \/ failed' = failed \cup {"zero"} /\ UNCHANGED axis
  /\ loop' = "ended"
  /\ UNCHANGED <<shared, aim, mainVars>>

MotorLoop == ReadPose \/ Told \/ DriveTo \/ StopAxis

-----------------------------------------------------------------------------
(* main *)

Throw(call) ==
  /\ rc' = 1
  /\ main' = "restore"
  /\ failed' = failed \cup {call}

(* open_camera and auto_expose, which may throw before or after a change. *)
OpenCamera(c) ==
  /\ main = "open" /\ c \notin cams
  /\ exposed' \in {exposed, exposed \cup {c}}
  /\ \/ cams' = cams \cup {c} /\ UNCHANGED <<main, rc, failed>>
     \/ Throw("open") /\ UNCHANGED cams
  /\ UNCHANGED <<shared, loopVars, axis, rows, code>>

AllOpen ==
  /\ main = "open" /\ cams = Cameras
  /\ main' = "sweep"
  /\ UNCHANGED <<shared, loopVars, axis, rc, cams, exposed, rows, code, failed>>

SetTarget ==
  /\ main = "sweep" /\ ~aborted /\ rows < Steps
  /\ target' = rows + 1
  /\ main' = "grab"
  /\ UNCHANGED <<run, aborted, loopVars, axis, rc, cams, exposed, rows, code, failed>>

SweepEnds ==
  /\ main = "sweep" /\ (aborted \/ rows = Steps)
  /\ main' = "restore"
  /\ UNCHANGED <<shared, loopVars, axis, rc, cams, exposed, rows, code, failed>>

(* wait_still is over, whatever it says; frames, poses and the row follow. *)
Grab ==
  /\ main = "grab"
  /\ \/ rows' = rows + 1 /\ main' = "sweep" /\ UNCHANGED <<rc, failed>>
     \/ Throw("grab") /\ UNCHANGED rows
  /\ UNCHANGED <<shared, loopVars, axis, cams, exposed, code>>

RestoreCamera(c) ==
  /\ main = "restore" /\ c \in cams
  /\ cams' = cams \ {c}
  /\ \/ exposed' = exposed \ {c} /\ UNCHANGED failed
     \/ failed' = failed \cup {"restore"} /\ UNCHANGED exposed
  /\ UNCHANGED <<shared, loopVars, axis, main, rc, rows, code>>

GoHome ==
  /\ main = "restore" /\ cams = {}
  /\ target' = IF aborted THEN target ELSE 0
  /\ main' = "settle"
  /\ UNCHANGED <<run, aborted, loopVars, axis, rc, cams, exposed, rows, code, failed>>

StopLoop ==
  /\ main = "settle"
  /\ run' = FALSE
  /\ main' = "join"
  /\ UNCHANGED <<aborted, target, loopVars, axis, rc, cams, exposed, rows, code, failed>>

Join ==
  /\ main = "join" /\ loop = "ended"
  /\ main' = "final"
  /\ UNCHANGED <<shared, loopVars, axis, rc, cams, exposed, rows, code, failed>>

FinalPose ==
  /\ main = "final"
  /\ \/ UNCHANGED <<aborted, failed>>
     \/ aborted' = TRUE /\ failed' = failed \cup {"final"}
  /\ main' = "disable"
  /\ UNCHANGED <<run, target, loopVars, axis, rc, cams, exposed, rows, code>>

Disable ==
  /\ main = "disable"
  /\ \/ axis' = "disabled" /\ UNCHANGED failed
     \/ failed' = failed \cup {"disable"} /\ UNCHANGED axis
  /\ main' = "exit"
  /\ UNCHANGED <<shared, loopVars, rc, cams, exposed, rows, code>>

Exit ==
  /\ main = "exit"
  /\ code' = IF aborted THEN 2 ELSE rc
  /\ main' = "gone"
  /\ UNCHANGED <<shared, loopVars, axis, rc, cams, exposed, rows, failed>>

Main ==
  \/ AllOpen \/ SetTarget \/ SweepEnds \/ Grab \/ GoHome \/ StopLoop \/ Join
  \/ FinalPose \/ Disable \/ Exit
  \/ \E c \in Cameras : OpenCamera(c) \/ RestoreCamera(c)

Next == (MotorLoop /\ main # "gone") \/ Main

-----------------------------------------------------------------------------

(***************************************************************************)
(* However the tool ends, with an abort of either thread at any moment or  *)
(* a camera's exception, it leaves the gimbal told to stand still or off,  *)
(* unless both of these writes failed (focal_calib.cpp:110, 356): the      *)
(* thread's last command cannot come after them.                           *)
(***************************************************************************)
AxisIsLeftStopped ==
  main = "gone" => axis # "driven" \/ {"zero", "disable"} \subseteq failed

=============================================================================
