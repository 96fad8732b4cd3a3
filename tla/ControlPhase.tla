---------------------------- MODULE ControlPhase ----------------------------
(***************************************************************************)
(* The pure decision taken once a tick: step_control and                   *)
(* apply_home_feedback of src/tracking/control_state.cpp.                  *)
(*                                                                         *)
(* An age is now_ns - last_detection_ns at the tick's entry time.  An      *)
(* input is a record of                                                    *)
(*   manual     the operator is steering                                   *)
(*   sighted    this tick's frame carries a detection, accepted or not     *)
(*   estimated  the loop holds an estimate                                 *)
(*   usable     both axes' poses were read and fresh                       *)
(***************************************************************************)
EXTENDS Naturals

CONSTANTS
  HomeReturnEnabled,
  StaleAfter,         (* 45 ticks: stale_after_ns, and the pose's max age   *)
  HomeDelay           (* home_delay_ns                                      *)

ASSUME ControlAssumption ==
  /\ HomeReturnEnabled \in BOOLEAN
  /\ StaleAfter \in Nat \ {0}
  /\ HomeDelay \in Nat

VARIABLES
  driving,        (* the thread has motors; FALSE is overlay only           *)
  filterEnabled   (* tracking.filter_enabled                                *)

(* Both are settled before the threads start and never change. *)
settings == <<driving, filterEnabled>>

Phases == {"Tracking", "ReturningHome", "AtHome", "Manual"}
LeaderActions == {"None", "Aim", "Hold", "ReturnHome", "Manual"}
FollowerActions == {"None", "Hold", "Mirror"}

ControlInputs ==
  [manual : BOOLEAN, sighted : BOOLEAN, estimated : BOOLEAN, usable : BOOLEAN]

(***************************************************************************)
(* Mutants: a detection does not end the return home; leaving manual does  *)
(* not restart tracking; the tracker outranks the operator.                *)
(***************************************************************************)
PhaseIgnoringSightings(phase, in) ==
  CASE in.manual -> "Manual"
    [] ~in.manual /\ phase = "Manual" -> "Tracking"
    [] OTHER -> phase

PhaseStuckInManual(phase, in) ==
  CASE in.manual -> "Manual"
    [] ~in.manual /\ in.sighted -> "Tracking"
    [] OTHER -> phase

LeaderTrackerFirst(phase, age, in) ==
  CASE ~driving -> "None"
    [] driving /\ ~in.usable -> "Hold"
    [] OTHER -> IF in.estimated THEN "Aim" ELSE IF in.manual THEN "Manual" ELSE "Hold"

-----------------------------------------------------------------------------

(* The phase once the mode and this tick's frame are taken into account. *)
PhaseAfterInput(phase, in) ==
  CASE in.manual -> "Manual"
    [] ~in.manual /\ (in.sighted \/ phase = "Manual") -> "Tracking"
    [] OTHER -> phase

(* Steering counts as seeing the target: the home delay runs from its end. *)
AgeAfterInput(age, in) == IF in.manual \/ in.sighted THEN 0 ELSE age

Aiming(age, in) ==
  /\ ~in.manual
  /\ IF filterEnabled
     THEN in.estimated /\ age < StaleAfter
     ELSE in.sighted /\ driving

(* phase and age are those after the input. *)
Leader(phase, age, in) ==
  CASE ~driving -> "None"
    [] driving /\ ~in.usable -> "Hold"
    [] driving /\ in.usable /\ in.manual -> "Manual"
    [] driving /\ in.usable /\ ~in.manual ->
         IF Aiming(age, in) THEN "Aim"
         ELSE IF phase = "ReturningHome" THEN "ReturnHome" ELSE "Hold"

Followers(in) ==
  CASE ~driving -> "None"
    [] driving /\ ~in.usable -> "Hold"
    [] driving /\ in.usable -> "Mirror"

(* Stop now, start returning on the next tick. *)
NextPhase(phase, age, in) ==
  IF /\ driving /\ in.usable /\ ~in.manual /\ ~Aiming(age, in)
     /\ phase = "Tracking" /\ HomeReturnEnabled /\ age >= HomeDelay
  THEN "ReturningHome" ELSE phase

StepControl(phase, age, in) ==
  LET p == PhaseAfterInput(phase, in)
      a == AgeAfterInput(age, in)
  IN [phase     |-> NextPhase(p, a, in),
      age       |-> a,
      leader    |-> Leader(p, a, in),
      followers |-> Followers(in)]

ApplyHomeFeedback(phase, reached) ==
  IF phase = "ReturningHome" /\ reached THEN "AtHome" ELSE phase
=============================================================================
