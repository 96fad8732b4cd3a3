---------------------------- MODULE MotorContract ----------------------------
(***************************************************************************)
(* What a tracking thread may rely on when a call to CandleMotor returns:  *)
(* the call was one indivisible transaction on one gimbal, and left its    *)
(* axes as the result says.  TrackingLoop sees its motors this way.        *)
(***************************************************************************)
EXTENDS Integers

CONSTANTS Gimbals, Axes, Speeds

VARIABLES
  motion,   (* the velocity each drive was left with by completed calls     *)
  result    (* the call that has just completed, or NoResult                *)

vars == <<motion, result>>

NoResult == [gimbal |-> "none", writes |-> FALSE, held |-> FALSE, ok |-> FALSE,
             arrived |-> FALSE]

Results(g) ==
  [gimbal : {g}, writes : BOOLEAN, held : BOOLEAN, ok : BOOLEAN, arrived : BOOLEAN]

(* An axis that was told to hold stops or, the write failing, goes on.      *)
Allowed(r, before, after) ==
  /\ ~r.writes => after = before
  /\ r.held => \A a \in Axes : after[a] \in {0, before[a]}
  /\ r.held /\ r.ok => \A a \in Axes : after[a] = 0
  /\ r.arrived => r.ok /\ r.held

Init ==
  /\ motion = [g \in Gimbals |-> [a \in Axes |-> 0]]
  /\ result = NoResult

Complete(g) ==
  /\ result = NoResult
  /\ result' \in Results(g)
  /\ \E after \in [Axes -> Speeds] :
       /\ Allowed(result', motion[g], after)
       /\ motion' = [motion EXCEPT ![g] = after]

Return ==
  /\ result # NoResult
  /\ result' = NoResult
  /\ UNCHANGED motion

Next == Return \/ \E g \in Gimbals : Complete(g)

Spec == Init /\ [][Next]_vars
=============================================================================
