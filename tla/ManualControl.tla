---------------------------- MODULE ManualControl ----------------------------
(***************************************************************************)
(* The operator's mode and key presses, ManualControl in                   *)
(* src/tracking/manual_control.h.  The command listener writes it; each    *)
(* tracking thread reads it twice a tick, manual() when it decides and     *)
(* command() when it drives, with the lock released in between.            *)
(*                                                                         *)
(* Time is the age of each axis's last move, counted up to MoveTimeout,    *)
(* where the move has lapsed: live() cannot tell older ages apart.         *)
(***************************************************************************)
EXTENDS Integers

CONSTANTS
  Axes,         (* the axes a key can move: pan and tilt                    *)
  Directions,   (* the nonzero directions a key can ask for                 *)
  MoveTimeout   (* manual_timeout_ms                                        *)

ASSUME ManualAssumption ==
  /\ Directions \subseteq {-1, 1}
  /\ MoveTimeout \in Nat \ {0}

VARIABLES
  manual,   (* manual_ *)
  axis,     (* pan_ and tilt_: the direction asked for and how long ago     *)
  pressed   (* history: the axes whose last move was asked for in the spell *)
            (* of manual or of auto that still lasts                        *)

operator == <<manual, axis, pressed>>

(* Axis{}: no direction, stamped at the epoch. *)
AtRest == [direction |-> 0, age |-> MoveTimeout]

OperatorTypeOK ==
  /\ manual \in BOOLEAN
  /\ axis \in [Axes -> [direction : Directions \union {0}, age : 0 .. MoveTimeout]]
  /\ pressed \in SUBSET Axes

OperatorInit ==
  /\ manual = FALSE
  /\ axis = [a \in Axes |-> AtRest]
  /\ pressed = {}

(* Mutant of SetMode: it lets the moves lapse but keeps their directions,   *)
(* and stamps both axes afresh on the way back to manual.                   *)
SetModeRestamping(mode) ==
  /\ mode # manual
  /\ manual' = mode
  /\ axis' = [a \in Axes |-> [axis[a] EXCEPT !.age = IF mode THEN 0 ELSE MoveTimeout]]
  /\ pressed' = {}

(* set_mode: the request for the mode already in force changes nothing. *)
SetMode(mode) ==
  /\ mode # manual
  /\ manual' = mode
  /\ axis' = [a \in Axes |-> AtRest]
  /\ pressed' = {}

(* move: ignored in auto. *)
Move(a, d) ==
  /\ manual
  /\ axis' = [axis EXCEPT ![a] = [direction |-> d, age |-> 0]]
  /\ pressed' = pressed \union {a}
  /\ UNCHANGED manual

(* One unit of time on the clock that live() reads. *)
AgeMoves ==
  /\ axis' = [a \in Axes |->
                [axis[a] EXCEPT !.age = IF @ < MoveTimeout THEN @ + 1 ELSE @]]
  /\ UNCHANGED <<manual, pressed>>

(* command(): the live direction of one axis. *)
Command(a) == IF axis[a].age < MoveTimeout THEN axis[a].direction ELSE 0
=============================================================================
