--------------------------- MODULE MCMotorBringUp ---------------------------
(* Two gimbals, of which the first calibrates on boot; three steps between   *)
(* the end stops, the least that leaves a range between the backoffs.        *)
EXTENDS MotorBringUp

MCOnBoot == {1, 2}
=============================================================================
