----------------------- MODULE MCObservationChannel -----------------------
(* Two tracking threads read the channel of one camera. *)
EXTENDS ObservationChannel

CONSTANTS r1, r2

MCReaders == {r1, r2}
===========================================================================
