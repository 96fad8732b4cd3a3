--------------------------- MODULE MCTrackingLoop ---------------------------
(* One leader and one follower; one axis of the operator's keys stands for two. *)
EXTENDS TrackingLoop

MCFollowers == {"g1"}
MCAxes == {"pan"}
MCDirections == {1}
=============================================================================
