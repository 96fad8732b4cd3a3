----------------------------- MODULE MCFilterTrack -----------------------------
(* A camera whose frames come 150 to 230 apart, the last too far to be an    *)
(* interval; a pipeline that now and then lags by more than a frame; a ring  *)
(* of two samples.                                                           *)
EXTENDS FilterTrack

MCGaps == {150, 190, 230}
MCLatencies == {30, 280}
MCTickTimes == {20}
=============================================================================
