----------------------------- MODULE MCLifecycle -----------------------------
(* Both cameras, one leader each, and two signals.                           *)
EXTENDS Lifecycle

MCCameras == {"rgb", "mono"}
MCLeaders == {"g0"}
=============================================================================
