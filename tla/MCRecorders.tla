------------------------------ MODULE MCRecorders ------------------------------
(* Telemetry or the latency trace, which share nothing: a behaviour runs one. *)
(* Buffers of two and enough records to fill, drop and wrap around.           *)
EXTENDS TelemetryLog

CONSTANTS Stages, MaxEvents

VARIABLES recorded, probe, pending_, batch_, dropped_, stopping_, writer, taken, rows,
          counters, closed,
          recorder

Trace == INSTANCE RunTrace

traceVars == <<recorded, probe, pending_, batch_, dropped_, stopping_, writer, taken, rows,
               counters, closed>>

MCKinds == {"frame", "tick"}
MCStages == {"source", "osd_out"}

allVars == <<vars, traceVars, recorder>>

Tracing(A) == recorder = "trace" /\ A /\ UNCHANGED <<vars, recorder>>
Logging(A) == recorder = "telemetry" /\ A /\ UNCHANGED <<traceVars, recorder>>

MCInit == Init /\ Trace!Init /\ recorder \in {"telemetry", "trace"}

MCNext == Logging(Next) \/ Tracing(Trace!Next)

(* Each writer's wait has a timeout, file I/O returns, a join that can does. *)
MCSpec ==
  /\ MCInit /\ [][MCNext]_allVars
  /\ WF_allVars(Logging(Writer)) /\ WF_allVars(Logging(Close))
  /\ WF_allVars(Tracing(Trace!Writer)) /\ WF_allVars(Tracing(Trace!Close))

(* RunTrace's properties: its counters account for its rows, and it closes. *)
CountersAccountForRows == Trace!CountersAccountForRows
TraceCloses == Trace!TraceCloses
=============================================================================
