------------------------------- MODULE RunTrace -------------------------------
(***************************************************************************)
(* The latency trace of one camera (src/pipeline/run_trace.cpp): probes on *)
(* a dozen pads of the pipeline record events into a bounded vector, and a *)
(* writer swaps it for an empty one under the lock and writes the batch    *)
(* and then a line of counters outside it.  The probes share the trace,    *)
(* and the last one that goes destroys it.                                 *)
(*                                                                         *)
(* What happens under the mutex is one step.  An event is its number in    *)
(* the order of the lock.  A failed write ends the writer with part of     *)
(* the batch in the file; what fails stays failed until it returns.        *)
(* MaxEvents bounds the events.                                            *)
(***************************************************************************)
EXTENDS Naturals, Sequences

CONSTANTS
  Stages,      (* the pads                                                  *)
  Capacity,
  MaxEvents

VARIABLES
  recorded,    (* events that have come to record's lock                    *)
  probe,       (* per pad: "installed", "called" with a buffer, "removed"   *)
  pending_,
  batch_,      (* what is left of it to write                               *)
  dropped_,
  stopping_,
  writer,      (* the writer thread                                         *)
  taken,       (* its copies of stopping_ and dropped_                      *)
  rows,        (* file_: the events in it                                   *)
  counters,    (* file_: its lines of counters, that differ, each with the  *)
               (* number of rows before it                                  *)
  closed       (* the destructor has returned                               *)

queue == <<pending_, dropped_>>
file == <<rows, counters>>
traceVars == <<recorded, probe, queue, batch_, stopping_, writer, taken, file, closed>>

Init ==
  /\ recorded = 0
  /\ probe = [s \in Stages |-> "installed"]
  /\ pending_ = <<>>
  /\ batch_ = <<>>
  /\ dropped_ = 0
  /\ stopping_ = FALSE
  /\ writer = "waiting"
  /\ taken = [stopping |-> FALSE, dropped |-> 0]
  /\ rows = <<>>
  /\ counters = {}
  /\ closed = FALSE

-----------------------------------------------------------------------------
(* Mutants: the counter is read when it is written; the stop is not taken  *)
(* along with the batch.                                                   *)

WriteCountersNow ==
  /\ writer = "writing"
  /\ batch_ = <<>>
  /\ counters' = counters \cup {[after |-> Len(rows), dropped |-> dropped_,
                                complete |-> taken.stopping]}
  /\ writer' = IF taken.stopping THEN "returned" ELSE "waiting"
  /\ UNCHANGED <<recorded, probe, queue, batch_, stopping_, taken, rows, closed>>

TakeForgettingStop ==
  /\ writer = "waiting"
  /\ pending_' = batch_
  /\ batch_' = pending_
  /\ taken' = [stopping |-> FALSE, dropped |-> dropped_]
  /\ writer' = "writing"
  /\ UNCHANGED <<recorded, probe, dropped_, stopping_, file, closed>>

-----------------------------------------------------------------------------

(* A buffer passes the pad: its probe is running, and holds the trace. *)
Buffer(s) ==
  /\ probe[s] = "installed"
  /\ probe' = [probe EXCEPT ![s] = "called"]
  /\ UNCHANGED <<recorded, queue, batch_, stopping_, writer, taken, file, closed>>

Record(s) ==
  /\ probe[s] = "called"
  /\ recorded < MaxEvents
  /\ recorded' = recorded + 1
  /\ IF Len(pending_) = Capacity
     THEN dropped_' = dropped_ + 1 /\ UNCHANGED pending_
     ELSE pending_' = Append(pending_, recorded') /\ UNCHANGED dropped_
  /\ probe' = [probe EXCEPT ![s] = "installed"]
  /\ UNCHANGED <<batch_, stopping_, writer, taken, file, closed>>

(* The pipeline goes, and with the pad its probe, which is not running. *)
Remove(s) ==
  /\ probe[s] = "installed"
  /\ probe' = [probe EXCEPT ![s] = "removed"]
  /\ UNCHANGED <<recorded, queue, batch_, stopping_, writer, taken, file, closed>>

(* The last probe held the trace: ~Trace, up to the join and after it. *)
Destroy ==
  /\ \A s \in Stages : probe[s] = "removed"
  /\ ~stopping_
  /\ stopping_' = TRUE
  /\ UNCHANGED <<recorded, probe, queue, batch_, writer, taken, file, closed>>

Close ==
  /\ stopping_ /\ ~closed
  /\ writer = "returned"
  /\ closed' = TRUE
  /\ UNCHANGED <<recorded, probe, queue, batch_, stopping_, writer, taken, file>>

(* write: the wait is over, by its timeout or by the destructor. *)
Take ==
  /\ writer = "waiting"
  /\ pending_' = batch_
  /\ batch_' = pending_
  /\ taken' = [stopping |-> stopping_, dropped |-> dropped_]
  /\ writer' = "writing"
  /\ UNCHANGED <<recorded, probe, dropped_, stopping_, file, closed>>

WriteRow ==
  /\ writer = "writing"
  /\ batch_ # <<>>
  /\ rows' = Append(rows, Head(batch_))
  /\ batch_' = Tail(batch_)
  /\ UNCHANGED <<recorded, probe, queue, stopping_, writer, taken, counters, closed>>

WriteCounters ==
  /\ writer = "writing"
  /\ batch_ = <<>>
  /\ counters' = counters \cup {[after |-> Len(rows), dropped |-> taken.dropped,
                                complete |-> taken.stopping]}
  /\ writer' = IF taken.stopping THEN "returned" ELSE "waiting"
  /\ UNCHANGED <<recorded, probe, queue, batch_, stopping_, taken, rows, closed>>

WriteFails ==
  /\ writer = "writing"
  /\ writer' = "returned"
  /\ UNCHANGED <<recorded, probe, queue, batch_, stopping_, taken, file, closed>>

Writer == Take \/ WriteRow \/ WriteCounters \/ WriteFails

Next ==
  \/ Writer \/ Destroy \/ Close
  \/ \E s \in Stages : Buffer(s) \/ Record(s) \/ Remove(s)

-----------------------------------------------------------------------------

(***************************************************************************)
(* Every line of counters in the file tells of every event up to its       *)
(* batch, whichever of them the file goes on to hold and wherever a kill   *)
(* or a failed write cuts it off: the rows before it and the count dropped *)
(* add up to the last event it covers, and the rows after it came later.   *)
(* complete=1 covers the whole run (run_trace.cpp:72, "Periodic counters   *)
(* survive a forced process stop; complete=1 requires teardown.").         *)
(***************************************************************************)
CountersAccountForRows ==
  \A c \in counters :
    LET told == c.after + c.dropped IN
    /\ \A r \in DOMAIN rows : rows[r] <= told <=> r <= c.after
    /\ c.complete => told = recorded

(* The destructor returns, although the writer may have given up before. *)
TraceCloses == stopping_ ~> closed
=============================================================================
