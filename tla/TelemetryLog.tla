----------------------------- MODULE TelemetryLog -----------------------------
(***************************************************************************)
(* Telemetry of src/tracking/telemetry.cpp: the tracking threads copy      *)
(* records into two rings, one of frames and one of ticks, and a writer    *)
(* thread empties both under the lock and does the file I/O outside it,    *)
(* until the destructor stops it, joins it and writes how many records     *)
(* were dropped.                                                           *)
(*                                                                         *)
(* What happens under the mutex is one step.  The writer's wait ends by    *)
(* its timeout or by the destructor's notification, and nothing tells the  *)
(* two apart afterwards.  A record is its number within its kind.  The     *)
(* destructor runs when the last tracking thread has let go of the object, *)
(* so nothing is recorded after it begins.  MaxRecords bounds the records  *)
(* of each kind.                                                           *)
(***************************************************************************)
EXTENDS Naturals, Sequences

CONSTANTS
  Kinds,       (* "frame" and "tick"                                        *)
  Capacity,    (* k_ring_capacity                                           *)
  MaxRecords

ASSUME CapacityAssumption == Capacity \in Nat \ {0} /\ MaxRecords \in Nat

VARIABLES
  made,      (* records made so far, of each kind                           *)
  slots,     (* the rings: slots, head, count and dropped of Ring<T>        *)
  head,
  count,
  dropped,
  stop,      (* stop_                                                       *)
  pc,        (* the writer                                                  *)
  stopping,  (* the writer's copy of stop_                                  *)
  batch,     (* frame_batch_ and tick_batch_                                *)
  files,     (* the records in frames.csv and ticks.csv                     *)
  summary    (* the counts on run.txt's last line, <<>> until it is written *)

rings == <<slots, head, count, dropped>>
vars == <<made, rings, stop, pc, stopping, batch, files, summary>>

Init ==
  /\ made = [k \in Kinds |-> 0]
  /\ slots = [k \in Kinds |-> [i \in 0 .. Capacity - 1 |-> 0]]
  /\ head = [k \in Kinds |-> 0]
  /\ count = [k \in Kinds |-> 0]
  /\ dropped = [k \in Kinds |-> 0]
  /\ stop = FALSE
  /\ pc = "waiting"
  /\ stopping = FALSE
  /\ batch = [k \in Kinds |-> <<>>]
  /\ files = [k \in Kinds |-> <<>>]
  /\ summary = <<>>

(* A ring's records, oldest first. *)
Contents(k) == [i \in 1 .. count[k] |-> slots[k][(head[k] + i - 1) % Capacity]]

-----------------------------------------------------------------------------
(* Mutants of the operations below: a ring's count outlives the taking of  *)
(* its records; the writer does not take stop_ along with the batch; the   *)
(* writer stops on stop_ as it is when the files are flushed.              *)

WakeKeepingCount ==
  /\ pc = "waiting"
  /\ stopping' = stop
  /\ batch' = [k \in Kinds |-> Contents(k)]
  /\ head' = [k \in Kinds |-> (head[k] + count[k]) % Capacity]
  /\ pc' = "draining"
  /\ UNCHANGED <<made, slots, count, dropped, stop, files, summary>>

WakeForgettingStop ==
  /\ pc = "waiting"
  /\ stopping' = FALSE
  /\ batch' = [k \in Kinds |-> Contents(k)]
  /\ head' = [k \in Kinds |-> (head[k] + count[k]) % Capacity]
  /\ count' = [k \in Kinds |-> 0]
  /\ pc' = "draining"
  /\ UNCHANGED <<made, slots, dropped, stop, files, summary>>

FlushReadingStop ==
  /\ pc = "draining"
  /\ \A k \in Kinds : batch[k] = <<>>
  /\ pc' = IF stop THEN "returned" ELSE "waiting"
  /\ UNCHANGED <<made, rings, stop, stopping, batch, files, summary>>

-----------------------------------------------------------------------------

(* push: a full ring drops the new record. *)
Push(k) ==
  IF count[k] = Capacity
  THEN /\ dropped' = [dropped EXCEPT ![k] = @ + 1]
       /\ UNCHANGED <<slots, head, count>>
  ELSE /\ slots' = [slots EXCEPT ![k][(head[k] + count[k]) % Capacity] = made[k] + 1]
       /\ count' = [count EXCEPT ![k] = @ + 1]
       /\ UNCHANGED <<head, dropped>>

Record(k) ==
  /\ ~stop
  /\ made[k] < MaxRecords
  /\ made' = [made EXCEPT ![k] = @ + 1]
  /\ Push(k)
  /\ UNCHANGED <<stop, pc, stopping, batch, files, summary>>

(* take leaves the head where the next record will go. *)
NextHead(k) == (head[k] + count[k]) % Capacity

(* The wait is over: stop_ and both rings are taken under one lock. *)
Wake ==
  /\ pc = "waiting"
  /\ stopping' = stop
  /\ batch' = [k \in Kinds |-> Contents(k)]
  /\ head' = [k \in Kinds |-> NextHead(k)]
  /\ count' = [k \in Kinds |-> 0]
  /\ pc' = "draining"
  /\ UNCHANGED <<made, slots, dropped, stop, files, summary>>

(* drain, outside the lock: one record, then the flush that ends the batch. *)
WriteRecord(k) ==
  /\ pc = "draining"
  /\ batch[k] # <<>>
  /\ files' = [files EXCEPT ![k] = Append(@, Head(batch[k]))]
  /\ batch' = [batch EXCEPT ![k] = Tail(@)]
  /\ UNCHANGED <<made, rings, stop, pc, stopping, summary>>

Flush ==
  /\ pc = "draining"
  /\ \A k \in Kinds : batch[k] = <<>>
  /\ pc' = IF stopping THEN "returned" ELSE "waiting"
  /\ UNCHANGED <<made, rings, stop, stopping, batch, files, summary>>

Writer == Wake \/ Flush \/ \E k \in Kinds : WriteRecord(k)

(* The destructor: stop_, the notification, and after the join the summary. *)
Destroy ==
  /\ ~stop
  /\ stop' = TRUE
  /\ UNCHANGED <<made, rings, pc, stopping, batch, files, summary>>

Close ==
  /\ stop
  /\ pc = "returned"
  /\ summary = <<>>
  /\ summary' = <<dropped>>
  /\ UNCHANGED <<made, rings, stop, pc, stopping, batch, files>>

Next == Writer \/ Destroy \/ Close \/ \E k \in Kinds : Record(k)

Spec == Init /\ [][Next]_vars

(***************************************************************************)
(* The writer's wait is bounded by k_drain_period and file I/O returns;    *)
(* a join that can return does.  Nothing makes a run end.                  *)
(***************************************************************************)
FairSpec == Spec /\ WF_vars(Writer) /\ WF_vars(Close)

-----------------------------------------------------------------------------

TypeOK ==
  /\ made \in [Kinds -> 0 .. MaxRecords]
  /\ slots \in [Kinds -> [0 .. Capacity - 1 -> 0 .. MaxRecords]]
  /\ head \in [Kinds -> 0 .. Capacity - 1]
  /\ count \in [Kinds -> 0 .. Capacity]
  /\ dropped \in [Kinds -> 0 .. MaxRecords]
  /\ stop \in BOOLEAN
  /\ pc \in {"waiting", "draining", "returned"}
  /\ stopping \in BOOLEAN
  /\ batch \in [Kinds -> Seq(0 .. MaxRecords)]
  /\ files \in [Kinds -> Seq(0 .. MaxRecords)]
  /\ summary \in {<<>>, <<dropped>>}

(***************************************************************************)
(* When the run's files are closed every record is in its file or among    *)
(* the dropped that run.txt counts: the batch that was in the ring when    *)
(* the destructor ran is not lost with the writer.                         *)
(***************************************************************************)
ClosedMeansAccountedFor ==
  summary # <<>> => \A k \in Kinds : Len(files[k]) + summary[1][k] = made[k]

Log == INSTANCE LossyLog WITH
  waiting <- [k \in Kinds |-> batch[k] \o Contents(k)],
  written <- files,
  lost <- dropped

(***************************************************************************)
(* The two-ring, two-buffer hand-over keeps the order of the records       *)
(* across wrap-around, writes none twice, drops only when a ringful is     *)
(* waiting, and gets every accepted record written in the end.             *)
(***************************************************************************)
ImplementsLog == Log!Spec

(* The destructor does return: stop_ is always seen, and only then. *)
CloseCompletes == stop ~> summary # <<>>
=============================================================================
