------------------------- MODULE ObservationChannel -------------------------
(***************************************************************************)
(* LatestValue<T> of src/core/state.h: the single-slot broadcast channel   *)
(* through which a camera's inference probe hands frame observations to    *)
(* every tracking thread of that camera.                                   *)
(*                                                                         *)
(* Everything guarded by the channel's mutex is one step, because nothing  *)
(* reads that state without the mutex.  What happens outside it is a step  *)
(* of its own: the notify_all after the producer has unlocked, entering    *)
(* the wait set (atomic with the unlock), leaving it by a notification, by *)
(* a spurious wake-up or by the timeout, and the re-check after each.      *)
(*                                                                         *)
(* A value is the number of the publication that carried it; 0 is the      *)
(* empty slot.  MaxPublications bounds the producer's pushes.              *)
(***************************************************************************)
EXTENDS Naturals

CONSTANTS
  Readers,          (* the tracking threads that read this camera's channel *)
  MaxPublications   (* bound on the number of frames pushed                 *)

ASSUME BoundAssumption == MaxPublications \in Nat

VARIABLES
  slot,       (* slot_: the value present, 0 when empty                     *)
  sequence,   (* sequence_                                                  *)
  notifying,  (* the producer has unlocked but not yet called notify_all    *)
  pc,         (* where each reader is in try_read                           *)
  cursor,     (* each reader's private cursor                               *)
  last        (* the value each reader's latest successful read returned    *)

vars == <<slot, sequence, notifying, pc, cursor, last>>

-----------------------------------------------------------------------------

Init ==
  /\ slot = 0
  /\ sequence = 0
  /\ notifying = FALSE
  /\ pc = [r \in Readers |-> "idle"]
  /\ cursor = [r \in Readers |-> 0]
  /\ last = [r \in Readers |-> 0]

(* The predicate of wait_for. *)
Newer(r) == slot # 0 /\ sequence # cursor[r]

(* Mutants of the operations below: one reader is woken; a read counts one *)
(* publication however many it passed over; a timeout is not followed by a *)
(* last look at the slot.                                                  *)

NotifyOne ==
  /\ notifying
  /\ notifying' = FALSE
  /\ \/ \E r \in Readers : pc[r] = "wait" /\ pc' = [pc EXCEPT ![r] = "check"]
     \/ (\A r \in Readers : pc[r] # "wait") /\ UNCHANGED pc
  /\ UNCHANGED <<slot, sequence, cursor, last>>

TakeCountingOne(r) ==
  /\ pc[r] \in {"check", "expired"}
  /\ Newer(r)
  /\ last' = [last EXCEPT ![r] = slot]
  /\ cursor' = [cursor EXCEPT ![r] = @ + 1]
  /\ pc' = [pc EXCEPT ![r] = "idle"]
  /\ UNCHANGED <<slot, sequence, notifying>>

ReturnNoneUnchecked(r) ==
  /\ pc[r] = "expired"
  /\ pc' = [pc EXCEPT ![r] = "idle"]
  /\ UNCHANGED <<slot, sequence, notifying, cursor, last>>

-----------------------------------------------------------------------------

(* push: the critical section. *)
Push ==
  /\ ~notifying
  /\ sequence < MaxPublications
  /\ sequence' = sequence + 1
  /\ slot' = sequence + 1
  /\ notifying' = TRUE
  /\ UNCHANGED <<pc, cursor, last>>

(* push: notify_all, after the lock is gone. *)
Notify ==
  /\ notifying
  /\ notifying' = FALSE
  /\ pc' = [r \in Readers |-> IF pc[r] = "wait" THEN "check" ELSE pc[r]]
  /\ UNCHANGED <<slot, sequence, cursor, last>>

(* clear forgets the value but not how many there have been. *)
Clear ==
  /\ slot # 0
  /\ slot' = 0
  /\ UNCHANGED <<sequence, notifying, pc, cursor, last>>

Call(r) ==
  /\ pc[r] = "idle"
  /\ pc' = [pc EXCEPT ![r] = "check"]
  /\ UNCHANGED <<slot, sequence, notifying, cursor, last>>

(* The predicate holds, on entry, after a wake-up or after the timeout. *)
Take(r) ==
  /\ pc[r] \in {"check", "expired"}
  /\ Newer(r)
  /\ last' = [last EXCEPT ![r] = slot]
  /\ cursor' = [cursor EXCEPT ![r] = sequence]
  /\ pc' = [pc EXCEPT ![r] = "idle"]
  /\ UNCHANGED <<slot, sequence, notifying>>

(* The predicate fails: unlock and enter the wait set in one step. *)
Block(r) ==
  /\ pc[r] = "check"
  /\ ~Newer(r)
  /\ pc' = [pc EXCEPT ![r] = "wait"]
  /\ UNCHANGED <<slot, sequence, notifying, cursor, last>>

WakeSpuriously(r) ==
  /\ pc[r] = "wait"
  /\ pc' = [pc EXCEPT ![r] = "check"]
  /\ UNCHANGED <<slot, sequence, notifying, cursor, last>>

(* The deadline passes; the predicate is evaluated once more under the lock. *)
Expire(r) ==
  /\ pc[r] = "wait"
  /\ pc' = [pc EXCEPT ![r] = "expired"]
  /\ UNCHANGED <<slot, sequence, notifying, cursor, last>>

ReturnNone(r) ==
  /\ pc[r] = "expired"
  /\ ~Newer(r)
  /\ pc' = [pc EXCEPT ![r] = "idle"]
  /\ UNCHANGED <<slot, sequence, notifying, cursor, last>>

ReaderStep(r) == Take(r) \/ Block(r) \/ ReturnNone(r)

Next ==
  \/ Push
  \/ Notify
  \/ Clear
  \/ \E r \in Readers : Call(r) \/ ReaderStep(r) \/ WakeSpuriously(r) \/ Expire(r)

Spec == Init /\ [][Next]_vars

(***************************************************************************)
(* A push always reaches its notify_all, and a reader that holds the lock  *)
(* runs on.  Nothing is assumed of the timeout, of spurious wake-ups, of   *)
(* the camera, or of how often a reader calls.                             *)
(***************************************************************************)
FairSpec ==
  /\ Spec
  /\ WF_vars(Notify)
  /\ \A r \in Readers : WF_vars(ReaderStep(r))

-----------------------------------------------------------------------------

(* The types, and that a filled slot always holds the newest publication. *)
TypeOK ==
  /\ sequence \in 0 .. MaxPublications
  /\ slot \in {0, sequence}
  /\ notifying \in BOOLEAN
  /\ pc \in [Readers -> {"idle", "check", "wait", "expired"}]
  /\ cursor \in [Readers -> Nat]
  /\ last \in [Readers -> Nat]

(***************************************************************************)
(* No lost wake-up: a tracking thread is never left in the condition       *)
(* variable's wait set beside a frame it has not read, unless the          *)
(* notify_all that will wake it is still to come.  It is what makes        *)
(* notifying after the unlock (state.h:79) correct.                        *)
(***************************************************************************)
NoLostWakeup ==
  \A r \in Readers : pc[r] = "wait" /\ Newer(r) => notifying

(***************************************************************************)
(* A reader's cursor names the frame it holds, for every reader and across *)
(* clear(): the skip count that main.cpp:338 takes from two cursors is the *)
(* number of frames the reader really missed.                              *)
(***************************************************************************)
CursorNamesValue == \A r \in Readers : last[r] = cursor[r] /\ cursor[r] <= sequence

Promise == INSTANCE LatestBroadcast WITH
  published <- sequence,
  available <- slot # 0,
  received  <- last,
  listening <- {r \in Readers : pc[r] # "idle"}

(***************************************************************************)
(* The channel implements the broadcast it stands for: try_read returns    *)
(* nullopt only when nothing newer was in the slot, returns the newest     *)
(* value otherwise, and never leaves a reader inside beside a newer value. *)
(***************************************************************************)
ImplementsBroadcast == Promise!Spec
=============================================================================
