-------------------------- MODULE LatestBroadcast --------------------------
(***************************************************************************)
(* What LatestValue (src/core/state.h) promises to the threads that share  *)
(* one: a single slot that a camera pipeline overwrites and that every     *)
(* tracking thread reads without consuming it for the others.  A read that *)
(* returns nothing had nothing newer to return when it returned, and a     *)
(* reader is never left listening next to a value it has not received.     *)
(* There are no locks, wait sets or timeouts here.                         *)
(***************************************************************************)
EXTENDS Naturals

CONSTANT Readers

VARIABLES
  published,  (* publications so far; publication n carries the value n    *)
  available,  (* the newest publication has not been withdrawn             *)
  received,   (* the newest publication each reader has received, 0 = none *)
  listening   (* the readers inside a read                                 *)

vars == <<published, available, received, listening>>

Newer(r) == available /\ received[r] # published

Init ==
  /\ published = 0
  /\ available = FALSE
  /\ received = [r \in Readers |-> 0]
  /\ listening = {}

Publish ==
  /\ published' = published + 1
  /\ available' = TRUE
  /\ UNCHANGED <<received, listening>>

Withdraw ==
  /\ available' = FALSE
  /\ UNCHANGED <<published, received, listening>>

Listen(r) ==
  /\ r \notin listening
  /\ listening' = listening \union {r}
  /\ UNCHANGED <<published, available, received>>

Deliver(r) ==
  /\ r \in listening
  /\ Newer(r)
  /\ received' = [received EXCEPT ![r] = published]
  /\ listening' = listening \ {r}
  /\ UNCHANGED <<published, available>>

Decline(r) ==
  /\ r \in listening
  /\ ~Newer(r)
  /\ listening' = listening \ {r}
  /\ UNCHANGED <<published, available, received>>

Next ==
  \/ Publish
  \/ Withdraw
  \/ \E r \in Readers : Listen(r) \/ Deliver(r) \/ Decline(r)

SafeSpec == Init /\ [][Next]_vars

(* Next lets this condition end in two ways only: delivery to r, or a withdrawal. *)
Starving(r) == r \in listening /\ Newer(r)

Spec == SafeSpec /\ \A r \in Readers : Starving(r) ~> ~Starving(r)
=============================================================================
