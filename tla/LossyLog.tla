------------------------------- MODULE LossyLog -------------------------------
(***************************************************************************)
(* What telemetry (src/tracking/telemetry.h) promises to whoever reads a   *)
(* run's files: each kind of record is written in the order it was         *)
(* recorded, none twice, and one is missing only if at least Capacity of   *)
(* its kind were waiting when it came, in which case it was counted.       *)
(***************************************************************************)
EXTENDS Naturals, Sequences

CONSTANTS Kinds, Capacity

VARIABLES
  made,      (* records made; record n of a kind carries the value n        *)
  waiting,   (* recorded, not written                                       *)
  written,   (* the file                                                    *)
  lost       (* records dropped and counted                                 *)

vars == <<made, waiting, written, lost>>

Init ==
  /\ made = [k \in Kinds |-> 0]
  /\ waiting = [k \in Kinds |-> <<>>]
  /\ written = [k \in Kinds |-> <<>>]
  /\ lost = [k \in Kinds |-> 0]

Accept(k) ==
  /\ made' = [made EXCEPT ![k] = @ + 1]
  /\ waiting' = [waiting EXCEPT ![k] = Append(@, made[k] + 1)]
  /\ UNCHANGED <<written, lost>>

Lose(k) ==
  /\ Len(waiting[k]) >= Capacity
  /\ made' = [made EXCEPT ![k] = @ + 1]
  /\ lost' = [lost EXCEPT ![k] = @ + 1]
  /\ UNCHANGED <<waiting, written>>

(* Any number of the records waiting, in their order. *)
Write(k) ==
  \E n \in 1 .. Len(waiting[k]) :
    /\ written' = [written EXCEPT ![k] = @ \o SubSeq(waiting[k], 1, n)]
    /\ waiting' = [waiting EXCEPT ![k] = SubSeq(@, n + 1, Len(@))]
    /\ UNCHANGED <<made, lost>>

Next == \E k \in Kinds : Accept(k) \/ Lose(k) \/ Write(k)

Spec == Init /\ [][Next]_vars /\ \A k \in Kinds : WF_vars(Write(k))
=============================================================================
