---------------------- MODULE ObservationChannelProofs ----------------------
(***************************************************************************)
(* Proofs about ObservationChannel, for any set of readers and any number  *)
(* of publications: its invariants, and that every step of it is a step of *)
(* the broadcast it stands for.                                            *)
(***************************************************************************)
EXTENDS ObservationChannel, TLAPS

(***************************************************************************)
(* The variables keep their types, and a filled slot of LatestValue always *)
(* holds the newest publication.                                           *)
(***************************************************************************)
THEOREM TypeCorrect == Spec => []TypeOK
<1>1. Init => TypeOK
  <2> SUFFICES ASSUME Init
               PROVE  TypeOK
    OBVIOUS
  <2>1. sequence \in 0 .. MaxPublications /\ slot \in {0, sequence}
    BY BoundAssumption DEF Init
  <2>2. cursor \in [Readers -> Nat] /\ last \in [Readers -> Nat]
    BY DEF Init
  <2>3. QED
    BY <2>1, <2>2 DEF Init, TypeOK
<1>2. TypeOK /\ [Next]_vars => TypeOK'
  <2> SUFFICES ASSUME TypeOK, [Next]_vars
               PROVE  TypeOK'
    OBVIOUS
  <2>1. CASE Push
    BY <2>1, BoundAssumption DEF TypeOK, Push
  <2>2. CASE Notify
    BY <2>2 DEF TypeOK, Notify
  <2>3. CASE Clear
    BY <2>3 DEF TypeOK, Clear
  <2>4. ASSUME NEW r \in Readers,
               Call(r) \/ ReaderStep(r) \/ WakeSpuriously(r) \/ Expire(r)
        PROVE  TypeOK'
    <3>1. CASE Take(r)
      BY <3>1, BoundAssumption DEF TypeOK, Take
    <3>2. CASE Call(r) \/ Block(r) \/ ReturnNone(r) \/ WakeSpuriously(r) \/ Expire(r)
      BY <3>2 DEF TypeOK, Call, Block, ReturnNone, WakeSpuriously, Expire
    <3>3. QED
      BY <2>4, <3>1, <3>2 DEF ReaderStep
  <2>5. CASE UNCHANGED vars
    BY <2>5 DEF TypeOK, vars
  <2>6. QED
    BY <2>1, <2>2, <2>3, <2>4, <2>5 DEF Next
<1>3. QED
  BY <1>1, <1>2, PTL DEF Spec

(***************************************************************************)
(* The cursor a thread keeps is the number of the frame it last received,  *)
(* and never ahead of the producer.                                        *)
(***************************************************************************)
THEOREM CursorCorrect == Spec => []CursorNamesValue
<1>1. Init => CursorNamesValue
  <2> SUFFICES ASSUME Init, NEW r \in Readers
               PROVE  last[r] = cursor[r] /\ cursor[r] <= sequence
    BY DEF CursorNamesValue
  <2>1. last[r] = 0 /\ cursor[r] = 0 /\ sequence = 0
    BY DEF Init
  <2>2. QED
    BY <2>1
<1>2. TypeOK /\ CursorNamesValue /\ [Next]_vars => CursorNamesValue'
  <2> SUFFICES ASSUME TypeOK, CursorNamesValue, [Next]_vars
               PROVE  CursorNamesValue'
    OBVIOUS
  <2> USE DEF TypeOK, CursorNamesValue
  <2>1. CASE Push
    BY <2>1, BoundAssumption DEF Push
  <2>2. CASE Notify \/ Clear \/ UNCHANGED vars
    BY <2>2 DEF Notify, Clear, vars
  <2>3. ASSUME NEW r \in Readers, Take(r)
        PROVE  CursorNamesValue'
    <3>1. slot = sequence /\ sequence' = sequence
      BY <2>3 DEF Take, Newer
    <3>2. QED
      BY <2>3, <3>1 DEF Take
  <2>4. ASSUME NEW r \in Readers,
               Call(r) \/ Block(r) \/ ReturnNone(r) \/ WakeSpuriously(r) \/ Expire(r)
        PROVE  CursorNamesValue'
    BY <2>4 DEF Call, Block, ReturnNone, WakeSpuriously, Expire
  <2>5. QED
    BY <2>1, <2>2, <2>3, <2>4 DEF Next, ReaderStep
<1>3. QED
  BY <1>1, <1>2, TypeCorrect, PTL DEF Spec

(***************************************************************************)
(* No tracking thread sleeps beside an unread frame without a notify_all   *)
(* still to come, however many threads share the channel.                  *)
(***************************************************************************)
THEOREM WakeupCorrect == Spec => []NoLostWakeup
<1>1. Init => NoLostWakeup
  BY DEF Init, NoLostWakeup
<1>2. TypeOK /\ NoLostWakeup /\ [Next]_vars => NoLostWakeup'
  <2> SUFFICES ASSUME TypeOK, NoLostWakeup, [Next]_vars
               PROVE  NoLostWakeup'
    OBVIOUS
  <2> USE DEF TypeOK, NoLostWakeup, Newer
  <2>1. CASE Push
    BY <2>1 DEF Push
  <2>2. CASE Notify
    <3>1. \A r \in Readers : pc'[r] # "wait"
      BY <2>2 DEF Notify
    <3>2. QED
      BY <3>1
  <2>3. CASE Clear \/ UNCHANGED vars
    BY <2>3 DEF Clear, vars
  <2>4. ASSUME NEW r \in Readers,
               Call(r) \/ ReaderStep(r) \/ WakeSpuriously(r) \/ Expire(r)
        PROVE  NoLostWakeup'
    BY <2>4 DEF Call, ReaderStep, Take, Block, ReturnNone, WakeSpuriously, Expire
  <2>5. QED
    BY <2>1, <2>2, <2>3, <2>4 DEF Next
<1>3. QED
  BY <1>1, <1>2, TypeCorrect, PTL DEF Spec

(***************************************************************************)
(* Every behaviour of the channel is one of the broadcast: a read returns  *)
(* the newest value or, with nothing newer in the slot, nothing.           *)
(***************************************************************************)
THEOREM RefinesBroadcast == Spec => Promise!SafeSpec
<1>1. Init => Promise!Init
  BY DEF Init, Promise!Init
<1>2. TypeOK /\ CursorNamesValue /\ [Next]_vars => [Promise!Next]_(Promise!vars)
  <2> SUFFICES ASSUME TypeOK, CursorNamesValue, [Next]_vars
               PROVE  Promise!Next \/ UNCHANGED Promise!vars
    OBVIOUS
  <2> USE DEF TypeOK, CursorNamesValue
  <2> DEFINE busy == {r \in Readers : pc[r] # "idle"}
  <2>1. CASE Push
    <3>1. Promise!Publish
      BY <2>1, BoundAssumption DEF Push, Promise!Publish
    <3>2. QED
      BY <3>1 DEF Promise!Next
  <2>2. CASE Notify
    <3>1. busy' = busy
      BY <2>2 DEF Notify
    <3>2. QED
      BY <2>2, <3>1 DEF Notify, Promise!vars
  <2>3. CASE Clear
    <3>1. Promise!Withdraw
      BY <2>3 DEF Clear, Promise!Withdraw
    <3>2. QED
      BY <3>1 DEF Promise!Next
  <2>4. ASSUME NEW r \in Readers, Call(r)
        PROVE  Promise!Next
    <3>1. r \notin busy /\ busy' = busy \union {r}
      BY <2>4 DEF Call
    <3>2. Promise!Listen(r)
      BY <2>4, <3>1 DEF Call, Promise!Listen
    <3>3. QED
      BY <3>2 DEF Promise!Next
  <2>5. ASSUME NEW r \in Readers, Take(r)
        PROVE  Promise!Next
    <3>1. r \in busy /\ busy' = busy \ {r}
      BY <2>5 DEF Take
    <3>2. slot = sequence /\ slot # 0 /\ last[r] # sequence
      BY <2>5 DEF Take, Newer
    <3>3. Promise!Deliver(r)
      BY <2>5, <3>1, <3>2 DEF Take, Promise!Deliver, Promise!Newer
    <3>4. QED
      BY <3>3 DEF Promise!Next
  <2>6. ASSUME NEW r \in Readers, ReturnNone(r)
        PROVE  Promise!Next
    <3>1. r \in busy /\ busy' = busy \ {r}
      BY <2>6 DEF ReturnNone
    <3>2. Promise!Decline(r)
      BY <2>6, <3>1 DEF ReturnNone, Newer, Promise!Decline, Promise!Newer
    <3>3. QED
      BY <3>2 DEF Promise!Next
  <2>7. ASSUME NEW r \in Readers, Block(r) \/ WakeSpuriously(r) \/ Expire(r)
        PROVE  UNCHANGED Promise!vars
    <3>1. busy' = busy
      BY <2>7 DEF Block, WakeSpuriously, Expire
    <3>2. QED
      BY <2>7, <3>1 DEF Block, WakeSpuriously, Expire, Promise!vars
  <2>8. CASE UNCHANGED vars
    BY <2>8 DEF vars, Promise!vars
  <2>9. QED
    BY <2>1, <2>2, <2>3, <2>4, <2>5, <2>6, <2>7, <2>8 DEF Next, ReaderStep
<1>3. QED
  BY <1>1, <1>2, TypeCorrect, CursorCorrect, PTL DEF Spec, Promise!SafeSpec
=============================================================================
