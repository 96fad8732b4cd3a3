---------------------------- MODULE RecordersProofs ----------------------------
(***************************************************************************)
(* Proofs about what MCRecorders runs: TelemetryLog for any kinds, ring    *)
(* capacity and number of records, RunTrace for any pads, capacity and     *)
(* number of events.                                                       *)
(***************************************************************************)
EXTENDS MCRecorders, SequenceTheorems, TLAPS

Records == 0 .. MaxRecords

Slots == 0 .. Capacity - 1

-----------------------------------------------------------------------------
(* The ring.                                                               *)

(* Slots are found modulo the capacity, wherever the head is. *)
LEMMA SlotLemma ==
  ASSUME NEW h \in Slots, NEW i \in 0 .. Capacity
  PROVE  /\ (h + i) % Capacity \in Slots
         /\ (h + i) % Capacity = IF h + i < Capacity THEN h + i ELSE h + i - Capacity
<1>1. Capacity \in Nat \ {0}
  BY CapacityAssumption
<1>2. CASE h + i < Capacity
  BY <1>1, <1>2 DEF Slots
<1>3. CASE h + i >= Capacity
  <2>1. PICK r \in Slots : r = h + i - Capacity
    BY <1>1, <1>3 DEF Slots
  <2>2. (r + Capacity) % Capacity = r
    BY <1>1, <2>1 DEF Slots
  <2>3. h + i = r + Capacity
    BY <1>1, <2>1 DEF Slots
  <2> QED  BY <1>1, <2>1, <2>2, <2>3 DEF Slots
<1> QED  BY <1>1, <1>2, <1>3 DEF Slots

-----------------------------------------------------------------------------
(* Types and accounts.                                                     *)

LEMMA Sums ==
  ASSUME NEW f \in Nat, NEW b \in Nat, NEW c \in Nat, NEW d \in Nat, NEW m \in Nat,
         f + b + c + d = m
  PROVE  /\ (f + 1) + (b - 1) + c + d = m
         /\ d <= m
         /\ b = 0 => f + c + 0 + d = m
         /\ b = 0 /\ c = 0 => f + d = m
OBVIOUS

Shape ==
  /\ made \in [Kinds -> Records]
  /\ slots \in [Kinds -> [Slots -> Records]]
  /\ head \in [Kinds -> Slots]
  /\ count \in [Kinds -> 0 .. Capacity]
  /\ dropped \in [Kinds -> Nat]
  /\ batch \in [Kinds -> Seq(Records)]
  /\ files \in [Kinds -> Seq(Records)]
  /\ pc \in {"waiting", "draining", "returned"}
  /\ stop \in BOOLEAN
  /\ stopping \in BOOLEAN

(* A record is in the file, in the writer's hands, in the ring or dropped. *)
Accounted(k) == Len(files[k]) + Len(batch[k]) + count[k] + dropped[k] = made[k]

(***************************************************************************)
(* Every record is accounted for; the writer waits with empty hands; once  *)
(* it has seen stop_ the rings stay empty, and it returns only then, with  *)
(* empty hands.                                                            *)
(***************************************************************************)
AccountInv ==
  /\ Shape
  /\ \A k \in Kinds : Accounted(k)
  /\ pc # "draining" => \A k \in Kinds : batch[k] = <<>>
  /\ stopping => stop /\ \A k \in Kinds : count[k] = 0
  /\ pc = "waiting" => ~stopping
  /\ pc = "returned" => stopping
  /\ summary # <<>> => pc = "returned" /\ summary = <<dropped>>

(* What a ring holds, as the sequence take copies. *)
LEMMA ContentsLemma ==
  ASSUME Shape, NEW k \in Kinds
  PROVE  /\ Contents(k) \in Seq(Records)
         /\ Len(Contents(k)) = count[k]
         /\ \A i \in 1 .. count[k] : Contents(k)[i] = slots[k][(head[k] + i - 1) % Capacity]
<1>1. /\ head[k] \in Slots /\ count[k] \in 0 .. Capacity /\ slots[k] \in [Slots -> Records]
      /\ Capacity \in Nat \ {0}
  BY CapacityAssumption DEF Shape
<1>2. \A i \in 1 .. count[k] : slots[k][(head[k] + i - 1) % Capacity] \in Records
  <2> TAKE i \in 1 .. count[k]
  <2>1. i - 1 \in 0 .. Capacity /\ head[k] + i - 1 = head[k] + (i - 1)
    BY <1>1 DEF Slots
  <2>2. (head[k] + (i - 1)) % Capacity \in Slots
    BY <1>1, <2>1, SlotLemma
  <2>3. (head[k] + i - 1) % Capacity \in Slots
    BY <2>1, <2>2, Zenon
  <2> QED  BY <1>1, <2>3
<1> QED  BY <1>1, <1>2 DEF Contents

LEMMA RecordAccounted ==
  ASSUME AccountInv, NEW k \in Kinds, Record(k)
  PROVE  AccountInv'
<1> USE DEF AccountInv, Record, Push
<1>1. /\ made[k] \in Records /\ made[k] + 1 \in Records /\ count[k] \in 0 .. Capacity
      /\ head[k] \in Slots /\ Capacity \in Nat \ {0} /\ MaxRecords \in Nat
  BY CapacityAssumption DEF Shape, Records
<1>2. (head[k] + count[k]) % Capacity \in Slots
  BY <1>1, SlotLemma
<1>3. Shape'
  <2>1. \A r \in Records : [slots[k] EXCEPT ![(head[k] + count[k]) % Capacity] = r]
                               \in [Slots -> Records]
    BY <1>2 DEF Shape
  <2>2. slots' \in [Kinds -> [Slots -> Records]]
    <3>1. CASE slots' = slots
      BY <3>1 DEF Shape
    <3>2. CASE slots' = [slots EXCEPT ![k] =
                           [@ EXCEPT ![(head[k] + count[k]) % Capacity] = made[k] + 1]]
      BY <1>1, <2>1, <3>2 DEF Shape
    <3> QED  BY <3>1, <3>2
  <2>3. count' \in [Kinds -> 0 .. Capacity] /\ dropped' \in [Kinds -> Nat]
    <3>1. CASE count[k] = Capacity
      BY <1>1, <3>1 DEF Shape
    <3>2. CASE count[k] # Capacity
      <4>1. count[k] + 1 \in 0 .. Capacity
        BY <1>1, <3>2
      <4> HIDE DEF Push
      <4>2. count' = [count EXCEPT ![k] = @ + 1] /\ dropped' = dropped
        BY <3>2 DEF Push
      <4> QED  BY <4>1, <4>2 DEF Shape
    <3> QED  BY <3>1, <3>2
  <2>4. made' \in [Kinds -> Records]
    BY <1>1 DEF Shape
  <2> QED  BY <2>2, <2>3, <2>4 DEF Shape
<1>4. Accounted(k)'
  BY <1>1, LenProperties DEF Shape, Accounted, Records
<1>5. ASSUME NEW j \in Kinds \ {k}  PROVE Accounted(j)'
  BY <1>5 DEF Shape, Accounted
<1> QED  BY <1>3, <1>4, <1>5

LEMMA WakeAccounted ==
  ASSUME AccountInv, Wake
  PROVE  AccountInv'
<1> USE DEF AccountInv, Wake
<1>1. Shape'
  <2>1. \A k \in Kinds : Contents(k) \in Seq(Records)
    BY ContentsLemma
  <2>2. \A k \in Kinds : NextHead(k) \in Slots
    BY SlotLemma DEF Shape, NextHead
  <2> QED  BY <2>1, <2>2, CapacityAssumption DEF Shape
<1>2. ASSUME NEW k \in Kinds  PROVE Accounted(k)'
  <2>1. Len(Contents(k)) = count[k] /\ count[k] \in Nat
    BY ContentsLemma DEF Shape
  <2>2. /\ batch'[k] = Contents(k) /\ count'[k] = 0
        /\ files' = files /\ dropped' = dropped /\ made' = made
    OBVIOUS
  <2>3. Len(files[k]) \in Nat /\ dropped[k] \in Nat /\ Len(batch[k]) = 0
    BY LenProperties, EmptySeq DEF Shape
  <2>4. Accounted(k)
    OBVIOUS
  <2> QED  BY <2>1, <2>2, <2>3, <2>4 DEF Accounted
<1> QED  BY <1>1, <1>2

LEMMA WriteAccounted ==
  ASSUME AccountInv, NEW k \in Kinds, WriteRecord(k)
  PROVE  AccountInv'
<1> USE DEF AccountInv, WriteRecord
<1>1. /\ batch[k] \in Seq(Records) /\ files[k] \in Seq(Records) /\ batch[k] # <<>>
  BY DEF Shape
<1>2. /\ Head(batch[k]) \in Records /\ Tail(batch[k]) \in Seq(Records)
      /\ Len(Tail(batch[k])) = Len(batch[k]) - 1
  BY <1>1, HeadTailProperties
<1>3. /\ Append(files[k], Head(batch[k])) \in Seq(Records)
      /\ Len(Append(files[k], Head(batch[k]))) = Len(files[k]) + 1
  BY <1>1, <1>2, AppendProperties
<1>4. Shape'
  BY <1>2, <1>3 DEF Shape, rings
<1>5. Accounted(k)'
  <2>1. /\ files'[k] = Append(files[k], Head(batch[k])) /\ batch'[k] = Tail(batch[k])
        /\ count' = count /\ dropped' = dropped /\ made' = made
    BY DEF Shape, rings
  <2>2. /\ Len(files[k]) \in Nat /\ Len(batch[k]) \in Nat
        /\ count[k] \in Nat /\ dropped[k] \in Nat
    BY <1>1, LenProperties DEF Shape
  <2>3. Len(files[k]) + Len(batch[k]) + count[k] + dropped[k] = made[k] /\ made[k] \in Nat
    BY DEF Accounted, Shape, Records
  <2>4. (Len(files[k]) + 1) + (Len(batch[k]) - 1) + count[k] + dropped[k] = made[k]
    <3>1. PICK f \in Nat : f = Len(files[k])  BY <2>2
    <3>2. PICK b \in Nat : b = Len(batch[k])  BY <2>2
    <3>3. PICK c \in Nat : c = count[k]  BY <2>2
    <3>4. PICK d \in Nat : d = dropped[k]  BY <2>2
    <3>5. f + b + c + d = made[k]
      BY <2>3, <3>1, <3>2, <3>3, <3>4, Zenon
    <3>6. (f + 1) + (b - 1) + c + d = made[k]
      BY <2>3, <3>5, Sums
    <3> QED  BY <3>1, <3>2, <3>3, <3>4, <3>6, Zenon
  <2> QED  BY <1>2, <1>3, <2>1, <2>4, Zenon DEF Accounted
<1>6. ASSUME NEW j \in Kinds \ {k}  PROVE Accounted(j)'
  BY <1>6 DEF Shape, Accounted, rings
<1> QED  BY <1>4, <1>5, <1>6 DEF rings

THEOREM AccountInvariant == Spec => []AccountInv
<1>1. Init => AccountInv
  <2> SUFFICES ASSUME Init  PROVE AccountInv
    OBVIOUS
  <2>1. /\ 0 \in Records /\ 0 \in Slots /\ 0 \in 0 .. Capacity /\ 0 \in Nat
        /\ <<>> \in Seq(Records)
    BY CapacityAssumption, EmptySeq DEF Records, Slots
  <2>2. Shape
    BY <2>1, Zenon DEF Init, Shape, Slots
  <2>3. \A k \in Kinds : Accounted(k)
    <3>1. Len(<<>>) = 0
      BY EmptySeq
    <3>2. SUFFICES ASSUME NEW k \in Kinds  PROVE Accounted(k)
      OBVIOUS
    <3>3. /\ files[k] = <<>> /\ batch[k] = <<>>
          /\ count[k] = 0 /\ dropped[k] = 0 /\ made[k] = 0
      BY Zenon DEF Init
    <3>4. Len(files[k]) = 0 /\ Len(batch[k]) = 0
      BY <3>1, <3>3, Zenon
    <3> QED  BY <3>3, <3>4 DEF Accounted
  <2> QED  BY <2>2, <2>3 DEF Init, AccountInv
<1>2. AccountInv /\ [Next]_vars => AccountInv'
  <2> SUFFICES ASSUME AccountInv, [Next]_vars  PROVE AccountInv'
    OBVIOUS
  <2>1. CASE Wake  BY <2>1, WakeAccounted
  <2>2. CASE Flush
    BY <2>2 DEF Flush, AccountInv, Shape, Accounted, rings
  <2>3. ASSUME NEW k \in Kinds, WriteRecord(k)  PROVE AccountInv'
    BY <2>3, WriteAccounted
  <2>4. CASE Destroy
    BY <2>4 DEF Destroy, AccountInv, Shape, Accounted, rings
  <2>5. CASE Close
    BY <2>5 DEF Close, AccountInv, Shape, Accounted, rings
  <2>6. ASSUME NEW k \in Kinds, Record(k)  PROVE AccountInv'
    BY <2>6, RecordAccounted
  <2>7. CASE UNCHANGED vars
    BY <2>7 DEF vars, rings, AccountInv, Shape, Accounted, Contents
  <2> QED  BY <2>1, <2>2, <2>3, <2>4, <2>5, <2>6, <2>7 DEF Next, Writer
<1> QED  BY <1>1, <1>2, PTL DEF Spec

(* The rings, buffers and files hold what their types say. *)
THEOREM TypeCorrect == Spec => []TypeOK
<1>1. AccountInv => TypeOK
  <2> SUFFICES ASSUME AccountInv  PROVE TypeOK
    OBVIOUS
  <2>1. \A k \in Kinds : dropped[k] \in Records
    <3> TAKE k \in Kinds
    <3>1. /\ Len(files[k]) \in Nat /\ Len(batch[k]) \in Nat /\ count[k] \in Nat
          /\ dropped[k] \in Nat /\ made[k] \in Nat /\ made[k] <= MaxRecords
      BY LenProperties, CapacityAssumption DEF AccountInv, Shape, Records
    <3>2. Len(files[k]) + Len(batch[k]) + count[k] + dropped[k] = made[k]
      BY DEF AccountInv, Accounted
    <3>3. dropped[k] <= made[k]
      <4>1. PICK f \in Nat : f = Len(files[k])  BY <3>1
      <4>2. PICK b \in Nat : b = Len(batch[k])  BY <3>1
      <4>3. PICK c \in Nat : c = count[k]  BY <3>1
      <4>4. PICK d \in Nat : d = dropped[k]  BY <3>1
      <4>5. PICK m \in Nat : m = made[k]  BY <3>1
      <4>6. f + b + c + d = m
        BY <3>2, <4>1, <4>2, <4>3, <4>4, <4>5, Zenon
      <4>7. d <= m
        BY <4>6, Sums
      <4> QED  BY <4>4, <4>5, <4>7, Zenon
    <3> QED  BY <3>1, <3>3, CapacityAssumption DEF Records
  <2> QED  BY <2>1 DEF AccountInv, Shape, TypeOK, Records, Slots
<1> QED  BY <1>1, AccountInvariant, PTL

(***************************************************************************)
(* When run.txt has its counts, each file and its count of dropped records *)
(* add up to the records made.                                             *)
(***************************************************************************)
THEOREM ClosedCorrect == Spec => []ClosedMeansAccountedFor
<1>1. AccountInv => ClosedMeansAccountedFor
  <2> SUFFICES ASSUME AccountInv, summary # <<>>, NEW k \in Kinds
               PROVE  Len(files[k]) + summary[1][k] = made[k]
    BY DEF ClosedMeansAccountedFor
  <2>1. summary[1] = dropped /\ batch[k] = <<>> /\ count[k] = 0
    BY DEF AccountInv
  <2>2. Len(files[k]) \in Nat /\ dropped[k] \in Nat /\ Len(batch[k]) = 0
    BY <2>1, LenProperties, EmptySeq DEF AccountInv, Shape
  <2>3. Len(files[k]) + Len(batch[k]) + count[k] + dropped[k] = made[k] /\ made[k] \in Nat
    BY DEF AccountInv, Accounted, Shape, Records
  <2>4. Len(files[k]) + dropped[k] = made[k]
    BY <2>1, <2>2, <2>3, Sums
  <2> QED  BY <2>1, <2>4, Zenon
<1> QED  BY <1>1, AccountInvariant, PTL

-----------------------------------------------------------------------------
(* The hand-over is the log of LossyLog.                                   *)

(* What is recorded behind the batch and the ring is last of both. *)
LEMMA AppendBehind ==
  ASSUME NEW S, NEW b \in Seq(S), NEW c \in Seq(S), NEW e \in S
  PROVE  b \o Append(c, e) = Append(b \o c, e)
<1>1. <<e>> \in Seq(S)
  OBVIOUS
<1>2. b \o c \in Seq(S)
  BY ConcatProperties
<1>3. Append(c, e) = c \o <<e>> /\ Append(b \o c, e) = (b \o c) \o <<e>>
  BY <1>2, AppendIsConcat
<1>4. (b \o c) \o <<e>> = b \o (c \o <<e>>)
  BY <1>1, ConcatAssociative
<1> QED  BY <1>3, <1>4, Zenon

(* The head of the batch is the first of all that waits. *)
LEMMA TakeFirst ==
  ASSUME NEW S, NEW f \in Seq(S), NEW b \in Seq(S), NEW c \in Seq(S), b # <<>>
  PROVE  /\ 1 \in 1 .. Len(b \o c)
         /\ Append(f, Head(b)) = f \o SubSeq(b \o c, 1, 1)
         /\ Tail(b) \o c = SubSeq(b \o c, 1 + 1, Len(b \o c))
<1> DEFINE w == b \o c
<1>1. /\ w \in Seq(S) /\ Len(w) = Len(b) + Len(c)
      /\ \A i \in 1 .. Len(b) + Len(c) : w[i] = IF i <= Len(b) THEN b[i] ELSE c[i - Len(b)]
  BY ConcatProperties
<1>2. Len(b) \in Nat \ {0} /\ Len(c) \in Nat
  BY LenProperties, EmptySeq
<1>3. w # <<>> /\ Len(w) \in Nat \ {0}
  BY <1>1, <1>2, EmptySeq
<1>4. w[1] = Head(b) /\ Head(b) \in S
  <2>1. w[1] = b[1]
    BY <1>1, <1>2
  <2> QED  BY <2>1, HeadTailProperties
<1>5. SubSeq(w, 1, 1) = <<Head(b)>>
  <2>1. SubSeq(w, 1, 1) = <<w[1]>> \o SubSeq(w, 1 + 1, 1)
    BY <1>1, <1>3, SubSeqRecursiveFirst
  <2>2. SubSeq(w, 1 + 1, 1) = <<>>
    BY SubSeqEmpty
  <2>3. <<Head(b)>> \o <<>> = <<Head(b)>>
    <3>1. <<Head(b)>> \in Seq(S)
      BY <1>4
    <3> QED  BY <3>1, ConcatEmptySeq
  <2> QED  BY <1>4, <2>1, <2>2, <2>3, Zenon
<1>6. Append(f, Head(b)) = f \o <<Head(b)>>
  BY <1>4, AppendIsConcat
<1>7. Tail(b) \o c = Tail(w)
  <2>1. /\ Tail(b) \in Seq(S) /\ Len(Tail(b)) = Len(b) - 1
        /\ \A i \in 1 .. Len(Tail(b)) : Tail(b)[i] = b[i + 1]
    BY HeadTailProperties
  <2>2. /\ Tail(w) \in Seq(S) /\ Len(Tail(w)) = Len(w) - 1
        /\ \A i \in 1 .. Len(Tail(w)) : Tail(w)[i] = w[i + 1]
    BY <1>1, <1>3, HeadTailProperties
  <2>3. /\ Tail(b) \o c \in Seq(S) /\ Len(Tail(b) \o c) = Len(Tail(b)) + Len(c)
        /\ \A i \in 1 .. Len(Tail(b)) + Len(c) :
             (Tail(b) \o c)[i] = IF i <= Len(Tail(b)) THEN Tail(b)[i] ELSE c[i - Len(Tail(b))]
    BY <2>1, ConcatProperties
  <2> HIDE DEF w
  <2>4. Len(Tail(b) \o c) = Len(Tail(w))
    BY <1>1, <1>2, <2>1, <2>2, <2>3
  <2>5. \A i \in 1 .. Len(Tail(b) \o c) : (Tail(b) \o c)[i] = Tail(w)[i]
    <3> TAKE i \in 1 .. Len(Tail(b) \o c)
    <3>1. CASE i <= Len(Tail(b))
      BY <1>1, <1>2, <2>1, <2>2, <2>3, <3>1
    <3>2. CASE ~(i <= Len(Tail(b)))
      <4>1. (Tail(b) \o c)[i] = c[i - (Len(b) - 1)]
        BY <1>2, <2>1, <2>3, <3>2
      <4>2. w[i + 1] = c[(i + 1) - Len(b)]
        BY <1>1, <1>2, <2>1, <2>3, <3>2
      <4> QED  BY <1>1, <1>2, <2>1, <2>2, <2>3, <4>1, <4>2
    <3> QED  BY <3>1, <3>2
  <2> QED  BY <2>2, <2>3, <2>4, <2>5, SeqEqual
<1>8. Tail(w) = SubSeq(w, 2, Len(w))
  BY <1>1, <1>3, TailIsSubSeq
<1> QED  BY <1>3, <1>5, <1>6, <1>7, <1>8

(* A push puts its record behind those in the ring. *)
LEMMA PushContents ==
  ASSUME Shape, NEW k \in Kinds, Record(k), count[k] # Capacity
  PROVE  /\ Contents(k)' = Append(Contents(k), made[k] + 1)
         /\ \A j \in Kinds \ {k} : Contents(j)' = Contents(j)
<1>1. /\ head[k] \in Slots /\ count[k] \in Nat /\ count[k] < Capacity
      /\ Capacity \in Nat \ {0} /\ slots[k] \in [Slots -> Records]
      /\ made[k] + 1 \in Records
  BY CapacityAssumption DEF Shape, Record, Records
<1> DEFINE At(i) == (head[k] + i - 1) % Capacity
           new == (head[k] + count[k]) % Capacity
<1>2. /\ slots' = [slots EXCEPT ![k] = [@ EXCEPT ![new] = made[k] + 1]]
      /\ count' = [count EXCEPT ![k] = @ + 1] /\ head' = head
  BY DEF Record, Push
<1>3. /\ slots'[k] = [slots[k] EXCEPT ![new] = made[k] + 1]
      /\ count'[k] = count[k] + 1
      /\ \A j \in Kinds \ {k} : slots'[j] = slots[j] /\ count'[j] = count[j]
  BY <1>2, Zenon DEF Shape
<1>4. \A j \in Kinds \ {k} : Contents(j)' = Contents(j)
  BY <1>2, <1>3 DEF Contents
<1>5. new \in Slots
  BY <1>1, SlotLemma
<1>6. At(count[k] + 1) = new
  BY <1>1 DEF Slots
<1>7. \A i \in 1 .. count[k] : At(i) \in Slots /\ At(i) # new
  <2> TAKE i \in 1 .. count[k]
  <2>1. i - 1 \in 0 .. Capacity /\ count[k] \in 0 .. Capacity
    BY <1>1
  <2>2. At(i) = (head[k] + (i - 1)) % Capacity
    BY <1>1 DEF Slots
  <2>3. /\ At(i) \in Slots
        /\ At(i) = IF head[k] + (i - 1) < Capacity
                   THEN head[k] + (i - 1) ELSE head[k] + (i - 1) - Capacity
    BY <1>1, <2>1, <2>2, SlotLemma
  <2>4. new = IF head[k] + count[k] < Capacity
              THEN head[k] + count[k] ELSE head[k] + count[k] - Capacity
    BY <1>1, <2>1, SlotLemma
  <2> HIDE DEF At, new
  <2> QED  BY <1>1, <2>3, <2>4 DEF Slots
<1> HIDE DEF new
<1>8. Contents(k)' = [i \in 1 .. count[k] + 1 |-> slots'[k][At(i)]]
  BY <1>2, <1>3 DEF Contents
<1>9. /\ Contents(k) \in Seq(Records) /\ Len(Contents(k)) = count[k]
      /\ \A i \in 1 .. count[k] : Contents(k)[i] = slots[k][At(i)]
  BY ContentsLemma
<1> HIDE DEF At
<1>10. \A i \in 1 .. count[k] + 1 :
         slots'[k][At(i)] = IF i <= count[k] THEN slots[k][At(i)] ELSE made[k] + 1
  BY <1>1, <1>3, <1>5, <1>6, <1>7
<1> DEFINE c == Contents(k)
<1>11. /\ Append(c, made[k] + 1) \in Seq(Records)
       /\ Len(Append(c, made[k] + 1)) = count[k] + 1
       /\ \A i \in 1 .. count[k] + 1 :
            Append(c, made[k] + 1)[i] = IF i <= count[k] THEN c[i] ELSE made[k] + 1
  BY <1>1, <1>9, AppendProperties
<1>12. Append(c, made[k] + 1) = [i \in 1 .. count[k] + 1 |-> slots'[k][At(i)]]
  <2>1. /\ DOMAIN Append(c, made[k] + 1) = 1 .. count[k] + 1
        /\ Append(c, made[k] + 1) = [i \in DOMAIN Append(c, made[k] + 1) |->
                                       Append(c, made[k] + 1)[i]]
    BY <1>11, LenProperties
  <2>2. \A i \in 1 .. count[k] + 1 : Append(c, made[k] + 1)[i] = slots'[k][At(i)]
    BY <1>1, <1>9, <1>10, <1>11
  <2> QED  BY <2>1, <2>2, Zenon
<1> QED  BY <1>4, <1>8, <1>12, Zenon

(* A step outside the ring, or a drop, leaves what is in it. *)
LEMMA SameContents ==
  ASSUME UNCHANGED <<slots, head, count>>, NEW k \in Kinds
  PROVE  Contents(k)' = Contents(k)
BY DEF Contents

LEMMA RecordImplements ==
  ASSUME AccountInv, NEW k \in Kinds, Record(k)
  PROVE  Log!Next
<1> DEFINE w == [j \in Kinds |-> batch[j] \o Contents(j)]
<1>1. Shape /\ batch' = batch /\ files' = files /\ made' = [made EXCEPT ![k] = @ + 1]
  BY DEF AccountInv, Record
<1>2. CASE count[k] = Capacity
  <2>1. UNCHANGED <<slots, head, count>> /\ dropped' = [dropped EXCEPT ![k] = @ + 1]
    BY <1>2 DEF Record, Push
  <2>2. w' = w
    BY <1>1, <2>1, SameContents, Zenon
  <2>3. Len(w[k]) >= Capacity
    <3>1. /\ batch[k] \in Seq(Records) /\ Contents(k) \in Seq(Records)
          /\ Len(Contents(k)) = Capacity
      BY <1>1, <1>2, ContentsLemma DEF Shape
    <3>2. Len(batch[k] \o Contents(k)) = Len(batch[k]) + Capacity /\ Len(batch[k]) \in Nat
      BY <3>1, ConcatProperties, LenProperties
    <3> QED  BY <3>2, CapacityAssumption
  <2>4. Log!Lose(k)
    BY <1>1, <2>1, <2>2, <2>3, Zenon DEF Log!Lose
  <2> QED  BY <2>4 DEF Log!Next
<1>3. CASE count[k] # Capacity
  <2>1. /\ Contents(k)' = Append(Contents(k), made[k] + 1)
        /\ \A j \in Kinds \ {k} : Contents(j)' = Contents(j)
    BY <1>1, <1>3, PushContents
  <2>2. batch[k] \o Append(Contents(k), made[k] + 1) = Append(w[k], made[k] + 1)
    <3>1. batch[k] \in Seq(Records) /\ Contents(k) \in Seq(Records)
      BY <1>1, ContentsLemma DEF Shape
    <3>2. made[k] + 1 \in Records
      BY <1>1, CapacityAssumption DEF Shape, Record, Records
    <3>3. w[k] = batch[k] \o Contents(k)
      OBVIOUS
    <3>4. batch[k] \o Append(Contents(k), made[k] + 1) =
            Append(batch[k] \o Contents(k), made[k] + 1)
      <4>1. PICK e \in Records : e = made[k] + 1
        BY <3>2
      <4>2. \A b, c \in Seq(Records) : b \o Append(c, e) = Append(b \o c, e)
        BY AppendBehind
      <4> QED  BY <3>1, <4>1, <4>2, Zenon
    <3> HIDE DEF w
    <3> QED  BY <3>3, <3>4
  <2>3. w' = [w EXCEPT ![k] = Append(@, made[k] + 1)]
    BY <1>1, <2>1, <2>2
  <2>4. dropped' = dropped
    BY <1>3 DEF Record, Push
  <2>5. Log!Accept(k)
    BY <1>1, <2>3, <2>4, Zenon DEF Log!Accept
  <2> QED  BY <2>5 DEF Log!Next
<1> QED  BY <1>2, <1>3

LEMMA WriteImplements ==
  ASSUME AccountInv, NEW k \in Kinds, WriteRecord(k)
  PROVE  Log!Next
<1> DEFINE w == [j \in Kinds |-> batch[j] \o Contents(j)]
<1>1. /\ Shape /\ batch[k] # <<>> /\ UNCHANGED <<made, dropped, slots, head, count>>
      /\ files' = [files EXCEPT ![k] = Append(@, Head(batch[k]))]
      /\ batch' = [batch EXCEPT ![k] = Tail(@)]
  BY DEF AccountInv, WriteRecord, rings
<1>2. \A j \in Kinds : Contents(j)' = Contents(j)
  BY <1>1, SameContents
<1>3. /\ 1 \in 1 .. Len(w[k])
      /\ Append(files[k], Head(batch[k])) = files[k] \o SubSeq(w[k], 1, 1)
      /\ Tail(batch[k]) \o Contents(k) = SubSeq(w[k], 1 + 1, Len(w[k]))
  <2>1. /\ files[k] \in Seq(Records) /\ batch[k] \in Seq(Records)
        /\ Contents(k) \in Seq(Records)
    BY <1>1, ContentsLemma DEF Shape
  <2>2. w[k] = batch[k] \o Contents(k)
    OBVIOUS
  <2>3. /\ 1 \in 1 .. Len(batch[k] \o Contents(k))
        /\ Append(files[k], Head(batch[k])) =
             files[k] \o SubSeq(batch[k] \o Contents(k), 1, 1)
        /\ Tail(batch[k]) \o Contents(k) =
             SubSeq(batch[k] \o Contents(k), 1 + 1, Len(batch[k] \o Contents(k)))
    <3>1. \A f, b, c \in Seq(Records) : b # <<>> =>
            /\ 1 \in 1 .. Len(b \o c)
            /\ Append(f, Head(b)) = f \o SubSeq(b \o c, 1, 1)
            /\ Tail(b) \o c = SubSeq(b \o c, 1 + 1, Len(b \o c))
      BY TakeFirst
    <3> QED  BY <1>1, <2>1, <3>1, Zenon
  <2> HIDE DEF w
  <2> QED  BY <2>2, <2>3
<1>4. files' = [files EXCEPT ![k] = @ \o SubSeq(w[k], 1, 1)]
  BY <1>1, <1>3, Zenon
<1>5. w' = [w EXCEPT ![k] = SubSeq(@, 1 + 1, Len(@))]
  BY <1>1, <1>2, <1>3 DEF Shape
<1>6. Log!Write(k)
  BY <1>1, <1>3, <1>4, <1>5, Zenon DEF Log!Write
<1> QED  BY <1>6 DEF Log!Next

(* Taking the batch changes nothing for a reader of the files. *)
LEMMA WakeImplements ==
  ASSUME AccountInv, Wake
  PROVE  UNCHANGED Log!vars
<1>1. ASSUME NEW k \in Kinds
      PROVE  batch'[k] \o Contents(k)' = batch[k] \o Contents(k)
  <2>1. /\ batch[k] = <<>> /\ batch'[k] = Contents(k) /\ count'[k] = 0
    BY DEF Wake, AccountInv
  <2>2. Contents(k)' = <<>>
    BY <2>1 DEF Contents
  <2>3. Contents(k) \in Seq(Records)
    BY ContentsLemma DEF AccountInv
  <2> QED  BY <2>1, <2>2, <2>3, ConcatEmptySeq
<1>2. [k \in Kinds |-> batch[k] \o Contents(k)]' = [k \in Kinds |-> batch[k] \o Contents(k)]
  BY <1>1, Zenon
<1> QED  BY <1>2 DEF Wake, Log!vars

(***************************************************************************)
(* Every behaviour is one of the log's, fairness apart: whatever the wrap  *)
(* of the rings and the turns of the writer, a record is written in its    *)
(* order and once, or was counted as dropped when a ringful was waiting.   *)
(***************************************************************************)
THEOREM LogImplemented == Spec => Log!Init /\ [][Log!Next]_(Log!vars)
<1>1. Init => Log!Init
  <2> SUFFICES ASSUME Init  PROVE Log!Init
    OBVIOUS
  <2>1. \A k \in Kinds : batch[k] \o Contents(k) = <<>>
    <3> TAKE k \in Kinds
    <3>1. batch[k] = <<>> /\ count[k] = 0
      BY Zenon DEF Init
    <3>2. Contents(k) = <<>>
      BY <3>1 DEF Contents
    <3> QED  BY <3>1, <3>2, ConcatEmptySeq, EmptySeq
  <2>2. [k \in Kinds |-> batch[k] \o Contents(k)] = [k \in Kinds |-> <<>>]
    BY <2>1, Zenon
  <2> QED  BY <2>2, Zenon DEF Init, Log!Init
<1>2. AccountInv /\ [Next]_vars => [Log!Next]_(Log!vars)
  <2> SUFFICES ASSUME AccountInv, [Next]_vars
               PROVE  Log!Next \/ UNCHANGED Log!vars
    OBVIOUS
  <2>1. CASE Wake  BY <2>1, WakeImplements
  <2>2. ASSUME NEW k \in Kinds, WriteRecord(k)  PROVE Log!Next
    BY <2>2, WriteImplements
  <2>3. ASSUME NEW k \in Kinds, Record(k)  PROVE Log!Next
    BY <2>3, RecordImplements
  <2>4. CASE Flush \/ Destroy \/ Close \/ UNCHANGED vars
    <3>1. UNCHANGED <<made, rings, batch, files>>
      BY <2>4 DEF Flush, Destroy, Close, vars
    <3>2. \A k \in Kinds : Contents(k)' = Contents(k)
      BY <3>1, SameContents DEF rings
    <3>3. [k \in Kinds |-> batch[k] \o Contents(k)]' = [k \in Kinds |-> batch[k] \o Contents(k)]
      BY <3>1, <3>2, Zenon
    <3> QED  BY <3>1, <3>3 DEF rings, Log!vars
  <2> QED  BY <2>1, <2>2, <2>3, <2>4 DEF Next, Writer
<1> QED  BY <1>1, <1>2, AccountInvariant, PTL DEF Spec

-----------------------------------------------------------------------------
(* The latency trace: events in sequences.                                 *)

Below(s, n) == \A i \in 1 .. Len(s) : s[i] <= n
Above(s, n) == \A i \in 1 .. Len(s) : s[i] > n

LEMMA EmptyLemma == Len(<<>>) = 0 /\ \A n \in Nat : Below(<<>>, n) /\ Above(<<>>, n)
BY EmptySeq DEF Below, Above

LEMMA AppendLemma ==
  ASSUME NEW s \in Seq(Nat), NEW e \in Nat, NEW n \in Nat
  PROVE  /\ Append(s, e) \in Seq(Nat) /\ Len(Append(s, e)) = Len(s) + 1
         /\ Append(s, e)[Len(s) + 1] = e
         /\ \A i \in 1 .. Len(s) : Append(s, e)[i] = s[i]
         /\ Below(s, n) /\ e <= n => Below(Append(s, e), n)
         /\ Above(s, n) /\ e > n => Above(Append(s, e), n)
<1>1. /\ Append(s, e) \in Seq(Nat) /\ Len(Append(s, e)) = Len(s) + 1
      /\ Append(s, e)[Len(s) + 1] = e
      /\ \A i \in 1 .. Len(s) : Append(s, e)[i] = s[i]
  BY AppendProperties
<1>2. Len(s) \in Nat
  BY LenProperties
<1>3. \A i \in 1 .. Len(s) + 1 : i \in 1 .. Len(s) \/ i = Len(s) + 1
  BY <1>2
<1> QED  BY <1>1, <1>3 DEF Below, Above

LEMMA TailLemma ==
  ASSUME NEW s \in Seq(Nat), s # <<>>, NEW n \in Nat
  PROVE  /\ Tail(s) \in Seq(Nat) /\ Len(s) \in Nat \ {0} /\ Len(Tail(s)) = Len(s) - 1
         /\ Head(s) \in Nat
         /\ Below(s, n) => Below(Tail(s), n) /\ Head(s) <= n
         /\ Above(s, n) => Above(Tail(s), n) /\ Head(s) > n
<1>1. /\ Tail(s) \in Seq(Nat) /\ Len(s) \in Nat \ {0} /\ Len(Tail(s)) = Len(s) - 1
      /\ Head(s) = s[1] /\ Head(s) \in Nat
      /\ \A i \in 1 .. Len(s) - 1 : Tail(s)[i] = s[i + 1]
  BY HeadTailProperties, LenProperties, EmptySeq
<1>2. 1 \in 1 .. Len(s) /\ \A i \in 1 .. Len(s) - 1 : i + 1 \in 1 .. Len(s)
  BY <1>1
<1> QED  BY <1>1, <1>2 DEF Below, Above

LEMMA BelowLemma ==
  ASSUME NEW s \in Seq(Nat), NEW n \in Nat, NEW m \in Nat, n <= m, Below(s, n)
  PROVE  Below(s, m)
<1> SUFFICES ASSUME NEW i \in 1 .. Len(s) PROVE s[i] <= m
  BY DEF Below
<1>1. s[i] \in Nat /\ s[i] <= n
  BY ElementOfSeq DEF Below
<1> QED  BY <1>1

(* The first k of s are up to n, and the rest are not. *)
Parted(s, k, n) == k \in 0 .. Len(s) /\ \A i \in 1 .. Len(s) : s[i] <= n <=> i <= k

LEMMA PartedLemma ==
  ASSUME NEW s \in Seq(Nat), NEW n \in Nat
  PROVE  /\ Below(s, n) => Parted(s, Len(s), n)
         /\ \A k \in Nat, e \in Nat : Parted(s, k, n) /\ e > n => Parted(Append(s, e), k, n)
<1>1. Len(s) \in Nat
  BY LenProperties
<1>2. ASSUME Below(s, n)
      PROVE  Parted(s, Len(s), n)
  BY <1>1, <1>2 DEF Below, Parted
<1>3. ASSUME NEW k \in Nat, NEW e \in Nat, Parted(s, k, n), e > n
      PROVE  Parted(Append(s, e), k, n)
  <2>1. /\ Len(Append(s, e)) = Len(s) + 1 /\ Append(s, e)[Len(s) + 1] = e
        /\ \A i \in 1 .. Len(s) : Append(s, e)[i] = s[i]
    BY AppendLemma
  <2>2. k \in 0 .. Len(s) + 1 /\ ~(Len(s) + 1 <= k) /\ ~(e <= n)
    BY <1>1, <1>3 DEF Parted
  <2>3. \A i \in 1 .. Len(s) + 1 : i \in 1 .. Len(s) \/ i = Len(s) + 1
    BY <1>1
  <2>4. \A i \in 1 .. Len(s) + 1 : Append(s, e)[i] <= n <=> i <= k
    BY <1>3, <2>1, <2>2, <2>3 DEF Parted
  <2> QED  BY <2>1, <2>2, <2>4 DEF Parted
<1> QED  BY <1>2, <1>3

-----------------------------------------------------------------------------
(* The latency trace: what a line of counters covers.                      *)

CounterLines == [after : Nat, dropped : Nat, complete : BOOLEAN]

TraceType ==
  /\ recorded \in Nat /\ dropped_ \in Nat
  /\ probe \in [Stages -> {"installed", "called", "removed"}]
  /\ pending_ \in Seq(Nat) /\ batch_ \in Seq(Nat) /\ rows \in Seq(Nat)
  /\ writer \in {"waiting", "writing", "returned"}
  /\ taken \in [stopping : BOOLEAN, dropped : Nat] /\ stopping_ \in BOOLEAN
  /\ counters \subseteq CounterLines

(* The events up to n are written, in the batch b or dropped; those that   *)
(* are pending came later; and once the trace ends there are no more.      *)
Covers(n, b, ending) ==
  /\ n <= recorded
  /\ Below(b, n) /\ Above(pending_, n)
  /\ ending => stopping_ /\ n = recorded

Told(c) == c.after + c.dropped

(* What the batch the writer took covers; what a line of counters covers:  *)
(* the rows after it, like the batch under way, are of later events.       *)
BatchInv ==
  LET n == Len(rows) + Len(batch_) + taken.dropped
  IN Below(rows, n) /\ Covers(n, batch_, taken.stopping)

LineInv(c) ==
  /\ Parted(rows, c.after, Told(c)) /\ Above(batch_, Told(c))
  /\ Covers(Told(c), <<>>, c.complete)

(***************************************************************************)
(* No event is lost but counted.  The batch the writer took covers all     *)
(* events up to then, and so does each line of counters once it is         *)
(* written.                                                                *)
(***************************************************************************)
TraceInv ==
  /\ TraceType
  /\ Len(rows) + Len(batch_) + Len(pending_) + dropped_ = recorded
  /\ Below(rows, recorded) /\ Below(batch_, recorded) /\ Below(pending_, recorded)
  /\ writer = "waiting" => batch_ = <<>>
  /\ writer = "writing" => BatchInv
  /\ \A c \in counters : LineInv(c)
  /\ stopping_ => \A s \in Stages : probe[s] = "removed"

LEMMA Lengths ==
  ASSUME TraceType
  PROVE  Len(rows) \in Nat /\ Len(batch_) \in Nat /\ Len(pending_) \in Nat
BY LenProperties DEF TraceType

LEMMA ToldType ==
  ASSUME TraceType, NEW c \in counters
  PROVE  c.after \in Nat /\ c.dropped \in Nat /\ c.complete \in BOOLEAN /\ Told(c) \in Nat
BY DEF TraceType, CounterLines, Told

LEMMA TraceBegins ==
  ASSUME Trace!Init
  PROVE  TraceInv
<1>1. TraceType
  BY EmptySeq DEF Trace!Init, TraceType, CounterLines
<1>2. /\ rows = <<>> /\ batch_ = <<>> /\ pending_ = <<>> /\ dropped_ = 0 /\ recorded = 0
      /\ writer = "waiting" /\ counters = {} /\ ~stopping_
  BY DEF Trace!Init
<1>3. /\ Len(rows) + Len(batch_) + Len(pending_) + dropped_ = recorded
      /\ Below(rows, recorded) /\ Below(batch_, recorded) /\ Below(pending_, recorded)
  BY <1>2, EmptyLemma
<1> QED  BY <1>1, <1>2, <1>3 DEF TraceInv

(* A pad's event: the probes are there, so the trace has not ended. *)
LEMMA RecordKeeps ==
  ASSUME TraceInv, NEW s \in Stages, Trace!Record(s)
  PROVE  TraceInv'
<1> DEFINE next == recorded + 1
<1>1. /\ TraceType /\ recorded' = next /\ probe[s] = "called" /\ ~stopping_
      /\ recorded \in Nat /\ next \in Nat /\ recorded <= next /\ next > recorded
      /\ UNCHANGED <<batch_, stopping_, writer, taken, rows, counters>>
  BY DEF Trace!Record, Trace!file, TraceInv, TraceType
<1>2. /\ probe' \in [Stages -> {"installed", "called", "removed"}]
  BY <1>1 DEF Trace!Record, TraceType
<1>3. /\ pending_' \in Seq(Nat) /\ dropped_' \in Nat
      /\ Len(pending_') + dropped_' = Len(pending_) + dropped_ + 1
      /\ Below(pending_', next)
      /\ \A n \in Nat : Above(pending_, n) /\ n <= recorded => Above(pending_', n)
  <2>0. /\ pending_ \in Seq(Nat) /\ dropped_ \in Nat /\ Len(pending_) \in Nat
        /\ Below(pending_, recorded)
    BY <1>1, Lengths DEF TraceInv, TraceType
  <2>1. Below(pending_, next)
    BY <1>1, <2>0, BelowLemma
  <2>2. CASE dropped_' = dropped_ + 1 /\ UNCHANGED pending_
    BY <1>1, <2>0, <2>1, <2>2
  <2>3. CASE pending_' = Append(pending_, next) /\ UNCHANGED dropped_
    <3>1. /\ pending_' \in Seq(Nat) /\ Len(pending_') = Len(pending_) + 1
          /\ Below(pending_', next)
      <4> HIDE DEF next
      <4> QED  BY <1>1, <2>0, <2>1, <2>3, AppendLemma
    <3>2. ASSUME NEW n \in Nat, Above(pending_, n), n <= recorded
          PROVE  Above(pending_', n)
      BY <1>1, <2>0, <2>3, <3>2, AppendLemma
    <3> QED  BY <1>1, <2>0, <2>3, <3>1, <3>2
  <2> QED  BY <2>2, <2>3, <1>1 DEF Trace!Record
<1>4. TraceType'
  BY <1>1, <1>2, <1>3 DEF TraceType
<1>5. /\ Below(rows, next) /\ Below(batch_, next)
      /\ Len(rows) + Len(batch_) + Len(pending_') + dropped_' = next
  <2>1. /\ Len(rows) \in Nat /\ Len(batch_) \in Nat /\ Len(pending_) \in Nat
        /\ dropped_ \in Nat /\ Len(pending_') \in Nat
        /\ rows \in Seq(Nat) /\ batch_ \in Seq(Nat)
    BY <1>1, <1>3, Lengths, LenProperties DEF TraceType
  <2>2. Below(rows, next) /\ Below(batch_, next)
    BY <1>1, <2>1, BelowLemma DEF TraceInv
  <2>3. Len(rows) + Len(batch_) + Len(pending_) + dropped_ = recorded
    BY DEF TraceInv
  <2>4. Len(pending_') + dropped_' = Len(pending_) + dropped_ + 1 /\ dropped_' \in Nat
    BY <1>3
  <2> DEFINE pendingNext == Len(pending_')
             droppedNext == dropped_'
  <2>5. pendingNext \in Nat /\ droppedNext \in Nat
        /\ pendingNext + droppedNext = Len(pending_) + dropped_ + 1
    BY <2>1, <2>4
  <2> HIDE DEF pendingNext, droppedNext
  <2>6. Len(rows) + Len(batch_) + pendingNext + droppedNext = recorded + 1
    BY <1>1, <2>1, <2>3, <2>5
  <2> QED  BY <2>2, <2>6 DEF pendingNext, droppedNext
<1>6. (writer = "writing" => BatchInv)'
  <2> SUFFICES ASSUME writer = "writing" PROVE BatchInv'
    BY <1>1
  <2> DEFINE n == Len(rows) + Len(batch_) + taken.dropped
  <2>1. n \in Nat /\ taken.stopping \in BOOLEAN
    BY <1>1, Lengths DEF TraceType
  <2>2. Below(rows, n) /\ Covers(n, batch_, taken.stopping)
    BY DEF TraceInv, BatchInv
  <2>3. n' = n /\ taken' = taken /\ batch_' = batch_ /\ rows' = rows
    BY <1>1
  <2>4. Covers(n, batch_, taken.stopping)'
    BY <1>1, <1>3, <2>1, <2>2, <2>3 DEF Covers
  <2> QED  BY <2>2, <2>3, <2>4 DEF BatchInv, Below
<1>7. \A c \in counters' : LineInv(c)'
  <2> SUFFICES ASSUME NEW c \in counters PROVE LineInv(c)'
    BY <1>1
  <2>1. LineInv(c) /\ Told(c) \in Nat
    BY <1>1, ToldType DEF TraceInv
  <2>2. Covers(Told(c), <<>>, c.complete)'
    BY <1>1, <1>3, <2>1 DEF Covers, LineInv
  <2> QED  BY <1>1, <2>1, <2>2 DEF LineInv, Parted, Above, Told
<1> QED  BY <1>1, <1>3, <1>4, <1>5, <1>6, <1>7 DEF TraceInv

(* The writer takes the batch: it has written the one before. *)
LEMMA TakeKeeps ==
  ASSUME TraceInv, Trace!Take
  PROVE  TraceInv'
<1>1. /\ TraceType /\ batch_ = <<>> /\ pending_' = <<>> /\ batch_' = pending_
      /\ taken' = [stopping |-> stopping_, dropped |-> dropped_] /\ writer' = "writing"
      /\ UNCHANGED <<recorded, probe, dropped_, stopping_, rows, counters>>
  BY DEF Trace!Take, Trace!file, TraceInv
<1>2. /\ Len(rows) \in Nat /\ Len(pending_) \in Nat /\ dropped_ \in Nat /\ recorded \in Nat
      /\ Len(<<>>) = 0 /\ \A n \in Nat : Below(<<>>, n) /\ Above(<<>>, n)
  BY <1>1, Lengths, EmptyLemma DEF TraceType
<1>3. /\ Len(rows) + Len(pending_) + dropped_ = recorded
      /\ Len(rows) + Len(pending_) + Len(<<>>) + dropped_ = recorded
  BY <1>1, <1>2 DEF TraceInv
<1>4. Below(rows, recorded) /\ Below(pending_, recorded)
  BY DEF TraceInv
<1>5. Covers(recorded, pending_, stopping_)'
  BY <1>1, <1>2, <1>4 DEF Covers
<1>6. TraceType'
  BY <1>1, EmptySeq DEF TraceType
<1>7. BatchInv'
  <2>1. taken'.dropped = dropped_ /\ taken'.stopping = stopping_
    BY <1>1
  <2>2. (Len(rows) + Len(batch_) + taken.dropped)' = recorded
    BY <1>1, <1>3, <2>1
  <2> QED  BY <1>1, <1>4, <1>5, <2>1, <2>2 DEF BatchInv, Covers, Below
<1>8. \A c \in counters' : LineInv(c)'
  <2> SUFFICES ASSUME NEW c \in counters PROVE LineInv(c)'
    BY <1>1
  <2>1. LineInv(c) /\ Told(c) \in Nat
    BY <1>1, ToldType DEF TraceInv
  <2>2. Above(pending_, Told(c)) /\ Covers(Told(c), <<>>, c.complete)'
    BY <1>1, <1>2, <2>1 DEF Covers, LineInv
  <2> QED  BY <1>1, <2>1, <2>2 DEF LineInv, Parted, Above, Told
<1>9. Below(rows, recorded)' /\ Below(batch_, recorded)' /\ Below(pending_, recorded)'
  BY <1>1, <1>2, <1>4 DEF Below
<1> QED  BY <1>1, <1>3, <1>6, <1>7, <1>8, <1>9 DEF TraceInv

(* A row is the first event of the batch, later than any counter told of. *)
LEMMA WriteRowKeeps ==
  ASSUME TraceInv, Trace!WriteRow
  PROVE  TraceInv'
<1> DEFINE row == Head(batch_)
           n == Len(rows) + Len(batch_) + taken.dropped
<1>1. /\ TraceType /\ batch_ # <<>> /\ rows' = Append(rows, row) /\ batch_' = Tail(batch_)
      /\ writer = "writing" /\ BatchInv
      /\ UNCHANGED <<recorded, probe, pending_, dropped_, stopping_, writer, taken, counters>>
  BY DEF Trace!WriteRow, Trace!queue, TraceInv
<1>2. /\ rows \in Seq(Nat) /\ batch_ \in Seq(Nat) /\ row \in Nat /\ n \in Nat
      /\ Len(rows) \in Nat /\ Len(batch_) \in Nat \ {0} /\ recorded \in Nat
      /\ Tail(batch_) \in Seq(Nat) /\ Append(rows, row) \in Seq(Nat)
      /\ Len(Append(rows, row)) = Len(rows) + 1 /\ Len(Tail(batch_)) = Len(batch_) - 1
      /\ Len(pending_) \in Nat /\ dropped_ \in Nat /\ taken.dropped \in Nat
  BY <1>1, Lengths, TailLemma, AppendLemma DEF TraceType
<1>3. TraceType'
  BY <1>1, <1>2 DEF TraceType
<1>4. \A m \in Nat : Below(rows, m) /\ Below(batch_, m)
                       => Below(Append(rows, row), m) /\ Below(Tail(batch_), m)
  <2>1. ASSUME NEW m \in Nat, Below(rows, m), Below(batch_, m)
        PROVE  row <= m /\ Below(Tail(batch_), m)
    <3>1. batch_ \in Seq(Nat) /\ batch_ # <<>> /\ row \in Nat
      BY <1>1, <1>2
    <3> QED  BY <2>1, <3>1, TailLemma
  <2> HIDE DEF row
  <2> QED  BY <1>2, <2>1, AppendLemma
<1>5. BatchInv'
  <2>1. Below(rows, n) /\ Covers(n, batch_, taken.stopping)
    BY <1>1 DEF BatchInv
  <2>2. Len(Append(rows, row)) + Len(Tail(batch_)) + taken.dropped = n
    BY <1>2
  <2>3. /\ n \in Nat /\ n <= recorded /\ Below(batch_, n) /\ Above(pending_, n)
        /\ taken.stopping => stopping_ /\ n = recorded
    BY <1>2, <2>1 DEF Covers
  <2> HIDE DEF n
  <2>4. Below(Append(rows, row), n) /\ Below(Tail(batch_), n)
    BY <1>4, <2>1, <2>3
  <2> QED  BY <1>1, <2>2, <2>3, <2>4 DEF BatchInv, Covers
<1>6. \A c \in counters' : LineInv(c)'
  <2> SUFFICES ASSUME NEW c \in counters PROVE LineInv(c)'
    BY <1>1
  <2>1. LineInv(c) /\ Told(c) \in Nat /\ c.after \in Nat
    BY ToldType DEF TraceInv
  <2>2. Above(Tail(batch_), Told(c)) /\ row > Told(c)
    <3>1. batch_ \in Seq(Nat) /\ batch_ # <<>> /\ row \in Nat
      BY <1>1, <1>2
    <3>2. Above(batch_, Told(c))
      BY <2>1 DEF LineInv
    <3> QED  BY <2>1, <3>1, <3>2, TailLemma
  <2>3. Parted(Append(rows, row), c.after, Told(c))
    BY <1>2, <2>1, <2>2, PartedLemma DEF LineInv
  <2>4. Covers(Told(c), <<>>, c.complete)'
    BY <1>1, <2>1 DEF LineInv, Covers
  <2> QED  BY <1>1, <2>2, <2>3, <2>4 DEF LineInv, Parted, Above, Told
<1>7. Below(rows, recorded)' /\ Below(batch_, recorded)' /\ Below(pending_, recorded)'
  BY <1>1, <1>2, <1>4 DEF TraceInv, Below
<1>8. (Len(rows) + Len(batch_) + Len(pending_) + dropped_ = recorded)'
  <2>1. Len(Append(rows, row)) + Len(Tail(batch_)) + Len(pending_) + dropped_ = recorded
    <3>1. /\ Len(rows) + Len(batch_) + Len(pending_) + dropped_ = recorded
          /\ Len(rows) \in Int /\ Len(batch_) \in Int /\ Len(pending_) \in Int
          /\ dropped_ \in Int
      BY <1>2 DEF TraceInv
    <3>2. Len(Append(rows, row)) = Len(rows) + 1 /\ Len(Tail(batch_)) = Len(batch_) - 1
      BY <1>2
    <3>3. (Len(rows) + 1) + (Len(batch_) - 1) + Len(pending_) + dropped_ = recorded
      BY <3>1
    <3> QED  BY <3>2, <3>3, Zenon
  <2> QED  BY <1>1, <2>1, Zenon
<1> QED  BY <1>1, <1>3, <1>5, <1>6, <1>7, <1>8 DEF TraceInv

(* A line of counters covers what the batch did, which is written. *)
LEMMA WriteCountersKeeps ==
  ASSUME TraceInv, Trace!WriteCounters
  PROVE  TraceInv'
<1> DEFINE line == [after |-> Len(rows), dropped |-> taken.dropped,
                    complete |-> taken.stopping]
<1>1. /\ TraceType /\ batch_ = <<>> /\ writer = "writing" /\ BatchInv
      /\ counters' = counters \cup {line} /\ writer' \in {"waiting", "returned"}
      /\ UNCHANGED <<recorded, probe, pending_, dropped_, batch_, stopping_, taken, rows>>
  BY DEF Trace!WriteCounters, Trace!queue, TraceInv
<1>2. /\ Len(rows) \in Nat /\ taken.dropped \in Nat /\ taken.stopping \in BOOLEAN
      /\ rows \in Seq(Nat)
  BY <1>1, Lengths DEF TraceType
<1>3. line \in CounterLines /\ Told(line) = Len(rows) + taken.dropped /\ Told(line) \in Nat
  BY <1>2 DEF CounterLines, Told
<1>4. TraceType'
  BY <1>1, <1>3 DEF TraceType
<1>5. LineInv(line)
  <2>1. Len(rows) + Len(batch_) + taken.dropped = Told(line)
    BY <1>1, <1>2, <1>3, EmptyLemma
  <2>2. Below(rows, Told(line)) /\ Covers(Told(line), <<>>, taken.stopping)
    BY <1>1, <2>1 DEF BatchInv
  <2>3. Parted(rows, Len(rows), Told(line)) /\ Above(batch_, Told(line))
    BY <1>1, <1>2, <1>3, <2>2, PartedLemma, EmptyLemma
  <2> QED  BY <2>2, <2>3 DEF LineInv
<1>6. \A c \in counters' : LineInv(c)'
  <2>1. ASSUME NEW c, LineInv(c)
        PROVE  LineInv(c)'
    BY <1>1, <2>1 DEF LineInv, Parted, Above, Told, Covers
  <2> QED  BY <1>1, <1>5, <2>1 DEF TraceInv
<1> QED  BY <1>1, <1>4, <1>6 DEF TraceInv, Below

THEOREM TraceInvariant == MCSpec => []TraceInv
<1>1. MCInit => TraceInv
  BY TraceBegins DEF MCInit
<1>2. TraceInv /\ [MCNext]_allVars => TraceInv'
  <2> SUFFICES ASSUME TraceInv, [MCNext]_allVars PROVE TraceInv'
    OBVIOUS
  <2>1. CASE UNCHANGED traceVars
    BY <2>1 DEF TraceInv, TraceType, BatchInv, LineInv, Parted, Above, Below, Told, Covers,
                traceVars
  <2>2. CASE Trace!Next
    <3>1. CASE Trace!Take \/ Trace!WriteRow \/ Trace!WriteCounters
      BY <3>1, TakeKeeps, WriteRowKeeps, WriteCountersKeeps
    <3>2. ASSUME NEW s \in Stages, Trace!Record(s)
          PROVE  TraceInv'
      BY <3>2, RecordKeeps
    <3>3. ASSUME NEW s \in Stages, Trace!Buffer(s) \/ Trace!Remove(s)
          PROVE  TraceInv'
      <4>1. /\ TraceType' /\ (stopping_ => \A r \in Stages : probe[r] = "removed")'
            /\ UNCHANGED <<recorded, pending_, dropped_, batch_, stopping_, writer, taken,
                           rows, counters>>
        <5>1. /\ TraceType /\ probe' \in [Stages -> {"installed", "called", "removed"}]
              /\ probe[s] = "installed"
              /\ UNCHANGED <<recorded, pending_, dropped_, batch_, stopping_, writer, taken,
                             rows, counters>>
          BY <3>3 DEF Trace!Buffer, Trace!Remove, Trace!queue, Trace!file, TraceInv, TraceType
        <5> QED  BY <5>1 DEF TraceInv, TraceType
      <4> QED  BY <4>1 DEF TraceInv, BatchInv, LineInv, Parted, Above, Below, Told, Covers
    <3>4. CASE Trace!Destroy
      <4>1. /\ TraceType' /\ stopping_' /\ (\A r \in Stages : probe[r] = "removed")'
            /\ UNCHANGED <<recorded, pending_, dropped_, batch_, writer, taken, rows, counters>>
        BY <3>4 DEF Trace!Destroy, Trace!queue, Trace!file, TraceInv, TraceType
      <4> QED  BY <4>1 DEF TraceInv, BatchInv, LineInv, Parted, Above, Below, Told, Covers
    <3>5. CASE Trace!Close \/ Trace!WriteFails
      <4>1. /\ TraceType' /\ writer' = "returned"
            /\ UNCHANGED <<recorded, probe, pending_, dropped_, batch_, stopping_, taken, rows,
                           counters>>
        BY <3>5 DEF Trace!Close, Trace!WriteFails, Trace!queue, Trace!file, TraceInv, TraceType
      <4> QED  BY <4>1 DEF TraceInv, BatchInv, LineInv, Parted, Above, Below, Told, Covers
    <3> QED  BY <2>2, <3>1, <3>2, <3>3, <3>4, <3>5 DEF Trace!Next, Trace!Writer
  <2> QED  BY <2>1, <2>2 DEF MCNext, allVars, Logging, Tracing, traceVars
<1> QED  BY <1>1, <1>2, PTL DEF MCSpec

(***************************************************************************)
(* Whatever the number of pads, events and slots: a line of counters       *)
(* accounts for all events up to its batch, and the last one for the run.  *)
(***************************************************************************)
THEOREM CountersCorrect == MCSpec => []CountersAccountForRows
<1>1. ASSUME TraceInv, NEW c \in counters
      PROVE  /\ \A r \in DOMAIN rows : rows[r] <= c.after + c.dropped <=> r <= c.after
             /\ c.complete => c.after + c.dropped = recorded
  <2>1. DOMAIN rows = 1 .. Len(rows)
    BY <1>1, LenProperties DEF TraceInv, TraceType
  <2> QED  BY <1>1, <2>1 DEF TraceInv, LineInv, Parted, Covers, Told
<1>2. TraceInv => CountersAccountForRows
  BY <1>1 DEF CountersAccountForRows, Trace!CountersAccountForRows
<1> QED  BY <1>2, TraceInvariant, PTL
=============================================================================
