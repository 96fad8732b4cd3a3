---------------------------- MODULE LifecycleProofs ----------------------------
(***************************************************************************)
(* Proofs about Lifecycle for any cameras, leaders and number of signals.  *)
(***************************************************************************)
EXTENDS Lifecycle, TLAPS

Places == {"new", "looped", "playing", "ready", "running", "returned",
           "unsourced", "destroyed", "freed", "done"}

(* What the steps of a pipeline and its users share. *)
PipeType ==
  /\ pipe \in [Cameras -> Places]
  /\ flag \in [Cameras -> BOOLEAN]
  /\ source \in [Cameras -> BOOLEAN]
  /\ element \in [Cameras -> BOOLEAN]
  /\ mutex \in [Cameras -> {"free", "probe", "command"}]
  /\ inUse \subseteq Cameras
  /\ \A c \in Cameras : source[c] => pipe[c] \in {"ready", "running", "returned"}

OtherType ==
  /\ running \in BOOLEAN
  /\ signals \in 0 .. MaxSignals
  /\ toStop \subseteq Cameras
  /\ missed \subseteq Cameras
  /\ main \in {"bring-up", "joining", "exited"}
  /\ command \in {"top", "adjusting", "done"}
  /\ sensor \in {"up", "done"}
  /\ tracker \in [Leaders -> {"new", "up", "done"}]

LEMMA TypeSplit == TypeOK <=> PipeType /\ OtherType
BY Zenon DEF TypeOK, PipeType, OtherType, Places

LEMMA BooleanUpdate ==
  ASSUME NEW S, NEW f \in [S -> BOOLEAN], NEW x \in S
  PROVE  /\ [f EXCEPT ![x] = TRUE] \in [S -> BOOLEAN]
         /\ [f EXCEPT ![x] = FALSE] \in [S -> BOOLEAN]
OBVIOUS

-----------------------------------------------------------------------------
(* One camera's pipeline.                                                  *)

(***************************************************************************)
(* The element exists from before the pointer to it is set until after it  *)
(* is cleared, and the pointer is not cleared while the lock is held: who  *)
(* took the lock with the pointer set works on an element that exists.     *)
(***************************************************************************)
AliveInv ==
  /\ PipeType
  /\ \A c \in Cameras :
       pipe[c] \in {"playing", "ready", "running", "returned", "unsourced"} => element[c]
  /\ \A c \in inUse : mutex[c] # "free" /\ source[c]

LEMMA PipelineAlive ==
  ASSUME AliveInv, NEW c \in Cameras, Pipeline(c)
  PROVE  AliveInv'
<1>1. CASE MakeLoop(c) \/ BuildFails(c) \/ LoopReturns(c) \/ ReleaseLoop(c) \/ Return(c)
  <2>1. /\ \E p \in Places : pipe' = [pipe EXCEPT ![c] = p]
        /\ UNCHANGED <<flag, source, element, mutex, inUse>>
    BY <1>1 DEF MakeLoop, BuildFails, LoopReturns, ReleaseLoop, Return, Move, lockVars, Places
  <2>2. PipeType'
    BY <1>1, <2>1 DEF AliveInv, PipeType, MakeLoop, BuildFails, LoopReturns, ReleaseLoop, Return, Move
  <2> QED  BY <1>1, <2>1, <2>2
              DEF AliveInv, PipeType, MakeLoop, BuildFails, LoopReturns, ReleaseLoop, Return, Move
<1>2. CASE Build(c)
  <2>1. element' \in [Cameras -> BOOLEAN]
    BY <1>2, BooleanUpdate DEF Build, AliveInv, PipeType
  <2> QED  BY <1>2, <2>1 DEF Build, Move, lockVars, AliveInv, PipeType, Places
<1>3. CASE SetSource(c)
  <2>1. source' \in [Cameras -> BOOLEAN]
    BY <1>3, BooleanUpdate DEF SetSource, AliveInv, PipeType
  <2> QED  BY <1>3, <2>1 DEF SetSource, Move, lockVars, AliveInv, PipeType, Places
<1>4. CASE RunLoop(c)
  <2>1. flag' \in [Cameras -> BOOLEAN]
    BY <1>4, BooleanUpdate DEF RunLoop, AliveInv, PipeType
  <2> QED  BY <1>4, <2>1 DEF RunLoop, Move, lockVars, AliveInv, PipeType, Places
<1>5. CASE ClearSource(c)
  <2>1. source' \in [Cameras -> BOOLEAN]
    BY <1>5, BooleanUpdate DEF ClearSource, AliveInv, PipeType
  <2> QED  BY <1>5, <2>1 DEF ClearSource, Move, lockVars, AliveInv, PipeType, Places
<1>6. CASE Destroy(c)
  <2>1. element' \in [Cameras -> BOOLEAN]
    BY <1>6, BooleanUpdate DEF Destroy, AliveInv, PipeType
  <2> QED  BY <1>6, <2>1 DEF Destroy, Move, lockVars, AliveInv, PipeType, Places
<1> QED  BY <1>1, <1>2, <1>3, <1>4, <1>5, <1>6 DEF Pipeline

LEMMA FlagAlive ==
  ASSUME AliveInv, NEW c \in Cameras, StopPipeline(c) \/ EndOfStream(c)
  PROVE  AliveInv'
<1>1. flag' \in [Cameras -> BOOLEAN]
  BY BooleanUpdate DEF StopPipeline, EndOfStream, AliveInv, PipeType
<1>2. UNCHANGED <<pipe, source, element, mutex, inUse>>
  BY DEF StopPipeline, EndOfStream, lockVars
<1> QED  BY <1>1, <1>2 DEF AliveInv, PipeType

(* Those who take the lock and let it go. *)
LEMMA UserAlive ==
  ASSUME AliveInv, NEW c \in Cameras, NEW user \in {"probe", "command"},
         Lock(c, user) \/ Unlock(c, user), UNCHANGED pipeVars
  PROVE  AliveInv'
<1>1. CASE Lock(c, user)
  BY <1>1 DEF Lock, pipeVars, AliveInv, PipeType
<1>2. CASE Unlock(c, user)
  BY <1>2 DEF Unlock, pipeVars, AliveInv, PipeType
<1> QED  BY <1>1, <1>2

LEMMA AliveCorrect == Spec => []AliveInv
<1>1. Init => AliveInv
  <2> SUFFICES ASSUME Init PROVE AliveInv
    OBVIOUS
  <2>1. \A f : f = [c \in Cameras |-> FALSE] => f \in [Cameras -> BOOLEAN]
    OBVIOUS
  <2>2. flag \in [Cameras -> BOOLEAN] /\ source \in [Cameras -> BOOLEAN]
        /\ element \in [Cameras -> BOOLEAN]
    BY <2>1 DEF Init
  <2>3. /\ pipe = [c \in Cameras |-> "new"] /\ source = [c \in Cameras |-> FALSE]
        /\ mutex = [c \in Cameras |-> "free"] /\ inUse = {}
    BY DEF Init
  <2> QED  BY <2>2, <2>3 DEF AliveInv, PipeType, Places
<1>2. AliveInv /\ [Next]_vars => AliveInv'
  <2> SUFFICES ASSUME AliveInv, [Next]_vars PROVE AliveInv'
    OBVIOUS
  <2>1. CASE \E c \in Cameras : Pipeline(c)
    BY <2>1, PipelineAlive
  <2>2. CASE \E c \in Cameras : StopPipeline(c) \/ EndOfStream(c)
    BY <2>2, FlagAlive
  <2>3. CASE \E c \in Cameras : Probe(c) \/ ProbeEnds(c) \/ Adjusted(c)
    BY <2>3, UserAlive DEF Probe, ProbeEnds, Adjusted
  <2>4. CASE Receive
    BY <2>4, UserAlive DEF Receive
  <2>5. CASE UNCHANGED <<pipe, flag, source, element, mutex, inUse>>
    BY <2>5 DEF AliveInv, PipeType
  <2>6. CASE \/ BringUp \/ Exit \/ Signal \/ CommandEnds \/ SensorEnds \/ UNCHANGED vars
             \/ \E l \in Leaders : TrackerEnds(l)
    BY <2>5, <2>6
       DEF BringUp, Exit, Signal, CommandEnds, SensorEnds, TrackerEnds, vars, pipeVars, lockVars
  <2> QED  BY <2>1, <2>2, <2>3, <2>4, <2>6, Zenon DEF Next
<1> QED  BY <1>1, <1>2, PTL DEF Spec

(* No thread works on a source element that is gone (inference.cpp:723).   *)
THEOREM SourceCorrect == Spec => []SourceIsAlive
<1>1. AliveInv => SourceIsAlive
  <2> SUFFICES ASSUME AliveInv, NEW c \in inUse PROVE element[c]
    BY DEF SourceIsAlive
  <2>1. c \in Cameras /\ source[c]
    BY DEF AliveInv, PipeType
  <2> QED  BY <2>1 DEF AliveInv, PipeType
<1> QED  BY <1>1, AliveCorrect, PTL

-----------------------------------------------------------------------------
(* Types.                                                                  *)

LEMMA OtherStep == TypeOK /\ [Next]_vars => OtherType'
<1> SUFFICES ASSUME OtherType, [Next]_vars PROVE OtherType'
  BY TypeSplit
<1>1. CASE BringUp
  BY <1>1 DEF BringUp, OtherType, handlerVars
<1>2. CASE Exit \/ CommandEnds \/ SensorEnds
  BY <1>2 DEF Exit, CommandEnds, SensorEnds, OtherType, handlerVars
<1>3. CASE Signal
  <2>1. running' \in BOOLEAN
    BY <1>3, Zenon DEF Signal
  <2>2. signals' \in 0 .. MaxSignals
    BY <1>3, SignalAssumption DEF Signal, OtherType
  <2> QED  BY <1>3, <2>1, <2>2, Zenon DEF Signal, OtherType
<1>4. ASSUME NEW c \in Cameras, StopPipeline(c)
      PROVE  OtherType'
  BY <1>4, Zenon DEF StopPipeline, OtherType
<1>5. ASSUME NEW c \in Cameras, Pipeline(c) \/ EndOfStream(c) \/ Probe(c) \/ ProbeEnds(c)
      PROVE  OtherType'
  BY <1>5, Zenon
     DEF Pipeline, MakeLoop, Build, BuildFails, SetSource, RunLoop, LoopReturns, ClearSource,
         Destroy, ReleaseLoop, Return, EndOfStream, Probe, ProbeEnds, handlerVars, OtherType
<1>6. CASE Receive \/ \E c \in Cameras : Adjusted(c)
  BY <1>6 DEF Receive, Adjusted, OtherType, handlerVars
<1>7. ASSUME NEW l \in Leaders, TrackerEnds(l)
      PROVE  OtherType'
  BY <1>7 DEF TrackerEnds, OtherType, handlerVars
<1>8. CASE UNCHANGED vars
  BY <1>8, Zenon DEF vars, handlerVars, OtherType
<1> QED  BY <1>1, <1>2, <1>3, <1>4, <1>5, <1>6, <1>7, <1>8, Zenon DEF Next

(* The program's threads keep their types, and a pointer to the element is *)
(* set only from the playing pipeline's loop to its return.                *)
THEOREM TypeCorrect == Spec => []TypeOK
<1>1. Init => OtherType
  <2> SUFFICES ASSUME Init PROVE OtherType
    OBVIOUS
  <2>1. running \in BOOLEAN
    BY Zenon DEF Init
  <2>2. signals \in 0 .. MaxSignals
    BY SignalAssumption DEF Init
  <2> QED  BY <2>1, <2>2 DEF Init, OtherType
<1>2. AliveInv /\ OtherType => TypeOK
  BY TypeSplit DEF AliveInv
<1> QED  BY <1>1, <1>2, OtherStep, AliveCorrect, PTL DEF Spec
=============================================================================
