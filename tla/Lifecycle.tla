------------------------------ MODULE Lifecycle ------------------------------
(***************************************************************************)
(* The program from the start of its threads to the last join: main        *)
(* (src/main.cpp), the signal handler, one pipeline thread per camera      *)
(* (run_pipeline of src/pipeline/inference.cpp), the command and the       *)
(* sensor thread (src/comm) and the tracking threads, whose own loop is    *)
(* TrackingLoop.                                                           *)
(*                                                                         *)
(* The handler runs on whichever thread the signal interrupts, so its      *)
(* steps interleave with everything else.  Of glib, what the code relies   *)
(* on: running a loop sets its flag and returns once the flag is clear,    *)
(* quitting clears the flag.  Of GStreamer: a playing element calls the    *)
(* probe from a thread of its own, and taking it to NULL waits for that    *)
(* thread.  MaxSignals bounds the signals sent; the handler is finished    *)
(* with one before the next.                                               *)
(***************************************************************************)
EXTENDS Naturals

CONSTANTS
  Cameras,      (* the active cameras                                       *)
  Leaders,      (* the gimbals that get a tracking thread                   *)
  MaxSignals

ASSUME SignalAssumption == MaxSignals \in Nat

VARIABLES
  running,   (* the global flag                                             *)
  signals,   (* signals received so far                                     *)
  toStop,    (* the handler has still to stop these pipelines               *)
  missed,    (* history: the cameras whose last stop came before their loop *)
  main,      (* where main is                                               *)
  pipe,      (* where each run_pipeline is                                  *)
  flag,      (* the main loop's is_running                                  *)
  source,    (* ctx.source is set                                           *)
  element,   (* the source element it would point to exists                 *)
  mutex,     (* who holds ctx.source_mutex                                  *)
  inUse,     (* the cameras whose source element its holder works on        *)
  command,   (* the command thread                                          *)
  sensor,    (* the sensor thread                                           *)
  tracker    (* the tracking threads                                        *)

handlerVars == <<running, signals, toStop, missed>>
pipeVars == <<pipe, flag, source, element>>
lockVars == <<mutex, inUse>>
vars == <<handlerVars, main, pipeVars, lockVars, command, sensor, tracker>>

Init ==
  /\ running = TRUE
  /\ signals = 0
  /\ toStop = {}
  /\ missed = {}
  /\ main = "bring-up"
  /\ pipe = [c \in Cameras |-> "new"]
  /\ flag = [c \in Cameras |-> FALSE]
  /\ source = [c \in Cameras |-> FALSE]
  /\ element = [c \in Cameras |-> FALSE]
  /\ mutex = [c \in Cameras |-> "free"]
  /\ inUse = {}
  /\ command \in {"top", "done"}       \* enabled or not
  /\ sensor \in {"up", "done"}
  /\ tracker = [l \in Leaders |-> "new"]

BeforeLoop(c) == pipe[c] \in {"new", "looped", "playing", "ready"}

-----------------------------------------------------------------------------
(* Mutants: the pointer is cleared under a user's hands; the stop does not *)
(* quit the loop.                                                          *)

ClearSourceUnlocked(c) ==
  /\ pipe[c] = "returned"
  /\ pipe' = [pipe EXCEPT ![c] = "unsourced"]
  /\ source' = [source EXCEPT ![c] = FALSE]
  /\ UNCHANGED <<handlerVars, main, flag, element, lockVars, command, sensor, tracker>>

StopWithoutQuit(c) ==
  /\ c \in toStop
  /\ toStop' = toStop \ {c}
  /\ missed' = IF pipe[c] \in {"new", "looped", "playing", "ready"}
               THEN missed \union {c} ELSE missed \ {c}
  /\ UNCHANGED <<running, signals, main, pipeVars, lockVars, command, sensor, tracker>>

-----------------------------------------------------------------------------
(* main. *)

(* The motors' initialisation and boot calibration, long and deaf to running; *)
(* then the tracking threads, if there is a camera to track from.            *)
BringUp ==
  /\ main = "bring-up"
  /\ tracker' = [l \in Leaders |-> IF Cameras = {} THEN "done" ELSE "up"]
  /\ main' = "joining"
  /\ UNCHANGED <<handlerVars, pipeVars, lockVars, command, sensor>>

(* The joins, in their order, can all return only when this holds. *)
AllJoined ==
  /\ \A c \in Cameras : pipe[c] = "done"
  /\ sensor = "done"
  /\ command = "done"
  /\ \A l \in Leaders : tracker[l] = "done"

Exit ==
  /\ main = "joining"
  /\ AllJoined
  /\ main' = "exited"
  /\ UNCHANGED <<handlerVars, pipeVars, lockVars, command, sensor, tracker>>

-----------------------------------------------------------------------------
(* The signal handler. *)

Signal ==
  /\ main # "exited"
  /\ toStop = {} /\ signals < MaxSignals
  /\ running' = FALSE
  /\ signals' = signals + 1
  /\ toStop' = Cameras
  /\ UNCHANGED <<missed, main, pipeVars, lockVars, command, sensor, tracker>>

(* stop_pipeline: nothing to quit without a loop. *)
StopPipeline(c) ==
  /\ c \in toStop
  /\ toStop' = toStop \ {c}
  /\ flag' = [flag EXCEPT ![c] = FALSE]
  /\ missed' = IF BeforeLoop(c) THEN missed \union {c} ELSE missed \ {c}
  /\ UNCHANGED <<running, signals, main, pipe, source, element, lockVars, command,
                 sensor, tracker>>

-----------------------------------------------------------------------------
(* run_pipeline. *)

Move(c, from, to) == pipe[c] = from /\ pipe' = [pipe EXCEPT ![c] = to]

MakeLoop(c) ==
  /\ Move(c, "new", "looped")
  /\ UNCHANGED <<handlerVars, main, flag, source, element, lockVars, command, sensor, tracker>>

(* build_and_run: any of its failures releases what was taken. *)
Build(c) ==
  /\ Move(c, "looped", "playing")
  /\ element' = [element EXCEPT ![c] = TRUE]
  /\ UNCHANGED <<handlerVars, main, flag, source, lockVars, command, sensor, tracker>>

BuildFails(c) ==
  /\ Move(c, "looped", "destroyed")
  /\ UNCHANGED <<handlerVars, main, flag, source, element, lockVars, command, sensor, tracker>>

(* set_source, once the pipeline plays: frames may have come before. *)
SetSource(c) ==
  /\ Move(c, "playing", "ready")
  /\ mutex[c] = "free"
  /\ source' = [source EXCEPT ![c] = TRUE]
  /\ UNCHANGED <<handlerVars, main, flag, element, lockVars, command, sensor, tracker>>

(* g_main_loop_run sets the flag, whatever it was. *)
RunLoop(c) ==
  /\ Move(c, "ready", "running")
  /\ flag' = [flag EXCEPT ![c] = TRUE]
  /\ UNCHANGED <<handlerVars, main, source, element, lockVars, command, sensor, tracker>>

(* bus_call: end of stream or an error.  Every watch is attached to the one  *)
(* default context, so any camera's loop can dispatch it, even before the    *)
(* loop it quits runs.                                                       *)
EndOfStream(c) ==
  /\ element[c]
  /\ \E d \in Cameras : pipe[d] = "running" /\ flag[d]
  /\ flag' = [flag EXCEPT ![c] = FALSE]
  /\ UNCHANGED <<handlerVars, main, pipe, source, element, lockVars, command, sensor, tracker>>

LoopReturns(c) ==
  /\ ~flag[c]
  /\ Move(c, "running", "returned")
  /\ UNCHANGED <<handlerVars, main, flag, source, element, lockVars, command, sensor, tracker>>

ClearSource(c) ==
  /\ Move(c, "returned", "unsourced")
  /\ mutex[c] = "free"
  /\ source' = [source EXCEPT ![c] = FALSE]
  /\ UNCHANGED <<handlerVars, main, flag, element, lockVars, command, sensor, tracker>>

(* To NULL, which waits for the probe, and gone. *)
Destroy(c) ==
  /\ Move(c, "unsourced", "destroyed")
  /\ mutex[c] # "probe"
  /\ element' = [element EXCEPT ![c] = FALSE]
  /\ UNCHANGED <<handlerVars, main, flag, source, lockVars, command, sensor, tracker>>

ReleaseLoop(c) ==
  /\ Move(c, "destroyed", "freed")
  /\ UNCHANGED <<handlerVars, main, flag, source, element, lockVars, command, sensor, tracker>>

(* The context is cleared, ctx.loop with it. *)
Return(c) ==
  /\ Move(c, "freed", "done")
  /\ UNCHANGED <<handlerVars, main, flag, source, element, lockVars, command, sensor, tracker>>

Pipeline(c) ==
  \/ MakeLoop(c) \/ Build(c) \/ BuildFails(c) \/ SetSource(c) \/ RunLoop(c)
  \/ LoopReturns(c) \/ ClearSource(c) \/ Destroy(c)
  \/ ReleaseLoop(c) \/ Return(c)

(* The element is used only through a pointer that was set when the lock    *)
(* was taken.                                                               *)
Lock(c, user) ==
  /\ mutex[c] = "free"
  /\ mutex' = [mutex EXCEPT ![c] = user]
  /\ inUse' = IF source[c] THEN inUse \union {c} ELSE inUse

Unlock(c, user) ==
  /\ mutex[c] = user
  /\ mutex' = [mutex EXCEPT ![c] = "free"]
  /\ inUse' = inUse \ {c}

(* read_exposure_s, in the probe, on the streaming thread. *)
Probe(c) ==
  /\ element[c]
  /\ Lock(c, "probe")
  /\ UNCHANGED <<handlerVars, main, pipeVars, command, sensor, tracker>>

ProbeEnds(c) ==
  /\ Unlock(c, "probe")
  /\ UNCHANGED <<handlerVars, main, pipeVars, command, sensor, tracker>>

-----------------------------------------------------------------------------
(* The command thread, the sensor thread and the tracking threads. *)

(* Datagrams other than exposure commands are TrackingLoop's; this includes   *)
(* the receive that times out.                                               *)
Receive ==
  /\ command = "top"
  /\ running
  /\ UNCHANGED <<handlerVars, main, pipeVars, sensor, tracker>>
  /\ \E c \in Cameras :
       /\ Lock(c, "command")
       /\ command' = "adjusting"

(* adjust_exposure is over. *)
Adjusted(c) ==
  /\ Unlock(c, "command")
  /\ command' = "top"
  /\ UNCHANGED <<handlerVars, main, pipeVars, sensor, tracker>>

CommandEnds ==
  /\ command = "top"
  /\ ~running
  /\ command' = "done"
  /\ UNCHANGED <<handlerVars, main, pipeVars, lockVars, sensor, tracker>>

(* The loop's bounded poll sees running clear, or the port fails. *)
SensorEnds ==
  /\ sensor = "up"
  /\ sensor' = "done"
  /\ UNCHANGED <<handlerVars, main, pipeVars, lockVars, command, tracker>>

TrackerEnds(l) ==
  /\ tracker[l] = "up"
  /\ ~running
  /\ tracker' = [tracker EXCEPT ![l] = "done"]
  /\ UNCHANGED <<handlerVars, main, pipeVars, lockVars, command, sensor>>

Next ==
  \/ BringUp \/ Exit \/ Signal
  \/ \E c \in Cameras :
       \/ StopPipeline(c) \/ Pipeline(c) \/ EndOfStream(c)
       \/ Probe(c) \/ ProbeEnds(c) \/ Adjusted(c)
  \/ Receive \/ CommandEnds \/ SensorEnds
  \/ \E l \in Leaders : TrackerEnds(l)

Spec == Init /\ [][Next]_vars

(***************************************************************************)
(* Every thread that can take a step of its own takes it; the probe and    *)
(* the command thread leave source_mutex free for most of each second, so  *)
(* the thread that waits for it gets it.  No signal, end of stream, probe  *)
(* or command need ever come.                                              *)
(***************************************************************************)
FairSpec ==
  /\ Spec
  /\ WF_vars(BringUp) /\ WF_vars(Exit)
  /\ WF_vars(CommandEnds) /\ WF_vars(SensorEnds /\ ~running)
  /\ \A l \in Leaders : WF_vars(TrackerEnds(l))
  /\ \A c \in Cameras :
       /\ WF_vars(StopPipeline(c)) /\ SF_vars(Pipeline(c))
       /\ WF_vars(ProbeEnds(c)) /\ WF_vars(Adjusted(c))

-----------------------------------------------------------------------------

TypeOK ==
  /\ running \in BOOLEAN
  /\ signals \in 0 .. MaxSignals
  /\ toStop \subseteq Cameras
  /\ missed \subseteq Cameras
  /\ main \in {"bring-up", "joining", "exited"}
  /\ pipe \in [Cameras -> {"new", "looped", "playing", "ready", "running", "returned",
                           "unsourced", "destroyed", "freed", "done"}]
  /\ \A v \in {flag, source, element} : v \in [Cameras -> BOOLEAN]
  /\ \A c \in Cameras : source[c] => pipe[c] \in {"ready", "running", "returned"}
  /\ mutex \in [Cameras -> {"free", "probe", "command"}]
  /\ inUse \subseteq Cameras
  /\ command \in {"top", "adjusting", "done"}
  /\ sensor \in {"up", "done"}
  /\ tracker \in [Leaders -> {"new", "up", "done"}]

(***************************************************************************)
(* The thread that adjusts or reads the exposure works on an element that  *)
(* exists, until it is through with it, however the pipeline ends          *)
(* meanwhile (inference.cpp:723).                                          *)
(***************************************************************************)
SourceIsAlive == \A c \in inUse : element[c]

(***************************************************************************)
(* A signal whose stop reached every pipeline in its loop, or later, ends  *)
(* the program: every thread leaves and every join returns.                *)
(***************************************************************************)
TimelyStopCompletes == ~running /\ toStop = {} /\ missed = {} ~> main = "exited"

(* inference_rgb.h:9: the pipeline blocks until EOS, an error or            *)
(* stop_pipeline_rgb().                                                     *)
StopEndsPipelines == ~running /\ toStop = {} ~> \A c \in Cameras : pipe[c] = "done"
=============================================================================
