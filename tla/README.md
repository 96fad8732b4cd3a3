# Patronus turret software: a TLA+ model

Patronus points pan/tilt gimbals at a bird that a neural network sees. Cameras
feed DeepStream pipelines; a pad probe hands each frame's best detection to the
tracking threads; each tracking thread runs a Kalman filter, decides once a tick
what its gimbal and the gimbals that mirror it do, and drives them over one CAN
link. The modules here model that program, `src/src/` of the repository (paths
below are relative to it), with TLC runs on small instances and theorems checked
by TLAPS for every instance.

- [Running](#running)
- [The system](#the-system)
- [The modules](#the-modules)
- [The runs and what they show](#the-runs-and-what-they-show)
- [Where the code and its documentation differ](#where-the-code-and-its-documentation-differ)
- [What is proved](#what-is-proved)
- [What is only model-checked, and what is not modelled](#what-is-only-model-checked)
- [Plan](#plan)

## Running

```
tlc -workers 2 -config MCTrackingLoop.cfg MCTrackingLoop    # one run
tlapm TrackingLoopProofs.tla                                # one module's proofs
```

`MC*.tla` gives the constants of a module their values, `MC*.cfg` is a run.
`PROJECT.json` lists the runs, maps every definition to the lines it models,
and names for every checked property a *mutant*: an operator, kept in the module
beside the one it replaces, that changes the model the way a plausible bug in
the code would and makes TLC find the property violated.

## The system

### Components, state and operations

| component | source | state it keeps | operations | correct when |
|---|---|---|---|---|
| observation channel | `core/state.h` | one slot, a publication count, a mutex and a condition variable | `push`, `try_read`, `clear` | a reader is never left asleep beside a newer frame, never gets one twice, and its cursor counts what it missed |
| operator control | `tracking/manual_control.h` | the mode; per axis a direction and its time | `set_mode`, `move`, `manual`, `command` | no key press acts outside manual mode or after its timeout |
| control decision | `tracking/control_state.cpp` | the phase and the time of the last detection | `step_control`, `apply_home_feedback` | aims only at what was seen lately, comes home when the target is gone, yields to the operator, holds without a pose |
| tracking thread | `main.cpp:203-519` | filter, estimate, pose, decision, this tick's record | one tick; the exit | no state bridges a pose fault; every gimbal is commanded every tick; all are stopped on exit |
| frame timing | `pipeline/inference.cpp` | per camera the last arrival and stamp, the learned period, the capture clock | `advance_capture_clock`, `captured_at` | two frames are as far apart as their exposures; a clock that restarts does not freeze the filter for long |
| target filter | `tracking/target_filter.cpp` | track, pose ring, last frame times | `push_gimbal_sample`, `step_filter`, `aim_at`, `reset_filter` | an estimate exists exactly while there is a track; a frame gets the poses around its exposure, of one history |
| prediction overlay | `tracking/prediction_overlay.cpp` | one slot per gimbal | `publish`, `clear`, `snapshot` | draws what the loop could aim at, and nothing after the loop ended |
| motor bus | `comm/candle_motor.cpp` | the drives, soft limits, the bus mutex | `set_velocity`, `get_position`, `return_to_home`, `drive_to`, `mirror_pose` | a call is one transaction; failed feedback or a failed write never leaves an axis moving unwatched |
| motor bring-up | `comm/candle_motor.cpp` | drive modes, calibration counters, soft limits | `init`, `boot_sequence`, `disable` | limits lie inside the stops; one axis moves at a time; it ends with everything still |
| telemetry | `tracking/telemetry.cpp` | two rings, two batches, `stop_` | `record`, the writer thread, the destructor | every record is written once, in order, or counted as dropped |
| pipelines | `pipeline/inference.cpp` | per camera a main loop, the source element and its mutex, the capture clock | `run_pipeline`, `stop_pipeline`, the probe, exposure control | a stop ends it; nobody uses a destroyed element |
| command listener | `comm/command_listener.cpp` | a socket | mode, move and exposure datagrams | |
| sensor module | `comm/sensor_module.cpp` | a serial port | read and log packets | ends with the program |
| configuration | `core/config.cpp`, `main.cpp:167-176` | - | `load_config`, the split into leaders and followers | every gimbal is driven by exactly one thread |
| run trace | `pipeline/run_trace.cpp` | a bounded vector, a batch, counters, `stopping_` | `record` on a dozen pads, the writer thread, the destructor | every line of counters accounts for the rows before it |
| actuator calibration | `tools/actuator_calibration.cpp` | one axis; the trace; `run.txt` | one armed run, its stop and its records | a run that goes wrong stops the axis in bounded time; only a whole run is called complete |
| focal calibration | `tools/focal_calib.cpp` | the target and the abort flag shared by two threads | the motor loop; the sweep, the restore, the exit | the axis is left told to stand still or off |
| encoder, aiming laws, replay and offline tools | `pipeline/`, `tracking/aim_control.cpp`, `tools/` | | | |

### How they interact

- *Threads.* `main` starts the sensor and command threads, a pipeline thread per
  camera, then brings the motors up, then starts one tracking thread per leader
  gimbal, and joins them all. GStreamer adds a streaming thread per camera (the
  probe) and telemetry a writer thread. The signal handler runs on any of them.
- *Shared state.* Probe to tracking threads: the observation channel. Tracking
  threads to probe: the prediction channel. Command thread to tracking threads:
  operator control. Tracking threads among themselves: the CAN link, under
  `bus_mutex_`, and telemetry. Signal handler to all: `running`, and
  `ctx.loop` to the pipelines. Command thread and probe to a pipeline:
  the source element, under `source_mutex`.
- *Calls.* A tracking thread calls the filter, the decision and the motors in
  that order in every tick; motor results feed back into the decision only
  through `apply_home_feedback`, and to the followers as feed-forward.

### What is hard

Concurrency: the notification after the unlock; two locks taken one after the
other for mode and keys; two threads on one link; a signal at any instant.
Failure: any exchange on the bus can fail, one axis of two, before or after a
part of the work; a write can be obeyed and its reply lost; a drive's mode may
not take. Ordering: pose, wait for a frame, freshness check, filter, decision,
command, followers. Timeouts: stale poses and estimates, key presses, the home
delay, drive watchdogs, sweeps that never stall. Clocks: three times per frame,
one of them snapped to a period it learns and set back when a gap is too long. `PROJECT.json` lists each
hazard at its line with the properties that cover it.

## The modules

```
LatestBroadcast  <== ObservationChannel           MotorContract <== MotorBus
                                                   LossyLog      <== TelemetryLog
ManualControl --\
                 >-- TrackingLoop                  MotorBringUp        Lifecycle
ControlPhase  --/                                  RunTrace            Configuration
CaptureClock  ----- FilterTrack                    ActuatorCalibration FocalCalib
```

`A <== B`: B implements A, checked with a refinement mapping. The lines to
TrackingLoop and FilterTrack are EXTENDS. TrackingLoop uses two of the abstractions: its channel
is the newest unread frame, as in LatestBroadcast, and each of its motor
commands is one step, as in MotorContract.

**ObservationChannel / LatestBroadcast.** What the mutex protects is one step.
The steps outside it are those of the code: `Push` then `Notify`; `Block` (unlock
and enter the wait set), `WakeSpuriously`, `Expire` (the timeout), and the
re-check after each, `Take`, `Block` or `ReturnNone`. A value is the number of
its publication. LatestBroadcast has no locks: a read delivers the newest value
or, there being nothing newer, declines.

**ManualControl.** `SetMode`, `Move` and `Command` are the methods; `AgeMoves` is
the passing of time. `pressed` is history: the axes whose key was pressed since the mode
last changed, so that a key of an earlier spell of manual mode can be told from one of
the spell that lasts.

**ControlPhase.** `StepControl` is `step_control`, put together from the phase
after the input, the age after the input, `Aiming`, `Leader`, `Followers` and
`NextPhase`. Whether the thread has motors (`driving`) and whether it filters
(`filterEnabled`) are variables set at Init and never changed, so one run covers
the four configurations.

**TrackingLoop.** One action per stretch of the loop that nothing outside can
split: `Enter` (the tick's time and record), `ReadPose` (the encoders), `Observe` (the end of the
wait for a frame, the freshness check after it, the pose history), `StepFilter`, `Decide` (with the operator's mode), one
`Drive` alternative per leader action (with the operator's keys),
`DriveFollower` per follower, `EndTick`; and `Leave`, `StopFollower`, `Finish` on
exit. Between any two of them the camera may publish, the operator act, a signal
come and time pass. What a command leaves behind is a choice (`Outcomes`): a
velocity may be limited to zero or fail, a zero may fail and leave the axis as it
was. Of a gimbal only *moving* or *still* is kept. The pose's age, `poseAge`, counts from
its reading to the check after the wait, which alone decides whether it is usable.
`issued` and `sight` are history.

**CaptureClock / FilterTrack.** CaptureClock is the timing of a camera's frames:
`Frame` retrieves one, delays it by a latency and gives it its arrival, its capture
time (`AdvanceCaptureClock`: `Restart`, `LearnPeriod`, `Snap` or `OffPeriod`) and its
exposure (`CapturedAt`), for a source that stamps its frames or one that does not.
FilterTrack extends it with one driving thread's filter: `Pose` reads the encoders,
`ObserveFresh` pushes the sample and steps on the newest unread frame or refuses it,
`ObserveFault` resets. An encoder sample is its time and a pose is the pair of
samples it is interpolated between, so a wrong index in the ring shows. Its
`Refuse`, `Accept`, `Search` and `Coast` are the cases between which TrackingLoop's
`StepFilter` chooses freely; here the clock decides which frames are refused.
`stretch`, `drift`, `trail`, `past`, `stepped` and `refused` are history.

**MotorBus / MotorContract.** A call takes the lock (`Acquire`), then each axis
goes through the stages *read*, *limit*, *write* and *stop* of
`set_velocity_locked` and its callers; `Ask` puts a request on the wire and the
reply steps (`ReadPose`, `CheckLimit`, `Write`, `WriteStop`) take the first reply
there, so replies could cross if two calls overlapped. Every exchange can fail.
MotorContract says what a caller relies on: the call is indivisible; a call that
was to hold leaves each axis stopped or, its write unconfirmed, as it was; a
confirmed hold stops both; a read changes nothing; *arrived* implies a confirmed
hold.

**MotorBringUp.** `init` (`Attach`, `PowerUp`, `SetUp` and their failures), the
axis-by-axis calibration (`Begin`, `ArmAttempt`, `Seek`, `Sweep`, `UpperFound`,
`LowerFound`, `ParkRead`, `ParkPush`, ...) and `Disable`. `Elapse` is one
`wait_feeding`: the other drives are told to stand still, unaddressed drives
come nearer to their watchdog, and an axis that is pushed moves a step or, with
friction or at a stop, does not. `FailAxis` is every path that gives an axis up.

**TelemetryLog / LossyLog.** The rings with head, count and dropped; `Wake` takes
`stop_` and both rings in one critical section; `WriteRecord` and `Flush` are the
file I/O outside it; `Destroy` and `Close` are the destructor before and after
the join. LossyLog is a queue that may lose what finds it full.

**RunTrace.** `Buffer` and `Record` are a pad's probe before and in the lock, `Take`
the swap with the copies of `stopping_` and `dropped_`, then `WriteRow` and
`WriteCounters` outside the lock, or `WriteFails`, after which the writer is gone.
`Remove` is a pad that goes with its pipeline; the last one runs the destructor,
`Destroy` before the join and `Close` after it.

**Lifecycle.** `run_pipeline` step by step, `stop_pipeline` as the handler calls
it for each camera, `bus_call` dispatched by any running loop, the probe and the
exposure command under `source_mutex`, and the joins of `main`. `inUse` holds the
cameras whose element is being used through a pointer read under the lock. The handler
calls `g_main_loop_quit`, which takes GLib's context lock and is not async-signal-safe: a
signal that hits a thread inside GLib can block there. The model makes of it what it does
when it returns, the clearing of the loop's flag.

**Configuration.** Every file of up to `MaxGroups` groups: `ReadGimbals` narrows each
`follow=` and stops at the first gap, `CheckFollow` corrects one gimbal per step in
the order of the code's loop, `Split` is `main`'s division into leaders, which get a
thread, and followers. `manual_timeout_ms` stands for the settings that are narrowed,
overlaid per camera and guarded.

**FocalCalib.** The motor thread (`ReadPose`, `DriveTo`, `StopAxis`) beside `main`
(`OpenCamera` to `Exit`); every motor and camera call may fail, a camera's exception
jumps to the restoring of the exposures, an abort of the thread ends the sweep. Other
exceptions (a file's, an allocation's), and a SIGINT, for which this tool has no handler,
end the process where it is and are outside the model.

MCRecorders and MCStandalone check several modules in one run where they share
nothing: a behaviour runs one of them (`recorder`, `part`) and the others stand still.

**ActuatorCalibration.** One armed run of the stand-alone tool, from the first
`state=incomplete` to the end of the process. `Attach` to `VerifyMode` are
`Axis::open` and `enable` exchange by exchange; `Cycle` is the top of the loop
with both reads and `check_feedback`, `HoldPulse`, `EndPulse`, `Settle`,
`StartPulse` and `Finish` its branches, each with its write, `Sleep` the
`sleep_until`; `StopZero` and `StopDisable` are `Axis::stop`, then come the two
files and the destructor (`Unwind`). An exchange is heard and answered, heard
only, or lost, and takes a time; what is read is only accepted or not. Signals
(`Interrupt`) and `Kill` come at any moment. `lostDisables` counts the disables of
`Axis::stop` and `~Axis` that were lost, and not that of the setup.

## The runs and what they show

| run | bounds | checks |
|---|---|---|
| MCObservationChannel | 2 readers, 4 frames | `NoLostWakeup`, `CursorNamesValue`, `ImplementsBroadcast` (with its liveness) |
| MCTrackingLoop | 1 follower, 1 key axis and direction, thresholds 2 and 1, ages to 3 | `NothingBridgesAPoseFault`, `HomeMeansNoTarget`, `AimOnlyWhileTracking`, `AtHomeMeansStill`, `DoneMeansStopped`, `EveryTickCommands`, `MotionStartsOnFreshPose`, `KeysActOnlyInManual` |
| MCTrackingLoopLive | no follower, no keys, stale after 1, home delay 2, ages to 3 | `ShutdownCompletes`, `TakeoverIsHonoured`, `ComesHome` |
| MCTrackingLoopStale | as MCTrackingLoop | `AimOnFreshEstimate` is violated |
| MCFilterTrack | 4 frames, 4 ticks, 1 fault, a ring of 2, gaps either side of the longest interval, a latency spread longer than a gap | `DtIsElapsed`, `FrozenBriefly`, `CompensationSpansOneHistory`, `FramePoseIsRight` |
| MCMotorBus | 2 threads, 2 gimbals, 11 calls, one drive and one limit missing | `RepliesAreMine`, `PartialFailureStops`, `LimitsAreReadInTheCall`, `ImplementsContract` |
| MCMotorBringUp | 4 drives, 2 to calibrate, 3 steps between the stops | `LimitsWithinStops`, `FailedAxesAreDisabled`, `BootLeavesStill`, `OnlyActiveMoves`, `WatchdogsAreFed`, `BringUpEnds` |
| MCMotorBringUpLossy | the same with writes that can be lost | `FailedAxesAreDisabled` is violated |
| MCRecorders | telemetry: rings of 2, 4 records of each kind; trace: 2 pads, a vector of 2, 4 events | `ClosedMeansAccountedFor`, `ImplementsLog`, `CloseCompletes`; `CountersAccountForRows`, `TraceCloses` |
| MCLifecycle | 2 cameras, 1 leader, 2 signals | `SourceIsAlive`, `TimelyStopCompletes` |
| MCLifecycleStop | as MCLifecycle | `StopEndsPipelines` is violated |
| MCStandalone | actuators: 2 pulses, exchanges of up to 2 ticks or too long, sample gap 6; focal: 2 cameras, 3 targets; configuration: 4 groups, 5 values of `follow=` | `ReactionIsBounded`, `RunEndsInOrder`; `AxisIsLeftStopped`; `EveryGimbalHasOneDriver`, `GoodFollowsAreKept` |

The type invariants of the modules with proofs are theorems and not in the runs.

### Why the bounds are enough

- *Channel.* Two readers are the least that a notification to one of them can
  strand; a reader's state is relative to the newest publication, so four
  publications give every combination of a reader being current, one behind, and
  several behind, with a publication under way. The proofs drop the bound.
- *Tracking loop.* The decision compares an age with two thresholds. The safety
  run takes the home delay below the stale limit (1 and 2), the harder order: the
  delay can run out while the estimate is still young. The live run takes the
  shipped order (450 ms and 500 ms in `config/system.ini`, here 1 and 2). Ages
  beyond both thresholds are not told apart by the code, so a cap of 3 loses
  nothing. Followers do not act on one another, so one shows what any shows; the
  theorems are for any number and any thresholds. The two key axes have the same
  code. The live run has no follower to keep the fairness check small; its
  properties are about the leader.
- *Motor bus.* Two threads are the least that can collide. The positions are
  either side of the limits and at them, the calls are chosen so that a clamp, a
  limit, an arrival, a correction, a feed-forward and a request that is not a
  number all occur, on a gimbal with everything and on one with a missing drive
  and no limits.
- *Bring-up.* Three steps are the shortest range that leaves room between two
  backoffs, and shorter ones occur, since an axis may stick. Two drives after and
  beside the active one are there to be fed. Every give-up limit (`MaxSamples`,
  `MaxReadErrors`, `Attempts`, `StuckSamples`, `SettleSamples`) is small enough to
  be reached, and `MaxSamples` large enough for a whole sweep.
- *Filter and clock.* Frames 150, 190 and 230 units apart, the longest interval being
  200: the first two snap to one period and the third restarts the clock. With
  latencies of 30 and 280 a late frame comes after the next was exposed, so a restart
  can set the clock behind itself. Four frames are learn, off-period, restart and one
  more; a ring of two wraps in four ticks. The steps are capped at 100 and a track
  coasts for 150, so both limits are met. The proofs drop all of these.
- *Telemetry and trace.* Twice as many records as slots: full, drop and wrap-around
  occur. Two pads share one trace, the least that can interleave.
- *Configuration.* Four gimbals allow a chain of followers in both directions and a
  cycle; the values name nobody, the first, the third and the fourth gimbal, and the
  second as 65538, which narrows to 2. The proofs are for any file.
- *Focal calibration.* Three targets of the sweep's; no step depends on their number.
- *Lifecycle.* Two cameras, because one's loop can dispatch the other's bus
  message; two signals, because a second one rescues a lost first.

CHECK_DEADLOCK is off where the program ends: bring-up, recorders, lifecycle, the
stand-alone programs; and in MCFilterTrack, where frames and ticks run out.

### Fairness

- *ObservationChannel*: weak fairness of `Notify` and of a reader's own steps. A
  producer that has unlocked goes on to `notify_all`; the mutex is free between
  steps. Nothing is assumed of timeouts: a wake-up must come from the producer.
- *TrackingLoop*: weak fairness of the thread (the scheduler runs it, the wait is
  bounded by a tick, an SDK call returns) and of the clock; strong fairness of
  `Arrive`, the one physical assumption: a gimbal sent home again and again gets
  there and has its zeros confirmed once. Only `ComesHome` needs it. Camera,
  operator and signals may stay silent for ever.
- *MotorBringUp*: weak fairness of the one thread. *TelemetryLog*
  and *RunTrace*: of the writer, whose wait has a timeout, and of the join. Nothing
  is assumed of the producers.
- *Lifecycle*: every thread that can step does; strong fairness for a pipeline,
  which may have to wait for `source_mutex` between probes and commands that hold
  it briefly about once a second.
- *Actuator calibration.* Two pulses give both signs, a first and a last. Two reads
  and a write, all at the I/O limit, just fit the sample gap, so a cycle can pass or
  miss every deadline; one tick beyond a limit stands for any overrun, since every
  check only compares. The proofs drop the bounds.

## Where the code and its documentation differ

1. `MCTrackingLoopStale`. `tools/REPLAY.md` (lines 90-91): "Filtered aiming
   requires an estimate with age strictly less than 45 configured ticks." In
   manual mode `step_control` sets the last-detection time to now on every tick
   (`control_state.cpp:16`) so that the home delay runs from leaving manual; the
   same variable guards aiming. If frames stop, or only untimely ones come, the
   estimate stays; on return to auto it is aimed at however old it is.
2. `MCLifecycleStop`. `inference_rgb.h:9`: "Blocks until EOS, an error or
   stop_pipeline_rgb()". A stop before the loop exists does nothing, and one
   before `g_main_loop_run` is undone by it; `main` then waits for ever unless a
   second signal comes. `TimelyStopCompletes` shows the rest of the shutdown is
   right: when the last stop found each pipeline in its loop or later, the
   program ends.
3. `MCMotorBringUpLossy`. `candle_motor.h:53`: "Failed axes are left disabled."
   The result of `md->disable()` is ignored in `calibrate_axis` and `arm_drive`.
   With writes that are never lost the claim holds (`MCMotorBringUp`).

Met while modelling and seen at a glance, so without a run of their own:

- `motor_result.h:52` says the stop writes are attempted after a home arrival;
  `drive_to_locked` makes the arrival's zeros the command itself and the stop fields
  stay `NotAttempted`. The gimbal is held all the same.
- `config.h:142`: "Missing or invalid values fall back to defaults." `read_uint` casts
  the integer to the setting's type instead (`config.cpp:32`): `manual_timeout_ms=-5` is
  65531, and with `follow=65538` gimbal 1 follows gimbal 2. What is not a number does
  fall back. The properties of Configuration are of the value the cast leaves: such a
  file, too, gives every gimbal one driver, but none of them says it is followed rightly.
- `config.cpp:302`: "Distinct default IDs per gimbal, tilt 2 above pan." The default
  tilt of one gimbal is the default pan of the next.
- The correction of `follow=` depends on the order of the groups: with `can_1`
  following 2 and `can_2` following 9, both are cleared, `can_1` because `can_2` was
  not corrected yet. `EveryGimbalHasOneDriver` holds in every order.
- A camera of the focal calibration whose `auto_expose` throws after it changed the
  exposure is not in `cams` yet, and its exposure stays as it is.

## What is proved

Eight modules of proofs, for all constants that satisfy the assumptions of the modules
they extend: any set of readers, followers, axes, threads, calls, cameras or kinds of
record, any thresholds, capacities, gaps and latencies, any cap above the thresholds.
Nothing is assumed of finiteness. The assumptions are `BoundAssumption`,
`ManualAssumption`, `ControlAssumption` and `LoopAssumption`; `PlanAssumption`, the
timing rules of `parse_plan`; `ClockAssumption` and `FilterAssumption`; `BusAssumption`,
`BringUpAssumption`, `CapacityAssumption` and `SignalAssumption`. The theorems about the
configuration assume `FileOK` themselves: the values in a file are integers. Four of the
five about bring-up assume `~Lossy`, that a write which is sent is obeyed: without it
`FailedAxesAreDisabled` is false (see above), and an axis thought at rest may not be.
RecordersProofs and StandaloneProofs prove about several modules, and extend the MC module
that runs them side by side; none of what that module gives as constants is used.

| theorem | says | rests on |
|---|---|---|
| `ObservationChannelProofs!TypeCorrect` | types; a filled slot holds the newest value | itself inductive |
| `CursorCorrect` | `CursorNamesValue` | `TypeOK` |
| `WakeupCorrect` | `NoLostWakeup` | inductive: whatever makes a waiting reader's predicate true sets `notifying`, and only `Notify`, which empties the wait set, clears it |
| `RefinesBroadcast` | the channel implements the broadcast's safety part | `TypeOK`, `CursorNamesValue`; one step simulation per action |
| `TrackingLoopProofs!TypeCorrect` | types | lemmas on `StepControl`, `Sum`, `Send` |
| `PoseFaultCorrect` | `NothingBridgesAPoseFault` | `FilterShape` |
| `HomeCorrect`, `AimCorrect`, `ArrivalCorrect`, `UnfilteredAimCorrect` | `HomeMeansNoTarget`, `AimOnlyWhileTracking`, `AtHomeMeansStill`, and that an unfiltered aim has this tick's detection | `HomeInv` |
| `DoneCorrect`, `TickCorrect` | `DoneMeansStopped`, and the action property `EveryTickCommands` | `CommandInv` |
| `FreshPoseCorrect`, `KeysCorrect` | the action properties `MotionStartsOnFreshPose`, `KeysActOnlyInManual` | `MotionInv`, and which steps can move a gimbal (`MotionComesFromACommand`) |
| `FilterTrackProofs!TypeCorrect` | types of the clock and the filter | lemmas on `AdvanceCaptureClock` and `Step` |
| `ElapsedCorrect`, `FrozenCorrect` | `DtIsElapsed`, `FrozenBriefly` | `TimingInv` |
| `CompensationCorrect` | `CompensationSpansOneHistory` | `PoseInv` |
| `FramePoseCorrect` | the action property `FramePoseIsRight` | `RingInv`, and that `AngleAt` computes `Reference` (`AngleIsReference`) |
| `MotorBusProofs!TypeCorrect`, `RepliesCorrect`, `LimitsCorrect` | types, `RepliesAreMine`, `LimitsAreReadInTheCall` | `BusInv` |
| `FailureCorrect` | `PartialFailureStops` | `EffectInv` |
| `ContractCorrect` | `ImplementsContract`: MotorBus implements MotorContract | `BusInv`, `EffectInv`; one step simulation per action |
| `MotorBringUpProofs!LimitsCorrect` | `LimitsWithinStops`, whatever writes are lost | `StopsInv` |
| `FailedCorrect`, `BootCorrect` | `FailedAxesAreDisabled`, `BootLeavesStill` | `RestInv` |
| `MoveCorrect`, `WatchdogCorrect` | the action properties `OnlyActiveMoves`, `WatchdogsAreFed` | `RestInv`; only a wait moves a drive or ages a watchdog |
| `RecordersProofs!TypeCorrect`, `ClosedCorrect` | types of telemetry, `ClosedMeansAccountedFor` | `AccountInv` |
| `LogImplemented` | the safety part of `ImplementsLog` | `AccountInv`; one step simulation per action, with lemmas on what a ring holds after a push and a take |
| `CountersCorrect` | `CountersAccountForRows` | `TraceInv` |
| `LifecycleProofs!SourceCorrect`, `TypeCorrect` | `SourceIsAlive`; types | `AliveInv` |
| `StandaloneProofs!DriverCorrect`, `FollowCorrect` | `EveryGimbalHasOneDriver`, `GoodFollowsAreKept` | `PassInv` |
| `TimeoutCorrect` | `TimeoutIsUsable`: what passes the guard is positive and fits its type | `FileInv` |
| `TypeCorrect` | types of a calibration run; the setup sequence is not read beyond its end | itself inductive |
| `ReactionCorrect` | `ReactionIsBounded` | `Reacting`: in the loop the accepted position is as old as the cycle |
| `EndCorrect` | `RunEndsInOrder` | `EndInv` |
| `AxisCorrect` | `AxisIsLeftStopped` | `AxisInv` |

The inductive invariants, and why they are needed.

- `FilterShape` (tracking loop): the loop's estimate exists exactly while the filter
  has a track, the overlay's slot follows it, and a frame is filtered only under a
  usable pose. Without the first part nothing excludes an estimate that outlives its
  track.
- `HomeInv` joins three properties that are inductive only together. That the gimbal is
  aimed only in phase Tracking does not follow from the decision, which never looks at
  the phase, but from `HomeMeansNoTarget` in the state before; that one is kept because
  a young estimate comes back only with a sighting or a spell of manual mode, both of
  which put the phase back to Tracking, and ages only grow otherwise; and
  `AtHomeMeansStill` needs to know what the leader's action can be in a tick that starts
  at home (`LeaderShape`).
- `CommandInv`: whoever is not among those still to be driven has been commanded in this
  tick, and an aim with the filter has an estimate, so the branch that would command
  nobody is not taken.
- `MotionInv` has three parts. From the check after the wait to the end of the tick, a
  usable pose is one that was read and young then (`PoseWasYoung`); a decision by which
  anything moves was taken on a usable pose, followers included (`MotionNeedsPose`); and
  an axis with a direction has it from a key of the spell of manual mode that lasts
  (`KeysAreOfThisSpell`), because `set_mode` clears both axes whenever the mode changes
  and `move` does nothing in auto. With the last part a mode switched between the two
  locks, once or to auto and back, cannot bring back an old key.
- `TimingInv`: the filter's last frame is the one it stepped on, its cursor lies between
  that frame and the newest, and the capture clock of a stamping source is ahead of the
  exposure by no more than the latency and what snapping added. Within a stretch of
  frames timed by their stamps capture and exposure advance in proportion
  (`SameStretch`), and across one restart the clock has lost at most that lead
  (`NextStretch`). An interval is snapped only to a period within a quarter of it, and
  the period moves a twentieth of the way first: that is where the third comes from.
- `RingInv`: the ring read backwards from its next write is the end of the trail of samples
  (`Mirrors`), and each sample was taken after the one before. A push ages every slot by
  one, over wrap-around (`PushAges`); a reset empties both and leaves the slots. With the
  times falling by age, the first sample that a search from the newest finds is the extreme
  one that `Reference` asks for.
- `BusInv`: a thread inside a call holds the lock (`Exclusive`), the wire carries nothing
  but its one request (`Wire`), and its locals say what each stage has done
  (`Bounded`): an axis whose limit was passed has a position read in the call.
- `EffectInv` says what the drives of a gimbal do at each stage of the call at work on it:
  as before the call up to the limits, told what the call wrote axis by axis, pan first,
  or stopped but for what could not be confirmed; and a missing drive never moves. At the
  end of the call that is what `PartialFailureStops` and MotorContract say of the whole;
  the refinement maps the motion of a gimbal a call is at work on to what it was before
  the call, so the step that ends the call is the contract's one step.
- `StopsInv`: the last reading of a sweep, and the upper barrier once it is found, are
  places the axis has been, in terms of the zero it still has. Zeroing an axis forgets its
  limits, so no limit outlives the zero it was found with.
- `RestInv`: while one axis is calibrated the others are idle or in velocity mode at zero,
  and between axes all are; an axis that failed lies behind the one in turn, so nothing
  enables it again.
- `AccountInv`: each record is in the file, in the writer's hands, in the ring or
  counted as dropped, and once the writer has seen `stop_` the rings stay empty; the
  last part needs that no `record` follows the destructor's start, as in the code, where
  telemetry outlives the threads that use it.
- `TraceInv`: rows, batch, vector and drop count add up to what was recorded; what the
  writer took covers all events up to then, so each line of counters does when it is
  written, and rows written after it came later.
- `AliveInv`: the element exists from before the pointer to it is set until after it is
  cleared, and the pointer is not cleared while the lock is held.
- `PassInv`: the gimbals the pass has been over follow nobody, or one that follows
  nobody; the others still have what the file gave them; each correction is to zero,
  which undoes nobody's, and that is why one pass is enough.
- `EndInv` follows what a calibration run knows of its drive: what `stopped` claims is
  true until the destructor, a drive still enabled has missed each disable of the end, and
  the verdict is written after both.
- `AxisInv`: `main` disables the gimbal after the motor thread has ended, whose last command
  is the zero, so an axis still driven has missed both.

Lemmas state what `StepControl`, `Send`, `Drive`, `AdvanceCaptureClock`, `Contents` and
the other operators guarantee, so that the step proofs cite facts and not definitions.

<a id="what-is-only-model-checked"></a>
## What is only model-checked, and what is not modelled

Every invariant and action property that a run checks is a theorem, and so is every
refinement but for its fairness. Liveness under fairness stays with TLC, being out of the
prover's reach: `ShutdownCompletes`, `TakeoverIsHonoured`, `ComesHome`, `BringUpEnds`,
`CloseCompletes`, `TraceCloses`, `TimelyStopCompletes`, and the fairness that
`ImplementsBroadcast` and `ImplementsLog` have besides the safety that `RefinesBroadcast`
and `LogImplemented` prove.

Abstractions a reader should know.

- Real numbers are small integers or choices: the Kalman filter, the gate, the values of
  poses and the control gains do not appear. In CaptureClock the smoothed period is
  rounded down to the unit, which the bounds of its properties leave room for.
- In TrackingLoop a pose ages from its reading to the check after the wait, pan and tilt
  as one, and later checks of it inside a motor call are among that call's outcomes; in
  MotorBus the age of a pose is a choice at its check.
- In MotorBringUp a sweep moves one step a sample, the feed is one command per wait, and
  the impedance ramp's lead is a push in its direction.
- Telemetry's stream errors are not modelled, the code ignoring them. In RunTrace, where
  the code looks at them after each batch, an error lasts to the end of its batch. A
  trace's events are numbered in the order of its lock; their times are read before it
  and may be out of that order.
- CaptureClock's frames arrive in the order of their exposure, and a source stamps all of
  them or none.
- A freed main loop (`inference.cpp:727`) is a step of its own in Lifecycle, but no
  property is stated of its use: a read of freed memory has no outcome to say it of.

What the models say beyond their properties. `ReactionIsBounded` holds with three
exchanges and fails with one tick less, while the guard distance of
`actuator_calibration.cpp:350` counts the sample gap and two: the zero write comes after
the two reads that notice. `ACTUATOR_CALIBRATION.md` leaves the stopping margin to the
operator, who has to find the third exchange in it. (There the code between two SDK calls
takes no time; the operating system may delay only the end of a sleep.) A stamp gap of
half a second or more makes the clock fall back to the arrivals, whose difference is
short when late frames catch up, and then the filter is stepped by less than the time
that passed; `DtIsElapsed` is stated for the frames where this did not happen, and
`FrozenBriefly` for what follows it. The cap of 0.25 s on a step (`target_filter.cpp:261`)
makes a track coast longer than its limit when frames are slower than that. In the focal
calibration, rows go on being written after a settling timeout, with the pose as it is.

Not modelled, and why: the aiming laws, two stateless formulas over real numbers; the
arithmetic of the Kalman filter and of the pose projection, for the same reason; the
choice of the video encoder and the building of the GStreamer graph, which are calls into
libraries without state of the program's own; the drawing on frames; the sensor's packet
decoding, whose result is only logged; the remaining keys of the configuration, each read
into a field with no rule between them; the replay tool, a sequential driver of code that
is modelled; the offline Python scripts, which are no part of the running system; vendored
parsers and model files.

## Plan

Done, in the order of importance: the channel; the tracking loop with its decision and
operator; the motor bus; bring-up; telemetry; the lifecycle; the actuator calibration; the
frame timing with the filter's frames; the run trace; the configuration's followers; the
focal calibration.

What is left of the system has no state, order or failure that a model of this kind could
tell apart (see above). What would still be worth proving joins modules: that a step of
FilterTrack is, as far as the track goes, one of the cases of TrackingLoop's `StepFilter`;
that what MotorContract allows a call leaves a gimbal in one of TrackingLoop's `Outcomes`;
and the invariants behind `TimelyStopCompletes` and `CloseCompletes`, of which only the
temporal half needs TLC.
