# A verification of the Blink battery benchmark

This directory holds TLA+ specifications of the program, the TLC configurations
that check them on small instances, and TLAPS proofs of their main theorems.
Paths are relative to the repository; `experiment.py` and the like stand for
`src/blink_dashboard/experiment.py`.

The program measures how a Blink camera's battery behaves under four tests, one
after the other: three that request snapshots at an interval and one that keeps
a live stream open. Between two tests the camera rests. A low-battery reading
ends a test and begins a full rest. The program is meant to run for days, over
manual stops, crashes and reboots.

## 1. Inventory

| Component | State it keeps | Operations | Interacts with |
|---|---|---|---|
| **Experiment runner** `experiment.py` | the latest run (copy of its row), `_generation`, the runner task, `_phase_id`, `_active_anchor`, `_outage_started`, the stream outage clock, pending stream seconds, bytes, reconnections and errors | the controls `start stop restart continue_after_low_battery`, `initialize`, `shutdown`, `get_status`; the loops `_run_snapshot`, `_run_stream`, `_run_recovery`; the stream callbacks | storage (each call a transaction), backend (awaited calls, a stream task with callbacks) |
| **Storage** `storage.py` | SQLite tables runs, phases, measurements, events; schema version | `create_run update_run begin_phase end_phase open_phase`, `_migrate`, appends and queries | runner, dashboard |
| **Configuration** `config.py` | immutable values | `load_config` | all |
| **Schedules** `experiment.py:93-109, 1204-1207` | next deadline | `due`, `advance_after_attempt`, `_advance_deadline` | the loops of the runner |
| **HLS consumer** `media.py` | reader, writer, FFmpeg process, last data | `run`, `stop`, `_recover_after_failure` | runner callbacks, adapter's TCP port, FFmpeg |
| **Adapter** `blink_adapter.py`, `adapter_main.py` | Blink session, camera, live stream, feed task, list of clients, stream lock and operation lock | `snapshot battery stop`, `_handle_client`, feed callbacks | Blink cloud (blinkpy), HTTP of the dashboard, HLS consumer |
| **Authentication** `blink_adapter.py:79-377` | credentials, chosen camera | `authenticate_blink persist_authentication select_camera` | secret store, console |
| **Secret store** `secret_store.py` | one encrypted file | `load`, `save` (write, fsync, replace) | authentication |
| **Adapter client** `clients.py` | one HTTP session | `health snapshot battery`, each with a timeout | adapter |
| **Dashboard** `app.py`, `__main__.py` | the objects above | HTTP controls and status, start and stop order | runner, client |
| **Supervisor** `supervisor.py` | adapter process, dashboard token | `managed_adapter wait_for_adapter stop_process load_or_create_dashboard_token` | adapter process |
| **Front end** `static/app.js` | last status | poll, render, controls | dashboard |

What is hard here:

* *Suspension.* Everything runs in one asyncio loop. A method named `..._locked`
  has no `await`, so it is indivisible, but between two of them any control,
  callback or task may run. The runner defends itself with a generation number
  that every control increments and every task compares after each await.
* *Cancellation.* A cancelled task ends later than the control that cancelled it,
  in particular a stream task, whose `finally` awaits its socket and FFmpeg.
* *Crashes.* Every storage call is a transaction of its own, so one section of
  the runner commits up to six of them, and a crash may come after any.
* *Time.* Elapsed time, the outage and the rest are each split between a durable
  part, a wall-clock instant and a monotonic instant; stops, closures and crashes
  must convert between them without counting an interval twice or losing it.
* *Failures.* Reads and captures fail or time out, a stream ends, errs or stays
  silent; the limits on how long this may last must neither be missed nor reset.

What makes each component correct: the runner never skips, repeats or shortens a
test or a rest by itself, obeys a manual stop, and keeps its phases in agreement
with its state; the storage never shows a half-made row and migrates once; the
schedules never queue missed ticks; the HLS consumer has at most one connection
and one FFmpeg in use, and ends those of the past; the adapter has one live view,
for all its clients and only while it has any; authentication never persists less than it learnt; the secret
store holds the old or the new secret; the supervisor leaves no process behind.
`PROJECT.json` lists, under "hazards", the lines where each of these may go wrong.

## 2. The modules

### Experiment.tla: data and sections

A state of the experiment is a `Disk` (the latest row of `runs` and its
`phases`) and a `Memory` (the attributes of `ExperimentRunner`). Each `..._locked`
method is an operator from *section* to section; a section is the rows, the
memory, and `log`, the rows after each transaction already committed. So an
operator says at once what its method does and in which order it commits.

| Code | Model |
|---|---|
| `state`, `current_test_number`, `stop_reason` | `state`, `test`, `reason` and `origin` (the state inside `manual:<state>`) |
| `active_elapsed_seconds` | `elapsed` |
| `phase_deadline_at_utc` | `deadline`: what remains of it |
| `stream_outage_seconds/_active/_checkpoint_at_utc` | `outSeconds`, `outActive`, `outChecked` (the age of the checkpoint) |
| rows of `phases` | `open` (open rows by test and kind), `finished` (final outcomes by test), `orphans` (open rows of earlier runs) |
| `_active_anchor`, `_outage_started`, `_stream_outage_started`, `_last_stream_bytes_at` | their ages `anchor`, `outage`, `outStarted`, `lastBytes` |
| `_pending_stream_valid_seconds` | `valid` |
| runner tasks, also cancelled ones | `task[g]`: where the task of generation g waits |
| requests inside `continue_after_low_battery` | `call[c]`: the generation they started in |

Instants are ages and remainders, so no clock grows without bound. Each age
saturates at the threshold the code compares it with; beyond it no decision
depends on its value, so saturation hides nothing.

### ExperimentRunner.tla: the runner

An action is the code from one suspension point to the next. `Atomic(s, p)` says
what becomes of its section: it commits in full, or a crash leaves the rows as
one of its transactions left them and a new process starts. Variables: `proc`,
`db`, `mem`, and four history variables that only the properties read (`worked`,
`rest`, `dark`, `torn`).

* *Task*: `Dispatch`, `Detached`; `SnapshotLoop BatteryRead BatteryFailed Attempt
  Captured CaptureFailed Checkpoint`; `RecoveryLoop RecoveryRead
  RecoveryReadFailed`; `StreamLoop StreamOutageEnds StreamFinished
  StreamBatteryRead StreamBatteryFailed StreamTaskEnded StreamExit`; callbacks
  `OnBytes`, `OnError`.
* *Controls*: `StartNew ResumeRecovery ResumeActive Stop Restart
  ContinueRequested ContinueRefused ContinueVerified Shutdown GetStatus`.
* *Process*: `Initialize`, `Exit` (an orderly exit or a crash between sections).
* *Time*: `Tick`.

The points "dispatch", "attempt" and "checkpoint" are control points at which the
code does not suspend; splitting there adds interleavings and removes none. A
cancelled task may linger at any point, and that of a stream runs its `finally`.
Poll, checkpoint and snapshot timers are not counted: each may be due or not at
every turn, which covers every interval the configuration allows.

Left out: counters, measurements, events, texts of errors, the pending bytes and
reconnections; exceptions of the storage inside a section; a configuration that
changes between processes; wall clocks that jump.

### HlsConsumer.tla: the stream client

One `HlsStreamConsumer` serves every stream task of the runner, so the fields of
one object are shared by runs that overlap: the runner starts the next run as
soon as the previous one has met its cancellation, not when it has ended.

| Code | Model |
|---|---|
| a call of `run()`, a call of `stop()` by the application | `pc`: the await it is at |
| its `stop_event`; a cancellation it has not met; its runner task cancelled | `event`, `owed`, `detached` |
| `_reader` and `_writer` | `sock` (the runs whose connection is open), `writer` (whose it is that the field names) |
| `self.process`; the local `process` and `stdin` | `process`; `pipe[a]` |
| FFmpeg processes | `alive`, `fed` (stdin open), `stalled` (stdin left unread), `cut` (nobody awaits it: its cleanup was cancelled) |

* *A run*: `Turn Spawned Connected Loop Chunk Drained`; `Failed`, which stands for
  everything the loop can raise and goes into `_recover_after_failure`.
* *Cleanup* (`_close_socket`, `_stop_ffmpeg`): `CleanUp SocketClosed Flushed Reaped`.
* *Runner and application*: `Start Finish Detach Cancelled AppStop`.
* *FFmpeg*: `Exits Stalls ReadsOn`.

A cancellation may arrive at any await and more than once: a control sets the stop
event and cancels the runner task, which passes the cancellation on to the run,
again when it is already in its cleanup. `Answered` is `asyncio.wait_for`, which
up to Python 3.11 drops a cancellation that comes together with its result
(`pyproject.toml` allows 3.10). Left out: the task that reads FFmpeg's stderr,
the HLS files, and what the stream contains.

### AdapterStream.tla: the relay

`BlinkAdapter` requests a live view when the first TCP client comes and stops it
when the last one goes, all under `_stream_lock`. `queue` is that lock, first in
first out: its holder, then its waiters. `pc[c]` is the handler of connection
`c`, `feed` is `feed_task`, `clients` the list of writers, `stop` the position of
`stop()`; `peer` and `closed` say who has closed the connection, `unsent` that the
consumer stays but has stopped reading, and that its write buffer is not empty. Handler:
`Refused Accepted Requested EnsureFailed Started ReadEof Leave Left`; after a feed:
`FeedEnds CleanUp`; the end: `Stop ServerClosed Stopped`; the consumer:
`Connect HangUp Stalls ReadsOn`. `waits`, chosen once, is the version of Python: from
3.12 on `Server.wait_closed()` waits for the connections too; before, it does not even
suspend `stop()`.

`writer.close()` ends a connection only when what was written has been sent (`Lost`):
until then neither the handler's `read()` nor `writer.wait_closed()` returns, which the
handler awaits with the lock in its hand (`Leave`, then `Left`). Only a live feed fills
a buffer; what it may relay in the few turns of the event loop before its start returns
is too little for that. Left out: `snapshot()` and
`battery()`, which share no state with the relay but the operation lock, the
session, and HTTP.

### ExperimentLifecycle.tla: the promise

What the user is promised, in three variables (`phase`, `test`, `paused`) and
without timers, tasks, transactions or processes. `ExperimentRunner` implements it
under `PhaseOf` and `PausedOf`, which read the row of the run alone: so the promise
is about what is *committed*, and a crash must leave a row that the promise allows.

| Abstract step | Code |
|---|---|
| `Begin`, `Resume` | `start`, from a new run or from what `stop` interrupted |
| `Finish`, `Lower` | `_finish_active_locked`, `_transition_low_battery_locked` |
| `Advance` | `_advance_after_recovery_locked` |
| `Hold`, `Fail`, `Restart` | `stop`, `_transition_error_locked`, `restart` |
| `FinishFailed` | a snapshot test that has failed for good as its time passes: the loop goes on and finishes it (finding 2) |
| `Skip` | a `continue_after_low_battery` that is answered late (finding 1) |
| `TornRestart` | a crash inside `restart`, between the old run and the new one |

There is no step for a crash, a stop of the process or a new start of it: they
change nothing of what is promised. The last three rows are what the code does
beyond its documentation; without any one of them TLC refutes the refinement. Since
`Skip` may happen at any time, the refinement alone does not say that a timer leaves no
test before its end and its rest: `NoTestSkippedByTimer` and `RecoveryIsFull` do.

### SnapshotTimers.tla: the schedules

The loop of a snapshot test in whole units of time from the start of the phase:
its four deadlines (`due`), its point (`at`), the clock (`now`). `Advanced` is
`SnapshotSchedule.advance_after_attempt` and `_advance_deadline`, `WakeTime` the
earliest deadline, and `Top Polled Request Captured NoRequest Records Sleep` one turn
of the loop. A call lasts 0 to `MaxCall`, the loop wakes 0 to `MaxLate` late.
Left out: fractions of a unit and their rounding, and that a checkpoint itself takes
time. `ExperimentRunner` leaves open *when* a timer is due, and so covers this module's
timing too; this one says when.

### AdapterProcess.tla and Launch.tla: the processes

`AdapterProcess` is the adapter from its start until it serves, and its end: signing
in with a saved session or with a first sign-in, choosing the camera, saving both, and
binding two ports. `SecretStore.save` is three steps (create, flush, replace) with a
crash or a refusal between any two, also from Blinkpy's token callbacks.

| Code | Model |
|---|---|
| `auth.dpapi`; the temporary file of a save | `file`: nothing, a part, or the camera of its payload; `temp` |
| where the adapter is; `camera_state["value"]` | `adapter`; `chosen` |
| the ports | `http`, `tcp`: the adapter that listens |

`Launch` composes it with the launcher: is there a dashboard, start the adapter, wait
for it, open the database and migrate it, start the experiment, serve, take it all
down. Its variables are `launch` (where each launcher is), `dash` (the dashboard's
port), `version` and `columns` (what the schema says, and has). `LauncherStep` is
what a launcher does by itself, `UserStep` the user (a launch, Ctrl-C, a kill),
`ChildStep` the adapter. There are several launches at a time, as an impatient user
makes them, and adapters that killed launchers left behind; all share the store, the
database and the ports. Left out: the token for LAN mode, the browser, a second
Ctrl-C during the shutdown and a first one during the end of a failed setup, which
skips the rest of it (both are kills), and what a race of two
`create_run` leaves.

### The proofs

`ExperimentProofs`, `ExperimentRunnerProofs`, `LifecycleProofs` and `ClockProofs` (each
extends the one before), `HlsConsumerProofs`, `AdapterStreamProofs`,
`SnapshotTimersProofs` and `LaunchProofs` hold the theorems, see section 5.

### How they fit together

`ExperimentRunner` uses the operators of `Experiment` and implements
`ExperimentLifecycle`; `Launch` extends `AdapterProcess`. The runner's stream task waits for
`run()` and takes its callbacks and its end as events that may come at any time,
in every order; `HlsConsumer` takes the controls of the runner likewise, and the
adapter's port as a connection that may be refused or lost; `AdapterStream` takes
its consumers as connections that come and go. `Launch` begins and ends what the
others describe: its states `bind`, `serving` and `cleanup` are an `ExperimentRunner`
with `proc = "up"`, its adapter at `serving` and `stopping` an `AdapterStream`. So each is checked against more
behaviours than its neighbours have, and no property needs two of them at once.

## 3. The runs

| Run | Instance | Shows |
|---|---|---|
| `lifecycle` | 3 tests of 2, rests of 2, a fatal outage of 2, a data timeout of 1, one request, one control that detaches per process | `TypeOK PhaseLedger RecoveryHasDeadline RunnerPresent ElapsedIsActiveTime OutageNeverOvercounted ImplementsLifecycle RecoveryIsFull NoTestSkippedByTimer ManualStopSticks` |
| `progress` | 2 tests of 1, a fatal outage of 2, no requests, fair | `SnapshotTestEnds RestEnds SilentStreamEnds` |
| `timers` | intervals 3, 5, 4, 6, a test of 25, calls up to 7, up to 2 late, fair | `TypeOK PollIsPrompt EndIsPrompt NoCatchUp TestEnds` |
| `hls` | two runs, the application, two FFmpeg processes, fair | `TypeOK OneStreamClient OneFfmpegIsFed NoStrayFfmpeg StopEnds FailureIsRetried` |
| `adapter` | two consumers, fair | `TypeOK NoIdleFeed HandlerEnds StopEnds` |
| `launch` | two launches, two cameras, databases of versions 0 to 4 | `TypeOK StoreReadable SchemaAgrees NoAdapterLeftBehind CameraRemembered` |
| `launch_progress` | two launches, one camera, a current database, fair | `OverlapEnds StopEnds` |
| `continue_race`, `error_stop`, `torn_finish`, `torn_start`, `adapter_served` | as small as the counterexample allows | the five disagreements of section 4 |

*Bounds.* `LastTest` 2 has one test of each kind and one rest; 3 adds a rest
between two snapshot tests. A duration of 2 has a checkpoint that is neither the
first nor the last; a fatal outage of 2 is longer than the data
timeout of 1, so that an outage can begin late, be checkpointed and go on.
`MaxGeneration` bounds the controls that detach *in one process*: a process that
has used them up still crashes and starts anew with generation 0, so every run
has unboundedly many stops, restarts and shutdowns. With `MaxGeneration = 1` a
cancelled task and its successor overlap. A stop and a restart of one process are
then in different processes; a second cancelled task in one process would add only
that two tasks end at their own pace, neither of which may touch the row
(`ManualStopSticks` fails for one of them as soon as for two).
One caller suffices for a pending request; two would race only for the
generation, and the first to increment it refuses the other.

In `timers` the intervals share few multiples, so that the deadlines come in many
orders, a call may outlast any of them, and the test is several of each long. In `launch` two launches race for every port, file and version; a third
would wait behind them, and the theorems hold for any number.

In `HlsConsumer` a run that has ended may be called again, so two names give
any number of runs one after the other, of which two overlap: a third starts
only when the first two have both met their cancellation, and then takes the
part the first had (the theorems hold for any number). `Procs` bounds the FFmpeg
processes that live at the same time; two are the one in use and one that is
being ended, and an FFmpeg left by a cleanup that was cut short is one of the two.
In `AdapterStream` a connection that has ended may be made again too; two of them
suffice for one that arrives while another leaves, fails or starts the feed.

*Fairness.* `WF(Tick)`: time passes. `WF` of the step of each task: the event
loop runs what is ready, and every backend call ends, since `clients.py` gives
each a timeout (a failure is a step as good as a success). `SF` of a recovery
poll that reads "not low": the one assumption about the world, without which a
recovery rightly lasts for ever. No fairness for controls, crashes, bytes or
errors. The liveness runs leave out pending requests (`Callers = {}`).

In `timers`: `WF(Next)`, as the client's timeouts end every call. In
`launch_progress`: `WF` of each launcher's own steps, among them the kill of an adapter
that has not ended in 8 seconds. `runner.cleanup` has a timeout; that `services.stop`
ends is assumed there, and `StopEnds` of `hls` says on what this depends. No fairness
for users, adapters and Blink.

In `hls`: `WF` of the steps of each run, of its cancellation and of the cleanup by
the application, as the event loop runs what is ready and reads, connections,
pauses and the wait for the end of FFmpeg have timeouts (the last one ends in
`kill`). `stdin.drain()` and `stdin.wait_closed()` have none, so nothing is
assumed of an FFmpeg that does not read: `StopEnds` says that this alone may hold
a run. In `adapter`: `WF` of each handler, of the cleanup and of `stop()`; the
start of a feed has a timeout. A consumer need not read, so the close of a connection
may last for ever, and the properties name that case. No fairness for consumers, feeds, FFmpeg or calls.

*Deadlock* is checked in the runs of `ExperimentRunner`, where time always passes, of
`SnapshotTimers`, where the end of the test stutters, and of `Launch`, where
the user may always launch again. In `hls` and `adapter` it is not: after `stop()` the system really stops,
and the liveness properties say that it does not stop before.

## 4. Where the code disagrees with its documentation

1. **`continue_race`.** `continue_after_low_battery` checks the state, awaits a
   battery read, and re-checks only run id and generation. The runner itself may
   meanwhile have ended the rest and begun the next test in the same generation:
   the request then ends that test as "continued_early" and skips it.
   `docs/API.md:115`: "Available only after a low-battery stop."
2. **`error_stop`.** `_capture_snapshot` drops the result of
   `_note_failure_locked`: after the failure that stops the run, the snapshot
   loop goes on capturing, and at the end of the test's duration even finishes
   it and begins its rest (`FinishFailed` of `ExperimentLifecycle`). `static/app.js:54`: "Camera activity stopped".
3. **`torn_finish`.** The end of a test commits the phase and the run apart. A
   crash in between lets the next process end the test again.
   `storage.py:128`: "atomic state transitions".
4. **`torn_start`.** `start()` commits the running state before the restored
   outage. A crash in between makes the next process count the manual stop as an
   outage. `tests/test_experiment.py:632`: "manual-paused time is intentionally
   excluded". `OutageNeverOvercounted` holds whenever no such crash came before.
5. **`adapter_served`.** Only the first client in the list requests a live view. One
   that is accepted while another is still listed, although the feed of that one
   has failed or ended, has a connection and no feed, until it gives up and
   reconnects. `docs/ARCHITECTURE.md:98`: "Stream phase causes the media consumer to
   connect to adapter TCP; the adapter requests live view and emits MPEG-TS."

Three more behaviours are in the models and their properties say exactly how far
they go, but no document promises otherwise. A cancellation that hits the cleanup
of a stream run leaves its FFmpeg to itself (`cut` in `NoStrayFfmpeg`), with its
stdin closed, so that it ends unless it hangs. An FFmpeg that hangs without
reading keeps `stop()` from reaching `terminate()` and `kill()` (`StopEnds` of `hls`). And
a consumer that stays connected without reading, such as the one behind that FFmpeg,
keeps its handler in the relay even after `stop()` has closed the connection; if `stop()`
came while its feed was starting (Python 3.12 and later), the handler keeps the lock as
well, and the feed goes on behind it (`KeepsLock` in `HandlerEnds`, `StopEnds` of
`adapter`). The launcher kills such an adapter after eight seconds (`Launch`).

## 5. What is proved

### The runner

For every number of tests, all durations, any set of callers and any bound on
the generations, from the assumptions named in `Experiment.tla`:

* `TypeCorrect`: `Spec => []TypeOK`;
* `LedgerCorrect`: `Spec => []PhaseLedger`;
* `DeadlineCorrect`: `Spec => []RecoveryHasDeadline`;
* `RunnerAlwaysPresent`: `Spec => []RunnerPresent`;
* `StopsStick`: `Spec => ManualStopSticks`;
* `RestsAreFull`: `Spec => RecoveryIsFull`;
* `RunnerImplementsLifecycle`: `Spec => ImplementsLifecycle`;
* `ElapsedIsExact`: `Spec => []ElapsedIsActiveTime`;
* `OutageIsHonest`: `Spec => []OutageNeverOvercounted`;
* `TimerSkipsNoTest`: `Spec => NoTestSkippedByTimer`.

With these, every safety invariant and every action property that a run of the runner
checks is a theorem.

None of these is inductive: a crash may install any row of a section's log, so
the invariant must hold of *every transaction of every section*, and a section
starts from what the previous one left in memory. The argument has four layers.

* `ExperimentProofs.tla` reasons about sections. `GoodDisk(d)`: no orphans, a
  rest has a deadline, an open phase is the only one and is that of the state.
  `Good(s)`: the rows of s and of its log are good, and exactly the phase that
  `_phase_id` names is open. `Settled(s)`: moreover that phase is the one of the
  state. A section that only keeps clocks preserves both (`Keeps`, one lemma per
  method); closing the phase makes any later change of state safe (`FreeWrite`);
  opening the phase of the state settles (`BeginActiveSettles` ...); so every
  transition settles whatever good section it starts from (`FinishActiveSettles`,
  `TransitionErrorSettles`, ...). The order of the commits is what matters here: a
  transition that changed the state before closing the phase would fail.
* `ExperimentRunnerProofs.tla` has one lemma per action or group: the step makes
  a good (in a running process settled) section, and `AtomicInv` turns it into
  the invariant for the step and for every crash in it. `IInv` is their
  conjunction with the types of the history variables.
* `LifecycleProofs.tla` follows the *face* of the run: its state, test and deadline.
  `Moves(s, t, f)`, proved of every method in `ExperimentProofs`, says that each
  transaction of the method leaves the old face or f, and that the method touches no
  task, request or generation. What remains is who may move: `ControlInv` says that no
  generation to come has a task or a request, that a run which is not started or is stopped has none
  in the current one either, and that the point where the current task waits fits the
  face (a task in a snapshot finds a snapshot test, or one that a failed capture has
  just ended). From both, every step has an `Outcome`: it `Stays`, it `Proceeds` along
  the timers, or a control did what it is for. The theorems on steps read the outcomes:
  `StopsStick` since only time, a start and a restart have one in a stopped run, the
  refinement by mapping each outcome to an action of `ExperimentLifecycle` or to none,
  and `RestsAreFull` with the invariant `RestInv` (what remains of a rest and what has
  passed of it make a full recovery, since nothing but time shortens a deadline).
* `ClockProofs.tla` follows the *time*. Each clock of the code is a sum in the rows
  and an instant in the memory: the elapsed time of a snapshot test with
  `_active_anchor`, that of a stream test with the pending seconds and the last byte,
  the outage with `_outage_started` and the checkpoint in the row. Neither half is
  right by itself, and a crash keeps the rows only, so the invariant says two things.
  `Accounted(d, w, k)` must hold of every row a transaction leaves: it claims at most
  the time `w` worked (`Timed`), an outage counts at most the silence `k`, also when
  the time since its checkpoint is added (`Counted`), and a test that is over has a
  final outcome (`Marked`). `Clocked` relates the rows *with* the memory to the same
  history variables while a process runs: in a snapshot test sum and anchor make
  exactly `w`, in a stream test they are at most `w`; the two clocks of the outage are
  one instant; and the last byte came at most `k` ago for as long as a callback of the
  stream may still use it, even after the test was stopped. Without a process, or
  while it closes, `Idle` says that the rows alone still account for it. A section that
  leaves a test must start the next from zero (`Lands`). There is one lemma per method
  and one per action; `CommitClock`, `LandedClock` and `CrashClock` turn what a section
  does into the invariant of the step and of every crash in it. `ClockInvariance` is
  the result; `ElapsedIsExact` and `OutageIsHonest` follow from it (the first with
  `ControlInvariance`, for the point where the task waits), and `TimerSkipsNoTest` from
  `Marked` and the outcome of the step that begins the next test. Where a crash tears
  a start() apart, the row still names the old checkpoint and time that passed
  in between is counted (`torn_start` shows the behaviour); `Dark` says from where on
  the invariant promises nothing about the silence.

### The stream client

For any number of runs and processes: `ConsumerTypes` (`TypeOK`), `SingleClient`
(`OneStreamClient`), `SingleFfmpeg` (`OneFfmpegIsFed`) and `FfmpegIsTended`
(`NoStrayFfmpeg`). The invariant `IInv` (`ConsumerInvariance`) rests on `Apart`: of
two runs one is `Past`, that is, it has ended or its event is set and it is at an
await behind which only its cleanup is left. A run that connects or starts
FFmpeg is not past, so there is one such run at a time. Around it: a run that
owns a socket is in its inner loop (`OwnSockets`), a run starts FFmpeg only when
none is usable (`SpawnerNeeded`), nothing follows the final cleanup
(`CleanupIsLast`), and a process that a cleanup awaits is no longer that of the
field (`PipesApart`). One lemma says that any call of the cleanup keeps all this
(`TidiesInv`), one that a mere move of a run does (`MovesInv`).

### The relay

For any number of consumers: `RelayTypes` (`TypeOK`) and `IdleFeedStops` (`NoIdleFeed`).
A feed could outlive its last client if the handler that starts it were not in the list
any more when it is ready, or if a new one came between the close of the last connection
and the stop of the feed; the invariant (`StreamInvariance`) adds `StarterHolds`: the
handler that starts a feed holds the lock throughout and is listed, and `CloserHolds`: the one
that closes its connection holds it too and is not. The two lemmas about the queue
say that a new waiter does not displace the holder, and that whoever passes the
lock on was the only one that could be starting a feed or closing.

### The schedules

For all intervals, durations and delays: `TimerTypesHold` (`TypeOK`), `PollsArePrompt`
(`PollIsPrompt`), `EndsArePrompt` (`EndIsPrompt`) and `NoSnapshotCatchesUp`
(`NoCatchUp`). The one fact about `Advanced` (its lemma) is that the new deadline is on
the grid, later than the time, and at most one interval later. The invariants say
for each point of the loop how late the clock may be there.

### The launches

For any number of launches and cameras: `LaunchTypes` (`TypeOK`), `StoreStaysReadable`
(`StoreReadable`), `SchemaStaysTrue` (`SchemaAgrees`), `LauncherCleansUp`
(`NoAdapterLeftBehind`) and `SelectionSurvives` (`CameraRemembered`). The invariant
(`LaunchInvariance`) adds what the processes *know*: who is about to migrate knows a
version that is not newer than the database, so that a migration that has become
superfluous fails instead of setting the version back; who replaces the store has
flushed its file; and an adapter that will save while it is the only one ever started
remembers the camera that is in the file.

### Only model-checked

Every safety invariant and action property of the passing runs is a theorem. What stays
with TLC is liveness, since fairness and ENABLED are out of the prover's reach:
`SnapshotTestEnds`, `RestEnds`, `SilentStreamEnds` (runner), `HandlerEnds` and `StopEnds`
(relay), `StopEnds` and `FailureIsRetried` (stream client), `TestEnds` (schedules),
`OverlapEnds` and `StopEnds` (launches). The runs that expect a violation refute on
small instances what no theorem could state.

## 6. Not modelled, and the plan

* Exceptions of the storage inside a section (a locked database, an empty event
  message), which leave a section half done in a process that lives on; no document
  says what should remain.
* The counters of the stream, events and measurements: no decision of the program
  reads them. `restart` does not clear the pending ones (see the hazards).
* `operation_lock` of the adapter: `snapshot` and `battery` take turns, and keep no
  state. `clients.py`: an answer, an exception or a timeout, as `ExperimentRunner`
  takes it.
* The files of the HLS output, which two overlapping streams both write.
* The token of LAN mode, the race of two launches for the latest run (which
  `OverlapEnds` bounds in time), other programs on the ports.
* Which adapter answers a launcher: `Ready` takes any, as the code does.

Not planned: TOML parsing, JSON, HTTP routing and access control, logging, the
bootstrap script and rendering in the browser: pure functions or pure I/O.
Vendored front-end code is third-party.

What could come next: abstract specifications of the stream client and of the relay (one
stream at a time, fed until its last consumer leaves) with the refinements proved;
and the state facts on which the liveness properties rest, such as what
each waiting point of a task can be woken by, as invariants of their own.
