-------------------------- MODULE ExperimentRunner --------------------------
(***************************************************************************)
(* ExperimentRunner (src/blink_dashboard/experiment.py): one durable run,  *)
(* the background task that carries it out, the HTTP controls that         *)
(* interrupt it, and a process that may stop or crash at any moment.       *)
(*                                                                         *)
(* An action is the code between two suspension points.  It either commits *)
(* all its transactions or is cut short by a crash after some of them.     *)
(***************************************************************************)
EXTENDS Experiment

VARIABLES
  proc,    \* "down", "up", or "closing" (after shutdown)
  db,      \* the rows of the latest run, as committed
  mem,     \* the memory of the process
  worked,  \* history: the time spent in the current active phase, less what crashes lost
  rest,    \* history: the time since the run was last in an active state
  dark,    \* history: the time since the last byte of the stream test, manual stops excluded
  torn     \* history: a crash cut short the start of a stopped stream test

history == <<worked, rest, dark, torn>>
vars == <<proc, db, mem, history>>

Now == [db |-> db, mem |-> mem, log |-> {}]

\* The section x happens and leaves the process in state p, or a crash cuts it
\* short.  (\E s \in {x} has TLC compute the section once, here and below.)
Atomic(x, p) ==
  \E s \in {x} :
    \/ db' = s.db /\ mem' = s.mem /\ proc' = p
    \/ \E d \in s.log : db' = d /\ mem' = NewMemory /\ proc' = "down"

-----------------------------------------------------------------------------
(* The runner task.                                                        *)

\* Variant: a cancelled task that has not ended yet still counts as the runner.
StartRunnerOnce(s) ==
  IF \E g \in Generations : s.mem.task[g] # "none" THEN s
  ELSE [s EXCEPT !.mem.task[s.mem.generation] = "dispatch"]

StartRunner(s) ==
  IF s.mem.task[s.mem.generation] # "none" THEN s
  ELSE [s EXCEPT !.mem.task[s.mem.generation] = "dispatch"]

\* _detach_runner_locked: the task of the old generation is cancelled, and may
\* notice only later (Detached).
DetachRunner(s) == [s EXCEPT !.mem.generation = @ + 1]

CanDetach == mem.generation < MaxGeneration

\* Variant: no generation check.
OwnsAlways(g) == TRUE

\* The generation check made after every suspension.
Owns(g) == g = mem.generation

At(g, point) == proc # "down" /\ mem.task[g] = point

\* Task g runs the section s and waits next at the point.
Run(g, s, point) == Atomic([s EXCEPT !.mem.task[g] = point], proc)

\* _runner_entry, down to the first suspension of the method it selects.
Dispatch(g) ==
  /\ At(g, "dispatch")
  /\ Owns(g)
  /\ \/ /\ db.state = "running_snapshot"
        /\ IF IsOver(Now) THEN Run(g, FinishActive(Now), "dispatch") ELSE Run(g, Now, "battery")
     \/ /\ db.state = "running_stream"
        /\ Run(g, Now, "stream")
     \/ /\ db.state \in Resting
        /\ IF db.deadline = NONE THEN Run(g, TransitionError(Now), "dispatch")
           ELSE Run(g, Now, "recovery_battery")
     \/ /\ db.state \notin Resumable
        /\ Run(g, Now, "none")

\* A task of an earlier generation resumes, or its cancellation is delivered.
Detached(g) ==
  /\ proc # "down"
  /\ mem.task[g] # "none"
  /\ ~Owns(g)
  /\ Run(g, Now, IF mem.task[g] = "stream" THEN "stream_exit" ELSE "none")

-----------------------------------------------------------------------------
(* _run_snapshot.  The timers of polls, requests and checkpoints are not   *)
(* counted: each may or may not be due.                                    *)

SnapshotLoop(g) ==
  /\ At(g, "snapshot")
  /\ Owns(g)
  /\ IF IsOver(Now) THEN Run(g, FinishActive(Now), "dispatch")
     ELSE \E point \in {"battery", "attempt"} : Run(g, Now, point)

BatteryRead(g, reading) ==
  /\ At(g, "battery")
  /\ Owns(g)
  /\ IF reading = "low" /\ db.state \in Active
     THEN Run(g, TransitionLowBattery(NoteSuccess(Now)), "dispatch")
     ELSE Run(g, NoteSuccess(Now), "attempt")

BatteryFailed(g) ==
  /\ At(g, "battery")
  /\ Owns(g)
  /\ Run(g, NoteFailure(Now), IF OutageIsFatal(Now) THEN "dispatch" ELSE "attempt")

\* _capture_snapshot, up to the request, when the schedule makes it due
Attempt(g) ==
  /\ At(g, "attempt")
  /\ Owns(g)
  /\ \E point \in {"capture", "checkpoint"} : Run(g, Now, point)

Captured(g) ==
  /\ At(g, "capture")
  /\ Owns(g)
  /\ Run(g, NoteSuccess(Now), "checkpoint")

\* The caller goes on whatever _note_failure_locked returned.
CaptureFailed(g) ==
  /\ At(g, "capture")
  /\ Owns(g)
  /\ Run(g, NoteFailure(Now), "checkpoint")

Checkpoint(g) ==
  /\ At(g, "checkpoint")
  /\ Owns(g)
  /\ \E s \in {Now, CheckpointActive(Now)} : Run(g, s, "snapshot")

-----------------------------------------------------------------------------
(* _run_recovery                                                           *)

RecoveryLoop(g) ==
  /\ At(g, "recovery")
  /\ Owns(g)
  /\ IF db.deadline = NONE THEN Run(g, TransitionError(Now), "dispatch")
     ELSE Run(g, Now, "recovery_battery")

\* Variant: the recovery is over one unit of time too early.
RecoveryIsOverEarly(reading) == db.deadline \in {0, 1} /\ reading # "low"

\* Variant: only a recovery between tests ever ends.
RecoveryIsOverOnce(reading) == db.deadline = 0 /\ reading # "low" /\ db.state = "recovery"

RecoveryIsOver(reading) == db.deadline = 0 /\ reading # "low"

RecoveryRead(g, reading) ==
  /\ At(g, "recovery_battery")
  /\ Owns(g)
  /\ LET s == NoteSuccess(Now) IN
     CASE reading = "low" /\ db.state = "recovery" ->
            Run(g, TransitionLowDuringRecovery(s), "dispatch")
       [] RecoveryIsOver(reading) ->
            Run(g, AdvanceAfterRecovery(EndPhase(s, "completed")), "dispatch")
       [] OTHER -> Run(g, s, "recovery")

RecoveryReadFailed(g) ==
  /\ At(g, "recovery_battery")
  /\ Owns(g)
  /\ Run(g, Now, "recovery")

-----------------------------------------------------------------------------
(* _run_stream.  Every turn of the loop first refreshes the outage, then   *)
(* checks for a fatal outage and for the end of the test.                  *)

Turn == RefreshStreamOutage(Now)

StreamIsLive(g) ==
  /\ At(g, "stream")
  /\ Owns(g)
  /\ ~StreamOutageIsFatal(Turn)
  /\ ~IsOver(Turn)

StreamOutageEnds(g) ==
  /\ At(g, "stream")
  /\ Owns(g)
  /\ StreamOutageIsFatal(Turn)
  /\ \E s \in {Turn} : Run(g, TransitionError(s), "stream_exit")

StreamFinished(g) ==
  /\ At(g, "stream")
  /\ Owns(g)
  /\ ~StreamOutageIsFatal(Turn)
  /\ IsOver(Turn)
  /\ \E s \in {Turn} : Run(g, FinishActive(s), "stream_exit")

\* A turn with nothing due, or with a checkpoint
StreamLoop(g) ==
  /\ StreamIsLive(g)
  /\ \E s \in {Turn} : \E t \in {s, CheckpointActive(s)} : Run(g, t, "stream")

\* _consume_stream_battery_task: the poll runs beside the loop
StreamBatteryRead(g, reading) ==
  /\ StreamIsLive(g)
  /\ \E s \in {NoteSuccess(Turn)} :
     IF reading = "low" /\ db.state \in Active
     THEN Run(g, TransitionLowBattery(s), "stream_exit")
     ELSE Run(g, s, "stream")

StreamBatteryFailed(g) ==
  /\ StreamIsLive(g)
  /\ \E s \in {Turn} : Run(g, NoteFailure(s), IF OutageIsFatal(s) THEN "stream_exit" ELSE "stream")

\* backend.run_stream returned or raised; it is started again.  The outage is not fatal
\* here: if it were, the turn would have ended with that (StreamOutageEnds).
StreamTaskEnded(g) ==
  /\ StreamIsLive(g)
  /\ \E s \in {Turn} : Run(g, StartStreamOutage(s, 0), "stream")

\* The finally block: the stream task has ended.
StreamExit(g) ==
  /\ At(g, "stream_exit")
  /\ Owns(g)
  /\ Run(g, Now, "dispatch")

\* Callbacks of the stream task, which runs until the finally block has awaited it
StreamTaskAlive(g) == At(g, "stream") \/ At(g, "stream_exit")

OnBytes(g) ==
  /\ StreamTaskAlive(g)
  /\ Owns(g)
  /\ Atomic(NoteStreamBytes(Now), proc)

OnError(g) ==
  /\ StreamTaskAlive(g)
  /\ Owns(g)
  /\ Atomic(NoteStreamError(Now), proc)

-----------------------------------------------------------------------------
(* The controls and the process.                                           *)

\* initialize, in a new process
Initialize ==
  /\ proc = "down"
  /\ LET boot == [db |-> db, mem |-> NewMemory, log |-> {}]
         left == {r \in Rows : db.open[r] > 0}
         closed == IF left = {} THEN boot
                   ELSE Write(boot, CloseRow(db, CHOOSE r \in left : TRUE, "interrupted"))
         begun == CASE db.state \in Active  -> BeginActive(closed, TRUE)
                    [] db.state \in Resting -> BeginRecoveryPhase(closed)
                    [] OTHER                -> closed
     IN  Atomic(IF db.state \in Resumable THEN StartRunner(begun) ELSE begun, "up")

StartNew ==
  /\ proc = "up"
  /\ db.state = "not_started"
  /\ LET s == Write(Now, [db EXCEPT !.state = ActiveState(db.test), !.deadline = NONE,
                                    !.reason = "none", !.origin = NONE])
     IN  Atomic(StartRunner(BeginActive(s, FALSE)), proc)

ResumeRecovery ==
  /\ proc = "up"
  /\ db.state = "stopped_manual"
  /\ db.origin \in Resting
  /\ db.deadline # NONE
  /\ LET s == Write(Now, [db EXCEPT !.state = db.origin, !.origin = NONE,
                            !.reason = IF db.origin = "recovery" THEN "none" ELSE "low_battery"])
     IN  Atomic(StartRunner(BeginRecoveryPhase(s)), proc)

ResumeActive ==
  /\ proc = "up"
  /\ db.state = "stopped_manual"
  /\ ~(db.origin \in Resting /\ db.deadline # NONE)
  /\ LET s == Write(Now, [db EXCEPT !.state = ActiveState(db.test), !.deadline = NONE,
                                    !.reason = "none", !.origin = NONE])
     IN  Atomic(StartRunner(BeginActive(s, FALSE)), proc)

Start == StartNew \/ ResumeRecovery \/ ResumeActive

\* Variant: the deadline of the rest is dropped too.
StopForgetsRest ==
  /\ proc = "up"
  /\ CanDetach
  /\ db.state \in Resumable
  /\ LET s == DetachRunner(Now)
         t == EndPhase(IF db.state \in Active
                       THEN [CheckpointActive(s) EXCEPT !.mem.anchor = NONE] ELSE s,
                       "manual_stop")
     IN  Atomic(Write(t, [t.db EXCEPT !.state = "stopped_manual", !.reason = "manual",
                            !.origin = db.state, !.deadline = NONE]), proc)

Stop ==
  /\ proc = "up"
  /\ CanDetach
  /\ db.state \in Resumable
  /\ LET s == DetachRunner(Now)
         t == EndPhase(IF db.state \in Active
                       THEN [CheckpointActive(s) EXCEPT !.mem.anchor = NONE] ELSE s,
                       "manual_stop")
     IN  Atomic(Write(t, [t.db EXCEPT !.state = "stopped_manual", !.reason = "manual",
                            !.origin = db.state,
                            !.deadline = IF db.state \in Resting THEN @ ELSE NONE]), proc)

Restart ==
  /\ proc = "up"
  /\ CanDetach
  /\ LET s == DetachRunner(Now)
         saved == EndPhase(IF db.state \in Active THEN CheckpointActive(s) ELSE s, "restarted")
         closed == IF db.state \in {"completed", "stopped_manual"} THEN s
                   ELSE Write(saved, [saved.db EXCEPT !.state = "stopped_manual",
                                        !.reason = "restarted", !.origin = NONE,
                                        !.deadline = NONE])
         orphans == closed.db.orphans \/ \E r \in Rows : closed.db.open[r] > 0
         created == Write(closed, CreateRun(orphans))
         begun == Write(created, [created.db EXCEPT !.state = "running_snapshot"])
         fresh == ResetStreamTracking([begun EXCEPT !.mem.anchor = NONE, !.mem.outage = NONE])
     IN  Atomic(StartRunner(BeginActive(fresh, FALSE)), proc)

\* continue_after_low_battery, up to its battery read
ContinueRequested(c) ==
  /\ proc = "up"
  /\ mem.call[c] = NONE
  /\ db.state = "stopped_low_battery"
  /\ Atomic([Now EXCEPT !.mem.call[c] = mem.generation], proc)

\* The read failed, or was low, or the generation has changed: HTTP 409
ContinueRefused(c) ==
  /\ proc # "down"
  /\ mem.call[c] # NONE
  /\ Atomic([Now EXCEPT !.mem.call[c] = NONE], proc)

\* A fresh reading that is not low, in the generation of the request
ContinueVerified(c) ==
  /\ proc # "down"
  /\ CanDetach
  /\ mem.call[c] # NONE
  /\ Owns(mem.call[c])
  /\ LET s == EndPhase(DetachRunner([Now EXCEPT !.mem.call[c] = NONE]), "continued_early")
         t == AdvanceAfterRecovery(s)
     IN  Atomic(IF t.db.state \in Active THEN StartRunner(t) ELSE t, proc)

Shutdown ==
  /\ proc = "up"
  /\ CanDetach
  /\ LET s == DetachRunner(Now)
         t == EndPhase([CheckpointActive(s) EXCEPT !.mem.anchor = NONE], "paused_shutdown")
     IN  Atomic(IF db.state \in Active THEN t ELSE s, "closing")

\* A status request computes the outage of a running stream test, and so refreshes it.
GetStatus ==
  /\ proc = "up"
  /\ db.state = "running_stream"
  /\ Atomic(RefreshStreamOutage(Now), proc)

\* The process ends: a crash, or the exit that follows shutdown
Exit ==
  /\ proc # "down"
  /\ proc' = "down"
  /\ mem' = NewMemory
  /\ UNCHANGED db

-----------------------------------------------------------------------------
(* Time.                                                                   *)

Older(age, top) == IF age = NONE THEN NONE ELSE Cap(age + 1, top)

Aged(m) ==
  [m EXCEPT !.anchor = Older(@, TestDuration),
            !.outage = Older(@, FatalOutage),
            !.outStarted = Older(@, FatalOutage),
            !.lastBytes = Older(@, FatalOutage + 1)]

Tick ==
  /\ db' = [db EXCEPT !.deadline = IF @ = NONE \/ @ = 0 THEN @ ELSE @ - 1,
                      !.outChecked = Older(@, FatalOutage)]
  /\ mem' = IF proc = "down" THEN mem ELSE Aged(mem)
  /\ worked' = IF proc = "up" /\ db.state \in Active THEN Cap(worked + 1, TestDuration)
               ELSE worked
  /\ rest' = IF db.state \in Active THEN 0 ELSE Cap(rest + 1, RecoveryDuration)
  /\ dark' = IF IsStream(db.test) /\ db.state # "stopped_manual" THEN Cap(dark + 1, FatalOutage) ELSE dark
  /\ UNCHANGED <<proc, torn>>

\* What the history variables record of a step that takes no time
Observe(newRun, receipt) ==
  LET crashed == proc # "down" /\ proc' = "down"
      lit == (receipt /\ ~crashed) \/ ~IsStream(db'.test)
      tears == crashed /\ db.state = "stopped_manual" /\ db'.state = "running_stream"
  IN
  /\ worked' = IF db'.state \in Resting \cup {"not_started", "completed"} THEN 0
               ELSE IF crashed THEN Cap(db'.elapsed, worked)
               ELSE IF newRun \/ db'.test # db.test THEN 0
               ELSE worked
  /\ rest' = IF db.state \in Active \/ db'.state \in Active THEN 0 ELSE rest
  /\ dark' = IF lit THEN 0 ELSE dark
  /\ torn' = IF lit THEN FALSE ELSE torn \/ tears

-----------------------------------------------------------------------------
Init ==
  /\ proc = "down"
  /\ db = CreateRun(FALSE)
  /\ mem = NewMemory
  /\ worked = 0
  /\ rest = 0
  /\ dark = 0
  /\ torn = FALSE

Readings == {"ok", "low"}

SnapshotStep(g) ==
  \/ SnapshotLoop(g)
  \/ \E reading \in Readings : BatteryRead(g, reading)
  \/ BatteryFailed(g)
  \/ Attempt(g)
  \/ Captured(g)
  \/ CaptureFailed(g)
  \/ Checkpoint(g)

RecoveryStep(g) ==
  \/ RecoveryLoop(g)
  \/ \E reading \in Readings : RecoveryRead(g, reading)
  \/ RecoveryReadFailed(g)

StreamStep(g) ==
  \/ StreamOutageEnds(g)
  \/ StreamFinished(g)
  \/ StreamLoop(g)
  \/ \E reading \in Readings : StreamBatteryRead(g, reading)
  \/ StreamBatteryFailed(g)
  \/ StreamTaskEnded(g)
  \/ StreamExit(g)

\* What the event loop schedules of task g
TaskStep(g) ==
  \/ Dispatch(g)
  \/ Detached(g)
  \/ SnapshotStep(g)
  \/ RecoveryStep(g)
  \/ StreamStep(g)

Control ==
  \/ Start
  \/ Stop
  \/ Shutdown
  \/ GetStatus
  \/ \E c \in Callers : ContinueRequested(c) \/ ContinueRefused(c) \/ ContinueVerified(c)

Next ==
  \/ Tick
  \/ (\E g \in Generations : TaskStep(g) \/ OnError(g)) /\ Observe(FALSE, FALSE)
  \/ (\E g \in Generations : OnBytes(g)) /\ Observe(FALSE, TRUE)
  \/ (Control \/ Initialize \/ Exit) /\ Observe(FALSE, FALSE)
  \/ Restart /\ Observe(TRUE, FALSE)

Spec == Init /\ [][Next]_vars

-----------------------------------------------------------------------------
(* Fairness: time passes; the event loop runs the current task, and every  *)
(* backend call of it ends, since the adapter client bounds it by a        *)
(* timeout.  Nothing obliges a cancelled task to end, a user to press a    *)
(* button, a process to crash or a stream to deliver.  The last conjunct   *)
(* is about the camera: among the polls of a recovery, non-low readings    *)
(* keep coming.                                                            *)

Fairness ==
  /\ WF_vars(Tick)
  /\ WF_vars((\E g \in Generations : Owns(g) /\ TaskStep(g)) /\ Observe(FALSE, FALSE))
  /\ SF_vars((\E g \in Generations : RecoveryRead(g, "ok")) /\ Observe(FALSE, FALSE))

FairSpec == Spec /\ Fairness

-----------------------------------------------------------------------------
(* Safety.                                                                 *)

\* Every variable keeps its type; in particular no phase is closed twice, which
\* storage.end_phase would answer with KeyError.
TypeOK ==
  /\ proc \in {"down", "up", "closing"}
  /\ db \in Disk
  /\ mem \in Memory
  /\ worked \in TestTimes
  /\ rest \in RecoveryTimes
  /\ dark \in OutageTimes
  /\ torn \in BOOLEAN

\* The phases table agrees with the run whatever crash, stop or restart came
\* before: an open phase is one of the current test and of the kind of the
\* current state, at most one is open, and none is left open by a run that
\* restart() abandons.  While the process is up that phase is indeed open, and is
\* the one _phase_id names.
PhaseLedger ==
  /\ ~db.orphans
  /\ \A r \in Rows : db.open[r] > 0 => r = RowOf(db) /\ db.open[r] = 1
  /\ proc = "up" => mem.phase = RowOf(db) /\ \A r \in Rows : r = RowOf(db) => db.open[r] = 1

\* Whatever transaction a crash came after, a run that waits has a deadline, so
\* the branch "recovery deadline is missing" of _run_recovery is never taken.
RecoveryHasDeadline == db.state \in Resting => db.deadline # NONE

\* A run that should proceed by itself has a task of the current generation,
\* even when it was started again while its cancelled task was still ending.
RunnerPresent ==
  proc = "up" /\ db.state \in Resumable => mem.task[mem.generation] # "none"

\* The elapsed time of a snapshot test is the time the process spent in it, less
\* what a crash lost: stops, closures, checkpoints and resumptions neither add
\* nor drop any.  The valid time of a stream test never exceeds it.
ElapsedIsActiveTime ==
  db.state \in Active \cup {"stopped_manual", "stopped_error"} =>
    LET elapsed == Cap(ElapsedActive(Now), TestDuration)
    IN  IF IsStream(db.test) THEN elapsed <= worked ELSE elapsed = worked

\* The outage that may be fatal is never longer than the time since the last
\* byte, over any checkpoints, stops, crashes and closures, unless a crash cut a
\* start() short (see ManualPauseExcluded).
OutageNeverOvercounted ==
  db.state = "running_stream" /\ ~torn =>
    Cap(StreamOutageDuration(Now), FatalOutage) <= dark

-----------------------------------------------------------------------------
(* What a step may never do.                                               *)

\* A manual stop holds until the user acts: no late reading, snapshot or stream
\* callback of the tasks it cancelled changes the run, nor does a new process.
ManualStopSticks ==
  [][db.state = "stopped_manual" /\ db' # db => Tick \/ Start \/ Restart]_vars

\* The timer never begins the next test before a full recovery has passed since
\* the run was last active, over stops, resumptions, low readings and restarts
\* of the process.
RecoveryIsFull ==
  [][db'.test > db.test =>
       rest = RecoveryDuration \/ \E c \in Callers : ContinueVerified(c)]_vars

\* The timer leaves no test behind whose active phase has no final outcome.
NoTestSkippedByTimer ==
  [][db'.test > db.test =>
       \/ \A n \in db.test .. db'.test - 1 : db.finished[n] > 0
       \/ \E c \in Callers : ContinueVerified(c)]_vars

-----------------------------------------------------------------------------
(* What the experiment promises, whatever tasks, timers and crashes do.    *)

PhaseOf(d) ==
  CASE d.state = "not_started" -> "idle"
    [] d.state \in Active -> "testing"
    [] d.state \in Resting -> "resting"
    [] d.state = "stopped_manual" -> IF d.reason = "restarted" THEN "abandoned" ELSE "held"
    [] d.state = "stopped_error" -> "failed"
    [] d.state = "completed" -> "done"

\* start() resumes a rest only if the stop kept its deadline.
PausedOf(d) ==
  IF d.state = "stopped_manual" /\ d.origin \in Resting /\ d.deadline # NONE THEN "resting"
  ELSE "testing"

Lifecycle == INSTANCE ExperimentLifecycle
               WITH phase <- PhaseOf(db), test <- db.test, paused <- PausedOf(db)

\* Every transaction that any step or crash leaves behind is a step of the abstract
\* experiment or none: the tests follow each other one by one, a stop resumes what it
\* interrupted, and a new process finds the experiment as the last one left it.  That a
\* test is left only after its end and its rest is for NoTestSkippedByTimer and
\* RecoveryIsFull to say, since the experiment may also Skip.
ImplementsLifecycle == Lifecycle!Spec

-----------------------------------------------------------------------------
(* What must happen.                                                       *)

\* A snapshot test ends, by its duration at the latest, unless interrupted.
SnapshotTestEnds ==
  (db.state = "running_snapshot" /\ proc = "up")
    ~> (db.state # "running_snapshot" \/ proc # "up")

\* A recovery of either kind ends, however many of its polls fail or are low.
RestEnds ==
  (db.state \in Resting /\ proc = "up") ~> (db.state \notin Resting \/ proc # "up")

\* A stream test without bytes does not run for ever: the outage becomes fatal,
\* however often the stream ends, errors, checkpoints or is asked for its status.
SilentStreamEnds ==
  (db.state = "running_stream" /\ proc = "up" /\ dark > 0)
    ~> (db.state # "running_stream" \/ proc # "up" \/ dark = 0)

-----------------------------------------------------------------------------
(* Claims of the repository that the code does not keep.                   *)

\* docs/API.md:115, of POST /api/experiment/continue: "Available only after a
\* low-battery stop."
ContinueOnlyAfterLowBattery ==
  [][\A c \in Callers : ContinueVerified(c) /\ db' # db => db.state = "stopped_low_battery"]_vars

\* static/app.js:54, of the state stopped_error: "Camera activity stopped"
ErrorStopsCamera ==
  proc = "up" /\ db.state = "stopped_error" => mem.task[mem.generation] # "capture"

\* src/blink_dashboard/storage.py:128: "atomic state transitions".  The active
\* phase of a test ends with one final outcome.
OneFinalOutcome == \A n \in Tests : db.finished[n] <= 1

\* tests/test_experiment.py:632: "manual-paused time is intentionally excluded"
\* from the outage of a stream test.
ManualPauseExcluded ==
  db.state = "running_stream" => Cap(StreamOutageDuration(Now), FatalOutage) <= dark
=============================================================================
