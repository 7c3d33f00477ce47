----------------------------- MODULE Experiment -----------------------------
(***************************************************************************)
(* The data of one experiment and the "locked" methods of ExperimentRunner *)
(* (src/blink_dashboard/experiment.py).                                    *)
(*                                                                         *)
(* Every method named ..._locked runs between two suspension points of the *)
(* event loop, so it is one indivisible computation; but each storage call *)
(* in it is a SQLite transaction of its own (storage.py), so a crash may   *)
(* leave the rows as any of those transactions left them.  A method is     *)
(* therefore an operator from section to section.  A section is a record   *)
(*    db   the rows of the latest run and of its phases, as committed,     *)
(*    mem  the memory of the process (the attributes of ExperimentRunner), *)
(*    log  the earlier states of the rows, one for each transaction of the *)
(*         section already committed.                                      *)
(*                                                                         *)
(* Times are relative: an instant in the past is its age, a deadline is    *)
(* what remains of it.  Ages and sums saturate at the threshold that the   *)
(* code compares them with, so saturation changes no decision.             *)
(***************************************************************************)
EXTENDS Integers

CONSTANTS
  LastTest,          \* len(config.tests)
  TestDuration,      \* config.test_duration(n)
  RecoveryDuration,  \* config.recovery_duration_seconds
  FatalOutage,       \* config.fatal_outage_seconds
  DataTimeout,       \* config.stream_data_timeout_seconds
  Callers,           \* the HTTP requests that may be in continue_after_low_battery
  MaxGeneration,     \* bound on the generations of one process
  NONE               \* Python's None

Tests == 1..LastTest
Generations == 0..MaxGeneration

Active == {"running_snapshot", "running_stream"}
Resting == {"recovery", "stopped_low_battery"}
Resumable == Active \cup Resting
States == Resumable \cup {"not_started", "completed", "stopped_manual", "stopped_error"}

\* stop_reason; "manual:<state>" is the reason "manual" with origin <state>.
Reasons == {"none", "manual", "restarted", "low_battery", "error", "completed_after_low_battery"}

\* A row of the phases table, told apart by its test and its kind.
Rows == [test : Tests, kind : {"active", "recovery"}]

\* Where the runner task of a generation waits; "none" when there is no task.
Points == {"none", "dispatch", "snapshot", "battery", "attempt", "capture", "checkpoint",
           "recovery", "recovery_battery", "stream", "stream_exit"}

\* The configuration is rejected unless a stream test follows the snapshot tests.
ASSUME TestAssumption ==
  LastTest \in Nat \ {0, 1}

ASSUME DurationAssumption ==
  /\ TestDuration \in Nat \ {0}
  /\ RecoveryDuration \in Nat \ {0}
  /\ FatalOutage \in Nat \ {0}
  /\ DataTimeout \in 1..FatalOutage

ASSUME BoundAssumption ==
  MaxGeneration \in Nat

ASSUME NoneAssumption ==
  /\ NONE \notin Nat
  /\ NONE \notin States
  /\ NONE \notin Rows

Cap(x, top) == IF x < top THEN x ELSE top

TestTimes == 0..TestDuration
RecoveryTimes == 0..RecoveryDuration
OutageTimes == 0..FatalOutage
ByteAges == 0..FatalOutage + 1
OrNone(S) == S \cup {NONE}

-----------------------------------------------------------------------------
(* The rows: the latest row of runs, and the phases of that run.           *)

Disk ==
  [ state      : States,
    test       : Tests,                          \* current_test_number
    elapsed    : TestTimes,                      \* active_elapsed_seconds
    deadline   : OrNone(RecoveryTimes),          \* phase_deadline_at_utc
    reason     : Reasons,
    origin     : OrNone(Resumable),
    outSeconds : OutageTimes,                    \* stream_outage_seconds
    outActive  : BOOLEAN,                        \* stream_outage_active
    outChecked : OrNone(OutageTimes),            \* stream_outage_checkpoint_at_utc
    open       : [Rows -> Nat],                  \* phases with ended_at_utc IS NULL
    finished   : [Tests -> 0..2],                \* active phases with a final outcome
    orphans    : BOOLEAN ]                       \* an earlier run has an open phase

\* storage.create_run: the defaults of a new row.
CreateRun(orphans) ==
  [ state |-> "not_started", test |-> 1, elapsed |-> 0, deadline |-> NONE,
    reason |-> "none", origin |-> NONE,
    outSeconds |-> 0, outActive |-> FALSE, outChecked |-> NONE,
    open |-> [r \in Rows |-> 0], finished |-> [n \in Tests |-> 0], orphans |-> orphans ]

Memory ==
  [ generation : Generations,                    \* _generation
    task       : [Generations -> Points],        \* the runner task of each generation
    call       : [Callers -> OrNone(Generations)],  \* pending continue requests
    phase      : OrNone(Rows),                   \* _phase_id
    anchor     : OrNone(TestTimes),              \* _active_anchor
    outage     : OrNone(OutageTimes),            \* _outage_started
    outStarted : OrNone(OutageTimes),            \* _stream_outage_started
    lastBytes  : OrNone(ByteAges),               \* _last_stream_bytes_at
    valid      : TestTimes ]                     \* _pending_stream_valid_seconds

\* ExperimentRunner.__init__
NewMemory ==
  [ generation |-> 0, task |-> [g \in Generations |-> "none"], call |-> [c \in Callers |-> NONE],
    phase |-> NONE, anchor |-> NONE, outage |-> NONE,
    outStarted |-> NONE, lastBytes |-> NONE, valid |-> 0 ]

IsStream(test) == test = LastTest

ActiveState(test) == IF IsStream(test) THEN "running_stream" ELSE "running_snapshot"

\* One transaction of the section: the rows become d.
Write(s, d) == [s EXCEPT !.db = d, !.log = @ \cup {s.db}]

-----------------------------------------------------------------------------
(* Phases.  An operator marked as a variant stands for a plausible mistake *)
(* in the one that follows it; no specification uses it.                   *)

FinalOutcomes == {"completed", "aborted_low_battery", "error"}

\* storage.end_phase; a row that is not open makes it raise KeyError (here: -1).
CloseRow(d, row, outcome) ==
  [d EXCEPT !.open[row] = @ - 1,
            !.finished[row.test] =
               IF row.kind = "active" /\ outcome \in FinalOutcomes THEN Cap(@ + 1, 2) ELSE @]

\* Variant: the memory still refers to the phase it has closed.
EndPhaseRemembered(s, outcome) ==
  IF s.mem.phase = NONE THEN s ELSE Write(s, CloseRow(s.db, s.mem.phase, outcome))

EndPhase(s, outcome) ==
  IF s.mem.phase = NONE THEN s
  ELSE Write([s EXCEPT !.mem.phase = NONE], CloseRow(s.db, s.mem.phase, outcome))

BeginPhase(s, kind) ==
  LET row == [test |-> s.db.test, kind |-> kind]
  IN  Write([s EXCEPT !.mem.phase = row], [s.db EXCEPT !.open[row] = @ + 1])

\* The row that should be open while the run is in this state.
RowOf(d) ==
  IF d.state \in Active THEN [test |-> d.test, kind |-> "active"]
  ELSE IF d.state \in Resting THEN [test |-> d.test, kind |-> "recovery"]
  ELSE NONE

-----------------------------------------------------------------------------
(* The clock of a stream outage.                                           *)

ResetStreamTracking(s) ==
  [s EXCEPT !.mem.outStarted = NONE, !.mem.lastBytes = NONE, !.mem.valid = 0]

\* The outage now counts `seconds`, from a checkpoint taken at this instant.
WriteOutage(s, seconds) ==
  Write([s EXCEPT !.mem.outStarted = 0],
        [s.db EXCEPT !.outSeconds = Cap(seconds, FatalOutage), !.outActive = TRUE,
                     !.outChecked = 0])

\* Variant: a manual stop counts as an outage, like the time the process is down.
RestoreOrStartStreamOutageAlways(s, accountClosed) ==
  LET closed == IF s.db.outChecked # NONE THEN s.db.outChecked ELSE 0
  IN  WriteOutage(s, IF s.db.outActive THEN s.db.outSeconds + closed ELSE 0)

RestoreOrStartStreamOutage(s, accountClosed) ==
  LET closed == IF accountClosed /\ s.db.outChecked # NONE THEN s.db.outChecked ELSE 0
  IN  WriteOutage(s, IF s.db.outActive THEN s.db.outSeconds + closed ELSE 0)

StartStreamOutage(s, startedAge) ==
  IF s.db.outActive THEN s ELSE WriteOutage(s, startedAge)

RefreshStreamOutage(s) ==
  IF s.mem.lastBytes = NONE THEN StartStreamOutage(s, 0)
  ELSE IF s.mem.lastBytes > DataTimeout THEN StartStreamOutage(s, s.mem.lastBytes)
  ELSE s

\* Variant: the checkpoint restarts the clock without adding what it showed.
CheckpointStreamOutageLost(s) ==
  IF ~s.db.outActive \/ s.mem.outStarted = NONE THEN s ELSE WriteOutage(s, s.db.outSeconds)

CheckpointStreamOutage(s) ==
  IF ~s.db.outActive \/ s.mem.outStarted = NONE THEN s
  ELSE WriteOutage(s, s.db.outSeconds + s.mem.outStarted)

ClearStreamOutageOnReceipt(s) ==
  IF ~s.db.outActive /\ s.mem.outStarted = NONE THEN s
  ELSE Write([s EXCEPT !.mem.outStarted = NONE],
             [s.db EXCEPT !.outSeconds = 0, !.outActive = FALSE, !.outChecked = NONE])

\* _stream_outage_duration, once the outage has been refreshed
StreamOutageDuration(s) ==
  IF ~s.db.outActive THEN 0
  ELSE s.db.outSeconds + (IF s.mem.outStarted = NONE THEN 0 ELSE s.mem.outStarted)

StreamOutageIsFatal(s) ==
  s.db.state = "running_stream" /\ StreamOutageDuration(s) >= FatalOutage

\* Only the gap between two near receipts, outside an outage, is valid time.
NoteStreamBytes(s) ==
  LET near == s.mem.lastBytes # NONE /\ ~s.db.outActive /\ s.mem.lastBytes <= DataTimeout
      good == IF near THEN s.mem.lastBytes ELSE 0
  IN  ClearStreamOutageOnReceipt(
        [s EXCEPT !.mem.valid = Cap(@ + good, TestDuration), !.mem.lastBytes = 0])

NoteStreamError(s) ==
  StartStreamOutage(s, IF s.mem.lastBytes = NONE THEN 0 ELSE s.mem.lastBytes)

-----------------------------------------------------------------------------
(* Elapsed time and the transitions of the experiment.                     *)

ElapsedActive(s) ==
  IF s.db.state = "running_stream" THEN s.db.elapsed + s.mem.valid
  ELSE s.db.elapsed + (IF s.mem.anchor = NONE THEN 0 ELSE s.mem.anchor)

IsOver(s) == ElapsedActive(s) >= TestDuration

\* Variant: the anchor stays where it was, so the next checkpoint counts again.
CheckpointActiveTwice(s) ==
  IF s.db.state = "running_stream" \/ s.mem.anchor = NONE THEN s
  ELSE Write(s, [s.db EXCEPT !.elapsed = Cap(ElapsedActive(s), TestDuration)])

\* Variant: the anchor moves but the time since the last checkpoint is not saved.
CheckpointActiveLost(s) ==
  IF s.db.state = "running_stream" \/ s.mem.anchor = NONE THEN s
  ELSE [s EXCEPT !.mem.anchor = 0]

CheckpointActive(s) ==
  LET saved == Cap(ElapsedActive(s), TestDuration)
  IN  CASE s.db.state = "running_stream" ->
             LET t == CheckpointStreamOutage([s EXCEPT !.mem.valid = 0])
             IN  Write(t, [t.db EXCEPT !.elapsed = saved])
        [] s.db.state # "running_stream" /\ s.mem.anchor # NONE ->
             Write([s EXCEPT !.mem.anchor = 0], [s.db EXCEPT !.elapsed = saved])
        [] OTHER -> s

BeginActive(s, accountClosed) ==
  LET t == IF IsStream(s.db.test)
           THEN [RestoreOrStartStreamOutage(ResetStreamTracking(s), accountClosed)
                   EXCEPT !.mem.anchor = NONE]
           ELSE [s EXCEPT !.mem.anchor = 0]
  IN  BeginPhase(Write(t, [t.db EXCEPT !.deadline = NONE]), "active")

BeginRecoveryPhase(s) == BeginPhase([s EXCEPT !.mem.anchor = NONE], "recovery")

\* Close the active phase of the current test, saving its elapsed time first.
EndActive(s, outcome) ==
  EndPhase([CheckpointActive(s) EXCEPT !.mem.anchor = NONE], outcome)

\* Variant: the test number advances already when the recovery begins.
FinishActiveEarly(s) ==
  LET t == EndActive(s, "completed")
  IN  IF t.db.test >= LastTest THEN Write(t, [t.db EXCEPT !.state = "completed", !.elapsed = 0])
      ELSE BeginRecoveryPhase(
             Write(t, [t.db EXCEPT !.state = "recovery", !.elapsed = 0, !.test = @ + 1,
                                   !.deadline = RecoveryDuration]))

\* Variant: the recovery has no deadline.
FinishActiveUntimed(s) ==
  LET t == EndActive(s, "completed")
  IN  IF t.db.test >= LastTest THEN Write(t, [t.db EXCEPT !.state = "completed", !.elapsed = 0])
      ELSE BeginRecoveryPhase(Write(t, [t.db EXCEPT !.state = "recovery", !.elapsed = 0]))

FinishActive(s) ==
  LET t == EndActive(s, "completed")
  IN  IF t.db.test >= LastTest
      THEN Write(t, [t.db EXCEPT !.state = "completed", !.elapsed = 0,
                                 !.reason = "none", !.origin = NONE])
      ELSE BeginRecoveryPhase(
             Write(t, [t.db EXCEPT !.state = "recovery", !.elapsed = 0,
                                   !.deadline = RecoveryDuration,
                                   !.reason = "none", !.origin = NONE]))

TransitionLowBattery(s) ==
  LET t == EndActive(s, "aborted_low_battery")
  IN  BeginRecoveryPhase(
        Write(t, [t.db EXCEPT !.state = "stopped_low_battery", !.elapsed = 0,
                              !.deadline = RecoveryDuration,
                              !.reason = "low_battery", !.origin = NONE]))

\* Variant: the recovery phase that was open is not closed.
TransitionLowDuringRecoveryOpen(s) ==
  BeginRecoveryPhase(
    Write(s, [s.db EXCEPT !.state = "stopped_low_battery", !.deadline = RecoveryDuration,
                          !.reason = "low_battery", !.origin = NONE]))

TransitionLowDuringRecovery(s) ==
  LET t == EndPhase(s, "low_battery_detected")
  IN  BeginRecoveryPhase(
        Write(t, [t.db EXCEPT !.state = "stopped_low_battery", !.deadline = RecoveryDuration,
                              !.reason = "low_battery", !.origin = NONE]))

AdvanceAfterRecovery(s) ==
  IF s.db.test >= LastTest
  THEN Write(s, [s.db EXCEPT !.state = "completed", !.deadline = NONE, !.origin = NONE,
                   !.reason = IF @ = "low_battery" THEN "completed_after_low_battery" ELSE "none"])
  ELSE BeginActive(
         Write(s, [s.db EXCEPT !.state = ActiveState(s.db.test + 1), !.test = @ + 1,
                               !.elapsed = 0, !.deadline = NONE,
                               !.reason = "none", !.origin = NONE]),
         FALSE)

TransitionError(s) ==
  LET t == IF s.db.state \in Active THEN EndActive(s, "error") ELSE EndPhase(s, "error")
  IN  Write(t, [t.db EXCEPT !.state = "stopped_error", !.deadline = NONE,
                            !.reason = "error", !.origin = NONE])

\* A failed snapshot or battery poll; the runner calls it fatal once a failure
\* comes FatalOutage after the first one, with no success in between.
OutageIsFatal(s) == s.mem.outage # NONE /\ s.mem.outage >= FatalOutage

NoteFailure(s) ==
  CASE s.mem.outage = NONE -> [s EXCEPT !.mem.outage = 0]
    [] OutageIsFatal(s)    -> TransitionError(s)
    [] OTHER               -> s

NoteSuccess(s) == [s EXCEPT !.mem.outage = NONE]
=============================================================================
