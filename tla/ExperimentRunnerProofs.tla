----------------------- MODULE ExperimentRunnerProofs -----------------------
(***************************************************************************)
(* TypeOK, PhaseLedger and RecoveryHasDeadline are invariants of           *)
(* ExperimentRunner for every number of tests, every duration, every set   *)
(* of callers and every bound on the generations.                          *)
(*                                                                         *)
(* The inductive invariant says more of the rows (they are fit for a crash *)
(* at any transaction) and of the memory (in a running process _phase_id   *)
(* names the open phase, which is the one of the current state).           *)
(***************************************************************************)
EXTENDS ExperimentRunner, ExperimentProofs

Processes == {"down", "up", "closing"}

DataInv ==
  /\ proc \in Processes
  /\ mem \in Memory
  /\ GoodDisk(db)
  /\ proc # "down" => Good(Now)
  /\ proc = "up" => Settled(Now)

HistoryInv ==
  /\ worked \in TestTimes
  /\ rest \in RecoveryTimes
  /\ dark \in OutageTimes
  /\ torn \in BOOLEAN

IInv == DataInv /\ HistoryInv

-----------------------------------------------------------------------------
(* The section that the current state makes is typed by its parts.         *)
LEMMA NowFacts ==
  Now.db = db /\ Now.mem = mem /\ Now.log = {}
BY DEF Now

(* A fresh process has no phase, no task and no request.                   *)
LEMMA NewMemoryFacts ==
  NewMemory \in Memory /\ NewMemory.phase = NONE
<1>1. 0 \in Generations
  BY BoundAssumption DEF Generations
<1>2. /\ [g \in Generations |-> "none"] \in [Generations -> Points]
      /\ [c \in Callers |-> NONE] \in [Callers -> OrNone(Generations)]
  BY TypeFacts DEF Points
<1> QED BY <1>1, <1>2, TypeFacts DEF NewMemory, Memory

(* What a section commits, in full or up to a crash, keeps the invariant.  *)
LEMMA AtomicInv ==
  ASSUME NEW s, Good(s), NEW p \in Processes, p = "up" => Settled(s), Atomic(s, p)
  PROVE  DataInv'
<1>1. CASE db' = s.db /\ mem' = s.mem /\ proc' = p
  <2>1. s.db \in Disk /\ s.mem \in Memory /\ GoodDisk(s.db)
    BY SectionFacts
  <2>2. Now' = [db |-> s.db, mem |-> s.mem, log |-> {}]
    BY <1>1 DEF Now
  <2>3. Good([db |-> s.db, mem |-> s.mem, log |-> {}])
    BY <2>1 DEF Good, Section
  <2>4. Good(Now)' /\ (p = "up" => Settled(Now)')
    BY <2>2, <2>3 DEF Settled, Good
  <2>5. GoodDisk(db)'
    BY <1>1, <2>1 DEF GoodDisk, RowOf
  <2> QED BY <1>1, <2>1, <2>4, <2>5 DEF DataInv
<1>2. CASE \E d \in s.log : db' = d /\ mem' = NewMemory /\ proc' = "down"
  <2>1. PICK d \in s.log : db' = d /\ mem' = NewMemory /\ proc' = "down"
    BY <1>2
  <2>2. GoodDisk(d)
    BY DEF Good
  <2>3. GoodDisk(db)'
    BY <2>1, <2>2 DEF GoodDisk, RowOf
  <2> QED BY <2>1, <2>3, NewMemoryFacts DEF DataInv, Processes
<1> QED BY <1>1, <1>2 DEF Atomic

(* Moving a task, or a request, is an assignment to the memory that leaves *)
(* the rows alone: Retains.                                                *)
Retains(s, t) == Good(t) /\ t.mem.phase = s.mem.phase /\ t.db = s.db /\ t.log = s.log

LEMMA MemRetains ==
  ASSUME NEW s, Good(s), NEW m \in Memory, m.phase = s.mem.phase
  PROVE  Retains(s, [s EXCEPT !.mem = m]) /\ [s EXCEPT !.mem = m].mem = m
BY MemGood DEF Retains, Good, Section

LEMMA RetainsSettled ==
  ASSUME NEW s, Settled(s), NEW t, Retains(s, t)
  PROVE  Settled(t)
BY DEF Settled, Retains

LEMMA TaskRetains ==
  ASSUME NEW s, Good(s), NEW g \in Generations, NEW point \in Points
  PROVE  LET t == [s EXCEPT !.mem.task[g] = point]
         IN  Retains(s, t) /\ t.mem = [s.mem EXCEPT !.task = [@ EXCEPT ![g] = point]]
<1> DEFINE m == [s.mem EXCEPT !.task = [@ EXCEPT ![g] = point]]
<1>1. s.mem \in Memory
  BY SectionFacts
<1>2. [s.mem.task EXCEPT ![g] = point] \in [Generations -> Points]
  BY <1>1 DEF Memory
<1>3. m \in Memory /\ m.phase = s.mem.phase
  BY <1>1, <1>2 DEF Memory
<1>4. [s EXCEPT !.mem.task[g] = point] = [s EXCEPT !.mem = m]
  BY DEF Good, Section
<1>5. Retains(s, [s EXCEPT !.mem = m]) /\ [s EXCEPT !.mem = m].mem = m
  BY <1>3, MemRetains
<1> QED BY <1>4, <1>5

LEMMA CallRetains ==
  ASSUME NEW s, Good(s), NEW c \in Callers, NEW g \in OrNone(Generations)
  PROVE  LET t == [s EXCEPT !.mem.call[c] = g]
         IN  Retains(s, t) /\ t.mem = [s.mem EXCEPT !.call = [@ EXCEPT ![c] = g]]
<1> DEFINE m == [s.mem EXCEPT !.call = [@ EXCEPT ![c] = g]]
<1>1. s.mem \in Memory
  BY SectionFacts
<1>2. [s.mem.call EXCEPT ![c] = g] \in [Callers -> OrNone(Generations)]
  BY <1>1 DEF Memory
<1>3. m \in Memory /\ m.phase = s.mem.phase
  BY <1>1, <1>2 DEF Memory
<1>4. [s EXCEPT !.mem.call[c] = g] = [s EXCEPT !.mem = m]
  BY DEF Good, Section
<1>5. Retains(s, [s EXCEPT !.mem = m]) /\ [s EXCEPT !.mem = m].mem = m
  BY <1>3, MemRetains
<1> QED BY <1>4, <1>5

LEMMA StartRunnerRetains ==
  ASSUME NEW s, Good(s)
  PROVE  Retains(s, StartRunner(s))
<1>1. s.mem.generation \in Generations
  BY SectionFacts DEF Memory
<1>2. Retains(s, s)
  BY DEF Retains
<1> QED BY <1>1, <1>2, TaskRetains DEF StartRunner, Points

LEMMA DetachRunnerRetains ==
  ASSUME NEW s, Good(s), s.mem.generation < MaxGeneration
  PROVE  /\ Retains(s, DetachRunner(s))
         /\ DetachRunner(s).mem = [s.mem EXCEPT !.generation = @ + 1]
<1> DEFINE m == [s.mem EXCEPT !.generation = @ + 1]
<1>1. s.mem \in Memory
  BY SectionFacts
<1>2. s.mem.generation + 1 \in Generations
  BY <1>1, BoundAssumption DEF Memory, Generations
<1>3. m \in Memory /\ m.phase = s.mem.phase
  BY <1>1, <1>2 DEF Memory
<1>4. DetachRunner(s) = [s EXCEPT !.mem = m]
  BY DEF DetachRunner, Good, Section
<1>5. Retains(s, [s EXCEPT !.mem = m]) /\ [s EXCEPT !.mem = m].mem = m
  BY <1>3, MemRetains
<1> QED BY <1>4, <1>5

(* A task that runs a section and waits.                                   *)
LEMMA RunInv ==
  ASSUME NEW s, Good(s), proc = "up" => Settled(s), proc \in Processes,
         NEW g \in Generations, NEW point \in Points, Run(g, s, point)
  PROVE  DataInv'
<1> DEFINE t == [s EXCEPT !.mem.task[g] = point]
<1>1. Retains(s, t)
  BY TaskRetains
<1>2. Atomic(t, proc)
  BY DEF Run
<1> HIDE DEF t
<1>3. Good(t) /\ (proc = "up" => Settled(t))
  BY <1>1, RetainsSettled DEF Retains
<1> QED BY <1>2, <1>3, AtomicInv

(* The same, for a section that Keeps makes of the current one.            *)
LEMMA RunKeeps ==
  ASSUME DataInv, proc # "down", NEW s, Keeps(Now, s),
         NEW g \in Generations, NEW point \in Points, Run(g, s, point)
  PROVE  DataInv'
<1>1. Good(s) /\ (proc = "up" => Settled(s))
  BY KeepsSettled DEF Keeps, DataInv
<1> QED BY <1>1, RunInv DEF DataInv

(* What a running process starts a section from.                           *)
LEMMA RunningFacts ==
  ASSUME DataInv, proc # "down"
  PROVE  /\ Good(Now) /\ Now.db = db /\ Now.mem = mem
         /\ Keeps(Now, Now)
         /\ proc \in Processes
         /\ proc = "up" => Settled(Now)
BY NowFacts, KeepsSame DEF DataInv

(* A section that settles the run serves a process in any state.           *)
LEMMA RunSettled ==
  ASSUME DataInv, NEW s, Settled(s),
         NEW g \in Generations, NEW point \in Points, Run(g, s, point)
  PROVE  DataInv'
BY RunInv DEF Settled, DataInv

-----------------------------------------------------------------------------
(* The steps of a task.                                                    *)

LEMMA DispatchInv ==
  ASSUME DataInv, NEW g \in Generations, Dispatch(g)
  PROVE  DataInv'
<1>1. Good(Now) /\ Keeps(Now, Now) /\ proc # "down"
  BY RunningFacts DEF Dispatch, At
<1>2. Settled(FinishActive(Now)) /\ Settled(TransitionError(Now))
  BY <1>1, FinishActiveSettles, TransitionErrorSettles
<1>3. \/ Run(g, FinishActive(Now), "dispatch")
      \/ Run(g, TransitionError(Now), "dispatch")
      \/ \E point \in {"battery", "stream", "recovery_battery", "none"} : Run(g, Now, point)
  BY DEF Dispatch
<1> QED BY <1>1, <1>2, <1>3, RunSettled, RunKeeps DEF Points

LEMMA DetachedInv ==
  ASSUME DataInv, NEW g \in Generations, Detached(g)
  PROVE  DataInv'
BY RunningFacts, RunKeeps DEF Detached, Points

LEMMA SnapshotStepInv ==
  ASSUME DataInv, NEW g \in Generations, SnapshotStep(g)
  PROVE  DataInv'
<1>1. Good(Now) /\ Keeps(Now, Now) /\ proc # "down" /\ proc \in Processes
  BY RunningFacts DEF SnapshotStep, SnapshotLoop, BatteryRead, BatteryFailed, Attempt, Captured,
                      CaptureFailed, Checkpoint, At
<1>2. Keeps(Now, NoteSuccess(Now)) /\ Keeps(Now, CheckpointActive(Now))
  BY <1>1, NoteSuccessKeeps, CheckpointActiveKeeps
<1>3. Good(NoteFailure(Now)) /\ (proc = "up" => Settled(NoteFailure(Now)))
  BY <1>1, NoteFailureGood, RunningFacts
<1>4. CASE SnapshotLoop(g)
  <2>1. \/ Run(g, FinishActive(Now), "dispatch")
        \/ \E point \in {"battery", "attempt"} : Run(g, Now, point)
    BY <1>4 DEF SnapshotLoop
  <2> QED BY <1>1, <2>1, FinishActiveSettles, RunSettled, RunKeeps DEF Points
<1>5. ASSUME NEW reading, BatteryRead(g, reading)
      PROVE  DataInv'
  <2>1. \/ Run(g, TransitionLowBattery(NoteSuccess(Now)), "dispatch")
        \/ Run(g, NoteSuccess(Now), "attempt")
    BY <1>5 DEF BatteryRead
  <2>2. Settled(TransitionLowBattery(NoteSuccess(Now)))
    BY <1>2, TransitionLowBatterySettles DEF Keeps
  <2> QED BY <1>1, <1>2, <2>1, <2>2, RunSettled, RunKeeps DEF Points
<1>6. CASE BatteryFailed(g)
  <2>1. \E point \in {"dispatch", "attempt"} : Run(g, NoteFailure(Now), point)
    BY <1>6 DEF BatteryFailed
  <2> QED BY <1>1, <1>3, <2>1, RunInv DEF Points
<1>7. CASE Attempt(g)
  BY <1>1, <1>7, RunKeeps DEF Attempt, Points
<1>8. CASE Captured(g)
  BY <1>1, <1>2, <1>8, RunKeeps DEF Captured, Points
<1>9. CASE CaptureFailed(g)
  BY <1>1, <1>3, <1>9, RunInv DEF CaptureFailed, Points
<1>10. CASE Checkpoint(g)
  BY <1>1, <1>2, <1>10, RunKeeps DEF Checkpoint, Points
<1> QED BY <1>4, <1>5, <1>6, <1>7, <1>8, <1>9, <1>10 DEF SnapshotStep

LEMMA RecoveryStepInv ==
  ASSUME DataInv, NEW g \in Generations, RecoveryStep(g)
  PROVE  DataInv'
<1>1. Good(Now) /\ Keeps(Now, Now) /\ proc # "down"
  BY RunningFacts DEF RecoveryStep, RecoveryLoop, RecoveryRead, RecoveryReadFailed, At
<1>2. CASE RecoveryLoop(g)
  <2>1. Run(g, TransitionError(Now), "dispatch") \/ Run(g, Now, "recovery_battery")
    BY <1>2 DEF RecoveryLoop
  <2> QED BY <1>1, <2>1, TransitionErrorSettles, RunSettled, RunKeeps DEF Points
<1>3. ASSUME NEW reading, RecoveryRead(g, reading)
      PROVE  DataInv'
  <2> DEFINE s == NoteSuccess(Now)
  <2>1. \/ Run(g, TransitionLowDuringRecovery(s), "dispatch")
        \/ Run(g, AdvanceAfterRecovery(EndPhase(s, "completed")), "dispatch")
        \/ Run(g, s, "recovery")
    BY <1>3 DEF RecoveryRead
  <2>2. Keeps(Now, s) /\ Good(s)
    BY <1>1, NoteSuccessKeeps DEF Keeps
  <2> HIDE DEF s
  <2>3. Settled(TransitionLowDuringRecovery(s))
    BY <2>2, TransitionLowDuringRecoverySettles
  <2>4. Settled(AdvanceAfterRecovery(EndPhase(s, "completed")))
    BY <2>2, EndPhaseGood, AdvanceAfterRecoverySettles
  <2> QED BY <1>1, <2>1, <2>2, <2>3, <2>4, RunSettled, RunKeeps DEF Points
<1>4. CASE RecoveryReadFailed(g)
  BY <1>1, <1>4, RunKeeps DEF RecoveryReadFailed, Points
<1> QED BY <1>2, <1>3, <1>4 DEF RecoveryStep

LEMMA StreamStepInv ==
  ASSUME DataInv, NEW g \in Generations, StreamStep(g)
  PROVE  DataInv'
<1>1. Good(Now) /\ Keeps(Now, Now) /\ proc # "down" /\ proc \in Processes
  BY RunningFacts DEF StreamStep, StreamOutageEnds, StreamFinished, StreamLoop, StreamBatteryRead,
                      StreamBatteryFailed, StreamTaskEnded, StreamIsLive, StreamExit, At
<1>2. Keeps(Now, Turn) /\ Good(Turn) /\ (proc = "up" => Settled(Turn))
  BY <1>1, RefreshStreamOutageKeeps, KeepsSettled, RunningFacts DEF Turn, Keeps
<1>3. CASE StreamOutageEnds(g)
  BY <1>2, <1>3, TransitionErrorSettles, RunSettled DEF StreamOutageEnds, Points
<1>4. CASE StreamFinished(g)
  BY <1>2, <1>4, FinishActiveSettles, RunSettled DEF StreamFinished, Points
<1>5. CASE StreamLoop(g)
  <2>1. Keeps(Now, CheckpointActive(Turn))
    BY <1>2, CheckpointActiveKeeps, KeepsTransitive
  <2> QED BY <1>1, <1>2, <1>5, <2>1, RunKeeps DEF StreamLoop, Points
<1>6. ASSUME NEW reading, StreamBatteryRead(g, reading)
      PROVE  DataInv'
  <2>1. Keeps(Now, NoteSuccess(Turn)) /\ Good(NoteSuccess(Turn))
    BY <1>2, NoteSuccessKeeps, KeepsTransitive DEF Keeps
  <2>2. \/ Run(g, TransitionLowBattery(NoteSuccess(Turn)), "stream_exit")
        \/ Run(g, NoteSuccess(Turn), "stream")
    BY <1>6 DEF StreamBatteryRead
  <2> QED BY <1>1, <2>1, <2>2, TransitionLowBatterySettles, RunSettled, RunKeeps DEF Points
<1>7. CASE StreamBatteryFailed(g)
  <2>1. Good(NoteFailure(Turn)) /\ (proc = "up" => Settled(NoteFailure(Turn)))
    BY <1>2, NoteFailureGood
  <2>2. \E point \in {"stream_exit", "stream"} : Run(g, NoteFailure(Turn), point)
    BY <1>7 DEF StreamBatteryFailed
  <2> QED BY <1>1, <2>1, <2>2, RunInv DEF Points
<1>8. CASE StreamTaskEnded(g)
  <2>1. Keeps(Now, StartStreamOutage(Turn, 0))
    BY <1>2, StartStreamOutageKeeps, KeepsTransitive
  <2> QED BY <1>1, <1>8, <2>1, RunKeeps DEF StreamTaskEnded, Points
<1>9. CASE StreamExit(g)
  BY <1>1, <1>9, RunKeeps DEF StreamExit, Points
<1> QED BY <1>3, <1>4, <1>5, <1>6, <1>7, <1>8, <1>9 DEF StreamStep

(* A section that only Keeps, outside a task.                              *)
LEMMA AtomicKeeps ==
  ASSUME DataInv, proc # "down", NEW s, Keeps(Now, s), Atomic(s, proc)
  PROVE  DataInv'
<1>1. Good(s) /\ (proc = "up" => Settled(s))
  BY KeepsSettled DEF Keeps, DataInv
<1> QED BY <1>1, AtomicInv DEF DataInv

LEMMA CallbackInv ==
  ASSUME DataInv, NEW g \in Generations, OnBytes(g) \/ OnError(g)
  PROVE  DataInv'
<1>1. Good(Now) /\ proc # "down"
  BY RunningFacts DEF OnBytes, OnError, StreamTaskAlive, At
<1>2. Keeps(Now, NoteStreamBytes(Now)) /\ Keeps(Now, NoteStreamError(Now))
  BY <1>1, NoteStreamBytesKeeps, NoteStreamErrorKeeps
<1> QED BY <1>1, <1>2, AtomicKeeps DEF OnBytes, OnError

-----------------------------------------------------------------------------
(* The controls and the process.                                           *)

(* A settled section, with the runner started or not.                      *)
LEMMA AtomicStarted ==
  ASSUME NEW s, Settled(s), NEW p \in Processes,
         Atomic(StartRunner(s), p) \/ Atomic(s, p)
  PROVE  DataInv'
<1>1. Settled(StartRunner(s)) /\ Good(StartRunner(s))
  BY StartRunnerRetains, RetainsSettled DEF Settled
<1> QED BY <1>1, AtomicInv DEF Settled

(* The new process closes an open phase, and opens the one of the state.   *)
LEMMA InitializeInv ==
  ASSUME DataInv, Initialize
  PROVE  DataInv'
<1> DEFINE boot == [db |-> db, mem |-> NewMemory, log |-> {}]
           left == {r \in Rows : db.open[r] > 0}
           row == CHOOSE r \in left : TRUE
           closed == IF left = {} THEN boot ELSE Write(boot, CloseRow(db, row, "interrupted"))
           begun == CASE db.state \in Active  -> BeginActive(closed, TRUE)
                      [] db.state \in Resting -> BeginRecoveryPhase(closed)
                      [] OTHER                -> closed
<1>1. Atomic(StartRunner(begun), "up") \/ Atomic(begun, "up")
  BY DEF Initialize
<1>2. GoodDisk(db) /\ db \in Disk
  BY DEF DataInv, GoodDisk
<1>3. /\ Good(closed) /\ closed.mem.phase = NONE
      /\ closed.db.state = db.state
  <2>1. CASE left = {}
    <3>1. Good(boot)
      BY <1>2, <2>1, NewMemoryFacts, NoneAssumption DEF Good, Section
    <3> QED BY <2>1, <3>1, NewMemoryFacts
  <2>2. CASE left # {}
    <3> DEFINE e == CloseRow(db, row, "interrupted")
    <3>1. row \in Rows /\ db.open[row] > 0
      BY <2>2
    <3> HIDE DEF row
    <3>2. GoodDisk(e) /\ (\A q \in Rows : ~(e.open[q] > 0)) /\ e.state = db.state
      BY <1>2, <3>1, CloseRowGood
    <3>3. closed = [db |-> e, mem |-> NewMemory, log |-> {db}]
      BY <2>2 DEF Write
    <3> HIDE DEF e, closed
    <3>4. Good(closed)
      BY <1>2, <3>2, <3>3, NewMemoryFacts, NoneAssumption DEF Good, Section, GoodDisk
    <3> QED BY <3>2, <3>3, <3>4, NewMemoryFacts
  <2> QED BY <2>1, <2>2
<1> HIDE DEF closed
<1>4. Settled(begun)
  <2>1. CASE db.state \in Active
    <3>1. begun = BeginActive(closed, TRUE)
      BY <2>1 DEF Active, Resting
    <3> QED BY <1>3, <2>1, <3>1, BeginActiveSettles
  <2>2. CASE db.state \notin Active /\ db.state \in Resting
    BY <1>3, <2>2, BeginRecoveryPhaseSettles
  <2>3. CASE db.state \notin Active /\ db.state \notin Resting
    BY <1>3, <2>3, RowFacts, SectionFacts DEF Settled, Resumable
  <2> QED BY <2>1, <2>2, <2>3
<1> HIDE DEF begun
<1> QED BY <1>1, <1>4, AtomicStarted DEF Processes

(* A run that is not in progress has no phase.                             *)
LEMMA IdleFacts ==
  ASSUME DataInv, proc = "up", db.state \notin Resumable
  PROVE  mem.phase = NONE
BY RunningFacts, RowFacts, SectionFacts DEF Settled

LEMMA StartNewInv ==
  ASSUME DataInv, StartNew
  PROVE  DataInv'
<1> DEFINE d == [db EXCEPT !.state = ActiveState(db.test), !.deadline = NONE,
                           !.reason = "none", !.origin = NONE]
<1>1. proc = "up" /\ Atomic(StartRunner(BeginActive(Write(Now, d), FALSE)), proc)
  BY DEF StartNew
<1>2. Good(Now) /\ Now.db = db /\ db \in Disk /\ Now.mem.phase = NONE
  BY <1>1, RunningFacts, IdleFacts, SectionFacts
     DEF StartNew, Resumable, Active, Resting
<1>3. d \in Disk /\ d.open = db.open /\ d.orphans = db.orphans /\ d.state \in Active
      /\ d.state \notin Resting
  BY <1>2, TypeFacts, ActiveStateFacts DEF Disk, Reasons
<1> HIDE DEF d
<1>4. Good(Write(Now, d)) /\ Write(Now, d).mem.phase = NONE /\ Write(Now, d).db = d
  BY <1>2, <1>3, FreeWrite
<1>5. Settled(BeginActive(Write(Now, d), FALSE))
  BY <1>3, <1>4, BeginActiveSettles
<1> QED BY <1>1, <1>5, AtomicStarted DEF Processes

LEMMA ResumeActiveInv ==
  ASSUME DataInv, ResumeActive
  PROVE  DataInv'
<1> DEFINE d == [db EXCEPT !.state = ActiveState(db.test), !.deadline = NONE,
                           !.reason = "none", !.origin = NONE]
<1>1. proc = "up" /\ Atomic(StartRunner(BeginActive(Write(Now, d), FALSE)), proc)
  BY DEF ResumeActive
<1>2. Good(Now) /\ Now.db = db /\ db \in Disk /\ Now.mem.phase = NONE
  BY <1>1, RunningFacts, IdleFacts, SectionFacts
     DEF ResumeActive, Resumable, Active, Resting
<1>3. d \in Disk /\ d.open = db.open /\ d.orphans = db.orphans /\ d.state \in Active
      /\ d.state \notin Resting
  BY <1>2, TypeFacts, ActiveStateFacts DEF Disk, Reasons
<1> HIDE DEF d
<1>4. Good(Write(Now, d)) /\ Write(Now, d).mem.phase = NONE /\ Write(Now, d).db = d
  BY <1>2, <1>3, FreeWrite
<1>5. Settled(BeginActive(Write(Now, d), FALSE))
  BY <1>3, <1>4, BeginActiveSettles
<1> QED BY <1>1, <1>5, AtomicStarted DEF Processes

LEMMA ResumeRecoveryInv ==
  ASSUME DataInv, ResumeRecovery
  PROVE  DataInv'
<1> DEFINE d == [db EXCEPT !.state = db.origin, !.origin = NONE,
                   !.reason = IF db.origin = "recovery" THEN "none" ELSE "low_battery"]
<1>1. /\ proc = "up" /\ Atomic(StartRunner(BeginRecoveryPhase(Write(Now, d))), proc)
      /\ db.origin \in Resting /\ db.deadline # NONE
  BY DEF ResumeRecovery
<1>2. Good(Now) /\ Now.db = db /\ db \in Disk /\ Now.mem.phase = NONE
  BY <1>1, RunningFacts, IdleFacts, SectionFacts
     DEF ResumeRecovery, Resumable, Active, Resting
<1>3. /\ d \in Disk /\ d.open = db.open /\ d.orphans = db.orphans /\ d.state \in Resting
      /\ d.deadline # NONE
  BY <1>1, <1>2, TypeFacts DEF Disk, Reasons, Resting, States, Resumable
<1> HIDE DEF d
<1>4. Good(Write(Now, d)) /\ Write(Now, d).mem.phase = NONE /\ Write(Now, d).db = d
  BY <1>2, <1>3, FreeWrite
<1>5. Settled(BeginRecoveryPhase(Write(Now, d)))
  BY <1>3, <1>4, BeginRecoveryPhaseSettles
<1> QED BY <1>1, <1>5, AtomicStarted DEF Processes

LEMMA StopInv ==
  ASSUME DataInv, Stop
  PROVE  DataInv'
<1> DEFINE s == DetachRunner(Now)
           u == IF db.state \in Active
                THEN [CheckpointActive(s) EXCEPT !.mem.anchor = NONE] ELSE s
           t == EndPhase(u, "manual_stop")
           d == [t.db EXCEPT !.state = "stopped_manual", !.reason = "manual",
                             !.origin = db.state,
                             !.deadline = IF db.state \in Resting THEN @ ELSE NONE]
<1>1. /\ proc = "up" /\ CanDetach /\ db.state \in Resumable
      /\ Atomic(Write(t, d), proc)
  BY DEF Stop
<1>2. Good(Now) /\ Now.mem = mem /\ Good(s)
  BY <1>1, RunningFacts, DetachRunnerRetains DEF CanDetach, Retains
<1>3. Good(u)
  <2>1. Good(CheckpointActive(s))
    BY <1>2, CheckpointActiveKeeps DEF Keeps
  <2>2. Good([CheckpointActive(s) EXCEPT !.mem.anchor = NONE])
    BY <2>1, AnchorKeeps, TypeFacts DEF Keeps
  <2> QED BY <1>2, <2>2
<1> HIDE DEF u
<1>4. Good(t) /\ t.mem.phase = NONE /\ t.db \in Disk
  BY <1>3, EndPhaseGood, SectionFacts
<1> HIDE DEF t
<1>5. /\ d \in Disk /\ d.open = t.db.open /\ d.orphans = t.db.orphans
      /\ d.state = "stopped_manual"
  BY <1>1, <1>4, TypeFacts DEF Disk, States, Reasons
<1> HIDE DEF d
<1>6. Good(Write(t, d)) /\ Write(t, d).mem.phase = NONE /\ Write(t, d).db = d
  BY <1>4, <1>5, FreeWrite DEF Resting
<1>7. Settled(Write(t, d))
  BY <1>5, <1>6, RowFacts DEF Settled, Resumable, Active, Resting
<1> QED BY <1>1, <1>6, <1>7, AtomicInv DEF Processes

\* The section of restart(), before the new task
Restarted ==
  LET s == DetachRunner(Now)
      u == IF db.state \in Active THEN CheckpointActive(s) ELSE s
      saved == EndPhase(u, "restarted")
      closed == IF db.state \in {"completed", "stopped_manual"} THEN s
                ELSE Write(saved, [saved.db EXCEPT !.state = "stopped_manual",
                                     !.reason = "restarted", !.origin = NONE,
                                     !.deadline = NONE])
      orphans == closed.db.orphans \/ \E r \in Rows : closed.db.open[r] > 0
      created == Write(closed, CreateRun(orphans))
      begun == Write(created, [created.db EXCEPT !.state = "running_snapshot"])
      fresh == ResetStreamTracking([begun EXCEPT !.mem.anchor = NONE, !.mem.outage = NONE])
  IN  BeginActive(fresh, FALSE)

\* Rows that a crash may leave of it: those of the old run as they were, saved, or
\* abandoned, and those of the new run.
Abandons(d) ==
  /\ db.state \notin {"completed", "stopped_manual"}
  /\ d.state = "stopped_manual" /\ d.test = db.test
  /\ d.reason = "restarted" /\ d.origin = NONE /\ d.deadline = NONE

RestartLeaves(d) ==
  \/ d = db
  \/ Face(d) = Face(db) /\ db.state # "stopped_manual"
  \/ Abandons(d)
  \/ Face(d) = <<"not_started", 1, NONE>>
  \/ Face(d) = <<"running_snapshot", 1, NONE>>

\* A new run has no open phase, and none of the earlier runs has one.
LEMMA CreateRunGood ==
  ASSUME NEW s, Good(s), s.mem.phase = NONE
  PROVE  LET orphans == s.db.orphans \/ \E r \in Rows : s.db.open[r] > 0
             t == Write(s, CreateRun(orphans))
         IN  /\ Good(t) /\ t.mem = s.mem /\ t.db = CreateRun(FALSE)
             /\ t.log = s.log \cup {s.db}
<1> DEFINE orphans == s.db.orphans \/ \E r \in Rows : s.db.open[r] > 0
           d == CreateRun(FALSE)
<1>1. /\ \A r \in Rows : ~(s.db.open[r] > 0)
      /\ s.db.orphans = FALSE /\ s.db \in Disk
  BY NoneAssumption, SectionFacts DEF Good, GoodDisk, Disk
<1>2. orphans = FALSE
  BY <1>1
<1> HIDE DEF orphans
<1>3. d \in Disk
  <2>1. 1 \in Tests
    BY TestAssumption DEF Tests
  <2>2. [r \in Rows |-> 0] \in [Rows -> Nat] /\ [n \in Tests |-> 0] \in [Tests -> 0..2]
    OBVIOUS
  <2> QED BY <2>1, <2>2, TypeFacts DEF CreateRun, Disk, States, Reasons
<1>4. d.open = s.db.open
  <2>1. s.db.open \in [Rows -> Nat]
    BY <1>1 DEF Disk
  <2>2. \A r \in Rows : s.db.open[r] = 0
    BY <1>1, <2>1
  <2>3. s.db.open = [r \in Rows |-> 0]
    BY <2>1, <2>2
  <2> QED BY <2>3 DEF CreateRun
<1>5. d.orphans = s.db.orphans /\ d.state \notin Resting
  BY <1>1 DEF CreateRun, Resting
<1> HIDE DEF d
<1> QED BY <1>2, <1>3, <1>4, <1>5, FreeWrite DEF d, orphans

LEMMA RestartSettles ==
  ASSUME DataInv, proc = "up", CanDetach
  PROVE  /\ Settled(Restarted)
         /\ Controls(Restarted.mem) = Controls(DetachRunner(Now).mem)
         /\ Face(Restarted.db) = <<"running_snapshot", 1, NONE>>
         /\ \A d \in Restarted.log : RestartLeaves(d)
<1> DEFINE s == DetachRunner(Now)
           u == IF db.state \in Active THEN CheckpointActive(s) ELSE s
           saved == EndPhase(u, "restarted")
           d == [saved.db EXCEPT !.state = "stopped_manual", !.reason = "restarted",
                                 !.origin = NONE, !.deadline = NONE]
           closed == IF db.state \in {"completed", "stopped_manual"} THEN s ELSE Write(saved, d)
           orphans == closed.db.orphans \/ \E r \in Rows : closed.db.open[r] > 0
           created == Write(closed, CreateRun(orphans))
           begun == Write(created, [created.db EXCEPT !.state = "running_snapshot"])
           fresh == ResetStreamTracking([begun EXCEPT !.mem.anchor = NONE, !.mem.outage = NONE])
<1>1. Restarted = BeginActive(fresh, FALSE) /\ proc # "down"
  BY DEF Restarted
<1>2. /\ Good(Now) /\ Now.db = db /\ Now.mem = mem
      /\ Good(s) /\ s.mem.phase = mem.phase /\ s.db = db /\ s.log = {}
  BY <1>1, RunningFacts, DetachRunnerRetains, NowFacts DEF CanDetach, Retains
<1> HIDE DEF s
<1>3. /\ Good(closed) /\ closed.mem.phase = NONE
      /\ Controls(closed.mem) = Controls(s.mem)
      /\ \A f \in closed.log \cup {closed.db} : RestartLeaves(f)
  <2>1. CASE db.state \in {"completed", "stopped_manual"}
    BY <1>2, <2>1, IdleFacts DEF Resumable, Active, Resting, RestartLeaves
  <2>2. CASE db.state \notin {"completed", "stopped_manual"}
    <3>1. Good(u) /\ Quiet(s, u) /\ u.db.test = s.db.test
      BY <1>2, CheckpointActiveKeeps, KeepsSame DEF Keeps
    <3> HIDE DEF u
    <3>2. /\ Good(saved) /\ saved.mem.phase = NONE /\ saved.db \in Disk
          /\ Quiet(s, saved) /\ saved.db.test = db.test
      BY <1>2, <3>1, EndPhaseGood, SectionFacts, QuietTransitive
    <3> HIDE DEF saved
    <3>3. /\ d \in Disk /\ d.open = saved.db.open /\ d.orphans = saved.db.orphans
          /\ d.state = "stopped_manual" /\ Abandons(d)
      BY <2>2, <3>2, TypeFacts DEF Disk, States, Reasons, Abandons
    <3> HIDE DEF d
    <3>4. /\ Good(Write(saved, d)) /\ Write(saved, d).mem = saved.mem
          /\ Write(saved, d).db = d /\ Write(saved, d).log = saved.log \cup {saved.db}
      BY <3>2, <3>3, FreeWrite DEF Resting
    <3>5. \A f \in saved.log \cup {saved.db} : f = db \/ Face(f) = Face(db)
      BY <1>2, <3>2 DEF Quiet, Moves
    <3>6. \A f \in saved.log \cup {saved.db, d} : RestartLeaves(f)
      BY <2>2, <3>3, <3>5 DEF RestartLeaves
    <3>7. Controls(saved.mem) = Controls(s.mem)
      BY <3>2 DEF Quiet, Moves
    <3> QED BY <2>2, <3>2, <3>4, <3>6, <3>7
  <2> QED BY <2>1, <2>2
<1> HIDE DEF closed
<1>4. /\ Good(created) /\ created.mem.phase = NONE
      /\ created.db \in Disk /\ created.db = CreateRun(FALSE)
      /\ created.mem = closed.mem /\ created.log = closed.log \cup {closed.db}
  BY <1>3, CreateRunGood, SectionFacts
<1> HIDE DEF created
<1> DEFINE e == [created.db EXCEPT !.state = "running_snapshot"]
<1>5. /\ Good(begun) /\ begun.mem.phase = NONE /\ begun.db = e /\ begun.db.state \in Active
      /\ begun.mem = created.mem /\ begun.log = created.log \cup {created.db}
      /\ Face(begun.db) = <<"running_snapshot", 1, NONE>>
  <2>0. created.db.test = 1 /\ created.db.deadline = NONE
    BY <1>4 DEF CreateRun
  <2>1. /\ e \in Disk /\ e.open = created.db.open /\ e.orphans = created.db.orphans
        /\ e.state = "running_snapshot" /\ Face(e) = <<"running_snapshot", 1, NONE>>
    BY <1>4, <2>0 DEF Disk, States, Resumable, Active, Face
  <2> HIDE DEF e
  <2>2. /\ Good(Write(created, e)) /\ Write(created, e).mem = created.mem
        /\ Write(created, e).db = e
        /\ Write(created, e).log = created.log \cup {created.db}
    BY <1>4, <2>1, FreeWrite DEF Resting
  <2>3. begun = Write(created, e)
    BY DEF e
  <2> HIDE DEF begun
  <2> QED BY <1>4, <2>1, <2>2, <2>3 DEF Active
<1> HIDE DEF begun
<1>6. /\ Good(fresh) /\ fresh.mem.phase = NONE /\ fresh.db.state \in Active
      /\ Quiet(begun, fresh)
  <2> DEFINE v == [begun EXCEPT !.mem.anchor = NONE]
             w == [v EXCEPT !.mem.outage = NONE]
  <2>1. Keeps(begun, v)
    BY <1>5, AnchorKeeps, TypeFacts
  <2>2. Keeps(v, w)
    BY <2>1, OutageKeeps, TypeFacts DEF Keeps
  <2>3. fresh = ResetStreamTracking(w)
    BY <1>5, SectionFacts DEF Section
  <2> HIDE DEF v, w, fresh
  <2>4. Keeps(w, fresh)
    BY <2>2, <2>3, ResetStreamTrackingKeeps DEF Keeps
  <2>5. Keeps(begun, fresh)
    BY <2>1, <2>2, <2>4, KeepsTransitive
  <2> QED BY <1>5, <2>5 DEF Keeps
<1> HIDE DEF fresh
<1> DEFINE t == BeginActive(fresh, FALSE)
           f == <<"running_snapshot", 1, NONE>>
<1>7. Settled(t) /\ Moves(fresh, t, f)
  <2>1. fresh.db.state = "running_snapshot" /\ fresh.db.test = 1
    BY <1>5, <1>6 DEF Quiet, Moves, Face
  <2> QED BY <1>6, <2>1, BeginActiveSettles
<1> HIDE DEF t
<1>8. Moves(begun, t, f)
  BY <1>6, <1>7, MovesTransitive
<1>9. Controls(t.mem) = Controls(s.mem) /\ Face(t.db) = f
  BY <1>3, <1>4, <1>5, <1>8 DEF Moves
<1>10. Face(created.db) = <<"not_started", 1, NONE>>
  BY <1>4 DEF Face, CreateRun
<1>11. \A d1 \in begun.log \cup {begun.db} : RestartLeaves(d1)
  BY <1>3, <1>4, <1>5, <1>10 DEF RestartLeaves
<1>12. \A d1 \in t.log : RestartLeaves(d1)
  BY <1>5, <1>8, <1>11 DEF Moves, RestartLeaves
<1> QED BY <1>1, <1>7, <1>9, <1>12 DEF t, s

LEMMA RestartInv ==
  ASSUME DataInv, Restart
  PROVE  DataInv'
<1>1. proc = "up" /\ CanDetach /\ Atomic(StartRunner(Restarted), proc)
  BY DEF Restart, Restarted
<1> QED BY <1>1, RestartSettles, AtomicStarted DEF Processes

LEMMA ContinueInv ==
  ASSUME DataInv, NEW c \in Callers,
         ContinueRequested(c) \/ ContinueRefused(c) \/ ContinueVerified(c)
  PROVE  DataInv'
<1>1. /\ proc # "down" /\ Good(Now) /\ Now.mem = mem /\ Now.db = db
      /\ mem.generation \in Generations /\ proc \in Processes
  BY RunningFacts, SectionFacts DEF ContinueRequested, ContinueRefused, ContinueVerified, Memory
<1>2. CASE ContinueRequested(c) \/ ContinueRefused(c)
  <2>1. \/ Atomic([Now EXCEPT !.mem.call[c] = mem.generation], proc)
        \/ Atomic([Now EXCEPT !.mem.call[c] = NONE], proc)
    BY <1>2 DEF ContinueRequested, ContinueRefused
  <2>2. /\ Retains(Now, [Now EXCEPT !.mem.call[c] = mem.generation])
        /\ Retains(Now, [Now EXCEPT !.mem.call[c] = NONE])
    BY <1>1, CallRetains, TypeFacts
  <2>3. ASSUME NEW s, Retains(Now, s), Atomic(s, proc)
        PROVE  DataInv'
    BY <1>1, <2>3, RunningFacts, RetainsSettled, AtomicInv DEF Retains
  <2> QED BY <2>1, <2>2, <2>3
<1>3. CASE ContinueVerified(c)
  <2> DEFINE v == [Now EXCEPT !.mem.call[c] = NONE]
             w == DetachRunner(v)
             s == EndPhase(w, "continued_early")
             t == AdvanceAfterRecovery(s)
  <2>1. /\ CanDetach
        /\ Atomic(StartRunner(t), proc) \/ Atomic(t, proc)
    BY <1>3 DEF ContinueVerified
  <2>2. Good(v) /\ v.mem.generation = mem.generation
    <3>1. Good(v)
      BY <1>1, CallRetains, TypeFacts DEF Retains
    <3>2. mem \in Memory
      BY DEF DataInv
    <3> QED BY <3>1, <3>2 DEF Now, Memory
  <2> HIDE DEF v
  <2>3. Good(w)
    BY <2>1, <2>2, DetachRunnerRetains DEF CanDetach, Retains
  <2> HIDE DEF w
  <2>4. Good(s) /\ s.mem.phase = NONE
    BY <2>3, EndPhaseGood
  <2> HIDE DEF s
  <2>5. Settled(t)
    BY <2>4, AdvanceAfterRecoverySettles
  <2> HIDE DEF t
  <2> QED BY <1>1, <2>1, <2>5, AtomicStarted
<1> QED BY <1>2, <1>3

LEMMA ShutdownInv ==
  ASSUME DataInv, Shutdown
  PROVE  DataInv'
<1> DEFINE s == DetachRunner(Now)
           u == [CheckpointActive(s) EXCEPT !.mem.anchor = NONE]
           t == EndPhase(u, "paused_shutdown")
<1>1. CanDetach /\ (Atomic(t, "closing") \/ Atomic(s, "closing")) /\ proc # "down"
  BY DEF Shutdown
<1>2. Good(Now) /\ Now.mem = mem
  BY <1>1, RunningFacts
<1>3. Good(s)
  BY <1>1, <1>2, DetachRunnerRetains DEF CanDetach, Retains
<1> HIDE DEF s
<1>4. Good(CheckpointActive(s))
  BY <1>3, CheckpointActiveKeeps DEF Keeps
<1>5. Good(u)
  BY <1>4, AnchorKeeps, TypeFacts DEF Keeps
<1> HIDE DEF u
<1>6. Good(t)
  BY <1>5, EndPhaseGood
<1> HIDE DEF t
<1> QED BY <1>1, <1>3, <1>6, AtomicInv DEF Processes

LEMMA GetStatusInv ==
  ASSUME DataInv, GetStatus
  PROVE  DataInv'
BY RunningFacts, RefreshStreamOutageKeeps, AtomicKeeps DEF GetStatus

LEMMA ExitInv ==
  ASSUME DataInv, Exit
  PROVE  DataInv'
<1>1. GoodDisk(db)'
  BY DEF DataInv, Exit, GoodDisk, RowOf
<1> QED BY <1>1, NewMemoryFacts DEF DataInv, Exit, Processes

(* Time leaves the phases and the state alone.                             *)
LEMMA OlderFacts ==
  /\ \A a \in OrNone(TestTimes) : Older(a, TestDuration) \in OrNone(TestTimes)
  /\ \A a \in OrNone(OutageTimes) : Older(a, FatalOutage) \in OrNone(OutageTimes)
  /\ \A a \in OrNone(ByteAges) : Older(a, FatalOutage + 1) \in OrNone(ByteAges)
<1>1. \A a \in Nat : a + 1 \in Nat
  OBVIOUS
<1>2. /\ \A a \in OrNone(TestTimes) : a = NONE \/ a \in Nat
      /\ \A a \in OrNone(OutageTimes) : a = NONE \/ a \in Nat
      /\ \A a \in OrNone(ByteAges) : a = NONE \/ a \in Nat
  BY DurationAssumption DEF OrNone, TestTimes, OutageTimes, ByteAges
<1>3. \A a \in Nat : /\ Cap(a + 1, TestDuration) \in TestTimes
                     /\ Cap(a + 1, FatalOutage) \in OutageTimes
                     /\ Cap(a + 1, FatalOutage + 1) \in ByteAges
  BY <1>1, CapFacts
<1> QED BY <1>2, <1>3, TypeFacts DEF Older

LEMMA AgedFacts ==
  ASSUME NEW m \in Memory
  PROVE  Aged(m) \in Memory /\ Aged(m).phase = m.phase
BY OlderFacts DEF Aged, Memory

LEMMA TickInv ==
  ASSUME DataInv, Tick
  PROVE  DataInv'
<1> DEFINE left == IF db.deadline = NONE \/ db.deadline = 0 THEN db.deadline
                   ELSE db.deadline - 1
           e == [db EXCEPT !.deadline = left, !.outChecked = Older(@, FatalOutage)]
<1>1. GoodDisk(db) /\ db \in Disk /\ mem \in Memory /\ proc \in Processes
  BY DEF DataInv, GoodDisk
<1>2. /\ db' = e /\ proc' = proc
      /\ proc = "down" => mem' = mem
      /\ proc # "down" => mem' = Aged(mem)
  BY DEF Tick
<1>3. left \in OrNone(RecoveryTimes) /\ (db.deadline # NONE => left # NONE)
  <2>1. db.deadline \in OrNone(RecoveryTimes)
    BY <1>1 DEF Disk
  <2> QED BY <2>1, DurationAssumption, NoneAssumption DEF OrNone, RecoveryTimes
<1> HIDE DEF left
<1>4. /\ e \in Disk /\ e.state = db.state /\ e.test = db.test /\ e.open = db.open
      /\ e.orphans = db.orphans /\ (db.deadline # NONE => e.deadline # NONE)
  BY <1>1, <1>3, OlderFacts DEF Disk
<1> HIDE DEF e
<1>5. RowOf(e) = RowOf(db)
  BY <1>4 DEF RowOf
<1>6. GoodDisk(e)
  BY <1>1, <1>4, <1>5 DEF GoodDisk
<1>7. GoodDisk(db)' /\ mem' \in Memory /\ mem'.phase = mem.phase /\ proc' \in Processes
  <2>1. GoodDisk(db)'
    BY <1>2, <1>6 DEF GoodDisk, RowOf
  <2> QED BY <1>1, <1>2, <2>1, AgedFacts
<1>8. ASSUME proc # "down"
      PROVE  Good(Now)'
  <2>1. Good(Now)
    BY <1>8 DEF DataInv
  <2>2. Now' = [db |-> e, mem |-> mem', log |-> {}]
    BY <1>2 DEF Now
  <2>3. Good([db |-> e, mem |-> mem', log |-> {}])
    BY <1>4, <1>6, <1>7, <2>1, NowFacts DEF Good, Section
  <2> QED BY <2>2, <2>3 DEF Good
<1>9. ASSUME proc = "up"
      PROVE  Settled(Now)'
  <2>1. mem.phase = RowOf(db)
    BY <1>9, NowFacts DEF DataInv, Settled
  <2>2. mem'.phase = RowOf(db)'
    BY <1>2, <1>5, <1>7, <2>1 DEF RowOf
  <2>3. Good(Now)'
    BY <1>8, <1>9
  <2>4. Now' = [db |-> db', mem |-> mem', log |-> {}]
    BY DEF Now
  <2> QED BY <2>2, <2>3, <2>4 DEF Settled, RowOf
<1> QED BY <1>2, <1>7, <1>8, <1>9 DEF DataInv

-----------------------------------------------------------------------------
(* The inductive invariant.                                                *)

LEMMA InitIInv ==
  ASSUME Init
  PROVE  IInv
<1>1. CreateRun(FALSE) \in Disk
  <2>1. 1 \in Tests
    BY TestAssumption DEF Tests
  <2>2. [r \in Rows |-> 0] \in [Rows -> Nat] /\ [n \in Tests |-> 0] \in [Tests -> 0..2]
    OBVIOUS
  <2> QED BY <2>1, <2>2, TypeFacts DEF CreateRun, Disk, States, Reasons
<1>2. GoodDisk(db)
  <2>1. \A r \in Rows : ~(db.open[r] > 0)
    BY DEF Init, CreateRun
  <2>2. ~db.orphans /\ db.state = "not_started"
    BY DEF Init, CreateRun
  <2> QED BY <1>1, <2>1, <2>2, FreeRow DEF Init, Resting
<1>3. DataInv
  BY <1>2, NewMemoryFacts DEF Init, DataInv, Processes
<1>4. HistoryInv
  BY TypeFacts DEF Init, HistoryInv
<1> QED BY <1>3, <1>4 DEF IInv

(* Every step of Next keeps the data: one step per action.                 *)
LEMMA NextDataInv ==
  ASSUME DataInv, Next
  PROVE  DataInv'
<1>1. CASE Tick
  BY <1>1, TickInv
<1>2. ASSUME NEW g \in Generations, TaskStep(g)
      PROVE  DataInv'
  BY <1>2, DispatchInv, DetachedInv, SnapshotStepInv, RecoveryStepInv, StreamStepInv DEF TaskStep
<1>3. ASSUME NEW g \in Generations, OnBytes(g) \/ OnError(g)
      PROVE  DataInv'
  BY <1>3, CallbackInv
<1>4. CASE Control
  BY <1>4, StartNewInv, ResumeRecoveryInv, ResumeActiveInv, StopInv, ShutdownInv, GetStatusInv,
     ContinueInv DEF Control, Start
<1>5. CASE Initialize
  BY <1>5, InitializeInv
<1>6. CASE Exit
  BY <1>6, ExitInv
<1>7. CASE Restart
  BY <1>7, RestartInv
<1> QED BY <1>1, <1>2, <1>3, <1>4, <1>5, <1>6, <1>7 DEF Next

(* The history variables keep their types.                                 *)
LEMMA NextHistoryInv ==
  ASSUME IInv, DataInv', Next
  PROVE  HistoryInv'
<1>1. /\ worked \in TestTimes /\ rest \in RecoveryTimes /\ dark \in OutageTimes
      /\ torn \in BOOLEAN
  BY DEF IInv, HistoryInv
<1>2. worked + 1 \in Nat /\ rest + 1 \in Nat /\ dark + 1 \in Nat
  BY <1>1, DurationAssumption DEF TestTimes, RecoveryTimes, OutageTimes
<1>3. CASE Tick
  BY <1>1, <1>2, <1>3, CapFacts, TypeFacts DEF Tick, HistoryInv
<1>4. ASSUME NEW newRun \in BOOLEAN, NEW receipt \in BOOLEAN, Observe(newRun, receipt)
      PROVE  HistoryInv'
  <2>1. db'.elapsed \in TestTimes
    BY DEF DataInv, GoodDisk, Disk
  <2>2. Cap(db'.elapsed, worked) \in TestTimes
    BY <1>1, <2>1 DEF Cap
  <2> QED BY <1>1, <1>4, <2>2, TypeFacts DEF Observe, HistoryInv
<1> QED BY <1>3, <1>4 DEF Next

LEMMA StutterIInv ==
  ASSUME IInv, UNCHANGED vars
  PROVE  IInv'
<1>1. proc' = proc /\ db' = db /\ mem' = mem /\ UNCHANGED <<worked, rest, dark, torn>>
  BY DEF vars, history
<1> QED BY <1>1 DEF IInv, DataInv, HistoryInv, GoodDisk, Good, Settled, Now, RowOf

-----------------------------------------------------------------------------
(* The theorems.                                                           *)

(* IInv is an invariant of the runner, since every step keeps it.          *)
THEOREM Invariance == Spec => []IInv
<1>1. Init => IInv
  BY InitIInv
<1>2. IInv /\ [Next]_vars => IInv'
  BY NextDataInv, NextHistoryInv, StutterIInv DEF IInv
<1> QED BY <1>1, <1>2, PTL DEF Spec

(* Every variable keeps its type: no control, task, callback or crash of   *)
(* experiment.py closes a phase that storage.end_phase would refuse.       *)
THEOREM TypeCorrect == Spec => []TypeOK
<1>1. IInv => TypeOK
  BY DEF IInv, DataInv, HistoryInv, GoodDisk, TypeOK, Processes
<1> QED BY <1>1, Invariance, PTL

(* The phases of the rows agree with the state of the run, whatever crash, *)
(* stop or restart came before; _phase_id names the open one.              *)
THEOREM LedgerCorrect == Spec => []PhaseLedger
<1>1. IInv => PhaseLedger
  <2> SUFFICES ASSUME IInv
               PROVE  PhaseLedger
    OBVIOUS
  <2>1. GoodDisk(db) /\ db \in Disk
    BY DEF IInv, DataInv, GoodDisk
  <2>2. ASSUME proc = "up"
        PROVE  mem.phase = RowOf(db) /\ \A r \in Rows : r = RowOf(db) => db.open[r] = 1
    <3>1. Settled(Now) /\ Good(Now)
      BY <2>2 DEF IInv, DataInv, Settled
    <3>2. mem.phase = RowOf(db)
      BY <3>1, NowFacts DEF Settled
    <3>3. \A r \in Rows : r = mem.phase => db.open[r] > 0
      BY <3>1, NowFacts DEF Good
    <3> QED BY <2>1, <3>2, <3>3 DEF GoodDisk
  <2> QED BY <2>1, <2>2 DEF PhaseLedger, GoodDisk
<1> QED BY <1>1, Invariance, PTL

(* A run that waits has a deadline after any transaction, so the branch    *)
(* "recovery deadline is missing" of _run_recovery is dead code.           *)
THEOREM DeadlineCorrect == Spec => []RecoveryHasDeadline
<1>1. IInv => RecoveryHasDeadline
  BY DEF IInv, DataInv, GoodDisk, RecoveryHasDeadline
<1> QED BY <1>1, Invariance, PTL
=============================================================================
