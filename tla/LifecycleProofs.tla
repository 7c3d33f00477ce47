--------------------------- MODULE LifecycleProofs ---------------------------
(***************************************************************************)
(* ExperimentRunner implements ExperimentLifecycle, and keeps what it      *)
(* promises of its steps, for every number of tests, every duration, every *)
(* set of callers and every bound on the generations.                      *)
(*                                                                         *)
(* ExperimentProofs says of each method to which face it takes the         *)
(* experiment (Moves).  Here the faces become steps of the experiment, and *)
(* the inductive invariant says who may take them: only the task of the    *)
(* current generation, at a point that fits the state, and never in a run  *)
(* that has been stopped.                                                  *)
(***************************************************************************)
EXTENDS ExperimentRunnerProofs

\* States in which the runner has nothing to do until the user acts
Parked == {"not_started", "stopped_manual"}

SnapshotPoints == {"snapshot", "battery", "attempt", "capture", "checkpoint"}
RecoveryPoints == {"recovery", "recovery_battery"}

\* A running test is of its kind and has no deadline; the last one has completed.
Sound(f) ==
  /\ f[1] \in Active => f[1] = ActiveState(f[2]) /\ f[3] = NONE
  /\ f[1] = "completed" => f[2] = LastTest

\* Where the current task may be
PointFits(f, point) ==
  /\ point \in SnapshotPoints => f[1] \in {"running_snapshot", "stopped_error"} /\ f[2] # LastTest
  /\ point \in RecoveryPoints => f[1] \in Resting
  /\ point = "stream" => f[1] = "running_stream"
  /\ f[1] \in Parked => point = "none"

Current == mem.task[mem.generation]

ControlInv ==
  /\ Sound(Face(db))
  /\ proc # "down" =>
       /\ \A g \in Generations : g > mem.generation => mem.task[g] = "none"
       /\ \A c \in Callers : mem.call[c] # NONE => mem.call[c] <= mem.generation
       /\ db.state \in Parked => \A c \in Callers : mem.call[c] # mem.generation
       /\ PointFits(Face(db), Current)
  /\ proc = "up" /\ db.state \in Resumable => Current # "none"

-----------------------------------------------------------------------------
(* The faces to which the runner may take the experiment from the one it   *)
(* has.                                                                    *)

FinalFace ==
  IF db.test = LastTest THEN <<"completed", db.test, db.deadline>>
  ELSE <<"recovery", db.test, RecoveryDuration>>

LowFace == <<"stopped_low_battery", db.test, RecoveryDuration>>

ErrorFace == <<"stopped_error", db.test, NONE>>

Finishes(f) ==
  /\ db.state \in Active \/ (db.state = "stopped_error" /\ db.test # LastTest)
  /\ f = FinalFace

Lowers(f) == db.state \in Resumable /\ f = LowFace

Fails(f) == db.state \in Resumable \cup {"stopped_error"} /\ f = ErrorFace

NextFace ==
  IF db.test = LastTest THEN <<"completed", db.test, NONE>>
  ELSE <<ActiveState(db.test + 1), db.test + 1, NONE>>

Advances(f) ==
  /\ db.state \in Resting /\ db.deadline = 0
  /\ f = NextFace

Leads(f) == f = Face(db) \/ Finishes(f) \/ Lowers(f) \/ Fails(f) \/ Advances(f)

\* What a task does to the experiment
Proceeds == db.state \notin Parked /\ Leads(Face(db'))

-----------------------------------------------------------------------------
LEMMA FaceFacts ==
  ASSUME NEW d
  PROVE  Face(d)[1] = d.state /\ Face(d)[2] = d.test /\ Face(d)[3] = d.deadline
BY DEF Face

(* What Atomic leaves of a section that moves to the face f.               *)
LEMMA AtomicOutcome ==
  ASSUME NEW s, NEW f, Moves(Now, s, f), NEW p, Atomic(s, p)
  PROVE  /\ Face(db') \in {Face(db), f}
         /\ \/ proc' = "down" /\ mem' = NewMemory
            \/ proc' = p /\ Face(db') = f /\ mem' = s.mem
<1>1. CASE db' = s.db /\ mem' = s.mem /\ proc' = p
  BY <1>1 DEF Moves
<1>2. CASE \E d \in s.log : db' = d /\ mem' = NewMemory /\ proc' = "down"
  BY <1>2, NowFacts DEF Moves
<1> QED BY <1>1, <1>2 DEF Atomic

(* Starting or moving a task leaves the rows of the section alone.         *)
LEMMA RetainsMoves ==
  ASSUME NEW s, NEW t, Retains(s, t), NEW f, Moves(Now, s, f), NEW p, Atomic(t, p)
  PROVE  /\ Face(db') \in {Face(db), f}
         /\ \/ proc' = "down" /\ mem' = NewMemory
            \/ proc' = p /\ Face(db') = f /\ mem' = t.mem
<1>1. CASE db' = t.db /\ mem' = t.mem /\ proc' = p
  BY <1>1 DEF Moves, Retains
<1>2. CASE \E d \in t.log : db' = d /\ mem' = NewMemory /\ proc' = "down"
  BY <1>2, NowFacts DEF Moves, Retains
<1> QED BY <1>1, <1>2 DEF Atomic

(* A fresh process has no task and no request.                             *)
LEMMA CrashFits ==
  ASSUME Sound(Face(db')), proc' = "down"
  PROVE  ControlInv'
<1>1. Sound(Face(db))'
  BY DEF Sound, Face, Active, ActiveState, IsStream
<1> QED BY <1>1 DEF ControlInv

LEMMA LeadsSound ==
  ASSUME DataInv, ControlInv, NEW f, Leads(f)
  PROVE  Sound(f)
<1>1. db \in Disk /\ db.test \in Tests /\ db.state \in States
  BY DEF DataInv, GoodDisk, Disk
<1>2. CASE f = Face(db)
  BY <1>2 DEF ControlInv
<1>3. CASE Finishes(f)
  BY <1>3 DEF Finishes, FinalFace, Sound, Active
<1>4. CASE Lowers(f) \/ Fails(f)
  BY <1>4 DEF Lowers, LowFace, Fails, ErrorFace, Sound, Active
<1>5. CASE Advances(f)
  BY <1>5, ActiveStateFacts DEF Advances, NextFace, Sound, Active, ActiveState
<1> QED BY <1>2, <1>3, <1>4, <1>5 DEF Leads

(* A step of the current task that runs a section and waits at a point.    *)
LEMMA RunProceeds ==
  ASSUME DataInv, ControlInv, proc # "down", db.state \notin Parked,
         NEW g \in Generations, Owns(g), NEW s, Good(s),
         NEW f, Moves(Now, s, f), Leads(f), f[1] \notin Parked,
         NEW point \in Points, PointFits(f, point), f[1] \in Resumable => point # "none",
         Run(g, s, point)
  PROVE  ControlInv' /\ Proceeds
<1> DEFINE t == [s EXCEPT !.mem.task[g] = point]
<1>1. Retains(s, t) /\ t.mem = [s.mem EXCEPT !.task = [@ EXCEPT ![g] = point]]
  BY TaskRetains
<1>2. Atomic(t, proc)
  BY DEF Run
<1> HIDE DEF t
<1>3. /\ Face(db') \in {Face(db), f}
      /\ \/ proc' = "down" /\ mem' = NewMemory
         \/ proc' = proc /\ Face(db') = f /\ mem' = t.mem
  BY <1>1, <1>2, RetainsMoves
<1>4. Leads(Face(db')) /\ Sound(Face(db'))
  BY <1>3, LeadsSound DEF Leads
<1>5. CASE proc' = "down"
  BY <1>4, <1>5, CrashFits DEF Proceeds
<1>6. CASE proc' = proc /\ Face(db') = f /\ mem' = t.mem
  <2>1. mem \in Memory /\ s.mem \in Memory
    BY SectionFacts DEF DataInv
  <2>2. s.mem.generation = mem.generation /\ s.mem.task = mem.task /\ s.mem.call = mem.call
    BY NowFacts DEF Moves, Controls
  <2>3. /\ mem'.generation = mem.generation /\ mem'.call = mem.call
        /\ mem'.task = [mem.task EXCEPT ![g] = point]
    BY <1>1, <1>6, <2>1, <2>2 DEF Memory
  <2>4. /\ g = mem.generation /\ mem.task \in [Generations -> Points]
    BY <2>1 DEF Owns, Memory
  <2>5. mem'.task[mem'.generation] = point
    BY <2>3, <2>4
  <2>6. f[1] = db'.state
    BY <1>6, FaceFacts
  <2>7. \A h \in Generations : h > mem'.generation => mem'.task[h] = "none"
    BY <2>3, <2>4 DEF ControlInv, Generations
  <2>8. Sound(Face(db))' /\ PointFits(Face(db), Current)'
    BY <1>4, <1>6, <2>5
       DEF Sound, PointFits, Current, Face, Active, Resting, ActiveState, IsStream, Parked,
           SnapshotPoints, RecoveryPoints
  <2> QED BY <1>4, <1>6, <2>3, <2>5, <2>6, <2>7, <2>8 DEF ControlInv, Proceeds, Current, Parked, Resumable, Active, Resting
<1> QED BY <1>3, <1>5, <1>6

-----------------------------------------------------------------------------
(* The methods, from a section that has kept the rows so far.              *)
LEMMA NowMoves ==
  Moves(Now, Now, Face(db))
BY NowFacts DEF Moves

LEMMA KeepsMoves ==
  ASSUME NEW s, Keeps(Now, s)
  PROVE  Good(s) /\ Moves(Now, s, Face(db)) /\ s.db.test = db.test /\ s.db.deadline = db.deadline
         /\ s.db.state = db.state
BY NowFacts DEF Keeps, Quiet

LEMMA MethodMoves ==
  ASSUME NEW s, Keeps(Now, s), db.test \in Tests
  PROVE  /\ Good(FinishActive(s)) /\ Moves(Now, FinishActive(s), FinalFace)
         /\ Good(TransitionLowBattery(s)) /\ Moves(Now, TransitionLowBattery(s), LowFace)
         /\ Good(TransitionLowDuringRecovery(s))
         /\ Moves(Now, TransitionLowDuringRecovery(s), LowFace)
         /\ Good(TransitionError(s)) /\ Moves(Now, TransitionError(s), ErrorFace)
         /\ Good(NoteFailure(s))
         /\ IF OutageIsFatal(s) THEN Moves(Now, NoteFailure(s), ErrorFace)
            ELSE Moves(Now, NoteFailure(s), Face(db))
<1>1. /\ Good(s) /\ Quiet(Now, s) /\ s.db.test = db.test /\ s.db.deadline = db.deadline
      /\ Face(s.db) = Face(db) /\ Face(Now.db) = Face(db)
  BY NowFacts DEF Keeps, Quiet, Moves
<1>2. Good(FinishActive(s)) /\ Moves(s, FinishActive(s), FinalFace)
  BY <1>1, FinishActiveSettles DEF FinalFace, Settled
<1>3. Good(TransitionLowBattery(s)) /\ Moves(s, TransitionLowBattery(s), LowFace)
  BY <1>1, TransitionLowBatterySettles DEF LowFace, Settled
<1>4. Good(TransitionLowDuringRecovery(s)) /\ Moves(s, TransitionLowDuringRecovery(s), LowFace)
  BY <1>1, TransitionLowDuringRecoverySettles DEF LowFace, Settled
<1>5. Good(TransitionError(s)) /\ Moves(s, TransitionError(s), ErrorFace)
  BY <1>1, TransitionErrorSettles DEF ErrorFace, Settled
<1>6. /\ Good(NoteFailure(s))
      /\ IF OutageIsFatal(s) THEN Moves(s, NoteFailure(s), ErrorFace) ELSE Quiet(s, NoteFailure(s))
  BY <1>1, NoteFailureGood DEF ErrorFace
<1>7. ~OutageIsFatal(s) => Moves(Now, NoteFailure(s), Face(db))
  BY <1>1, <1>6, QuietTransitive DEF Quiet
<1> QED BY <1>1, <1>2, <1>3, <1>4, <1>5, <1>6, <1>7, MovesTransitive

LEMMA AdvanceMoves ==
  ASSUME NEW s, Good(s), Quiet(Now, s), s.db.test = db.test, s.mem.phase = NONE
  PROVE  Settled(AdvanceAfterRecovery(s)) /\ Moves(Now, AdvanceAfterRecovery(s), NextFace)
<1>1. Settled(AdvanceAfterRecovery(s)) /\ Moves(s, AdvanceAfterRecovery(s), NextFace)
  BY AdvanceAfterRecoverySettles DEF NextFace
<1> QED BY <1>1, MovesTransitive

(* A step of the current task finds the experiment in progress.            *)
LEMMA OwnerFacts ==
  ASSUME DataInv, ControlInv, proc # "down", NEW g \in Generations, Owns(g), mem.task[g] # "none"
  PROVE  /\ db.state \notin Parked
         /\ PointFits(Face(db), mem.task[g])
         /\ Good(Now) /\ Keeps(Now, Now)
         /\ db \in Disk /\ db.state \in States /\ db.test \in Tests
BY RunningFacts, SectionFacts, FaceFacts DEF ControlInv, Owns, Current, PointFits, Disk

-----------------------------------------------------------------------------
(* The steps of a task.                                                    *)

LEMMA DispatchProceeds ==
  ASSUME DataInv, ControlInv, NEW g \in Generations, Dispatch(g)
  PROVE  ControlInv' /\ Proceeds
<1>1. proc # "down" /\ Owns(g) /\ mem.task[g] # "none"
  BY DEF Dispatch, At
<1>2. /\ db.state \notin Parked /\ Good(Now) /\ Keeps(Now, Now)
      /\ db.state \in States /\ db.test \in Tests /\ Sound(Face(db))
  BY <1>1, OwnerFacts DEF ControlInv
<1>3. CASE db.state = "running_snapshot" /\ Run(g, FinishActive(Now), "dispatch")
  <2>1. /\ Good(FinishActive(Now)) /\ Moves(Now, FinishActive(Now), FinalFace)
        /\ Leads(FinalFace)
    BY <1>2, <1>3, MethodMoves DEF Leads, Finishes, Active
  <2>2. FinalFace[1] \notin Parked /\ PointFits(FinalFace, "dispatch")
    BY DEF FinalFace, Parked, PointFits, SnapshotPoints, RecoveryPoints
  <2> QED BY <1>1, <1>2, <1>3, <2>1, <2>2, RunProceeds DEF Points
<1>4. CASE db.state \in Resting /\ Run(g, TransitionError(Now), "dispatch")
  <2>1. /\ Good(TransitionError(Now)) /\ Moves(Now, TransitionError(Now), ErrorFace)
        /\ Leads(ErrorFace)
    BY <1>2, <1>4, MethodMoves DEF Leads, Fails, Resumable
  <2>2. ErrorFace[1] \notin Parked /\ PointFits(ErrorFace, "dispatch")
    BY DEF ErrorFace, Parked, PointFits, SnapshotPoints, RecoveryPoints
  <2> QED BY <1>1, <1>2, <1>4, <2>1, <2>2, RunProceeds DEF Points
<1>5. ASSUME NEW point \in Points, Run(g, Now, point),
             \/ db.state = "running_snapshot" /\ point = "battery"
             \/ db.state = "running_stream" /\ point = "stream"
             \/ db.state \in Resting /\ point = "recovery_battery"
             \/ db.state \notin Resumable /\ point = "none"
      PROVE  ControlInv' /\ Proceeds
  <2>1. Moves(Now, Now, Face(db)) /\ Leads(Face(db)) /\ Face(db)[1] \notin Parked
    BY <1>2, NowMoves, FaceFacts DEF Leads
  <2>2. PointFits(Face(db), point) /\ (Face(db)[1] \in Resumable => point # "none")
    BY <1>2, <1>5, FaceFacts, TestAssumption
       DEF PointFits, Sound, SnapshotPoints, RecoveryPoints, ActiveState, IsStream, Active,
           Resting, Resumable, Parked
  <2> QED BY <1>1, <1>2, <1>5, <2>1, <2>2, RunProceeds
<1> QED BY <1>3, <1>4, <1>5 DEF Dispatch, Points

(* A cancelled task leaves the experiment alone.                           *)
LEMMA DetachedKeeps ==
  ASSUME DataInv, ControlInv, NEW g \in Generations, Detached(g)
  PROVE  ControlInv' /\ db' = db
<1> DEFINE point == IF mem.task[g] = "stream" THEN "stream_exit" ELSE "none"
           t == [Now EXCEPT !.mem.task[g] = point]
<1>1. proc # "down" /\ mem.task[g] # "none" /\ ~Owns(g) /\ Atomic(t, proc)
  BY DEF Detached, Run
<1>2. Good(Now) /\ mem \in Memory /\ point \in Points
  BY <1>1, RunningFacts DEF DataInv, Points
<1> HIDE DEF point
<1>3. Retains(Now, t) /\ t.mem = [mem EXCEPT !.task = [@ EXCEPT ![g] = point]]
  BY <1>2, TaskRetains, NowFacts
<1> HIDE DEF t
<1>4. db' = db /\ mem' = t.mem /\ proc' = proc
  BY <1>1, <1>3, NowFacts DEF Atomic, Retains
<1>5. /\ mem'.generation = mem.generation /\ mem'.call = mem.call
      /\ mem'.task = [mem.task EXCEPT ![g] = point]
      /\ mem.task \in [Generations -> Points] /\ mem.generation \in Generations
  BY <1>2, <1>3, <1>4 DEF Memory
<1>6. g # mem.generation /\ ~(g > mem.generation)
  BY <1>1 DEF Owns, ControlInv
<1>7. /\ mem'.task[mem'.generation] = mem.task[mem.generation]
      /\ \A h \in Generations : h > mem'.generation => mem'.task[h] = mem.task[h]
  BY <1>5, <1>6
<1>8. Current' = Current
  BY <1>7 DEF Current
<1> QED BY <1>1, <1>4, <1>5, <1>7, <1>8 DEF ControlInv, Sound, PointFits, Face, ActiveState, IsStream

LEMMA SnapshotStepProceeds ==
  ASSUME DataInv, ControlInv, NEW g \in Generations, SnapshotStep(g)
  PROVE  ControlInv' /\ Proceeds
<1>1. /\ proc # "down" /\ Owns(g) /\ mem.task[g] # "none"
      /\ mem.task[g] \in SnapshotPoints
  BY DEF SnapshotStep, SnapshotLoop, BatteryRead, BatteryFailed, Attempt, Captured,
         CaptureFailed, Checkpoint, At, SnapshotPoints
<1>2. /\ db.state \notin Parked /\ Good(Now) /\ Keeps(Now, Now)
      /\ db.state \in States /\ db.test \in Tests /\ Sound(Face(db))
      /\ db.state \in {"running_snapshot", "stopped_error"} /\ db.test # LastTest
  BY <1>1, OwnerFacts, FaceFacts DEF ControlInv, PointFits
<1>3. /\ Leads(FinalFace) /\ Leads(ErrorFace) /\ Leads(Face(db))
      /\ db.state \in Active => Leads(LowFace)
      /\ Face(db)[1] = db.state
  BY <1>2, FaceFacts DEF Leads, Finishes, Lowers, Fails, Active, Resumable
<1>4. /\ FinalFace[1] \notin Parked /\ PointFits(FinalFace, "dispatch")
      /\ LowFace[1] \notin Parked /\ PointFits(LowFace, "dispatch")
      /\ ErrorFace[1] \notin Parked /\ ErrorFace[1] \notin Resumable
      /\ \A point \in SnapshotPoints \cup {"dispatch"} :
            PointFits(ErrorFace, point) /\ PointFits(Face(db), point)
  BY <1>2, FaceFacts DEF FinalFace, LowFace, ErrorFace, Parked, PointFits, SnapshotPoints,
     RecoveryPoints, Resumable, Active, Resting
<1>5. \A point \in SnapshotPoints \cup {"dispatch"} : point \in Points /\ point # "none"
  BY DEF SnapshotPoints, Points
<1>6. ASSUME NEW s, Keeps(Now, s), NEW point \in SnapshotPoints \cup {"dispatch"}, Run(g, s, point)
      PROVE  ControlInv' /\ Proceeds
  <2>1. Good(s) /\ Moves(Now, s, Face(db))
    BY <1>6, KeepsMoves
  <2> QED BY <1>1, <1>2, <1>3, <1>4, <1>5, <1>6, <2>1, RunProceeds
<1>7. CASE Run(g, FinishActive(Now), "dispatch")
  <2>1. Good(FinishActive(Now)) /\ Moves(Now, FinishActive(Now), FinalFace)
    BY <1>2, MethodMoves
  <2> QED BY <1>1, <1>3, <1>4, <1>5, <1>2, <1>7, <2>1, RunProceeds
<1>8. ASSUME NEW point \in SnapshotPoints \cup {"dispatch"}, Run(g, NoteFailure(Now), point)
      PROVE  ControlInv' /\ Proceeds
  <2>1. /\ Good(NoteFailure(Now))
        /\ \/ Moves(Now, NoteFailure(Now), ErrorFace)
           \/ Moves(Now, NoteFailure(Now), Face(db))
    BY <1>2, MethodMoves
  <2> QED BY <1>1, <1>2, <1>3, <1>4, <1>5, <1>8, <2>1, RunProceeds
<1>9. Keeps(Now, NoteSuccess(Now)) /\ Keeps(Now, CheckpointActive(Now))
  BY <1>2, NoteSuccessKeeps, CheckpointActiveKeeps
<1>10. CASE db.state \in Active /\ Run(g, TransitionLowBattery(NoteSuccess(Now)), "dispatch")
  <2>1. /\ Good(TransitionLowBattery(NoteSuccess(Now)))
        /\ Moves(Now, TransitionLowBattery(NoteSuccess(Now)), LowFace)
    BY <1>2, <1>9, MethodMoves
  <2> QED BY <1>1, <1>2, <1>3, <1>4, <1>5, <1>10, <2>1, RunProceeds
<1>11. CASE SnapshotLoop(g)
  BY <1>2, <1>6, <1>7, <1>11 DEF SnapshotLoop, SnapshotPoints
<1>12. ASSUME NEW reading, BatteryRead(g, reading)
       PROVE  ControlInv' /\ Proceeds
  BY <1>6, <1>9, <1>10, <1>12 DEF BatteryRead, SnapshotPoints
<1>13. CASE BatteryFailed(g)
  BY <1>8, <1>13 DEF BatteryFailed, SnapshotPoints
<1>14. CASE Attempt(g)
  BY <1>2, <1>6, <1>14 DEF Attempt, SnapshotPoints
<1>15. CASE Captured(g)
  BY <1>6, <1>9, <1>15 DEF Captured, SnapshotPoints
<1>16. CASE CaptureFailed(g)
  BY <1>8, <1>16 DEF CaptureFailed, SnapshotPoints
<1>17. CASE Checkpoint(g)
  BY <1>2, <1>6, <1>9, <1>17 DEF Checkpoint, SnapshotPoints
<1> QED BY <1>11, <1>12, <1>13, <1>14, <1>15, <1>16, <1>17 DEF SnapshotStep

LEMMA RecoveryStepProceeds ==
  ASSUME DataInv, ControlInv, NEW g \in Generations, RecoveryStep(g)
  PROVE  ControlInv' /\ Proceeds
<1>1. /\ proc # "down" /\ Owns(g) /\ mem.task[g] # "none"
      /\ mem.task[g] \in RecoveryPoints
  BY DEF RecoveryStep, RecoveryLoop, RecoveryRead, RecoveryReadFailed, At, RecoveryPoints
<1>2. /\ db.state \notin Parked /\ Good(Now) /\ Keeps(Now, Now)
      /\ db \in Disk /\ db.state \in States /\ db.test \in Tests /\ Sound(Face(db))
      /\ db.state \in Resting
  BY <1>1, OwnerFacts, FaceFacts DEF ControlInv, PointFits
<1>3. /\ Leads(ErrorFace) /\ Leads(Face(db)) /\ Leads(LowFace)
      /\ db.deadline = 0 => Leads(NextFace)
      /\ Face(db)[1] = db.state
  BY <1>2, FaceFacts DEF Leads, Lowers, Fails, Advances, Resumable
<1>4. /\ NextFace[1] \notin Parked /\ PointFits(NextFace, "dispatch")
      /\ LowFace[1] \notin Parked /\ PointFits(LowFace, "dispatch")
      /\ ErrorFace[1] \notin Parked /\ PointFits(ErrorFace, "dispatch")
      /\ \A point \in RecoveryPoints : PointFits(Face(db), point)
  BY <1>2, FaceFacts, ActiveStateFacts DEF NextFace, LowFace, ErrorFace, Parked, PointFits,
     SnapshotPoints, RecoveryPoints, Resting, Active
<1>5. \A point \in RecoveryPoints \cup {"dispatch"} : point \in Points /\ point # "none"
  BY DEF RecoveryPoints, Points
<1>6. ASSUME NEW s, Keeps(Now, s), NEW point \in RecoveryPoints, Run(g, s, point)
      PROVE  ControlInv' /\ Proceeds
  <2>1. Good(s) /\ Moves(Now, s, Face(db))
    BY <1>6, KeepsMoves
  <2> QED BY <1>1, <1>2, <1>3, <1>4, <1>5, <1>6, <2>1, RunProceeds
<1>7. CASE RecoveryLoop(g)
  <2>1. Good(TransitionError(Now)) /\ Moves(Now, TransitionError(Now), ErrorFace)
    BY <1>2, MethodMoves
  <2>2. CASE Run(g, TransitionError(Now), "dispatch")
    BY <1>1, <1>2, <1>3, <1>4, <1>5, <2>1, <2>2, RunProceeds
  <2> QED BY <1>2, <1>6, <1>7, <2>2 DEF RecoveryLoop, RecoveryPoints
<1>8. ASSUME NEW reading, RecoveryRead(g, reading)
      PROVE  ControlInv' /\ Proceeds
  <2> DEFINE s == NoteSuccess(Now)
  <2>1. \/ Run(g, TransitionLowDuringRecovery(s), "dispatch")
        \/ db.deadline = 0 /\ Run(g, AdvanceAfterRecovery(EndPhase(s, "completed")), "dispatch")
        \/ Run(g, s, "recovery")
    BY <1>8 DEF RecoveryRead, RecoveryIsOver
  <2>2. Keeps(Now, s) /\ Good(s)
    BY <1>2, NoteSuccessKeeps DEF Keeps
  <2> HIDE DEF s
  <2>3. CASE Run(g, TransitionLowDuringRecovery(s), "dispatch")
    <3>1. /\ Good(TransitionLowDuringRecovery(s))
          /\ Moves(Now, TransitionLowDuringRecovery(s), LowFace)
      BY <1>2, <2>2, MethodMoves
    <3> QED BY <1>1, <1>2, <1>3, <1>4, <1>5, <2>3, <3>1, RunProceeds
  <2>4. CASE db.deadline = 0 /\ Run(g, AdvanceAfterRecovery(EndPhase(s, "completed")), "dispatch")
    <3> DEFINE t == EndPhase(s, "completed")
    <3>1. Good(t) /\ t.mem.phase = NONE /\ t.db.test = s.db.test /\ Quiet(s, t)
      BY <2>2, EndPhaseGood
    <3>2. Run(g, AdvanceAfterRecovery(t), "dispatch")
      BY <2>4
    <3> HIDE DEF t
    <3>3. Quiet(Now, t) /\ t.db.test = db.test
      BY <2>2, <3>1, NowFacts, QuietTransitive DEF Keeps
    <3>4. Good(AdvanceAfterRecovery(t)) /\ Moves(Now, AdvanceAfterRecovery(t), NextFace)
      BY <3>1, <3>3, AdvanceMoves DEF Settled
    <3> QED BY <1>1, <1>2, <1>3, <1>4, <1>5, <2>4, <3>2, <3>4, RunProceeds
  <2> QED BY <1>6, <2>1, <2>2, <2>3, <2>4 DEF RecoveryPoints
<1>9. CASE RecoveryReadFailed(g)
  BY <1>2, <1>6, <1>9 DEF RecoveryReadFailed, RecoveryPoints
<1> QED BY <1>7, <1>8, <1>9 DEF RecoveryStep

LEMMA StreamStepProceeds ==
  ASSUME DataInv, ControlInv, NEW g \in Generations, StreamStep(g)
  PROVE  ControlInv' /\ Proceeds
<1>1. /\ proc # "down" /\ Owns(g) /\ mem.task[g] # "none"
      /\ mem.task[g] \in {"stream", "stream_exit"}
  BY DEF StreamStep, StreamOutageEnds, StreamFinished, StreamLoop, StreamBatteryRead,
         StreamBatteryFailed, StreamTaskEnded, StreamIsLive, StreamExit, At
<1>2. /\ db.state \notin Parked /\ Good(Now) /\ Keeps(Now, Now)
      /\ db.state \in States /\ db.test \in Tests /\ Sound(Face(db))
      /\ mem.task[g] = "stream" => db.state = "running_stream"
  BY <1>1, OwnerFacts, FaceFacts DEF ControlInv, PointFits
<1>3. /\ Leads(Face(db)) /\ Face(db)[1] = db.state
      /\ db.state = "running_stream" => Leads(FinalFace) /\ Leads(ErrorFace) /\ Leads(LowFace)
  BY <1>2, FaceFacts DEF Leads, Finishes, Lowers, Fails, Resumable, Active
<1>4. /\ FinalFace[1] \notin Parked /\ PointFits(FinalFace, "stream_exit")
      /\ LowFace[1] \notin Parked /\ PointFits(LowFace, "stream_exit")
      /\ ErrorFace[1] \notin Parked /\ PointFits(ErrorFace, "stream_exit")
      /\ db.state = "running_stream" => PointFits(Face(db), "stream")
      /\ PointFits(Face(db), "dispatch")
  BY <1>2, FaceFacts DEF FinalFace, LowFace, ErrorFace, Parked, PointFits, SnapshotPoints,
     RecoveryPoints
<1>5. \A point \in {"stream", "stream_exit", "dispatch"} : point \in Points /\ point # "none"
  BY DEF Points
<1>6. Keeps(Now, Turn)
  BY <1>2, RefreshStreamOutageKeeps DEF Turn
<1>7. ASSUME db.state = "running_stream", NEW s, Keeps(Now, s), Run(g, s, "stream")
      PROVE  ControlInv' /\ Proceeds
  <2>1. Good(s) /\ Moves(Now, s, Face(db))
    BY <1>7, KeepsMoves
  <2> QED BY <1>1, <1>2, <1>3, <1>4, <1>5, <1>7, <2>1, RunProceeds
<1>8. ASSUME db.state = "running_stream", NEW f \in {FinalFace, LowFace, ErrorFace},
             NEW s, Good(s), Moves(Now, s, f), Run(g, s, "stream_exit")
      PROVE  ControlInv' /\ Proceeds
  BY <1>1, <1>2, <1>3, <1>4, <1>5, <1>8, RunProceeds
<1>9. CASE StreamOutageEnds(g)
  <2>1. Good(TransitionError(Turn)) /\ Moves(Now, TransitionError(Turn), ErrorFace)
    BY <1>2, <1>6, MethodMoves
  <2> QED BY <1>2, <1>8, <1>9, <2>1 DEF StreamOutageEnds, At
<1>10. CASE StreamFinished(g)
  <2>1. Good(FinishActive(Turn)) /\ Moves(Now, FinishActive(Turn), FinalFace)
    BY <1>2, <1>6, MethodMoves
  <2> QED BY <1>2, <1>8, <1>10, <2>1 DEF StreamFinished, At
<1>11. CASE StreamLoop(g)
  <2>1. Keeps(Now, CheckpointActive(Turn))
    BY <1>6, CheckpointActiveKeeps, KeepsTransitive DEF Keeps
  <2> QED BY <1>2, <1>6, <1>7, <1>11, <2>1 DEF StreamLoop, StreamIsLive, At
<1>12. ASSUME NEW reading, StreamBatteryRead(g, reading)
       PROVE  ControlInv' /\ Proceeds
  <2>1. Keeps(Now, NoteSuccess(Turn))
    BY <1>6, NoteSuccessKeeps, KeepsTransitive DEF Keeps
  <2>2. /\ Good(TransitionLowBattery(NoteSuccess(Turn)))
        /\ Moves(Now, TransitionLowBattery(NoteSuccess(Turn)), LowFace)
    BY <1>2, <2>1, MethodMoves
  <2>3. \/ Run(g, TransitionLowBattery(NoteSuccess(Turn)), "stream_exit")
        \/ Run(g, NoteSuccess(Turn), "stream")
    BY <1>12 DEF StreamBatteryRead
  <2> QED BY <1>2, <1>7, <1>8, <1>12, <2>1, <2>2, <2>3 DEF StreamBatteryRead, StreamIsLive, At
<1>13. CASE StreamBatteryFailed(g)
  <2>1. /\ Good(NoteFailure(Turn))
        /\ IF OutageIsFatal(Turn) THEN Moves(Now, NoteFailure(Turn), ErrorFace)
           ELSE Moves(Now, NoteFailure(Turn), Face(db))
    BY <1>2, <1>6, MethodMoves
  <2>2. /\ db.state = "running_stream"
        /\ Run(g, NoteFailure(Turn), IF OutageIsFatal(Turn) THEN "stream_exit" ELSE "stream")
    BY <1>2, <1>13 DEF StreamBatteryFailed, StreamIsLive, At
  <2>3. CASE OutageIsFatal(Turn)
    BY <1>8, <2>1, <2>2, <2>3
  <2>4. CASE ~OutageIsFatal(Turn)
    BY <1>1, <1>2, <1>3, <1>4, <1>5, <2>1, <2>2, <2>4, RunProceeds
  <2> QED BY <2>3, <2>4
<1>14. CASE StreamTaskEnded(g)
  <2>1. Keeps(Now, StartStreamOutage(Turn, 0))
    BY <1>6, StartStreamOutageKeeps, KeepsTransitive DEF Keeps
  <2> QED BY <1>2, <1>7, <1>14, <2>1 DEF StreamTaskEnded, StreamIsLive, At
<1>15. CASE StreamExit(g)
  <2>1. Good(Now) /\ Moves(Now, Now, Face(db)) /\ Run(g, Now, "dispatch")
    BY <1>2, <1>15, KeepsMoves DEF StreamExit
  <2> QED BY <1>1, <1>2, <1>3, <1>4, <1>5, <2>1, RunProceeds
<1> QED BY <1>9, <1>10, <1>11, <1>12, <1>13, <1>14, <1>15 DEF StreamStep

(* A callback or a status request moves no task.                           *)
LEMMA AtomicProceeds ==
  ASSUME DataInv, ControlInv, proc # "down", db.state \notin Parked,
         NEW s, Keeps(Now, s), Atomic(s, proc)
  PROVE  ControlInv' /\ Proceeds
<1>1. Good(s) /\ Moves(Now, s, Face(db))
  BY KeepsMoves
<1>2. /\ Face(db') = Face(db)
      /\ \/ proc' = "down" /\ mem' = NewMemory
         \/ proc' = proc /\ mem' = s.mem
  BY <1>1, AtomicOutcome
<1>3. Leads(Face(db')) /\ Sound(Face(db'))
  BY <1>2, LeadsSound DEF Leads
<1>4. CASE proc' = "down"
  BY <1>3, <1>4, CrashFits DEF Proceeds
<1>5. CASE proc' = proc /\ mem' = s.mem
  <2>1. mem'.generation = mem.generation /\ mem'.task = mem.task /\ mem'.call = mem.call
    BY <1>1, <1>5, NowFacts DEF Moves, Controls
  <2>2. db'.state = db.state /\ db'.test = db.test /\ db'.deadline = db.deadline
    BY <1>2 DEF Face
  <2>3. Current' = Current /\ Sound(Face(db))' /\ PointFits(Face(db), Current)'
    BY <1>5, <2>1, <2>2 DEF Current, ControlInv, Sound, PointFits, Face, ActiveState, IsStream
  <2> QED BY <1>3, <1>5, <2>1, <2>2, <2>3 DEF ControlInv, Proceeds
<1> QED BY <1>2, <1>4, <1>5

LEMMA CallbackProceeds ==
  ASSUME DataInv, ControlInv, NEW g \in Generations, OnBytes(g) \/ OnError(g)
  PROVE  ControlInv' /\ Proceeds
<1>1. proc # "down" /\ Owns(g) /\ mem.task[g] # "none"
  BY DEF OnBytes, OnError, StreamTaskAlive, At
<1>2. db.state \notin Parked /\ Good(Now)
  BY <1>1, OwnerFacts
<1>3. Keeps(Now, NoteStreamBytes(Now)) /\ Keeps(Now, NoteStreamError(Now))
  BY <1>2, NoteStreamBytesKeeps, NoteStreamErrorKeeps
<1> QED BY <1>1, <1>2, <1>3, AtomicProceeds DEF OnBytes, OnError

LEMMA GetStatusProceeds ==
  ASSUME DataInv, ControlInv, GetStatus
  PROVE  ControlInv' /\ Proceeds
<1>1. proc # "down" /\ db.state \notin Parked
  BY DEF GetStatus, Parked
<1>2. Keeps(Now, RefreshStreamOutage(Now))
  BY <1>1, RunningFacts, RefreshStreamOutageKeeps
<1> QED BY <1>1, <1>2, AtomicProceeds DEF GetStatus

-----------------------------------------------------------------------------
(* The controls and the process.                                           *)

\* No task and no request of a generation that is still to come
Ordered(m) ==
  /\ \A g \in Generations : g > m.generation => m.task[g] = "none"
  /\ \A c \in Callers : m.call[c] # NONE => m.call[c] <= m.generation

(* A control leaves a new task, or none, in the current generation.        *)
LEMMA FreshFits ==
  ASSUME proc' \in {"up", "closing"}, Sound(Face(db')), Ordered(mem'),
         LET point == mem'.task[mem'.generation] IN
         /\ point \in {"none", "dispatch"}
         /\ proc' = "up" /\ db'.state \in Resumable => point # "none"
         /\ db'.state \in Parked =>
              point = "none" /\ \A c \in Callers : mem'.call[c] # mem'.generation
  PROVE  ControlInv'
<1>1. db'.state = Face(db')[1]
  BY FaceFacts
<1>2. Sound(Face(db))' /\ PointFits(Face(db), Current)'
  BY <1>1 DEF Sound, PointFits, Current, Face, Parked, SnapshotPoints, RecoveryPoints, Active, Resting,
              ActiveState, IsStream
<1> QED BY <1>2 DEF ControlInv, Ordered, Current

(* StartRunner, when the current generation has no task yet                *)
LEMMA StartRunnerFacts ==
  ASSUME NEW s, Good(s), Ordered(s.mem), s.mem.task[s.mem.generation] = "none"
  PROVE  LET t == StartRunner(s) IN
         /\ t.db = s.db /\ t.log = s.log
         /\ t.mem.generation = s.mem.generation /\ t.mem.call = s.mem.call
         /\ t.mem.task[t.mem.generation] = "dispatch"
         /\ Ordered(t.mem)
<1> DEFINE g == s.mem.generation
           t == [s EXCEPT !.mem.task[g] = "dispatch"]
<1>1. s.mem \in Memory /\ g \in Generations
  BY SectionFacts DEF Memory
<1>2. Retains(s, t) /\ t.mem = [s.mem EXCEPT !.task = [@ EXCEPT ![g] = "dispatch"]]
  BY <1>1, TaskRetains DEF Points
<1>3. StartRunner(s) = t
  BY DEF StartRunner
<1> HIDE DEF t
<1>4. /\ t.mem.generation = g /\ t.mem.call = s.mem.call
      /\ t.mem.task = [s.mem.task EXCEPT ![g] = "dispatch"]
      /\ s.mem.task \in [Generations -> Points]
  BY <1>1, <1>2 DEF Memory
<1>5. \A h \in Generations : h > g => h # g
  BY <1>1 DEF Generations
<1>6. Ordered(t.mem) /\ t.mem.task[t.mem.generation] = "dispatch"
  BY <1>1, <1>4, <1>5 DEF Ordered
<1> QED BY <1>2, <1>3, <1>4, <1>6 DEF Retains

(* _detach_runner_locked opens a generation without a task or a request.   *)
LEMMA DetachFacts ==
  ASSUME DataInv, ControlInv, proc # "down", CanDetach,
         NEW s, Good(s), s.mem.generation = mem.generation, s.mem.task = mem.task,
         \A c \in Callers : s.mem.call[c] \in {mem.call[c], NONE}
  PROVE  LET t == DetachRunner(s) IN
         /\ Retains(s, t)
         /\ t.mem.generation = mem.generation + 1
         /\ t.mem.task = mem.task /\ t.mem.call = s.mem.call
         /\ t.mem.task[t.mem.generation] = "none"
         /\ \A c \in Callers : t.mem.call[c] # t.mem.generation
         /\ Ordered(t.mem)
<1> DEFINE t == DetachRunner(s)
<1>1. Retains(s, t) /\ t.mem = [s.mem EXCEPT !.generation = @ + 1]
  BY DetachRunnerRetains DEF CanDetach
<1> HIDE DEF t
<1>2. s.mem \in Memory /\ mem \in Memory
  BY SectionFacts DEF DataInv
<1>3. /\ t.mem.generation = mem.generation + 1 /\ t.mem.task = mem.task
      /\ t.mem.call = s.mem.call
  BY <1>1, <1>2 DEF Memory
<1>4. mem.generation \in Nat /\ mem.generation + 1 \in Generations
  BY <1>2, BoundAssumption DEF Memory, Generations, CanDetach
<1>5. \A c \in Callers : mem.call[c] \in OrNone(Generations)
  BY <1>2 DEF Memory
<1>6. /\ \A g \in Generations : g > mem.generation => mem.task[g] = "none"
      /\ \A c \in Callers : mem.call[c] # NONE => mem.call[c] <= mem.generation
  BY DEF ControlInv
<1>7. \A c \in Callers :
        /\ t.mem.call[c] # NONE => t.mem.call[c] <= t.mem.generation
        /\ t.mem.call[c] # t.mem.generation
  BY <1>3, <1>4, <1>5, <1>6, NoneAssumption DEF OrNone, Generations
<1>8. /\ t.mem.task[t.mem.generation] = "none"
      /\ \A g \in Generations : g > t.mem.generation => t.mem.task[g] = "none"
  BY <1>3, <1>4, <1>6 DEF Generations
<1> QED BY <1>1, <1>3, <1>7, <1>8 DEF t, Ordered

\* What start() takes up
StartFace ==
  IF db.state = "stopped_manual" /\ db.origin \in Resting /\ db.deadline # NONE
  THEN <<db.origin, db.test, db.deadline>>
  ELSE <<ActiveState(db.test), db.test, NONE>>

Starts == db.state \in Parked /\ (db' = db \/ Face(db') = StartFace)

(* A start begins a phase of the face f and a task for it.                 *)
LEMMA BeginProceeds ==
  ASSUME DataInv, ControlInv, proc = "up", db.state \in Parked,
         NEW s, Good(s), NEW f, Face(s.db) = f, Sound(f), f[1] \in Resumable,
         Controls(s.mem) = Controls(mem),
         \A d \in s.log : d = db \/ Face(d) = f,
         Atomic(StartRunner(s), proc)
  PROVE  ControlInv' /\ (db' = db \/ Face(db') = f)
<1>1. s.mem.generation = mem.generation /\ s.mem.task = mem.task /\ s.mem.call = mem.call
  BY DEF Controls
<1>2. Ordered(s.mem) /\ s.mem.task[s.mem.generation] = "none"
  BY <1>1, FaceFacts DEF ControlInv, Ordered, PointFits, Current
<1> DEFINE t == StartRunner(s)
<1>3. /\ t.db = s.db /\ t.log = s.log /\ t.mem.generation = mem.generation
      /\ t.mem.task[t.mem.generation] = "dispatch" /\ Ordered(t.mem)
  BY <1>1, <1>2, StartRunnerFacts
<1>4. Atomic(t, proc)
  OBVIOUS
<1> HIDE DEF t
<1>5. CASE db' = t.db /\ mem' = t.mem /\ proc' = proc
  <2>1. Face(db') = f /\ db'.state = f[1]
    BY <1>3, <1>5, FaceFacts
  <2>2. db'.state \notin Parked
    BY <2>1 DEF Parked, Resumable, Active, Resting
  <2> QED BY <1>3, <1>5, <2>1, <2>2, FreshFits
<1>6. CASE \E d \in t.log : db' = d /\ mem' = NewMemory /\ proc' = "down"
  <2>1. db' = db \/ Face(db') = f
    BY <1>3, <1>6
  <2>2. Sound(Face(db'))
    BY <2>1 DEF ControlInv
  <2> QED BY <1>6, <2>1, <2>2, CrashFits
<1> QED BY <1>4, <1>5, <1>6 DEF Atomic

LEMMA StartProceeds ==
  ASSUME DataInv, ControlInv, Start
  PROVE  ControlInv' /\ Starts
<1>1. proc = "up" /\ db.state \in Parked /\ db.state \notin Resumable
  BY DEF Start, StartNew, ResumeRecovery, ResumeActive, Parked, Resumable, Active, Resting
<1>2. Good(Now) /\ db \in Disk /\ mem.phase = NONE /\ db.test \in Tests
  BY <1>1, RunningFacts, IdleFacts, SectionFacts DEF Disk
<1>3. CASE StartNew \/ ResumeActive
  <2> DEFINE d == [db EXCEPT !.state = ActiveState(db.test), !.deadline = NONE,
                             !.reason = "none", !.origin = NONE]
             s == Write(Now, d)
             t == BeginActive(s, FALSE)
             f == <<ActiveState(db.test), db.test, NONE>>
  <2>1. Atomic(StartRunner(t), proc) /\ StartFace = f
    BY <1>3 DEF StartNew, ResumeActive, StartFace
  <2>2. /\ d \in Disk /\ d.open = db.open /\ d.orphans = db.orphans /\ d.state \in Active
        /\ d.state \notin Resting /\ Face(d) = f /\ d.state = ActiveState(db.test)
        /\ d.test = db.test
    BY <1>2, TypeFacts, ActiveStateFacts DEF Disk, Reasons, Face
  <2> HIDE DEF d
  <2>3. /\ Good(s) /\ s.mem.phase = NONE /\ s.db = d
        /\ s.mem = mem /\ s.log = {db}
    BY <1>2, <2>2, FreeWrite, NowFacts DEF Write, Now
  <2> HIDE DEF s
  <2>4. Good(t) /\ Moves(s, t, f)
    BY <2>2, <2>3, BeginActiveSettles DEF Settled
  <2> HIDE DEF t
  <2>5. /\ Face(t.db) = f /\ Controls(t.mem) = Controls(mem)
        /\ \A e \in t.log : e = db \/ Face(e) = f
    BY <2>2, <2>3, <2>4 DEF Moves
  <2>6. f[1] \in Resumable /\ Sound(f)
    BY ActiveStateFacts DEF Resumable, Sound, Active
  <2> HIDE DEF f
  <2> QED BY <1>1, <2>1, <2>4, <2>5, <2>6, BeginProceeds DEF Starts
<1>4. CASE ResumeRecovery
  <2> DEFINE d == [db EXCEPT !.state = db.origin, !.origin = NONE,
                     !.reason = IF db.origin = "recovery" THEN "none" ELSE "low_battery"]
             s == Write(Now, d)
             t == BeginRecoveryPhase(s)
             f == <<db.origin, db.test, db.deadline>>
  <2>1. Atomic(StartRunner(t), proc) /\ StartFace = f /\ db.origin \in Resting /\ db.deadline # NONE
    BY <1>4 DEF ResumeRecovery, StartFace
  <2>2. /\ d \in Disk /\ d.open = db.open /\ d.orphans = db.orphans /\ d.state \in Resting
        /\ d.deadline # NONE /\ Face(d) = f
    BY <1>2, <2>1, TypeFacts DEF Disk, Reasons, Resting, States, Resumable, Face
  <2> HIDE DEF d
  <2>3. /\ Good(s) /\ s.mem.phase = NONE /\ s.db = d
        /\ s.mem = mem /\ s.log = {db}
    BY <1>2, <2>2, FreeWrite, NowFacts DEF Write, Now
  <2> HIDE DEF s
  <2>4. Good(t) /\ Quiet(s, t)
    BY <2>2, <2>3, BeginRecoveryPhaseSettles DEF Settled
  <2> HIDE DEF t
  <2>5. /\ Face(t.db) = f /\ Controls(t.mem) = Controls(mem)
        /\ \A e \in t.log : e = db \/ Face(e) = f
    BY <2>2, <2>3, <2>4 DEF Moves, Quiet
  <2>6. f[1] \in Resumable /\ Sound(f)
    BY <2>1 DEF Resumable, Sound, Active, Resting
  <2> HIDE DEF f
  <2> QED BY <1>1, <2>1, <2>4, <2>5, <2>6, BeginProceeds DEF Starts
<1> QED BY <1>3, <1>4 DEF Start

\* What stop() leaves
Holds(d) ==
  /\ d.state = "stopped_manual" /\ d.test = db.test
  /\ d.reason = "manual" /\ d.origin = db.state
  /\ d.deadline = IF db.state \in Resting THEN db.deadline ELSE NONE

Stops == db.state \in Resumable /\ (Face(db') = Face(db) \/ Holds(db'))

LEMMA StopProceeds ==
  ASSUME DataInv, ControlInv, Stop
  PROVE  ControlInv' /\ Stops
<1> DEFINE s == DetachRunner(Now)
           u == IF db.state \in Active
                THEN [CheckpointActive(s) EXCEPT !.mem.anchor = NONE] ELSE s
           t == EndPhase(u, "manual_stop")
           d == [t.db EXCEPT !.state = "stopped_manual", !.reason = "manual",
                             !.origin = db.state,
                             !.deadline = IF db.state \in Resting THEN @ ELSE NONE]
           v == Write(t, d)
<1>1. /\ proc = "up" /\ CanDetach /\ db.state \in Resumable
      /\ Atomic(v, proc)
  BY DEF Stop
<1>2. /\ Good(s) /\ s.db = db /\ s.log = {} /\ Ordered(s.mem)
      /\ s.mem.task[s.mem.generation] = "none"
      /\ \A c \in Callers : s.mem.call[c] # s.mem.generation
  BY <1>1, RunningFacts, NowFacts, DetachFacts DEF Retains
<1> HIDE DEF s
<1>3. Keeps(s, u)
  <2>1. Keeps(s, CheckpointActive(s))
    BY <1>2, CheckpointActiveKeeps
  <2>2. Keeps(CheckpointActive(s), [CheckpointActive(s) EXCEPT !.mem.anchor = NONE])
    BY <2>1, AnchorKeeps, TypeFacts DEF Keeps
  <2>3. Keeps(s, [CheckpointActive(s) EXCEPT !.mem.anchor = NONE])
    BY <2>1, <2>2, KeepsTransitive
  <2> QED BY <1>2, <2>3, KeepsSame
<1> HIDE DEF u
<1>4. /\ Good(t) /\ t.mem.phase = NONE /\ t.db \in Disk /\ Quiet(s, t)
      /\ t.db.test = db.test /\ t.db.deadline = db.deadline
  BY <1>2, <1>3, EndPhaseGood, SectionFacts, QuietTransitive DEF Keeps
<1> HIDE DEF t
<1>5. /\ d \in Disk /\ d.open = t.db.open /\ d.orphans = t.db.orphans
      /\ d.state = "stopped_manual" /\ Holds(d)
  BY <1>1, <1>4, TypeFacts DEF Disk, States, Reasons, Holds
<1> HIDE DEF d
<1>6. /\ Good(v) /\ v.mem = t.mem /\ v.db = d /\ v.log = t.log \cup {t.db}
  BY <1>4, <1>5, FreeWrite DEF Resting
<1> HIDE DEF v
<1>7. /\ \A e \in v.log : Face(e) = Face(db)
      /\ Controls(v.mem) = Controls(s.mem)
  BY <1>2, <1>4, <1>6 DEF Quiet, Moves
<1>8. CASE db' = v.db /\ mem' = v.mem /\ proc' = proc
  <2>1. Ordered(mem') /\ mem'.task[mem'.generation] = "none"
        /\ \A c \in Callers : mem'.call[c] # mem'.generation
    BY <1>2, <1>7, <1>8 DEF Ordered, Controls
  <2>2. /\ db'.state = "stopped_manual" /\ Holds(db') /\ Sound(Face(db'))
        /\ db'.state \notin Resumable
    BY <1>5, <1>6, <1>8, FaceFacts DEF Sound, Active, Resumable, Resting
  <2> QED BY <1>1, <1>8, <2>1, <2>2, FreshFits DEF Stops
<1>9. CASE \E e \in v.log : db' = e /\ mem' = NewMemory /\ proc' = "down"
  BY <1>1, <1>7, <1>9, CrashFits DEF ControlInv, Stops
<1> QED BY <1>1, <1>8, <1>9 DEF Atomic

\* A step that is none of the experiment
Stays == Face(db') = Face(db) /\ (db.state \in Parked => db' = db)

LEMMA ShutdownProceeds ==
  ASSUME DataInv, ControlInv, Shutdown
  PROVE  ControlInv' /\ Stays
<1> DEFINE s == DetachRunner(Now)
           u == [CheckpointActive(s) EXCEPT !.mem.anchor = NONE]
           t == EndPhase(u, "paused_shutdown")
           v == IF db.state \in Active THEN t ELSE s
<1>1. proc = "up" /\ CanDetach /\ Atomic(v, "closing")
  BY DEF Shutdown
<1>2. /\ Good(s) /\ s.db = db /\ s.log = {} /\ Ordered(s.mem)
      /\ s.mem.task[s.mem.generation] = "none"
      /\ \A c \in Callers : s.mem.call[c] # s.mem.generation
  BY <1>1, RunningFacts, NowFacts, DetachFacts DEF Retains
<1> HIDE DEF s
<1>3. Keeps(s, u)
  <2>1. Keeps(s, CheckpointActive(s))
    BY <1>2, CheckpointActiveKeeps
  <2>2. Keeps(CheckpointActive(s), u)
    BY <2>1, AnchorKeeps, TypeFacts DEF Keeps
  <2> QED BY <2>1, <2>2, KeepsTransitive
<1> HIDE DEF u
<1>4. Quiet(s, t)
  BY <1>3, EndPhaseGood, QuietTransitive DEF Keeps
<1>5. Quiet(s, v) /\ (db.state \notin Active => v = s)
  BY <1>4 DEF Quiet, Moves
<1> HIDE DEF v
<1>6. /\ \A e \in v.log \cup {v.db} : Face(e) = Face(db) /\ (db.state \in Parked => e = db)
      /\ Controls(v.mem) = Controls(s.mem)
  BY <1>2, <1>5 DEF Quiet, Moves, Parked, Active
<1>7. CASE db' = v.db /\ mem' = v.mem /\ proc' = "closing"
  <2>1. Ordered(mem') /\ mem'.task[mem'.generation] = "none"
        /\ \A c \in Callers : mem'.call[c] # mem'.generation
    BY <1>2, <1>6, <1>7 DEF Ordered, Controls
  <2>2. Sound(Face(db')) /\ Stays
    BY <1>6, <1>7 DEF ControlInv, Stays
  <2> QED BY <1>7, <2>1, <2>2, FreshFits
<1>8. CASE \E e \in v.log : db' = e /\ mem' = NewMemory /\ proc' = "down"
  BY <1>6, <1>8, CrashFits DEF ControlInv, Stays
<1> QED BY <1>1, <1>7, <1>8 DEF Atomic

LEMMA ExitStays ==
  ASSUME ControlInv, Exit
  PROVE  ControlInv' /\ Stays
<1>1. proc' = "down" /\ db' = db
  BY DEF Exit
<1> QED BY <1>1, CrashFits DEF ControlInv, Stays

\* What restart() does
Restarts == RestartLeaves(db')

LEMMA RestartProceeds ==
  ASSUME DataInv, ControlInv, Restart
  PROVE  ControlInv' /\ Restarts
<1> DEFINE s == DetachRunner(Now)
           t == Restarted
           v == StartRunner(t)
           f == <<"running_snapshot", 1, NONE>>
<1>1. proc = "up" /\ CanDetach /\ Atomic(v, proc)
  BY DEF Restart, Restarted
<1>2. Ordered(s.mem) /\ s.mem.task[s.mem.generation] = "none"
  BY <1>1, RunningFacts, NowFacts, DetachFacts
<1>3. /\ Good(t) /\ Controls(t.mem) = Controls(s.mem) /\ Face(t.db) = f
      /\ \A d \in t.log : RestartLeaves(d)
  BY <1>1, RestartSettles DEF Settled
<1> HIDE DEF s, t
<1>4. Ordered(t.mem) /\ t.mem.task[t.mem.generation] = "none"
  BY <1>2, <1>3 DEF Ordered, Controls
<1>5. /\ v.db = t.db /\ v.log = t.log
      /\ v.mem.task[v.mem.generation] = "dispatch" /\ Ordered(v.mem)
  BY <1>3, <1>4, StartRunnerFacts
<1> HIDE DEF v
<1>6. Sound(f)
  BY TestAssumption DEF Sound, ActiveState, IsStream
<1>7. CASE db' = v.db /\ mem' = v.mem /\ proc' = proc
  <2>1. Face(db') = f /\ db'.state \notin Parked
    BY <1>3, <1>5, <1>7, FaceFacts DEF Parked
  <2> QED BY <1>1, <1>5, <1>6, <1>7, <2>1, FreshFits DEF Restarts, RestartLeaves
<1>8. CASE \E e \in v.log : db' = e /\ mem' = NewMemory /\ proc' = "down"
  <2>1. RestartLeaves(db')
    BY <1>3, <1>5, <1>8
  <2>2. Sound(Face(db'))
    BY <1>6, <2>1, FaceFacts DEF RestartLeaves, Abandons, ControlInv, Sound, Active
  <2> QED BY <1>8, <2>1, <2>2, CrashFits DEF Restarts
<1> QED BY <1>1, <1>7, <1>8 DEF Atomic

\* What a verified request to continue does
Continues == db.state \notin Parked /\ Face(db') \in {Face(db), NextFace}

LEMMA ContinueProceeds ==
  ASSUME DataInv, ControlInv, NEW c \in Callers, ContinueVerified(c)
  PROVE  ControlInv' /\ Continues
<1> DEFINE v == [Now EXCEPT !.mem.call[c] = NONE]
           w == DetachRunner(v)
           s == EndPhase(w, "continued_early")
           t == AdvanceAfterRecovery(s)
           f == NextFace
           z == IF t.db.state \in Active THEN StartRunner(t) ELSE t
<1>1. /\ proc # "down" /\ CanDetach /\ mem.call[c] # NONE /\ Owns(mem.call[c])
      /\ Atomic(z, proc)
  BY DEF ContinueVerified
<1>2. db.state \notin Parked /\ Sound(Face(db))
  BY <1>1 DEF Owns, ControlInv
<1>3. /\ Good(v) /\ v.mem.generation = mem.generation /\ v.mem.task = mem.task
      /\ \A b \in Callers : v.mem.call[b] \in {mem.call[b], NONE}
      /\ v.db = db /\ v.log = {}
  <2>1. Good(Now) /\ Now.db = db /\ Now.mem = mem /\ Now.log = {} /\ mem \in Memory
    BY <1>1, RunningFacts, NowFacts DEF DataInv
  <2>2. Retains(Now, v) /\ v.mem = [mem EXCEPT !.call = [@ EXCEPT ![c] = NONE]]
    BY <2>1, CallRetains, TypeFacts
  <2> HIDE DEF v
  <2>3. v.mem.call = [mem.call EXCEPT ![c] = NONE] /\ mem.call \in [Callers -> OrNone(Generations)]
    BY <2>1, <2>2 DEF Memory
  <2> QED BY <2>1, <2>2, <2>3 DEF Retains, Memory
<1> HIDE DEF v
<1>4. /\ Good(w) /\ w.db = db /\ w.log = {} /\ Ordered(w.mem)
      /\ w.mem.task[w.mem.generation] = "none"
      /\ \A b \in Callers : w.mem.call[b] # w.mem.generation
  BY <1>1, <1>3, DetachFacts DEF Retains
<1> HIDE DEF w
<1>5. Good(s) /\ s.mem.phase = NONE /\ s.db.test = db.test /\ Quiet(w, s)
  BY <1>4, EndPhaseGood
<1> HIDE DEF s
<1>6. Good(t) /\ Moves(w, t, f)
  <2>1. Settled(t) /\ Moves(s, t, f)
    BY <1>5, AdvanceAfterRecoverySettles DEF NextFace
  <2> QED BY <1>5, <2>1, MovesTransitive DEF Settled
<1> HIDE DEF t
<1>7. /\ Face(t.db) = f /\ (\A d \in t.log : Face(d) \in {Face(db), f})
      /\ Ordered(t.mem) /\ t.mem.task[t.mem.generation] = "none"
      /\ \A b \in Callers : t.mem.call[b] # t.mem.generation
  BY <1>4, <1>6 DEF Moves, Ordered, Controls
<1>8. /\ f[1] \in Active \cup {"completed"} /\ f[1] \notin Parked /\ Sound(f)
      /\ f[1] = t.db.state
  BY <1>7, FaceFacts, ActiveStateFacts DEF NextFace, Sound, Parked, Active, ActiveState
<1>9. /\ z.db = t.db /\ z.log = t.log /\ Ordered(z.mem)
      /\ z.mem.task[z.mem.generation] \in {"none", "dispatch"}
      /\ f[1] \in Active => z.mem.task[z.mem.generation] = "dispatch"
  BY <1>6, <1>7, <1>8, StartRunnerFacts
<1> HIDE DEF z, f
<1>10. CASE db' = z.db /\ mem' = z.mem /\ proc' = proc
  <2>1. Face(db') = f /\ db'.state = f[1] /\ db'.state \notin Parked
        /\ (db'.state \in Resumable => db'.state \in Active)
    BY <1>7, <1>8, <1>9, <1>10 DEF Resumable, Resting, Active
  <2>2. proc' \in {"up", "closing"}
    BY <1>1, <1>10 DEF DataInv, Processes
  <2>3. ControlInv'
    BY <1>8, <1>9, <1>10, <2>1, <2>2, FreshFits
  <2> QED BY <1>2, <2>1, <2>3 DEF Continues, f
<1>11. CASE \E d \in z.log : db' = d /\ mem' = NewMemory /\ proc' = "down"
  <2>1. Face(db') \in {Face(db), f}
    BY <1>7, <1>9, <1>11
  <2>2. Sound(Face(db'))
    BY <1>2, <1>8, <2>1
  <2> QED BY <1>2, <1>11, <2>1, <2>2, CrashFits DEF Continues, f
<1> QED BY <1>1, <1>10, <1>11 DEF Atomic

LEMMA RequestStays ==
  ASSUME DataInv, ControlInv, NEW c \in Callers, ContinueRequested(c) \/ ContinueRefused(c)
  PROVE  ControlInv' /\ db' = db
<1>1. PICK g \in {mem.generation, NONE} :
        /\ Atomic([Now EXCEPT !.mem.call[c] = g], proc)
        /\ proc # "down" /\ (g # NONE => db.state = "stopped_low_battery")
  BY DEF ContinueRequested, ContinueRefused
<1>2. /\ Good(Now) /\ Now.db = db /\ Now.mem = mem /\ Now.log = {} /\ mem \in Memory
      /\ mem.generation \in Generations
  BY <1>1, RunningFacts, NowFacts DEF DataInv, Memory
<1>3. g \in OrNone(Generations)
  BY <1>2, TypeFacts
<1> DEFINE t == [Now EXCEPT !.mem.call[c] = g]
<1>4. Retains(Now, t) /\ t.mem = [mem EXCEPT !.call = [@ EXCEPT ![c] = g]] /\ Atomic(t, proc)
  BY <1>1, <1>2, <1>3, CallRetains
<1> HIDE DEF t
<1>5. db' = db /\ mem' = t.mem /\ proc' = proc
  BY <1>2, <1>4 DEF Atomic, Retains
<1>6. /\ mem'.generation = mem.generation /\ mem'.task = mem.task
      /\ mem'.call = [mem.call EXCEPT ![c] = g] /\ mem.call \in [Callers -> OrNone(Generations)]
  BY <1>2, <1>4, <1>5 DEF Memory
<1>7. \A b \in Callers : mem'.call[b] = IF b = c THEN g ELSE mem.call[b]
  BY <1>6
<1>8. mem.generation <= mem.generation /\ NONE # mem.generation
  BY <1>2, NoneAssumption DEF Generations
<1>9. Current' = Current
  BY <1>6 DEF Current
<1>10. /\ \A b \in Callers : mem'.call[b] # NONE => mem'.call[b] <= mem'.generation
       /\ db.state \in Parked => \A b \in Callers : mem'.call[b] # mem'.generation
  BY <1>1, <1>6, <1>7, <1>8 DEF ControlInv, Parked
<1> QED BY <1>1, <1>5, <1>6, <1>9, <1>10 DEF ControlInv, Sound, PointFits, Face, ActiveState, IsStream

LEMMA InitializeStays ==
  ASSUME DataInv, ControlInv, Initialize
  PROVE  ControlInv' /\ Stays
<1> DEFINE boot == [db |-> db, mem |-> NewMemory, log |-> {}]
           left == {r \in Rows : db.open[r] > 0}
           row == CHOOSE r \in left : TRUE
           closed == IF left = {} THEN boot ELSE Write(boot, CloseRow(db, row, "interrupted"))
           begun == CASE db.state \in Active  -> BeginActive(closed, TRUE)
                      [] db.state \in Resting -> BeginRecoveryPhase(closed)
                      [] OTHER                -> closed
           t == IF db.state \in Resumable THEN StartRunner(begun) ELSE begun
<1>1. Atomic(t, "up")
  BY DEF Initialize
<1>2. GoodDisk(db) /\ db \in Disk /\ Sound(Face(db))
  BY DEF DataInv, GoodDisk, ControlInv
<1>3. /\ Good(closed) /\ closed.mem = NewMemory
      /\ Face(closed.db) = Face(db) /\ closed.log \subseteq {db}
      /\ db.state \notin Resumable => closed.db = db
  <2>1. CASE left = {}
    <3>1. Good(boot)
      BY <1>2, <2>1, NewMemoryFacts, NoneAssumption DEF Good, Section
    <3> QED BY <2>1, <3>1
  <2>2. CASE left # {}
    <3> DEFINE e == CloseRow(db, row, "interrupted")
    <3>1. row \in Rows /\ db.open[row] > 0
      BY <2>2
    <3> HIDE DEF row
    <3>2. /\ GoodDisk(e) /\ (\A q \in Rows : ~(e.open[q] > 0))
          /\ e.state = db.state /\ e.test = db.test /\ e.deadline = db.deadline
      BY <1>2, <3>1, CloseRowGood
    <3>3. closed = [db |-> e, mem |-> NewMemory, log |-> {db}]
      BY <2>2 DEF Write
    <3>4. db.state \in Resumable
      BY <1>2, <3>1, NoneAssumption DEF GoodDisk, RowOf, Resumable
    <3> HIDE DEF e, closed
    <3>5. Good(closed)
      BY <1>2, <3>2, <3>3, NewMemoryFacts, NoneAssumption DEF Good, Section, GoodDisk
    <3> QED BY <3>2, <3>3, <3>4, <3>5 DEF Face
  <2> QED BY <2>1, <2>2
<1> HIDE DEF closed
<1>4. closed.db.state = db.state /\ closed.mem.phase = NONE
  BY <1>3, NewMemoryFacts DEF Face
<1>5. Good(begun) /\ Quiet(closed, begun) /\ (db.state \notin Resumable => begun = closed)
  <2>1. CASE db.state \in Active
    <3>1. begun = BeginActive(closed, TRUE)
      BY <2>1 DEF Active, Resting
    <3>2. Face(closed.db) = <<closed.db.state, closed.db.test, NONE>>
      BY <1>2, <1>3, <2>1, FaceFacts DEF Sound, Face
    <3>3. Good(begun) /\ Quiet(closed, begun)
      BY <1>3, <1>4, <2>1, <3>1, <3>2, BeginActiveSettles DEF Settled, Quiet
    <3> QED BY <2>1, <3>3 DEF Resumable
  <2>2. CASE db.state \notin Active /\ db.state \in Resting
    BY <1>3, <1>4, <2>2, BeginRecoveryPhaseSettles DEF Settled, Resumable
  <2>3. CASE db.state \notin Active /\ db.state \notin Resting
    BY <1>3, <2>3 DEF Quiet, Moves
  <2> QED BY <2>1, <2>2, <2>3
<1> HIDE DEF begun
<1>6. /\ Controls(begun.mem) = Controls(NewMemory)
      /\ \A d \in begun.log \cup {begun.db} :
           Face(d) = Face(db) /\ (db.state \in Parked => d = db)
  BY <1>3, <1>5 DEF Quiet, Moves, Parked, Resumable, Active, Resting
<1>7. /\ Ordered(begun.mem) /\ begun.mem.task[begun.mem.generation] = "none"
      /\ \A c \in Callers : begun.mem.call[c] # begun.mem.generation
  <2>1. 0 \in Generations /\ NONE # 0
    BY BoundAssumption, NoneAssumption DEF Generations
  <2> QED BY <1>6, <2>1 DEF Controls, NewMemory, Ordered
<1>8. /\ t.db = begun.db /\ t.log = begun.log /\ Ordered(t.mem)
      /\ t.mem.task[t.mem.generation] = IF db.state \in Resumable THEN "dispatch" ELSE "none"
      /\ t.mem.call = begun.mem.call /\ t.mem.generation = begun.mem.generation
  BY <1>5, <1>7, StartRunnerFacts
<1> HIDE DEF t
<1>9. CASE db' = t.db /\ mem' = t.mem /\ proc' = "up"
  <2>1. Stays /\ Sound(Face(db')) /\ db'.state = db.state
    BY <1>2, <1>6, <1>8, <1>9 DEF Stays, Face
  <2>2. db'.state \in Parked => db'.state \notin Resumable
    BY DEF Parked, Resumable, Active, Resting
  <2> QED BY <1>7, <1>8, <1>9, <2>1, <2>2, FreshFits
<1>10. CASE \E d \in t.log : db' = d /\ mem' = NewMemory /\ proc' = "down"
  <2>1. Stays /\ Sound(Face(db'))
    BY <1>2, <1>6, <1>8, <1>10 DEF Stays
  <2> QED BY <1>10, <2>1, CrashFits
<1> QED BY <1>1, <1>9, <1>10 DEF Atomic

\* What the passing of time leaves alone
Waits ==
  /\ db'.state = db.state /\ db'.test = db.test /\ db'.reason = db.reason
  /\ db'.origin = db.origin /\ (db'.deadline = NONE <=> db.deadline = NONE)

LEMMA TickWaits ==
  ASSUME DataInv, ControlInv, Tick
  PROVE  ControlInv' /\ Waits
<1>1. db \in Disk /\ mem \in Memory
  BY DEF DataInv, GoodDisk
<1>2. /\ Waits /\ proc' = proc
      /\ mem'.generation = mem.generation /\ mem'.task = mem.task /\ mem'.call = mem.call
  <2>1. db.deadline \in OrNone(RecoveryTimes) /\ NONE \notin Nat
    BY <1>1, NoneAssumption DEF Disk
  <2>2. IF db.deadline = NONE \/ db.deadline = 0 THEN TRUE ELSE db.deadline - 1 \in Nat
    BY <2>1, DurationAssumption DEF OrNone, RecoveryTimes
  <2>3. Waits /\ proc' = proc
    BY <1>1, <2>1, <2>2 DEF Tick, Waits, Disk
  <2>4. Controls(mem') = Controls(mem)
    BY <1>1 DEF Tick, Aged, Controls, Memory
  <2> QED BY <2>3, <2>4 DEF Controls
<1>3. Sound(Face(db))' /\ Current' = Current
  BY <1>2 DEF ControlInv, Sound, Face, Waits, Current, Active, ActiveState, IsStream
<1>4. PointFits(Face(db), Current) => PointFits(Face(db), Current)'
  BY <1>2, <1>3 DEF PointFits, Face, Waits, Parked, Resting
<1> QED BY <1>2, <1>3, <1>4 DEF ControlInv, Waits

-----------------------------------------------------------------------------
(* Every step, whatever it does.                                           *)

Outcome ==
  \/ Tick /\ Waits
  \/ Stays
  \/ Proceeds
  \/ Start /\ Starts
  \/ Stops
  \/ Restart /\ Restarts
  \/ (\E c \in Callers : ContinueVerified(c)) /\ Continues

LEMMA NextOutcome ==
  ASSUME DataInv, ControlInv, Next
  PROVE  ControlInv' /\ Outcome
<1>1. db' = db => Stays
  BY DEF Stays
<1>2. CASE Tick
  BY <1>2, TickWaits DEF Outcome
<1>3. ASSUME NEW g \in Generations, TaskStep(g)
      PROVE  ControlInv' /\ Outcome
  <2>1. CASE Detached(g)
    BY <1>1, <2>1, DetachedKeeps DEF Outcome
  <2>2. CASE Dispatch(g) \/ SnapshotStep(g) \/ RecoveryStep(g) \/ StreamStep(g)
    BY <2>2, DispatchProceeds, SnapshotStepProceeds, RecoveryStepProceeds, StreamStepProceeds
       DEF Outcome
  <2> QED BY <1>3, <2>1, <2>2 DEF TaskStep
<1>4. ASSUME NEW g \in Generations, OnBytes(g) \/ OnError(g)
      PROVE  ControlInv' /\ Outcome
  BY <1>4, CallbackProceeds DEF Outcome
<1>5. CASE Start
  BY <1>5, StartProceeds DEF Outcome
<1>6. CASE Stop
  BY <1>6, StopProceeds DEF Outcome
<1>7. CASE Shutdown
  BY <1>7, ShutdownProceeds DEF Outcome
<1>8. CASE GetStatus
  BY <1>8, GetStatusProceeds DEF Outcome
<1>9. ASSUME NEW c \in Callers,
             ContinueRequested(c) \/ ContinueRefused(c) \/ ContinueVerified(c)
      PROVE  ControlInv' /\ Outcome
  <2>1. CASE ContinueVerified(c)
    BY <2>1, ContinueProceeds DEF Outcome
  <2>2. CASE ContinueRequested(c) \/ ContinueRefused(c)
    BY <1>1, <2>2, RequestStays DEF Outcome
  <2> QED BY <1>9, <2>1, <2>2
<1>10. CASE Initialize
  BY <1>10, InitializeStays DEF Outcome
<1>11. CASE Exit
  BY <1>11, ExitStays DEF Outcome
<1>12. CASE Restart
  BY <1>12, RestartProceeds DEF Outcome
<1> QED BY <1>2, <1>3, <1>4, <1>5, <1>6, <1>7, <1>8, <1>9, <1>10, <1>11, <1>12 DEF Next, Control

LEMMA InitControl ==
  ASSUME Init
  PROVE  ControlInv
<1>1. db.state = "not_started" /\ proc = "down"
  BY DEF Init, CreateRun
<1> QED BY <1>1, FaceFacts DEF ControlInv, Sound, Active

LEMMA StutterControl ==
  ASSUME ControlInv, UNCHANGED vars
  PROVE  ControlInv'
<1>1. proc' = proc /\ db' = db /\ mem' = mem
  BY DEF vars
<1>2. Current' = Current
  BY <1>1 DEF Current
<1> QED BY <1>1, <1>2 DEF ControlInv, Sound, PointFits, Face, ActiveState, IsStream

(* IInv and ControlInv together are kept by every step.                    *)
THEOREM ControlInvariance == Spec => [](IInv /\ ControlInv)
<1>1. Init => ControlInv
  BY InitControl
<1>2. IInv /\ ControlInv /\ [Next]_vars => ControlInv'
  BY NextOutcome, StutterControl DEF IInv
<1> QED BY <1>1, <1>2, Invariance, PTL DEF Spec

(* Whenever the process is up and the run should proceed by itself, there  *)
(* is a task of the current generation to carry it on, however start(),    *)
(* stop(), restart() and the ends of cancelled tasks interleave.           *)
THEOREM RunnerAlwaysPresent == Spec => []RunnerPresent
<1>1. ControlInv => RunnerPresent
  BY DEF ControlInv, Current, RunnerPresent
<1> QED BY <1>1, ControlInvariance, PTL

(* No late reading, callback or new process changes a stopped run: the     *)
(* generation check covers every task and request that stop() cancelled.   *)
THEOREM StopsStick == Spec => ManualStopSticks
<1>1. IInv /\ ControlInv /\ [Next]_vars =>
        [db.state = "stopped_manual" /\ db' # db => Tick \/ Start \/ Restart]_vars
  <2> SUFFICES ASSUME IInv, ControlInv, Next, db.state = "stopped_manual", db' # db
               PROVE  Tick \/ Start \/ Restart
    OBVIOUS
  <2>1. Outcome
    BY NextOutcome DEF IInv
  <2> QED BY <2>1 DEF Outcome, Stays, Proceeds, Stops, Continues, Parked, Resumable, Active, Resting
<1> QED BY <1>1, ControlInvariance, PTL DEF Spec, ManualStopSticks

-----------------------------------------------------------------------------
(* The refinement.                                                         *)

(* The phase of the abstract experiment, by the state of the runs table.   *)
LEMMA PhaseFacts ==
  ASSUME NEW d, d.state \in States
  PROVE  /\ d.state = "not_started" => PhaseOf(d) = "idle"
         /\ d.state \in Active => PhaseOf(d) = "testing"
         /\ d.state \in Resting => PhaseOf(d) = "resting"
         /\ d.state = "stopped_error" => PhaseOf(d) = "failed"
         /\ d.state = "completed" => PhaseOf(d) = "done"
         /\ d.state = "stopped_manual" => PhaseOf(d) \in {"held", "abandoned"}
         /\ d.state # "stopped_manual" => PausedOf(d) = "testing"
BY DEF PhaseOf, PausedOf, States, Active, Resting, Resumable

(* In any state but a manual stop the face determines the abstract state.  *)
LEMMA FaceDecides ==
  ASSUME NEW d, NEW e, d.state \in States, e.state = d.state, d.state # "stopped_manual"
  PROVE  PhaseOf(e) = PhaseOf(d) /\ PausedOf(e) = PausedOf(d)
BY DEF PhaseOf, PausedOf

\* A step of the abstract experiment, on the runs table
Maps == Lifecycle!Next \/ UNCHANGED Lifecycle!vars

LEMMA SameMaps ==
  ASSUME PhaseOf(db)' = PhaseOf(db), db'.test = db.test, PausedOf(db)' = PausedOf(db)
  PROVE  Maps
BY DEF Maps, Lifecycle!vars

LEMMA ProceedsMaps ==
  ASSUME DataInv, DataInv', ControlInv, Proceeds
  PROVE  Maps
<1> DEFINE f == Face(db')
<1>1. /\ db.state \in States /\ db'.state \in States /\ db.test \in Tests
      /\ f[1] = db'.state /\ f[2] = db'.test /\ db.state \notin Parked /\ Leads(f)
  BY FaceFacts DEF DataInv, GoodDisk, Disk, Proceeds
<1>2. /\ PhaseOf(db)' = PhaseOf(db') /\ PausedOf(db)' = PausedOf(db')
  BY DEF PhaseOf, PausedOf
<1>3. f[1] # "stopped_manual" /\ db.state # "stopped_manual"
  BY <1>1, FaceFacts, ActiveStateFacts
     DEF Leads, Finishes, FinalFace, Lowers, LowFace, Fails, ErrorFace, Advances, NextFace,
         Parked, Active
<1>4. PausedOf(db) = "testing" /\ PausedOf(db)' = "testing"
  BY <1>1, <1>2, <1>3, PhaseFacts
<1>5. CASE f = Face(db)
  <2>1. db'.state = db.state /\ db'.test = db.test
    BY <1>5 DEF Face
  <2> QED BY <1>1, <1>2, <1>3, <2>1, FaceDecides, SameMaps
<1>6. CASE Finishes(f)
  <2>1. db'.test = db.test
    BY <1>1, <1>6 DEF Finishes, FinalFace
  <2>2. PhaseOf(db)' = IF db.test = LastTest THEN "done" ELSE "resting"
    BY <1>1, <1>2, <1>6, PhaseFacts DEF Finishes, FinalFace, Resting
  <2>3. \/ PhaseOf(db) = "testing"
        \/ PhaseOf(db) = "failed" /\ db.test # LastTest
    BY <1>1, <1>6, PhaseFacts DEF Finishes
  <2>4. db.test # LastTest => db.test < LastTest
    BY <1>1, TestAssumption DEF Tests
  <2> QED BY <1>4, <2>1, <2>2, <2>3, <2>4
          DEF Maps, Lifecycle!Next, Lifecycle!Finish, Lifecycle!FinishFailed, Lifecycle!Becomes
<1>7. CASE Lowers(f)
  <2>1. db'.test = db.test /\ PhaseOf(db)' = "resting" /\ PhaseOf(db) \in {"testing", "resting"}
    BY <1>1, <1>2, <1>7, PhaseFacts DEF Lowers, LowFace, Resumable, Resting
  <2> QED BY <1>4, <2>1, SameMaps DEF Maps, Lifecycle!Next, Lifecycle!Lower, Lifecycle!Becomes
<1>8. CASE Fails(f)
  <2>1. /\ db'.test = db.test /\ PhaseOf(db)' = "failed"
        /\ PhaseOf(db) \in {"testing", "resting", "failed"}
    BY <1>1, <1>2, <1>8, PhaseFacts DEF Fails, ErrorFace, Resumable
  <2> QED BY <1>4, <2>1, SameMaps DEF Maps, Lifecycle!Next, Lifecycle!Fail, Lifecycle!Becomes
<1>9. CASE Advances(f)
  <2>1. PhaseOf(db) = "resting"
    BY <1>1, <1>9, PhaseFacts DEF Advances
  <2>2. IF db.test = LastTest THEN PhaseOf(db)' = "done" /\ db'.test = db.test
        ELSE PhaseOf(db)' = "testing" /\ db'.test = db.test + 1
    BY <1>1, <1>2, <1>9, PhaseFacts, ActiveStateFacts DEF Advances, NextFace
  <2> QED BY <1>4, <2>1, <2>2
          DEF Maps, Lifecycle!Next, Lifecycle!Advance, Lifecycle!NextTest, Lifecycle!Becomes
<1> QED BY <1>1, <1>5, <1>6, <1>7, <1>8, <1>9 DEF Leads

LEMMA ContinuesMaps ==
  ASSUME DataInv, DataInv', ControlInv, Continues
  PROVE  Maps
<1>1. /\ db.state \in States /\ db'.state \in States /\ db.state \notin Parked
      /\ Face(db')[1] = db'.state /\ Face(db')[2] = db'.test /\ Sound(Face(db))
      /\ Face(db)[1] = db.state /\ Face(db)[2] = db.test
  BY FaceFacts DEF DataInv, GoodDisk, Disk, Continues, ControlInv
<1>2. /\ PhaseOf(db)' = PhaseOf(db') /\ PausedOf(db)' = PausedOf(db')
  BY DEF PhaseOf, PausedOf
<1>3. CASE Face(db') = Face(db)
  BY <1>1, <1>2, <1>3, FaceDecides, SameMaps DEF Parked
<1>4. CASE Face(db') = NextFace
  <2>1. IF db.test = LastTest THEN PhaseOf(db)' = "done" /\ db'.test = db.test
        ELSE PhaseOf(db)' = "testing" /\ db'.test = db.test + 1
    BY <1>1, <1>2, <1>4, PhaseFacts, ActiveStateFacts DEF NextFace
  <2>2. PausedOf(db) = "testing" /\ PausedOf(db)' = "testing"
    BY <1>1, <1>2, <1>4, PhaseFacts, ActiveStateFacts DEF Parked, NextFace, Active
  <2>3. \/ PhaseOf(db) \in {"testing", "resting", "failed"}
        \/ PhaseOf(db) = "done" /\ db.test = LastTest
    BY <1>1, PhaseFacts DEF Parked, States, Resumable, Sound
  <2>4. CASE PhaseOf(db) = "done" /\ db.test = LastTest
    BY <2>1, <2>2, <2>4, SameMaps
  <2> QED BY <2>1, <2>2, <2>3, <2>4
          DEF Maps, Lifecycle!Next, Lifecycle!Advance, Lifecycle!Skip, Lifecycle!NextTest,
              Lifecycle!Becomes
<1> QED BY <1>3, <1>4 DEF Continues

LEMMA StartsMaps ==
  ASSUME DataInv, DataInv', Starts
  PROVE  Maps
<1>1. /\ db.state \in States /\ db'.state \in States
      /\ Face(db')[1] = db'.state /\ Face(db')[2] = db'.test
  BY FaceFacts DEF DataInv, GoodDisk, Disk
<1>2. /\ PhaseOf(db)' = PhaseOf(db') /\ PausedOf(db)' = PausedOf(db')
  BY DEF PhaseOf, PausedOf
<1>3. CASE db' = db
  BY <1>2, <1>3, SameMaps
<1>4. CASE Face(db') = StartFace
  <2>1. db'.test = db.test /\ db'.state # "stopped_manual" /\ PausedOf(db)' = "testing"
    BY <1>1, <1>2, <1>4, PhaseFacts, ActiveStateFacts DEF StartFace, Active, Resting
  <2>2. PhaseOf(db)' = PausedOf(db)
    BY <1>1, <1>2, <1>4, PhaseFacts, ActiveStateFacts DEF StartFace, PausedOf
  <2>3. \/ PhaseOf(db) = "idle" /\ PausedOf(db) = "testing"
        \/ PhaseOf(db) \in {"held", "abandoned"}
    BY <1>1, PhaseFacts DEF Starts, Parked
  <2> QED BY <2>1, <2>2, <2>3
          DEF Maps, Lifecycle!Next, Lifecycle!Begin, Lifecycle!Resume, Lifecycle!Becomes
<1> QED BY <1>3, <1>4 DEF Starts

LEMMA StopsMaps ==
  ASSUME DataInv, DataInv', Stops
  PROVE  Maps
<1>1. /\ db.state \in States /\ db'.state \in States /\ db.state \in Resumable
      /\ db.state \in Resting => db.deadline # NONE
      /\ Face(db')[1] = db'.state /\ Face(db')[2] = db'.test
      /\ Face(db)[1] = db.state /\ Face(db)[2] = db.test
  BY FaceFacts DEF DataInv, GoodDisk, Disk, Stops
<1>2. /\ PhaseOf(db)' = PhaseOf(db') /\ PausedOf(db)' = PausedOf(db')
      /\ db.state # "stopped_manual"
  BY <1>1 DEF PhaseOf, PausedOf, Resumable, Active, Resting
<1>3. CASE Face(db') = Face(db)
  BY <1>1, <1>2, <1>3, FaceDecides, SameMaps
<1>4. CASE Holds(db')
  <2>1. db'.test = db.test /\ PhaseOf(db') = "held"
    BY <1>4 DEF Holds, PhaseOf, Active, Resting
  <2>2. PhaseOf(db) \in {"testing", "resting"} /\ PausedOf(db') = PhaseOf(db)
    BY <1>1, <1>4, PhaseFacts DEF Holds, PausedOf, Resumable, Active, Resting
  <2> QED BY <1>2, <2>1, <2>2 DEF Maps, Lifecycle!Next, Lifecycle!Hold
<1> QED BY <1>3, <1>4 DEF Stops

LEMMA RestartsMaps ==
  ASSUME DataInv, DataInv', Restarts
  PROVE  Maps
<1>1. /\ db.state \in States /\ db'.state \in States
      /\ Face(db')[1] = db'.state /\ Face(db')[2] = db'.test
      /\ Face(db)[1] = db.state /\ Face(db)[2] = db.test
  BY FaceFacts DEF DataInv, GoodDisk, Disk
<1>2. /\ PhaseOf(db)' = PhaseOf(db') /\ PausedOf(db)' = PausedOf(db')
  BY DEF PhaseOf, PausedOf
<1>3. CASE db' = db
  BY <1>2, <1>3, SameMaps
<1>4. CASE Face(db') = Face(db) /\ db.state # "stopped_manual"
  BY <1>1, <1>2, <1>4, FaceDecides, SameMaps
<1>5. CASE Abandons(db')
  <2>1. db'.test = db.test /\ PhaseOf(db') = "abandoned" /\ PausedOf(db') = "testing"
    BY <1>5, NoneAssumption DEF Abandons, PhaseOf, PausedOf, States, Resumable, Active, Resting
  <2>2. PhaseOf(db) \in {"idle", "testing", "resting", "failed"} /\ PausedOf(db) = "testing"
    BY <1>1, <1>5, PhaseFacts DEF Abandons, States, Resumable
  <2> QED BY <1>2, <2>1, <2>2
          DEF Maps, Lifecycle!Next, Lifecycle!TornRestart, Lifecycle!Becomes
<1>6. CASE Face(db') \in {<<"not_started", 1, NONE>>, <<"running_snapshot", 1, NONE>>}
  <2>1. db'.test = 1 /\ PausedOf(db') = "testing" /\ PhaseOf(db') \in {"idle", "testing"}
    BY <1>1, <1>6, PhaseFacts DEF Active
  <2> QED BY <1>2, <2>1 DEF Maps, Lifecycle!Next, Lifecycle!TornRestart, Lifecycle!Restart
<1> QED BY <1>3, <1>4, <1>5, <1>6 DEF Restarts, RestartLeaves

LEMMA WaitsMaps ==
  ASSUME Waits
  PROVE  Maps
<1>1. PhaseOf(db)' = PhaseOf(db) /\ PausedOf(db)' = PausedOf(db) /\ db'.test = db.test
  BY DEF Waits, PhaseOf, PausedOf
<1> QED BY <1>1, SameMaps

LEMMA StaysMaps ==
  ASSUME DataInv, Stays
  PROVE  Maps
<1>1. db.state \in States /\ db'.state = db.state /\ db'.test = db.test
  BY DEF DataInv, GoodDisk, Disk, Stays, Face
<1>2. /\ PhaseOf(db)' = PhaseOf(db') /\ PausedOf(db)' = PausedOf(db')
  BY DEF PhaseOf, PausedOf
<1>3. CASE db.state \in Parked
  BY <1>2, <1>3, SameMaps DEF Stays
<1>4. CASE db.state \notin Parked
  BY <1>1, <1>2, <1>4, FaceDecides, SameMaps DEF Parked
<1> QED BY <1>3, <1>4

(* The runner implements the experiment: whatever its tasks, timers,       *)
(* requests, transactions and crashes do, each of them leaves a step of    *)
(* ExperimentLifecycle behind, or none.                                    *)
THEOREM RunnerImplementsLifecycle == Spec => ImplementsLifecycle
<1>1. Init => Lifecycle!Init
  <2> SUFFICES ASSUME Init
               PROVE  Lifecycle!Init
    OBVIOUS
  <2>1. db.state = "not_started" /\ db.test = 1
    BY DEF Init, CreateRun
  <2> QED BY <2>1, PhaseFacts DEF Lifecycle!Init, States
<1>2. IInv /\ ControlInv /\ IInv' /\ [Next]_vars => [Lifecycle!Next]_(Lifecycle!vars)
  <2>1. ASSUME IInv, ControlInv, IInv', Next
        PROVE  Maps
    <3>1. Outcome /\ DataInv /\ DataInv'
      BY <2>1, NextOutcome DEF IInv
    <3> QED BY <2>1, <3>1, WaitsMaps, StaysMaps, ProceedsMaps, StartsMaps, StopsMaps,
               RestartsMaps, ContinuesMaps DEF Outcome
  <2>2. ASSUME UNCHANGED vars
        PROVE  Maps
    <3>1. db' = db
      BY <2>2 DEF vars
    <3>2. PhaseOf(db)' = PhaseOf(db) /\ PausedOf(db)' = PausedOf(db)
      BY <3>1 DEF PhaseOf, PausedOf
    <3> QED BY <3>1, <3>2, SameMaps
  <2> QED BY <2>1, <2>2 DEF Maps
<1> QED BY <1>1, <1>2, ControlInvariance, PTL
        DEF Spec, ImplementsLifecycle, Lifecycle!Spec

-----------------------------------------------------------------------------
(* The rest between two tests.                                             *)

\* What remains of a rest and what has passed of it make a full recovery.
RestInv == db.deadline # NONE => rest + db.deadline >= RecoveryDuration

(* Only time shortens a deadline.                                          *)
LEMMA DeadlineKept ==
  ASSUME Outcome, ~Tick
  PROVE  db'.deadline \in {db.deadline, NONE, RecoveryDuration}
<1>1. /\ Face(db')[3] = db'.deadline /\ Face(db)[3] = db.deadline
  BY FaceFacts
<1>2. CASE Stays \/ Proceeds
  BY <1>1, <1>2 DEF Stays, Proceeds, Leads, Finishes, FinalFace, Lowers, LowFace, Fails, ErrorFace,
                    Advances, NextFace
<1>3. CASE Starts \/ Stops
  BY <1>1, <1>3 DEF Starts, StartFace, Stops, Holds
<1>4. CASE Restarts \/ Continues
  BY <1>1, <1>4 DEF Restarts, RestartLeaves, Abandons, Continues, NextFace
<1> QED BY <1>2, <1>3, <1>4 DEF Outcome

LEMMA RestStep ==
  ASSUME IInv, ControlInv, RestInv, IInv', ControlInv', Next
  PROVE  RestInv'
<1>1. /\ db.deadline \in OrNone(RecoveryTimes) /\ db'.deadline \in OrNone(RecoveryTimes)
      /\ rest \in RecoveryTimes /\ rest' \in RecoveryTimes
  BY DEF IInv, DataInv, GoodDisk, Disk, HistoryInv
<1>2. /\ db.state \in Active => db.deadline = NONE
      /\ db'.state \in Active => db'.deadline = NONE
  <2>1. db.state \in Active => db.deadline = NONE
    BY FaceFacts DEF ControlInv, Sound
  <2>2. Sound(Face(db))'
    BY DEF ControlInv
  <2>3. db'.state \in Active => db'.deadline = NONE
    BY <2>2 DEF Sound, Face, Active
  <2> QED BY <2>1, <2>3
<1>3. RecoveryTimes \subseteq Nat /\ NONE \notin Nat /\ RecoveryDuration \in Nat \ {0}
  BY DurationAssumption, NoneAssumption DEF RecoveryTimes
<1>4. CASE Tick
  <2> SUFFICES ASSUME db'.deadline # NONE
               PROVE  rest' + db'.deadline >= RecoveryDuration
    BY DEF RestInv
  <2>1. db \in Disk
    BY DEF IInv, DataInv, GoodDisk
  <2>2. db'.deadline = IF db.deadline = NONE \/ db.deadline = 0 THEN db.deadline
                       ELSE db.deadline - 1
    BY <1>4, <2>1 DEF Tick, Disk
  <2>3. db.deadline # NONE /\ db.state \notin Active
    BY <1>2, <2>2
  <2>4. rest' = IF rest + 1 < RecoveryDuration THEN rest + 1 ELSE RecoveryDuration
    BY <1>4, <2>3 DEF Tick, Cap
  <2>5. db.deadline \in Nat /\ rest \in Nat /\ rest + db.deadline >= RecoveryDuration
    BY <1>1, <1>3, <2>3 DEF OrNone, RestInv
  <2> QED BY <1>3, <2>2, <2>3, <2>4, <2>5
<1>5. CASE ~Tick
  <2>1. \E newRun, receipt \in BOOLEAN : Observe(newRun, receipt)
    BY <1>5 DEF Next
  <2>2. rest' = IF db.state \in Active \/ db'.state \in Active THEN 0 ELSE rest
    BY <2>1 DEF Observe
  <2>3. db'.deadline \in {db.deadline, NONE, RecoveryDuration}
    BY <1>5, NextOutcome, DeadlineKept DEF IInv
  <2>4. CASE db'.deadline = RecoveryDuration
    <3>1. rest' \in Nat
      BY <1>1, <1>3
    <3>2. RecoveryDuration \in Nat /\ \A a, b \in Nat : a + b >= b
      BY <1>3
    <3>3. rest' + RecoveryDuration >= RecoveryDuration
      BY <3>1, <3>2
    <3> QED BY <2>4, <3>3 DEF RestInv
  <2>5. CASE db'.deadline = db.deadline /\ db.deadline # NONE
    BY <1>2, <2>2, <2>5 DEF RestInv
  <2> QED BY <2>3, <2>4, <2>5 DEF RestInv
<1> QED BY <1>4, <1>5

(* The timer of a rest cannot be cut short by stopping and resuming, by a  *)
(* low reading or by restarting the process: only a verified request to    *)
(* continue begins the next test before a full recovery has passed.        *)
THEOREM RestsAreFull == Spec => RecoveryIsFull
<1>1. Init => RestInv
  BY DEF Init, CreateRun, RestInv
<1>2. IInv /\ ControlInv /\ RestInv /\ (IInv /\ ControlInv)' /\ [Next]_vars => RestInv'
  <2>1. ASSUME IInv, ControlInv, RestInv, IInv', ControlInv', Next
        PROVE  RestInv'
    BY <2>1, RestStep
  <2>2. ASSUME RestInv, UNCHANGED vars
        PROVE  RestInv'
    BY <2>2 DEF vars, history, RestInv
  <2> QED BY <2>1, <2>2
<1>3. IInv /\ ControlInv /\ RestInv /\ (IInv /\ ControlInv)' /\ [Next]_vars =>
        [db'.test > db.test =>
           rest = RecoveryDuration \/ \E c \in Callers : ContinueVerified(c)]_vars
  <2> SUFFICES ASSUME IInv, ControlInv, RestInv, IInv', Next, db'.test > db.test,
                      ~ \E c \in Callers : ContinueVerified(c)
               PROVE  rest = RecoveryDuration
    OBVIOUS
  <2>1. Outcome
    BY NextOutcome DEF IInv
  <2>2. /\ db.test \in Nat /\ db.test >= 1 /\ ~(db.test > db.test) /\ ~(1 > db.test)
    <3>1. db.test \in Tests
      BY DEF IInv, DataInv, GoodDisk, Disk
    <3> QED BY <3>1, TestAssumption DEF Tests
  <2>3. Face(db')[2] = db'.test /\ Face(db)[2] = db.test
    BY FaceFacts
  <2>4. ~Waits /\ ~Stays /\ ~Starts /\ ~Stops /\ ~Restarts
    <3>1. ~Waits /\ ~Stays
      BY <2>2, <2>3 DEF Waits, Stays
    <3>2. ~Starts
      BY <2>2, <2>3 DEF Starts, StartFace
    <3>3. ~Stops /\ ~Restarts
      BY <2>2, <2>3 DEF Stops, Holds, Restarts, RestartLeaves, Abandons
    <3> QED BY <3>1, <3>2, <3>3
  <2>5. Leads(Face(db'))
    BY <2>1, <2>4 DEF Outcome, Proceeds
  <2>6. Advances(Face(db'))
    BY <2>2, <2>3, <2>5 DEF Leads, Finishes, FinalFace, Lowers, LowFace, Fails, ErrorFace
  <2>7. db.deadline = 0 /\ db.deadline # NONE
    BY <2>6, NoneAssumption DEF Advances
  <2>8. rest + 0 >= RecoveryDuration /\ rest \in 0..RecoveryDuration
    BY <2>7 DEF RestInv, IInv, HistoryInv, RecoveryTimes
  <2> QED BY <2>8, DurationAssumption
<1> QED BY <1>1, <1>2, <1>3, ControlInvariance, PTL DEF Spec, RecoveryIsFull
==============================================================================
