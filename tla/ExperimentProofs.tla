-------------------------- MODULE ExperimentProofs --------------------------
(***************************************************************************)
(* What every method of Experiment.tla preserves, for all values of the    *)
(* constants: the types, and the agreement of the open phase with the run  *)
(* in every transaction that the method commits.                           *)
(***************************************************************************)
EXTENDS Experiment, TLAPS

Section == [db : Disk, mem : Memory, log : SUBSET Disk]

\* Rows that a crash may leave behind
GoodDisk(d) ==
  /\ d \in Disk
  /\ ~d.orphans
  /\ d.state \in Resting => d.deadline # NONE
  /\ \A r \in Rows : d.open[r] > 0 => r = RowOf(d) /\ d.open[r] = 1

\* A section between two of its transactions: _phase_id names the open phase
Good(s) ==
  /\ s \in Section
  /\ GoodDisk(s.db)
  /\ \A d \in s.log : GoodDisk(d)
  /\ \A r \in Rows : s.db.open[r] > 0 <=> r = s.mem.phase

\* What the methods leave to the controls and to the tasks
Controls(m) == <<m.generation, m.task, m.call>>

\* Where the experiment is
Face(d) == <<d.state, d.test, d.deadline>>

\* The method that makes t of s takes the experiment to the face f at once: each of its
\* transactions leaves either the face it found or that one.
Moves(s, t, f) ==
  /\ Controls(t.mem) = Controls(s.mem)
  /\ Face(t.db) = f
  /\ \A d \in t.log : d \in s.log \cup {s.db} \/ Face(d) \in {Face(s.db), f}

Quiet(s, t) == Moves(s, t, Face(s.db))

-----------------------------------------------------------------------------
(* The members of the named sets of times that the methods write.          *)
LEMMA TypeFacts ==
  /\ 0 \in TestTimes
  /\ 0 \in OutageTimes
  /\ 0 \in RecoveryTimes
  /\ 0 \in ByteAges
  /\ RecoveryDuration \in RecoveryTimes
  /\ \A S : NONE \in OrNone(S)
  /\ \A S, x : x \in S => x \in OrNone(S)
BY DurationAssumption DEF TestTimes, OutageTimes, RecoveryTimes, ByteAges, OrNone

(* Saturation keeps a number in its range.                                 *)
LEMMA CapFacts ==
  ASSUME NEW n \in Nat
  PROVE  /\ Cap(n, TestDuration) \in TestTimes
         /\ Cap(n, RecoveryDuration) \in RecoveryTimes
         /\ Cap(n, FatalOutage) \in OutageTimes
         /\ Cap(n, FatalOutage + 1) \in ByteAges
         /\ Cap(n, 2) \in 0..2
BY DurationAssumption DEF Cap, TestTimes, RecoveryTimes, OutageTimes, ByteAges

(* A row of the phases table is one of Rows, and is not None.              *)
LEMMA RowFacts ==
  ASSUME NEW d \in Disk
  PROVE  /\ RowOf(d) \in OrNone(Rows)
         /\ \A kind \in {"active", "recovery"} : [test |-> d.test, kind |-> kind] \in Rows
         /\ NONE \notin Rows
         /\ d.state \in Active => RowOf(d) = [test |-> d.test, kind |-> "active"]
         /\ d.state \in Resting => RowOf(d) = [test |-> d.test, kind |-> "recovery"]
         /\ d.state \notin Resumable => RowOf(d) = NONE
BY NoneAssumption DEF RowOf, Rows, OrNone, Disk, Active, Resting, Resumable

(* The parts of a section have their types.                                *)
LEMMA SectionFacts ==
  ASSUME NEW s, Good(s)
  PROVE  s \in Section /\ s.db \in Disk /\ s.mem \in Memory /\ GoodDisk(s.db)
BY DEF Good, Section

-----------------------------------------------------------------------------
(* Of two methods one after the other at most one may move the experiment. *)
LEMMA MovesTransitive ==
  ASSUME NEW s, NEW t, NEW u, NEW f,
         \/ Quiet(s, t) /\ Moves(t, u, f)
         \/ Moves(s, t, f) /\ Quiet(t, u)
  PROVE  Moves(s, u, f)
BY DEF Moves, Quiet

LEMMA QuietTransitive ==
  ASSUME NEW s, NEW t, NEW u, Quiet(s, t), Quiet(t, u)
  PROVE  Quiet(s, u)
BY DEF Moves, Quiet

LEMMA WriteMoves ==
  ASSUME NEW s, s \in Section, NEW d
  PROVE  Moves(s, Write(s, d), Face(d))
BY DEF Moves, Write, Section

(* One transaction that leaves the phases table alone.                     *)
LEMMA WriteGood ==
  ASSUME NEW s, Good(s), NEW d, GoodDisk(d), d.open = s.db.open
  PROVE  /\ Good(Write(s, d)) /\ Write(s, d).db = d /\ Write(s, d).mem = s.mem
         /\ Write(s, d).log = s.log \cup {s.db}
<1>1. Write(s, d) = [s EXCEPT !.db = d, !.log = s.log \cup {s.db}]
  BY DEF Write
<1>2. Write(s, d) \in Section
  <2>1. s \in Section /\ d \in Disk
    BY DEF Good, GoodDisk
  <2>2. s.log \cup {s.db} \in SUBSET Disk
    BY <2>1 DEF Section
  <2> QED BY <1>1, <2>1, <2>2 DEF Section
<1>3. /\ Write(s, d).db = d
      /\ Write(s, d).mem = s.mem
      /\ Write(s, d).log = s.log \cup {s.db}
  BY <1>1 DEF Good, Section
<1> QED BY <1>2, <1>3 DEF Good

(* An assignment to the memory that keeps _phase_id.                       *)
LEMMA MemGood ==
  ASSUME NEW s, Good(s), NEW m \in Memory, m.phase = s.mem.phase
  PROVE  Good([s EXCEPT !.mem = m])
<1> DEFINE t == [s EXCEPT !.mem = m]
<1>1. t \in Section /\ t.db = s.db /\ t.mem = m /\ t.log = s.log
  BY DEF Good, Section
<1> HIDE DEF t
<1>2. Good(t)
  BY <1>1 DEF Good
<1> QED BY <1>2 DEF t

(* Rows that agree on what GoodDisk reads are alike for it.                *)
LEMMA SameRow ==
  ASSUME NEW d, GoodDisk(d), NEW e \in Disk,
         e.state = d.state, e.test = d.test, e.deadline = d.deadline,
         e.open = d.open, e.orphans = d.orphans
  PROVE  GoodDisk(e) /\ RowOf(e) = RowOf(d)
BY DEF GoodDisk, RowOf

(* With no phase open, the state may change freely.                        *)
LEMMA FreeRow ==
  ASSUME NEW e \in Disk, ~e.orphans, e.state \in Resting => e.deadline # NONE,
         \A r \in Rows : ~(e.open[r] > 0)
  PROVE  GoodDisk(e)
BY DEF GoodDisk

-----------------------------------------------------------------------------
(* storage.end_phase of the open phase leaves none open.                   *)
LEMMA CloseRowGood ==
  ASSUME NEW d, GoodDisk(d), NEW r \in Rows, d.open[r] > 0, NEW outcome
  PROVE  LET e == CloseRow(d, r, outcome) IN
         /\ GoodDisk(e)
         /\ \A q \in Rows : ~(e.open[q] > 0)
         /\ e.state = d.state /\ e.test = d.test /\ e.deadline = d.deadline
<1> DEFINE e == CloseRow(d, r, outcome)
           open == [d.open EXCEPT ![r] = @ - 1]
           finished == [d.finished EXCEPT ![r.test] =
                          IF r.kind = "active" /\ outcome \in FinalOutcomes
                          THEN Cap(@ + 1, 2) ELSE @]
<1>1. d \in Disk /\ d.open[r] = 1 /\ \A q \in Rows : d.open[q] > 0 => q = r
  BY DEF GoodDisk
<1>2. open \in [Rows -> Nat] /\ \A q \in Rows : ~(open[q] > 0)
  <2>1. d.open \in [Rows -> Nat]
    BY <1>1 DEF Disk
  <2> QED BY <1>1, <2>1
<1>3. finished \in [Tests -> 0..2]
  <2>1. r.test \in Tests /\ d.finished \in [Tests -> 0..2]
    BY <1>1 DEF Rows, Disk
  <2>2. \A x \in 0..2 : Cap(x + 1, 2) \in 0..2
    BY DEF Cap
  <2> QED BY <2>1, <2>2
<1>4. e = [d EXCEPT !.open = open, !.finished = finished]
  BY DEF CloseRow
<1> HIDE DEF open, finished
<1>5. e \in Disk
  BY <1>1, <1>2, <1>3, <1>4 DEF Disk
<1>6. /\ e.open = open /\ e.state = d.state /\ e.test = d.test
      /\ e.deadline = d.deadline /\ e.orphans = d.orphans
  BY <1>1, <1>4 DEF Disk
<1>7. GoodDisk(e)
  BY <1>2, <1>5, <1>6, FreeRow DEF GoodDisk
<1> QED BY <1>2, <1>6, <1>7

(* EndPhase closes the phase that _phase_id names, if any.                 *)
LEMMA EndPhaseGood ==
  ASSUME NEW s, Good(s), NEW outcome
  PROVE  LET t == EndPhase(s, outcome) IN
         /\ Good(t)
         /\ t.mem.phase = NONE
         /\ t.db.state = s.db.state /\ t.db.test = s.db.test
         /\ t.db.deadline = s.db.deadline
         /\ Quiet(s, t)
<1>0. s.db \in Disk /\ s.mem \in Memory /\ GoodDisk(s.db)
  BY SectionFacts
<1>1. CASE s.mem.phase = NONE
  BY <1>0, <1>1 DEF EndPhase, Quiet, Moves
<1>2. CASE s.mem.phase # NONE
  <2> DEFINE r == s.mem.phase
             d == CloseRow(s.db, r, outcome)
             m == [s.mem EXCEPT !.phase = NONE]
             t == EndPhase(s, outcome)
  <2>1. r \in Rows /\ s.db.open[r] > 0
    BY <1>0, <1>2 DEF Memory, OrNone, Good
  <2>2. /\ GoodDisk(d) /\ \A q \in Rows : ~(d.open[q] > 0)
        /\ d.state = s.db.state /\ d.test = s.db.test /\ d.deadline = s.db.deadline
    BY <1>0, <2>1, CloseRowGood
  <2>3. m \in Memory /\ m.phase = NONE /\ Controls(m) = Controls(s.mem)
    BY <1>0, TypeFacts DEF Memory, Controls
  <2>4. t = [[s EXCEPT !.mem = m] EXCEPT !.db = d, !.log = s.log \cup {s.db}]
    BY <1>2 DEF EndPhase, Write, Good, Section
  <2> HIDE DEF d, m, t
  <2>5. /\ t \in Section /\ t.db = d /\ t.mem = m /\ t.log = s.log \cup {s.db}
    BY <2>2, <2>3, <2>4 DEF Good, Section, GoodDisk
  <2>6. Good(t)
    BY <1>0, <2>2, <2>3, <2>5, NoneAssumption DEF Good
  <2>7. Quiet(s, t)
    BY <2>2, <2>3, <2>5 DEF Quiet, Moves, Face
  <2> QED BY <2>2, <2>3, <2>5, <2>6, <2>7 DEF t
<1> QED BY <1>1, <1>2

(* BeginPhase opens the phase of the current state.                        *)
LEMMA BeginPhaseGood ==
  ASSUME NEW s, Good(s), s.mem.phase = NONE, NEW kind \in {"active", "recovery"},
         RowOf(s.db) = [test |-> s.db.test, kind |-> kind]
  PROVE  LET t == BeginPhase(s, kind) IN
         /\ Good(t)
         /\ t.mem.phase = RowOf(t.db)
         /\ t.db.state = s.db.state /\ t.db.test = s.db.test
         /\ t.db.deadline = s.db.deadline
         /\ Quiet(s, t)
<1> DEFINE row == [test |-> s.db.test, kind |-> kind]
           open == [s.db.open EXCEPT ![row] = @ + 1]
           d == [s.db EXCEPT !.open = open]
           m == [s.mem EXCEPT !.phase = row]
           t == BeginPhase(s, kind)
<1>0. s.db \in Disk /\ s.mem \in Memory /\ GoodDisk(s.db)
  BY SectionFacts
<1>1. row \in Rows
  BY <1>0, RowFacts
<1>2. \A r \in Rows : s.db.open[r] = 0
  <2>1. s.db.open \in [Rows -> Nat] /\ \A r \in Rows : ~(s.db.open[r] > 0)
    BY <1>0, NoneAssumption DEF Disk, Good
  <2> QED BY <2>1
<1>3. /\ open \in [Rows -> Nat]
      /\ \A r \in Rows : open[r] = IF r = row THEN 1 ELSE 0
  <2>1. s.db.open \in [Rows -> Nat]
    BY <1>0 DEF Disk
  <2> HIDE DEF row
  <2> QED BY <1>1, <1>2, <2>1
<1>4. t = [[s EXCEPT !.mem = m] EXCEPT !.db = d, !.log = s.log \cup {s.db}]
  BY DEF BeginPhase, Write, Good, Section
<1> HIDE DEF row, open, t
<1>5. d \in Disk /\ d.open = open /\ d.state = s.db.state /\ d.test = s.db.test
      /\ d.deadline = s.db.deadline /\ d.orphans = s.db.orphans
  BY <1>0, <1>3 DEF Disk
<1>6. m \in Memory /\ m.phase = row /\ Controls(m) = Controls(s.mem)
  BY <1>0, <1>1, TypeFacts DEF Memory, Controls
<1> HIDE DEF d, m
<1>7. RowOf(d) = row
  BY <1>5 DEF RowOf, row
<1>8. GoodDisk(d)
  BY <1>0, <1>3, <1>5, <1>7 DEF GoodDisk
<1>9. t \in Section /\ t.db = d /\ t.mem = m /\ t.log = s.log \cup {s.db}
  BY <1>4, <1>5, <1>6 DEF Good, Section
<1>10. Good(t)
  BY <1>0, <1>3, <1>5, <1>6, <1>8, <1>9 DEF Good
<1>11. Quiet(s, t)
  BY <1>5, <1>6, <1>9 DEF Quiet, Moves, Face
<1> QED BY <1>5, <1>6, <1>7, <1>9, <1>10, <1>11 DEF t

-----------------------------------------------------------------------------
(* The clock of a stream outage: these methods keep the state, the test,   *)
(* the deadline and the phase.  Keeps(s, t) says so of the section t that  *)
(* a method makes of s.                                                    *)
Keeps(s, t) ==
  /\ Good(t)
  /\ t.mem.phase = s.mem.phase
  /\ t.db.state = s.db.state /\ t.db.test = s.db.test /\ t.db.deadline = s.db.deadline
  /\ Quiet(s, t)

LEMMA KeepsTransitive ==
  ASSUME NEW s, NEW t, NEW u, Keeps(s, t), Keeps(t, u)
  PROVE  Keeps(s, u)
BY QuietTransitive DEF Keeps

LEMMA KeepsSame ==
  ASSUME NEW s, Good(s)
  PROVE  Keeps(s, s)
BY DEF Keeps, Quiet, Moves

(* An assignment to the memory.                                            *)
LEMMA MemKeeps ==
  ASSUME NEW s, Good(s), NEW m \in Memory, m.phase = s.mem.phase,
         Controls(m) = Controls(s.mem)
  PROVE  Keeps(s, [s EXCEPT !.mem = m]) /\ [s EXCEPT !.mem = m].mem = m
         /\ [s EXCEPT !.mem = m].db = s.db
<1> DEFINE t == [s EXCEPT !.mem = m]
<1>1. Good(t) /\ t.mem = m /\ t.db = s.db /\ t.log = s.log
  BY MemGood DEF Good, Section
<1> HIDE DEF t
<1>2. Keeps(s, t)
  BY <1>1 DEF Keeps, Quiet, Moves
<1> QED BY <1>1, <1>2 DEF t

(* One transaction on other columns of the run.                            *)
LEMMA WriteKeeps ==
  ASSUME NEW s, Good(s), NEW d \in Disk,
         d.state = s.db.state, d.test = s.db.test, d.deadline = s.db.deadline,
         d.open = s.db.open, d.orphans = s.db.orphans
  PROVE  Keeps(s, Write(s, d)) /\ Write(s, d).db = d
<1>1. GoodDisk(d)
  BY SectionFacts, SameRow
<1>2. Quiet(s, Write(s, d))
  BY SectionFacts, WriteMoves DEF Quiet, Face
<1> QED BY <1>1, <1>2, WriteGood DEF Keeps

(* The outage clock restarts at zero on top of what it has counted.        *)
LEMMA WriteOutageKeeps ==
  ASSUME NEW s, Good(s), NEW n \in Nat
  PROVE  Keeps(s, WriteOutage(s, n))
<1> DEFINE m == [s.mem EXCEPT !.outStarted = 0]
           t == [s EXCEPT !.mem = m]
           d == [t.db EXCEPT !.outSeconds = Cap(n, FatalOutage), !.outActive = TRUE,
                             !.outChecked = 0]
<1>1. s.mem \in Memory /\ s.db \in Disk
  BY SectionFacts
<1>2. m \in Memory /\ m.phase = s.mem.phase /\ Controls(m) = Controls(s.mem)
  BY <1>1, TypeFacts DEF Memory, Controls
<1>3. Keeps(s, t) /\ t.db = s.db
  BY <1>2, MemKeeps
<1>4. /\ d \in Disk /\ d.state = t.db.state /\ d.test = t.db.test /\ d.deadline = t.db.deadline
      /\ d.open = t.db.open /\ d.orphans = t.db.orphans
  BY <1>1, <1>3, TypeFacts, CapFacts DEF Disk
<1>5. WriteOutage(s, n) = Write(t, d)
  BY <1>3 DEF WriteOutage, Good, Section
<1> HIDE DEF m, t, d
<1>6. Keeps(t, Write(t, d))
  BY <1>3, <1>4, WriteKeeps DEF Keeps
<1> QED BY <1>3, <1>5, <1>6, KeepsTransitive

LEMMA ResetStreamTrackingKeeps ==
  ASSUME NEW s, Good(s)
  PROVE  Keeps(s, ResetStreamTracking(s))
<1> DEFINE m == [s.mem EXCEPT !.outStarted = NONE, !.lastBytes = NONE, !.valid = 0]
<1>1. s.mem \in Memory
  BY SectionFacts
<1>2. m \in Memory /\ m.phase = s.mem.phase /\ Controls(m) = Controls(s.mem)
  BY <1>1, TypeFacts DEF Memory, Controls
<1>3. ResetStreamTracking(s) = [s EXCEPT !.mem = m]
  BY DEF ResetStreamTracking, Good, Section
<1> HIDE DEF m
<1> QED BY <1>2, <1>3, MemKeeps

LEMMA RestoreOrStartStreamOutageKeeps ==
  ASSUME NEW s, Good(s), NEW accountClosed \in BOOLEAN
  PROVE  Keeps(s, RestoreOrStartStreamOutage(s, accountClosed))
<1>1. s.db \in Disk
  BY SectionFacts
<1>2. /\ s.db.outSeconds \in Nat
      /\ s.db.outChecked # NONE => s.db.outChecked \in Nat
  BY <1>1 DEF Disk, OutageTimes, OrNone
<1>3. (IF s.db.outActive
       THEN s.db.outSeconds
              + (IF accountClosed /\ s.db.outChecked # NONE THEN s.db.outChecked ELSE 0)
       ELSE 0) \in Nat
  BY <1>2
<1> QED BY <1>3, WriteOutageKeeps DEF RestoreOrStartStreamOutage

LEMMA StartStreamOutageKeeps ==
  ASSUME NEW s, Good(s), NEW n \in Nat
  PROVE  Keeps(s, StartStreamOutage(s, n))
BY WriteOutageKeeps, KeepsSame DEF StartStreamOutage

LEMMA RefreshStreamOutageKeeps ==
  ASSUME NEW s, Good(s)
  PROVE  Keeps(s, RefreshStreamOutage(s))
<1>1. s.mem.lastBytes # NONE => s.mem.lastBytes \in Nat
  BY SectionFacts, DurationAssumption DEF Memory, ByteAges, OrNone
<1> QED BY <1>1, StartStreamOutageKeeps, KeepsSame DEF RefreshStreamOutage

LEMMA NoteStreamErrorKeeps ==
  ASSUME NEW s, Good(s)
  PROVE  Keeps(s, NoteStreamError(s))
<1>1. s.mem.lastBytes # NONE => s.mem.lastBytes \in Nat
  BY SectionFacts, DurationAssumption DEF Memory, ByteAges, OrNone
<1> QED BY <1>1, StartStreamOutageKeeps DEF NoteStreamError

LEMMA CheckpointStreamOutageKeeps ==
  ASSUME NEW s, Good(s)
  PROVE  Keeps(s, CheckpointStreamOutage(s))
<1>1. s.mem \in Memory /\ s.db \in Disk
  BY SectionFacts
<1>2. s.db.outSeconds \in Nat /\ (s.mem.outStarted # NONE => s.mem.outStarted \in Nat)
  BY <1>1 DEF Memory, Disk, OutageTimes, OrNone
<1>3. s.mem.outStarted # NONE => s.db.outSeconds + s.mem.outStarted \in Nat
  BY <1>2
<1> QED BY <1>3, WriteOutageKeeps, KeepsSame DEF CheckpointStreamOutage

LEMMA ClearStreamOutageOnReceiptKeeps ==
  ASSUME NEW s, Good(s)
  PROVE  Keeps(s, ClearStreamOutageOnReceipt(s))
<1> DEFINE m == [s.mem EXCEPT !.outStarted = NONE]
           t == [s EXCEPT !.mem = m]
           d == [t.db EXCEPT !.outSeconds = 0, !.outActive = FALSE, !.outChecked = NONE]
<1>1. s.mem \in Memory /\ s.db \in Disk
  BY SectionFacts
<1>2. m \in Memory /\ m.phase = s.mem.phase /\ Controls(m) = Controls(s.mem)
  BY <1>1, TypeFacts DEF Memory, Controls
<1>3. Keeps(s, t) /\ t.db = s.db
  BY <1>2, MemKeeps
<1>4. /\ d \in Disk /\ d.state = t.db.state /\ d.test = t.db.test /\ d.deadline = t.db.deadline
      /\ d.open = t.db.open /\ d.orphans = t.db.orphans
  BY <1>1, <1>3, TypeFacts DEF Disk
<1>5. \/ ClearStreamOutageOnReceipt(s) = s
      \/ ClearStreamOutageOnReceipt(s) = Write(t, d)
  BY <1>3 DEF ClearStreamOutageOnReceipt, Good, Section
<1> HIDE DEF m, t, d
<1>6. Keeps(t, Write(t, d))
  BY <1>3, <1>4, WriteKeeps DEF Keeps
<1> QED BY <1>3, <1>5, <1>6, KeepsTransitive, KeepsSame

LEMMA NoteStreamBytesKeeps ==
  ASSUME NEW s, Good(s)
  PROVE  Keeps(s, NoteStreamBytes(s))
<1> DEFINE near == s.mem.lastBytes # NONE /\ ~s.db.outActive /\ s.mem.lastBytes <= DataTimeout
           good == IF near THEN s.mem.lastBytes ELSE 0
           m == [s.mem EXCEPT !.valid = Cap(@ + good, TestDuration), !.lastBytes = 0]
           t == [s EXCEPT !.mem = m]
<1>1. s.mem \in Memory
  BY SectionFacts
<1>2. good \in Nat /\ s.mem.valid \in Nat
  BY <1>1, DurationAssumption DEF Memory, ByteAges, OrNone, TestTimes
<1> HIDE DEF good
<1>3. Cap(s.mem.valid + good, TestDuration) \in TestTimes
  BY <1>2, CapFacts
<1>4. m \in Memory /\ m.phase = s.mem.phase /\ Controls(m) = Controls(s.mem)
  BY <1>1, <1>3, TypeFacts DEF Memory, Controls
<1>5. NoteStreamBytes(s) = ClearStreamOutageOnReceipt(t)
  BY DEF NoteStreamBytes, Good, Section, good
<1> HIDE DEF m, t
<1>6. Keeps(s, t)
  BY <1>4, MemKeeps DEF t
<1>7. Keeps(t, ClearStreamOutageOnReceipt(t))
  BY <1>6, ClearStreamOutageOnReceiptKeeps DEF Keeps
<1> QED BY <1>5, <1>6, <1>7, KeepsTransitive

-----------------------------------------------------------------------------
(* Elapsed time.                                                           *)
LEMMA ElapsedType ==
  ASSUME NEW s, Good(s)
  PROVE  ElapsedActive(s) \in Nat
<1>1. s.mem \in Memory /\ s.db \in Disk
  BY SectionFacts
<1>2. /\ s.db.elapsed \in Nat
      /\ s.mem.valid \in Nat
      /\ s.mem.anchor # NONE => s.mem.anchor \in Nat
  BY <1>1 DEF Memory, Disk, TestTimes, OrNone
<1> QED BY <1>2 DEF ElapsedActive

LEMMA AnchorKeeps ==
  ASSUME NEW s, Good(s), NEW a \in OrNone(TestTimes)
  PROVE  Keeps(s, [s EXCEPT !.mem.anchor = a]) /\ [s EXCEPT !.mem.anchor = a].db = s.db
<1> DEFINE m == [s.mem EXCEPT !.anchor = a]
<1>1. s.mem \in Memory
  BY SectionFacts
<1>2. m \in Memory /\ m.phase = s.mem.phase /\ Controls(m) = Controls(s.mem)
  BY <1>1 DEF Memory, Controls
<1>3. [s EXCEPT !.mem.anchor = a] = [s EXCEPT !.mem = m]
  BY DEF Good, Section
<1> HIDE DEF m
<1> QED BY <1>2, <1>3, MemKeeps

LEMMA CheckpointActiveKeeps ==
  ASSUME NEW s, Good(s)
  PROVE  Keeps(s, CheckpointActive(s))
<1> DEFINE saved == Cap(ElapsedActive(s), TestDuration)
<1>1. saved \in TestTimes
  BY ElapsedType, CapFacts
<1>2. s.mem \in Memory /\ s.db \in Disk
  BY SectionFacts
<1>3. CASE s.db.state = "running_stream"
  <2> DEFINE m == [s.mem EXCEPT !.valid = 0]
             t == [s EXCEPT !.mem = m]
             u == CheckpointStreamOutage(t)
             d == [u.db EXCEPT !.elapsed = saved]
  <2>1. CheckpointActive(s) = Write(u, d)
    BY <1>3 DEF CheckpointActive, Good, Section
  <2>2. m \in Memory /\ m.phase = s.mem.phase /\ Controls(m) = Controls(s.mem)
    BY <1>2, TypeFacts DEF Memory, Controls
  <2>3. Keeps(s, t)
    BY <2>2, MemKeeps
  <2> HIDE DEF m, t, saved
  <2>4. Keeps(t, u)
    BY <2>3, CheckpointStreamOutageKeeps DEF Keeps
  <2> HIDE DEF u
  <2>5. u.db \in Disk
    BY <2>4, SectionFacts DEF Keeps
  <2>6. /\ d \in Disk /\ d.state = u.db.state /\ d.test = u.db.test
        /\ d.deadline = u.db.deadline /\ d.open = u.db.open /\ d.orphans = u.db.orphans
    BY <2>5, <1>1 DEF Disk
  <2> HIDE DEF d
  <2>7. Keeps(u, Write(u, d))
    BY <2>4, <2>6, WriteKeeps DEF Keeps
  <2> QED BY <2>1, <2>3, <2>4, <2>7, KeepsTransitive
<1>4. CASE s.db.state # "running_stream" /\ s.mem.anchor # NONE
  <2> DEFINE t == [s EXCEPT !.mem.anchor = 0]
             d == [s.db EXCEPT !.elapsed = saved]
  <2>1. CheckpointActive(s) = Write(t, d)
    BY <1>4 DEF CheckpointActive
  <2>2. Keeps(s, t) /\ t.db = s.db
    BY AnchorKeeps, TypeFacts
  <2> HIDE DEF t, saved
  <2>3. /\ d \in Disk /\ d.state = t.db.state /\ d.test = t.db.test
        /\ d.deadline = t.db.deadline /\ d.open = t.db.open /\ d.orphans = t.db.orphans
    BY <1>1, <1>2, <2>2 DEF Disk
  <2> HIDE DEF d
  <2>4. Keeps(t, Write(t, d))
    BY <2>2, <2>3, WriteKeeps DEF Keeps
  <2> QED BY <2>1, <2>2, <2>4, KeepsTransitive
<1>5. CASE s.db.state # "running_stream" /\ s.mem.anchor = NONE
  BY <1>5, KeepsSame DEF CheckpointActive
<1> QED BY <1>3, <1>4, <1>5

-----------------------------------------------------------------------------
(* Transitions.  A settled section has the phase of its state open, as it  *)
(* must be between two methods.                                            *)
Settled(s) == Good(s) /\ s.mem.phase = RowOf(s.db)

LEMMA KeepsSettled ==
  ASSUME NEW s, Settled(s), NEW t, Keeps(s, t)
  PROVE  Settled(t)
BY DEF Settled, Keeps, RowOf

(* The run changes while no phase is open.                                 *)
LEMMA FreeWrite ==
  ASSUME NEW s, Good(s), s.mem.phase = NONE, NEW d \in Disk,
         d.open = s.db.open, d.orphans = s.db.orphans,
         d.state \in Resting => d.deadline # NONE
  PROVE  /\ Good(Write(s, d)) /\ Write(s, d).mem = s.mem /\ Write(s, d).db = d
         /\ Write(s, d).log = s.log \cup {s.db}
<1>1. ~d.orphans /\ \A r \in Rows : ~(d.open[r] > 0)
  BY NoneAssumption DEF Good, GoodDisk
<1>2. GoodDisk(d)
  BY <1>1, FreeRow
<1> QED BY <1>2, WriteGood

LEMMA BeginActiveSettles ==
  ASSUME NEW s, Good(s), s.mem.phase = NONE, s.db.state \in Active,
         NEW accountClosed \in BOOLEAN
  PROVE  LET t == BeginActive(s, accountClosed) IN
         /\ Settled(t) /\ t.db.state = s.db.state /\ t.db.test = s.db.test
         /\ Moves(s, t, <<s.db.state, s.db.test, NONE>>)
<1> DEFINE r == RestoreOrStartStreamOutage(ResetStreamTracking(s), accountClosed)
           t == IF IsStream(s.db.test) THEN [r EXCEPT !.mem.anchor = NONE]
                ELSE [s EXCEPT !.mem.anchor = 0]
           d == [t.db EXCEPT !.deadline = NONE]
           u == Write(t, d)
<1>1. BeginActive(s, accountClosed) = BeginPhase(u, "active")
  BY DEF BeginActive
<1>2. Keeps(s, r)
  <2>1. Keeps(s, ResetStreamTracking(s))
    BY ResetStreamTrackingKeeps
  <2>2. Keeps(ResetStreamTracking(s), r)
    BY <2>1, RestoreOrStartStreamOutageKeeps DEF Keeps
  <2> QED BY <2>1, <2>2, KeepsTransitive
<1> HIDE DEF r
<1>3. Keeps(s, t)
  <2>0. Keeps(r, [r EXCEPT !.mem.anchor = NONE])
    BY <1>2, AnchorKeeps, TypeFacts DEF Keeps
  <2>1. Keeps(s, [r EXCEPT !.mem.anchor = NONE])
    BY <1>2, <2>0, KeepsTransitive
  <2>2. Keeps(s, [s EXCEPT !.mem.anchor = 0])
    BY AnchorKeeps, TypeFacts
  <2> QED BY <2>1, <2>2
<1> HIDE DEF t
<1>4. /\ Good(t) /\ t.mem.phase = NONE /\ t.db.state = s.db.state /\ t.db.test = s.db.test
      /\ t.db \in Disk /\ Quiet(s, t)
  BY <1>3, SectionFacts DEF Keeps
<1>5. /\ d \in Disk /\ d.state = s.db.state /\ d.test = s.db.test
      /\ d.open = t.db.open /\ d.orphans = t.db.orphans
      /\ Face(d) = <<s.db.state, s.db.test, NONE>>
  BY <1>4, TypeFacts DEF Disk, Face
<1> HIDE DEF d
<1>6. Good(u) /\ u.mem.phase = NONE /\ u.db = d
  <2>1. d.state \notin Resting
    BY <1>5 DEF Active, Resting
  <2> QED BY <1>4, <1>5, <2>1, FreeWrite
<1>7. Moves(s, u, Face(d))
  <2>1. Moves(t, u, Face(d))
    BY <1>4, SectionFacts, WriteMoves
  <2> QED BY <1>4, <2>1, MovesTransitive
<1> HIDE DEF u
<1>8. RowOf(u.db) = [test |-> u.db.test, kind |-> "active"]
  BY <1>5, <1>6, RowFacts
<1> DEFINE v == BeginPhase(u, "active")
<1>9. Settled(v) /\ v.db.state = u.db.state /\ v.db.test = u.db.test /\ Quiet(u, v)
  BY <1>6, <1>8, BeginPhaseGood DEF Settled
<1> HIDE DEF v
<1>10. Moves(s, v, Face(d))
  BY <1>7, <1>9, MovesTransitive
<1> QED BY <1>1, <1>5, <1>6, <1>9, <1>10 DEF v

LEMMA BeginRecoveryPhaseSettles ==
  ASSUME NEW s, Good(s), s.mem.phase = NONE, s.db.state \in Resting
  PROVE  LET t == BeginRecoveryPhase(s) IN
         Settled(t) /\ t.db.state = s.db.state /\ t.db.test = s.db.test /\ Quiet(s, t)
<1> DEFINE t == [s EXCEPT !.mem.anchor = NONE]
<1>1. Keeps(s, t) /\ t.db = s.db
  BY AnchorKeeps, TypeFacts
<1> HIDE DEF t
<1>2. Good(t) /\ t.mem.phase = NONE /\ t.db \in Disk
  BY <1>1, SectionFacts DEF Keeps
<1>3. RowOf(t.db) = [test |-> t.db.test, kind |-> "recovery"]
  BY <1>1, <1>2, RowFacts
<1>4. BeginRecoveryPhase(s) = BeginPhase(t, "recovery")
  BY DEF BeginRecoveryPhase, t
<1> DEFINE u == BeginPhase(t, "recovery")
<1>5. Settled(u) /\ u.db.state = s.db.state /\ u.db.test = s.db.test /\ Quiet(t, u)
  BY <1>1, <1>2, <1>3, BeginPhaseGood DEF Settled
<1> HIDE DEF u
<1>6. Quiet(s, u)
  BY <1>1, <1>5, QuietTransitive DEF Keeps
<1> QED BY <1>4, <1>5, <1>6 DEF u

LEMMA EndActiveGood ==
  ASSUME NEW s, Good(s), NEW outcome
  PROVE  LET t == EndActive(s, outcome) IN
         /\ Good(t) /\ t.mem.phase = NONE /\ t.db \in Disk
         /\ t.db.state = s.db.state /\ t.db.test = s.db.test /\ t.db.deadline = s.db.deadline
         /\ Quiet(s, t)
<1> DEFINE u == [CheckpointActive(s) EXCEPT !.mem.anchor = NONE]
<1>1. Keeps(s, u)
  <2>1. Keeps(s, CheckpointActive(s))
    BY CheckpointActiveKeeps
  <2>2. Keeps(CheckpointActive(s), u)
    BY <2>1, AnchorKeeps, TypeFacts DEF Keeps
  <2> QED BY <2>1, <2>2, KeepsTransitive
<1> HIDE DEF u
<1>2. EndActive(s, outcome) = EndPhase(u, outcome)
  BY DEF EndActive, u
<1> DEFINE t == EndPhase(u, outcome)
<1>3. /\ Good(t) /\ t.mem.phase = NONE /\ t.db.state = u.db.state /\ t.db.test = u.db.test
      /\ t.db.deadline = u.db.deadline /\ Quiet(u, t)
  BY <1>1, EndPhaseGood DEF Keeps
<1> HIDE DEF t
<1>4. Quiet(s, t)
  BY <1>1, <1>3, QuietTransitive DEF Keeps
<1> QED BY <1>1, <1>2, <1>3, <1>4, SectionFacts DEF Keeps, t

(* The end of a test: COMPLETED, or a recovery with a deadline.            *)
LEMMA FinishActiveSettles ==
  ASSUME NEW s, Good(s)
  PROVE  /\ Settled(FinishActive(s))
         /\ IF s.db.test = LastTest
            THEN Moves(s, FinishActive(s), <<"completed", s.db.test, s.db.deadline>>)
            ELSE Moves(s, FinishActive(s), <<"recovery", s.db.test, RecoveryDuration>>)
<1> DEFINE t == EndActive(s, "completed")
           c == [t.db EXCEPT !.state = "completed", !.elapsed = 0,
                             !.reason = "none", !.origin = NONE]
           r == [t.db EXCEPT !.state = "recovery", !.elapsed = 0,
                             !.deadline = RecoveryDuration,
                             !.reason = "none", !.origin = NONE]
<1>1. /\ Good(t) /\ t.mem.phase = NONE /\ t.db \in Disk
      /\ t.db.test = s.db.test /\ t.db.deadline = s.db.deadline /\ Quiet(s, t)
  BY EndActiveGood
<1>2. FinishActive(s) = IF t.db.test >= LastTest THEN Write(t, c)
                        ELSE BeginRecoveryPhase(Write(t, r))
  BY DEF FinishActive
<1> HIDE DEF t
<1>3. /\ c \in Disk /\ c.open = t.db.open /\ c.orphans = t.db.orphans
      /\ c.state = "completed" /\ Face(c) = <<"completed", s.db.test, s.db.deadline>>
  BY <1>1, TypeFacts DEF Disk, States, Reasons, Face
<1>4. /\ r \in Disk /\ r.open = t.db.open /\ r.orphans = t.db.orphans
      /\ r.state = "recovery" /\ r.deadline = RecoveryDuration
      /\ Face(r) = <<"recovery", s.db.test, RecoveryDuration>>
  BY <1>1, TypeFacts DEF Disk, States, Reasons, Resumable, Resting, Face
<1> HIDE DEF c, r
<1>5. Settled(Write(t, c)) /\ Moves(s, Write(t, c), Face(c))
  <2>1. Good(Write(t, c)) /\ Write(t, c).mem.phase = NONE /\ Write(t, c).db = c
    BY <1>1, <1>3, FreeWrite DEF Resting
  <2>2. Settled(Write(t, c))
    BY <1>3, <2>1, RowFacts DEF Settled, Resumable, Active, Resting
  <2> QED BY <1>1, <2>2, SectionFacts, WriteMoves, MovesTransitive
<1>6. /\ Settled(BeginRecoveryPhase(Write(t, r)))
      /\ Moves(s, BeginRecoveryPhase(Write(t, r)), Face(r))
  <2>1. Good(Write(t, r)) /\ Write(t, r).mem.phase = NONE /\ Write(t, r).db = r
    BY <1>1, <1>4, FreeWrite, DurationAssumption, NoneAssumption
  <2>2. /\ Settled(BeginRecoveryPhase(Write(t, r)))
        /\ Quiet(Write(t, r), BeginRecoveryPhase(Write(t, r)))
    BY <1>4, <2>1, BeginRecoveryPhaseSettles DEF Resting
  <2>3. Moves(s, Write(t, r), Face(r))
    BY <1>1, SectionFacts, WriteMoves, MovesTransitive
  <2> QED BY <2>2, <2>3, MovesTransitive
<1>7. s.db.test \in Nat /\ s.db.test <= LastTest
  BY <1>1, TestAssumption DEF Disk, Tests
<1> QED BY <1>1, <1>2, <1>3, <1>4, <1>5, <1>6, <1>7, TestAssumption

(* A low battery during a test.                                            *)
LEMMA TransitionLowBatterySettles ==
  ASSUME NEW s, Good(s)
  PROVE  /\ Settled(TransitionLowBattery(s))
         /\ Moves(s, TransitionLowBattery(s), <<"stopped_low_battery", s.db.test, RecoveryDuration>>)
<1> DEFINE t == EndActive(s, "aborted_low_battery")
           d == [t.db EXCEPT !.state = "stopped_low_battery", !.elapsed = 0,
                             !.deadline = RecoveryDuration,
                             !.reason = "low_battery", !.origin = NONE]
<1>1. Good(t) /\ t.mem.phase = NONE /\ t.db \in Disk /\ t.db.test = s.db.test /\ Quiet(s, t)
  BY EndActiveGood
<1>2. TransitionLowBattery(s) = BeginRecoveryPhase(Write(t, d))
  BY DEF TransitionLowBattery
<1> HIDE DEF t
<1>3. /\ d \in Disk /\ d.open = t.db.open /\ d.orphans = t.db.orphans
      /\ d.state = "stopped_low_battery" /\ d.deadline = RecoveryDuration
      /\ Face(d) = <<"stopped_low_battery", s.db.test, RecoveryDuration>>
  BY <1>1, TypeFacts DEF Disk, States, Reasons, Resumable, Resting, Face
<1> HIDE DEF d
<1>4. Good(Write(t, d)) /\ Write(t, d).mem.phase = NONE /\ Write(t, d).db = d
  BY <1>1, <1>3, FreeWrite, DurationAssumption, NoneAssumption
<1>5. Moves(s, Write(t, d), Face(d))
  BY <1>1, SectionFacts, WriteMoves, MovesTransitive
<1>6. /\ Settled(BeginRecoveryPhase(Write(t, d)))
      /\ Quiet(Write(t, d), BeginRecoveryPhase(Write(t, d)))
  BY <1>3, <1>4, BeginRecoveryPhaseSettles DEF Resting
<1> QED BY <1>2, <1>3, <1>5, <1>6, MovesTransitive

(* A low battery during a recovery.                                        *)
LEMMA TransitionLowDuringRecoverySettles ==
  ASSUME NEW s, Good(s)
  PROVE  /\ Settled(TransitionLowDuringRecovery(s))
         /\ Moves(s, TransitionLowDuringRecovery(s), <<"stopped_low_battery", s.db.test, RecoveryDuration>>)
<1> DEFINE t == EndPhase(s, "low_battery_detected")
           d == [t.db EXCEPT !.state = "stopped_low_battery", !.deadline = RecoveryDuration,
                             !.reason = "low_battery", !.origin = NONE]
<1>1. Good(t) /\ t.mem.phase = NONE /\ t.db \in Disk /\ t.db.test = s.db.test /\ Quiet(s, t)
  BY EndPhaseGood, SectionFacts
<1>2. TransitionLowDuringRecovery(s) = BeginRecoveryPhase(Write(t, d))
  BY DEF TransitionLowDuringRecovery
<1> HIDE DEF t
<1>3. /\ d \in Disk /\ d.open = t.db.open /\ d.orphans = t.db.orphans
      /\ d.state = "stopped_low_battery" /\ d.deadline = RecoveryDuration
      /\ Face(d) = <<"stopped_low_battery", s.db.test, RecoveryDuration>>
  BY <1>1, TypeFacts DEF Disk, States, Reasons, Resumable, Resting, Face
<1> HIDE DEF d
<1>4. Good(Write(t, d)) /\ Write(t, d).mem.phase = NONE /\ Write(t, d).db = d
  BY <1>1, <1>3, FreeWrite, DurationAssumption, NoneAssumption
<1>5. Moves(s, Write(t, d), Face(d))
  BY <1>1, SectionFacts, WriteMoves, MovesTransitive
<1>6. /\ Settled(BeginRecoveryPhase(Write(t, d)))
      /\ Quiet(Write(t, d), BeginRecoveryPhase(Write(t, d)))
  BY <1>3, <1>4, BeginRecoveryPhaseSettles DEF Resting
<1> QED BY <1>2, <1>3, <1>5, <1>6, MovesTransitive

(* The state of a running test is the one of its kind.                     *)
LEMMA ActiveStateFacts ==
  ASSUME NEW n
  PROVE  ActiveState(n) \in Active /\ ActiveState(n) \in States /\ ActiveState(n) \notin Resting
BY DEF ActiveState, Active, States, Resting, Resumable

(* The step to the next test, once the recovery phase is closed.           *)
LEMMA AdvanceAfterRecoverySettles ==
  ASSUME NEW s, Good(s), s.mem.phase = NONE
  PROVE  /\ Settled(AdvanceAfterRecovery(s))
         /\ IF s.db.test = LastTest
            THEN Moves(s, AdvanceAfterRecovery(s), <<"completed", s.db.test, NONE>>)
            ELSE Moves(s, AdvanceAfterRecovery(s),
                       <<ActiveState(s.db.test + 1), s.db.test + 1, NONE>>)
<1> DEFINE c == [s.db EXCEPT !.state = "completed", !.deadline = NONE, !.origin = NONE,
                   !.reason = IF @ = "low_battery" THEN "completed_after_low_battery" ELSE "none"]
           d == [s.db EXCEPT !.state = ActiveState(s.db.test + 1), !.test = @ + 1,
                             !.elapsed = 0, !.deadline = NONE,
                             !.reason = "none", !.origin = NONE]
<1>1. s.db \in Disk
  BY SectionFacts
<1>0. s.db.test = LastTest <=> s.db.test >= LastTest
  BY <1>1, TestAssumption DEF Disk, Tests
<1>2. AdvanceAfterRecovery(s) = IF s.db.test >= LastTest THEN Write(s, c)
                                ELSE BeginActive(Write(s, d), FALSE)
  BY DEF AdvanceAfterRecovery
<1>3. CASE s.db.test >= LastTest
  <2>1. /\ c \in Disk /\ c.open = s.db.open /\ c.orphans = s.db.orphans
        /\ c.state = "completed" /\ Face(c) = <<"completed", s.db.test, NONE>>
    BY <1>1, TypeFacts DEF Disk, States, Reasons, Face
  <2> HIDE DEF c
  <2>2. Good(Write(s, c)) /\ Write(s, c).mem.phase = NONE /\ Write(s, c).db = c
    BY <2>1, FreeWrite DEF Resting
  <2>3. Settled(Write(s, c))
    BY <2>1, <2>2, RowFacts DEF Settled, Resumable, Active, Resting
  <2>4. Moves(s, Write(s, c), Face(c))
    BY SectionFacts, WriteMoves
  <2> QED BY <1>0, <1>2, <1>3, <2>1, <2>3, <2>4
<1>4. CASE ~(s.db.test >= LastTest)
  <2>1. s.db.test + 1 \in Tests
    BY <1>1, <1>4, TestAssumption DEF Disk, Tests
  <2>2. /\ d \in Disk /\ d.open = s.db.open /\ d.orphans = s.db.orphans
        /\ d.state = ActiveState(s.db.test + 1) /\ d.test = s.db.test + 1
        /\ Face(d) = <<ActiveState(s.db.test + 1), s.db.test + 1, NONE>>
    BY <1>1, <2>1, TypeFacts, ActiveStateFacts DEF Disk, Reasons, Face
  <2> HIDE DEF d
  <2>3. Good(Write(s, d)) /\ Write(s, d).mem.phase = NONE /\ Write(s, d).db = d
    BY <2>2, FreeWrite, ActiveStateFacts
  <2> DEFINE t == BeginActive(Write(s, d), FALSE)
  <2>4. Settled(t) /\ Moves(Write(s, d), t, Face(d))
    BY <2>2, <2>3, BeginActiveSettles, ActiveStateFacts
  <2>5. Moves(s, Write(s, d), Face(d))
    BY SectionFacts, WriteMoves
  <2> HIDE DEF t
  <2>6. Moves(s, t, Face(d))
    BY <2>3, <2>4, <2>5, MovesTransitive DEF Quiet
  <2> QED BY <1>0, <1>2, <1>4, <2>2, <2>4, <2>6 DEF t
<1> QED BY <1>3, <1>4

(* The stop on an error, from any state.                                   *)
LEMMA TransitionErrorSettles ==
  ASSUME NEW s, Good(s)
  PROVE  /\ Settled(TransitionError(s))
         /\ Moves(s, TransitionError(s), <<"stopped_error", s.db.test, NONE>>)
<1> DEFINE t == IF s.db.state \in Active THEN EndActive(s, "error") ELSE EndPhase(s, "error")
           d == [t.db EXCEPT !.state = "stopped_error", !.deadline = NONE,
                             !.reason = "error", !.origin = NONE]
<1>1. Good(t) /\ t.mem.phase = NONE /\ t.db \in Disk /\ t.db.test = s.db.test /\ Quiet(s, t)
  BY EndActiveGood, EndPhaseGood, SectionFacts
<1>2. TransitionError(s) = Write(t, d)
  BY DEF TransitionError
<1> HIDE DEF t
<1>3. /\ d \in Disk /\ d.open = t.db.open /\ d.orphans = t.db.orphans
      /\ d.state = "stopped_error" /\ Face(d) = <<"stopped_error", s.db.test, NONE>>
  BY <1>1, TypeFacts DEF Disk, States, Reasons, Face
<1> HIDE DEF d
<1>4. Good(Write(t, d)) /\ Write(t, d).mem.phase = NONE /\ Write(t, d).db = d
  BY <1>1, <1>3, FreeWrite DEF Resting
<1>5. Settled(Write(t, d))
  BY <1>3, <1>4, RowFacts DEF Settled, Resumable, Active, Resting, Disk
<1>6. Moves(s, Write(t, d), Face(d))
  BY <1>1, SectionFacts, WriteMoves, MovesTransitive
<1> QED BY <1>2, <1>3, <1>5, <1>6

(* The outage of the adapter.                                              *)
LEMMA OutageKeeps ==
  ASSUME NEW s, Good(s), NEW a \in OrNone(OutageTimes)
  PROVE  Keeps(s, [s EXCEPT !.mem.outage = a])
<1> DEFINE m == [s.mem EXCEPT !.outage = a]
<1>1. s.mem \in Memory
  BY SectionFacts
<1>2. m \in Memory /\ m.phase = s.mem.phase /\ Controls(m) = Controls(s.mem)
  BY <1>1 DEF Memory, Controls
<1>3. [s EXCEPT !.mem.outage = a] = [s EXCEPT !.mem = m]
  BY DEF Good, Section
<1> HIDE DEF m
<1> QED BY <1>2, <1>3, MemKeeps

LEMMA NoteSuccessKeeps ==
  ASSUME NEW s, Good(s)
  PROVE  Keeps(s, NoteSuccess(s))
BY OutageKeeps, TypeFacts DEF NoteSuccess

LEMMA NoteFailureGood ==
  ASSUME NEW s, Good(s)
  PROVE  /\ Good(NoteFailure(s)) /\ (Settled(s) => Settled(NoteFailure(s)))
         /\ IF OutageIsFatal(s)
            THEN Moves(s, NoteFailure(s), <<"stopped_error", s.db.test, NONE>>)
            ELSE Quiet(s, NoteFailure(s))
<1>1. CASE s.mem.outage = NONE
  <2>1. NoteFailure(s) = [s EXCEPT !.mem.outage = 0]
    BY <1>1 DEF NoteFailure, OutageIsFatal
  <2>2. Keeps(s, NoteFailure(s))
    BY <2>1, OutageKeeps, TypeFacts
  <2> QED BY <1>1, <2>2, KeepsSettled DEF Keeps, OutageIsFatal
<1>2. CASE s.mem.outage # NONE /\ OutageIsFatal(s)
  <2>1. NoteFailure(s) = TransitionError(s)
    BY <1>2 DEF NoteFailure
  <2> QED BY <1>2, <2>1, TransitionErrorSettles DEF Settled
<1>3. CASE s.mem.outage # NONE /\ ~OutageIsFatal(s)
  BY <1>3, KeepsSame DEF NoteFailure, Keeps
<1> QED BY <1>1, <1>2, <1>3
=============================================================================
