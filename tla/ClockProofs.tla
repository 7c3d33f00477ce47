----------------------------- MODULE ClockProofs -----------------------------
(***************************************************************************)
(* What the rows of a run account for: the time worked in the current      *)
(* test, the silence of the stream, and the outcome of every test that the *)
(* timer leaves behind.  For all values of the constants.                  *)
(*                                                                         *)
(* Each clock of experiment.py is in two parts, a sum in the rows and an   *)
(* instant in the memory, and only together are they the time that the     *)
(* history variables measure.  The invariant says so between any two       *)
(* transactions of any method, and of the rows alone what a crash needs.   *)
(***************************************************************************)
EXTENDS LifecycleProofs

Since(age) == IF age = NONE THEN 0 ELSE age

\* The run rests, or was stopped in a rest.
Rests(d) ==
  \/ d.state \in Resting
  \/ d.state = "stopped_manual" /\ d.origin \in Resting

\* The active phase of a test that is over has a final outcome.
Marked(d) == Rests(d) \/ d.state = "stopped_error" => d.finished[d.test] > 0

\* The rows claim no more than the time w, and none before the first test, which is
\* not of the stream.
Timed(d, w) ==
  /\ Rests(d) \/ d.state = "not_started" => d.elapsed = 0
  /\ d.state = "not_started" => ~IsStream(d.test)
  /\ d.state # "completed" => d.elapsed <= w

\* An outage is of the stream test, and counts no more than the time k.
Counted(d, k) ==
  d.outActive =>
    /\ IsStream(d.test)
    /\ d.outChecked # NONE
    /\ d.outSeconds <= k
    /\ d.state = "running_stream" => Cap(d.outSeconds + d.outChecked, FatalOutage) <= k

Accounted(d, w, k) == Marked(d) /\ Timed(d, w) /\ Counted(d, k)

\* Where the task waits while its stream may still call back.
StreamPoints == {"stream", "stream_exit"}

\* With the memory, the rows of a snapshot test make exactly w.  What a stream test
\* has seen, and may yet see in the current gap, is at most w.  The clock of the
\* outage and its checkpoint are one instant; the last byte came at most k ago, as
\* long as it matters: in a running stream test, or for a callback while the task waits
\* at p.
Clocked(s, w, k, p) ==
  /\ ~IsStream(s.db.test) /\ s.db.state # "completed" =>
       Cap(s.db.elapsed + Since(s.mem.anchor), TestDuration) = w
  /\ s.db.state = "running_stream" =>
       Cap(s.db.elapsed + s.mem.valid + Since(s.mem.lastBytes), TestDuration) <= w
  /\ s.mem.anchor # NONE => s.db.state = "running_snapshot"
  /\ s.db.outActive /\ s.mem.outStarted # NONE => s.mem.outStarted = s.db.outChecked
  /\ (s.db.state = "running_stream" \/ p \in StreamPoints) /\ s.mem.lastBytes # NONE =>
       Cap(s.mem.lastBytes, FatalOutage) <= k

\* A running test is of its kind.
OfItsKind(d) == d.state \in Active => d.state = ActiveState(d.test)

\* The rows that the transactions of a section leave behind
RowsAccount(s, w, k) == \A d \in s.log \cup {s.db} : Accounted(d, w, k)

Accounts(s, w, k, p) ==
  /\ Good(s)
  /\ OfItsKind(s.db)
  /\ RowsAccount(s, w, k)
  /\ Clocked(s, w, k, p)

\* What these predicates read
Sums(d) == <<d.elapsed, d.outSeconds, d.outActive, d.outChecked>>
Clocks(m) == <<m.anchor, m.outStarted, m.lastBytes, m.valid>>
Place(d) == <<d.state, d.test, d.origin>>

-----------------------------------------------------------------------------
(* Saturating sums.                                                        *)
LEMMA CapSums ==
  ASSUME NEW top \in Nat, NEW a \in Nat, NEW b \in Nat
  PROVE  /\ Cap(a, top) \in Nat /\ Cap(a, top) <= top /\ Cap(a, top) <= a
         /\ a <= top => Cap(a, top) = a
         /\ a <= b => Cap(a, top) <= Cap(b, top)
         /\ Cap(Cap(a, top) + b, top) = Cap(a + b, top)
         /\ Cap(a + Cap(b, top), top) = Cap(a + b, top)
         /\ Cap(a, top) <= Cap(a + b, top)
BY DEF Cap

(* The numbers of a section.                                               *)
LEMMA Numbers ==
  ASSUME NEW s, Good(s)
  PROVE  /\ s.db \in Disk /\ s.mem \in Memory /\ s \in Section
         /\ s.db.test \in Tests /\ s.db.state \in States
         /\ s.db.elapsed \in TestTimes /\ s.db.elapsed \in Nat /\ s.db.elapsed <= TestDuration
         /\ s.db.outSeconds \in Nat /\ s.db.outSeconds <= FatalOutage
         /\ s.db.outActive \in BOOLEAN
         /\ s.db.outChecked # NONE => s.db.outChecked \in Nat
         /\ s.mem.anchor # NONE => s.mem.anchor \in Nat
         /\ s.mem.outStarted # NONE => s.mem.outStarted \in Nat
         /\ s.mem.lastBytes # NONE => s.mem.lastBytes \in Nat
         /\ Since(s.mem.anchor) \in Nat /\ Since(s.mem.lastBytes) \in Nat
         /\ s.mem.valid \in Nat /\ s.mem.valid <= TestDuration
         /\ TestDuration \in Nat /\ FatalOutage \in Nat
<1>1. s.db \in Disk /\ s.mem \in Memory /\ s \in Section
  BY SectionFacts
<1>2. /\ s.db.test \in Tests /\ s.db.state \in States
      /\ s.db.elapsed \in TestTimes /\ s.db.outSeconds \in OutageTimes
      /\ s.db.outActive \in BOOLEAN /\ s.db.outChecked \in OrNone(OutageTimes)
  BY <1>1 DEF Disk
<1>3. /\ s.mem.anchor \in OrNone(TestTimes) /\ s.mem.outStarted \in OrNone(OutageTimes)
      /\ s.mem.lastBytes \in OrNone(ByteAges) /\ s.mem.valid \in TestTimes
  BY <1>1 DEF Memory
<1> QED BY <1>1, <1>2, <1>3, DurationAssumption
        DEF TestTimes, OutageTimes, ByteAges, OrNone, Since

LEMMA TimeFacts ==
  /\ \A w \in TestTimes : w \in Nat /\ w <= TestDuration
  /\ \A k \in OutageTimes : k \in Nat /\ k <= FatalOutage
  /\ TestDuration \in Nat /\ FatalOutage \in Nat
BY DurationAssumption DEF TestTimes, OutageTimes

(* A kind of test has its state.                                           *)
LEMMA KindFacts ==
  ASSUME NEW d, OfItsKind(d)
  PROVE  /\ d.state = "running_stream" => IsStream(d.test)
         /\ d.state = "running_snapshot" => ~IsStream(d.test)
BY DEF OfItsKind, ActiveState, Active

-----------------------------------------------------------------------------
(* Rows that agree on the state and on the sums are alike.                 *)
LEMMA SameAccounted ==
  ASSUME NEW d, NEW e, NEW w, NEW k, Accounted(d, w, k),
         Place(e) = Place(d), Sums(e) = Sums(d), Marked(e)
  PROVE  Accounted(e, w, k)
<1>1. /\ e.elapsed = d.elapsed /\ e.outSeconds = d.outSeconds
      /\ e.outActive = d.outActive /\ e.outChecked = d.outChecked
      /\ e.state = d.state /\ e.test = d.test /\ e.origin = d.origin
  BY DEF Sums, Place
<1> QED BY <1>1 DEF Accounted, Timed, Counted, Rests

LEMMA SameClocked ==
  ASSUME NEW s, NEW t, NEW w, NEW k, NEW p, Clocked(s, w, k, p),
         t.db.state = s.db.state, t.db.test = s.db.test,
         Sums(t.db) = Sums(s.db), Clocks(t.mem) = Clocks(s.mem)
  PROVE  Clocked(t, w, k, p)
<1>1. /\ t.db.elapsed = s.db.elapsed /\ t.db.outSeconds = s.db.outSeconds
      /\ t.db.outActive = s.db.outActive /\ t.db.outChecked = s.db.outChecked
  BY DEF Sums
<1>2. /\ t.mem.anchor = s.mem.anchor /\ t.mem.outStarted = s.mem.outStarted
      /\ t.mem.lastBytes = s.mem.lastBytes /\ t.mem.valid = s.mem.valid
  BY DEF Clocks
<1> QED BY <1>1, <1>2 DEF Clocked

(* A method that leaves the clocks alone.                                  *)
LEMMA SameAccounts ==
  ASSUME NEW s, NEW t, NEW w, NEW k, NEW p, Accounts(s, w, k, p), Good(t),
         Place(t.db) = Place(s.db),
         Sums(t.db) = Sums(s.db), Clocks(t.mem) = Clocks(s.mem), Marked(t.db),
         t.log \subseteq s.log \cup {s.db}
  PROVE  Accounts(t, w, k, p)
<1>1. Accounted(t.db, w, k)
  BY SameAccounted DEF Accounts, RowsAccount
<1>2. t.db.state = s.db.state /\ t.db.test = s.db.test
  BY DEF Place
<1>3. Clocked(t, w, k, p)
  BY <1>2, SameClocked DEF Accounts
<1> QED BY <1>1, <1>2, <1>3 DEF Accounts, RowsAccount, OfItsKind

-----------------------------------------------------------------------------
(* Phases.                                                                 *)

(* Closing a phase touches no clock, and no outcome is taken back.         *)
LEMMA CloseRowAccounted ==
  ASSUME NEW d \in Disk, NEW r \in Rows, NEW outcome
  PROVE  LET e == CloseRow(d, r, outcome) IN
         /\ Place(e) = Place(d) /\ Sums(e) = Sums(d)
         /\ \A n \in Tests : d.finished[n] > 0 => e.finished[n] > 0
         /\ r.kind = "active" /\ outcome \in FinalOutcomes => e.finished[r.test] > 0
<1> DEFINE e == CloseRow(d, r, outcome)
           final == r.kind = "active" /\ outcome \in FinalOutcomes
           finished == [d.finished EXCEPT ![r.test] = IF final THEN Cap(@ + 1, 2) ELSE @]
           open == [d.open EXCEPT ![r] = @ - 1]
<1>1. e = [d EXCEPT !.open = open, !.finished = finished]
  BY DEF CloseRow
<1>2. r.test \in Tests /\ d.finished \in [Tests -> 0..2]
  BY DEF Rows, Disk
<1>3. \A x \in 0..2 : Cap(x + 1, 2) > 0
  BY DEF Cap
<1> HIDE DEF final, open
<1>4. /\ \A n \in Tests : d.finished[n] > 0 => finished[n] > 0
      /\ final => finished[r.test] > 0
  BY <1>2, <1>3
<1> HIDE DEF finished
<1>5. e.finished = finished /\ Place(e) = Place(d) /\ Sums(e) = Sums(d)
  BY <1>1 DEF Disk, Place, Sums
<1> HIDE DEF e
<1> QED BY <1>4, <1>5 DEF e, final

LEMMA EndPhaseAccounts ==
  ASSUME NEW w, NEW k, NEW p, NEW s, Accounts(s, w, k, p), NEW outcome
  PROVE  LET t == EndPhase(s, outcome) IN
         /\ Accounts(t, w, k, p)
         /\ Place(t.db) = Place(s.db) /\ Sums(t.db) = Sums(s.db)
         /\ Clocks(t.mem) = Clocks(s.mem)
         /\ s.db.state \in Active /\ s.mem.phase = RowOf(s.db) /\ outcome \in FinalOutcomes =>
              t.db.finished[t.db.test] > 0
<1>0. /\ Good(s) /\ s.db \in Disk /\ s.mem \in Memory /\ s \in Section /\ s.db.test \in Tests
      /\ Marked(s.db)
  BY Numbers DEF Accounts, RowsAccount, Accounted
<1>1. CASE s.mem.phase = NONE
  BY <1>0, <1>1, RowFacts DEF EndPhase
<1>2. CASE s.mem.phase # NONE
  <2> DEFINE r == s.mem.phase
             d == CloseRow(s.db, r, outcome)
             m == [s.mem EXCEPT !.phase = NONE]
             t == EndPhase(s, outcome)
  <2>1. r \in Rows
    BY <1>0, <1>2 DEF Memory, OrNone
  <2>2. /\ Place(d) = Place(s.db) /\ Sums(d) = Sums(s.db)
        /\ \A n \in Tests : s.db.finished[n] > 0 => d.finished[n] > 0
        /\ r.kind = "active" /\ outcome \in FinalOutcomes => d.finished[r.test] > 0
    BY <1>0, <2>1, CloseRowAccounted
  <2>3. Clocks(m) = Clocks(s.mem)
    BY <1>0 DEF Memory, Clocks
  <2>4. t = [[s EXCEPT !.mem = m] EXCEPT !.db = d, !.log = s.log \cup {s.db}]
    BY <1>0, <1>2 DEF EndPhase, Write, Section
  <2> HIDE DEF d, m, t
  <2>5. t.db = d /\ t.mem = m /\ t.log = s.log \cup {s.db}
    BY <1>0, <2>4 DEF Section
  <2>6. Good(t)
    BY <1>0, EndPhaseGood DEF t
  <2>7. d.state = s.db.state /\ d.test = s.db.test /\ d.origin = s.db.origin
    BY <2>2 DEF Place
  <2>8. Marked(d)
    BY <1>0, <2>2, <2>7 DEF Marked, Rests
  <2>9. Accounts(t, w, k, p)
    BY <2>2, <2>3, <2>5, <2>6, <2>7, <2>8, SameAccounts
  <2>10. s.db.state \in Active /\ r = RowOf(s.db) => r.kind = "active" /\ r.test = s.db.test
    <3>1. s.db.state \in Active => RowOf(s.db) = [test |-> s.db.test, kind |-> "active"]
      BY DEF RowOf
    <3> QED BY <3>1
  <2> QED BY <2>2, <2>3, <2>5, <2>7, <2>9, <2>10 DEF t
<1> QED BY <1>1, <1>2

LEMMA BeginPhaseFacts ==
  ASSUME NEW s, Good(s), s.mem.phase = NONE, NEW kind \in {"active", "recovery"},
         RowOf(s.db) = [test |-> s.db.test, kind |-> kind]
  PROVE  LET t == BeginPhase(s, kind) IN
         /\ Good(t) /\ t.log = s.log \cup {s.db}
         /\ Place(t.db) = Place(s.db) /\ Sums(t.db) = Sums(s.db)
         /\ Clocks(t.mem) = Clocks(s.mem)
         /\ t.db.finished = s.db.finished
<1>0. s.db \in Disk /\ s.mem \in Memory /\ s \in Section
  BY Numbers
<1> DEFINE row == [test |-> s.db.test, kind |-> kind]
           open == [s.db.open EXCEPT ![row] = @ + 1]
           d == [s.db EXCEPT !.open = open]
           m == [s.mem EXCEPT !.phase = row]
           t == BeginPhase(s, kind)
<1>1. t = [[s EXCEPT !.mem = m] EXCEPT !.db = d, !.log = s.log \cup {s.db}]
  BY <1>0 DEF BeginPhase, Write, Section
<1> HIDE DEF open, row, t
<1>2. /\ Place(d) = Place(s.db) /\ Sums(d) = Sums(s.db) /\ d.finished = s.db.finished
      /\ Clocks(m) = Clocks(s.mem)
  BY <1>0 DEF Disk, Memory, Place, Sums, Clocks
<1> HIDE DEF d, m
<1>3. t.db = d /\ t.mem = m /\ t.log = s.log \cup {s.db}
  BY <1>0, <1>1 DEF Section
<1>4. Good(t)
  BY BeginPhaseGood DEF t
<1> QED BY <1>2, <1>3, <1>4 DEF t

-----------------------------------------------------------------------------
(* The clock of a stream outage.                                           *)

\* The clocks that time a test, as opposed to an outage
Timers(m) == <<m.anchor, m.lastBytes, m.valid>>

(* A new checkpoint of the outage is its clock's new start.                *)
LEMMA WriteOutageCounts ==
  ASSUME NEW w \in TestTimes, NEW k \in OutageTimes, NEW p, NEW s,
         Good(s), OfItsKind(s.db), Marked(s.db), Timed(s.db, w), Clocked(s, w, k, p),
         IsStream(s.db.test), NEW n \in Nat, Cap(n, FatalOutage) <= k
  PROVE  LET t == WriteOutage(s, n) IN
         /\ Good(t) /\ OfItsKind(t.db) /\ Accounted(t.db, w, k) /\ Clocked(t, w, k, p)
         /\ t.log = s.log \cup {s.db}
         /\ Place(t.db) = Place(s.db) /\ t.db.elapsed = s.db.elapsed
         /\ Timers(t.mem) = Timers(s.mem)
<1> DEFINE m == [s.mem EXCEPT !.outStarted = 0]
           d == [s.db EXCEPT !.outSeconds = Cap(n, FatalOutage), !.outActive = TRUE,
                             !.outChecked = 0]
           t == WriteOutage(s, n)
<1>0. s \in Section /\ s.db \in Disk /\ s.mem \in Memory /\ k \in Nat /\ FatalOutage \in Nat
  BY Numbers, TimeFacts
<1>1. t = [[s EXCEPT !.mem = m] EXCEPT !.db = d, !.log = s.log \cup {s.db}]
  BY <1>0 DEF WriteOutage, Write, Section
<1>2. /\ d.outSeconds = Cap(n, FatalOutage) /\ d.outActive /\ d.outChecked = 0
      /\ Place(d) = Place(s.db) /\ d.elapsed = s.db.elapsed /\ d.finished = s.db.finished
  BY <1>0 DEF Disk, Place
<1>3. m.outStarted = 0 /\ Timers(m) = Timers(s.mem)
  BY <1>0 DEF Memory, Timers
<1> HIDE DEF m, d, t
<1>4. t.db = d /\ t.mem = m /\ t.log = s.log \cup {s.db}
  BY <1>0, <1>1 DEF Section
<1>5. Good(t)
  BY WriteOutageKeeps DEF Keeps, t
<1>6. /\ d.state = s.db.state /\ d.test = s.db.test /\ d.origin = s.db.origin
      /\ m.anchor = s.mem.anchor /\ m.lastBytes = s.mem.lastBytes /\ m.valid = s.mem.valid
  BY <1>2, <1>3 DEF Place, Timers
<1>7. Cap(Cap(n, FatalOutage) + 0, FatalOutage) = Cap(n, FatalOutage)
  BY <1>0, CapSums
<1>8. Accounted(d, w, k)
  <2>1. Counted(d, k)
    BY <1>2, <1>6, <1>7, NoneAssumption DEF Counted
  <2>2. Marked(d) /\ Timed(d, w)
    BY <1>2, <1>6 DEF Marked, Timed, Rests
  <2> QED BY <2>1, <2>2 DEF Accounted
<1>9. Clocked(t, w, k, p)
  BY <1>2, <1>3, <1>4, <1>6 DEF Clocked
<1> QED BY <1>2, <1>3, <1>4, <1>5, <1>6, <1>8, <1>9 DEF t, OfItsKind

LEMMA WriteOutageAccounts ==
  ASSUME NEW w \in TestTimes, NEW k \in OutageTimes, NEW p, NEW s, Accounts(s, w, k, p),
         IsStream(s.db.test), NEW n \in Nat, Cap(n, FatalOutage) <= k
  PROVE  LET t == WriteOutage(s, n) IN
         /\ Accounts(t, w, k, p)
         /\ Place(t.db) = Place(s.db) /\ t.db.elapsed = s.db.elapsed
         /\ Timers(t.mem) = Timers(s.mem)
BY WriteOutageCounts DEF Accounts, RowsAccount, Accounted

LEMMA StartStreamOutageAccounts ==
  ASSUME NEW w \in TestTimes, NEW k \in OutageTimes, NEW p, NEW s, Accounts(s, w, k, p),
         IsStream(s.db.test), NEW n \in Nat, Cap(n, FatalOutage) <= k
  PROVE  LET t == StartStreamOutage(s, n) IN
         /\ Accounts(t, w, k, p)
         /\ Place(t.db) = Place(s.db) /\ t.db.elapsed = s.db.elapsed
         /\ Timers(t.mem) = Timers(s.mem)
BY WriteOutageAccounts DEF StartStreamOutage

(* The last byte is as old as the silence that it ends.                    *)
LEMMA HeardFacts ==
  ASSUME NEW w \in TestTimes, NEW k \in OutageTimes, NEW p, NEW s, Accounts(s, w, k, p),
         s.db.state = "running_stream" \/ p \in StreamPoints
  PROVE  /\ s.mem.lastBytes # NONE =>
              s.mem.lastBytes \in Nat /\ Cap(s.mem.lastBytes, FatalOutage) <= k
         /\ 0 \in Nat /\ Cap(0, FatalOutage) <= k
<1>1. Good(s) /\ (s.mem.lastBytes # NONE => Cap(s.mem.lastBytes, FatalOutage) <= k)
  BY DEF Accounts, Clocked
<1>2. k \in Nat /\ FatalOutage \in Nat
  BY TimeFacts
<1>3. Cap(0, FatalOutage) <= k
  BY <1>2 DEF Cap
<1> QED BY <1>1, <1>3, Numbers

LEMMA RefreshStreamOutageAccounts ==
  ASSUME NEW w \in TestTimes, NEW k \in OutageTimes, NEW p, NEW s, Accounts(s, w, k, p),
         s.db.state = "running_stream"
  PROVE  LET t == RefreshStreamOutage(s) IN
         /\ Accounts(t, w, k, p)
         /\ Place(t.db) = Place(s.db) /\ t.db.elapsed = s.db.elapsed
         /\ Timers(t.mem) = Timers(s.mem)
<1>1. IsStream(s.db.test)
  BY KindFacts DEF Accounts
<1> QED BY <1>1, HeardFacts, StartStreamOutageAccounts DEF RefreshStreamOutage

LEMMA NoteStreamErrorAccounts ==
  ASSUME NEW w \in TestTimes, NEW k \in OutageTimes, NEW p, NEW s, Accounts(s, w, k, p),
         p \in StreamPoints, IsStream(s.db.test)
  PROVE  LET t == NoteStreamError(s) IN
         /\ Accounts(t, w, k, p)
         /\ Place(t.db) = Place(s.db) /\ t.db.elapsed = s.db.elapsed
         /\ Timers(t.mem) = Timers(s.mem)
<1> DEFINE n == IF s.mem.lastBytes = NONE THEN 0 ELSE s.mem.lastBytes
<1>1. n \in Nat /\ Cap(n, FatalOutage) <= k
  BY HeardFacts
<1>2. NoteStreamError(s) = StartStreamOutage(s, n)
  BY DEF NoteStreamError
<1> HIDE DEF n
<1> QED BY <1>1, <1>2, StartStreamOutageAccounts

(* A checkpoint adds what the clock shows.                                 *)
LEMMA CheckpointStreamOutageAccounts ==
  ASSUME NEW w \in TestTimes, NEW k \in OutageTimes, NEW p, NEW s, Accounts(s, w, k, p),
         s.db.state = "running_stream"
  PROVE  LET t == CheckpointStreamOutage(s) IN
         /\ Accounts(t, w, k, p)
         /\ Place(t.db) = Place(s.db) /\ t.db.elapsed = s.db.elapsed
         /\ Timers(t.mem) = Timers(s.mem)
<1>1. CASE ~s.db.outActive \/ s.mem.outStarted = NONE
  BY <1>1 DEF CheckpointStreamOutage
<1>2. CASE s.db.outActive /\ s.mem.outStarted # NONE
  <2> DEFINE n == s.db.outSeconds + s.mem.outStarted
  <2>1. Good(s) /\ s.mem.outStarted = s.db.outChecked
    BY <1>2 DEF Accounts, Clocked
  <2>2. n \in Nat
    BY <1>2, <2>1, Numbers
  <2>3. Counted(s.db, k)
    BY DEF Accounts, RowsAccount, Accounted
  <2>4. Cap(n, FatalOutage) <= k /\ IsStream(s.db.test)
    BY <1>2, <2>1, <2>3 DEF Counted
  <2>5. CheckpointStreamOutage(s) = WriteOutage(s, n)
    BY <1>2 DEF CheckpointStreamOutage
  <2> HIDE DEF n
  <2> QED BY <2>2, <2>4, <2>5, WriteOutageAccounts
<1> QED BY <1>1, <1>2

(* Bytes end the outage, and the gap before them may have been valid time. *)
LEMMA NoteStreamBytesAccounts ==
  ASSUME NEW w \in TestTimes, NEW k \in OutageTimes, NEW p, NEW s, Accounts(s, w, k, p),
         p \in StreamPoints
  PROVE  LET t == NoteStreamBytes(s) IN
         /\ Accounts(t, w, k, p)
         /\ Place(t.db) = Place(s.db)
         /\ ~t.db.outActive /\ t.mem.lastBytes = 0 /\ t.mem.anchor = s.mem.anchor
<1> DEFINE near == s.mem.lastBytes # NONE /\ ~s.db.outActive /\ s.mem.lastBytes <= DataTimeout
           good == IF near THEN s.mem.lastBytes ELSE 0
           valid == Cap(s.mem.valid + good, TestDuration)
           m == [s.mem EXCEPT !.valid = valid, !.lastBytes = 0]
           u == [s EXCEPT !.mem = m]
           n == [m EXCEPT !.outStarted = NONE]
           d == [s.db EXCEPT !.outSeconds = 0, !.outActive = FALSE, !.outChecked = NONE]
           t == NoteStreamBytes(s)
           clear == ~s.db.outActive /\ m.outStarted = NONE
<1>0. /\ Good(s) /\ OfItsKind(s.db) /\ RowsAccount(s, w, k) /\ Clocked(s, w, k, p)
      /\ Accounted(s.db, w, k)
      /\ s.db \in Disk /\ s.mem \in Memory /\ s \in Section
      /\ k \in Nat /\ w \in Nat /\ TestDuration \in Nat /\ FatalOutage \in Nat
      /\ s.db.elapsed \in Nat /\ s.mem.valid \in Nat /\ Since(s.mem.lastBytes) \in Nat
      /\ s.mem.lastBytes # NONE => s.mem.lastBytes \in Nat
  BY Numbers, TimeFacts DEF Accounts, RowsAccount
<1>1. good \in Nat /\ good <= Since(s.mem.lastBytes)
  BY <1>0 DEF Since
<1>2. valid \in Nat /\ Cap(s.db.elapsed + valid, TestDuration)
                        <= Cap(s.db.elapsed + s.mem.valid + Since(s.mem.lastBytes), TestDuration)
  <2> DEFINE seen == s.mem.valid + good
             all == s.db.elapsed + s.mem.valid + Since(s.mem.lastBytes)
  <2> HIDE DEF good
  <2>1. seen \in Nat /\ all \in Nat /\ s.db.elapsed + seen \in Nat /\ s.db.elapsed + seen <= all
    BY <1>0, <1>1
  <2> HIDE DEF seen, all
  <2>2. /\ Cap(seen, TestDuration) \in Nat
        /\ Cap(s.db.elapsed + Cap(seen, TestDuration), TestDuration)
             = Cap(s.db.elapsed + seen, TestDuration)
    BY <1>0, <2>1 DEF Cap
  <2>3. Cap(s.db.elapsed + seen, TestDuration) <= Cap(all, TestDuration)
    BY <1>0, <2>1 DEF Cap
  <2>4. valid = Cap(seen, TestDuration)
    BY DEF seen
  <2> QED BY <2>2, <2>3, <2>4 DEF all
<1> HIDE DEF near, good, valid
<1>3. /\ m.valid = valid /\ m.lastBytes = 0 /\ m.anchor = s.mem.anchor
      /\ m.outStarted = s.mem.outStarted
      /\ n.valid = valid /\ n.lastBytes = 0 /\ n.anchor = s.mem.anchor /\ n.outStarted = NONE
  BY <1>0 DEF Memory
<1>4. /\ ~d.outActive /\ Place(d) = Place(s.db) /\ d.elapsed = s.db.elapsed
      /\ d.finished = s.db.finished
  BY <1>0 DEF Disk, Place
<1>5. /\ clear => t = [s EXCEPT !.mem = m]
      /\ ~clear => t = [[s EXCEPT !.mem = n] EXCEPT !.db = d, !.log = s.log \cup {s.db}]
  <2>1. t = ClearStreamOutageOnReceipt(u)
    BY <1>0 DEF NoteStreamBytes, Section, near, good, valid
  <2>2. u.db = s.db /\ u.mem = m /\ u.log = s.log
    BY <1>0 DEF Section
  <2>3. t = IF clear THEN u ELSE Write([u EXCEPT !.mem.outStarted = NONE], d)
    BY <2>1, <2>2 DEF ClearStreamOutageOnReceipt
  <2>4. [u EXCEPT !.mem.outStarted = NONE] = [s EXCEPT !.mem = n]
    BY <1>0 DEF Section
  <2>5. Write([s EXCEPT !.mem = n], d)
          = [[s EXCEPT !.mem = n] EXCEPT !.db = d, !.log = s.log \cup {s.db}]
    BY <1>0 DEF Write, Section
  <2> QED BY <2>3, <2>4, <2>5
<1> HIDE DEF m, n, d, t, u
<1>6. /\ clear => t.db = s.db /\ t.mem = m /\ t.log = s.log
      /\ ~clear => t.db = d /\ t.mem = n /\ t.log = s.log \cup {s.db}
  BY <1>0, <1>5 DEF Section
<1>7. Good(t)
  BY <1>0, NoteStreamBytesKeeps DEF t, Keeps
<1>8. d.state = s.db.state /\ d.test = s.db.test /\ d.origin = s.db.origin
  BY <1>4 DEF Place
<1>9. Accounted(d, w, k)
  BY <1>0, <1>4, <1>8 DEF Accounted, Marked, Timed, Counted, Rests
<1>10. /\ Accounted(t.db, w, k) /\ OfItsKind(t.db) /\ ~t.db.outActive
       /\ t.db.state = s.db.state /\ t.db.test = s.db.test /\ t.db.elapsed = s.db.elapsed
       /\ Place(t.db) = Place(s.db) /\ t.log \subseteq s.log \cup {s.db}
       /\ t.mem.valid = valid /\ t.mem.lastBytes = 0 /\ t.mem.anchor = s.mem.anchor
  BY <1>0, <1>3, <1>4, <1>6, <1>8, <1>9 DEF OfItsKind
<1>11. Clocked(t, w, k, p)
  <2>1. Since(t.mem.lastBytes) = 0 /\ Cap(0, FatalOutage) <= k
    BY <1>0, <1>10 DEF Since, Cap
  <2>2. t.db.state = "running_stream" =>
          Cap(t.db.elapsed + t.mem.valid + Since(t.mem.lastBytes), TestDuration) <= w
    <3>1. t.db.elapsed + t.mem.valid + 0 = s.db.elapsed + valid
      BY <1>0, <1>2, <1>10
    <3>2. t.db.state = "running_stream" =>
            Cap(s.db.elapsed + s.mem.valid + Since(s.mem.lastBytes), TestDuration) <= w
      BY <1>0, <1>10 DEF Clocked
    <3>3. Cap(s.db.elapsed + valid, TestDuration) \in Nat
          /\ Cap(s.db.elapsed + s.mem.valid + Since(s.mem.lastBytes), TestDuration) \in Nat
      <4>1. s.db.elapsed + valid \in Nat
            /\ s.db.elapsed + s.mem.valid + Since(s.mem.lastBytes) \in Nat
        BY <1>0, <1>2
      <4> QED BY <1>0, <4>1 DEF Cap
    <3> QED BY <1>0, <1>2, <2>1, <3>1, <3>2, <3>3
  <2> QED BY <1>0, <1>10, <2>1, <2>2 DEF Clocked
<1>12. RowsAccount(t, w, k)
  BY <1>0, <1>10 DEF RowsAccount
<1> QED BY <1>7, <1>10, <1>11, <1>12 DEF Accounts, t

-----------------------------------------------------------------------------
(* The time worked in a test.                                              *)

(* An anchor at this instant, or none, shows no time.                      *)
LEMMA DropAnchorAccounts ==
  ASSUME NEW w, NEW k, NEW p, NEW s, Accounts(s, w, k, p), s.mem.anchor \in {0, NONE}
  PROVE  LET t == [s EXCEPT !.mem.anchor = NONE] IN
         /\ Accounts(t, w, k, p)
         /\ t.db = s.db /\ t.log = s.log /\ t.mem.anchor = NONE
         /\ t.mem.valid = s.mem.valid /\ t.mem.phase = s.mem.phase
<1> DEFINE m == [s.mem EXCEPT !.anchor = NONE]
           t == [s EXCEPT !.mem.anchor = NONE]
<1>0. s \in Section /\ s.mem \in Memory /\ Good(s)
  BY Numbers DEF Accounts
<1>1. t.db = s.db /\ t.log = s.log /\ t.mem = m
  BY <1>0 DEF Section
<1>2. Good(t)
  BY <1>0, AnchorKeeps, TypeFacts DEF Keeps
<1>3. /\ m.anchor = NONE /\ m.valid = s.mem.valid /\ m.lastBytes = s.mem.lastBytes
      /\ m.outStarted = s.mem.outStarted /\ m.phase = s.mem.phase
  BY <1>0 DEF Memory
<1> HIDE DEF t, m
<1>4. Since(t.mem.anchor) = Since(s.mem.anchor)
  BY <1>1, <1>3 DEF Since
<1>5. Clocked(t, w, k, p)
  BY <1>1, <1>3, <1>4 DEF Accounts, Clocked
<1> QED BY <1>1, <1>2, <1>3, <1>5 DEF Accounts, RowsAccount, t

(* What has been seen of a stream test, once saved, is no more than w.     *)
LEMMA SavedFacts ==
  ASSUME NEW w \in TestTimes, NEW k, NEW p, NEW s, Accounts(s, w, k, p),
         s.db.state # "completed"
  PROVE  LET saved == Cap(ElapsedActive(s), TestDuration) IN
         /\ saved \in Nat /\ saved <= w
         /\ s.db.state = "running_stream" =>
              Cap(saved + 0 + Since(s.mem.lastBytes), TestDuration) <= w
         /\ s.mem.anchor # NONE => Cap(saved + 0, TestDuration) = w
<1>0. /\ Good(s) /\ Clocked(s, w, k, p) /\ OfItsKind(s.db) /\ Timed(s.db, w)
      /\ w \in Nat /\ w <= TestDuration /\ TestDuration \in Nat
      /\ s.db.elapsed \in Nat /\ s.mem.valid \in Nat
      /\ Since(s.mem.lastBytes) \in Nat /\ Since(s.mem.anchor) \in Nat
      /\ s.db.elapsed <= w
  BY Numbers, TimeFacts DEF Accounts, RowsAccount, Accounted, Timed
<1>1. CASE s.db.state = "running_stream"
  <2>1. ElapsedActive(s) = s.db.elapsed + s.mem.valid /\ s.mem.anchor = NONE
    BY <1>0, <1>1 DEF ElapsedActive, Clocked
  <2>2. Cap(s.db.elapsed + s.mem.valid + Since(s.mem.lastBytes), TestDuration) <= w
    BY <1>0, <1>1 DEF Clocked
  <2> QED BY <1>0, <2>1, <2>2 DEF Cap
<1>2. CASE s.db.state # "running_stream" /\ s.mem.anchor # NONE
  <2>1. ElapsedActive(s) = s.db.elapsed + Since(s.mem.anchor)
    BY <1>2 DEF ElapsedActive, Since
  <2>2. ~IsStream(s.db.test) /\ s.db.state # "completed"
    BY <1>0, <1>2, KindFacts DEF Clocked
  <2>3. Cap(s.db.elapsed + Since(s.mem.anchor), TestDuration) = w
    BY <1>0, <2>2 DEF Clocked
  <2> QED BY <1>0, <1>2, <2>1, <2>3 DEF Cap
<1>3. CASE s.db.state # "running_stream" /\ s.mem.anchor = NONE
  <2>1. ElapsedActive(s) = s.db.elapsed
    BY <1>0, <1>3 DEF ElapsedActive
  <2> QED BY <1>0, <1>3, <2>1 DEF Cap
<1> QED BY <1>1, <1>2, <1>3

\* Section t is section s with the time since its last checkpoint saved.
Saves(s, t) ==
  /\ Place(t.db) = Place(s.db) /\ t.mem.phase = s.mem.phase
  /\ t.mem.anchor \in {0, NONE}
  /\ s.mem.anchor = NONE => t.mem.anchor = NONE
  /\ t.db.state = "running_snapshot" => (s.mem.anchor # NONE <=> t.mem.anchor # NONE)
  /\ t.db.state = "running_stream" => t.mem.valid = 0

(* A checkpoint moves the time since the last one to the rows.             *)
LEMMA CheckpointActiveAccounts ==
  ASSUME NEW w \in TestTimes, NEW k \in OutageTimes, NEW p, NEW s, Accounts(s, w, k, p),
         s.db.state # "completed"
  PROVE  Accounts(CheckpointActive(s), w, k, p) /\ Saves(s, CheckpointActive(s))
<1> DEFINE saved == Cap(ElapsedActive(s), TestDuration)
<1>0. /\ Good(s) /\ s \in Section /\ s.mem \in Memory /\ s.db \in Disk
      /\ Clocked(s, w, k, p) /\ OfItsKind(s.db) /\ RowsAccount(s, w, k)
      /\ Accounted(s.db, w, k)
      /\ Good(CheckpointActive(s)) /\ CheckpointActive(s).mem.phase = s.mem.phase
      /\ s.db.state \in States
  BY Numbers, CheckpointActiveKeeps DEF Accounts, RowsAccount, Keeps
<1>1. /\ saved \in Nat /\ saved <= w
      /\ s.db.state = "running_stream" =>
           Cap(saved + 0 + Since(s.mem.lastBytes), TestDuration) <= w
      /\ s.mem.anchor # NONE => Cap(saved + 0, TestDuration) = w
  BY SavedFacts
<1>2. CASE s.db.state = "running_stream"
  <2> DEFINE m == [s.mem EXCEPT !.valid = 0]
             r == [s EXCEPT !.mem = m]
             u == CheckpointStreamOutage(r)
             d == [u.db EXCEPT !.elapsed = saved]
             t == CheckpointActive(s)
  <2>1. t = Write(u, d)
    BY <1>0, <1>2 DEF CheckpointActive, Section
  <2> HIDE DEF saved
  <2>2. /\ r.db = s.db /\ r.log = s.log /\ r.mem = m
        /\ m.valid = 0 /\ m.anchor = s.mem.anchor /\ m.lastBytes = s.mem.lastBytes
        /\ m.outStarted = s.mem.outStarted /\ m.phase = s.mem.phase
        /\ m \in Memory
    BY <1>0, TypeFacts DEF Section, Memory
  <2>3. Good(r)
    BY <1>0, <2>2, MemGood
  <2> HIDE DEF m, r
  <2>4. Accounts(r, w, k, p)
    <3>1. Cap(s.db.elapsed + 0 + Since(s.mem.lastBytes), TestDuration) <= w
      <4>1. Cap(s.db.elapsed + s.mem.valid + Since(s.mem.lastBytes), TestDuration) <= w
        BY <1>0, <1>2 DEF Clocked
      <4>2. /\ s.db.elapsed \in Nat /\ s.mem.valid \in Nat /\ Since(s.mem.lastBytes) \in Nat
            /\ w \in Nat /\ TestDuration \in Nat
        BY <1>0, Numbers, TimeFacts
      <4> QED BY <4>1, <4>2 DEF Cap
    <3>2. Clocked(r, w, k, p)
      BY <1>0, <2>2, <3>1 DEF Clocked
    <3> QED BY <1>0, <2>2, <2>3, <3>2 DEF Accounts, RowsAccount
  <2>5. /\ Accounts(u, w, k, p) /\ Place(u.db) = Place(s.db) /\ u.db.elapsed = s.db.elapsed
        /\ Timers(u.mem) = Timers(m) /\ u.db \in Disk /\ Good(u)
    BY <1>2, <2>2, <2>4, CheckpointStreamOutageAccounts, Numbers DEF Accounts
  <2> HIDE DEF u
  <2>6. /\ u.mem.anchor = s.mem.anchor /\ u.mem.lastBytes = s.mem.lastBytes /\ u.mem.valid = 0
    BY <2>2, <2>5 DEF Timers
  <2>7. /\ d.elapsed = saved /\ Place(d) = Place(s.db) /\ d.finished = u.db.finished
        /\ d.outActive = u.db.outActive /\ d.outSeconds = u.db.outSeconds
        /\ d.outChecked = u.db.outChecked
    BY <2>5 DEF Disk, Place
  <2>8. /\ d.state = s.db.state /\ d.test = s.db.test /\ d.origin = s.db.origin
        /\ u.db.state = s.db.state /\ u.db.test = s.db.test /\ u.db.origin = s.db.origin
    BY <2>5, <2>7 DEF Place
  <2> HIDE DEF d
  <2>9. t.db = d /\ t.mem = u.mem /\ t.log = u.log \cup {u.db}
    BY <2>1, <2>5, SectionFacts DEF Write, Section
  <2> HIDE DEF t
  <2>10. Accounted(u.db, w, k) /\ Clocked(u, w, k, p) /\ RowsAccount(u, w, k)
    BY <2>5 DEF Accounts, RowsAccount
  <2>11. Accounted(d, w, k)
    BY <1>1, <1>2, <2>7, <2>8, <2>10 DEF Accounted, Marked, Timed, Counted, Rests, Resting
  <2>12. s.mem.anchor = NONE
    BY <1>0, <1>2 DEF Clocked
  <2>13. Clocked(t, w, k, p)
    <3>1. IsStream(d.test)
      BY <1>0, <1>2, <2>8, KindFacts
    <3> QED BY <1>1, <1>2, <2>6, <2>7, <2>8, <2>9, <2>10, <2>12, <3>1 DEF Clocked
  <2>14. Accounts(t, w, k, p)
    BY <1>0, <2>8, <2>9, <2>10, <2>11, <2>13 DEF Accounts, RowsAccount, OfItsKind, t
  <2> QED BY <1>0, <1>2, <2>6, <2>7, <2>8, <2>9, <2>12, <2>14 DEF Saves, t
<1>3. CASE s.db.state # "running_stream" /\ s.mem.anchor # NONE
  <2> DEFINE m == [s.mem EXCEPT !.anchor = 0]
             d == [s.db EXCEPT !.elapsed = saved]
             t == CheckpointActive(s)
  <2>1. t = Write([s EXCEPT !.mem.anchor = 0], d)
    BY <1>3 DEF CheckpointActive
  <2> HIDE DEF saved
  <2>2. /\ m.anchor = 0 /\ m.valid = s.mem.valid /\ m.lastBytes = s.mem.lastBytes
        /\ m.outStarted = s.mem.outStarted /\ m.phase = s.mem.phase
    BY <1>0 DEF Memory
  <2>3. /\ d.elapsed = saved /\ Place(d) = Place(s.db) /\ d.finished = s.db.finished
        /\ d.outActive = s.db.outActive /\ d.outSeconds = s.db.outSeconds
        /\ d.outChecked = s.db.outChecked
    BY <1>0 DEF Disk, Place
  <2>4. t.db = d /\ t.mem = m /\ t.log = s.log \cup {s.db}
    BY <1>0, <2>1 DEF Write, Section
  <2> HIDE DEF m, d, t
  <2>5. /\ d.state = s.db.state /\ d.test = s.db.test /\ d.origin = s.db.origin
    BY <2>3 DEF Place
  <2>6. s.db.state = "running_snapshot" /\ ~IsStream(s.db.test)
    BY <1>0, <1>3, KindFacts DEF Clocked
  <2>7. Accounted(d, w, k)
    BY <1>0, <1>1, <2>3, <2>5, <2>6 DEF Accounted, Marked, Timed, Counted, Rests, Resting
  <2>8. 0 # NONE /\ Since(0) = 0
    BY NoneAssumption DEF Since
  <2>9. Clocked(t, w, k, p)
    BY <1>0, <1>1, <1>3, <2>2, <2>3, <2>4, <2>5, <2>6, <2>8 DEF Clocked
  <2>10. Accounts(t, w, k, p)
    BY <1>0, <2>4, <2>5, <2>7, <2>9 DEF Accounts, RowsAccount, OfItsKind, t
  <2> QED BY <1>0, <1>3, <2>2, <2>3, <2>4, <2>5, <2>8, <2>10 DEF Saves, t
<1>4. CASE s.db.state # "running_stream" /\ s.mem.anchor = NONE
  <2>1. CheckpointActive(s) = s
    BY <1>4 DEF CheckpointActive
  <2> QED BY <1>0, <1>4, <2>1 DEF Saves
<1> QED BY <1>2, <1>3, <1>4

(* The active phase is closed once its time is saved.                      *)
LEMMA EndActiveAccounts ==
  ASSUME NEW w \in TestTimes, NEW k \in OutageTimes, NEW p, NEW s, Accounts(s, w, k, p),
         s.db.state # "completed", NEW outcome
  PROVE  LET t == EndActive(s, outcome) IN
         /\ Accounts(t, w, k, p)
         /\ Place(t.db) = Place(s.db) /\ t.mem.anchor = NONE /\ t.mem.phase = NONE
         /\ t.db.state = "running_stream" => t.mem.valid = 0
         /\ s.db.state \in Active /\ s.mem.phase = RowOf(s.db) /\ outcome \in FinalOutcomes =>
              t.db.finished[t.db.test] > 0
<1> DEFINE c == CheckpointActive(s)
           u == [c EXCEPT !.mem.anchor = NONE]
           t == EndPhase(u, outcome)
<1>1. Accounts(c, w, k, p) /\ Saves(s, c)
  BY CheckpointActiveAccounts
<1>2. EndActive(s, outcome) = t
  BY DEF EndActive
<1> HIDE DEF c
<1>3. /\ Accounts(u, w, k, p) /\ u.db = c.db /\ u.mem.anchor = NONE
      /\ u.mem.valid = c.mem.valid /\ u.mem.phase = s.mem.phase
  BY <1>1, DropAnchorAccounts DEF Saves
<1> HIDE DEF u
<1>4. /\ Accounts(t, w, k, p) /\ Place(t.db) = Place(u.db) /\ Clocks(t.mem) = Clocks(u.mem)
      /\ u.db.state \in Active /\ u.mem.phase = RowOf(u.db) /\ outcome \in FinalOutcomes =>
           t.db.finished[t.db.test] > 0
  BY <1>3, EndPhaseAccounts
<1>5. t.mem.phase = NONE
  BY <1>3, EndPhaseGood DEF Accounts
<1> HIDE DEF t
<1>6. Place(u.db) = Place(s.db) /\ u.db.state = s.db.state /\ u.db.test = s.db.test
      /\ t.db.state = u.db.state
  BY <1>1, <1>3, <1>4 DEF Saves, Place
<1>7. t.mem.anchor = NONE /\ t.mem.valid = c.mem.valid
  BY <1>3, <1>4 DEF Clocks
<1>8. RowOf(u.db) = RowOf(s.db)
  BY <1>6 DEF RowOf
<1>9. t.db.state = "running_stream" => t.mem.valid = 0
  BY <1>1, <1>3, <1>6, <1>7 DEF Saves
<1> QED BY <1>2, <1>3, <1>4, <1>5, <1>6, <1>7, <1>8, <1>9

-----------------------------------------------------------------------------
(* Transitions.                                                            *)

\* What is left of the time w when the rows d follow those of the test n
Spent(d, n, w) ==
  IF d.state \in Resting \cup {"not_started", "completed"} \/ d.test # n THEN 0 ELSE w

\* The rows on the way account for w, and the last ones, with the memory, for what
\* is left of it.  A snapshot test runs with an anchor.
Lands(t, n, w, k, p) ==
  /\ Good(t)
  /\ OfItsKind(t.db)
  /\ RowsAccount(t, w, k)
  /\ Accounted(t.db, Spent(t.db, n, w), k)
  /\ Clocked(t, Spent(t.db, n, w), k, p)
  /\ t.db.state = "running_snapshot" => t.mem.anchor # NONE

(* A method that stays in the test and in its time has landed.             *)
LEMMA AccountsLands ==
  ASSUME NEW w \in TestTimes, NEW k, NEW p, NEW s, Accounts(s, w, k, p),
         s.db.state = "running_snapshot" => s.mem.anchor # NONE
  PROVE  Lands(s, s.db.test, w, k, p)
<1> DEFINE v == Spent(s.db, s.db.test, w)
<1>0. /\ Good(s) /\ OfItsKind(s.db) /\ RowsAccount(s, w, k) /\ Accounted(s.db, w, k)
      /\ Clocked(s, w, k, p)
  BY DEF Accounts, RowsAccount
<1>1. CASE s.db.state \in Resting \cup {"not_started"}
  <2>1. v = 0 /\ s.db.elapsed = 0 /\ s.mem.anchor = NONE /\ s.db.state # "running_stream"
    BY <1>0, <1>1 DEF Spent, Accounted, Timed, Rests, Clocked, Resting
  <2>2. Since(s.mem.anchor) = 0 /\ Cap(0 + 0, TestDuration) = 0
    BY <2>1, TimeFacts DEF Since, Cap
  <2>3. Accounted(s.db, v, k)
    BY <1>0, <2>1 DEF Accounted, Timed
  <2>4. Clocked(s, v, k, p)
    BY <1>0, <2>1, <2>2 DEF Clocked
  <2> QED BY <1>0, <2>1, <2>3, <2>4 DEF Lands
<1>2. CASE s.db.state = "completed"
  BY <1>0, <1>2 DEF Lands, Accounted, Timed, Rests, Resting, Clocked
<1>3. CASE s.db.state \notin Resting \cup {"not_started", "completed"}
  <2>1. v = w
    BY <1>3 DEF Spent
  <2> QED BY <1>0, <2>1 DEF Lands
<1> QED BY <1>1, <1>2, <1>3

(* The phases table alone changes.                                         *)
LEMMA SameLands ==
  ASSUME NEW w, NEW k, NEW p, NEW n, NEW s, Lands(s, n, w, k, p),
         NEW t, Good(t), Place(t.db) = Place(s.db), Sums(t.db) = Sums(s.db),
         Clocks(t.mem) = Clocks(s.mem), t.db.finished = s.db.finished,
         t.log \subseteq s.log \cup {s.db}
  PROVE  Lands(t, n, w, k, p)
<1> DEFINE v == Spent(s.db, n, w)
<1>1. t.db.state = s.db.state /\ t.db.test = s.db.test /\ t.db.origin = s.db.origin
      /\ t.mem.anchor = s.mem.anchor
  BY DEF Place, Clocks
<1>2. Spent(t.db, n, w) = v /\ Marked(t.db) /\ OfItsKind(t.db)
  BY <1>1 DEF Spent, Lands, Accounted, Marked, Rests, OfItsKind
<1>3. Accounted(s.db, v, k) /\ Accounted(s.db, w, k) /\ Clocked(s, v, k, p)
  BY DEF Lands, RowsAccount
<1> HIDE DEF v
<1>4. Accounted(t.db, v, k) /\ Accounted(t.db, w, k)
  BY <1>2, <1>3, SameAccounted
<1>5. Clocked(t, v, k, p)
  BY <1>1, <1>3, SameClocked
<1> QED BY <1>1, <1>2, <1>4, <1>5 DEF Lands, RowsAccount, v

(* A transaction that ends the time of a test, once no anchor is left.     *)
LEMMA TurnLands ==
  ASSUME NEW w \in TestTimes, NEW k, NEW p, NEW u, Accounts(u, w, k, p),
         u.mem.anchor = NONE, u.mem.phase = NONE, u.db.state # "completed", NEW d \in Disk,
         d.state \notin Active \cup {"not_started"}, d.test = u.db.test,
         d.state \in Resting => d.deadline # NONE,
         d.open = u.db.open, d.orphans = u.db.orphans, d.finished = u.db.finished,
         d.outSeconds = u.db.outSeconds, d.outActive = u.db.outActive,
         d.outChecked = u.db.outChecked,
         Rests(d) \/ d.state = "stopped_error" => d.finished[d.test] > 0,
         Rests(d) => d.elapsed = 0,
         d.state \notin Resting \cup {"completed"} => d.elapsed = u.db.elapsed
  PROVE  /\ Lands(Write(u, d), u.db.test, w, k, p)
         /\ Write(u, d).db = d /\ Write(u, d).mem = u.mem
<1> DEFINE t == Write(u, d)
           v == Spent(d, u.db.test, w)
<1>0. /\ Good(u) /\ RowsAccount(u, w, k) /\ Accounted(u.db, w, k) /\ Clocked(u, w, k, p)
      /\ w \in Nat /\ w <= TestDuration /\ TestDuration \in Nat /\ u.db.elapsed \in Nat
      /\ u.db.elapsed <= TestDuration /\ u.db.elapsed <= w
  BY Numbers, TimeFacts DEF Accounts, RowsAccount, Accounted, Timed
<1>1. Good(t) /\ t.db = d /\ t.mem = u.mem /\ t.log = u.log \cup {u.db}
  BY <1>0, FreeWrite
<1> HIDE DEF t
<1>2. Since(u.mem.anchor) = 0 /\ Cap(u.db.elapsed + 0, TestDuration) = u.db.elapsed
      /\ Cap(0 + 0, TestDuration) = 0
  BY <1>0 DEF Since, Cap
<1>3. d.state # "running_stream" /\ d.state # "running_snapshot" /\ d.state \notin Active
      /\ d.state # "not_started"
  BY DEF Active
<1>4. Counted(d, k) /\ Marked(d)
  BY <1>0, <1>3 DEF Accounted, Counted, Marked
<1>5. CASE d.state \in Resting \cup {"completed"}
  <2>1. v = 0
    BY <1>5 DEF Spent
  <2>2. d.state \in Resting => d.elapsed = 0
    BY DEF Rests
  <2>3. Accounted(d, w, k) /\ Accounted(d, 0, k)
    BY <1>0, <1>3, <1>4, <1>5, <2>2 DEF Accounted, Timed
  <2>4. Clocked(t, 0, k, p)
    BY <1>0, <1>1, <1>2, <1>3, <1>5, <2>2 DEF Clocked
  <2> QED BY <1>0, <1>1, <1>3, <2>1, <2>3, <2>4 DEF Lands, RowsAccount, OfItsKind, t
<1>6. CASE d.state \notin Resting \cup {"completed"}
  <2>1. v = w
    BY <1>3, <1>6 DEF Spent
  <2>2. Accounted(d, w, k)
    BY <1>0, <1>3, <1>4, <1>6 DEF Accounted, Timed
  <2>3. Clocked(t, w, k, p)
    BY <1>0, <1>1, <1>2, <1>3, <1>6 DEF Clocked
  <2> QED BY <1>0, <1>1, <1>3, <2>1, <2>2, <2>3 DEF Lands, RowsAccount, OfItsKind, t
<1> QED BY <1>5, <1>6

LEMMA BeginRecoveryPhaseLands ==
  ASSUME NEW w, NEW k, NEW p, NEW n, NEW s, Lands(s, n, w, k, p), s.mem.phase = NONE,
         s.db.state \in Resting
  PROVE  Lands(BeginRecoveryPhase(s), n, w, k, p)
<1> DEFINE r == [s EXCEPT !.mem.anchor = NONE]
           m == [s.mem EXCEPT !.anchor = NONE]
           t == BeginPhase(r, "recovery")
<1>0. Good(s) /\ s \in Section /\ s.mem \in Memory /\ s.mem.anchor = NONE
  BY Numbers DEF Lands, Clocked, Resting
<1>1. r.db = s.db /\ r.log = s.log /\ r.mem = m
  BY <1>0 DEF Section
<1>2. Good(r) /\ r.mem.phase = NONE
  BY <1>0, AnchorKeeps, TypeFacts DEF Keeps
<1>3. Clocks(m) = Clocks(s.mem)
  BY <1>0 DEF Memory, Clocks
<1> HIDE DEF r, m
<1>4. RowOf(r.db) = [test |-> r.db.test, kind |-> "recovery"]
  BY <1>1, <1>2, RowFacts, SectionFacts
<1>5. /\ Good(t) /\ t.log = s.log \cup {s.db}
      /\ Place(t.db) = Place(s.db) /\ Sums(t.db) = Sums(s.db) /\ Clocks(t.mem) = Clocks(s.mem)
      /\ t.db.finished = s.db.finished
  BY <1>1, <1>2, <1>3, <1>4, BeginPhaseFacts
<1>6. BeginRecoveryPhase(s) = t
  BY DEF BeginRecoveryPhase, r
<1> HIDE DEF t
<1> QED BY <1>5, <1>6, SameLands

(* The end of a test, wherever the task finds it.                          *)
LEMMA FinishActiveLands ==
  ASSUME NEW w \in TestTimes, NEW k \in OutageTimes, NEW p, NEW s, Accounts(s, w, k, p),
         s.db.state \in Active \cup {"stopped_error"},
         s.db.state \in Active => s.mem.phase = RowOf(s.db)
  PROVE  Lands(FinishActive(s), s.db.test, w, k, p)
<1> DEFINE t == EndActive(s, "completed")
           c == [t.db EXCEPT !.state = "completed", !.elapsed = 0,
                             !.reason = "none", !.origin = NONE]
           r == [t.db EXCEPT !.state = "recovery", !.elapsed = 0,
                             !.deadline = RecoveryDuration,
                             !.reason = "none", !.origin = NONE]
<1>0. s.db.state # "completed"
  BY DEF Active
<1>1. /\ Accounts(t, w, k, p) /\ Place(t.db) = Place(s.db) /\ t.mem.anchor = NONE
      /\ t.mem.phase = NONE
      /\ s.db.state \in Active => t.db.finished[t.db.test] > 0
  BY <1>0, EndActiveAccounts DEF FinalOutcomes
<1>2. FinishActive(s) = IF t.db.test >= LastTest THEN Write(t, c)
                        ELSE BeginRecoveryPhase(Write(t, r))
  BY DEF FinishActive
<1> HIDE DEF t
<1>3. t.db \in Disk /\ t.db.test = s.db.test /\ t.db.state = s.db.state /\ Marked(t.db)
  BY <1>1, Numbers DEF Accounts, RowsAccount, Accounted, Place
<1>4. t.db.finished[t.db.test] > 0 /\ t.db.state # "completed"
  BY <1>0, <1>1, <1>3 DEF Marked
<1>5. Lands(Write(t, c), s.db.test, w, k, p)
  <2>1. /\ c \in Disk /\ c.state = "completed" /\ c.test = t.db.test
        /\ c.open = t.db.open /\ c.orphans = t.db.orphans /\ c.finished = t.db.finished
        /\ c.outSeconds = t.db.outSeconds /\ c.outActive = t.db.outActive
        /\ c.outChecked = t.db.outChecked
    BY <1>3, TypeFacts DEF Disk, States, Reasons
  <2> HIDE DEF c
  <2>2. c.state \notin Active \cup {"not_started"} /\ c.state \notin Resting /\ ~Rests(c)
    BY <2>1 DEF Active, Resting, Rests
  <2> QED BY <1>1, <1>3, <1>4, <2>1, <2>2, TurnLands
<1>6. Lands(BeginRecoveryPhase(Write(t, r)), s.db.test, w, k, p)
  <2>1. /\ r \in Disk /\ r.state = "recovery" /\ r.test = t.db.test /\ r.elapsed = 0
        /\ r.deadline # NONE
        /\ r.open = t.db.open /\ r.orphans = t.db.orphans /\ r.finished = t.db.finished
        /\ r.outSeconds = t.db.outSeconds /\ r.outActive = t.db.outActive
        /\ r.outChecked = t.db.outChecked
    BY <1>3, TypeFacts, DurationAssumption, NoneAssumption
       DEF Disk, States, Reasons, Resumable, Resting
  <2> HIDE DEF r
  <2>2. r.state \notin Active \cup {"not_started"} /\ r.state \in Resting
    BY <2>1 DEF Active, Resting
  <2>3. Lands(Write(t, r), s.db.test, w, k, p) /\ Write(t, r).db = r /\ Write(t, r).mem = t.mem
    BY <1>1, <1>3, <1>4, <2>1, <2>2, TurnLands
  <2> QED BY <1>1, <2>2, <2>3, BeginRecoveryPhaseLands
<1> QED BY <1>2, <1>5, <1>6

LEMMA TransitionLowBatteryLands ==
  ASSUME NEW w \in TestTimes, NEW k \in OutageTimes, NEW p, NEW s, Accounts(s, w, k, p),
         s.db.state \in Active, s.mem.phase = RowOf(s.db)
  PROVE  Lands(TransitionLowBattery(s), s.db.test, w, k, p)
<1> DEFINE t == EndActive(s, "aborted_low_battery")
           d == [t.db EXCEPT !.state = "stopped_low_battery", !.elapsed = 0,
                             !.deadline = RecoveryDuration,
                             !.reason = "low_battery", !.origin = NONE]
<1>0. s.db.state # "completed"
  BY DEF Active
<1>1. /\ Accounts(t, w, k, p) /\ Place(t.db) = Place(s.db) /\ t.mem.anchor = NONE
      /\ t.mem.phase = NONE /\ t.db.finished[t.db.test] > 0
  BY <1>0, EndActiveAccounts DEF FinalOutcomes
<1>2. TransitionLowBattery(s) = BeginRecoveryPhase(Write(t, d))
  BY DEF TransitionLowBattery
<1> HIDE DEF t
<1>3. t.db \in Disk /\ t.db.test = s.db.test /\ t.db.state # "completed"
  BY <1>0, <1>1, Numbers DEF Accounts, Place
<1>4. /\ d \in Disk /\ d.state = "stopped_low_battery" /\ d.test = t.db.test /\ d.elapsed = 0
      /\ d.deadline # NONE
      /\ d.open = t.db.open /\ d.orphans = t.db.orphans /\ d.finished = t.db.finished
      /\ d.outSeconds = t.db.outSeconds /\ d.outActive = t.db.outActive
      /\ d.outChecked = t.db.outChecked
  BY <1>3, TypeFacts, DurationAssumption, NoneAssumption
     DEF Disk, States, Reasons, Resumable, Resting
<1> HIDE DEF d
<1>5. d.state \notin Active \cup {"not_started"} /\ d.state \in Resting
  BY <1>4 DEF Active, Resting
<1>6. Lands(Write(t, d), s.db.test, w, k, p) /\ Write(t, d).db = d /\ Write(t, d).mem = t.mem
  BY <1>1, <1>3, <1>4, <1>5, TurnLands
<1> QED BY <1>1, <1>2, <1>5, <1>6, BeginRecoveryPhaseLands

LEMMA TransitionLowDuringRecoveryLands ==
  ASSUME NEW w \in TestTimes, NEW k \in OutageTimes, NEW p, NEW s, Accounts(s, w, k, p),
         s.db.state \in Resting
  PROVE  Lands(TransitionLowDuringRecovery(s), s.db.test, w, k, p)
<1> DEFINE t == EndPhase(s, "low_battery_detected")
           d == [t.db EXCEPT !.state = "stopped_low_battery", !.deadline = RecoveryDuration,
                             !.reason = "low_battery", !.origin = NONE]
<1>1. /\ Accounts(t, w, k, p) /\ Place(t.db) = Place(s.db) /\ Clocks(t.mem) = Clocks(s.mem)
      /\ t.mem.phase = NONE
  BY EndPhaseAccounts, EndPhaseGood DEF Accounts
<1>2. TransitionLowDuringRecovery(s) = BeginRecoveryPhase(Write(t, d))
  BY DEF TransitionLowDuringRecovery
<1> HIDE DEF t
<1>3. t.db \in Disk /\ t.db.test = s.db.test /\ t.db.state = s.db.state
      /\ Marked(t.db) /\ Timed(t.db, w) /\ Clocked(t, w, k, p)
  BY <1>1, Numbers DEF Accounts, RowsAccount, Accounted, Place
<1>4. t.db.state # "completed" /\ t.db.finished[t.db.test] > 0 /\ t.db.elapsed = 0
      /\ t.mem.anchor = NONE
  BY <1>3 DEF Marked, Timed, Rests, Clocked, Resting
<1>5. /\ d \in Disk /\ d.state = "stopped_low_battery" /\ d.test = t.db.test /\ d.elapsed = 0
      /\ d.deadline # NONE
      /\ d.open = t.db.open /\ d.orphans = t.db.orphans /\ d.finished = t.db.finished
      /\ d.outSeconds = t.db.outSeconds /\ d.outActive = t.db.outActive
      /\ d.outChecked = t.db.outChecked
  BY <1>3, <1>4, TypeFacts, DurationAssumption, NoneAssumption
     DEF Disk, States, Reasons, Resumable, Resting
<1> HIDE DEF d
<1>6. d.state \notin Active \cup {"not_started"} /\ d.state \in Resting
  BY <1>5 DEF Active, Resting
<1>7. Lands(Write(t, d), s.db.test, w, k, p) /\ Write(t, d).db = d /\ Write(t, d).mem = t.mem
  BY <1>1, <1>3, <1>4, <1>5, <1>6, TurnLands
<1> QED BY <1>1, <1>2, <1>6, <1>7, BeginRecoveryPhaseLands

LEMMA TransitionErrorLands ==
  ASSUME NEW w \in TestTimes, NEW k \in OutageTimes, NEW p, NEW s, Accounts(s, w, k, p),
         s.db.state \in Resumable \cup {"stopped_error"},
         s.db.state \in Active => s.mem.phase = RowOf(s.db)
  PROVE  Lands(TransitionError(s), s.db.test, w, k, p)
<1> DEFINE t == IF s.db.state \in Active THEN EndActive(s, "error") ELSE EndPhase(s, "error")
           d == [t.db EXCEPT !.state = "stopped_error", !.deadline = NONE,
                             !.reason = "error", !.origin = NONE]
<1>0. s.db.state # "completed" /\ (s.db.state \notin Active => s.mem.anchor = NONE)
  BY DEF Resumable, Active, Resting, Accounts, Clocked
<1>1. /\ Accounts(t, w, k, p) /\ Place(t.db) = Place(s.db) /\ t.mem.anchor = NONE
      /\ t.mem.phase = NONE
      /\ s.db.state \in Active => t.db.finished[t.db.test] > 0
  <2>1. CASE s.db.state \in Active
    BY <1>0, <2>1, EndActiveAccounts DEF FinalOutcomes
  <2>2. CASE s.db.state \notin Active
    BY <1>0, <2>2, EndPhaseAccounts, EndPhaseGood DEF Accounts, Clocks
  <2> QED BY <2>1, <2>2
<1>2. TransitionError(s) = Write(t, d)
  BY DEF TransitionError
<1> HIDE DEF t
<1>3. t.db \in Disk /\ t.db.test = s.db.test /\ t.db.state = s.db.state /\ Marked(t.db)
  BY <1>1, Numbers DEF Accounts, RowsAccount, Accounted, Place
<1>4. t.db.finished[t.db.test] > 0 /\ t.db.state # "completed"
  BY <1>0, <1>1, <1>3 DEF Marked, Rests, Resumable
<1>5. /\ d \in Disk /\ d.state = "stopped_error" /\ d.test = t.db.test
      /\ d.elapsed = t.db.elapsed
      /\ d.open = t.db.open /\ d.orphans = t.db.orphans /\ d.finished = t.db.finished
      /\ d.outSeconds = t.db.outSeconds /\ d.outActive = t.db.outActive
      /\ d.outChecked = t.db.outChecked
  BY <1>3, TypeFacts DEF Disk, States, Reasons
<1> HIDE DEF d
<1>6. /\ d.state \notin Active \cup {"not_started"} /\ d.state \notin Resting /\ ~Rests(d)
  BY <1>5 DEF Active, Resting, Rests
<1> QED BY <1>1, <1>2, <1>3, <1>4, <1>5, <1>6, TurnLands

-----------------------------------------------------------------------------
(* The beginning of an active phase.                                       *)

\* What begin_active does once the clocks are set.
OpenActive(s) == BeginPhase(Write(s, [s.db EXCEPT !.deadline = NONE]), "active")

\* Every row written from s to t accounts for as much, with the time of s.
Records(s, t, v, k) ==
  \A d \in t.log : d \in s.log \cup {s.db} \/ (Accounted(d, v, k) /\ d.elapsed = s.db.elapsed)

(* The deadline is dropped and the phase opened.                           *)
LEMMA OpenActiveClocks ==
  ASSUME NEW v, NEW k, NEW p, NEW a, Good(a), a.mem.phase = NONE, a.db.state \in Active,
         OfItsKind(a.db), Accounted(a.db, v, k), Clocked(a, v, k, p)
  PROVE  LET t == OpenActive(a) IN
         /\ Good(t) /\ OfItsKind(t.db) /\ Accounted(t.db, v, k) /\ Clocked(t, v, k, p)
         /\ Place(t.db) = Place(a.db) /\ Clocks(t.mem) = Clocks(a.mem)
         /\ Records(a, t, v, k)
<1> DEFINE d == [a.db EXCEPT !.deadline = NONE]
           b == Write(a, d)
           t == BeginPhase(b, "active")
<1>0. a.db \in Disk /\ a.mem \in Memory
  BY Numbers
<1>1. /\ d \in Disk /\ d.state = a.db.state /\ d.open = a.db.open /\ d.orphans = a.db.orphans
      /\ Place(d) = Place(a.db) /\ Sums(d) = Sums(a.db) /\ d.finished = a.db.finished
      /\ d.test = a.db.test
  BY <1>0, TypeFacts DEF Disk, Place, Sums
<1> HIDE DEF d
<1>2. d.state \notin Resting /\ d.state # "stopped_manual" /\ d.state # "stopped_error"
  BY <1>1 DEF Active, Resting
<1>3. /\ Good(b) /\ b.mem = a.mem /\ b.db = d /\ b.log = a.log \cup {a.db}
  BY <1>1, <1>2, FreeWrite
<1> HIDE DEF b
<1>4. RowOf(b.db) = [test |-> b.db.test, kind |-> "active"]
  BY <1>1, <1>3, RowFacts
<1>5. /\ Good(t) /\ t.log = b.log \cup {b.db}
      /\ Place(t.db) = Place(d) /\ Sums(t.db) = Sums(d) /\ Clocks(t.mem) = Clocks(a.mem)
      /\ t.db.finished = d.finished
  BY <1>3, <1>4, BeginPhaseFacts
<1> HIDE DEF t
<1>6. /\ t.db.state = a.db.state /\ t.db.test = a.db.test
  BY <1>1, <1>5 DEF Place
<1>7. Marked(d) /\ Marked(t.db)
  BY <1>1, <1>2, <1>6 DEF Marked, Rests
<1>8. Accounted(d, v, k) /\ Accounted(t.db, v, k)
  BY <1>1, <1>5, <1>7, SameAccounted
<1>9. Clocked(t, v, k, p)
  BY <1>1, <1>5, <1>6, SameClocked
<1>10. OfItsKind(t.db)
  BY <1>6 DEF OfItsKind
<1>11. d.elapsed = a.db.elapsed
  BY <1>1 DEF Sums
<1>12. t.log = a.log \cup {a.db} \cup {d}
  BY <1>3, <1>5
<1>13. Records(a, t, v, k)
  BY <1>8, <1>11, <1>12 DEF Records
<1>14. Place(t.db) = Place(a.db)
  BY <1>1, <1>5
<1> QED BY <1>5, <1>8, <1>9, <1>10, <1>13, <1>14 DEF t, b, d, OpenActive

(* What a phase of the test may count as its time is in the rows already.  *)
LEMMA BeginActiveClocks ==
  ASSUME NEW v \in TestTimes, NEW k \in OutageTimes, NEW p, p \notin StreamPoints,
         NEW s, Good(s), s.mem.phase = NONE, s.db.state \in Active, OfItsKind(s.db),
         s.db.elapsed <= v, ~IsStream(s.db.test) => s.db.elapsed = v,
         NEW acc \in BOOLEAN,
         s.db.outActive => IsStream(s.db.test) /\ s.db.outSeconds <= k,
         s.db.outActive /\ acc /\ s.db.outChecked # NONE =>
           Cap(s.db.outSeconds + s.db.outChecked, FatalOutage) <= k
  PROVE  LET t == BeginActive(s, acc) IN
         /\ Good(t) /\ OfItsKind(t.db) /\ Accounted(t.db, v, k) /\ Clocked(t, v, k, p)
         /\ Place(t.db) = Place(s.db)
         /\ t.db.state = "running_snapshot" => t.mem.anchor # NONE
         /\ Records(s, t, v, k)
<1>0. /\ s \in Section /\ s.db \in Disk /\ s.mem \in Memory
      /\ s.db.elapsed \in Nat /\ s.db.outSeconds \in Nat /\ s.db.outSeconds <= FatalOutage
      /\ s.db.outChecked # NONE => s.db.outChecked \in Nat
      /\ v \in Nat /\ v <= TestDuration /\ k \in Nat
      /\ TestDuration \in Nat /\ FatalOutage \in Nat
      /\ s.db.state = ActiveState(s.db.test)
  BY Numbers, TimeFacts DEF OfItsKind
<1>1. s.db.state \notin
        Resting \cup {"not_started", "completed", "stopped_manual", "stopped_error"}
  BY DEF Active, Resting
<1>2. Marked(s.db) /\ Timed(s.db, v)
  BY <1>1 DEF Marked, Timed, Rests
<1>3. CASE ~IsStream(s.db.test)
  <2> DEFINE a == [s EXCEPT !.mem.anchor = 0]
             m == [s.mem EXCEPT !.anchor = 0]
  <2>1. a.db = s.db /\ a.mem = m /\ a.log = s.log
    BY <1>0 DEF Section
  <2>2. Good(a) /\ a.mem.phase = NONE
    BY <1>0, AnchorKeeps, TypeFacts DEF Keeps
  <2>3. /\ m.anchor = 0 /\ m.valid = s.mem.valid /\ m.lastBytes = s.mem.lastBytes
        /\ m.outStarted = s.mem.outStarted
    BY <1>0 DEF Memory
  <2>4. BeginActive(s, acc) = OpenActive(a)
    BY <1>3 DEF BeginActive, OpenActive
  <2> HIDE DEF a, m
  <2>5. /\ s.db.state = "running_snapshot" /\ ~s.db.outActive /\ 0 # NONE /\ Since(0) = 0
        /\ Cap(v + 0, TestDuration) = v
    BY <1>0, <1>3, NoneAssumption DEF ActiveState, Since, Cap
  <2>6. Accounted(a.db, v, k)
    BY <1>2, <2>1, <2>5 DEF Accounted, Counted
  <2>7. Clocked(a, v, k, p)
    BY <1>3, <2>1, <2>3, <2>5 DEF Clocked
  <2>8. OfItsKind(a.db) /\ a.db.state \in Active
    BY <2>1
  <2> DEFINE t == OpenActive(a)
  <2>9. /\ Good(t) /\ OfItsKind(t.db) /\ Accounted(t.db, v, k) /\ Clocked(t, v, k, p)
        /\ Place(t.db) = Place(a.db) /\ Clocks(t.mem) = Clocks(a.mem)
        /\ Records(a, t, v, k)
    BY <2>2, <2>6, <2>7, <2>8, OpenActiveClocks
  <2> HIDE DEF t
  <2>10. t.mem.anchor = 0
    BY <2>1, <2>3, <2>9 DEF Clocks
  <2> QED BY <2>1, <2>4, <2>5, <2>9, <2>10 DEF t, Records
<1>4. CASE IsStream(s.db.test)
  <2> DEFINE r == ResetStreamTracking(s)
             closed == IF acc /\ s.db.outChecked # NONE THEN s.db.outChecked ELSE 0
             n == IF s.db.outActive THEN s.db.outSeconds + closed ELSE 0
             o == WriteOutage(r, n)
             a == [o EXCEPT !.mem.anchor = NONE]
             m == [s.mem EXCEPT !.outStarted = NONE, !.lastBytes = NONE, !.valid = 0]
             q == [m EXCEPT !.outStarted = 0]
             z == [q EXCEPT !.anchor = NONE]
             e == [s.db EXCEPT !.outSeconds = Cap(n, FatalOutage), !.outActive = TRUE,
                               !.outChecked = 0]
  <2>1. n \in Nat /\ Cap(n, FatalOutage) <= k
    BY <1>0 DEF Cap
  <2>2. Good(r) /\ r.mem.phase = NONE
    BY ResetStreamTrackingKeeps DEF Keeps
  <2>3. Good(o) /\ o.mem.phase = NONE
    BY <2>1, <2>2, WriteOutageKeeps DEF Keeps
  <2>4. Good(a) /\ a.mem.phase = NONE
    BY <2>3, AnchorKeeps, TypeFacts DEF Keeps
  <2>5. r.db = s.db /\ r.log = s.log /\ r.mem = m
    BY <1>0 DEF ResetStreamTracking, Section
  <2>6. BeginActive(s, acc) = OpenActive(a)
    BY <1>4, <2>5 DEF BeginActive, OpenActive, RestoreOrStartStreamOutage
  <2> HIDE DEF n, closed, r
  <2>7. /\ z.anchor = NONE /\ z.outStarted = 0 /\ z.lastBytes = NONE /\ z.valid = 0
    BY <1>0 DEF Memory
  <2>8. /\ e.outSeconds = Cap(n, FatalOutage) /\ e.outActive /\ e.outChecked = 0
        /\ Place(e) = Place(s.db) /\ e.elapsed = s.db.elapsed
        /\ e.state = s.db.state /\ e.test = s.db.test
    BY <1>0 DEF Disk, Place
  <2>9. o.db = e /\ o.mem = q /\ o.log = s.log \cup {s.db} /\ o \in Section
    BY <2>2, <2>3, <2>5, SectionFacts DEF WriteOutage, Write, Section
  <2> HIDE DEF o
  <2>10. a.db = e /\ a.mem = z /\ a.log = s.log \cup {s.db}
    BY <2>9 DEF Section
  <2> HIDE DEF a, m, q, z, e
  <2>11. Cap(Cap(n, FatalOutage) + 0, FatalOutage) = Cap(n, FatalOutage)
    BY <1>0, <2>1 DEF Cap
  <2>12. Counted(e, k)
    BY <1>4, <2>1, <2>8, <2>11, NoneAssumption DEF Counted
  <2>13. Accounted(e, v, k)
    BY <1>1, <1>2, <2>8, <2>12 DEF Accounted, Marked, Timed, Rests
  <2>14. Cap(e.elapsed + 0 + 0, TestDuration) <= v /\ Since(NONE) = 0
    BY <1>0, <2>8 DEF Cap, Since
  <2>15. Clocked(a, v, k, p)
    BY <1>4, <2>7, <2>8, <2>10, <2>14 DEF Clocked
  <2>16. OfItsKind(a.db) /\ a.db.state \in Active
    BY <2>8, <2>10 DEF OfItsKind
  <2>17. s.db.state # "running_snapshot"
    BY <1>0, <1>4 DEF ActiveState
  <2> DEFINE t == OpenActive(a)
  <2>18. /\ Good(t) /\ OfItsKind(t.db) /\ Accounted(t.db, v, k) /\ Clocked(t, v, k, p)
         /\ Place(t.db) = Place(a.db)
         /\ Records(a, t, v, k)
    <3>1. Accounted(a.db, v, k)
      BY <2>10, <2>13
    <3> QED BY <2>4, <2>15, <2>16, <3>1, OpenActiveClocks
  <2> HIDE DEF t
  <2>19. t.db.state = s.db.state
    BY <2>8, <2>10, <2>18 DEF Place
  <2> QED BY <2>6, <2>8, <2>10, <2>13, <2>17, <2>18, <2>19 DEF t, Records
<1> QED BY <1>3, <1>4

(* More time may be accounted for, never less.                             *)
LEMMA MoreAccounted ==
  ASSUME NEW d \in Disk, NEW v \in TestTimes, NEW w \in TestTimes, v <= w,
         NEW k \in OutageTimes, NEW l \in OutageTimes, k <= l, Accounted(d, v, k)
  PROVE  Accounted(d, w, l)
<1>1. /\ v \in Nat /\ w \in Nat /\ k \in Nat /\ l \in Nat /\ FatalOutage \in Nat
      /\ d.elapsed \in Nat /\ d.outSeconds \in Nat
      /\ d.outChecked # NONE => d.outChecked \in Nat
  BY TimeFacts, DurationAssumption DEF Disk, TestTimes, OutageTimes, OrNone
<1>2. d.outChecked # NONE => Cap(d.outSeconds + d.outChecked, FatalOutage) \in Nat
  BY <1>1 DEF Cap
<1>3. Timed(d, w)
  BY <1>1 DEF Accounted, Timed
<1>4. Counted(d, l)
  BY <1>1, <1>2 DEF Accounted, Counted
<1> QED BY <1>3, <1>4 DEF Accounted

(* The task goes on to wait at the point q.                                *)
LEMMA PointLands ==
  ASSUME NEW w, NEW k, NEW p, NEW n, NEW t, Lands(t, n, w, k, p),
         NEW q, q \in StreamPoints => p \in StreamPoints \/ t.db.state = "running_stream"
  PROVE  Lands(t, n, w, k, q)
BY DEF Lands, Clocked

LEMMA NoteSuccessAccounts ==
  ASSUME NEW w, NEW k, NEW p, NEW s, Accounts(s, w, k, p)
  PROVE  LET t == NoteSuccess(s) IN
         /\ Accounts(t, w, k, p)
         /\ t.db = s.db /\ t.mem.phase = s.mem.phase /\ t.mem.anchor = s.mem.anchor
<1> DEFINE m == [s.mem EXCEPT !.outage = NONE]
           t == NoteSuccess(s)
<1>1. /\ Good(s) /\ s \in Section /\ s.mem \in Memory /\ Good(t)
      /\ Marked(s.db)
  BY Numbers, NoteSuccessKeeps DEF Accounts, Keeps, RowsAccount, Accounted
<1>2. t.db = s.db /\ t.log = s.log /\ t.mem = m
  BY <1>1 DEF NoteSuccess, Section
<1>3. Clocks(m) = Clocks(s.mem) /\ m.phase = s.mem.phase /\ m.anchor = s.mem.anchor
  BY <1>1 DEF Memory, Clocks
<1> HIDE DEF m, t
<1>4. Accounts(t, w, k, p)
  BY <1>1, <1>2, <1>3, SameAccounts
<1> QED BY <1>2, <1>3, <1>4 DEF t

LEMMA NoteFailureLands ==
  ASSUME NEW w \in TestTimes, NEW k \in OutageTimes, NEW p, NEW s, Accounts(s, w, k, p),
         s.db.state \in Resumable \cup {"stopped_error"},
         s.db.state \in Active => s.mem.phase = RowOf(s.db),
         s.db.state = "running_snapshot" => s.mem.anchor # NONE
  PROVE  Lands(NoteFailure(s), s.db.test, w, k, p)
<1> DEFINE m == [s.mem EXCEPT !.outage = 0]
           t == [s EXCEPT !.mem.outage = 0]
<1>1. /\ Good(s) /\ s \in Section /\ s.mem \in Memory /\ Good(t) /\ Marked(s.db)
  BY Numbers, OutageKeeps, TypeFacts DEF Accounts, Keeps, RowsAccount, Accounted
<1>2. t.db = s.db /\ t.log = s.log /\ t.mem = m
  BY <1>1 DEF Section
<1>3. Clocks(m) = Clocks(s.mem) /\ m.anchor = s.mem.anchor
  BY <1>1 DEF Memory, Clocks
<1>4. NoteFailure(s) \in {s, t, TransitionError(s)}
  BY DEF NoteFailure
<1> HIDE DEF m, t
<1>5. Accounts(t, w, k, p)
  BY <1>1, <1>2, <1>3, SameAccounts
<1>6. Lands(t, s.db.test, w, k, p)
  BY <1>2, <1>3, <1>5, AccountsLands
<1> QED BY <1>4, <1>6, AccountsLands, TransitionErrorLands

(* The next test begins with nothing worked, heard or lost.                *)
LEMMA AdvanceAfterRecoveryLands ==
  ASSUME NEW w \in TestTimes, NEW k \in OutageTimes, NEW p, NEW s, Accounts(s, w, k, p),
         s.mem.phase = NONE, NEW q, q \notin StreamPoints
  PROVE  Lands(AdvanceAfterRecovery(s), s.db.test, w, k, q)
<1>0. /\ Good(s) /\ OfItsKind(s.db) /\ RowsAccount(s, w, k) /\ Clocked(s, w, k, p)
      /\ Accounted(s.db, w, k)
      /\ s.db \in Disk /\ s.db.test \in Tests /\ s.db.test \in Nat /\ LastTest \in Nat
      /\ s.db.test <= LastTest /\ w \in Nat
  BY Numbers, TimeFacts, TestAssumption DEF Accounts, RowsAccount, Tests
<1>1. CASE s.db.test >= LastTest
  <2> DEFINE d == [s.db EXCEPT !.state = "completed", !.deadline = NONE, !.origin = NONE,
                     !.reason = IF @ = "low_battery" THEN "completed_after_low_battery"
                                ELSE "none"]
             t == AdvanceAfterRecovery(s)
  <2>1. /\ d \in Disk /\ d.state = "completed" /\ d.test = s.db.test
        /\ d.open = s.db.open /\ d.orphans = s.db.orphans
        /\ d.outSeconds = s.db.outSeconds /\ d.outActive = s.db.outActive
        /\ d.outChecked = s.db.outChecked
    BY <1>0, TypeFacts DEF Disk, States, Reasons
  <2>2. t = Write(s, d)
    BY <1>1 DEF AdvanceAfterRecovery
  <2> HIDE DEF d
  <2>3. d.state \notin Resting
    BY <2>1 DEF Resting
  <2>4. Good(t) /\ t.mem = s.mem /\ t.db = d /\ t.log = s.log \cup {s.db}
    BY <1>0, <2>1, <2>2, <2>3, FreeWrite
  <2> HIDE DEF t
  <2>5. s.db.test = LastTest /\ IsStream(s.db.test)
    BY <1>0, <1>1 DEF IsStream
  <2>6. s.mem.anchor = NONE
    BY <1>0, <2>5, KindFacts DEF Clocked
  <2>7. Accounted(d, w, k) /\ Accounted(d, 0, k)
    BY <1>0, <2>1 DEF Accounted, Marked, Timed, Counted, Rests, Resting
  <2>8. Clocked(t, 0, k, q)
    BY <1>0, <2>1, <2>4, <2>6 DEF Clocked
  <2>9. Spent(d, s.db.test, w) = 0
    BY <2>1 DEF Spent
  <2> QED BY <1>0, <2>1, <2>4, <2>7, <2>8, <2>9 DEF Lands, RowsAccount, OfItsKind, Active, t
<1>2. CASE ~(s.db.test >= LastTest)
  <2> DEFINE n == s.db.test + 1
             d == [s.db EXCEPT !.state = ActiveState(s.db.test + 1), !.test = @ + 1,
                               !.elapsed = 0, !.deadline = NONE,
                               !.reason = "none", !.origin = NONE]
             u == Write(s, d)
             t == BeginActive(u, FALSE)
  <2>1. n \in Tests /\ n # s.db.test /\ ~IsStream(s.db.test)
    BY <1>0, <1>2 DEF Tests, IsStream
  <2>2. /\ d \in Disk /\ d.state = ActiveState(n) /\ d.test = n /\ d.elapsed = 0
        /\ d.open = s.db.open /\ d.orphans = s.db.orphans
        /\ d.outActive = s.db.outActive
    BY <1>0, <2>1, TypeFacts, ActiveStateFacts DEF Disk, Reasons
  <2>3. AdvanceAfterRecovery(s) = t
    BY <1>2 DEF AdvanceAfterRecovery
  <2> HIDE DEF d, n
  <2>4. d.state \in Active /\ d.state \notin Resting /\ ~d.outActive
    BY <1>0, <2>1, <2>2, ActiveStateFacts DEF Accounted, Counted
  <2>5. Good(u) /\ u.mem = s.mem /\ u.db = d /\ u.log = s.log \cup {s.db}
    BY <1>0, <2>2, <2>4, FreeWrite
  <2> HIDE DEF u
  <2>6. OfItsKind(d) /\ Accounted(d, w, k)
    BY <1>0, <2>2, <2>4 DEF OfItsKind, Accounted, Marked, Timed, Counted, Rests, Active
  <2>7. 0 \in TestTimes /\ 0 <= w /\ 0 <= 0 /\ k <= k
    BY <1>0, TypeFacts, TimeFacts
  <2>8. /\ Good(t) /\ OfItsKind(t.db) /\ Accounted(t.db, 0, k) /\ Clocked(t, 0, k, q)
        /\ Place(t.db) = Place(d)
        /\ t.db.state = "running_snapshot" => t.mem.anchor # NONE
        /\ Records(u, t, 0, k)
    BY <2>2, <2>4, <2>5, <2>6, <2>7, BeginActiveClocks
  <2> HIDE DEF t
  <2>9. t \in Section
    BY <2>8 DEF Good
  <2>10. \A e \in t.log \cup {t.db} : e \in Disk
    BY <2>9 DEF Section
  <2>11. RowsAccount(t, w, k)
    BY <1>0, <2>5, <2>6, <2>7, <2>8, <2>10, MoreAccounted DEF RowsAccount, Records
  <2>12. Spent(t.db, s.db.test, w) = 0
    BY <2>1, <2>2, <2>8 DEF Spent, Place
  <2> QED BY <2>3, <2>8, <2>11, <2>12 DEF Lands
<1> QED BY <1>1, <1>2

-----------------------------------------------------------------------------
(* The invariant.                                                          *)

\* A crash that tore a start apart leaves an outage of any length.
Dark == IF torn THEN FatalOutage ELSE dark

\* While the process is not up, the rows alone are the time worked.
Idle ==
  /\ mem.anchor = NONE
  /\ ~IsStream(db.test) /\ db.state # "completed" => db.elapsed = worked
  /\ db.state = "running_stream" => mem.valid = 0
  /\ db.outActive /\ mem.outStarted # NONE => mem.outStarted = db.outChecked

UpInv ==
  /\ Clocked(Now, worked, Dark, Current)
  /\ db.state = "running_snapshot" => mem.anchor # NONE
  /\ Current \in StreamPoints => IsStream(db.test)

ClockInv ==
  /\ Accounted(db, worked, Dark)
  /\ proc = "up" => UpInv
  /\ proc # "up" => Idle
  /\ proc = "down" => mem = NewMemory
  /\ proc = "closing" => Current = "none" /\ \A c \in Callers : mem.call[c] # mem.generation

(* The parts of the invariant, after a step.                               *)
LEMMA AccountedAfter ==
  ASSUME Accounted(db', worked', Dark')
  PROVE  Accounted(db, worked, Dark)'
BY DEF Accounted, Marked, Timed, Counted, Rests, IsStream, Cap, Resting

LEMMA UpAfter ==
  ASSUME NEW t, t.db = db', t.mem = mem', Clocked(t, worked', Dark', Current'),
         db'.state = "running_snapshot" => mem'.anchor # NONE,
         Current' \in StreamPoints => IsStream(db'.test)
  PROVE  UpInv'
<1>1. Now'.db = db' /\ Now'.mem = mem'
  BY DEF Now
<1>2. Clocked(Now, worked, Dark, Current)'
  BY <1>1 DEF Clocked, Since, Cap, IsStream, StreamPoints
<1> QED BY <1>2 DEF UpInv, IsStream, StreamPoints

LEMMA IdleAfter ==
  ASSUME mem'.anchor = NONE,
         ~IsStream(db'.test) /\ db'.state # "completed" => db'.elapsed = worked',
         db'.state = "running_stream" => mem'.valid = 0,
         db'.outActive /\ mem'.outStarted # NONE => mem'.outStarted = db'.outChecked
  PROVE  Idle'
BY DEF Idle, IsStream

LEMMA HistoryFacts ==
  ASSUME HistoryInv
  PROVE  /\ worked \in TestTimes /\ Dark \in OutageTimes /\ FatalOutage \in OutageTimes
         /\ worked \in Nat /\ worked <= TestDuration /\ Dark \in Nat /\ Dark <= FatalOutage
BY DurationAssumption DEF HistoryInv, Dark, OutageTimes, TestTimes

(* A step that commits its section leaves the clocks where the section     *)
(* left them.                                                              *)
LEMMA CommitClock ==
  ASSUME proc' = "up", NEW t, NEW v, NEW k, NEW q,
         OfItsKind(t.db), Accounted(t.db, v, k), Clocked(t, v, k, q),
         t.db.state = "running_snapshot" => t.mem.anchor # NONE,
         t.mem.task[t.mem.generation] = q, q \in StreamPoints => IsStream(t.db.test),
         db' = t.db, mem' = t.mem, worked' = v, IsStream(t.db.test) => Dark' = k
  PROVE  ClockInv'
<1>1. Current' = q
  BY DEF Current
<1>2. t.db.state = "running_stream" => IsStream(t.db.test)
  BY KindFacts
<1>3. Accounted(db', worked', Dark')
  BY DEF Accounted, Counted
<1>4. Clocked(t, worked', Dark', Current')
  BY <1>1, <1>2 DEF Clocked
<1>5. Accounted(db, worked, Dark)' /\ UpInv'
  BY <1>1, <1>3, <1>4, AccountedAfter, UpAfter
<1> QED BY <1>5 DEF ClockInv

(* A crash loses what the rows do not show.                                *)
LEMMA CrashClock ==
  ASSUME HistoryInv, proc # "down", proc' = "down", mem' = NewMemory,
         NEW newRun, NEW receipt, Observe(newRun, receipt), db' \in Disk,
         Accounted(db', worked, IF db.state = "stopped_manual" /\ db'.state = "running_stream"
                                THEN FatalOutage ELSE Dark)
  PROVE  ClockInv'
<1> DEFINE torn1 == db.state = "stopped_manual" /\ db'.state = "running_stream"
           k == IF torn1 THEN FatalOutage ELSE Dark
<1>1. /\ worked \in Nat /\ db'.elapsed \in Nat
      /\ db'.state # "completed" => db'.elapsed <= worked
  BY HistoryFacts, TimeFacts DEF Disk, Accounted, Timed
<1>2. worked' = IF db'.state \in Resting \cup {"not_started", "completed"} THEN 0
                ELSE Cap(db'.elapsed, worked)
  BY DEF Observe
<1>3. db'.state # "completed" => worked' = db'.elapsed
  <2>1. db'.state \in Resting \cup {"not_started"} => db'.elapsed = 0
    BY DEF Accounted, Timed, Rests
  <2>2. db'.elapsed <= worked => Cap(db'.elapsed, worked) = db'.elapsed
    BY <1>1 DEF Cap
  <2> QED BY <1>1, <1>2, <2>1, <2>2
<1>4. IsStream(db'.test) => Dark' = k
  BY DEF Observe, Dark
<1>5. Accounted(db', worked', Dark')
  <2>1. Accounted(db', worked, k)
    OBVIOUS
  <2>2. Counted(db', Dark')
    BY <1>4, <2>1 DEF Accounted, Counted
  <2>3. db'.elapsed <= db'.elapsed
    BY <1>1
  <2>4. Timed(db', worked')
    BY <1>3, <2>1, <2>3 DEF Accounted, Timed
  <2> QED BY <2>1, <2>2, <2>4 DEF Accounted
<1>6. mem'.anchor = NONE /\ mem'.valid = 0 /\ mem'.outStarted = NONE
  BY DEF NewMemory
<1>7. Idle' /\ Accounted(db, worked, Dark)'
  BY <1>3, <1>5, <1>6, IdleAfter, AccountedAfter
<1>8. mem' = NewMemory'
  BY DEF NewMemory
<1> QED BY <1>7, <1>8 DEF ClockInv

(* A section of the running process that has landed.                       *)
LEMMA LandedClock ==
  ASSUME HistoryInv, proc = "up", NEW s, NEW q, Lands(s, db.test, worked, Dark, q),
         s.mem.task[s.mem.generation] = q, q \in StreamPoints => IsStream(s.db.test),
         Atomic(s, proc), Observe(FALSE, FALSE)
  PROVE  ClockInv'
<1>1. CASE db' = s.db /\ mem' = s.mem /\ proc' = proc
  <2> DEFINE v == Spent(s.db, db.test, worked)
  <2>1. worked' = v
    BY <1>1 DEF Observe, Spent
  <2>2. IsStream(s.db.test) => Dark' = Dark
    BY <1>1 DEF Observe, Dark
  <2>3. /\ OfItsKind(s.db) /\ Accounted(s.db, v, Dark) /\ Clocked(s, v, Dark, q)
        /\ s.db.state = "running_snapshot" => s.mem.anchor # NONE
    BY DEF Lands
  <2> HIDE DEF v
  <2> QED BY <1>1, <2>1, <2>2, <2>3, CommitClock
<1>2. CASE \E d \in s.log : db' = d /\ mem' = NewMemory /\ proc' = "down"
  <2> DEFINE k == IF db.state = "stopped_manual" /\ db'.state = "running_stream"
                  THEN FatalOutage ELSE Dark
  <2>1. db' \in Disk /\ Accounted(db', worked, Dark)
    BY <1>2, SectionFacts DEF Lands, RowsAccount, Section
  <2>2. k \in OutageTimes /\ Dark <= k /\ worked <= worked
    BY HistoryFacts
  <2>3. Accounted(db', worked, k)
    BY <2>1, <2>2, HistoryFacts, MoreAccounted
  <2> QED BY <1>2, <2>1, <2>3, CrashClock
<1> QED BY <1>1, <1>2 DEF Atomic

-----------------------------------------------------------------------------
(* The steps of a task.                                                    *)

(* What a running process has at hand between two sections.                *)
LEMMA ReadyFacts ==
  ASSUME IInv, ControlInv, ClockInv, proc = "up"
  PROVE  /\ Accounts(Now, worked, Dark, Current) /\ OfItsKind(db)
         /\ Now.db = db /\ Now.mem = mem /\ mem.phase = RowOf(db)
         /\ db.state = "running_snapshot" => mem.anchor # NONE
         /\ Current \in StreamPoints => IsStream(db.test)
         /\ worked \in TestTimes /\ Dark \in OutageTimes
<1>1. /\ Good(Now) /\ Settled(Now) /\ Now.db = db /\ Now.mem = mem /\ Now.log = {}
  BY RunningFacts, NowFacts DEF IInv
<1>2. OfItsKind(db)
  BY FaceFacts DEF ControlInv, Sound, OfItsKind
<1> QED BY <1>1, <1>2, HistoryFacts DEF ClockInv, UpInv, Accounts, RowsAccount, IInv, Settled

(* A closing process has no task of the current generation.                *)
LEMMA OwnerReady ==
  ASSUME IInv, ControlInv, ClockInv, proc # "down",
         NEW g \in Generations, Owns(g), mem.task[g] # "none"
  PROVE  /\ proc = "up" /\ Current = mem.task[g]
         /\ Accounts(Now, worked, Dark, mem.task[g]) /\ OfItsKind(db)
         /\ Now.db = db /\ Now.mem = mem /\ mem.phase = RowOf(db)
         /\ db.state = "running_snapshot" => mem.anchor # NONE
         /\ mem.task[g] \in StreamPoints => IsStream(db.test)
         /\ worked \in TestTimes /\ Dark \in OutageTimes
         /\ db.state \notin Parked /\ PointFits(Face(db), mem.task[g])
         /\ Good(Now) /\ Keeps(Now, Now) /\ HistoryInv
         /\ db.state \in States /\ db.test \in Tests
<1>1. Current = mem.task[g] /\ proc \in Processes
  BY DEF Owns, Current, IInv, DataInv
<1>2. proc = "up"
  BY <1>1 DEF Processes, ClockInv
<1> QED BY <1>1, <1>2, ReadyFacts, OwnerFacts DEF IInv

(* The task of the current generation runs a section and waits again.      *)
LEMMA RunClock ==
  ASSUME HistoryInv, proc = "up", NEW g \in Generations, Owns(g),
         NEW s, NEW p, Lands(s, db.test, worked, Dark, p), NEW f, Moves(Now, s, f),
         NEW q \in Points,
         q \in StreamPoints =>
           IsStream(s.db.test) /\ (p \in StreamPoints \/ s.db.state = "running_stream"),
         Run(g, s, q), Observe(FALSE, FALSE)
  PROVE  ClockInv'
<1> DEFINE t == [s EXCEPT !.mem.task[g] = q]
<1>1. Good(s) /\ s.mem \in Memory /\ s.mem.generation = g /\ g \in Generations
  BY NowFacts, SectionFacts DEF Lands, Moves, Controls, Owns
<1>2. Retains(s, t) /\ t.mem = [s.mem EXCEPT !.task = [@ EXCEPT ![g] = q]]
  BY <1>1, TaskRetains
<1>3. Atomic(t, proc)
  BY DEF Run
<1> HIDE DEF t
<1>4. /\ Clocks(t.mem) = Clocks(s.mem) /\ t.mem.generation = g
      /\ t.mem.task = [s.mem.task EXCEPT ![g] = q] /\ s.mem.task \in [Generations -> Points]
  BY <1>1, <1>2 DEF Memory, Clocks
<1>5. t.mem.task[t.mem.generation] = q
  BY <1>1, <1>4
<1>6. Good(t) /\ t.db = s.db /\ t.log = s.log
  BY <1>2 DEF Retains
<1>7. Lands(t, db.test, worked, Dark, p)
  BY <1>4, <1>6, SameLands
<1>8. Lands(t, db.test, worked, Dark, q)
  BY <1>6, <1>7, PointLands
<1> QED BY <1>3, <1>5, <1>6, <1>8, LandedClock

(* Each step of a task lands where its methods do.                         *)
LEMMA DispatchClock ==
  ASSUME IInv, ControlInv, ClockInv, NEW g \in Generations, Dispatch(g), Observe(FALSE, FALSE)
  PROVE  ClockInv'
<1>1. proc # "down" /\ Owns(g) /\ mem.task[g] = "dispatch" /\ mem.task[g] # "none"
  BY DEF Dispatch, At
<1> DEFINE p == mem.task[g]
<1>2. /\ proc = "up" /\ HistoryInv /\ Keeps(Now, Now) /\ db.test \in Tests
      /\ Accounts(Now, worked, Dark, p) /\ Now.db = db /\ Now.mem = mem
      /\ mem.phase = RowOf(db) /\ worked \in TestTimes /\ Dark \in OutageTimes
      /\ db.state = "running_snapshot" => mem.anchor # NONE
      /\ OfItsKind(db)
  BY <1>1, OwnerReady
<1> HIDE DEF p
<1>3. CASE db.state = "running_snapshot" /\ Run(g, FinishActive(Now), "dispatch")
  <2>1. Lands(FinishActive(Now), db.test, worked, Dark, p)
    BY <1>2, <1>3, FinishActiveLands DEF Active
  <2>2. Moves(Now, FinishActive(Now), FinalFace)
    BY <1>2, MethodMoves
  <2> QED BY <1>1, <1>2, <1>3, <2>1, <2>2, RunClock DEF Points, StreamPoints
<1>4. CASE db.state \in Resting /\ Run(g, TransitionError(Now), "dispatch")
  <2>1. Lands(TransitionError(Now), db.test, worked, Dark, p)
    BY <1>2, <1>4, TransitionErrorLands DEF Resumable
  <2>2. Moves(Now, TransitionError(Now), ErrorFace)
    BY <1>2, MethodMoves
  <2> QED BY <1>1, <1>2, <1>4, <2>1, <2>2, RunClock DEF Points, StreamPoints
<1>5. ASSUME NEW q \in {"battery", "stream", "recovery_battery", "none"}, Run(g, Now, q),
             q = "stream" => db.state = "running_stream"
      PROVE  ClockInv'
  <2>1. Lands(Now, db.test, worked, Dark, p) /\ Moves(Now, Now, Face(db))
    BY <1>2, AccountsLands, NowMoves
  <2>2. q \in Points
    BY DEF Points
  <2>3. q \in StreamPoints => IsStream(db.test) /\ db.state = "running_stream"
    BY <1>2, <1>5, KindFacts DEF StreamPoints
  <2> QED BY <1>1, <1>2, <1>5, <2>1, <2>2, <2>3, RunClock
<1> QED BY <1>3, <1>4, <1>5 DEF Dispatch

LEMMA SnapshotStepClock ==
  ASSUME IInv, ControlInv, ClockInv, NEW g \in Generations, SnapshotStep(g),
         Observe(FALSE, FALSE)
  PROVE  ClockInv'
<1>1. proc # "down" /\ Owns(g) /\ mem.task[g] # "none" /\ mem.task[g] \in SnapshotPoints
  BY DEF SnapshotStep, SnapshotLoop, BatteryRead, BatteryFailed, Attempt, Captured,
         CaptureFailed, Checkpoint, At, SnapshotPoints
<1> DEFINE p == mem.task[g]
<1>2. /\ proc = "up" /\ HistoryInv /\ Good(Now) /\ Keeps(Now, Now) /\ db.test \in Tests
      /\ Accounts(Now, worked, Dark, p) /\ Now.db = db /\ Now.mem = mem
      /\ mem.phase = RowOf(db) /\ worked \in TestTimes /\ Dark \in OutageTimes
      /\ db.state = "running_snapshot" => mem.anchor # NONE
      /\ db.state \in {"running_snapshot", "stopped_error"}
      /\ db.state \in Active \cup {"stopped_error"} /\ db.state # "completed"
      /\ db.state \in Resumable \cup {"stopped_error"}
  BY <1>1, OwnerReady, FaceFacts DEF PointFits, Active, Resumable
<1> HIDE DEF p
<1>3. \A q \in SnapshotPoints \cup {"dispatch"} : q \in Points /\ q \notin StreamPoints
  BY DEF SnapshotPoints, Points, StreamPoints
<1>4. ASSUME NEW s, Lands(s, db.test, worked, Dark, p), NEW f, Moves(Now, s, f),
             NEW q \in SnapshotPoints \cup {"dispatch"}, Run(g, s, q)
      PROVE  ClockInv'
  BY <1>1, <1>2, <1>3, <1>4, RunClock
<1>5. Lands(Now, db.test, worked, Dark, p) /\ Moves(Now, Now, Face(db))
  BY <1>2, AccountsLands, NowMoves
<1>6. /\ Lands(FinishActive(Now), db.test, worked, Dark, p)
      /\ Moves(Now, FinishActive(Now), FinalFace)
  BY <1>2, FinishActiveLands, MethodMoves
<1>7. /\ Lands(NoteFailure(Now), db.test, worked, Dark, p)
      /\ \E f : Moves(Now, NoteFailure(Now), f)
  BY <1>2, NoteFailureLands, MethodMoves
<1> DEFINE s == NoteSuccess(Now)
<1>8. /\ Accounts(s, worked, Dark, p) /\ s.db = db /\ s.mem.phase = mem.phase
      /\ s.mem.anchor = mem.anchor /\ Keeps(Now, s)
  BY <1>2, NoteSuccessAccounts, NoteSuccessKeeps
<1> HIDE DEF s
<1>9. Lands(s, db.test, worked, Dark, p) /\ Moves(Now, s, Face(db))
  BY <1>2, <1>8, AccountsLands, KeepsMoves
<1>10. db.state \in Active => /\ Lands(TransitionLowBattery(s), db.test, worked, Dark, p)
                              /\ Moves(Now, TransitionLowBattery(s), LowFace)
  BY <1>2, <1>8, TransitionLowBatteryLands, MethodMoves
<1> DEFINE c == CheckpointActive(Now)
<1>11. Accounts(c, worked, Dark, p) /\ Saves(Now, c) /\ Keeps(Now, c)
  BY <1>2, CheckpointActiveAccounts, CheckpointActiveKeeps
<1> HIDE DEF c
<1>12. Lands(c, db.test, worked, Dark, p) /\ Moves(Now, c, Face(db))
  <2>1. c.db.test = db.test /\ c.db.state = db.state
    BY <1>2, <1>11 DEF Saves, Place
  <2>2. c.db.state = "running_snapshot" => c.mem.anchor # NONE
    BY <1>2, <1>11, <2>1 DEF Saves
  <2> QED BY <1>2, <1>11, <2>1, <2>2, AccountsLands, KeepsMoves
<1>13. CASE SnapshotLoop(g)
  BY <1>4, <1>5, <1>6, <1>13 DEF SnapshotLoop, SnapshotPoints
<1>14. ASSUME NEW reading, BatteryRead(g, reading)
       PROVE  ClockInv'
  BY <1>4, <1>9, <1>10, <1>14 DEF BatteryRead, SnapshotPoints, s
<1>15. CASE BatteryFailed(g)
  BY <1>4, <1>7, <1>15 DEF BatteryFailed, SnapshotPoints
<1>16. CASE Attempt(g)
  BY <1>4, <1>5, <1>16 DEF Attempt, SnapshotPoints
<1>17. CASE Captured(g)
  BY <1>4, <1>9, <1>17 DEF Captured, SnapshotPoints, s
<1>18. CASE CaptureFailed(g)
  BY <1>4, <1>7, <1>18 DEF CaptureFailed, SnapshotPoints
<1>19. CASE Checkpoint(g)
  BY <1>4, <1>5, <1>12, <1>19 DEF Checkpoint, SnapshotPoints, c
<1> QED BY <1>13, <1>14, <1>15, <1>16, <1>17, <1>18, <1>19 DEF SnapshotStep

LEMMA RecoveryStepClock ==
  ASSUME IInv, ControlInv, ClockInv, NEW g \in Generations, RecoveryStep(g),
         Observe(FALSE, FALSE)
  PROVE  ClockInv'
<1>1. proc # "down" /\ Owns(g) /\ mem.task[g] # "none" /\ mem.task[g] \in RecoveryPoints
  BY DEF RecoveryStep, RecoveryLoop, RecoveryRead, RecoveryReadFailed, At, RecoveryPoints
<1> DEFINE p == mem.task[g]
<1>2. /\ proc = "up" /\ HistoryInv /\ Good(Now) /\ Keeps(Now, Now) /\ db.test \in Tests
      /\ Accounts(Now, worked, Dark, p) /\ Now.db = db /\ Now.mem = mem
      /\ mem.phase = RowOf(db) /\ worked \in TestTimes /\ Dark \in OutageTimes
      /\ db.state \in Resting /\ db.state \notin Active /\ db.state \in Resumable
      /\ db.state # "running_snapshot"
  BY <1>1, OwnerReady, FaceFacts DEF PointFits, Active, Resting, Resumable
<1> HIDE DEF p
<1>3. \A q \in RecoveryPoints \cup {"dispatch"} : q \in Points /\ q \notin StreamPoints
  BY DEF RecoveryPoints, Points, StreamPoints
<1>4. ASSUME NEW s, NEW r, Lands(s, db.test, worked, Dark, r), NEW f, Moves(Now, s, f),
             NEW q \in RecoveryPoints \cup {"dispatch"}, Run(g, s, q)
      PROVE  ClockInv'
  BY <1>1, <1>2, <1>3, <1>4, RunClock
<1>5. Lands(Now, db.test, worked, Dark, p) /\ Moves(Now, Now, Face(db))
  BY <1>2, AccountsLands, NowMoves
<1>6. /\ Lands(TransitionError(Now), db.test, worked, Dark, p)
      /\ Moves(Now, TransitionError(Now), ErrorFace)
  BY <1>2, TransitionErrorLands, MethodMoves
<1> DEFINE s == NoteSuccess(Now)
           e == EndPhase(s, "completed")
<1>7. Accounts(s, worked, Dark, p) /\ s.db = db /\ s.mem.phase = mem.phase /\ Keeps(Now, s)
  BY <1>2, NoteSuccessAccounts, NoteSuccessKeeps
<1> HIDE DEF s
<1>8. Lands(s, db.test, worked, Dark, p) /\ Moves(Now, s, Face(db))
  BY <1>2, <1>7, AccountsLands, KeepsMoves
<1>9. /\ Lands(TransitionLowDuringRecovery(s), db.test, worked, Dark, p)
      /\ Moves(Now, TransitionLowDuringRecovery(s), LowFace)
  BY <1>2, <1>7, TransitionLowDuringRecoveryLands, MethodMoves
<1>10. /\ Accounts(e, worked, Dark, p) /\ Place(e.db) = Place(db)
       /\ Good(e) /\ e.mem.phase = NONE /\ Quiet(s, e)
  BY <1>2, <1>7, EndPhaseAccounts, EndPhaseGood DEF Accounts
<1> HIDE DEF e
<1>11. /\ Lands(AdvanceAfterRecovery(e), db.test, worked, Dark, "dispatch")
       /\ Moves(Now, AdvanceAfterRecovery(e), NextFace)
  <2>1. e.db.test = db.test /\ "dispatch" \notin StreamPoints
    BY <1>10 DEF Place, StreamPoints
  <2>2. Quiet(Now, e)
    BY <1>7, <1>10, NowFacts, QuietTransitive DEF Keeps
  <2> QED BY <1>2, <1>10, <2>1, <2>2, AdvanceAfterRecoveryLands, AdvanceMoves
<1>12. CASE RecoveryLoop(g)
  BY <1>4, <1>5, <1>6, <1>12 DEF RecoveryLoop, RecoveryPoints
<1>13. ASSUME NEW reading, RecoveryRead(g, reading)
       PROVE  ClockInv'
  <2>1. \/ Run(g, TransitionLowDuringRecovery(s), "dispatch")
        \/ Run(g, AdvanceAfterRecovery(e), "dispatch")
        \/ Run(g, s, "recovery")
    BY <1>13 DEF RecoveryRead, s, e
  <2> QED BY <1>4, <1>8, <1>9, <1>11, <2>1 DEF RecoveryPoints
<1>14. CASE RecoveryReadFailed(g)
  BY <1>4, <1>5, <1>14 DEF RecoveryReadFailed, RecoveryPoints
<1> QED BY <1>12, <1>13, <1>14 DEF RecoveryStep

LEMMA StreamStepClock ==
  ASSUME IInv, ControlInv, ClockInv, NEW g \in Generations, StreamStep(g),
         Observe(FALSE, FALSE)
  PROVE  ClockInv'
<1>1. proc # "down" /\ Owns(g) /\ mem.task[g] # "none" /\ mem.task[g] \in StreamPoints
  BY DEF StreamStep, StreamOutageEnds, StreamFinished, StreamLoop, StreamBatteryRead,
         StreamBatteryFailed, StreamTaskEnded, StreamIsLive, StreamExit, At, StreamPoints
<1> DEFINE p == mem.task[g]
<1>2. /\ proc = "up" /\ HistoryInv /\ Good(Now) /\ Keeps(Now, Now) /\ db.test \in Tests
      /\ Accounts(Now, worked, Dark, p) /\ Now.db = db /\ Now.mem = mem
      /\ mem.phase = RowOf(db) /\ worked \in TestTimes /\ Dark \in OutageTimes
      /\ db.state = "running_snapshot" => mem.anchor # NONE
      /\ IsStream(db.test) /\ p \in StreamPoints
      /\ p = "stream" => db.state = "running_stream"
  BY <1>1, OwnerReady, FaceFacts DEF PointFits
<1>3. CASE StreamExit(g)
  <2>1. Lands(Now, db.test, worked, Dark, p) /\ Moves(Now, Now, Face(db))
    BY <1>2, AccountsLands, NowMoves
  <2> QED BY <1>1, <1>2, <1>3, <2>1, RunClock DEF StreamExit, Points, StreamPoints
<1>4. CASE p = "stream"
  <2> HIDE DEF p
  <2>1. /\ db.state = "running_stream" /\ db.state \in Active
        /\ db.state \in Resumable \cup {"stopped_error"}
        /\ db.state \notin {"completed", "running_snapshot"}
    BY <1>2, <1>4 DEF Active, Resumable
  <2> DEFINE s == Turn
  <2>2. /\ Accounts(s, worked, Dark, p) /\ Place(s.db) = Place(db) /\ Keeps(Now, s)
    BY <1>2, <2>1, RefreshStreamOutageAccounts, RefreshStreamOutageKeeps DEF Turn
  <2> HIDE DEF s
  <2>3. /\ s.db.state = db.state /\ s.db.test = db.test /\ s.mem.phase = mem.phase
        /\ RowOf(s.db) = RowOf(db)
    BY <1>2, <2>2 DEF Keeps, RowOf
  \* What the turn leaves of the experiment is still of the stream test.
  <2>4. ASSUME NEW t, Lands(t, db.test, worked, Dark, p), NEW f, Moves(Now, t, f),
               f[2] = db.test, NEW q \in StreamPoints, Run(g, t, q)
        PROVE  ClockInv'
    <3>1. t.db.test = db.test /\ q \in Points
      BY <2>4, FaceFacts DEF Moves, StreamPoints, Points
    <3> QED BY <1>1, <1>2, <2>4, <3>1, RunClock
  <2>5. ASSUME NEW t, Accounts(t, worked, Dark, p), Keeps(Now, t), Run(g, t, "stream")
        PROVE  ClockInv'
    <3>1. t.db.test = db.test /\ t.db.state = db.state /\ Moves(Now, t, Face(db))
      BY <2>5, KeepsMoves
    <3>2. Lands(t, db.test, worked, Dark, p)
      BY <1>2, <2>1, <2>5, <3>1, AccountsLands
    <3> QED BY <2>4, <2>5, <3>1, <3>2, FaceFacts DEF StreamPoints
  <2>6. /\ Lands(TransitionError(s), db.test, worked, Dark, p)
        /\ Moves(Now, TransitionError(s), ErrorFace) /\ ErrorFace[2] = db.test
    BY <1>2, <2>1, <2>2, <2>3, TransitionErrorLands, MethodMoves DEF ErrorFace
  <2>7. /\ Lands(FinishActive(s), db.test, worked, Dark, p)
        /\ Moves(Now, FinishActive(s), FinalFace) /\ FinalFace[2] = db.test
    BY <1>2, <2>1, <2>2, <2>3, FinishActiveLands, MethodMoves DEF FinalFace
  <2>8. /\ Lands(NoteFailure(s), db.test, worked, Dark, p)
        /\ \E f : Moves(Now, NoteFailure(s), f) /\ f[2] = db.test
    <3>1. Lands(NoteFailure(s), db.test, worked, Dark, p)
      BY <1>2, <2>1, <2>2, <2>3, NoteFailureLands
    <3>2. Moves(Now, NoteFailure(s), ErrorFace) \/ Moves(Now, NoteFailure(s), Face(db))
      BY <1>2, <2>2, MethodMoves
    <3>3. ErrorFace[2] = db.test /\ Face(db)[2] = db.test
      BY FaceFacts DEF ErrorFace
    <3> QED BY <3>1, <3>2, <3>3
  <2> DEFINE c == CheckpointActive(s)
             o == StartStreamOutage(s, 0)
             n == NoteSuccess(s)
  <2>9. Accounts(c, worked, Dark, p) /\ Keeps(Now, c)
    BY <1>2, <2>1, <2>2, <2>3, CheckpointActiveAccounts, CheckpointActiveKeeps, KeepsTransitive
       DEF Keeps
  <2>10. Accounts(o, worked, Dark, p) /\ Keeps(Now, o)
    <3>1. 0 \in Nat /\ Cap(0, FatalOutage) <= Dark
      BY <1>2, TimeFacts DEF Cap
    <3>2. Good(s)
      BY <2>2 DEF Keeps
    <3>3. Keeps(s, o)
      BY <3>2, StartStreamOutageKeeps
    <3>4. Accounts(o, worked, Dark, p)
      BY <1>2, <2>2, <2>3, <3>1, StartStreamOutageAccounts
    <3> QED BY <2>2, <3>3, <3>4, KeepsTransitive
  <2>11. /\ Accounts(n, worked, Dark, p) /\ Keeps(Now, n)
         /\ n.db = s.db /\ n.mem.phase = s.mem.phase
    BY <2>2, NoteSuccessAccounts, NoteSuccessKeeps, KeepsTransitive DEF Keeps
  <2> HIDE DEF c, o, n
  <2>12. /\ Lands(TransitionLowBattery(n), db.test, worked, Dark, p)
         /\ Moves(Now, TransitionLowBattery(n), LowFace) /\ LowFace[2] = db.test
    BY <1>2, <2>1, <2>3, <2>11, TransitionLowBatteryLands, MethodMoves DEF LowFace
  <2>13. CASE StreamOutageEnds(g)
    BY <2>4, <2>6, <2>13 DEF StreamOutageEnds, StreamPoints, s
  <2>14. CASE StreamFinished(g)
    BY <2>4, <2>7, <2>14 DEF StreamFinished, StreamPoints, s
  <2>15. CASE StreamLoop(g)
    BY <2>2, <2>5, <2>9, <2>15 DEF StreamLoop, c, s
  <2>16. ASSUME NEW reading, StreamBatteryRead(g, reading)
         PROVE  ClockInv'
    <3>1. Run(g, TransitionLowBattery(n), "stream_exit") \/ Run(g, n, "stream")
      BY <2>16 DEF StreamBatteryRead, n, s
    <3> QED BY <2>4, <2>5, <2>11, <2>12, <3>1 DEF StreamPoints
  <2>17. CASE StreamBatteryFailed(g)
    <3>1. PICK q \in StreamPoints : Run(g, NoteFailure(s), q)
      BY <2>17 DEF StreamBatteryFailed, StreamPoints, s
    <3> QED BY <2>4, <2>8, <3>1
  <2>18. CASE StreamTaskEnded(g)
    BY <2>5, <2>10, <2>18 DEF StreamTaskEnded, o, s
  <2> QED BY <1>3, <2>13, <2>14, <2>15, <2>16, <2>17, <2>18 DEF StreamStep
<1>5. p # "stream" => StreamExit(g)
  BY DEF StreamStep, StreamOutageEnds, StreamFinished, StreamLoop, StreamBatteryRead,
         StreamBatteryFailed, StreamTaskEnded, StreamIsLive, At
<1> QED BY <1>3, <1>4, <1>5

(* Callbacks and status requests.                                          *)
LEMMA OnErrorClock ==
  ASSUME IInv, ControlInv, ClockInv, NEW g \in Generations, OnError(g), Observe(FALSE, FALSE)
  PROVE  ClockInv'
<1> DEFINE p == mem.task[g]
           t == NoteStreamError(Now)
<1>1. proc # "down" /\ Owns(g) /\ p # "none" /\ p \in StreamPoints /\ Atomic(t, proc)
  BY DEF OnError, StreamTaskAlive, At, StreamPoints
<1>2. /\ proc = "up" /\ HistoryInv /\ Good(Now) /\ Current = p
      /\ Accounts(Now, worked, Dark, p) /\ Now.db = db /\ Now.mem = mem
      /\ worked \in TestTimes /\ Dark \in OutageTimes /\ IsStream(db.test)
      /\ OfItsKind(db)
  BY <1>1, OwnerReady
<1> HIDE DEF p
<1>3. Accounts(t, worked, Dark, p) /\ Place(t.db) = Place(db) /\ Keeps(Now, t)
  BY <1>1, <1>2, NoteStreamErrorAccounts, NoteStreamErrorKeeps
<1> HIDE DEF t
<1>4. /\ t.db.test = db.test /\ t.db.state # "running_snapshot"
      /\ t.mem.task[t.mem.generation] = p
  BY <1>2, <1>3, KindFacts DEF Place, Keeps, Quiet, Moves, Controls, Current
<1>5. Lands(t, db.test, worked, Dark, p)
  BY <1>2, <1>3, <1>4, AccountsLands
<1> QED BY <1>1, <1>2, <1>4, <1>5, LandedClock

(* A status request may begin an outage, at the last byte.                 *)
LEMMA GetStatusClock ==
  ASSUME IInv, ControlInv, ClockInv, GetStatus, Observe(FALSE, FALSE)
  PROVE  ClockInv'
<1> DEFINE t == RefreshStreamOutage(Now)
<1>1. proc = "up" /\ db.state = "running_stream" /\ Atomic(t, proc)
  BY DEF GetStatus
<1>2. /\ Good(Now) /\ HistoryInv /\ Accounts(Now, worked, Dark, Current)
      /\ Now.db = db /\ Now.mem = mem
      /\ worked \in TestTimes /\ Dark \in OutageTimes /\ OfItsKind(db)
  BY <1>1, ReadyFacts DEF Accounts, IInv
<1>3. Accounts(t, worked, Dark, Current) /\ Place(t.db) = Place(db) /\ Keeps(Now, t)
  BY <1>1, <1>2, RefreshStreamOutageAccounts, RefreshStreamOutageKeeps
<1> HIDE DEF t
<1>4. /\ t.db.test = db.test /\ t.db.state = "running_stream" /\ IsStream(db.test)
      /\ t.mem.task[t.mem.generation] = Current
  BY <1>1, <1>2, <1>3, KindFacts DEF Place, Keeps, Quiet, Moves, Controls, Current
<1>5. Lands(t, db.test, worked, Dark, Current)
  BY <1>2, <1>3, <1>4, AccountsLands
<1> QED BY <1>1, <1>2, <1>4, <1>5, LandedClock

(* Bytes end the silence as well as the outage.                            *)
LEMMA OnBytesClock ==
  ASSUME IInv, ControlInv, ClockInv, NEW g \in Generations, OnBytes(g), Observe(FALSE, TRUE),
         DataInv'
  PROVE  ClockInv'
<1> DEFINE p == mem.task[g]
           t == NoteStreamBytes(Now)
<1>1. proc # "down" /\ Owns(g) /\ p # "none" /\ p \in StreamPoints /\ Atomic(t, proc)
  BY DEF OnBytes, StreamTaskAlive, At, StreamPoints
<1>2. /\ proc = "up" /\ HistoryInv /\ Good(Now) /\ Current = p
      /\ Accounts(Now, worked, Dark, p) /\ Now.db = db /\ Now.mem = mem
      /\ worked \in TestTimes /\ Dark \in OutageTimes /\ IsStream(db.test)
      /\ OfItsKind(db) /\ db.state \notin Parked
  BY <1>1, OwnerReady
<1> HIDE DEF p
<1>3. /\ Accounts(t, worked, Dark, p) /\ Place(t.db) = Place(db) /\ Keeps(Now, t)
      /\ ~t.db.outActive /\ t.mem.lastBytes = 0
  BY <1>1, <1>2, NoteStreamBytesAccounts, NoteStreamBytesKeeps
<1> HIDE DEF t
<1>4. /\ t.db.test = db.test /\ t.db.state # "running_snapshot"
      /\ t.mem.task[t.mem.generation] = p
  BY <1>2, <1>3, KindFacts DEF Place, Keeps, Quiet, Moves, Controls, Current
<1>5. Lands(t, db.test, worked, Dark, p)
  BY <1>2, <1>3, <1>4, AccountsLands
<1>6. CASE db' = t.db /\ mem' = t.mem /\ proc' = proc
  <2> DEFINE v == Spent(t.db, db.test, worked)
  <2>1. worked' = v /\ Dark' = 0
    BY <1>2, <1>6 DEF Observe, Spent, Dark
  <2>2. OfItsKind(t.db) /\ Accounted(t.db, v, Dark) /\ Clocked(t, v, Dark, p)
    BY <1>5 DEF Lands
  <2> HIDE DEF v
  <2>3. Accounted(t.db, v, 0)
    BY <1>3, <2>2 DEF Accounted, Counted
  <2>4. Cap(0, FatalOutage) <= 0
    BY TimeFacts DEF Cap
  <2>5. Clocked(t, v, 0, p)
    BY <1>3, <2>2, <2>4 DEF Clocked
  <2> QED BY <1>2, <1>4, <1>6, <2>1, <2>2, <2>3, <2>5, CommitClock
<1>7. CASE \E d \in t.log : db' = d /\ mem' = NewMemory /\ proc' = "down"
  <2>1. db' \in Disk /\ Accounted(db', worked, Dark)
    BY <1>7, <1>5, SectionFacts DEF Lands, RowsAccount, Section
  <2>2. db.state # "stopped_manual"
    BY <1>2 DEF Parked
  <2> QED BY <1>1, <1>2, <1>7, <2>1, <2>2, CrashClock
<1> QED BY <1>1, <1>6, <1>7 DEF Atomic

-----------------------------------------------------------------------------
(* The controls and the process.                                           *)

(* The new task starts with the clocks as they are.                        *)
LEMMA StartRunnerClocks ==
  ASSUME NEW s, Good(s)
  PROVE  LET t == StartRunner(s) IN
         Good(t) /\ t.db = s.db /\ t.log = s.log /\ Clocks(t.mem) = Clocks(s.mem)
<1> DEFINE g == s.mem.generation
           t == [s EXCEPT !.mem.task[g] = "dispatch"]
<1>1. s.mem \in Memory /\ g \in Generations
  BY SectionFacts DEF Memory
<1>2. Retains(s, t) /\ t.mem = [s.mem EXCEPT !.task = [@ EXCEPT ![g] = "dispatch"]]
  BY <1>1, TaskRetains DEF Points
<1>3. StartRunner(s) \in {s, t}
  BY DEF StartRunner
<1> HIDE DEF t
<1>4. Clocks(t.mem) = Clocks(s.mem)
  BY <1>1, <1>2 DEF Memory, Clocks
<1> QED BY <1>2, <1>3, <1>4 DEF Retains

(* The time shown while no anchor is set is the time of the rows.          *)
LEMMA StillFacts ==
  ASSUME NEW w \in TestTimes, NEW k, NEW p, NEW s, Good(s), Clocked(s, w, k, p),
         s.mem.anchor = NONE
  PROVE  ~IsStream(s.db.test) /\ s.db.state # "completed" => s.db.elapsed = w
<1>1. s.db.elapsed \in Nat /\ s.db.elapsed <= TestDuration /\ TestDuration \in Nat
  BY Numbers, TimeFacts
<1>2. Since(s.mem.anchor) = 0 /\ Cap(s.db.elapsed + 0, TestDuration) = s.db.elapsed
  BY <1>1 DEF Since, Cap
<1> QED BY <1>2 DEF Clocked

(* A parked run begins its test again where it was.                        *)
LEMMA StartActiveClock ==
  ASSUME IInv, ControlInv, ClockInv, StartNew \/ ResumeActive, Observe(FALSE, FALSE)
  PROVE  ClockInv'
<1> DEFINE d == [db EXCEPT !.state = ActiveState(db.test), !.deadline = NONE,
                           !.reason = "none", !.origin = NONE]
           s == Write(Now, d)
           t == BeginActive(s, FALSE)
           z == StartRunner(t)
<1>1. proc = "up" /\ db.state \in Parked /\ db.state \notin Resumable /\ Atomic(z, proc)
  BY DEF StartNew, ResumeActive, Parked, Resumable, Active, Resting
<1>2. /\ Good(Now) /\ db \in Disk /\ mem \in Memory /\ mem.phase = NONE /\ db.test \in Tests
      /\ HistoryInv
  BY <1>1, RunningFacts, IdleFacts, SectionFacts DEF Disk, IInv, DataInv
<1>3. /\ Accounted(db, worked, Dark) /\ Clocked(Now, worked, Dark, Current)
      /\ Now.db = db /\ Now.mem = mem
      /\ worked \in TestTimes /\ Dark \in OutageTimes /\ mem.anchor = NONE
  BY <1>1, HistoryFacts, NowFacts DEF ClockInv, UpInv, Clocked, Parked, IInv
<1>4. ~IsStream(db.test) => db.elapsed = worked
  BY <1>1, <1>2, <1>3, StillFacts DEF Parked
<1>5. /\ d \in Disk /\ d.open = db.open /\ d.orphans = db.orphans /\ d.state \in Active
      /\ d.state \notin Resting /\ d.state = ActiveState(db.test) /\ d.test = db.test
      /\ d.elapsed = db.elapsed /\ d.outActive = db.outActive
      /\ d.outSeconds = db.outSeconds /\ d.outChecked = db.outChecked
  BY <1>2, TypeFacts, ActiveStateFacts DEF Disk, Reasons
<1> HIDE DEF d
<1>6. /\ Good(s) /\ s.mem.phase = NONE /\ s.db = d /\ s.mem = mem /\ s.log = {db}
  BY <1>2, <1>5, FreeWrite, NowFacts DEF Write, Now
<1> HIDE DEF s
<1>7. /\ db.elapsed <= worked
      /\ db.outActive => IsStream(db.test) /\ db.outChecked # NONE /\ db.outSeconds <= Dark
      /\ db.state = "not_started" => ~IsStream(db.test)
  BY <1>1, <1>3 DEF Accounted, Timed, Counted, Parked
<1>8. "dispatch" \notin StreamPoints /\ FALSE \in BOOLEAN
  BY DEF StreamPoints
<1>9. OfItsKind(d)
  BY <1>5 DEF OfItsKind
<1>10. /\ Good(t) /\ OfItsKind(t.db) /\ Accounted(t.db, worked, Dark)
       /\ Clocked(t, worked, Dark, "dispatch") /\ Place(t.db) = Place(d)
       /\ t.db.state = "running_snapshot" => t.mem.anchor # NONE
       /\ Records(s, t, worked, Dark)
  BY <1>3, <1>4, <1>5, <1>6, <1>7, <1>8, <1>9, BeginActiveClocks
<1>11. Controls(t.mem) = Controls(mem)
  BY <1>5, <1>6, BeginActiveSettles DEF Moves
<1> HIDE DEF t
<1>12. Good(z) /\ z.db = t.db /\ z.log = t.log /\ Clocks(z.mem) = Clocks(t.mem)
  BY <1>10, StartRunnerClocks
<1>13. z.mem.task[z.mem.generation] = "dispatch"
  <2>1. /\ t.mem.generation = mem.generation /\ t.mem.task = mem.task
        /\ t.mem.call = mem.call
    BY <1>11 DEF Controls
  <2>2. Ordered(t.mem) /\ t.mem.task[t.mem.generation] = "none"
    BY <1>1, <2>1, FaceFacts DEF ControlInv, Ordered, PointFits, Current
  <2> QED BY <1>10, <2>2, StartRunnerFacts
<1> HIDE DEF z
<1>14. CASE db' = z.db /\ mem' = z.mem /\ proc' = proc
  <2>1. /\ z.db.state \in Active /\ z.db.test = db.test /\ z.db.state = d.state
        /\ z.mem.anchor = t.mem.anchor
    BY <1>5, <1>10, <1>12 DEF Place, Clocks
  <2>2. z.db.state \notin Resting \cup {"not_started", "completed"}
    BY <2>1 DEF Active, Resting
  <2>3. worked' = worked /\ (IsStream(z.db.test) => Dark' = Dark)
    BY <1>1, <1>14, <2>1, <2>2 DEF Observe, Dark
  <2>4. Clocked(z, worked, Dark, "dispatch")
    BY <1>10, <1>12, SameClocked
  <2> QED BY <1>1, <1>8, <1>10, <1>12, <1>13, <1>14, <2>1, <2>3, <2>4, CommitClock
<1>15. CASE \E e \in z.log : db' = e /\ mem' = NewMemory /\ proc' = "down"
  <2> DEFINE k == IF db.state = "stopped_manual" /\ db'.state = "running_stream"
                  THEN FatalOutage ELSE Dark
  <2>1. db' \in Disk
    BY <1>12, <1>15, SectionFacts DEF Section
  <2>2. k \in OutageTimes /\ Dark <= k /\ worked <= worked
    BY <1>2, HistoryFacts
  <2>3. db' = d => Counted(d, k)
    <3>1. d.outChecked # NONE => d.outSeconds + d.outChecked \in Nat
      BY <1>5, TimeFacts, TypeFacts DEF Disk, OutageTimes, OrNone
    <3>2. d.outChecked # NONE => Cap(d.outSeconds + d.outChecked, FatalOutage) <= FatalOutage
      BY <3>1, TimeFacts DEF Cap
    <3>3. d.state = "running_stream" <=> IsStream(db.test)
      BY <1>5 DEF ActiveState
    <3>4. db.outActive => db.state = "stopped_manual"
      BY <1>1, <1>7 DEF Parked
    <3>5. d.outSeconds <= FatalOutage
      BY <1>5, TimeFacts DEF Disk, OutageTimes
    <3> QED BY <1>5, <1>7, <3>2, <3>3, <3>4, <3>5 DEF Counted
  <2> HIDE DEF k
  <2>4. db' \in {db, d} \/ Accounted(db', worked, Dark)
    BY <1>6, <1>10, <1>12, <1>15 DEF Records
  <2>5. Marked(d) /\ Timed(d, worked)
    BY <1>5, <1>7 DEF Marked, Timed, Rests, Active, Resting
  <2>6. Accounted(db', worked, k)
    <3>1. CASE db' = d
      BY <1>3, <2>1, <2>2, <2>3, <2>5, <3>1, MoreAccounted DEF Accounted
    <3>2. CASE Accounted(db', worked, Dark)
      BY <1>3, <2>1, <2>2, <3>2, MoreAccounted
    <3> QED BY <1>3, <2>4, <3>1, <3>2
  <2> QED BY <1>1, <1>2, <1>15, <2>1, <2>6, CrashClock DEF k
<1> QED BY <1>1, <1>14, <1>15 DEF Atomic

(* A rest goes on with the deadline that the stop kept.                    *)
LEMMA ResumeRecoveryClock ==
  ASSUME IInv, ControlInv, ClockInv, ResumeRecovery, Observe(FALSE, FALSE)
  PROVE  ClockInv'
<1> DEFINE d == [db EXCEPT !.state = db.origin, !.origin = NONE,
                   !.reason = IF db.origin = "recovery" THEN "none" ELSE "low_battery"]
           s == Write(Now, d)
           t == BeginRecoveryPhase(s)
           z == StartRunner(t)
<1>1. /\ proc = "up" /\ db.state = "stopped_manual" /\ db.state \notin Resumable
      /\ db.origin \in Resting /\ db.deadline # NONE /\ Atomic(z, proc)
  BY DEF ResumeRecovery, Resumable, Active, Resting
<1>2. /\ Good(Now) /\ db \in Disk /\ mem \in Memory /\ mem.phase = NONE /\ db.test \in Tests
      /\ HistoryInv
  BY <1>1, RunningFacts, IdleFacts, SectionFacts DEF Disk, IInv, DataInv
<1>3. /\ Accounts(Now, worked, Dark, Current) /\ Accounted(db, worked, Dark)
      /\ Clocked(Now, worked, Dark, Current)
      /\ Now.db = db /\ Now.mem = mem /\ Now.log = {}
      /\ worked \in TestTimes /\ Dark \in OutageTimes
  BY <1>1, ReadyFacts, NowFacts DEF Accounts, RowsAccount, IInv
<1>4. /\ db.finished[db.test] > 0 /\ db.elapsed = 0 /\ mem.anchor = NONE
  BY <1>1, <1>3 DEF Accounted, Marked, Timed, Rests, Clocked
<1>5. /\ d \in Disk /\ d.open = db.open /\ d.orphans = db.orphans /\ d.state \in Resting
      /\ d.deadline # NONE /\ d.test = db.test /\ d.finished = db.finished
      /\ d.outSeconds = db.outSeconds /\ d.outActive = db.outActive
      /\ d.outChecked = db.outChecked /\ d.elapsed = db.elapsed
      /\ d.state \notin Active \cup {"not_started"}
  BY <1>1, <1>2, TypeFacts DEF Disk, Reasons, Resting, States, Resumable, Active
<1> HIDE DEF d
<1>6. /\ Lands(s, db.test, worked, Dark, Current) /\ s.db = d /\ s.mem = mem
      /\ s.mem.phase = NONE
  BY <1>1, <1>2, <1>3, <1>4, <1>5, TurnLands
<1> HIDE DEF s
<1>7. Lands(t, db.test, worked, Dark, Current)
  BY <1>5, <1>6, BeginRecoveryPhaseLands
<1>8. Controls(t.mem) = Controls(mem)
  BY <1>5, <1>6, BeginRecoveryPhaseSettles DEF Lands, Quiet, Moves
<1> HIDE DEF t
<1>9. Good(z) /\ z.db = t.db /\ z.log = t.log /\ Clocks(z.mem) = Clocks(t.mem)
  BY <1>7, StartRunnerClocks DEF Lands
<1>10. z.mem.task[z.mem.generation] = "dispatch"
  <2>1. /\ t.mem.generation = mem.generation /\ t.mem.task = mem.task
        /\ t.mem.call = mem.call
    BY <1>8 DEF Controls
  <2>2. Ordered(t.mem) /\ t.mem.task[t.mem.generation] = "none"
    BY <1>1, <2>1, FaceFacts DEF ControlInv, Ordered, PointFits, Current, Parked
  <2> QED BY <1>7, <2>2, StartRunnerFacts DEF Lands
<1> HIDE DEF z
<1>11. Lands(z, db.test, worked, Dark, Current)
  BY <1>7, <1>9, SameLands
<1>12. "dispatch" \notin StreamPoints
  BY DEF StreamPoints
<1>13. Lands(z, db.test, worked, Dark, "dispatch")
  BY <1>11, <1>12, PointLands
<1> QED BY <1>1, <1>2, <1>10, <1>12, <1>13, LandedClock

(* What stop() and shutdown() have in common: the runner is detached and   *)
(* its phase closed, with the time of a test saved first.                  *)
LEMMA DetachClocks ==
  ASSUME IInv, ControlInv, ClockInv, proc = "up", CanDetach
  PROVE  LET s == DetachRunner(Now) IN
         /\ Accounts(s, worked, Dark, "none") /\ s.db = db /\ s.log = {}
         /\ s.mem.phase = mem.phase /\ s.mem.anchor = mem.anchor
         /\ Clocks(s.mem) = Clocks(mem)
         /\ s.mem.task[s.mem.generation] = "none"
         /\ \A c \in Callers : s.mem.call[c] # s.mem.generation
         /\ Ordered(s.mem)
<1> DEFINE s == DetachRunner(Now)
<1>1. /\ Good(Now) /\ Now.db = db /\ Now.mem = mem /\ Now.log = {} /\ mem \in Memory
      /\ Accounts(Now, worked, Dark, Current)
  BY RunningFacts, ReadyFacts, NowFacts DEF IInv, DataInv
<1>2. /\ Retains(Now, s) /\ s.mem.task[s.mem.generation] = "none"
      /\ \A c \in Callers : s.mem.call[c] # s.mem.generation
      /\ Ordered(s.mem)
  BY <1>1, DetachFacts DEF IInv
<1>3. s.mem = [mem EXCEPT !.generation = @ + 1]
  BY <1>1, DetachRunnerRetains DEF CanDetach
<1> HIDE DEF s
<1>4. Clocks(s.mem) = Clocks(mem) /\ s.mem.anchor = mem.anchor
  BY <1>1, <1>3 DEF Memory, Clocks
<1>5. Good(s) /\ s.db = db /\ s.log = {} /\ s.mem.phase = mem.phase
  BY <1>1, <1>2 DEF Retains
<1>6. Accounts(s, worked, Dark, Current)
  BY <1>1, <1>4, <1>5, SameAccounts DEF Accounts, RowsAccount, Accounted
<1>7. Accounts(s, worked, Dark, "none")
  BY <1>6 DEF Accounts, Clocked, StreamPoints
<1> QED BY <1>2, <1>4, <1>5, <1>7 DEF s

(* The last checkpoint before a test is left takes the anchor away.        *)
LEMMA SaveClocks ==
  ASSUME NEW w \in TestTimes, NEW k \in OutageTimes, NEW p, NEW s, Accounts(s, w, k, p),
         s.db.state # "completed"
  PROVE  LET t == [CheckpointActive(s) EXCEPT !.mem.anchor = NONE] IN
         /\ Accounts(t, w, k, p) /\ Keeps(s, t)
         /\ Place(t.db) = Place(s.db) /\ t.mem.anchor = NONE
         /\ t.db.state = "running_stream" => t.mem.valid = 0
<1> DEFINE c == CheckpointActive(s)
           t == [c EXCEPT !.mem.anchor = NONE]
<1>1. Accounts(c, w, k, p) /\ Saves(s, c) /\ Keeps(s, c)
  BY CheckpointActiveAccounts, CheckpointActiveKeeps DEF Accounts
<1> HIDE DEF c
<1>2. c.mem.anchor \in {0, NONE} /\ Good(c)
  BY <1>1 DEF Saves, Accounts
<1>3. /\ Accounts(t, w, k, p) /\ t.db = c.db /\ t.mem.anchor = NONE
      /\ t.mem.valid = c.mem.valid
  BY <1>1, <1>2, DropAnchorAccounts
<1>4. Keeps(c, t)
  BY <1>2, AnchorKeeps, TypeFacts
<1> HIDE DEF t
<1>5. Keeps(s, t)
  BY <1>1, <1>4, KeepsTransitive
<1> QED BY <1>1, <1>3, <1>5 DEF Saves, t, c

(* A stop keeps in the rows what the test or the rest had.                 *)
LEMMA StopClock ==
  ASSUME IInv, ControlInv, ClockInv, Stop, Observe(FALSE, FALSE)
  PROVE  ClockInv'
<1> DEFINE s == DetachRunner(Now)
           u == IF db.state \in Active
                THEN [CheckpointActive(s) EXCEPT !.mem.anchor = NONE] ELSE s
           t == EndPhase(u, "manual_stop")
           d == [t.db EXCEPT !.state = "stopped_manual", !.reason = "manual",
                             !.origin = db.state,
                             !.deadline = IF db.state \in Resting THEN @ ELSE NONE]
           v == Write(t, d)
<1>1. /\ proc = "up" /\ CanDetach /\ db.state \in Resumable /\ Atomic(v, proc)
      /\ db.state \notin {"completed", "stopped_manual", "stopped_error", "not_started"}
  BY DEF Stop, Resumable, Active, Resting
<1>2. /\ Accounts(s, worked, Dark, "none") /\ s.db = db
      /\ s.mem.anchor = mem.anchor
      /\ s.mem.task[s.mem.generation] = "none"
  BY <1>1, DetachClocks
<1> HIDE DEF s
<1>3. worked \in TestTimes /\ Dark \in OutageTimes /\ HistoryInv
  BY HistoryFacts DEF IInv
<1>4. /\ Accounts(u, worked, Dark, "none") /\ Keeps(s, u)
      /\ Place(u.db) = Place(db) /\ u.mem.anchor = NONE
  <2>1. CASE db.state \in Active
    BY <1>1, <1>2, <1>3, <2>1, SaveClocks
  <2>2. CASE db.state \notin Active
    <3>1. s.mem.anchor = NONE
      BY <1>2, <2>2 DEF Accounts, Clocked, Active
    <3> QED BY <1>2, <2>2, <3>1, KeepsSame DEF Accounts
  <2> QED BY <2>1, <2>2
<1> HIDE DEF u
<1>5. /\ Accounts(t, worked, Dark, "none") /\ Good(t) /\ t.mem.phase = NONE
      /\ t.db \in Disk /\ Quiet(s, t) /\ t.mem.anchor = NONE
      /\ Place(t.db) = Place(db)
  <2>1. /\ Accounts(t, worked, Dark, "none") /\ Place(t.db) = Place(u.db)
        /\ Clocks(t.mem) = Clocks(u.mem)
    BY <1>4, EndPhaseAccounts
  <2>2. Good(t) /\ t.mem.phase = NONE /\ Quiet(u, t)
    BY <1>4, EndPhaseGood DEF Accounts
  <2> QED BY <1>4, <2>1, <2>2, SectionFacts, QuietTransitive DEF Clocks, Keeps
<1> HIDE DEF t
<1>6. /\ t.db.state = db.state /\ t.db.test = db.test
      /\ Marked(t.db) /\ Timed(t.db, worked)
  BY <1>5 DEF Place, Accounts, RowsAccount, Accounted
<1>7. /\ d \in Disk /\ d.state = "stopped_manual" /\ d.origin = db.state /\ d.test = t.db.test
      /\ d.open = t.db.open /\ d.orphans = t.db.orphans /\ d.finished = t.db.finished
      /\ d.outSeconds = t.db.outSeconds /\ d.outActive = t.db.outActive
      /\ d.outChecked = t.db.outChecked /\ d.elapsed = t.db.elapsed
  BY <1>1, <1>5, TypeFacts DEF Disk, States, Reasons
<1> HIDE DEF d
<1>8. /\ Rests(d) => Rests(t.db)
      /\ d.state \notin Active \cup {"not_started"} /\ d.state \notin Resting
  BY <1>6, <1>7 DEF Rests, Active, Resting
<1>9. Rests(d) => d.finished[d.test] > 0 /\ d.elapsed = 0
  BY <1>6, <1>7, <1>8 DEF Marked, Timed
<1>10. Lands(v, db.test, worked, Dark, "none") /\ v.mem = t.mem
  BY <1>1, <1>3, <1>5, <1>6, <1>7, <1>8, <1>9, TurnLands
<1> HIDE DEF v
<1>11. v.mem.task[v.mem.generation] = "none" /\ "none" \notin StreamPoints
  BY <1>2, <1>5, <1>10 DEF Quiet, Moves, Controls, StreamPoints
<1> QED BY <1>1, <1>3, <1>10, <1>11, LandedClock

(* What is left of the time when the run stays in its state.               *)
LEMMA StayFacts ==
  ASSUME NEW w \in TestTimes, NEW d, NEW n, NEW k, d.test = n, Accounted(d, w, k)
  PROVE  /\ Spent(d, n, w) \in TestTimes /\ Accounted(d, Spent(d, n, w), k)
         /\ (d.state # "completed" => d.elapsed = w) =>
              (d.state # "completed" => d.elapsed = Spent(d, n, w))
<1>1. CASE d.state \in Resting \cup {"not_started"}
  <2>1. Spent(d, n, w) = 0 /\ d.elapsed = 0
    BY <1>1 DEF Spent, Accounted, Timed, Rests
  <2> QED BY <1>1, <2>1, TypeFacts DEF Accounted, Timed
<1>2. CASE d.state = "completed"
  BY <1>2, TypeFacts DEF Spent, Accounted, Timed, Rests, Resting
<1>3. CASE d.state \notin Resting \cup {"not_started", "completed"}
  BY <1>3 DEF Spent
<1> QED BY <1>1, <1>2, <1>3

(* A section that ends the work of the process.                            *)
LEMMA ClosingClock ==
  ASSUME HistoryInv, proc = "up", NEW s, NEW q, Accounts(s, worked, Dark, q),
         s.db.test = db.test,
         s.mem.anchor = NONE, s.db.state = "running_stream" => s.mem.valid = 0,
         s.mem.task[s.mem.generation] = "none",
         \A c \in Callers : s.mem.call[c] # s.mem.generation,
         Atomic(s, "closing"), Observe(FALSE, FALSE)
  PROVE  ClockInv'
<1>1. CASE db' = s.db /\ mem' = s.mem /\ proc' = "closing"
  <2> DEFINE v == Spent(s.db, db.test, worked)
  <2>1. worked' = v
    BY <1>1, HistoryFacts, TypeFacts DEF Observe, Spent
  <2>2. IsStream(s.db.test) => Dark' = Dark
    BY <1>1 DEF Observe, Dark
  <2>3. Good(s) /\ Accounted(s.db, worked, Dark) /\ Clocked(s, worked, Dark, q)
    BY DEF Accounts, RowsAccount
  <2>4. ~IsStream(s.db.test) /\ s.db.state # "completed" => s.db.elapsed = worked
    BY <2>3, HistoryFacts, StillFacts
  <2>5. /\ Accounted(s.db, v, Dark)
        /\ ~IsStream(s.db.test) /\ s.db.state # "completed" => s.db.elapsed = v
    BY <2>3, <2>4, HistoryFacts, StayFacts
  <2> HIDE DEF v
  <2>6. s.db.outActive /\ s.mem.outStarted # NONE => s.mem.outStarted = s.db.outChecked
    BY <2>3 DEF Clocked
  <2>7. Idle'
    BY <1>1, <2>1, <2>5, <2>6, IdleAfter
  <2>8. Accounted(db', worked', Dark')
    BY <1>1, <2>1, <2>2, <2>5 DEF Accounted, Counted
  <2>9. Current' = "none" /\ \A c \in Callers : mem'.call[c] # mem'.generation
    BY <1>1 DEF Current
  <2> QED BY <1>1, <2>7, <2>8, <2>9, AccountedAfter DEF ClockInv
<1>2. CASE \E d \in s.log : db' = d /\ mem' = NewMemory /\ proc' = "down"
  <2> DEFINE k == IF db.state = "stopped_manual" /\ db'.state = "running_stream"
                  THEN FatalOutage ELSE Dark
  <2>1. db' \in Disk /\ Accounted(db', worked, Dark)
    BY <1>2, SectionFacts DEF Accounts, RowsAccount, Section
  <2>2. k \in OutageTimes /\ Dark <= k /\ worked <= worked
    BY HistoryFacts
  <2>3. Accounted(db', worked, k)
    BY <2>1, <2>2, HistoryFacts, MoreAccounted
  <2> QED BY <1>2, <2>1, <2>3, CrashClock
<1> QED BY <1>1, <1>2 DEF Atomic

(* A shutdown saves the running test and ends its phase.                   *)
LEMMA ShutdownClock ==
  ASSUME IInv, ControlInv, ClockInv, Shutdown, Observe(FALSE, FALSE)
  PROVE  ClockInv'
<1> DEFINE s == DetachRunner(Now)
           u == [CheckpointActive(s) EXCEPT !.mem.anchor = NONE]
           t == EndPhase(u, "paused_shutdown")
           v == IF db.state \in Active THEN t ELSE s
<1>1. proc = "up" /\ CanDetach /\ Atomic(v, "closing")
  BY DEF Shutdown
<1>2. /\ Accounts(s, worked, Dark, "none") /\ s.db = db
      /\ s.mem.anchor = mem.anchor
      /\ s.mem.task[s.mem.generation] = "none"
      /\ \A c \in Callers : s.mem.call[c] # s.mem.generation
  BY <1>1, DetachClocks
<1> HIDE DEF s
<1>3. worked \in TestTimes /\ Dark \in OutageTimes /\ HistoryInv
  BY HistoryFacts DEF IInv
<1>4. /\ Accounts(v, worked, Dark, "none") /\ Quiet(s, v)
      /\ Place(v.db) = Place(db) /\ v.mem.anchor = NONE
      /\ v.db.state = "running_stream" => v.mem.valid = 0
  <2>1. CASE db.state \in Active
    <3>1. db.state # "completed"
      BY <2>1 DEF Active
    <3>2. /\ Accounts(u, worked, Dark, "none") /\ Keeps(s, u)
          /\ Place(u.db) = Place(db) /\ u.mem.anchor = NONE
          /\ u.db.state = "running_stream" => u.mem.valid = 0
      BY <1>2, <1>3, <3>1, SaveClocks
    <3> HIDE DEF u
    <3>3. /\ Accounts(t, worked, Dark, "none") /\ Place(t.db) = Place(u.db)
          /\ Clocks(t.mem) = Clocks(u.mem) /\ Quiet(u, t)
      BY <3>2, EndPhaseAccounts, EndPhaseGood DEF Accounts
    <3> HIDE DEF t
    <3>4. Quiet(s, t)
      BY <3>2, <3>3, QuietTransitive DEF Keeps
    <3>5. t.db.state = u.db.state /\ t.mem.anchor = u.mem.anchor /\ t.mem.valid = u.mem.valid
      BY <3>3 DEF Place, Clocks
    <3> QED BY <2>1, <3>2, <3>3, <3>4, <3>5
  <2>2. CASE db.state \notin Active
    <3>1. s.mem.anchor = NONE /\ db.state # "running_stream"
      BY <1>2, <2>2 DEF Accounts, Clocked, Active
    <3>2. Quiet(s, s)
      BY <1>2, KeepsSame DEF Accounts, Keeps
    <3> QED BY <1>2, <2>2, <3>1, <3>2
  <2> QED BY <2>1, <2>2
<1> HIDE DEF v
<1>5. /\ v.db.test = db.test /\ v.mem.task[v.mem.generation] = "none"
      /\ \A c \in Callers : v.mem.call[c] # v.mem.generation
  BY <1>2, <1>4 DEF Place, Quiet, Moves, Controls
<1> QED BY <1>1, <1>3, <1>4, <1>5, ClosingClock

(* A step that moves no clock.                                             *)
LEMMA RetainsClock ==
  ASSUME IInv, ControlInv, ClockInv, proc # "down",
         NEW t, Retains(Now, t), Clocks(t.mem) = Clocks(mem),
         t.mem.task[t.mem.generation] = Current,
         proc = "closing" => \A c \in Callers : t.mem.call[c] # t.mem.generation,
         Atomic(t, proc), Observe(FALSE, FALSE)
  PROVE  ClockInv'
<1>1. /\ proc \in {"up", "closing"} /\ HistoryInv /\ worked \in TestTimes
      /\ Good(t) /\ t.db = db /\ t.log = {}
      /\ Now.db = db /\ Now.mem = mem
  BY HistoryFacts, NowFacts DEF IInv, DataInv, Processes, Retains
<1>2. CASE proc = "up"
  <2>1. /\ Accounts(Now, worked, Dark, Current) /\ Marked(db)
        /\ db.state = "running_snapshot" => mem.anchor # NONE
        /\ Current \in StreamPoints => IsStream(db.test)
    BY <1>1, <1>2, ReadyFacts DEF Accounts, RowsAccount, Accounted
  <2>2. Accounts(t, worked, Dark, Current) /\ t.mem.anchor = mem.anchor
    BY <1>1, <2>1, SameAccounts DEF Clocks
  <2>3. Lands(t, db.test, worked, Dark, Current)
    BY <1>1, <2>1, <2>2, AccountsLands
  <2> QED BY <1>1, <1>2, <2>1, <2>3, LandedClock
<1>3. CASE proc = "closing"
  <2>1. db' = db /\ mem' = t.mem /\ proc' = "closing"
    BY <1>1, <1>3 DEF Atomic
  <2>2. /\ Idle /\ Accounted(db, worked, Dark) /\ Current = "none"
    BY <1>3 DEF ClockInv
  <2>3. worked' = Spent(db, db.test, worked)
    BY <2>1 DEF Observe, Spent
  <2>4. IsStream(db.test) => Dark' = Dark
    BY <1>3, <2>1 DEF Observe, Dark
  <2>5. /\ mem'.anchor = mem.anchor /\ mem'.outStarted = mem.outStarted
        /\ mem'.valid = mem.valid
    BY <2>1 DEF Clocks
  <2>6. /\ Accounted(db, worked', Dark)
        /\ ~IsStream(db.test) /\ db.state # "completed" => db.elapsed = worked'
    BY <1>1, <2>2, <2>3, StayFacts DEF Idle
  <2>7. Idle'
    BY <2>1, <2>2, <2>5, <2>6, IdleAfter DEF Idle
  <2>8. Accounted(db', worked', Dark')
    BY <2>1, <2>4, <2>6 DEF Accounted, Counted
  <2>9. Current' = "none" /\ \A c \in Callers : mem'.call[c] # mem'.generation
    BY <1>3, <2>1, <2>2 DEF Current
  <2> QED BY <2>1, <2>7, <2>8, <2>9, AccountedAfter DEF ClockInv
<1> QED BY <1>1, <1>2, <1>3

LEMMA DetachedClock ==
  ASSUME IInv, ControlInv, ClockInv, NEW g \in Generations, Detached(g), Observe(FALSE, FALSE)
  PROVE  ClockInv'
<1> DEFINE point == IF mem.task[g] = "stream" THEN "stream_exit" ELSE "none"
           t == [Now EXCEPT !.mem.task[g] = point]
<1>1. proc # "down" /\ ~Owns(g) /\ Atomic(t, proc)
  BY DEF Detached, Run
<1>2. Good(Now) /\ mem \in Memory /\ point \in Points
  BY <1>1, RunningFacts DEF IInv, DataInv, Points
<1> HIDE DEF point
<1>3. Retains(Now, t) /\ t.mem = [mem EXCEPT !.task = [@ EXCEPT ![g] = point]]
  BY <1>2, TaskRetains, NowFacts
<1> HIDE DEF t
<1>4. /\ Clocks(t.mem) = Clocks(mem) /\ t.mem.generation = mem.generation
      /\ t.mem.call = mem.call
      /\ t.mem.task = [mem.task EXCEPT ![g] = point]
      /\ mem.task \in [Generations -> Points] /\ mem.generation \in Generations
  BY <1>2, <1>3 DEF Memory, Clocks
<1>5. t.mem.task[t.mem.generation] = Current
  BY <1>1, <1>4 DEF Owns, Current
<1>6. proc = "closing" => \A c \in Callers : t.mem.call[c] # t.mem.generation
  BY <1>4 DEF ClockInv
<1> QED BY <1>1, <1>3, <1>4, <1>5, <1>6, RetainsClock

LEMMA RequestClock ==
  ASSUME IInv, ControlInv, ClockInv, NEW c \in Callers,
         ContinueRequested(c) \/ ContinueRefused(c), Observe(FALSE, FALSE)
  PROVE  ClockInv'
<1>1. PICK g \in {mem.generation, NONE} :
        /\ Atomic([Now EXCEPT !.mem.call[c] = g], proc)
        /\ proc # "down" /\ (g # NONE => proc = "up")
  BY DEF ContinueRequested, ContinueRefused
<1>2. /\ Good(Now) /\ mem \in Memory /\ mem.generation \in Generations
  BY <1>1, RunningFacts DEF IInv, DataInv, Memory
<1>3. g \in OrNone(Generations) /\ NONE # mem.generation
  <2>1. g \in OrNone(Generations)
    BY <1>2, TypeFacts
  <2>2. NONE # mem.generation
    BY <1>2, NoneAssumption DEF Generations
  <2> QED BY <2>1, <2>2
<1> DEFINE t == [Now EXCEPT !.mem.call[c] = g]
<1>4. Retains(Now, t) /\ t.mem = [mem EXCEPT !.call = [@ EXCEPT ![c] = g]] /\ Atomic(t, proc)
  BY <1>1, <1>2, <1>3, CallRetains, NowFacts
<1> HIDE DEF t
<1>5. /\ Clocks(t.mem) = Clocks(mem) /\ t.mem.generation = mem.generation
      /\ t.mem.task = mem.task
      /\ t.mem.call = [mem.call EXCEPT ![c] = g]
      /\ mem.call \in [Callers -> OrNone(Generations)]
  BY <1>2, <1>4 DEF Memory, Clocks
<1>6. \A b \in Callers : t.mem.call[b] = IF b = c THEN g ELSE mem.call[b]
  BY <1>5
<1>7. t.mem.task[t.mem.generation] = Current
  BY <1>5 DEF Current
<1>8. proc = "closing" => \A b \in Callers : t.mem.call[b] # t.mem.generation
  BY <1>1, <1>3, <1>5, <1>6 DEF ClockInv
<1> QED BY <1>1, <1>4, <1>5, <1>7, <1>8, RetainsClock

(* A crash, or the exit after shutdown, leaves the rows as they are.       *)
LEMMA ExitClock ==
  ASSUME IInv, ClockInv, Exit, Observe(FALSE, FALSE)
  PROVE  ClockInv'
<1>1. proc # "down" /\ proc' = "down" /\ mem' = NewMemory /\ db' = db
  BY DEF Exit
<1>2. db \in Disk /\ HistoryInv /\ Accounted(db, worked, Dark)
  BY DEF IInv, DataInv, GoodDisk, ClockInv
<1> QED BY <1>1, <1>2, CrashClock

(* A new run begins at nothing; the rows it abandons keep what they had.   *)
LEMMA RestartedClocks ==
  ASSUME IInv, ControlInv, ClockInv, proc = "up", CanDetach
  PROVE  LET t == Restarted IN
         /\ Good(t) /\ OfItsKind(t.db) /\ Accounted(t.db, 0, Dark)
         /\ Clocked(t, 0, Dark, "dispatch")
         /\ t.db.state = "running_snapshot" => t.mem.anchor # NONE
         /\ \A e \in t.log : Accounted(e, worked, Dark)
<1> DEFINE s == DetachRunner(Now)
           u == IF db.state \in Active THEN CheckpointActive(s) ELSE s
           saved == EndPhase(u, "restarted")
           d == [saved.db EXCEPT !.state = "stopped_manual", !.reason = "restarted",
                                 !.origin = NONE, !.deadline = NONE]
           closed == IF db.state \in {"completed", "stopped_manual"} THEN s ELSE Write(saved, d)
           orphans == closed.db.orphans \/ \E r \in Rows : closed.db.open[r] > 0
           created == Write(closed, CreateRun(orphans))
           e == [created.db EXCEPT !.state = "running_snapshot"]
           begun == Write(created, e)
           fresh == ResetStreamTracking([begun EXCEPT !.mem.anchor = NONE, !.mem.outage = NONE])
           t == BeginActive(fresh, FALSE)
<1>1. Restarted = t
  BY DEF Restarted
<1>2. /\ Accounts(s, worked, Dark, "none") /\ Good(s) /\ s.db = db /\ s.log = {}
      /\ s.mem.phase = mem.phase /\ worked \in TestTimes /\ Dark \in OutageTimes
  BY DetachClocks, HistoryFacts DEF Accounts, IInv
<1> HIDE DEF s
<1>3. /\ Good(closed) /\ closed.mem.phase = NONE /\ RowsAccount(closed, worked, Dark)
  <2>1. CASE db.state \in {"completed", "stopped_manual"}
    BY <1>2, <2>1, IdleFacts DEF Resumable, Active, Resting, Accounts, IInv
  <2>2. CASE db.state \notin {"completed", "stopped_manual"}
    <3>1. Accounts(u, worked, Dark, "none") /\ Place(u.db) = Place(db)
      BY <1>2, <2>2, CheckpointActiveAccounts DEF Saves
    <3> HIDE DEF u
    <3>2. /\ Accounts(saved, worked, Dark, "none") /\ Place(saved.db) = Place(db)
          /\ Good(saved) /\ saved.mem.phase = NONE /\ saved.db \in Disk
      BY <3>1, EndPhaseAccounts, EndPhaseGood, SectionFacts DEF Accounts
    <3> HIDE DEF saved
    <3>3. Accounted(saved.db, worked, Dark) /\ saved.db.state = db.state
      BY <3>2 DEF Accounts, RowsAccount, Place
    <3>4. /\ d \in Disk /\ d.open = saved.db.open /\ d.orphans = saved.db.orphans
          /\ d.state = "stopped_manual" /\ d.origin = NONE /\ d.elapsed = saved.db.elapsed
          /\ d.outActive = saved.db.outActive /\ d.outSeconds = saved.db.outSeconds
          /\ d.outChecked = saved.db.outChecked /\ d.test = saved.db.test
      BY <3>2, TypeFacts DEF Disk, States, Reasons
    <3> HIDE DEF d
    <3>5. NONE \notin Resting
      BY NoneAssumption DEF States, Resumable
    <3>6. Accounted(d, worked, Dark)
      BY <2>2, <3>3, <3>4, <3>5 DEF Accounted, Marked, Timed, Counted, Rests, Resting
    <3>7. /\ Good(Write(saved, d)) /\ Write(saved, d).mem = saved.mem
          /\ Write(saved, d).db = d /\ Write(saved, d).log = saved.log \cup {saved.db}
      BY <3>2, <3>4, FreeWrite DEF Resting
    <3> QED BY <2>2, <3>2, <3>6, <3>7 DEF Accounts, RowsAccount
  <2> QED BY <2>1, <2>2
<1> HIDE DEF closed
<1>4. /\ Good(created) /\ created.mem.phase = NONE /\ created.db = CreateRun(FALSE)
      /\ created.db \in Disk /\ created.log = closed.log \cup {closed.db}
  BY <1>3, CreateRunGood, SectionFacts
<1> HIDE DEF created
<1>5. /\ created.db.state = "not_started" /\ created.db.test = 1 /\ created.db.elapsed = 0
      /\ ~created.db.outActive
  BY <1>4 DEF CreateRun
<1>6. /\ e \in Disk /\ e.open = created.db.open /\ e.orphans = created.db.orphans
      /\ e.state = "running_snapshot" /\ e.test = 1 /\ e.elapsed = 0 /\ ~e.outActive
  BY <1>4, <1>5 DEF Disk, States, Resumable, Active
<1> HIDE DEF e
<1>7. /\ Good(begun) /\ begun.mem.phase = NONE /\ begun.db = e
      /\ begun.log = created.log \cup {created.db}
  BY <1>4, <1>6, FreeWrite DEF Resting
<1> HIDE DEF begun
<1>8. fresh.db = e /\ fresh.log = begun.log /\ Good(fresh) /\ fresh.mem.phase = NONE
  <2> DEFINE v == [begun EXCEPT !.mem.anchor = NONE]
             w == [v EXCEPT !.mem.outage = NONE]
  <2>1. v.db = begun.db /\ v.log = begun.log /\ Keeps(begun, v) /\ v \in Section
    BY <1>7, AnchorKeeps, TypeFacts, SectionFacts DEF Section, Keeps
  <2>2. w.db = begun.db /\ w.log = begun.log /\ Keeps(v, w) /\ w \in Section
    BY <2>1, OutageKeeps, TypeFacts, SectionFacts DEF Section, Keeps
  <2>3. fresh = ResetStreamTracking(w)
    BY <1>7, SectionFacts DEF Section
  <2> HIDE DEF v, w
  <2>4. fresh.db = w.db /\ fresh.log = w.log
    BY <2>2, <2>3 DEF Section, ResetStreamTracking
  <2> HIDE DEF fresh
  <2>5. Keeps(w, fresh)
    BY <2>2, <2>3, ResetStreamTrackingKeeps DEF Keeps
  <2> QED BY <1>7, <2>1, <2>2, <2>4, <2>5 DEF Keeps
<1> HIDE DEF fresh
<1>9. /\ ~IsStream(1) /\ e.state \in Active /\ OfItsKind(e) /\ 0 \in TestTimes /\ 0 <= 0
      /\ "dispatch" \notin StreamPoints /\ FALSE \in BOOLEAN
  BY <1>6, TypeFacts, TestAssumption DEF IsStream, Active, OfItsKind, ActiveState, StreamPoints
<1>10. /\ Good(t) /\ OfItsKind(t.db) /\ Accounted(t.db, 0, Dark)
       /\ Clocked(t, 0, Dark, "dispatch")
       /\ t.db.state = "running_snapshot" => t.mem.anchor # NONE
       /\ Records(fresh, t, 0, Dark)
  BY <1>2, <1>6, <1>8, <1>9, BeginActiveClocks
<1> HIDE DEF t
<1>11. \A f \in t.log : f \in Disk
  BY <1>10, SectionFacts DEF Section
<1>12. /\ 0 <= worked /\ Dark <= Dark
  BY HistoryFacts DEF IInv
<1>13. Accounted(created.db, worked, Dark) /\ Accounted(e, worked, Dark)
  BY <1>5, <1>6, <1>9, <1>12 DEF Accounted, Marked, Timed, Counted, Rests, Resting
<1>14. \A f \in t.log : Accounted(f, worked, Dark)
  <2> TAKE f \in t.log
  <2>1. CASE f \in fresh.log \cup {fresh.db}
    BY <1>3, <1>4, <1>7, <1>8, <1>13, <2>1 DEF RowsAccount
  <2>2. CASE Accounted(f, 0, Dark)
    BY <1>2, <1>9, <1>11, <1>12, <2>2, MoreAccounted
  <2> QED BY <1>10, <2>1, <2>2 DEF Records
<1> QED BY <1>1, <1>10, <1>14

(* The new run begins, or a crash leaves one of the two runs.              *)
LEMMA RestartClock ==
  ASSUME IInv, ControlInv, ClockInv, Restart, Observe(TRUE, FALSE)
  PROVE  ClockInv'
<1> DEFINE s == DetachRunner(Now)
           t == Restarted
           z == StartRunner(t)
<1>1. proc = "up" /\ CanDetach /\ Atomic(z, proc)
  BY DEF Restart, Restarted
<1>2. /\ Good(t) /\ OfItsKind(t.db) /\ Accounted(t.db, 0, Dark)
      /\ Clocked(t, 0, Dark, "dispatch")
      /\ t.db.state = "running_snapshot" => t.mem.anchor # NONE
      /\ \A e \in t.log : Accounted(e, worked, Dark)
      /\ Face(t.db) = <<"running_snapshot", 1, NONE>>
      /\ Controls(t.mem) = Controls(s.mem)
  BY <1>1, RestartedClocks, RestartSettles DEF IInv
<1>3. s.mem.task[s.mem.generation] = "none" /\ Ordered(s.mem)
  BY <1>1, DetachClocks
<1> HIDE DEF s, t
<1>4. Good(z) /\ z.db = t.db /\ z.log = t.log /\ Clocks(z.mem) = Clocks(t.mem)
  BY <1>2, StartRunnerClocks
<1>5. z.mem.task[z.mem.generation] = "dispatch"
  <2>1. /\ t.mem.generation = s.mem.generation /\ t.mem.task = s.mem.task
        /\ t.mem.call = s.mem.call
    BY <1>2 DEF Controls
  <2>2. Ordered(t.mem) /\ t.mem.task[t.mem.generation] = "none"
    BY <1>3, <2>1 DEF Ordered
  <2> QED BY <1>2, <2>2, StartRunnerFacts
<1> HIDE DEF z
<1>6. /\ z.db.state = "running_snapshot" /\ z.db.test = 1 /\ ~IsStream(z.db.test)
      /\ "dispatch" \notin StreamPoints
  BY <1>2, <1>4, FaceFacts, TestAssumption DEF Face, IsStream, StreamPoints
<1>7. HistoryInv /\ worked \in TestTimes /\ Dark \in OutageTimes
  BY HistoryFacts DEF IInv
<1>8. CASE db' = z.db /\ mem' = z.mem /\ proc' = proc
  <2>1. worked' = 0
    BY <1>1, <1>6, <1>8 DEF Observe, Resting
  <2>2. Clocked(z, 0, Dark, "dispatch")
    BY <1>2, <1>4, SameClocked
  <2>3. z.mem.anchor = t.mem.anchor
    BY <1>4 DEF Clocks
  <2> QED BY <1>1, <1>2, <1>4, <1>5, <1>6, <1>8, <2>1, <2>2, <2>3, CommitClock
<1>9. CASE \E e \in z.log : db' = e /\ mem' = NewMemory /\ proc' = "down"
  <2> DEFINE k == IF db.state = "stopped_manual" /\ db'.state = "running_stream"
                  THEN FatalOutage ELSE Dark
  <2>1. db' \in Disk /\ Accounted(db', worked, Dark)
    BY <1>2, <1>4, <1>9, SectionFacts DEF Section
  <2>2. k \in OutageTimes /\ Dark <= k /\ worked <= worked
    BY <1>7, HistoryFacts
  <2>3. Accounted(db', worked, k)
    BY <1>7, <2>1, <2>2, MoreAccounted
  <2> HIDE DEF k
  <2> QED BY <1>1, <1>7, <1>9, <2>1, <2>3, CrashClock DEF k
<1> QED BY <1>1, <1>8, <1>9 DEF Atomic

(* The request holds the generation of the running process, which has not  *)
(* begun to close.                                                         *)
LEMMA ContinueClock ==
  ASSUME IInv, ControlInv, ClockInv, NEW c \in Callers, ContinueVerified(c),
         Observe(FALSE, FALSE)
  PROVE  ClockInv'
<1> DEFINE v == [Now EXCEPT !.mem.call[c] = NONE]
           u == DetachRunner(v)
           s == EndPhase(u, "continued_early")
           t == AdvanceAfterRecovery(s)
           z == IF t.db.state \in Active THEN StartRunner(t) ELSE t
           q == IF t.db.state \in Active THEN "dispatch" ELSE "none"
<1>1. /\ proc # "down" /\ CanDetach /\ mem.call[c] = mem.generation /\ Atomic(z, proc)
  BY DEF ContinueVerified, Owns
<1>2. proc = "up"
  BY <1>1 DEF ClockInv, IInv, DataInv, Processes
<1>3. /\ Accounts(Now, worked, Dark, Current) /\ Now.db = db /\ Now.mem = mem /\ Now.log = {}
      /\ worked \in TestTimes /\ Dark \in OutageTimes /\ Good(Now) /\ mem \in Memory
      /\ Marked(db) /\ HistoryInv
  BY <1>2, ReadyFacts, NowFacts DEF Accounts, RowsAccount, Accounted, IInv, DataInv
<1>4. /\ Good(v) /\ v.mem.generation = mem.generation /\ v.mem.task = mem.task
      /\ \A b \in Callers : v.mem.call[b] \in {mem.call[b], NONE}
      /\ v.db = db /\ v.log = {} /\ Clocks(v.mem) = Clocks(mem)
  <2>1. Retains(Now, v) /\ v.mem = [mem EXCEPT !.call = [@ EXCEPT ![c] = NONE]]
    BY <1>3, CallRetains, TypeFacts
  <2> HIDE DEF v
  <2>2. /\ v.mem.call = [mem.call EXCEPT ![c] = NONE]
        /\ mem.call \in [Callers -> OrNone(Generations)]
    BY <1>3, <2>1 DEF Memory
  <2> QED BY <1>3, <2>1, <2>2 DEF Retains, Memory, Clocks
<1> HIDE DEF v
<1>5. /\ Retains(v, u) /\ Ordered(u.mem) /\ u.mem.task[u.mem.generation] = "none"
      /\ u.mem = [v.mem EXCEPT !.generation = @ + 1] /\ v.mem \in Memory
  BY <1>1, <1>4, DetachFacts, DetachRunnerRetains, SectionFacts DEF CanDetach, IInv
<1> HIDE DEF u
<1>6. Good(u) /\ u.db = db /\ u.log = {} /\ Clocks(u.mem) = Clocks(mem)
  BY <1>4, <1>5 DEF Retains, Memory, Clocks
<1>7. Accounts(u, worked, Dark, Current)
  BY <1>3, <1>6, SameAccounts
<1>8. /\ Accounts(s, worked, Dark, Current) /\ s.mem.phase = NONE /\ Quiet(u, s)
      /\ s.db.test = db.test
  BY <1>6, <1>7, EndPhaseAccounts, EndPhaseGood
<1> HIDE DEF s
<1>9. q \notin StreamPoints
  BY DEF StreamPoints
<1>10. Lands(t, db.test, worked, Dark, q)
  <2>1. \A r : r \notin StreamPoints =>
               Lands(AdvanceAfterRecovery(s), s.db.test, worked, Dark, r)
    BY <1>3, <1>8, AdvanceAfterRecoveryLands
  <2> QED BY <1>8, <1>9, <2>1
<1>11. Controls(t.mem) = Controls(u.mem)
  BY <1>8, AdvanceAfterRecoverySettles DEF Accounts, Quiet, Moves
<1> HIDE DEF t
<1>12. Ordered(t.mem) /\ t.mem.task[t.mem.generation] = "none" /\ Good(t)
  BY <1>5, <1>10, <1>11 DEF Controls, Ordered, Lands
<1>13. /\ Good(z) /\ z.db = t.db /\ z.log = t.log /\ Clocks(z.mem) = Clocks(t.mem)
       /\ z.mem.task[z.mem.generation] = q
  BY <1>12, StartRunnerClocks, StartRunnerFacts
<1> HIDE DEF z, q
<1>14. Lands(z, db.test, worked, Dark, q)
  BY <1>10, <1>13, SameLands
<1> QED BY <1>1, <1>2, <1>3, <1>9, <1>13, <1>14, LandedClock

(* A new process finds in the rows the time worked and the outage; it may  *)
(* end again before it has begun.                                          *)
LEMMA InitializeClock ==
  ASSUME IInv, ControlInv, ClockInv, Initialize, Observe(FALSE, FALSE)
  PROVE  ClockInv'
<1> DEFINE boot == [db |-> db, mem |-> NewMemory, log |-> {}]
           left == {r \in Rows : db.open[r] > 0}
           row == CHOOSE r \in left : TRUE
           closed == IF left = {} THEN boot ELSE Write(boot, CloseRow(db, row, "interrupted"))
           begun == CASE db.state \in Active  -> BeginActive(closed, TRUE)
                      [] db.state \in Resting -> BeginRecoveryPhase(closed)
                      [] OTHER                -> closed
           t == IF db.state \in Resumable THEN StartRunner(begun) ELSE begun
           q == IF db.state \in Resumable THEN "dispatch" ELSE "none"
<1>1. proc = "down" /\ Atomic(t, "up")
  BY DEF Initialize
<1>2. /\ GoodDisk(db) /\ db \in Disk /\ OfItsKind(db) /\ Accounted(db, worked, Dark)
      /\ ~IsStream(db.test) /\ db.state # "completed" => db.elapsed = worked
      /\ worked \in TestTimes /\ Dark \in OutageTimes
      /\ worked \in Nat /\ worked <= TestDuration
  BY <1>1, FaceFacts, HistoryFacts
     DEF IInv, DataInv, GoodDisk, ControlInv, Sound, OfItsKind, ClockInv, Idle
<1>3. /\ Good(closed) /\ closed.mem = NewMemory /\ closed.log \subseteq {db}
      /\ Place(closed.db) = Place(db) /\ Sums(closed.db) = Sums(db)
      /\ Marked(closed.db)
      /\ db.state \notin Resumable => closed.log = {}
  <2>1. CASE left = {}
    <3>1. Good(boot)
      BY <1>2, <2>1, NewMemoryFacts, NoneAssumption DEF Good, Section
    <3> QED BY <1>2, <2>1, <3>1 DEF Accounted
  <2>2. CASE left # {}
    <3> DEFINE e == CloseRow(db, row, "interrupted")
    <3>1. row \in Rows /\ db.open[row] > 0
      BY <2>2
    <3> HIDE DEF row
    <3>2. /\ GoodDisk(e) /\ (\A r \in Rows : ~(e.open[r] > 0))
          /\ Place(e) = Place(db) /\ Sums(e) = Sums(db)
          /\ \A n \in Tests : db.finished[n] > 0 => e.finished[n] > 0
      BY <1>2, <3>1, CloseRowGood, CloseRowAccounted
    <3>3. closed = [db |-> e, mem |-> NewMemory, log |-> {db}]
      BY <2>2 DEF Write
    <3>4. db.state \in Resumable
      BY <1>2, <3>1, NoneAssumption DEF GoodDisk, RowOf, Resumable
    <3> HIDE DEF e, closed
    <3>5. Good(closed)
      BY <1>2, <3>2, <3>3, NewMemoryFacts, NoneAssumption DEF Good, Section, GoodDisk
    <3>6. Marked(e)
      <4>1. db.test \in Tests /\ Marked(db)
        BY <1>2 DEF Disk, Accounted
      <4>2. e.state = db.state /\ e.test = db.test /\ e.origin = db.origin
        BY <3>2 DEF Place
      <4> QED BY <3>2, <4>1, <4>2 DEF Marked, Rests
    <3> QED BY <3>2, <3>3, <3>4, <3>5, <3>6
  <2> QED BY <2>1, <2>2
<1> HIDE DEF closed
<1>4. /\ closed.db.state = db.state /\ closed.db.test = db.test
      /\ closed.db.elapsed = db.elapsed /\ closed.mem.phase = NONE
      /\ Accounted(closed.db, worked, Dark) /\ OfItsKind(closed.db)
      /\ RowsAccount(closed, worked, Dark)
  <2>1. Accounted(closed.db, worked, Dark)
    BY <1>2, <1>3, SameAccounted
  <2> QED BY <1>2, <1>3, <2>1, NewMemoryFacts DEF Place, Sums, OfItsKind, RowsAccount
<1>5. Clocked(closed, worked, Dark, q)
  <2>1. /\ closed.mem.anchor = NONE /\ closed.mem.valid = 0 /\ closed.mem.outStarted = NONE
        /\ closed.mem.lastBytes = NONE
    BY <1>3 DEF NewMemory
  <2>2. /\ db.elapsed \in Nat /\ db.elapsed <= TestDuration /\ TestDuration \in Nat
        /\ db.state # "completed" => db.elapsed <= worked
    BY <1>2, TimeFacts DEF Disk, Accounted, Timed
  <2>3. Cap(db.elapsed + 0, TestDuration) = db.elapsed
        /\ Cap(db.elapsed + 0 + 0, TestDuration) = db.elapsed
    BY <2>2 DEF Cap
  <2> QED BY <1>2, <1>4, <2>1, <2>2, <2>3 DEF Clocked, Since
<1>6. Accounts(closed, worked, Dark, q)
  BY <1>3, <1>4, <1>5 DEF Accounts
<1>7. q \notin StreamPoints
  BY DEF StreamPoints
<1>8. /\ Lands(begun, db.test, worked, Dark, q)
      /\ Controls(begun.mem) = Controls(NewMemory)
      /\ \A e \in begun.log : e.state = db.state /\ e.test = db.test
                              /\ (e.state \in Resting \/ e.elapsed = db.elapsed)
  <2>1. CASE db.state \in Active
    <3>1. begun = BeginActive(closed, TRUE)
      BY <2>1 DEF Active, Resting
    <3>2. /\ closed.db.elapsed <= worked
          /\ ~IsStream(closed.db.test) => closed.db.elapsed = worked
          /\ closed.db.outActive => IsStream(closed.db.test) /\ closed.db.outSeconds <= Dark
          /\ closed.db.outActive /\ closed.db.outChecked # NONE =>
               Cap(closed.db.outSeconds + closed.db.outChecked, FatalOutage) <= Dark
      BY <1>2, <1>4, <2>1 DEF Accounted, Timed, Counted, OfItsKind, ActiveState, Active
    <3>3. TRUE \in BOOLEAN
      OBVIOUS
    <3>4. /\ Good(begun) /\ OfItsKind(begun.db) /\ Accounted(begun.db, worked, Dark)
          /\ Clocked(begun, worked, Dark, q)
          /\ Place(begun.db) = Place(closed.db)
          /\ begun.db.state = "running_snapshot" => begun.mem.anchor # NONE
          /\ Records(closed, begun, worked, Dark)
      BY <1>2, <1>3, <1>4, <1>7, <2>1, <3>1, <3>2, <3>3, BeginActiveClocks
    <3>5. Moves(closed, begun, <<db.state, db.test, NONE>>)
      BY <1>3, <1>4, <2>1, <3>1, BeginActiveSettles
    <3> HIDE DEF begun, q
    <3>6. Spent(begun.db, db.test, worked) = worked
      BY <1>4, <2>1, <3>4 DEF Spent, Place, Active, Resting
    <3>7. RowsAccount(begun, worked, Dark)
      BY <1>4, <3>4 DEF RowsAccount, Records
    <3>8. \A e \in begun.log : e.elapsed = db.elapsed
      BY <1>3, <1>4, <3>4 DEF Records
    <3>9. \A e \in begun.log : e.state = db.state /\ e.test = db.test
      <4> TAKE e \in begun.log
      <4>1. CASE e \in closed.log \cup {closed.db}
        BY <1>3, <1>4, <4>1
      <4>2. CASE Face(e) \in {Face(closed.db), <<db.state, db.test, NONE>>}
        BY <1>4, <4>2 DEF Face
      <4> QED BY <3>5, <4>1, <4>2 DEF Moves
    <3>10. Controls(begun.mem) = Controls(NewMemory)
      BY <1>3, <3>5 DEF Moves
    <3> QED BY <3>4, <3>6, <3>7, <3>8, <3>9, <3>10 DEF Lands
  <2>2. CASE db.state \notin Active
    <3>1. Lands(closed, db.test, worked, Dark, q)
      <4>1. closed.db.state # "running_snapshot"
        BY <1>4, <2>2 DEF Active
      <4> QED BY <1>2, <1>4, <1>6, <4>1, AccountsLands
    <3> HIDE DEF q
    <3>2. CASE db.state \in Resting
      <4>1. begun = BeginRecoveryPhase(closed)
        BY <2>2, <3>2
      <4> HIDE DEF begun
      <4>2. Lands(begun, db.test, worked, Dark, q) /\ Quiet(closed, begun)
        BY <1>3, <1>4, <3>1, <3>2, <4>1, BeginRecoveryPhaseLands, BeginRecoveryPhaseSettles
      <4>3. \A e \in begun.log : e.state = db.state /\ e.test = db.test
        <5> TAKE e \in begun.log
        <5>1. CASE e \in closed.log \cup {closed.db}
          BY <1>3, <1>4, <5>1
        <5>2. CASE Face(e) = Face(closed.db)
          BY <1>4, <5>2 DEF Face
        <5> QED BY <4>2, <5>1, <5>2 DEF Quiet, Moves
      <4> QED BY <1>3, <3>2, <4>2, <4>3 DEF Quiet, Moves
    <3>3. CASE db.state \notin Resting
      <4>1. begun = closed /\ closed.log = {}
        BY <1>3, <2>2, <3>3 DEF Resumable
      <4> QED BY <1>3, <3>1, <4>1
    <3> QED BY <3>2, <3>3
  <2> QED BY <2>1, <2>2
<1> HIDE DEF begun
<1>9. Ordered(begun.mem) /\ begun.mem.task[begun.mem.generation] = "none" /\ Good(begun)
  <2>1. 0 \in Generations /\ NONE # 0
    BY BoundAssumption, NoneAssumption DEF Generations
  <2> QED BY <1>8, <2>1 DEF Controls, NewMemory, Ordered, Lands
<1>10. /\ Good(t) /\ t.db = begun.db /\ t.log = begun.log
       /\ Clocks(t.mem) = Clocks(begun.mem) /\ t.mem.task[t.mem.generation] = q
  BY <1>9, StartRunnerClocks, StartRunnerFacts
<1> HIDE DEF t, q
<1>11. Lands(t, db.test, worked, Dark, q)
  BY <1>8, <1>10, SameLands
<1>12. worked' = Spent(db', db.test, worked)
  BY <1>1 DEF Observe, Spent
<1>13. IsStream(db'.test) => Dark' = Dark
  BY <1>1 DEF Observe, Dark
<1>14. CASE db' = t.db /\ mem' = t.mem /\ proc' = "up"
  <2> DEFINE v == Spent(t.db, db.test, worked)
  <2>1. /\ OfItsKind(t.db) /\ Accounted(t.db, v, Dark) /\ Clocked(t, v, Dark, q)
        /\ t.db.state = "running_snapshot" => t.mem.anchor # NONE
        /\ worked' = v /\ (IsStream(t.db.test) => Dark' = Dark)
    BY <1>11, <1>12, <1>13, <1>14 DEF Lands
  <2> HIDE DEF v
  <2> QED BY <1>7, <1>10, <1>14, <2>1, CommitClock
<1>15. CASE \E e \in t.log : db' = e /\ mem' = NewMemory /\ proc' = "down"
  <2>1. /\ Accounted(db', worked, Dark) /\ db'.state = db.state /\ db'.test = db.test
        /\ db'.state \in Resting \/ db'.elapsed = db.elapsed
    BY <1>8, <1>10, <1>11, <1>15 DEF Lands, RowsAccount
  <2>2. Accounted(db', worked', Dark)
    BY <1>2, <1>12, <2>1, StayFacts
  <2>3. Accounted(db', worked', Dark')
    BY <1>13, <2>2 DEF Accounted, Counted
  <2>4. ~IsStream(db'.test) /\ db'.state # "completed" => db'.elapsed = worked'
    <3>1. CASE db'.state \in Resting
      BY <1>12, <2>1, <3>1 DEF Accounted, Timed, Rests, Spent
    <3>2. CASE db'.elapsed = db.elapsed
      BY <1>2, <1>12, <2>1, <3>2, StayFacts
    <3> QED BY <2>1, <3>1, <3>2
  <2>5. mem'.anchor = NONE /\ mem'.valid = 0 /\ mem'.outStarted = NONE /\ mem' = NewMemory'
    BY <1>15 DEF NewMemory
  <2>6. Idle' /\ Accounted(db, worked, Dark)'
    BY <2>3, <2>4, <2>5, IdleAfter, AccountedAfter
  <2> QED BY <1>15, <2>5, <2>6 DEF ClockInv
<1> QED BY <1>1, <1>14, <1>15 DEF Atomic

-----------------------------------------------------------------------------
(* Time.                                                                   *)
LEMMA TickSums ==
  ASSUME NEW top \in Nat, NEW a \in Nat, NEW b \in Nat
  PROVE  Cap(a + Cap(b + 1, top), top) = Cap(Cap(a + b, top) + 1, top)
BY DEF Cap

LEMMA CapGrows ==
  ASSUME NEW top \in Nat, NEW a \in Nat, NEW w \in Nat, a <= w
  PROVE  Cap(a + 1, top) <= Cap(w + 1, top)
BY DEF Cap

(* A unit of time ages every instant, counts for the test that runs, and   *)
(* for the silence of a stream that is not stopped.                        *)
LEMMA TickFacts ==
  ASSUME IInv, Tick
  PROVE  /\ Place(db') = Place(db) /\ db'.finished = db.finished
         /\ db'.elapsed = db.elapsed /\ db'.outSeconds = db.outSeconds
         /\ db'.outActive = db.outActive /\ db'.outChecked = Older(db.outChecked, FatalOutage)
         /\ worked' = IF proc = "up" /\ db.state \in Active THEN Cap(worked + 1, TestDuration)
                      ELSE worked
         /\ worked' \in Nat /\ worked <= worked' /\ Dark' \in Nat /\ Dark <= Dark'
         /\ IsStream(db.test) /\ db.state # "stopped_manual" =>
              Cap(Dark + 1, FatalOutage) <= Dark'
         /\ proc' = proc
         /\ proc = "down" => mem' = mem
         /\ proc # "down" =>
              /\ mem'.anchor = Older(mem.anchor, TestDuration)
              /\ mem'.outStarted = Older(mem.outStarted, FatalOutage)
              /\ mem'.lastBytes = Older(mem.lastBytes, FatalOutage + 1)
              /\ mem'.valid = mem.valid
              /\ mem'.generation = mem.generation /\ mem'.task = mem.task
              /\ mem'.call = mem.call
<1>1. db \in Disk /\ mem \in Memory /\ HistoryInv
  BY DEF IInv, DataInv, GoodDisk
<1>2. /\ worked \in Nat /\ worked <= TestDuration /\ Dark \in Nat /\ Dark <= FatalOutage
      /\ TestDuration \in Nat /\ FatalOutage \in Nat
  BY <1>1, HistoryFacts, TimeFacts
<1>3. /\ Place(db') = Place(db) /\ db'.finished = db.finished
      /\ db'.elapsed = db.elapsed /\ db'.outSeconds = db.outSeconds
      /\ db'.outActive = db.outActive /\ db'.outChecked = Older(db.outChecked, FatalOutage)
  BY <1>1 DEF Tick, Disk, Place
<1>4. /\ proc' = proc /\ torn' = torn
      /\ worked' = IF proc = "up" /\ db.state \in Active THEN Cap(worked + 1, TestDuration)
                   ELSE worked
      /\ dark' = IF IsStream(db.test) /\ db.state # "stopped_manual"
                 THEN Cap(dark + 1, FatalOutage) ELSE dark
  BY DEF Tick
<1>5. worked <= worked' /\ worked' \in Nat
  BY <1>2, <1>4 DEF Cap
<1>6. /\ Dark <= Dark' /\ Dark' \in Nat
      /\ IsStream(db.test) /\ db.state # "stopped_manual" =>
           Cap(Dark + 1, FatalOutage) <= Dark'
  <2>1. CASE torn
    <3>1. Dark = FatalOutage /\ Dark' = FatalOutage
      BY <1>4, <2>1 DEF Dark
    <3> QED BY <1>2, <3>1 DEF Cap
  <2>2. CASE ~torn
    <3>1. Dark = dark /\ Dark' = dark'
      BY <1>4, <2>2 DEF Dark
    <3>2. /\ Dark <= Cap(Dark + 1, FatalOutage)
          /\ Cap(Dark + 1, FatalOutage) <= Cap(Dark + 1, FatalOutage)
          /\ Cap(Dark + 1, FatalOutage) \in Nat
      BY <1>2 DEF Cap
    <3> QED BY <1>2, <1>4, <3>1, <3>2
  <2> QED BY <2>1, <2>2
<1>7. proc = "down" => mem' = mem
  BY DEF Tick
<1>8. proc # "down" =>
        /\ mem'.anchor = Older(mem.anchor, TestDuration)
        /\ mem'.outStarted = Older(mem.outStarted, FatalOutage)
        /\ mem'.lastBytes = Older(mem.lastBytes, FatalOutage + 1)
        /\ mem'.valid = mem.valid
        /\ mem'.generation = mem.generation /\ mem'.task = mem.task
        /\ mem'.call = mem.call
  BY <1>1 DEF Tick, Aged, Memory
<1> QED BY <1>3, <1>4, <1>5, <1>6, <1>7, <1>8

LEMMA TickAccounts ==
  ASSUME IInv, ClockInv, Tick
  PROVE  Accounted(db', worked', Dark')
<1>1. /\ Accounted(db, worked, Dark) /\ db \in Disk /\ worked \in Nat /\ Dark \in Nat
      /\ FatalOutage \in Nat /\ Dark <= FatalOutage
  BY HistoryFacts, TimeFacts DEF ClockInv, IInv, DataInv, GoodDisk
<1>2. /\ db'.state = db.state /\ db'.test = db.test /\ db'.origin = db.origin
      /\ db'.finished = db.finished /\ db'.elapsed = db.elapsed
      /\ db'.outSeconds = db.outSeconds /\ db'.outActive = db.outActive
      /\ db'.outChecked = Older(db.outChecked, FatalOutage)
      /\ worked <= worked' /\ Dark <= Dark'
      /\ IsStream(db.test) /\ db.state # "stopped_manual" => Cap(Dark + 1, FatalOutage) <= Dark'
  BY TickFacts DEF Place
<1>3. /\ db.elapsed \in Nat /\ db.outSeconds \in Nat
      /\ db.outChecked # NONE => db.outChecked \in Nat
  BY <1>1, TimeFacts DEF Disk, OrNone
<1>4. worked' \in Nat /\ Dark' \in Nat
  BY TickFacts
<1>5. Marked(db')
  BY <1>1, <1>2 DEF Accounted, Marked, Rests
<1>6. Timed(db', worked')
  BY <1>1, <1>2, <1>3, <1>4 DEF Accounted, Timed, Rests
<1>7. Counted(db', Dark')
  <2> SUFFICES ASSUME db.outActive
               PROVE  /\ IsStream(db.test) /\ db'.outChecked # NONE /\ db.outSeconds <= Dark'
                      /\ db.state = "running_stream" =>
                           Cap(db.outSeconds + db'.outChecked, FatalOutage) <= Dark'
    BY <1>2 DEF Counted
  <2>1. /\ IsStream(db.test) /\ db.outChecked # NONE /\ db.outSeconds <= Dark
        /\ db.state = "running_stream" =>
             Cap(db.outSeconds + db.outChecked, FatalOutage) <= Dark
    BY <1>1 DEF Accounted, Counted
  <2>2. db'.outChecked = Cap(db.outChecked + 1, FatalOutage) /\ db'.outChecked \in Nat
    BY <1>1, <1>2, <1>3, <2>1 DEF Older, Cap
  <2>3. db'.outChecked # NONE
    BY <2>2, NoneAssumption
  <2>4. ASSUME db.state = "running_stream"
        PROVE  Cap(db.outSeconds + db'.outChecked, FatalOutage) <= Dark'
    <3> DEFINE sum == Cap(db.outSeconds + db.outChecked, FatalOutage)
    <3>1. sum \in Nat /\ sum <= Dark
      BY <1>1, <1>3, <2>1, <2>4 DEF Cap
    <3>2. Cap(db.outSeconds + db'.outChecked, FatalOutage) = Cap(sum + 1, FatalOutage)
      BY <1>1, <1>3, <2>1, <2>2 DEF Cap
    <3> HIDE DEF sum
    <3>3. Cap(sum + 1, FatalOutage) <= Cap(Dark + 1, FatalOutage)
      BY <1>1, <3>1, CapGrows
    <3>4. Cap(sum + 1, FatalOutage) \in Nat /\ Cap(Dark + 1, FatalOutage) \in Nat
      BY <1>1, <3>1 DEF Cap
    <3> QED BY <1>2, <1>4, <2>1, <2>4, <3>2, <3>3, <3>4
  <2> QED BY <1>1, <1>2, <1>3, <1>4, <2>1, <2>3, <2>4
<1> QED BY <1>5, <1>6, <1>7 DEF Accounted

(* While the process is up, each clock of the memory runs with the time it *)
(* measures.                                                               *)
LEMMA TickRuns ==
  ASSUME IInv, ControlInv, ClockInv, Tick, proc = "up"
  PROVE  UpInv'
<1>1. /\ Clocked(Now, worked, Dark, Current) /\ Good(Now) /\ Now.db = db /\ Now.mem = mem
      /\ OfItsKind(db) /\ PointFits(Face(db), Current)
      /\ db.state = "running_snapshot" => mem.anchor # NONE
      /\ Current \in StreamPoints => IsStream(db.test)
      /\ Current \in StreamPoints => db.state # "stopped_manual"
  <2>1. /\ Clocked(Now, worked, Dark, Current)
        /\ db.state = "running_snapshot" => mem.anchor # NONE
        /\ Current \in StreamPoints => IsStream(db.test)
        /\ PointFits(Face(db), Current)
    BY DEF ClockInv, UpInv, ControlInv
  <2>2. Good(Now) /\ Now.db = db /\ Now.mem = mem /\ OfItsKind(db)
    BY RunningFacts, ReadyFacts DEF IInv
  <2>3. db.state = "stopped_manual" => Current = "none"
    BY <2>1, FaceFacts DEF PointFits, Parked
  <2> QED BY <2>1, <2>2, <2>3 DEF StreamPoints
<1>2. /\ db'.state = db.state /\ db'.test = db.test /\ db'.elapsed = db.elapsed
      /\ db'.outActive = db.outActive /\ db'.outChecked = Older(db.outChecked, FatalOutage)
      /\ worked' = IF db.state \in Active THEN Cap(worked + 1, TestDuration) ELSE worked
      /\ Dark' \in Nat
      /\ IsStream(db.test) /\ db.state # "stopped_manual" =>
           Cap(Dark + 1, FatalOutage) <= Dark'
      /\ mem'.anchor = Older(mem.anchor, TestDuration)
      /\ mem'.outStarted = Older(mem.outStarted, FatalOutage)
      /\ mem'.lastBytes = Older(mem.lastBytes, FatalOutage + 1)
      /\ mem'.valid = mem.valid
      /\ mem'.generation = mem.generation /\ mem'.task = mem.task
  BY TickFacts DEF Place
<1>3. /\ db.elapsed \in Nat /\ db.elapsed <= TestDuration /\ mem.valid \in Nat
      /\ mem.anchor # NONE => mem.anchor \in Nat
      /\ mem.outStarted # NONE => mem.outStarted \in Nat
      /\ mem.lastBytes # NONE => mem.lastBytes \in Nat
      /\ TestDuration \in Nat /\ FatalOutage \in Nat /\ NONE \notin Nat
      /\ worked \in Nat /\ worked <= TestDuration /\ Dark \in Nat /\ Dark <= FatalOutage
  BY <1>1, Numbers, HistoryFacts, NoneAssumption DEF IInv
<1>4. Current' = Current
  BY <1>2 DEF Current
<1> DEFINE t == [db |-> db', mem |-> mem', log |-> {}]
<1>5. t.db = db' /\ t.mem = mem'
  OBVIOUS
<1> HIDE DEF t
<1>6. /\ mem'.anchor = NONE <=> mem.anchor = NONE
      /\ mem.anchor # NONE => mem'.anchor = Cap(mem.anchor + 1, TestDuration)
      /\ mem'.lastBytes = NONE <=> mem.lastBytes = NONE
      /\ mem.lastBytes # NONE => mem'.lastBytes = Cap(mem.lastBytes + 1, FatalOutage + 1)
      /\ mem'.outStarted # NONE => mem.outStarted # NONE
  BY <1>2, <1>3 DEF Older, Cap
<1>7. ASSUME ~IsStream(db.test), db.state # "completed"
      PROVE  Cap(db.elapsed + Since(mem'.anchor), TestDuration) = worked'
  <2>1. Cap(db.elapsed + Since(mem.anchor), TestDuration) = worked
    BY <1>1, <1>7 DEF Clocked
  <2>2. CASE mem.anchor = NONE
    <3>1. db.state \notin Active
      BY <1>1, <1>7, <2>2, KindFacts DEF Active
    <3> QED BY <1>2, <1>6, <2>1, <2>2, <3>1 DEF Since
  <2>3. CASE mem.anchor # NONE
    <3>1. db.state \in Active
      BY <1>1, <2>3 DEF Clocked, Active
    <3>2. Cap(db.elapsed + Cap(mem.anchor + 1, TestDuration), TestDuration)
            = Cap(Cap(db.elapsed + mem.anchor, TestDuration) + 1, TestDuration)
      BY <1>3, <2>3, TickSums
    <3> QED BY <1>2, <1>6, <2>1, <2>3, <3>1, <3>2 DEF Since
  <2> QED BY <2>2, <2>3
<1>8. ASSUME db.state = "running_stream"
      PROVE  Cap(db.elapsed + mem.valid + Since(mem'.lastBytes), TestDuration) <= worked'
  <2>1. Cap(db.elapsed + mem.valid + Since(mem.lastBytes), TestDuration) <= worked
    BY <1>1, <1>8 DEF Clocked
  <2>2. worked' = Cap(worked + 1, TestDuration)
    BY <1>2, <1>8 DEF Active
  <2>3. CASE mem.lastBytes = NONE
    <3>1. Cap(db.elapsed + mem.valid + 0, TestDuration) <= worked
      BY <2>1, <2>3 DEF Since
    <3>2. Since(mem'.lastBytes) = 0
      BY <1>6, <2>3 DEF Since
    <3>3. Cap(db.elapsed + mem.valid + 0, TestDuration) <= Cap(worked + 1, TestDuration)
      BY <1>3, <3>1 DEF Cap
    <3> QED BY <2>2, <3>2, <3>3
  <2>4. CASE mem.lastBytes # NONE
    <3> DEFINE seen == db.elapsed + mem.valid
               gap == mem.lastBytes
    <3>1. seen \in Nat /\ gap \in Nat /\ FatalOutage + 1 \in Nat
      BY <1>3, <2>4
    <3>2. Cap(seen + gap, TestDuration) <= worked
      BY <2>1, <2>4 DEF Since
    <3>3. Since(mem'.lastBytes) = Cap(gap + 1, FatalOutage + 1)
      BY <1>6, <2>4 DEF Since
    <3> HIDE DEF seen, gap
    <3>4. Cap(seen + Cap(gap + 1, FatalOutage + 1), TestDuration)
            <= Cap(worked + 1, TestDuration)
      BY <1>3, <3>1, <3>2 DEF Cap
    <3> QED BY <2>2, <3>3, <3>4 DEF seen
  <2> QED BY <2>3, <2>4
<1>9. ASSUME db.state = "running_stream" \/ Current \in StreamPoints, mem.lastBytes # NONE
      PROVE  Cap(mem'.lastBytes, FatalOutage) <= Dark'
  <2>1. Cap(mem.lastBytes, FatalOutage) <= Dark
    BY <1>1, <1>9 DEF Clocked
  <2>2. IsStream(db.test) /\ db.state # "stopped_manual"
    BY <1>1, <1>9, KindFacts
  <2>3. mem'.lastBytes = Cap(mem.lastBytes + 1, FatalOutage + 1)
    BY <1>6, <1>9
  <2>4. /\ Cap(mem'.lastBytes, FatalOutage) <= Cap(Dark + 1, FatalOutage)
        /\ Cap(mem'.lastBytes, FatalOutage) \in Nat /\ Cap(Dark + 1, FatalOutage) \in Nat
    BY <1>3, <1>9, <2>1, <2>3 DEF Cap
  <2> QED BY <1>2, <2>2, <2>4
<1>10. db.outActive /\ mem'.outStarted # NONE => mem'.outStarted = db'.outChecked
  BY <1>1, <1>2, <1>6 DEF Clocked
<1>11. mem'.anchor # NONE => db.state = "running_snapshot"
  BY <1>1, <1>6 DEF Clocked
<1>12. Clocked(t, worked', Dark', Current')
  BY <1>2, <1>4, <1>5, <1>6, <1>7, <1>8, <1>9, <1>10, <1>11 DEF Clocked
<1> QED BY <1>1, <1>2, <1>4, <1>5, <1>6, <1>12, UpAfter

(* Time passes for the rows, and for the memory of a process.              *)
LEMMA TickClock ==
  ASSUME IInv, ControlInv, ClockInv, Tick
  PROVE  ClockInv'
<1>1. Accounted(db, worked, Dark)'
  BY TickAccounts, AccountedAfter
<1>2. proc' = proc /\ (proc' = "up" => UpInv')
  BY TickFacts, TickRuns
<1>3. ASSUME proc # "up"
      PROVE  Idle' /\ (proc = "down" => mem' = NewMemory)
  <2>1. /\ db'.state = db.state /\ db'.test = db.test /\ db'.elapsed = db.elapsed
        /\ db'.outActive = db.outActive /\ db'.outChecked = Older(db.outChecked, FatalOutage)
        /\ worked' = worked
    BY <1>3, TickFacts DEF Place
  <2>2. Idle
    BY <1>3 DEF ClockInv
  <2>3. CASE proc = "down"
    <3>1. mem' = mem /\ mem = NewMemory
      BY <2>3, TickFacts DEF ClockInv
    <3>2. mem'.anchor = NONE /\ mem'.valid = 0 /\ mem'.outStarted = NONE
      BY <3>1 DEF NewMemory
    <3> QED BY <2>1, <2>2, <3>1, <3>2, IdleAfter DEF Idle
  <2>4. CASE proc # "down"
    <3>1. /\ mem'.anchor = Older(mem.anchor, TestDuration)
          /\ mem'.outStarted = Older(mem.outStarted, FatalOutage)
          /\ mem'.valid = mem.valid
      BY <2>4, TickFacts
    <3>2. mem'.anchor = NONE
      BY <2>2, <3>1 DEF Idle, Older
    <3>3. mem'.outStarted # NONE => mem.outStarted # NONE
      BY <3>1 DEF Older
    <3>4. db'.outActive /\ mem'.outStarted # NONE => mem'.outStarted = db'.outChecked
      BY <2>1, <2>2, <3>1, <3>3 DEF Idle
    <3> QED BY <2>1, <2>2, <2>4, <3>1, <3>2, <3>4, IdleAfter DEF Idle
  <2> QED BY <2>3, <2>4
<1>4. ASSUME proc = "closing"
      PROVE  (Current = "none" /\ \A c \in Callers : mem.call[c] # mem.generation)'
  BY <1>4, TickFacts DEF ClockInv, Current
<1>5. NewMemory' = NewMemory
  BY DEF NewMemory
<1> QED BY <1>1, <1>2, <1>3, <1>4, <1>5 DEF ClockInv

-----------------------------------------------------------------------------
(* The inductive invariant.                                                *)
LEMMA InitClock ==
  ASSUME Init
  PROVE  ClockInv
<1>1. /\ proc = "down" /\ mem = NewMemory /\ worked = 0
      /\ db.state = "not_started" /\ db.test = 1 /\ db.elapsed = 0 /\ ~db.outActive
  BY DEF Init, CreateRun
<1>2. ~IsStream(1) /\ 0 <= 0
  BY TestAssumption DEF IsStream
<1>3. mem.anchor = NONE /\ mem.valid = 0 /\ mem.outStarted = NONE
  BY <1>1 DEF NewMemory
<1>4. Accounted(db, worked, Dark)
  BY <1>1, <1>2 DEF Accounted, Marked, Timed, Counted, Rests, Resting
<1>5. Idle
  BY <1>1, <1>3 DEF Idle
<1> QED BY <1>1, <1>4, <1>5 DEF ClockInv

LEMMA StutterClock ==
  ASSUME ClockInv, UNCHANGED vars
  PROVE  ClockInv'
<1>1. /\ proc' = proc /\ db' = db /\ mem' = mem /\ worked' = worked /\ dark' = dark
      /\ torn' = torn
  BY DEF vars, history
<1>2. Dark' = Dark /\ Current' = Current /\ Now' = Now /\ NewMemory' = NewMemory
  BY <1>1 DEF Dark, Current, Now, NewMemory
<1>3. Accounted(db, worked, Dark)'
  BY <1>1, <1>2, AccountedAfter DEF ClockInv
<1>4. proc = "up" => UpInv'
  BY <1>1, <1>2, UpAfter, NowFacts DEF ClockInv, UpInv
<1>5. proc # "up" => Idle'
  BY <1>1, IdleAfter DEF ClockInv, Idle
<1> QED BY <1>1, <1>2, <1>3, <1>4, <1>5 DEF ClockInv

(* Every step.                                                             *)
LEMMA NextClock ==
  ASSUME IInv, ControlInv, ClockInv, Next
  PROVE  ClockInv'
<1>1. CASE Tick
  BY <1>1, TickClock
<1>2. CASE (\E g \in Generations : TaskStep(g) \/ OnError(g)) /\ Observe(FALSE, FALSE)
  <2>1. PICK g \in Generations : TaskStep(g) \/ OnError(g)
    BY <1>2
  <2> QED BY <1>2, <2>1, DispatchClock, DetachedClock, SnapshotStepClock, RecoveryStepClock,
             StreamStepClock, OnErrorClock
          DEF TaskStep
<1>3. CASE (\E g \in Generations : OnBytes(g)) /\ Observe(FALSE, TRUE)
  BY <1>3, OnBytesClock, NextDataInv DEF IInv
<1>4. CASE (Control \/ Initialize \/ Exit) /\ Observe(FALSE, FALSE)
  <2>1. CASE Control
    <3>1. CASE Start
      BY <1>4, <3>1, StartActiveClock, ResumeRecoveryClock DEF Start
    <3>2. CASE Stop \/ Shutdown \/ GetStatus
      BY <1>4, <3>2, StopClock, ShutdownClock, GetStatusClock
    <3>3. CASE \E c \in Callers :
                 ContinueRequested(c) \/ ContinueRefused(c) \/ ContinueVerified(c)
      BY <1>4, <3>3, RequestClock, ContinueClock
    <3> QED BY <2>1, <3>1, <3>2, <3>3 DEF Control
  <2>2. CASE Initialize \/ Exit
    BY <1>4, <2>2, InitializeClock, ExitClock
  <2> QED BY <1>4, <2>1, <2>2
<1>5. CASE Restart /\ Observe(TRUE, FALSE)
  BY <1>5, RestartClock
<1> QED BY <1>1, <1>2, <1>3, <1>4, <1>5 DEF Next

(* Between any two transactions, with or without a process, the rows and   *)
(* the memory together account for the time worked and for the silence of  *)
(* the stream, and the rows alone for what a crash would leave of them.    *)
THEOREM ClockInvariance == Spec => []ClockInv
<1>1. Init => ClockInv
  BY InitClock
<1>2. IInv /\ ControlInv /\ ClockInv /\ [Next]_vars => ClockInv'
  BY NextClock, StutterClock
<1> QED BY <1>1, <1>2, ControlInvariance, PTL DEF Spec

-----------------------------------------------------------------------------
(* What the invariant is for.                                              *)

(* The elapsed time of a snapshot test is the time that the process spent  *)
(* in it, less what crashes lost, and that of a stream test is never more: *)
(* neither a stop, a checkpoint, a shutdown nor a new process counts any   *)
(* of it twice or drops it.                                                *)
THEOREM ElapsedIsExact == Spec => []ElapsedIsActiveTime
<1>1. IInv /\ ControlInv /\ ClockInv => ElapsedIsActiveTime
  <2> DEFINE elapsed == Cap(ElapsedActive(Now), TestDuration)
  <2> SUFFICES ASSUME IInv, ControlInv, ClockInv,
                      db.state \in Active \cup {"stopped_manual", "stopped_error"}
               PROVE  IF IsStream(db.test) THEN elapsed <= worked ELSE elapsed = worked
    BY DEF ElapsedIsActiveTime
  <2>1. /\ OfItsKind(db) /\ Accounted(db, worked, Dark) /\ db.state # "completed"
        /\ db.elapsed \in Nat /\ db.elapsed <= TestDuration /\ db.elapsed <= worked
        /\ mem.valid \in Nat /\ TestDuration \in Nat /\ worked \in Nat /\ worked <= TestDuration
        /\ mem.lastBytes # NONE => mem.lastBytes \in Nat
    <3>1. db \in Disk /\ mem \in Memory /\ OfItsKind(db) /\ Accounted(db, worked, Dark)
      BY FaceFacts DEF IInv, DataInv, GoodDisk, ControlInv, Sound, OfItsKind, ClockInv
    <3>2. /\ db.elapsed \in TestTimes /\ mem.valid \in TestTimes
          /\ mem.lastBytes \in OrNone(ByteAges)
      BY <3>1 DEF Disk, Memory
    <3>3. db.state # "completed"
      BY DEF Active
    <3> QED BY <3>1, <3>2, <3>3, HistoryFacts, TimeFacts
            DEF IInv, Accounted, Timed, TestTimes, ByteAges, OrNone
  <2>2. ElapsedActive(Now) = IF db.state = "running_stream" THEN db.elapsed + mem.valid
                             ELSE db.elapsed + Since(mem.anchor)
    BY NowFacts DEF ElapsedActive, Since
  <2>3. CASE db.state = "running_stream"
    <3>1. IsStream(db.test) /\ elapsed = Cap(db.elapsed + mem.valid, TestDuration)
      BY <2>1, <2>2, <2>3, KindFacts
    <3>2. CASE proc = "up"
      <4>1. Cap(db.elapsed + mem.valid + Since(mem.lastBytes), TestDuration) <= worked
        BY <2>3, <3>2, NowFacts DEF ClockInv, UpInv, Clocked
      <4>2. Since(mem.lastBytes) \in Nat
        BY <2>1 DEF Since
      <4>3. Cap(db.elapsed + mem.valid, TestDuration) <= worked
        BY <2>1, <4>1, <4>2 DEF Cap
      <4> QED BY <3>1, <4>3
    <3>3. CASE proc # "up"
      <4>1. mem.valid = 0
        BY <2>3, <3>3 DEF ClockInv, Idle
      <4>2. Cap(db.elapsed + 0, TestDuration) <= worked
        BY <2>1 DEF Cap
      <4> QED BY <3>1, <4>1, <4>2
    <3> QED BY <3>2, <3>3
  <2>4. CASE db.state # "running_stream" /\ ~IsStream(db.test)
    <3>1. elapsed = Cap(db.elapsed + Since(mem.anchor), TestDuration)
      BY <2>2, <2>4
    <3>2. CASE proc = "up"
      BY <2>1, <2>4, <3>1, <3>2, NowFacts DEF ClockInv, UpInv, Clocked
    <3>3. CASE proc # "up"
      <4>1. Since(mem.anchor) = 0 /\ db.elapsed = worked
        BY <2>1, <2>4, <3>3 DEF ClockInv, Idle, Since
      <4>2. Cap(worked + 0, TestDuration) = worked
        BY <2>1 DEF Cap
      <4> QED BY <2>4, <3>1, <4>1, <4>2
    <3> QED BY <2>4, <3>2, <3>3
  <2>5. CASE db.state # "running_stream" /\ IsStream(db.test)
    <3>1. mem.anchor = NONE
      BY <2>1, <2>5, KindFacts, NowFacts DEF ClockInv, UpInv, Idle, Clocked
    <3>2. elapsed = Cap(db.elapsed + 0, TestDuration)
      BY <2>2, <2>5, <3>1 DEF Since
    <3>3. Cap(db.elapsed + 0, TestDuration) <= worked
      BY <2>1 DEF Cap
    <3> QED BY <2>5, <3>2, <3>3
  <2> QED BY <2>3, <2>4, <2>5
<1> QED BY <1>1, ControlInvariance, ClockInvariance, PTL

(* The outage that ends a stream test as fatal never counts more silence   *)
(* than there was since the last byte, over any checkpoints, crashes,      *)
(* closures and resumptions, unless a crash tore a start() apart.          *)
THEOREM OutageIsHonest == Spec => []OutageNeverOvercounted
<1>1. IInv /\ ClockInv => OutageNeverOvercounted
  <2> SUFFICES ASSUME IInv, ClockInv, db.state = "running_stream", ~torn
               PROVE  Cap(StreamOutageDuration(Now), FatalOutage) <= dark
    BY DEF OutageNeverOvercounted
  <2>1. /\ Counted(db, dark) /\ dark \in Nat /\ FatalOutage \in Nat
        /\ db.outSeconds \in Nat
    <3>1. db \in Disk /\ Dark = dark /\ Counted(db, Dark)
      BY DEF IInv, DataInv, GoodDisk, ClockInv, Accounted, Dark
    <3>2. db.outSeconds \in OutageTimes
      BY <3>1 DEF Disk
    <3> QED BY <3>1, <3>2, HistoryFacts, TimeFacts DEF IInv
  <2>2. StreamOutageDuration(Now) =
          IF ~db.outActive THEN 0 ELSE db.outSeconds + Since(mem.outStarted)
    BY NowFacts DEF StreamOutageDuration, Since
  <2>3. CASE ~db.outActive
    <3>1. Cap(0, FatalOutage) <= dark
      BY <2>1 DEF Cap
    <3> QED BY <2>2, <2>3, <3>1
  <2>4. CASE db.outActive
    <3>1. /\ db.outSeconds <= dark
          /\ Cap(db.outSeconds + db.outChecked, FatalOutage) <= dark
      BY <2>1, <2>4 DEF Counted
    <3>2. CASE mem.outStarted = NONE
      <4>1. Cap(db.outSeconds + 0, FatalOutage) <= dark
        BY <2>1, <3>1 DEF Cap
      <4> QED BY <2>2, <2>4, <3>2, <4>1 DEF Since
    <3>3. CASE mem.outStarted # NONE
      <4>1. mem.outStarted = db.outChecked
        BY <2>4, <3>3, NowFacts DEF ClockInv, UpInv, Idle, Clocked
      <4> QED BY <2>2, <2>4, <3>1, <3>3, <4>1 DEF Since
    <3> QED BY <3>2, <3>3
  <2> QED BY <2>3, <2>4
<1> QED BY <1>1, Invariance, ClockInvariance, PTL

(* The timer leaves a test only from a rest, and a rest, even one that was *)
(* stopped and resumed or that a new process found, begins only once the   *)
(* active phase of the test has its final outcome.                         *)
THEOREM TimerSkipsNoTest == Spec => NoTestSkippedByTimer
<1>1. IInv /\ ControlInv /\ ClockInv /\ [Next]_vars =>
        [db'.test > db.test =>
           \/ \A n \in db.test .. db'.test - 1 : db.finished[n] > 0
           \/ \E c \in Callers : ContinueVerified(c)]_vars
  <2> SUFFICES ASSUME IInv, ControlInv, ClockInv, Next, db'.test > db.test,
                      ~ \E c \in Callers : ContinueVerified(c)
               PROVE  \A n \in db.test .. db'.test - 1 : db.finished[n] > 0
    OBVIOUS
  <2>1. Outcome
    BY NextOutcome DEF IInv
  <2>2. /\ db.test \in Nat /\ db.test >= 1 /\ ~(db.test > db.test) /\ ~(1 > db.test)
    <3>1. db.test \in Tests
      BY DEF IInv, DataInv, GoodDisk, Disk
    <3> QED BY <3>1, TestAssumption DEF Tests
  <2>3. Face(db')[2] = db'.test /\ Face(db)[2] = db.test
    BY FaceFacts
  <2>4. ~Waits /\ ~Stays /\ ~Starts /\ ~Stops /\ ~Restarts
    <3>1. ~Waits /\ ~Stays
      BY <2>2, <2>3 DEF Waits, Stays
    <3>2. ~Starts
      BY <2>2, <2>3 DEF Starts, StartFace
    <3>3. ~Stops /\ ~Restarts
      BY <2>2, <2>3 DEF Stops, Holds, Restarts, RestartLeaves, Abandons
    <3> QED BY <3>1, <3>2, <3>3
  <2>5. Leads(Face(db'))
    BY <2>1, <2>4 DEF Outcome, Proceeds
  <2>6. Advances(Face(db'))
    BY <2>2, <2>3, <2>5 DEF Leads, Finishes, FinalFace, Lowers, LowFace, Fails, ErrorFace
  <2>7. db.state \in Resting /\ db'.test = db.test + 1
    BY <2>2, <2>3, <2>6 DEF Advances, NextFace
  <2>8. db.finished[db.test] > 0
    BY <2>7 DEF ClockInv, Accounted, Marked, Rests
  <2> QED BY <2>2, <2>7, <2>8
<1> QED BY <1>1, ControlInvariance, ClockInvariance, PTL DEF Spec, NoTestSkippedByTimer
==============================================================================
