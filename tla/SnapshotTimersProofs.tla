------------------------- MODULE SnapshotTimersProofs -------------------------
EXTENDS SnapshotTimers, TLAPS

LEMMA Division ==
  ASSUME NEW m \in Int, NEW n \in Nat \ {0}
  PROVE  /\ m \div n \in Int
         /\ n * (m \div n) <= m
         /\ m < n * (m \div n) + n
  BY SMT

LEMMA MultipleIsOnGrid ==
  ASSUME NEW n \in Nat \ {0}, NEW k \in Int
  PROVE  (n * k) % n = 0
  BY SMT

LEMMA GridIsMultiple ==
  ASSUME NEW n \in Nat \ {0}, NEW m \in Int, m % n = 0
  PROVE  m = n * (m \div n)
  BY SMT

LEMMA AdvancedSkipsToTheFuture ==
  ASSUME NEW deadline \in Nat, NEW time \in Nat, NEW interval \in Nat \ {0},
         deadline % interval = 0
  PROVE  /\ Advanced(deadline, interval, time) \in Nat
         /\ Advanced(deadline, interval, time) % interval = 0
         /\ Advanced(deadline, interval, time) > time
         /\ Advanced(deadline, interval, time) > deadline
<1> DEFINE q == (time - deadline) \div interval
           steps == Larger(1, q + 1)
<1>1. /\ q \in Int
      /\ time - deadline < interval * q + interval
  BY Division
<1>2. /\ steps \in Nat
      /\ steps >= 1
      /\ steps >= q + 1
  BY <1>1 DEF Larger
<1>3. /\ interval * steps >= interval
      /\ interval * steps >= interval * (q + 1)
  <2> HIDE DEF steps, q
  <2>1. interval * steps - interval = interval * (steps - 1)
    BY <1>2
  <2>2. interval * steps - interval * (q + 1) = interval * (steps - (q + 1))
    BY <1>1, <1>2
  <2>3. interval * (steps - 1) >= 0
    BY <1>2
  <2>4. interval * (steps - (q + 1)) >= 0
    BY <1>1, <1>2
  <2> QED BY <1>1, <1>2, <2>1, <2>2, <2>3, <2>4
<1>4. deadline = interval * (deadline \div interval)
  BY GridIsMultiple
<1>5. Advanced(deadline, interval, time) = deadline + interval * steps
  BY <1>2 DEF Advanced
<1>6. deadline + interval * steps = interval * (deadline \div interval + steps)
  <2> HIDE DEF steps
  <2>1. deadline \div interval \in Int
    BY Division
  <2> QED BY <1>2, <1>4, <2>1
<1> HIDE DEF steps, q
<1>7. (deadline + interval * steps) % interval = 0
  <2> DEFINE k == deadline \div interval + steps
  <2>1. k \in Int
    BY <1>2, Division
  <2> HIDE DEF k
  <2> QED BY <1>6, <2>1, MultipleIsOnGrid DEF k
<1>8. interval * (q + 1) = interval * q + interval
  BY <1>1
<1> QED BY <1>1, <1>2, <1>3, <1>5, <1>7, <1>8

LEMMA GridSeparates ==
  ASSUME NEW n \in Nat \ {0}, NEW d \in Nat, NEW a \in Nat, NEW b \in Nat,
         d % n = 0, a < d, d <= b
  PROVE  a \div n < b \div n
<1> DEFINE qa == a \div n
           qb == b \div n
           qd == d \div n
<1>1. /\ qa \in Int /\ n * qa <= a /\ a < n * qa + n
      /\ qb \in Int /\ n * qb <= b /\ b < n * qb + n
  BY Division
<1>2. qd \in Int /\ d = n * qd
  BY Division, GridIsMultiple
<1> HIDE DEF qa, qb, qd
<1>3. n * qa < n * qd /\ n * qd < n * (qb + 1)
  BY <1>1, <1>2
<1>4. qa < qd /\ qd < qb + 1
  BY <1>1, <1>2, <1>3
<1> QED BY <1>1, <1>2, <1>4 DEF qa, qb

LEMMA SmallestOfFive ==
  ASSUME NEW a \in Nat, NEW b \in Nat, NEW c \in Nat, NEW d \in Nat, NEW e \in Nat
  PROVE  \E m \in {a, b, c, d, e} : \A n \in {a, b, c, d, e} : m <= n
  BY SMT

LEMMA WakeIsEarliest ==
  ASSUME TypeOK
  PROVE  /\ WakeTime \in Nat
         /\ WakeTime <= Duration
         /\ \A t \in Timers : WakeTime <= due[t]
<1> DEFINE S == {Duration} \cup {due[t] : t \in Timers}
<1>1. S = {Duration, due["snapshot"], due["battery"], due["checkpoint"], due["measurement"]}
  BY DEF Timers
<1>2. /\ Duration \in Nat
      /\ \A t \in Timers : due[t] \in Nat
  BY TimersAssumption DEF TypeOK
<1>3. \E m \in S : \A n \in S : m <= n
  BY <1>1, <1>2, SmallestOfFive DEF Timers
<1>4. WakeTime \in S /\ \A n \in S : WakeTime <= n
  BY <1>3 DEF WakeTime, Min
<1> QED BY <1>1, <1>2, <1>4 DEF Timers
-----------------------------------------------------------------------------
(* The bounds hold because each step of the turn has a share of the delay: *)
(* how late the clock may be depends on what the turn has served.          *)

EndShare ==
  /\ at = "poll" => now < Duration
  /\ at \in {"snapshot", "capture"} => now <= Duration + MaxCall
  /\ at \in {"records", "sleep"} => now <= Duration + 2 * MaxCall

PollShare ==
  /\ at \in {"snapshot", "capture"} => now <= due["battery"]
  /\ at \in {"records", "sleep"} => now <= due["battery"] + MaxCall

LastRequest ==
  /\ last <= now
  /\ at # "capture" /\ last >= 0 => last < due["snapshot"]

IInv == TypeOK /\ EndIsPrompt /\ PollIsPrompt /\ EndShare /\ PollShare /\ LastRequest

LEMMA TimerTypes ==
  /\ \A t \in Timers : Interval(t) \in Nat \ {0}
  /\ Duration \in Nat \ {0} /\ MaxCall \in Nat /\ MaxLate \in Nat
  BY TimersAssumption DEF Timers, Interval

LEMMA ServedKeepsGrid ==
  ASSUME TypeOK, NEW t \in Timers, NEW time \in Nat
  PROVE  /\ Served(t, time) \in [Timers -> Nat]
         /\ \A u \in Timers : Served(t, time)[u] % Interval(u) = 0
         /\ Served(t, time)[t] > time
         /\ \A u \in Timers \ {t} : Served(t, time)[u] = due[u]
<1>1. /\ due[t] \in Nat
      /\ due[t] % Interval(t) = 0
      /\ Interval(t) \in Nat \ {0}
  BY TimerTypes DEF TypeOK
<1>2. /\ Advanced(due[t], Interval(t), time) \in Nat
      /\ Advanced(due[t], Interval(t), time) % Interval(t) = 0
      /\ Advanced(due[t], Interval(t), time) > time
  BY <1>1, AdvancedSkipsToTheFuture
<1> QED BY <1>2 DEF TypeOK, Served

LEMMA ZeroIsOnGrid ==
  ASSUME NEW n \in Nat \ {0}
  PROVE  0 % n = 0 /\ n % n = 0
<1>1. (n * 0) % n = 0 /\ (n * 1) % n = 0
  BY MultipleIsOnGrid
<1> QED BY <1>1

LEMMA InitHolds == Init => IInv
<1> SUFFICES ASSUME Init PROVE IInv
  OBVIOUS
<1>1. \A t \in Timers : due[t] \in Nat /\ due[t] % Interval(t) = 0
  BY TimerTypes, ZeroIsOnGrid DEF Init
<1>2. TypeOK
  BY <1>1 DEF Init, TypeOK, Points
<1> QED
  BY <1>2, TimerTypes DEF Init, IInv, EndIsPrompt, PollIsPrompt, EndShare, PollShare,
     LastRequest, Timers

LEMMA NextHolds == IInv /\ [Next]_vars => IInv'
<1> SUFFICES ASSUME IInv, [Next]_vars PROVE IInv'
  OBVIOUS
<1> USE TimerTypes
<1>t. TypeOK /\ now \in Nat /\ due["battery"] \in Nat /\ due["snapshot"] \in Nat
      /\ "battery" \in Timers /\ "snapshot" \in Timers
  BY DEF IInv, TypeOK, Timers
<1>1. CASE Top
  BY <1>1, <1>t DEF Top, AfterTop, IInv, TypeOK, Points, EndIsPrompt, PollIsPrompt,
     EndShare, PollShare, LastRequest
<1>2. ASSUME NEW took \in 0 .. MaxCall, Polled(took) PROVE IInv'
  <2>1. now' \in Nat /\ now <= now' /\ now' <= now + MaxCall
    BY <1>2, <1>t DEF Polled
  <2>2. CASE at' = "snapshot"
    <3>1. due' = Served("battery", now')
      BY <1>2, <2>2 DEF Polled
    <3>2. /\ due' \in [Timers -> Nat]
          /\ \A u \in Timers : due'[u] % Interval(u) = 0
          /\ due'["battery"] > now'
          /\ due'["snapshot"] = due["snapshot"]
      BY <1>t, <2>1, <3>1, ServedKeepsGrid
    <3>3. TypeOK'
      BY <1>2, <1>t, <2>1, <2>2, <3>2 DEF Polled, TypeOK, Points
    <3> QED
      BY <1>2, <1>t, <2>1, <2>2, <3>2, <3>3 DEF Polled, IInv, TypeOK, EndIsPrompt,
         PollIsPrompt, EndShare, PollShare, LastRequest
  <2>3. CASE at' = "ended"
    BY <1>2, <1>t, <2>1, <2>3 DEF Polled, IInv, TypeOK, Points, EndIsPrompt,
       PollIsPrompt, EndShare, PollShare, LastRequest
  <2> QED BY <1>2, <2>2, <2>3 DEF Polled
<1>3. ASSUME NEW took \in 0 .. MaxCall, Captured(took) PROVE IInv'
  <2>1. now' \in Nat /\ now <= now' /\ now' <= now + MaxCall
    BY <1>3, <1>t DEF Captured
  <2>2. /\ due' \in [Timers -> Nat]
        /\ \A u \in Timers : due'[u] % Interval(u) = 0
        /\ due'["snapshot"] > now'
        /\ due'["battery"] = due["battery"]
    BY <1>3, <1>t, <2>1, ServedKeepsGrid DEF Captured
  <2>3. TypeOK'
    BY <1>3, <1>t, <2>1, <2>2 DEF Captured, TypeOK, Points
  <2> QED
    BY <1>3, <1>t, <2>1, <2>2, <2>3 DEF Captured, IInv, TypeOK, EndIsPrompt,
       PollIsPrompt, EndShare, PollShare, LastRequest
<1>4. CASE Request
  BY <1>4, <1>t DEF Request, IInv, TypeOK, Points, EndIsPrompt, PollIsPrompt, EndShare,
     PollShare, LastRequest
<1>5. CASE NoRequest
  BY <1>5, <1>t DEF NoRequest, IInv, TypeOK, Points, EndIsPrompt, PollIsPrompt, EndShare,
     PollShare, LastRequest
<1>6. CASE Records
  <2>1. \A t \in Timers : due[t] \in Nat /\ due[t] % Interval(t) = 0
    BY <1>t DEF TypeOK
  <2>2. \A t \in Timers : /\ Advanced(due[t], Interval(t), now) \in Nat
                          /\ Advanced(due[t], Interval(t), now) % Interval(t) = 0
    BY <1>t, <2>1, AdvancedSkipsToTheFuture
  <2>3. /\ due' \in [Timers -> Nat]
        /\ \A t \in Timers : due'[t] % Interval(t) = 0
        /\ due'["battery"] = due["battery"]
        /\ due'["snapshot"] = due["snapshot"]
    BY <1>6, <1>t, <2>1, <2>2 DEF Records
  <2>4. TypeOK'
    BY <1>6, <1>t, <2>3 DEF Records, TypeOK, Points
  <2> QED
    BY <1>6, <1>t, <2>3, <2>4 DEF Records, IInv, TypeOK, EndIsPrompt, PollIsPrompt,
       EndShare, PollShare, LastRequest
<1>7. ASSUME NEW late \in 0 .. MaxLate, Sleep(late) PROVE IInv'
  <2>1. WakeTime \in Nat /\ WakeTime <= Duration /\ WakeTime <= due["battery"]
    BY <1>t, WakeIsEarliest
  <2>2. /\ now' \in Nat
        /\ now <= now'
        /\ now' <= now + MaxLate \/ now' <= WakeTime + MaxLate
    BY <1>7, <1>t, <2>1 DEF Sleep, Larger
  <2> QED
    BY <1>7, <1>t, <2>1, <2>2 DEF Sleep, IInv, TypeOK, Points, EndIsPrompt, PollIsPrompt,
       EndShare, PollShare, LastRequest
<1>8. CASE UNCHANGED vars
  BY <1>8, <1>t DEF vars, IInv, TypeOK, EndIsPrompt, PollIsPrompt, EndShare, PollShare,
     LastRequest
<1> QED BY <1>1, <1>2, <1>3, <1>4, <1>5, <1>6, <1>7, <1>8 DEF Next

LEMMA Invariance == Spec => []IInv
  BY InitHolds, NextHolds, PTL DEF Spec

\* Every deadline of the loop stays on the grid of the phase's start.
THEOREM TimerTypesHold == Spec => []TypeOK
<1>1. IInv => TypeOK
  BY DEF IInv
<1> QED BY <1>1, Invariance, PTL

\* A due battery poll waits at most for one snapshot and the loop's lateness.
THEOREM PollsArePrompt == Spec => []PollIsPrompt
<1>1. IInv => PollIsPrompt
  BY DEF IInv
<1> QED BY <1>1, Invariance, PTL

\* The test outlasts its duration by two calls and the loop's lateness at most.
THEOREM EndsArePrompt == Spec => []EndIsPrompt
<1>1. IInv => EndIsPrompt
  BY DEF IInv
<1> QED BY <1>1, Invariance, PTL

\* No two snapshots are requested in one interval of the schedule, whatever the
\* intervals and however slow the camera.
THEOREM NoSnapshotCatchesUp == Spec => NoCatchUp
<1>1. IInv /\ [Next]_vars =>
        [last' # last /\ last >= 0 => last' \div SnapshotInterval > last \div SnapshotInterval]_vars
  <2> SUFFICES ASSUME IInv, Next, last' # last, last >= 0
               PROVE  last' \div SnapshotInterval > last \div SnapshotInterval
    BY DEF vars
  <2>1. Request
    BY DEF Next, Top, Polled, Captured, Request, NoRequest, Records, Sleep, vars
  <2>2. /\ due["snapshot"] \in Nat
        /\ due["snapshot"] % SnapshotInterval = 0
        /\ now \in Nat /\ last \in Nat
    BY DEF IInv, TypeOK, Timers, Interval
  <2>3. last < due["snapshot"] /\ due["snapshot"] <= now /\ last' = now
    BY <2>1, <2>2 DEF Request, IInv, LastRequest
  <2> QED BY <2>2, <2>3, GridSeparates, TimersAssumption
<1> QED BY <1>1, Invariance, PTL DEF Spec, NoCatchUp
=============================================================================
