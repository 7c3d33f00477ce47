---------------------------- MODULE SnapshotTimers ----------------------------
(***************************************************************************)
(* The timers of a snapshot test (ExperimentRunner._run_snapshot and the   *)
(* SnapshotSchedule it follows, src/blink_dashboard/experiment.py).        *)
(*                                                                         *)
(* One loop serves four timers, and everything it awaits delays them all:  *)
(* battery polls and snapshots that last up to their client's timeout, and *)
(* an event loop that wakes late.  ExperimentRunner leaves open when each  *)
(* of them is due; this module counts, in whole units from the start of    *)
(* the active phase.                                                       *)
(***************************************************************************)
EXTENDS Integers, FiniteSetsExt

CONSTANTS
  SnapshotInterval, BatteryInterval, CheckpointInterval, MeasurementInterval,
  Duration,  \* the active time of the test
  MaxCall,   \* the longest a poll or a snapshot keeps the loop waiting
  MaxLate    \* the longest the loop sleeps past the time it asked for

ASSUME TimersAssumption ==
  /\ SnapshotInterval \in Nat \ {0}
  /\ BatteryInterval \in Nat \ {0}
  /\ CheckpointInterval \in Nat \ {0}
  /\ MeasurementInterval \in Nat \ {0}
  /\ Duration \in Nat \ {0}
  /\ MaxCall \in Nat
  /\ MaxLate \in Nat

Timers == {"snapshot", "battery", "checkpoint", "measurement"}

Interval(t) ==
  CASE t = "snapshot" -> SnapshotInterval
    [] t = "battery" -> BatteryInterval
    [] t = "checkpoint" -> CheckpointInterval
    [] t = "measurement" -> MeasurementInterval

VARIABLES
  now,   \* the monotonic clock, since the active phase began
  due,   \* the deadline of each timer
  at,    \* the step of the loop that comes next
  last   \* history: when the latest snapshot request was made

vars == <<now, due, at, last>>

Larger(m, n) == IF m >= n THEN m ELSE n

\* Variant: the tick that was served, and no other, is passed.
OneTickLater(deadline, interval, time) == deadline + interval

\* Variant: the next tick is counted from the end of the attempt.
AdvancedFromNow(deadline, interval, time) == time + interval

\* Variant: the tick that is due now is not passed.
AdvancedTooLittle(deadline, interval, time) ==
  deadline + Larger(0, (time - deadline) \div interval) * interval

\* The first tick after the time, and at least the one after the deadline.
Advanced(deadline, interval, time) ==
  deadline + Larger(1, (time - deadline) \div interval + 1) * interval

Served(t, time) == [due EXCEPT ![t] = Advanced(due[t], Interval(t), time)]

-----------------------------------------------------------------------------
Init ==
  /\ now = 0
  /\ due = [t \in Timers |-> IF t \in {"snapshot", "battery"} THEN 0 ELSE Interval(t)]
  /\ at = "top"
  /\ last = -1

\* Variant: a due poll is served before the duration is looked at.
AfterTopPollFirst ==
  IF now >= due["battery"] THEN "poll" ELSE IF now >= Duration THEN "ended" ELSE "snapshot"

\* The duration is looked at once a turn, before anything is served.
AfterTop ==
  IF now >= Duration THEN "ended" ELSE IF now >= due["battery"] THEN "poll" ELSE "snapshot"

Top ==
  /\ at = "top"
  /\ at' = AfterTop
  /\ UNCHANGED <<now, due, last>>

\* _poll_battery returns: a low reading or a fatal outage ends the test.
Polled(took) ==
  /\ at = "poll"
  /\ now' = now + took
  /\ \/ /\ at' = "snapshot"
        /\ due' = Served("battery", now')
     \/ /\ at' = "ended"
        /\ UNCHANGED due
  /\ UNCHANGED last

Request ==
  /\ at = "snapshot"
  /\ now >= due["snapshot"]
  /\ at' = "capture"
  /\ last' = now
  /\ UNCHANGED <<now, due>>

\* The request was answered, failed or timed out: the schedule moves on alike.
Captured(took) ==
  /\ at = "capture"
  /\ now' = now + took
  /\ due' = Served("snapshot", now')
  /\ at' = "records"
  /\ UNCHANGED last

NoRequest ==
  /\ at = "snapshot"
  /\ now < due["snapshot"]
  /\ at' = "records"
  /\ UNCHANGED <<now, due, last>>

\* The checkpoint and the measurement, each if it is due
Records ==
  /\ at = "records"
  /\ due' = [t \in Timers |-> IF t \in {"checkpoint", "measurement"} /\ now >= due[t]
                              THEN Advanced(due[t], Interval(t), now) ELSE due[t]]
  /\ at' = "sleep"
  /\ UNCHANGED <<now, last>>

\* Variant: the poll of the battery is not among what the loop wakes for.
WakeForOthers == Min({Duration} \cup {due[t] : t \in Timers \ {"battery"}})

\* The earliest of the deadlines and the end of the test
WakeTime == Min({Duration} \cup {due[t] : t \in Timers})

Sleep(late) ==
  /\ at = "sleep"
  /\ now' = Larger(now, WakeTime) + late
  /\ at' = "top"
  /\ UNCHANGED <<due, last>>

Next ==
  \/ Top
  \/ \E took \in 0 .. MaxCall : Polled(took) \/ Captured(took)
  \/ Request
  \/ NoRequest
  \/ Records
  \/ \E late \in 0 .. MaxLate : Sleep(late)
  \/ at = "ended" /\ UNCHANGED vars

Spec == Init /\ [][Next]_vars

\* The event loop runs the task, and every call of the adapter client times out.
FairSpec == Spec /\ WF_vars(Next)

-----------------------------------------------------------------------------
Points == {"top", "poll", "snapshot", "capture", "records", "sleep", "ended"}

\* The loop is served and its deadlines keep to the grid of the phase's start,
\* however long the calls last: a late answer does not shift the later ticks.
TypeOK ==
  /\ now \in Nat
  /\ due \in [Timers -> Nat]
  /\ \A t \in Timers : due[t] % Interval(t) = 0
  /\ at \in Points
  /\ last \in Nat \cup {-1}

\* The ticks that passed during a slow call are skipped, never made up for: two
\* snapshots are not requested in one interval of the schedule.
NoCatchUp ==
  [][last' # last /\ last >= 0 =>
       last' \div SnapshotInterval > last \div SnapshotInterval]_vars

\* A due poll waits at most for the call in progress and the loop's lateness, so
\* a low battery is not overlooked for longer, whatever else the loop serves.
PollIsPrompt ==
  at # "ended" => now <= due["battery"] + MaxCall + MaxLate

\* The test is cut off at its duration but for the calls of one turn and the
\* loop's lateness: the loop does not sleep over the end.
EndIsPrompt == now <= Duration + 2 * MaxCall + MaxLate

\* The loop always comes to its end: no turn leaves a deadline due that the next
\* would serve at once without time passing.
TestEnds == <>(at = "ended")
=============================================================================
