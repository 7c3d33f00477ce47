-------------------------- MODULE ExperimentLifecycle --------------------------
(***************************************************************************)
(* What an experiment promises to the one who runs it, without its timers, *)
(* tasks, transactions and processes: the tests follow each other with a   *)
(* rest between them, a manual stop holds what it interrupted and a start  *)
(* takes up just that, and the end of a process changes nothing.           *)
(* ExperimentRunner implements it.                                         *)
(***************************************************************************)
EXTENDS Naturals

CONSTANT LastTest  \* the number of tests

VARIABLES
  phase,  \* "idle", "testing", "resting", "held", "abandoned", "failed" or "done"
  test,   \* the current test
  paused  \* what a start takes up, while the experiment is held

vars == <<phase, test, paused>>

Becomes(p) == phase' = p /\ UNCHANGED <<test, paused>>

\* After the last test there is none.
NextTest ==
  IF test = LastTest THEN Becomes("done")
  ELSE phase' = "testing" /\ test' = test + 1 /\ UNCHANGED paused

Begin == phase = "idle" /\ Becomes("testing")

\* The duration of the test has passed.
Finish == phase = "testing" /\ Becomes(IF test = LastTest THEN "done" ELSE "resting")

\* A snapshot test that fails for good as its duration passes is finished all the same.
FinishFailed == phase = "failed" /\ test < LastTest /\ Becomes("resting")

\* A low battery ends the test; even the last test is followed by a rest then.
Lower == phase = "testing" /\ Becomes("resting")

\* The rest has passed, or the user has continued early.
Advance == phase = "resting" /\ NextTest

\* A request to continue is answered late, when the rest is over or the run has failed.
Skip == phase \in {"testing", "failed"} /\ NextTest

Hold ==
  /\ phase \in {"testing", "resting"}
  /\ phase' = "held"
  /\ paused' = phase
  /\ UNCHANGED test

Resume ==
  /\ phase \in {"held", "abandoned"}
  /\ phase' = paused
  /\ paused' = "testing"
  /\ UNCHANGED test

Fail == phase \in {"testing", "resting"} /\ Becomes("failed")

Restart == phase' = "testing" /\ test' = 1 /\ paused' = "testing"

\* A crash cuts a restart short: the old run is left without what it did, or the new one
\* has not begun.
TornRestart ==
  \/ phase \notin {"held", "abandoned", "done"} /\ Becomes("abandoned")
  \/ phase' = "idle" /\ test' = 1 /\ paused' = "testing"

Init == phase = "idle" /\ test = 1 /\ paused = "testing"

Next ==
  \/ Begin
  \/ Finish
  \/ FinishFailed
  \/ Lower
  \/ Advance
  \/ Skip
  \/ Hold
  \/ Resume
  \/ Fail
  \/ Restart
  \/ TornRestart

Spec == Init /\ [][Next]_vars
=============================================================================
