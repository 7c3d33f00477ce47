----------------------------- MODULE HlsConsumer -----------------------------
(***************************************************************************)
(* HlsStreamConsumer (src/blink_dashboard/media.py): one object, whose     *)
(* socket and FFmpeg process every call of run() shares.  A run that is    *)
(* ending awaits its cleanup while its successor may already be starting,  *)
(* and is itself cancelled by the runner, before, during or after it has   *)
(* noticed its stop event.                                                 *)
(*                                                                         *)
(* An action is the code between two awaits.  The task of stderr, the HLS  *)
(* files and the contents of the stream are left out.                      *)
(***************************************************************************)
EXTENDS Naturals, FiniteSets

CONSTANTS
  Runs,    \* calls of run(); one that has ended may be made again
  App,     \* the caller of stop() when the application exits
  Procs,   \* FFmpeg processes that may exist at once (a bound)
  None

ASSUME IdentityAssumption == App \notin Runs /\ None \notin Procs \cup Runs

VARIABLES
  pc,         \* the await at which each caller is
  event,      \* its stop_event is set
  owed,       \* it has been cancelled, and does not know yet
  detached,   \* the runner task that awaits it has been cancelled
  cleanup,    \* what its cleanup closes
  pipe,       \* the process whose pipe or end it awaits
  sock,       \* the runs whose connection to the adapter is open
  writer,     \* self._writer: the run that connected it
  process,    \* self.process
  alive,      \* the processes that run
  fed,        \* those whose stdin is open
  stalled,    \* those that leave data unread in their stdin
  cut,        \* those whose cleanup was cancelled
  exiting     \* the application has called stop()

vars == <<pc, event, owed, detached, cleanup, pipe, sock, writer, process,
          alive, fed, stalled, cut, exiting>>

control == <<event, detached, exiting>>
ffmpeg == <<alive, stalled, cut>>

Actors == Runs \cup {App}

Points == {"none", "start", "spawn", "connect", "loop", "read", "drain",
           "close", "flush", "reap", "pause"}

Healthy == process \in alive

Goto(a, point) == pc' = [pc EXCEPT ![a] = point]

Await(a, p) == pipe' = [pipe EXCEPT ![a] = p]

\* An await of wait_for() returns.  Up to Python 3.11 it then drops a cancellation
\* that has come with its result.
Answered(a) == owed' \in {owed, [owed EXCEPT ![a] = FALSE]}

\* The run has ended, or a control has detached it, and it has met its cancellation
\* at an await that it may still be at.
Superseded(r) ==
  \/ pc[r] = "none"
  \/ detached[r] /\ ~owed[r] /\ pc[r] \in {"drain", "close", "flush", "reap"}

-----------------------------------------------------------------------------
(* _close_socket and _stop_ffmpeg, as _recover_after_failure and stop()    *)
(* call them: "socket" keeps FFmpeg, "all" stops it, "final" ends the run. *)

\* Variant: the stdin of the process is not closed.
StopFfmpegFed(a, kind) ==
  IF kind # "socket" /\ process # None
  THEN Goto(a, "flush") /\ Await(a, process) /\ process' = None /\ UNCHANGED fed
  ELSE /\ Goto(a, IF kind = "final" THEN "none" ELSE "pause")
       /\ Await(a, None)
       /\ UNCHANGED <<process, fed>>

StopFfmpeg(a, kind) ==
  IF kind # "socket" /\ process # None
  THEN Goto(a, "flush") /\ Await(a, process) /\ process' = None /\ fed' = fed \ {process}
  ELSE /\ Goto(a, IF kind = "final" THEN "none" ELSE "pause")
       /\ Await(a, None)
       /\ UNCHANGED <<process, fed>>

\* Variant: the socket is forgotten, not closed.
CleanUpOpen(a, kind) ==
  /\ cleanup' = [cleanup EXCEPT ![a] = kind]
  /\ UNCHANGED <<sock, writer>>
  /\ IF writer # None
     THEN Goto(a, "close") /\ Await(a, None) /\ UNCHANGED <<process, fed>>
     ELSE StopFfmpeg(a, kind)

\* The caller drops its own reader, and closes the shared writer.
CleanUp(a, kind) ==
  /\ cleanup' = [cleanup EXCEPT ![a] = kind]
  /\ sock' = sock \ {a, writer}
  /\ UNCHANGED writer
  /\ IF writer # None
     THEN Goto(a, "close") /\ Await(a, None) /\ UNCHANGED <<process, fed>>
     ELSE StopFfmpeg(a, kind)

\* writer.wait_closed() has returned.  Should self._writer be the socket of
\* another run by now, that socket has lost its owner, and may be collected.
SocketClosed(a) ==
  /\ pc[a] = "close"
  /\ writer' = None
  /\ sock' \in {sock, sock \ {writer}}
  /\ StopFfmpeg(a, cleanup[a])
  /\ UNCHANGED <<cleanup, owed, control, ffmpeg>>

\* stdin.wait_closed() has returned: FFmpeg has read everything, or has ended.
Flushed(a) ==
  /\ pc[a] = "flush"
  /\ pipe[a] \notin stalled
  /\ Goto(a, "reap")
  /\ UNCHANGED <<cleanup, pipe, sock, writer, process, fed, owed, control, ffmpeg>>

\* Variant: the process is not killed when it does not end by itself.
ReapedGently(a) ==
  /\ pc[a] = "reap"
  /\ Goto(a, IF cleanup[a] = "final" THEN "none" ELSE "pause")
  /\ Await(a, None)
  /\ Answered(a)
  /\ UNCHANGED <<cleanup, sock, writer, process, fed, control, ffmpeg>>

\* FFmpeg has ended: by itself, after terminate(), or after kill().
Reaped(a) ==
  /\ pc[a] = "reap"
  /\ alive' = alive \ {pipe[a]}
  /\ stalled' = stalled \ {pipe[a]}
  /\ cut' = cut \ {pipe[a]}
  /\ Goto(a, IF cleanup[a] = "final" THEN "none" ELSE "pause")
  /\ Await(a, None)
  /\ Answered(a)
  /\ UNCHANGED <<cleanup, sock, writer, process, fed, control>>

-----------------------------------------------------------------------------
(* run()                                                                   *)

\* What a failure makes the run clean up.
Trouble == IF Healthy THEN "socket" ELSE "all"

\* Anything that raises inside the loop: on_error, then _recover_after_failure.
Failed(r) ==
  /\ \/ pc[r] \in {"spawn", "connect", "read"}
     \/ pc[r] = "drain" /\ pipe[r] \notin alive
  /\ CleanUp(r, Trouble)
  /\ IF pc[r] \in {"connect", "read"} THEN Answered(r) ELSE UNCHANGED owed
  /\ UNCHANGED <<control, ffmpeg>>

\* Variant: FFmpeg is started again although one is running.
TurnAlways(r) ==
  /\ pc[r] \in {"start", "pause"}
  /\ IF event[r]
     THEN CleanUp(r, "final")
     ELSE Goto(r, "spawn") /\ UNCHANGED <<cleanup, pipe, sock, writer, process, fed>>
  /\ IF pc[r] = "pause" THEN Answered(r) ELSE UNCHANGED owed
  /\ UNCHANGED <<control, ffmpeg>>

\* Variant: the loop goes on after a failure without looking at the event.
TurnBlind(r) ==
  /\ pc[r] \in {"start", "pause"}
  /\ Goto(r, IF Healthy THEN "connect" ELSE "spawn")
  /\ IF pc[r] = "pause" THEN Answered(r) ELSE UNCHANGED owed
  /\ UNCHANGED <<cleanup, pipe, sock, writer, process, fed, control, ffmpeg>>

\* Variant: the pause after a failure has no timeout.
TurnWaits(r) ==
  /\ pc[r] = "start" \/ event[r]
  /\ pc[r] \in {"start", "pause"}
  /\ IF event[r]
     THEN CleanUp(r, "final")
     ELSE /\ Goto(r, IF Healthy THEN "connect" ELSE "spawn")
          /\ UNCHANGED <<cleanup, pipe, sock, writer, process, fed>>
  /\ IF pc[r] = "pause" THEN Answered(r) ELSE UNCHANGED owed
  /\ UNCHANGED <<control, ffmpeg>>

\* The head of the outer loop; an FFmpeg that runs is used again.
Turn(r) ==
  /\ pc[r] \in {"start", "pause"}
  /\ IF event[r]
     THEN CleanUp(r, "final")
     ELSE /\ Goto(r, IF Healthy THEN "connect" ELSE "spawn")
          /\ UNCHANGED <<cleanup, pipe, sock, writer, process, fed>>
  /\ IF pc[r] = "pause" THEN Answered(r) ELSE UNCHANGED owed
  /\ UNCHANGED <<control, ffmpeg>>

Spawned(r) ==
  /\ pc[r] = "spawn"
  /\ \E p \in Procs \ (alive \cup {process} \cup {pipe[a] : a \in Actors}) :
       /\ alive' = alive \cup {p}
       /\ fed' = fed \cup {p}
       /\ process' = p
  /\ Goto(r, "connect")
  /\ UNCHANGED <<cleanup, pipe, sock, writer, stalled, cut, owed, control>>

Connected(r) ==
  /\ pc[r] = "connect"
  /\ sock' = sock \cup {r}
  /\ writer' = r
  /\ Goto(r, "loop")
  /\ Answered(r)
  /\ UNCHANGED <<cleanup, pipe, process, fed, control, ffmpeg>>

\* The head of the inner loop; without self._reader the next read raises.
Again(r) ==
  /\ IF event[r] THEN CleanUp(r, "final")
     ELSE IF writer = r THEN /\ Goto(r, "read") /\ Await(r, None)
                             /\ UNCHANGED <<cleanup, sock, writer, process, fed>>
     ELSE CleanUp(r, Trouble)
  /\ UNCHANGED <<owed, control, ffmpeg>>

Loop(r) ==
  /\ pc[r] = "loop"
  /\ Again(r)

\* A chunk is written to the process of the moment.
Chunk(r) ==
  /\ pc[r] = "read"
  /\ r \in sock
  /\ Healthy
  /\ Goto(r, "drain")
  /\ Await(r, process)
  /\ Answered(r)
  /\ UNCHANGED <<cleanup, sock, writer, process, fed, control, ffmpeg>>

Drained(r) ==
  /\ pc[r] = "drain"
  /\ pipe[r] \notin stalled
  /\ Again(r)

-----------------------------------------------------------------------------
(* The runner and the application.                                         *)

\* A runner task starts a run.
Start(r) ==
  /\ pc[r] = "none"
  /\ ~exiting
  /\ \A q \in Runs : Superseded(q)
  /\ Goto(r, "start")
  /\ event' = [event EXCEPT ![r] = FALSE]
  /\ owed' = [owed EXCEPT ![r] = FALSE]
  /\ detached' = [detached EXCEPT ![r] = FALSE]
  /\ cleanup' = [cleanup EXCEPT ![r] = "no"]
  /\ UNCHANGED <<pipe, sock, writer, process, fed, exiting, ffmpeg>>

\* The runner ends the test: it sets the event, and cancels the run at once.
Finish(r) ==
  /\ pc[r] # "none"
  /\ ~event[r]
  /\ event' = [event EXCEPT ![r] = TRUE]
  /\ owed' = [owed EXCEPT ![r] = TRUE]
  /\ UNCHANGED <<pc, detached, cleanup, pipe, sock, writer, process, fed, exiting, ffmpeg>>

\* A control sets the event, and cancels the runner task: which passes this on to
\* the run, also when it is only waiting for the run to end.
Detach(r) ==
  /\ pc[r] # "none"
  /\ ~detached[r]
  /\ event' = [event EXCEPT ![r] = TRUE]
  /\ owed' = [owed EXCEPT ![r] = TRUE]
  /\ detached' = [detached EXCEPT ![r] = TRUE]
  /\ UNCHANGED <<pc, cleanup, pipe, sock, writer, process, fed, exiting, ffmpeg>>

\* CancelledError is raised at the await.  A task that has not begun just ends, one
\* that has ended takes no notice; a run begins its final cleanup; a final cleanup stops where it is.
Cancelled(r) ==
  /\ owed[r]
  /\ owed' = [owed EXCEPT ![r] = FALSE]
  /\ cut' = cut \cup (IF pc[r] \in {"flush", "reap"} THEN alive \cap {pipe[r]} ELSE {})
  /\ \/ /\ pc[r] \in {"none", "start"} \/ cleanup[r] = "final"
        /\ Goto(r, "none")
        /\ Await(r, None)
        /\ UNCHANGED <<cleanup, sock, writer, process, fed>>
     \/ /\ pc[r] \notin {"none", "start"}
        /\ cleanup[r] # "final"
        /\ CleanUp(r, "final")
  /\ UNCHANGED <<event, detached, exiting, alive, stalled>>

\* DashboardApplication.stop, after ExperimentRunner.shutdown
AppStop ==
  /\ pc[App] = "none"
  /\ ~exiting
  /\ \A r \in Runs : Superseded(r)
  /\ exiting' = TRUE
  /\ CleanUp(App, "final")
  /\ UNCHANGED <<event, owed, detached, ffmpeg>>

-----------------------------------------------------------------------------
(* FFmpeg                                                                  *)

Exits(p) ==
  /\ p \in alive
  /\ alive' = alive \ {p}
  /\ stalled' = stalled \ {p}
  /\ cut' = cut \ {p}
  /\ fed' = fed \ {p}
  /\ UNCHANGED <<pc, cleanup, pipe, sock, writer, process, owed, control>>

Stalls(p) ==
  /\ p \in fed
  /\ stalled' = stalled \cup {p}
  /\ UNCHANGED <<pc, cleanup, pipe, sock, writer, process, fed, alive, cut, owed, control>>

ReadsOn(p) ==
  /\ p \in stalled
  /\ stalled' = stalled \ {p}
  /\ UNCHANGED <<pc, cleanup, pipe, sock, writer, process, fed, alive, cut, owed, control>>

-----------------------------------------------------------------------------
Init ==
  /\ pc = [a \in Actors |-> "none"]
  /\ event = [a \in Actors |-> TRUE]
  /\ owed = [a \in Actors |-> FALSE]
  /\ detached = [a \in Actors |-> FALSE]
  /\ cleanup = [a \in Actors |-> "no"]
  /\ pipe = [a \in Actors |-> None]
  /\ sock = {} /\ writer = None
  /\ process = None /\ alive = {} /\ fed = {} /\ stalled = {} /\ cut = {}
  /\ exiting = FALSE

Steps(a) == SocketClosed(a) \/ Flushed(a) \/ Reaped(a)

RunSteps(r) ==
  \/ Failed(r)
  \/ Turn(r)
  \/ Spawned(r)
  \/ Connected(r)
  \/ Loop(r)
  \/ Chunk(r)
  \/ Drained(r)
  \/ Steps(r)

Next ==
  \/ \E r \in Runs :
       \/ RunSteps(r)
       \/ Start(r)
       \/ Finish(r)
       \/ Detach(r)
       \/ Cancelled(r)
  \/ Steps(App)
  \/ AppStop
  \/ \E p \in Procs : Exits(p) \/ Stalls(p) \/ ReadsOn(p)

Spec == Init /\ [][Next]_vars

\* The event loop runs what is ready, and every await of run() but those on the
\* pipe of FFmpeg has a timeout.  Nothing obliges FFmpeg to read or to end.
Fairness ==
  /\ \A r \in Runs : WF_vars(RunSteps(r)) /\ WF_vars(Cancelled(r))
  /\ WF_vars(Steps(App))

FairSpec == Spec /\ Fairness

-----------------------------------------------------------------------------
\* Every variable keeps its type, and only a process that runs is fed or stalled.
TypeOK ==
  /\ pc \in [Actors -> Points]
  /\ event \in [Actors -> BOOLEAN]
  /\ owed \in [Actors -> BOOLEAN]
  /\ detached \in [Actors -> BOOLEAN]
  /\ cleanup \in [Actors -> {"no", "socket", "all", "final"}]
  /\ pipe \in [Actors -> Procs \cup {None}]
  /\ sock \subseteq Runs
  /\ writer \in Runs \cup {None}
  /\ process \in Procs \cup {None}
  /\ alive \subseteq Procs
  /\ fed \subseteq alive
  /\ stalled \subseteq alive
  /\ cut \subseteq alive
  /\ exiting \in BOOLEAN

\* The docstring of run(), media.py:180: "reconnecting without a second stream
\* client".  This holds even while one run is ending and the next has begun; only a
\* run whose cancellation was dropped may keep its socket, until FFmpeg reads on.
OneStreamClient == Cardinality({r \in sock : ~(event[r] /\ pc[r] = "drain")}) <= 1

\* At most one FFmpeg has an open stdin, and it is the one that self.process names:
\* the next run uses it, or the next stop() ends it.
OneFfmpegIsFed == fed \subseteq {process}

\* Every other FFmpeg that runs is being awaited by a caller that will kill it if
\* need be; the only ones left to themselves are those whose cleanup was cancelled.
NoStrayFfmpeg ==
  alive \subseteq {process} \cup cut \cup {pipe[a] : a \in {b \in Actors : pc[b] \in {"flush", "reap"}}}

\* Once its event is set a run ends, and so does stop(): whatever it was doing, and
\* whenever it is cancelled.  Only an FFmpeg that leaves its stdin unread can hold
\* it: neither drain() nor wait_closed() has a timeout.
StopEnds ==
  \A a \in Actors : (pc[a] # "none" /\ event[a]) ~> (pc[a] = "none" \/ pipe[a] \in stalled)

\* After a failure a run that is not stopped tries again.
FailureIsRetried ==
  \A r \in Runs :
    (pc[r] \in {"close", "flush", "reap", "pause"} /\ ~event[r]) ~>
      (event[r] \/ pc[r] \in {"spawn", "connect"} \/ pipe[r] \in stalled)
=============================================================================
