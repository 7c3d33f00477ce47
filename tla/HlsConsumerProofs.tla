-------------------------- MODULE HlsConsumerProofs --------------------------
(***************************************************************************)
(* For any number of overlapping runs and of FFmpeg processes: the types,  *)
(* one stream client, one fed FFmpeg, and no FFmpeg that nobody ends.      *)
(*                                                                         *)
(* All of it rests on one fact: of two runs, at least one has met its      *)
(* cancellation and will neither connect nor start FFmpeg again (Apart).   *)
(***************************************************************************)
EXTENDS HlsConsumer, FiniteSetTheorems, TLAPS

Kinds == {"socket", "all", "final"}

\* The run has ended, or is at an await behind which only its cleanup is left.
Past(r) ==
  pc[r] = "none" \/ (event[r] /\ pc[r] \in {"drain", "close", "flush", "reap", "pause"})

Apart == \A r, q \in Runs : r # q => Past(r) \/ Past(q)

DetachedIsStopped == \A r \in Runs : detached[r] => event[r]

CleanupKnown == \A a \in Actors : pc[a] = "close" => cleanup[a] \in Kinds

\* Behind the final cleanup a run has nothing left to do.
CleanupIsLast ==
  \A a \in Actors : cleanup[a] = "final" => pc[a] \in {"none", "close", "flush", "reap"}

OwnSockets == \A r \in sock : pc[r] \in {"loop", "read", "drain"}

SpawnerNeeded == \A r \in Runs : pc[r] = "spawn" => process \notin alive

PipesApart ==
  \A a \in Actors : pc[a] \in {"flush", "reap"} => pipe[a] \in Procs /\ pipe[a] # process

\* NoStrayFfmpeg, one process at a time
Tended ==
  \A p \in alive :
    \/ p = process
    \/ p \in cut
    \/ \E a \in Actors : pc[a] \in {"flush", "reap"} /\ pipe[a] = p

IInv ==
  /\ TypeOK
  /\ Apart
  /\ DetachedIsStopped
  /\ CleanupKnown
  /\ CleanupIsLast
  /\ OwnSockets
  /\ SpawnerNeeded
  /\ PipesApart
  /\ OneFfmpegIsFed
  /\ Tended

-----------------------------------------------------------------------------
LEMMA InitInv == Init => IInv
<1> SUFFICES ASSUME Init PROVE IInv
  OBVIOUS
<1>1. TypeOK
  BY DEF Init, TypeOK, Points
<1>2. Apart /\ DetachedIsStopped /\ CleanupKnown /\ CleanupIsLast /\ OwnSockets /\ SpawnerNeeded /\ PipesApart
  BY DEF Init, Apart, Past, DetachedIsStopped, CleanupKnown, CleanupIsLast, OwnSockets, SpawnerNeeded, PipesApart, Actors
<1>3. OneFfmpegIsFed /\ Tended
  BY DEF Init, OneFfmpegIsFed, Tended
<1> QED BY <1>1, <1>2, <1>3 DEF IInv

-----------------------------------------------------------------------------
\* What every step of a cleanup has in common, whoever takes it and why.
Tidies(a) ==
  /\ sock' \subseteq sock
  /\ a \notin sock'
  /\ writer' \in {writer, None}
  /\ cleanup' \in [Actors -> {"no", "socket", "all", "final"}]
  /\ \A b \in Actors \ {a} : cleanup'[b] = cleanup[b]
  /\ \/ /\ Goto(a, "close")
        /\ Await(a, None)
        /\ UNCHANGED <<process, fed>>
        /\ cleanup'[a] \in Kinds
     \/ cleanup'[a] \in Kinds /\ StopFfmpeg(a, cleanup'[a])
  /\ UNCHANGED <<alive, stalled, event, detached>>
  /\ exiting' \in BOOLEAN
  /\ owed' \in [Actors -> BOOLEAN]
  /\ cut \subseteq cut'
  /\ cut' \subseteq alive
  /\ pc[a] \in {"flush", "reap"} => alive \cap {pipe[a]} \subseteq cut'
  /\ a \in Runs => pc[a] # "none"

\* Where such a step leads, and what becomes of the process.
LEMMA TidiesGoes ==
  ASSUME IInv, NEW a \in Actors, Tidies(a)
  PROVE  /\ pc' \in [Actors -> Points] /\ pipe' \in [Actors -> Procs \cup {None}]
         /\ pc'[a] \in {"close", "flush", "pause", "none"}
         /\ \A b \in Actors \ {a} : pc'[b] = pc[b] /\ pipe'[b] = pipe[b]
         /\ pc'[a] = "close" => cleanup'[a] \in Kinds
         /\ pc'[a] = "pause" => cleanup'[a] # "final"
         /\ \/ process' = process /\ fed' = fed /\ pc'[a] # "flush"
            \/ /\ process \in Procs /\ process' = None /\ fed' = fed \ {process}
               /\ pc'[a] = "flush" /\ pipe'[a] = process
<1>1. CASE Goto(a, "close") /\ Await(a, None) /\ UNCHANGED <<process, fed>> /\ cleanup'[a] \in Kinds
  BY <1>1 DEF IInv, TypeOK, Goto, Await, Points
<1>2. ASSUME NEW kind \in Kinds, StopFfmpeg(a, kind), cleanup'[a] = kind
      PROVE  /\ pc' \in [Actors -> Points] /\ pipe' \in [Actors -> Procs \cup {None}]
             /\ pc'[a] \in {"flush", "pause", "none"}
             /\ \A b \in Actors \ {a} : pc'[b] = pc[b] /\ pipe'[b] = pipe[b]
             /\ pc'[a] = "pause" => cleanup'[a] # "final"
             /\ \/ process' = process /\ fed' = fed /\ pc'[a] # "flush"
                \/ /\ process \in Procs /\ process' = None /\ fed' = fed \ {process}
                   /\ pc'[a] = "flush" /\ pipe'[a] = process
  BY <1>2 DEF IInv, TypeOK, Goto, Await, Points, StopFfmpeg, Kinds
<1> QED BY <1>1, <1>2 DEF Tidies

LEMMA TidiesInv == ASSUME IInv, NEW a \in Actors, Tidies(a) PROVE IInv'
<1>1. /\ pc' \in [Actors -> Points] /\ pipe' \in [Actors -> Procs \cup {None}]
      /\ pc'[a] \in {"close", "flush", "pause", "none"}
      /\ \A b \in Actors \ {a} : pc'[b] = pc[b] /\ pipe'[b] = pipe[b]
      /\ pc'[a] = "close" => cleanup'[a] \in Kinds
      /\ pc'[a] = "pause" => cleanup'[a] # "final"
      /\ \/ process' = process /\ fed' = fed /\ pc'[a] # "flush"
         \/ /\ process \in Procs /\ process' = None /\ fed' = fed \ {process}
            /\ pc'[a] = "flush" /\ pipe'[a] = process
  BY TidiesGoes
<1>2. TypeOK'
  BY <1>1 DEF IInv, TypeOK, Tidies
<1>3. Apart'
  <2> SUFFICES ASSUME NEW r \in Runs, NEW q \in Runs, r # q, ~Past(r)' PROVE Past(q)'
    BY DEF Apart
  <2>1. event' = event /\ (a \in Runs => pc[a] # "none")
    BY DEF Tidies
  <2>2. CASE q = a
    <3>1. ~Past(r)
      BY <1>1, <2>1, <2>2 DEF Past, Actors
    <3>2. Past(q)
      BY <3>1 DEF IInv, Apart
    <3> QED BY <1>1, <2>1, <2>2, <3>2 DEF Past
  <2>3. CASE r = a
    <3>1. ~Past(r)
      BY <1>1, <2>1, <2>3 DEF Past
    <3>2. Past(q)
      BY <3>1 DEF IInv, Apart
    <3> QED BY <1>1, <2>1, <2>3, <3>2 DEF Past, Actors
  <2>4. CASE q # a /\ r # a
    BY <1>1, <2>1, <2>4 DEF Past, IInv, Apart, Actors
  <2> QED BY <2>2, <2>3, <2>4
<1>4. DetachedIsStopped' /\ CleanupKnown' /\ CleanupIsLast'
  BY <1>1 DEF IInv, DetachedIsStopped, CleanupKnown, CleanupIsLast, Tidies, TypeOK
<1>5. OwnSockets'
  BY <1>1 DEF IInv, OwnSockets, Tidies, TypeOK, Actors
<1>6. SpawnerNeeded'
  BY <1>1, IdentityAssumption DEF IInv, SpawnerNeeded, Tidies, TypeOK, Actors
<1>7. PipesApart' /\ OneFfmpegIsFed'
  BY <1>1, IdentityAssumption DEF IInv, PipesApart, OneFfmpegIsFed
<1>8. Tended'
  <2> SUFFICES ASSUME NEW p \in alive
               PROVE  \/ p = process'
                      \/ p \in cut'
                      \/ \E b \in Actors : pc'[b] \in {"flush", "reap"} /\ pipe'[b] = p
    BY DEF Tended, Tidies
  <2>1. CASE p = process
    BY <1>1, <2>1
  <2>2. CASE p \in cut
    BY <2>2 DEF Tidies
  <2>3. ASSUME NEW b \in Actors, pc[b] \in {"flush", "reap"}, pipe[b] = p
        PROVE  p \in cut' \/ (pc'[b] \in {"flush", "reap"} /\ pipe'[b] = p)
    <3>1. CASE b = a
      BY <2>3, <3>1 DEF Tidies
    <3>2. CASE b # a
      BY <1>1, <2>3, <3>2
    <3> QED BY <3>1, <3>2
  <2> QED BY <2>1, <2>2, <2>3 DEF IInv, Tended
<1> QED BY <1>2, <1>3, <1>4, <1>5, <1>6, <1>7, <1>8 DEF IInv

\* CleanUp is such a step when nothing else is lost with it.
LEMMA CleanUpTidies ==
  ASSUME IInv, NEW a \in Actors, NEW kind \in Kinds, CleanUp(a, kind),
         a \in Runs => pc[a] # "none",
         pc[a] \in {"flush", "reap"} => alive \cap {pipe[a]} \subseteq cut',
         cut \subseteq cut', cut' \subseteq alive,
         owed' \in [Actors -> BOOLEAN], exiting' \in BOOLEAN,
         UNCHANGED <<event, detached, alive, stalled>>
  PROVE  Tidies(a)
<1>1. cleanup' \in [Actors -> {"no", "socket", "all", "final"}] /\ cleanup'[a] = kind
      /\ \A b \in Actors \ {a} : cleanup'[b] = cleanup[b]
  BY DEF CleanUp, IInv, TypeOK, Kinds
<1>2. sock' \subseteq sock /\ a \notin sock' /\ writer' = writer
  BY DEF CleanUp
<1>3. \/ Goto(a, "close") /\ Await(a, None) /\ UNCHANGED <<process, fed>>
      \/ StopFfmpeg(a, kind)
  BY DEF CleanUp
<1> QED BY <1>1, <1>2, <1>3 DEF Tidies

-----------------------------------------------------------------------------
\* A wait_for() that returns changes nothing else, and keeps the type of owed.
LEMMA AnsweredType ==
  ASSUME IInv, NEW a \in Actors, Answered(a)
  PROVE  owed' \in [Actors -> BOOLEAN]
  BY DEF IInv, TypeOK, Answered

LEMMA SocketClosedInv == ASSUME IInv, NEW a \in Actors, SocketClosed(a) PROVE IInv'
<1>1. cleanup[a] \in Kinds /\ a \notin sock
  BY DEF IInv, CleanupKnown, CleanupIsLast, OwnSockets, SocketClosed
<1>2. Tidies(a)
  BY <1>1 DEF Tidies, SocketClosed, IInv, TypeOK, control, ffmpeg
<1> QED BY <1>2, TidiesInv

LEMMA FlushedInv == ASSUME IInv, NEW a \in Actors, Flushed(a) PROVE IInv'
<1>1. /\ pc' = [pc EXCEPT ![a] = "reap"] /\ pc[a] = "flush"
      /\ UNCHANGED <<cleanup, pipe, sock, writer, process, fed, owed, event, detached,
                     exiting, alive, stalled, cut>>
  BY DEF Flushed, Goto, control, ffmpeg
<1>2. TypeOK'
  BY <1>1 DEF IInv, TypeOK, Points
<1>3. Apart' /\ DetachedIsStopped' /\ CleanupKnown' /\ CleanupIsLast' /\ OwnSockets'
  BY <1>1 DEF IInv, TypeOK, Apart, Past, DetachedIsStopped, CleanupKnown, CleanupIsLast, OwnSockets, Actors
<1>4. SpawnerNeeded' /\ PipesApart' /\ OneFfmpegIsFed' /\ Tended'
  BY <1>1 DEF IInv, TypeOK, SpawnerNeeded, PipesApart, OneFfmpegIsFed, Tended, Actors
<1> QED BY <1>2, <1>3, <1>4 DEF IInv

LEMMA ReapedInv == ASSUME IInv, NEW a \in Actors, Reaped(a) PROVE IInv'
<1>1. /\ pc[a] = "reap" /\ pc' = [pc EXCEPT ![a] = IF cleanup[a] = "final" THEN "none" ELSE "pause"]
      /\ pipe' = [pipe EXCEPT ![a] = None]
      /\ alive' = alive \ {pipe[a]} /\ stalled' = stalled \ {pipe[a]} /\ cut' = cut \ {pipe[a]}
      /\ UNCHANGED <<cleanup, sock, writer, process, fed, event, detached, exiting>>
  BY DEF Reaped, Goto, Await, control
<1>2. pipe[a] # process /\ owed' \in [Actors -> BOOLEAN]
  BY AnsweredType DEF IInv, PipesApart, Reaped
<1>3. TypeOK'
  BY <1>1, <1>2 DEF IInv, TypeOK, Points, OneFfmpegIsFed
<1>4. Apart' /\ DetachedIsStopped' /\ CleanupKnown' /\ CleanupIsLast' /\ OwnSockets'
  BY <1>1 DEF IInv, TypeOK, Apart, Past, DetachedIsStopped, CleanupKnown, CleanupIsLast, OwnSockets, Actors
<1>5. SpawnerNeeded' /\ PipesApart' /\ OneFfmpegIsFed'
  BY <1>1 DEF IInv, TypeOK, SpawnerNeeded, PipesApart, OneFfmpegIsFed, Actors
<1>6. Tended'
  BY <1>1 DEF IInv, TypeOK, Tended
<1> QED BY <1>3, <1>4, <1>5, <1>6 DEF IInv

-----------------------------------------------------------------------------
LEMMA FailedInv == ASSUME IInv, NEW r \in Runs, Failed(r) PROVE IInv'
<1>1. Trouble \in Kinds /\ CleanUp(r, Trouble) /\ pc[r] \notin {"none", "flush", "reap"}
  BY DEF Failed, Trouble, Kinds
<1>2. r \in Actors /\ owed' \in [Actors -> BOOLEAN]
  BY AnsweredType DEF Failed, IInv, TypeOK, Actors
<1>3. UNCHANGED <<event, detached, exiting, alive, stalled, cut>>
  BY DEF Failed, control, ffmpeg
<1>4. Tidies(r)
  BY <1>1, <1>2, <1>3, CleanUpTidies DEF IInv, TypeOK
<1> QED BY <1>2, <1>4, TidiesInv

\* A step that moves one run among points that no clause is about.
LEMMA MovesInv ==
  ASSUME IInv, NEW r \in Runs, NEW point \in {"spawn", "connect", "loop", "read", "drain"},
         NEW old \in {"start", "pause", "connect", "loop", "read", "drain"},
         pc[r] = old, pc' = [pc EXCEPT ![r] = point],
         ~event[r] \/ old \in {"connect", "read"},
         pipe' \in [Actors -> Procs \cup {None}],
         \A b \in Actors \ {r} : pipe'[b] = pipe[b],
         owed' \in [Actors -> BOOLEAN], writer' \in Runs \cup {None},
         sock' \subseteq sock \cup {r},
         r \in sock' => point \in {"loop", "read", "drain"},
         point = "spawn" => process \notin alive,
         UNCHANGED <<cleanup, process, fed, alive, stalled, cut, event, detached, exiting>>
  PROVE  IInv'
<1>0. r \in Actors /\ \A b \in Actors \ {r} : pc'[b] = pc[b]
  BY DEF Actors, IInv, TypeOK
<1>1. TypeOK'
  BY <1>0 DEF IInv, TypeOK, Points
<1>2. Apart'
  BY <1>0 DEF IInv, TypeOK, Apart, Past, Actors
<1>3. DetachedIsStopped' /\ CleanupKnown' /\ CleanupIsLast' /\ OwnSockets' /\ SpawnerNeeded'
  BY <1>0 DEF IInv, TypeOK, DetachedIsStopped, CleanupKnown, CleanupIsLast, OwnSockets, SpawnerNeeded, Actors
<1>4. PipesApart' /\ OneFfmpegIsFed'
  BY <1>0 DEF IInv, TypeOK, PipesApart, OneFfmpegIsFed
<1>5. Tended'
  BY <1>0 DEF IInv, TypeOK, Tended
<1> QED BY <1>1, <1>2, <1>3, <1>4, <1>5 DEF IInv

LEMMA TurnInv == ASSUME IInv, NEW r \in Runs, Turn(r) PROVE IInv'
<1>1. r \in Actors /\ owed' \in [Actors -> BOOLEAN] /\ pc[r] \in {"start", "pause"}
  BY AnsweredType DEF Turn, IInv, TypeOK, Actors
<1>2. UNCHANGED <<event, detached, exiting, alive, stalled, cut>>
  BY DEF Turn, control, ffmpeg
<1>3. CASE event[r]
  <2>1. CleanUp(r, "final")
    BY <1>3 DEF Turn
  <2>2. Tidies(r)
    BY <1>1, <1>2, <2>1, CleanUpTidies DEF IInv, TypeOK, Kinds
  <2> QED BY <1>1, <2>2, TidiesInv
<1>4. CASE ~event[r]
  <2>1. /\ pc' = [pc EXCEPT ![r] = IF process \in alive THEN "connect" ELSE "spawn"]
        /\ UNCHANGED <<cleanup, pipe, sock, writer, process, fed>>
    BY <1>4 DEF Turn, Goto, Healthy
  <2>2. r \notin sock /\ sock' \subseteq sock \cup {r} /\ writer' \in Runs \cup {None}
        /\ pipe' \in [Actors -> Procs \cup {None}]
    BY <1>1, <2>1 DEF IInv, OwnSockets, TypeOK
  <2>3. CASE process \in alive
    BY <1>1, <1>2, <1>4, <2>1, <2>2, <2>3, MovesInv
  <2>4. CASE process \notin alive
    BY <1>1, <1>2, <1>4, <2>1, <2>2, <2>4, MovesInv
  <2> QED BY <2>3, <2>4
<1> QED BY <1>3, <1>4

LEMMA SpawnedInv == ASSUME IInv, NEW r \in Runs, Spawned(r) PROVE IInv'
<1>1. PICK p \in Procs \ (alive \cup {process} \cup {pipe[a] : a \in Actors}) :
        alive' = alive \cup {p} /\ fed' = fed \cup {p} /\ process' = p
  BY DEF Spawned
<1>2. /\ pc[r] = "spawn" /\ pc' = [pc EXCEPT ![r] = "connect"] /\ r \in Actors
      /\ UNCHANGED <<cleanup, pipe, sock, writer, stalled, cut, owed, event, detached, exiting>>
  BY DEF Spawned, Goto, control, Actors
<1>3. fed = {} /\ process \notin alive
  BY <1>2 DEF IInv, TypeOK, SpawnerNeeded, OneFfmpegIsFed
<1>4. TypeOK'
  BY <1>1, <1>2 DEF IInv, TypeOK, Points
<1>5. Apart'
  BY <1>2 DEF IInv, TypeOK, Apart, Past, Actors
<1>6. DetachedIsStopped' /\ CleanupKnown' /\ CleanupIsLast' /\ OwnSockets'
  BY <1>2 DEF IInv, TypeOK, DetachedIsStopped, CleanupKnown, CleanupIsLast, OwnSockets, Actors
<1>7. SpawnerNeeded'
  <2> SUFFICES ASSUME NEW q \in Runs, pc'[q] = "spawn" PROVE FALSE
    BY DEF SpawnerNeeded
  <2>1. q # r /\ pc[q] = "spawn"
    BY <1>2 DEF IInv, TypeOK, Actors
  <2> QED BY <1>2, <2>1 DEF IInv, Apart, Past
<1>8. PipesApart' /\ OneFfmpegIsFed'
  BY <1>1, <1>2, <1>3 DEF IInv, TypeOK, PipesApart, OneFfmpegIsFed
<1>9. Tended'
  BY <1>1, <1>2, <1>3 DEF IInv, TypeOK, Tended
<1> QED BY <1>4, <1>5, <1>6, <1>7, <1>8, <1>9 DEF IInv

LEMMA ConnectedInv == ASSUME IInv, NEW r \in Runs, Connected(r) PROVE IInv'
<1>1. r \in Actors /\ owed' \in [Actors -> BOOLEAN]
  BY AnsweredType DEF Connected, Actors
<1>2. /\ pc[r] = "connect" /\ pc' = [pc EXCEPT ![r] = "loop"]
      /\ sock' = sock \cup {r} /\ writer' = r
      /\ UNCHANGED <<cleanup, pipe, process, fed, alive, stalled, cut, event, detached, exiting>>
  BY DEF Connected, Goto, control, ffmpeg
<1>3. pipe' \in [Actors -> Procs \cup {None}]
  BY <1>2 DEF IInv, TypeOK
<1> QED BY <1>1, <1>2, <1>3, MovesInv

LEMMA AgainInv ==
  ASSUME IInv, NEW r \in Runs, pc[r] \in {"loop", "drain"}, Again(r)
  PROVE  IInv'
<1>1. r \in Actors /\ owed' \in [Actors -> BOOLEAN]
  BY DEF Again, IInv, TypeOK, Actors
<1>2. UNCHANGED <<event, detached, exiting, alive, stalled, cut>>
  BY DEF Again, control, ffmpeg
<1>3. ASSUME NEW kind \in Kinds, CleanUp(r, kind) PROVE IInv'
  <2>1. Tidies(r)
    BY <1>1, <1>2, <1>3, CleanUpTidies DEF IInv, TypeOK
  <2> QED BY <1>1, <2>1, TidiesInv
<1>4. CASE ~event[r] /\ writer = r
  <2>1. /\ pc' = [pc EXCEPT ![r] = "read"] /\ pipe' = [pipe EXCEPT ![r] = None]
        /\ UNCHANGED <<cleanup, sock, writer, process, fed>>
    BY <1>4 DEF Again, Goto, Await
  <2>2. /\ pipe' \in [Actors -> Procs \cup {None}]
        /\ \A b \in Actors \ {r} : pipe'[b] = pipe[b]
        /\ writer' \in Runs \cup {None}
    BY <2>1 DEF IInv, TypeOK
  <2> QED BY <1>1, <1>2, <1>4, <2>1, <2>2, MovesInv
<1>5. CASE event[r] \/ writer # r
  BY <1>3, <1>5 DEF Again, Trouble, Kinds
<1> QED BY <1>4, <1>5

LEMMA ChunkInv == ASSUME IInv, NEW r \in Runs, Chunk(r) PROVE IInv'
<1>1. r \in Actors /\ owed' \in [Actors -> BOOLEAN]
  BY AnsweredType DEF Chunk, Actors
<1>2. /\ pc[r] = "read" /\ pc' = [pc EXCEPT ![r] = "drain"]
      /\ pipe' = [pipe EXCEPT ![r] = process]
      /\ UNCHANGED <<cleanup, sock, writer, process, fed, alive, stalled, cut, event, detached, exiting>>
  BY DEF Chunk, Goto, Await, control, ffmpeg
<1>3. /\ pipe' \in [Actors -> Procs \cup {None}]
      /\ \A b \in Actors \ {r} : pipe'[b] = pipe[b]
      /\ writer' \in Runs \cup {None}
  BY <1>2 DEF IInv, TypeOK
<1> QED BY <1>1, <1>2, <1>3, MovesInv

LEMMA RunStepsInv == ASSUME IInv, NEW r \in Runs, RunSteps(r) PROVE IInv'
<1>1. r \in Actors
  BY DEF Actors
<1> QED
  BY <1>1, FailedInv, TurnInv, SpawnedInv, ConnectedInv, AgainInv, ChunkInv, SocketClosedInv,
     FlushedInv, ReapedInv DEF RunSteps, Steps, Loop, Drained

-----------------------------------------------------------------------------
LEMMA StartInv == ASSUME IInv, NEW r \in Runs, Start(r) PROVE IInv'
<1>1. /\ pc[r] = "none" /\ pc' = [pc EXCEPT ![r] = "start"] /\ r \in Actors
      /\ event' = [event EXCEPT ![r] = FALSE] /\ owed' = [owed EXCEPT ![r] = FALSE]
      /\ detached' = [detached EXCEPT ![r] = FALSE] /\ cleanup' = [cleanup EXCEPT ![r] = "no"]
      /\ UNCHANGED <<pipe, sock, writer, process, fed, exiting, alive, stalled, cut>>
  BY DEF Start, Goto, ffmpeg, Actors
<1>2. TypeOK'
  BY <1>1 DEF IInv, TypeOK, Points
<1>3. Apart'
  <2>1. ASSUME NEW q \in Runs, q # r PROVE Past(q)'
    <3>1. Superseded(q) /\ (detached[q] => event[q])
      BY DEF Start, IInv, DetachedIsStopped
    <3>2. pc'[q] = pc[q] /\ event'[q] = event[q]
      BY <1>1, <2>1 DEF IInv, TypeOK, Actors
    <3> QED BY <3>1, <3>2 DEF Superseded, Past
  <2> QED BY <2>1 DEF Apart
<1>4. DetachedIsStopped' /\ CleanupKnown' /\ CleanupIsLast' /\ OwnSockets' /\ SpawnerNeeded'
  BY <1>1 DEF IInv, TypeOK, DetachedIsStopped, CleanupKnown, CleanupIsLast, OwnSockets, SpawnerNeeded, Actors
<1>5. PipesApart' /\ OneFfmpegIsFed' /\ Tended'
  BY <1>1 DEF IInv, TypeOK, PipesApart, OneFfmpegIsFed, Tended, Actors
<1> QED BY <1>2, <1>3, <1>4, <1>5 DEF IInv

\* Both ways to stop a run only mark it.
LEMMA MarkInv ==
  ASSUME IInv, NEW r \in Runs, Finish(r) \/ Detach(r)
  PROVE  IInv'
<1>1. /\ r \in Actors /\ event' = [event EXCEPT ![r] = TRUE] /\ owed' = [owed EXCEPT ![r] = TRUE]
      /\ detached' \in {detached, [detached EXCEPT ![r] = TRUE]}
      /\ UNCHANGED <<pc, cleanup, pipe, sock, writer, process, fed, exiting, alive, stalled, cut>>
  BY DEF Finish, Detach, ffmpeg, Actors
<1>2. TypeOK'
  BY <1>1 DEF IInv, TypeOK
<1>3. Apart' /\ DetachedIsStopped'
  BY <1>1 DEF IInv, TypeOK, Apart, Past, DetachedIsStopped, Actors
<1>4. CleanupKnown' /\ CleanupIsLast' /\ OwnSockets' /\ SpawnerNeeded'
  BY <1>1 DEF IInv, CleanupKnown, CleanupIsLast, OwnSockets, SpawnerNeeded
<1>5. PipesApart' /\ OneFfmpegIsFed' /\ Tended'
  BY <1>1 DEF IInv, PipesApart, OneFfmpegIsFed, Tended
<1> QED BY <1>2, <1>3, <1>4, <1>5 DEF IInv

LEMMA CancelledInv == ASSUME IInv, NEW r \in Runs, Cancelled(r) PROVE IInv'
<1>1. /\ r \in Actors /\ owed' \in [Actors -> BOOLEAN]
      /\ cut' = cut \cup (IF pc[r] \in {"flush", "reap"} THEN alive \cap {pipe[r]} ELSE {})
      /\ UNCHANGED <<event, detached, exiting, alive, stalled>>
  BY DEF Cancelled, IInv, TypeOK, Actors
<1>2. cut \subseteq cut' /\ cut' \subseteq alive
      /\ (pc[r] \in {"flush", "reap"} => alive \cap {pipe[r]} \subseteq cut')
  BY <1>1 DEF IInv, TypeOK
<1>3. CASE pc[r] # "none" /\ CleanUp(r, "final")
  <2>1. Tidies(r)
    BY <1>1, <1>2, <1>3, CleanUpTidies DEF IInv, TypeOK, Kinds
  <2> QED BY <1>1, <2>1, TidiesInv
<1>4. CASE /\ Goto(r, "none") /\ Await(r, None)
           /\ UNCHANGED <<cleanup, sock, writer, process, fed>>
           /\ r \notin sock
  <2>1. /\ pc' = [pc EXCEPT ![r] = "none"] /\ pipe' = [pipe EXCEPT ![r] = None]
        /\ UNCHANGED <<cleanup, sock, writer, process, fed>>
    BY <1>4 DEF Goto, Await
  <2>2. TypeOK'
    BY <1>1, <1>2, <2>1 DEF IInv, TypeOK, Points
  <2>3. Apart' /\ DetachedIsStopped' /\ CleanupKnown' /\ CleanupIsLast'
    BY <1>1, <2>1 DEF IInv, TypeOK, Apart, Past, DetachedIsStopped, CleanupKnown, CleanupIsLast, Actors
  <2>4. OwnSockets' /\ SpawnerNeeded' /\ PipesApart' /\ OneFfmpegIsFed'
    BY <1>1, <1>4, <2>1 DEF IInv, TypeOK, OwnSockets, SpawnerNeeded, PipesApart, OneFfmpegIsFed, Actors
  <2>5. Tended'
    BY <1>1, <1>2, <2>1 DEF IInv, TypeOK, Tended
  <2> QED BY <2>2, <2>3, <2>4, <2>5 DEF IInv
<1>5. pc[r] = "start" \/ cleanup[r] = "final" \/ pc[r] = "none" => r \notin sock
  BY DEF IInv, CleanupIsLast, OwnSockets, Actors
<1> QED BY <1>3, <1>4, <1>5 DEF Cancelled

LEMMA AppStopInv == ASSUME IInv, AppStop PROVE IInv'
<1>1. App \in Actors /\ App \notin Runs /\ pc[App] = "none"
  BY IdentityAssumption DEF AppStop, Actors
<1>2. /\ CleanUp(App, "final") /\ exiting' \in BOOLEAN
      /\ UNCHANGED <<event, owed, detached, alive, stalled, cut>>
  BY DEF AppStop, ffmpeg
<1>3. Tidies(App)
  BY <1>1, <1>2, CleanUpTidies DEF IInv, TypeOK, Kinds
<1> QED BY <1>1, <1>3, TidiesInv

-----------------------------------------------------------------------------
LEMMA ExitsInv == ASSUME IInv, NEW p \in Procs, Exits(p) PROVE IInv'
<1>1. /\ alive' = alive \ {p} /\ stalled' = stalled \ {p} /\ cut' = cut \ {p} /\ fed' = fed \ {p}
      /\ UNCHANGED <<pc, cleanup, pipe, sock, writer, process, owed, event, detached, exiting>>
  BY DEF Exits, control
<1>2. TypeOK' /\ Apart' /\ DetachedIsStopped' /\ CleanupKnown' /\ CleanupIsLast' /\ OwnSockets'
  BY <1>1 DEF IInv, TypeOK, Apart, Past, DetachedIsStopped, CleanupKnown, CleanupIsLast, OwnSockets
<1>3. SpawnerNeeded' /\ PipesApart' /\ OneFfmpegIsFed' /\ Tended'
  BY <1>1 DEF IInv, SpawnerNeeded, PipesApart, OneFfmpegIsFed, Tended
<1> QED BY <1>2, <1>3 DEF IInv

\* Whether FFmpeg reads its stdin matters to no clause but its type.
LEMMA StallInv == ASSUME IInv, NEW p \in Procs, Stalls(p) \/ ReadsOn(p) PROVE IInv'
<1>1. /\ stalled' \subseteq alive
      /\ UNCHANGED <<pc, cleanup, pipe, sock, writer, process, fed, alive, cut, owed, event,
                     detached, exiting>>
  BY DEF Stalls, ReadsOn, control, IInv, TypeOK
<1>2. TypeOK' /\ Apart' /\ DetachedIsStopped' /\ CleanupKnown' /\ CleanupIsLast' /\ OwnSockets'
  BY <1>1 DEF IInv, TypeOK, Apart, Past, DetachedIsStopped, CleanupKnown, CleanupIsLast, OwnSockets
<1>3. SpawnerNeeded' /\ PipesApart' /\ OneFfmpegIsFed' /\ Tended'
  BY <1>1 DEF IInv, SpawnerNeeded, PipesApart, OneFfmpegIsFed, Tended
<1> QED BY <1>2, <1>3 DEF IInv

LEMMA StutterInv == ASSUME IInv, UNCHANGED vars PROVE IInv'
<1>1. TypeOK' /\ Apart' /\ DetachedIsStopped' /\ CleanupKnown' /\ CleanupIsLast' /\ OwnSockets'
  BY DEF vars, IInv, TypeOK, Apart, Past, DetachedIsStopped, CleanupKnown, CleanupIsLast, OwnSockets
<1>2. SpawnerNeeded' /\ PipesApart' /\ OneFfmpegIsFed' /\ Tended'
  BY DEF vars, IInv, SpawnerNeeded, PipesApart, OneFfmpegIsFed, Tended
<1> QED BY <1>1, <1>2 DEF IInv

-----------------------------------------------------------------------------
\* The invariant holds in every execution.
THEOREM ConsumerInvariance == Spec => []IInv
<1>1. IInv /\ [Next]_vars => IInv'
  <2> SUFFICES ASSUME IInv, [Next]_vars PROVE IInv'
    OBVIOUS
  <2>1. ASSUME NEW r \in Runs,
               RunSteps(r) \/ Start(r) \/ Finish(r) \/ Detach(r) \/ Cancelled(r)
        PROVE  IInv'
    BY <2>1, RunStepsInv, StartInv, MarkInv, CancelledInv
  <2>2. CASE Steps(App)
    BY <2>2, SocketClosedInv, FlushedInv, ReapedInv DEF Steps, Actors
  <2>3. ASSUME NEW p \in Procs, Exits(p) \/ Stalls(p) \/ ReadsOn(p) PROVE IInv'
    BY <2>3, ExitsInv, StallInv
  <2> QED BY <2>1, <2>2, <2>3, AppStopInv, StutterInv DEF Next
<1> QED BY InitInv, <1>1, PTL DEF Spec

\* Only FFmpeg processes that run are fed, stalled or left to themselves.
THEOREM ConsumerTypes == Spec => []TypeOK
<1>1. IInv => TypeOK
  BY DEF IInv
<1> QED BY ConsumerInvariance, <1>1, PTL

\* media.py:180, "reconnecting without a second stream client", for any number of
\* runs that overlap.
THEOREM SingleClient == Spec => []OneStreamClient
<1>1. IInv => OneStreamClient
  <2> SUFFICES ASSUME IInv PROVE OneStreamClient
    OBVIOUS
  <2> DEFINE Live == {r \in sock : ~(event[r] /\ pc[r] = "drain")}
  <2>1. \A r \in Live : r \in Runs /\ ~Past(r)
    BY DEF IInv, TypeOK, OwnSockets, Past
  <2>2. \A r, q \in Live : r = q
    BY <2>1 DEF IInv, Apart
  <2>3. CASE Live = {}
    BY <2>3, FS_EmptySet DEF OneStreamClient
  <2>4. ASSUME NEW r \in Live PROVE OneStreamClient
    <3>1. Live = {r}
      BY <2>2, <2>4
    <3> QED BY <3>1, FS_Singleton DEF OneStreamClient
  <2> QED BY <2>3, <2>4
<1> QED BY ConsumerInvariance, <1>1, PTL

\* At most one FFmpeg has an open stdin, and a later run or stop() knows it.
THEOREM SingleFfmpeg == Spec => []OneFfmpegIsFed
<1>1. IInv => OneFfmpegIsFed
  BY DEF IInv
<1> QED BY ConsumerInvariance, <1>1, PTL

\* Every other FFmpeg is awaited by someone who will kill it, or its cleanup was
\* cancelled.
THEOREM FfmpegIsTended == Spec => []NoStrayFfmpeg
<1>1. IInv => NoStrayFfmpeg
  BY DEF IInv, Tended, NoStrayFfmpeg
<1> QED BY ConsumerInvariance, <1>1, PTL
=============================================================================
