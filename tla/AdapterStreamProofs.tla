------------------------- MODULE AdapterStreamProofs -------------------------
(***************************************************************************)
(* For any number of consumers, the camera streams only while one of them  *)
(* is connected or just closing its connection.  A feed outlives its last  *)
(* client only if two critical sections overlap: so the invariant says     *)
(* whose section is a long one.                                            *)
(***************************************************************************)
EXTENDS AdapterStream, TLAPS

\* The handler that starts a feed holds the lock throughout, and is listed.
StarterHolds ==
  \A c \in Clients : pc[c] \in {"requesting", "starting"} => Holds(c) /\ c \in clients

\* The handler that closes its connection holds the lock until it has stopped the feed,
\* and is listed no more.
CloserHolds == \A c \in Clients : pc[c] = "closing" => Holds(c) /\ c \notin clients

IInv == TypeOK /\ StarterHolds /\ CloserHolds /\ NoIdleFeed

-----------------------------------------------------------------------------
\* A new waiter does not displace the holder of the lock.
LEMMA AppendHolds ==
  ASSUME NEW S, NEW q \in Seq(S), NEW a \in S
  PROVE  /\ Append(q, a) \in Seq(S)
         /\ q # <<>> => Append(q, a) # <<>> /\ Head(Append(q, a)) = Head(q)
  OBVIOUS

LEMMA TailSeq ==
  ASSUME NEW S, NEW q \in Seq(S), q # <<>>
  PROVE  Tail(q) \in Seq(S)
  OBVIOUS

LEMMA InitInv == Init => IInv
<1> SUFFICES ASSUME Init PROVE IInv
  OBVIOUS
<1>1. queue \in Seq(Actors)
  BY DEF Init
<1>2. TypeOK
  BY <1>1 DEF Init, TypeOK, HandlerPoints, StopPoints
<1>3. StarterHolds /\ CloserHolds /\ NoIdleFeed
  BY DEF Init, StarterHolds, CloserHolds, NoIdleFeed
<1> QED BY <1>2, <1>3 DEF IInv

\* When the lock passes on, its former holder was the only one that could be
\* starting a feed or closing its connection.
LEMMA PassOn ==
  ASSUME IInv, NEW a \in Actors, Holds(a)
  PROVE  /\ queue \in Seq(Actors) /\ queue # <<>> /\ Release \in Seq(Actors)
         /\ \A b \in Actors : Append(Release, b) \in Seq(Actors)
         /\ \A c \in Clients \ {a} : pc[c] \notin {"requesting", "starting", "closing"}
<1>1. queue \in Seq(Actors) /\ queue # <<>> /\ Head(queue) = a
  BY DEF IInv, TypeOK, Holds
<1>2. Release \in Seq(Actors)
  BY <1>1, TailSeq DEF Release
<1>3. \A b \in Actors : Append(Release, b) \in Seq(Actors)
  BY <1>2, AppendHolds
<1>4. \A c \in Clients \ {a} : pc[c] \notin {"requesting", "starting", "closing"}
  BY <1>1 DEF IInv, StarterHolds, CloserHolds, Holds
<1> QED BY <1>1, <1>2, <1>3, <1>4

\* A step that only queues an actor, or leaves the queue alone, keeps the holder.
LEMMA Queued ==
  ASSUME IInv, NEW a \in Actors, queue' \in {queue, Append(queue, a)}
  PROVE  /\ queue' \in Seq(Actors)
         /\ \A b \in Actors : Holds(b) => Holds(b)'
<1>1. queue \in Seq(Actors)
  BY DEF IInv, TypeOK
<1> QED BY <1>1, AppendHolds DEF Holds

-----------------------------------------------------------------------------
\* A feed that had a client, or a handler that will stop it, still has.
LEMMA StillClosing ==
  ASSUME IInv, feed' # "none" => feed # "none", clients' = {} => clients = {},
         \A c \in Clients : Closing(c) => Closing(c)'
  PROVE  NoIdleFeed'
BY DEF IInv, NoIdleFeed, Closing, Holds

LEMMA ConnectInv == ASSUME IInv, NEW c \in Clients, Connect(c) PROVE IInv'
<1>1. queue' \in Seq(Actors) /\ \A b \in Actors : Holds(b) => Holds(b)'
  BY Queued DEF Connect, Actors
<1>2. TypeOK'
  BY <1>1 DEF IInv, TypeOK, Connect, HandlerPoints
<1>3. StarterHolds' /\ CloserHolds'
  BY <1>1 DEF IInv, TypeOK, StarterHolds, CloserHolds, Connect, Actors
<1>4. \A d \in Clients : Closing(d) => Closing(d)'
  BY <1>1 DEF IInv, TypeOK, Closing, Connect, Actors
<1>5. NoIdleFeed'
  BY <1>4, StillClosing DEF Connect
<1> QED BY <1>2, <1>3, <1>5 DEF IInv

\* What a consumer does beside the handlers.
LEMMA ConsumerInv ==
  ASSUME IInv, NEW c \in Clients, HangUp(c) \/ Stalls(c) \/ ReadsOn(c)
  PROVE  IInv'
<1>1. /\ UNCHANGED <<pc, closed, clients, feed, queue, stopping, waits, stop>>
      /\ peer' \in [Clients -> BOOLEAN] /\ unsent' \in [Clients -> BOOLEAN]
      /\ \A d \in Clients : unsent'[d] => peer'[d] /\ pc[d] # "none"
  BY DEF IInv, TypeOK, HangUp, Stalls, ReadsOn
<1>2. TypeOK'
  BY <1>1 DEF IInv, TypeOK
<1>3. StarterHolds' /\ CloserHolds' /\ NoIdleFeed'
  BY <1>1 DEF IInv, StarterHolds, CloserHolds, NoIdleFeed, Closing, Holds
<1> QED BY <1>2, <1>3 DEF IInv

LEMMA FeedEndsInv == ASSUME IInv, FeedEnds PROVE IInv'
<1>1. queue' \in Seq(Actors) /\ \A b \in Actors : Holds(b) => Holds(b)'
  BY Queued DEF FeedEnds, Actors
<1>2. TypeOK'
  BY <1>1 DEF IInv, TypeOK, FeedEnds
<1>3. StarterHolds' /\ CloserHolds'
  BY <1>1 DEF IInv, TypeOK, StarterHolds, CloserHolds, FeedEnds, Actors
<1>4. \A d \in Clients : Closing(d) => Closing(d)'
  BY <1>1 DEF Closing, FeedEnds, Actors
<1>5. NoIdleFeed'
  BY <1>4, StillClosing DEF FeedEnds
<1> QED BY <1>2, <1>3, <1>5 DEF IInv

LEMMA RefusedInv == ASSUME IInv, NEW c \in Clients, Refused(c) PROVE IInv'
<1>1. /\ Append(Release, c) \in Seq(Actors)
      /\ \A d \in Clients \ {c} : pc[d] \notin {"requesting", "starting", "closing"}
  BY PassOn DEF Refused, Actors
<1>2. TypeOK'
  BY <1>1 DEF IInv, TypeOK, Refused, HandlerPoints, ReleaseAndRequeue, Release
<1>3. StarterHolds' /\ CloserHolds'
  BY <1>1 DEF IInv, TypeOK, StarterHolds, CloserHolds, Refused
<1>4. NoIdleFeed'
  BY <1>1, StillClosing DEF Closing, Refused
<1> QED BY <1>2, <1>3, <1>4 DEF IInv

LEMMA AcceptedInv == ASSUME IInv, NEW c \in Clients, Accepted(c) PROVE IInv'
<1>1. /\ queue \in Seq(Actors) /\ Release \in Seq(Actors)
      /\ \A d \in Clients \ {c} : pc[d] \notin {"requesting", "starting", "closing"}
  BY PassOn DEF Accepted, Actors
<1>2. TypeOK'
  BY <1>1 DEF IInv, TypeOK, Accepted, HandlerPoints
<1>3. StarterHolds' /\ CloserHolds'
  BY <1>1 DEF IInv, TypeOK, StarterHolds, CloserHolds, Holds, Accepted
<1>4. NoIdleFeed'
  BY DEF NoIdleFeed, Accepted
<1> QED BY <1>2, <1>3, <1>4 DEF IInv

LEMMA RequestedInv == ASSUME IInv, NEW c \in Clients, Requested(c) PROVE IInv'
<1>1. TypeOK'
  BY DEF IInv, TypeOK, Requested, HandlerPoints
<1>2. StarterHolds' /\ CloserHolds'
  BY DEF IInv, TypeOK, StarterHolds, CloserHolds, Holds, Requested
<1>3. NoIdleFeed'
  BY DEF IInv, StarterHolds, NoIdleFeed, Requested
<1> QED BY <1>1, <1>2, <1>3 DEF IInv

LEMMA EnsureFailedInv == ASSUME IInv, NEW c \in Clients, EnsureFailed(c) PROVE IInv'
<1>0. Holds(c) /\ c \in clients
  BY DEF IInv, StarterHolds, EnsureFailed
<1>1. /\ Append(Release, c) \in Seq(Actors)
      /\ \A d \in Clients \ {c} : pc[d] \notin {"requesting", "starting", "closing"}
  BY <1>0, PassOn DEF Actors
<1>2. TypeOK'
  BY <1>1 DEF IInv, TypeOK, EnsureFailed, HandlerPoints, ReleaseAndRequeue, Release
<1>3. StarterHolds' /\ CloserHolds'
  BY <1>1 DEF IInv, TypeOK, StarterHolds, CloserHolds, EnsureFailed
<1>4. NoIdleFeed'
  BY <1>0 DEF NoIdleFeed, EnsureFailed
<1> QED BY <1>2, <1>3, <1>4 DEF IInv

LEMMA StartedInv == ASSUME IInv, NEW c \in Clients, Started(c) PROVE IInv'
<1>0. Holds(c) /\ c \in clients
  BY DEF IInv, StarterHolds, Started
<1>1. /\ Release \in Seq(Actors)
      /\ Append(Release, c) \in Seq(Actors) /\ Append(Release, Cleanup) \in Seq(Actors)
      /\ \A d \in Clients \ {c} : pc[d] \notin {"requesting", "starting", "closing"}
  BY <1>0, PassOn DEF Actors
<1>2. TypeOK'
  BY <1>1 DEF IInv, TypeOK, Started, HandlerPoints, ReleaseAndRequeue, Release
<1>3. StarterHolds' /\ CloserHolds'
  BY <1>1 DEF IInv, TypeOK, StarterHolds, CloserHolds, Started
<1>4. NoIdleFeed'
  BY <1>0 DEF NoIdleFeed, Started
<1> QED BY <1>2, <1>3, <1>4 DEF IInv

LEMMA ReadEofInv == ASSUME IInv, NEW c \in Clients, ReadEof(c) PROVE IInv'
<1>1. queue' \in Seq(Actors) /\ \A b \in Actors : Holds(b) => Holds(b)'
  BY Queued DEF ReadEof, Actors
<1>2. TypeOK'
  BY <1>1 DEF IInv, TypeOK, ReadEof, HandlerPoints
<1>3. StarterHolds' /\ CloserHolds'
  BY <1>1 DEF IInv, TypeOK, StarterHolds, CloserHolds, ReadEof, Actors
<1>4. \A d \in Clients : Closing(d) => Closing(d)'
  BY <1>1 DEF IInv, TypeOK, Closing, ReadEof, Actors
<1>5. NoIdleFeed'
  BY <1>4, StillClosing DEF ReadEof
<1> QED BY <1>2, <1>3, <1>5 DEF IInv

\* The last client may go now, since its handler is the one that closes.
LEMMA LeaveInv == ASSUME IInv, NEW c \in Clients, Leave(c) PROVE IInv'
<1>1. TypeOK'
  BY DEF IInv, TypeOK, Leave, HandlerPoints
<1>2. \A d \in Clients \ {c} : pc[d] \notin {"requesting", "starting", "closing"}
  BY PassOn DEF Leave, Actors
<1>3. StarterHolds' /\ CloserHolds'
  BY <1>2 DEF IInv, TypeOK, StarterHolds, CloserHolds, Holds, Leave
<1>4. Closing(c)'
  BY DEF IInv, TypeOK, Closing, Holds, Leave
<1>5. NoIdleFeed'
  BY <1>4 DEF NoIdleFeed
<1> QED BY <1>1, <1>3, <1>5 DEF IInv

LEMMA LeftInv == ASSUME IInv, NEW c \in Clients, Left(c) PROVE IInv'
<1>0. Holds(c)
  BY DEF IInv, CloserHolds, Left
<1>1. /\ Release \in Seq(Actors)
      /\ \A d \in Clients \ {c} : pc[d] \notin {"requesting", "starting", "closing"}
  BY <1>0, PassOn DEF Actors
<1>2. c \notin clients
  BY DEF IInv, CloserHolds, Left
<1>3. TypeOK'
  BY <1>1, <1>2 DEF IInv, TypeOK, Left, Lost, HandlerPoints
<1>4. StarterHolds' /\ CloserHolds'
  BY <1>1 DEF IInv, TypeOK, StarterHolds, CloserHolds, Left
<1>5. NoIdleFeed'
  BY DEF NoIdleFeed, Left
<1> QED BY <1>3, <1>4, <1>5 DEF IInv

LEMMA CleanUpInv == ASSUME IInv, CleanUp PROVE IInv'
<1>1. /\ Release \in Seq(Actors)
      /\ \A d \in Clients : pc[d] \notin {"requesting", "starting", "closing"}
  BY PassOn, ActorAssumption DEF CleanUp, Actors
<1>2. TypeOK'
  BY <1>1 DEF IInv, TypeOK, CleanUp, CloseClients
<1>3. StarterHolds' /\ CloserHolds' /\ NoIdleFeed'
  BY <1>1 DEF StarterHolds, CloserHolds, NoIdleFeed, CleanUp
<1> QED BY <1>2, <1>3 DEF IInv

\* The two steps of stop() before it has the lock.
LEMMA StoppingInv == ASSUME IInv, Stop \/ ServerClosed PROVE IInv'
<1>1. /\ UNCHANGED <<pc, peer, unsent, clients, feed, waits>>
      /\ stopping' \in BOOLEAN /\ stop' \in StopPoints
      /\ closed' \in [Clients -> BOOLEAN]
      /\ queue' \in {queue, Append(queue, Stopper)}
  BY DEF IInv, TypeOK, Stop, ServerClosed, WritersClosed, CloseClients, StopPoints
<1>2. queue' \in Seq(Actors) /\ \A b \in Actors : Holds(b) => Holds(b)'
  BY <1>1, Queued DEF Actors
<1>3. TypeOK'
  BY <1>1, <1>2 DEF IInv, TypeOK
<1>4. StarterHolds' /\ CloserHolds'
  BY <1>1, <1>2 DEF IInv, StarterHolds, CloserHolds, Actors
<1>5. \A d \in Clients : Closing(d) => Closing(d)'
  BY <1>1, <1>2 DEF Closing, Actors
<1>6. NoIdleFeed'
  BY <1>1, <1>5, StillClosing
<1> QED BY <1>3, <1>4, <1>6 DEF IInv

LEMMA StoppedInv == ASSUME IInv, Stopped PROVE IInv'
<1>1. /\ Release \in Seq(Actors)
      /\ \A d \in Clients : pc[d] \notin {"requesting", "starting", "closing"}
  BY PassOn, ActorAssumption DEF Stopped, Actors
<1>2. TypeOK'
  BY <1>1 DEF IInv, TypeOK, Stopped, StopPoints
<1>3. StarterHolds' /\ CloserHolds' /\ NoIdleFeed'
  BY <1>1 DEF StarterHolds, CloserHolds, NoIdleFeed, Stopped
<1> QED BY <1>2, <1>3 DEF IInv

-----------------------------------------------------------------------------
\* The invariant holds in every execution.
THEOREM StreamInvariance == Spec => []IInv
<1>1. IInv /\ [Next]_vars => IInv'
  <2> SUFFICES ASSUME IInv, [Next]_vars PROVE IInv'
    OBVIOUS
  <2>1. CASE UNCHANGED vars
    BY <2>1 DEF vars, IInv, TypeOK, StarterHolds, CloserHolds, NoIdleFeed, Closing, Holds
  <2>2. ASSUME NEW c \in Clients,
               Connect(c) \/ HangUp(c) \/ Stalls(c) \/ ReadsOn(c) \/ Handler(c)
        PROVE  IInv'
    BY <2>2, ConnectInv, ConsumerInv, RefusedInv, AcceptedInv, RequestedInv,
       EnsureFailedInv, StartedInv, ReadEofInv, LeaveInv, LeftInv DEF Handler
  <2> QED
    BY <2>1, <2>2, FeedEndsInv, CleanUpInv, StoppingInv, StoppedInv DEF Next
<1> QED BY InitInv, <1>1, PTL DEF Spec

\* For any number of consumers every variable keeps its type, and the lock's queue
\* holds no one but those who may ask for it.
THEOREM RelayTypes == Spec => []TypeOK
<1>1. IInv => TypeOK
  BY DEF IInv
<1> QED BY StreamInvariance, <1>1, PTL

\* The camera is not kept streaming when no consumer is connected, for any number
\* of consumers, of feeds that end and of cleanups that come late: but while the last one
\* is closing its connection, with the lock in the hand of its handler.
THEOREM IdleFeedStops == Spec => []NoIdleFeed
<1>1. IInv => NoIdleFeed
  BY DEF IInv
<1> QED BY StreamInvariance, <1>1, PTL
=============================================================================
