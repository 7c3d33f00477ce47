---------------------------- MODULE AdapterStream ----------------------------
(***************************************************************************)
(* The on-demand stream relay of BlinkAdapter                              *)
(* (src/blink_dashboard/blink_adapter.py): TCP handlers, the live-view     *)
(* feed they share, the cleanup after a feed, and stop().                  *)
(*                                                                         *)
(* asyncio.Lock serves its waiters in order of arrival, so _stream_lock is *)
(* the queue of its holder (the head) and its waiters.  Whatever a holder  *)
(* awaits changes nothing that another actor reads without the lock, so    *)
(* most critical sections are one step; the start of a feed, during which  *)
(* consumers come and go, is three, and the close of a connection, which   *)
(* waits for the consumer to take what was written to it, is two.          *)
(***************************************************************************)
EXTENDS Naturals, Sequences, FiniteSets

CONSTANTS
  Clients,     \* TCP connections; a connection that has ended may be made again
  Cleanup,     \* the task of _close_clients_after_feed
  Stopper      \* the caller of stop()

ASSUME ActorAssumption ==
  Cleanup \notin Clients /\ Stopper \notin Clients /\ Cleanup # Stopper

VARIABLES
  pc,        \* where the handler of each connection is
  peer,      \* the consumer has not hung up
  closed,    \* the adapter has closed the writer
  unsent,    \* the consumer has stopped reading, and the write buffer is not empty
  clients,   \* self.clients
  feed,      \* self.feed_task
  queue,     \* _stream_lock: its holder, then its waiters
  stopping,  \* self._stopping
  waits,     \* Server.wait_closed() waits for the connections (Python 3.12 and later)
  stop       \* where stop() is

vars == <<pc, peer, closed, unsent, clients, feed, queue, stopping, waits, stop>>

Actors == Clients \cup {Cleanup, Stopper}

HandlerPoints ==
  {"none", "arriving", "requesting", "starting", "reading", "leaving", "closing"}
StopPoints == {"none", "server", "lock", "stopped"}

Holds(actor) == queue # <<>> /\ Head(queue) = actor

Release == Tail(queue)

\* The handler leaves its first critical section, and waits for its second.
ReleaseAndRequeue(c) == Append(Tail(queue), c)

-----------------------------------------------------------------------------
(* The consumer, and the feed of the upstream library.                     *)

\* start_tcp accepts until stop() closes the server
Connect(c) ==
  /\ pc[c] = "none"
  /\ stop = "none"
  /\ pc' = [pc EXCEPT ![c] = "arriving"]
  /\ peer' = [peer EXCEPT ![c] = TRUE]
  /\ closed' = [closed EXCEPT ![c] = FALSE]
  /\ queue' = Append(queue, c)
  /\ UNCHANGED <<unsent, clients, feed, stopping, waits, stop>>

\* What was written for it fails then.
HangUp(c) ==
  /\ pc[c] # "none"
  /\ peer[c]
  /\ peer' = [peer EXCEPT ![c] = FALSE]
  /\ unsent' = [unsent EXCEPT ![c] = FALSE]
  /\ UNCHANGED <<pc, closed, clients, feed, queue, stopping, waits, stop>>

\* The consumer stays but does not read, until the socket and the write buffer are
\* full of what the feed relays.
Stalls(c) ==
  /\ feed = "live"
  /\ c \in clients
  /\ peer[c] /\ ~closed[c] /\ ~unsent[c]
  /\ unsent' = [unsent EXCEPT ![c] = TRUE]
  /\ UNCHANGED <<pc, peer, closed, clients, feed, queue, stopping, waits, stop>>

ReadsOn(c) ==
  /\ unsent[c]
  /\ unsent' = [unsent EXCEPT ![c] = FALSE]
  /\ UNCHANGED <<pc, peer, closed, clients, feed, queue, stopping, waits, stop>>

\* The feed task ends by itself: _feed_done starts the cleanup.
FeedEnds ==
  /\ feed = "live"
  /\ feed' = "done"
  /\ queue' = IF stopping THEN queue ELSE Append(queue, Cleanup)
  /\ UNCHANGED <<pc, peer, closed, unsent, clients, stopping, waits, stop>>

-----------------------------------------------------------------------------
(* _handle_client, up to its read loop.                                    *)

Refused(c) ==
  /\ pc[c] = "arriving"
  /\ Holds(c)
  /\ stopping
  /\ pc' = [pc EXCEPT ![c] = "leaving"]
  /\ queue' = ReleaseAndRequeue(c)
  /\ UNCHANGED <<peer, closed, unsent, clients, feed, stopping, waits, stop>>

\* Only the first client ensures a stream.
Accepted(c) ==
  /\ pc[c] = "arriving"
  /\ Holds(c)
  /\ ~stopping
  /\ clients' = clients \cup {c}
  /\ IF clients' = {c} /\ feed \in {"none", "done"}
     THEN pc' = [pc EXCEPT ![c] = "requesting"] /\ UNCHANGED queue
     ELSE pc' = [pc EXCEPT ![c] = "reading"] /\ queue' = Release
  /\ UNCHANGED <<peer, closed, unsent, feed, stopping, waits, stop>>

\* _request_liveview returned, and the feed task exists
Requested(c) ==
  /\ pc[c] = "requesting"
  /\ pc' = [pc EXCEPT ![c] = "starting"]
  /\ feed' = "starting"
  /\ UNCHANGED <<peer, closed, unsent, clients, queue, stopping, waits, stop>>

\* _request_liveview, or the start of the feed, failed or timed out
EnsureFailed(c) ==
  /\ pc[c] \in {"requesting", "starting"}
  /\ pc' = [pc EXCEPT ![c] = "leaving"]
  /\ feed' = IF pc[c] = "starting" THEN "none" ELSE feed
  /\ queue' = ReleaseAndRequeue(c)
  /\ UNCHANGED <<peer, closed, unsent, clients, stopping, waits, stop>>

\* The feed connected, and may have ended since.  The read loop is left at once
\* when stop() has been called meanwhile.
Started(c) ==
  /\ pc[c] = "starting"
  /\ feed' \in {"live", "done"}
  /\ pc' = [pc EXCEPT ![c] = IF stopping THEN "leaving" ELSE "reading"]
  /\ queue' = IF stopping THEN ReleaseAndRequeue(c)
              ELSE IF feed' = "done" THEN Append(Release, Cleanup)
              ELSE Release
  /\ UNCHANGED <<peer, closed, unsent, clients, stopping, waits, stop>>

-----------------------------------------------------------------------------
(* _handle_client, from the end of its read loop.                          *)

\* A closed transport is given up only when its write buffer is empty.
Lost(c) == closed[c] /\ ~unsent[c]

\* Variant: the end of the connection is not noticed until the adapter closes it.
ReadEofOwn(c) ==
  /\ pc[c] = "reading"
  /\ Lost(c)
  /\ pc' = [pc EXCEPT ![c] = "leaving"]
  /\ queue' = Append(queue, c)
  /\ UNCHANGED <<peer, closed, unsent, clients, feed, stopping, waits, stop>>

ReadEof(c) ==
  /\ pc[c] = "reading"
  /\ ~peer[c] \/ Lost(c)
  /\ pc' = [pc EXCEPT ![c] = "leaving"]
  /\ queue' = Append(queue, c)
  /\ UNCHANGED <<peer, closed, unsent, clients, feed, stopping, waits, stop>>

\* Variant: the writer stays in the list.
LeaveListed(c) ==
  /\ pc[c] = "leaving"
  /\ Holds(c)
  /\ closed' = [closed EXCEPT ![c] = TRUE]
  /\ pc' = [pc EXCEPT ![c] = "closing"]
  /\ UNCHANGED <<peer, unsent, clients, feed, queue, stopping, waits, stop>>

Leave(c) ==
  /\ pc[c] = "leaving"
  /\ Holds(c)
  /\ clients' = clients \ {c}
  /\ closed' = [closed EXCEPT ![c] = TRUE]
  /\ pc' = [pc EXCEPT ![c] = "closing"]
  /\ UNCHANGED <<peer, unsent, feed, queue, stopping, waits, stop>>

\* Variant: the last client does not stop the stream.
LeftStreaming(c) ==
  /\ pc[c] = "closing"
  /\ Lost(c)
  /\ pc' = [pc EXCEPT ![c] = "none"]
  /\ queue' = Release
  /\ UNCHANGED <<peer, closed, unsent, clients, feed, stopping, waits, stop>>

\* writer.wait_closed() has returned; the lock was held throughout.
Left(c) ==
  /\ pc[c] = "closing"
  /\ Lost(c)
  /\ feed' = IF clients = {} THEN "none" ELSE feed
  /\ pc' = [pc EXCEPT ![c] = "none"]
  /\ queue' = Release
  /\ UNCHANGED <<peer, closed, unsent, clients, stopping, waits, stop>>

-----------------------------------------------------------------------------
(* _close_clients_after_feed and stop.                                     *)

CloseClients == closed' = [c \in Clients |-> closed[c] \/ c \in clients]

CleanUp ==
  /\ Holds(Cleanup)
  /\ CloseClients
  /\ feed' = "none"
  /\ queue' = Release
  /\ UNCHANGED <<pc, peer, unsent, clients, stopping, waits, stop>>

\* Variant: the writers are left open.
WritersLeftOpen ==
  /\ stop' = "lock"
  /\ queue' = Append(queue, Stopper)
  /\ UNCHANGED closed

\* stop() is past server.wait_closed(): it closes the writers and asks for the lock.
WritersClosed ==
  /\ stop' = "lock"
  /\ queue' = Append(queue, Stopper)
  /\ CloseClients

\* A server that does not wait for its connections does not suspend stop() either.
Stop ==
  /\ stop = "none"
  /\ stopping' = TRUE
  /\ \/ waits /\ stop' = "server" /\ UNCHANGED <<closed, queue>>
     \/ ~waits /\ WritersClosed
  /\ UNCHANGED <<pc, peer, unsent, clients, feed, waits>>

\* The connection is, or may be, gone: the adapter closed it, or the consumer did.
MayBeLost(c) == Lost(c) \/ ~peer[c]

ServerClosed ==
  /\ stop = "server"
  /\ \A c \in Clients : MayBeLost(c)
  /\ WritersClosed
  /\ UNCHANGED <<pc, peer, unsent, clients, feed, stopping, waits>>

Stopped ==
  /\ Holds(Stopper)
  /\ feed' = "none"
  /\ clients' = {}
  /\ stop' = "stopped"
  /\ queue' = Release
  /\ UNCHANGED <<pc, peer, closed, unsent, stopping, waits>>

-----------------------------------------------------------------------------
Init ==
  /\ pc = [c \in Clients |-> "none"]
  /\ peer = [c \in Clients |-> FALSE]
  /\ closed = [c \in Clients |-> TRUE]
  /\ unsent = [c \in Clients |-> FALSE]
  /\ clients = {}
  /\ feed = "none"
  /\ queue = <<>>
  /\ stopping = FALSE
  /\ waits \in BOOLEAN
  /\ stop = "none"

Handler(c) ==
  \/ Refused(c)
  \/ Accepted(c)
  \/ Requested(c)
  \/ EnsureFailed(c)
  \/ Started(c)
  \/ ReadEof(c)
  \/ Leave(c)
  \/ Left(c)

Next ==
  \/ \E c \in Clients : Connect(c) \/ HangUp(c) \/ Stalls(c) \/ ReadsOn(c) \/ Handler(c)
  \/ FeedEnds
  \/ CleanUp
  \/ Stop
  \/ ServerClosed
  \/ Stopped

Spec == Init /\ [][Next]_vars

\* The event loop runs what is ready, and every call to Blink ends: the start of
\* a feed has a timeout, and aiohttp bounds a request.  Nothing obliges a consumer
\* to connect, to read or to hang up, a feed to end or anyone to call stop().
Fairness ==
  /\ \A c \in Clients : WF_vars(Handler(c))
  /\ WF_vars(CleanUp)
  /\ WF_vars(ServerClosed)
  /\ WF_vars(Stopped)

FairSpec == Spec /\ Fairness

-----------------------------------------------------------------------------
\* Every variable keeps its type; self.clients lists no connection whose handler
\* has ended, and nothing is unsent but to a consumer that stays.
TypeOK ==
  /\ pc \in [Clients -> HandlerPoints]
  /\ peer \in [Clients -> BOOLEAN]
  /\ closed \in [Clients -> BOOLEAN]
  /\ unsent \in [Clients -> BOOLEAN]
  /\ clients \subseteq {c \in Clients : pc[c] # "none"}
  /\ feed \in {"none", "starting", "live", "done"}
  /\ queue \in Seq(Actors)
  /\ stopping \in BOOLEAN
  /\ waits \in BOOLEAN
  /\ stop \in StopPoints
  /\ \A c \in Clients : unsent[c] => peer[c] /\ pc[c] # "none"

\* The handler closes its connection, the lock in its hand, and will go on to stop
\* the stream.
Closing(c) == pc[c] = "closing" /\ Holds(c)

\* The camera is not kept streaming, at the cost of its battery, when no consumer
\* is connected: whatever overlaps with the start of a feed, its end or stop().  Only
\* while the last of them is closing its connection may the feed go on.
NoIdleFeed == feed # "none" /\ clients = {} => \E c \in Clients : Closing(c)

\* stop() was called while the feed of c was starting, and waits for the server, so that
\* the handler left although its consumer stays and is relayed the feed; that one does not
\* read, and the handler waits for it with the lock.
KeepsLock(c) == waits /\ stopping /\ Closing(c) /\ unsent[c]

Ending(c) ==
  \/ pc[c] # "none" /\ ~peer[c]
  \/ pc[c] \in {"leaving", "closing"}

\* A handler whose consumer has hung up, or that leaves for another reason, ends: no
\* handler, cleanup or stop() keeps the lock for ever or waits for another that waits for
\* it, but for the one case of KeepsLock.
HandlerEnds ==
  \A c \in Clients :
    Ending(c) ~> (pc[c] = "none" \/ \E d \in Clients : KeepsLock(d))

\* stop() ends, and with it every handler: none is left reading from a consumer
\* that will receive nothing.  A consumer that stays can prevent it in two ways: it does
\* not read, so that its connection is closed but never lost, or Server.wait_closed()
\* waits for it before it is closed.
StopEnds ==
  (stop # "none") ~>
    \/ stop = "stopped" /\ \A c \in Clients : pc[c] = "none"
    \/ \E c \in Clients : closed[c] /\ unsent[c]
    \/ waits /\ \E c \in Clients : pc[c] = "reading" /\ peer[c]

\* docs/ARCHITECTURE.md:98: "Stream phase causes the media consumer to connect to
\* adapter TCP; the adapter requests live view and emits MPEG-TS."  A consumer that
\* is connected while nobody works on the stream has a feed.
ConsumerIsServed ==
  queue = <<>> /\ ~stopping =>
    \A c \in Clients : pc[c] = "reading" /\ peer[c] /\ ~closed[c] => feed = "live"
=============================================================================
