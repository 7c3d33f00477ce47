-------------------------------- MODULE Launch --------------------------------
(***************************************************************************)
(* The launcher (src/blink_dashboard/__main__.py and supervisor.py) around *)
(* its adapter: is a dashboard running, start the adapter, wait until it   *)
(* serves, open the database and bring its schema up to date (storage.py), *)
(* start the experiment, bind the dashboard's port, serve, and take it all *)
(* down again, from wherever it stopped.                                   *)
(*                                                                         *)
(* The user may launch the program again at any time, press Ctrl-C at any  *)
(* time, or kill it, which leaves its adapter behind.                      *)
(***************************************************************************)
EXTENDS Integers, AdapterProcess

CONSTANT Versions  \* the versions of the database that the program may find

SchemaVersion == 3
NewerVersion == SchemaVersion + 1  \* left by a later version of the program

ASSUME VersionsAssumption == Versions \subseteq 0..NewerVersion

VARIABLES
  launch,   \* where each launcher is
  dash,     \* the launcher that listens on the dashboard's port
  version,  \* user_version of the database
  columns   \* what the schema of the database has

vars == <<launch, dash, version, columns, adapterVars>>

\* The schema of each version
ColumnsOf(v) ==
  (IF v > 0 THEN {"tables"} ELSE {}) \cup (IF v > 1 THEN {"timeouts"} ELSE {})
    \cup (IF v > 2 THEN {"outage"} ELSE {})

Idle == {"idle", "exited", "killed"}
Waiting == {"waiting", "asking"}
Migrating == {"open", "create", "alter1", "recheck", "alter2"}
Up == {"bind", "serving", "cleanup"}
LaunchPoints == Idle \cup Waiting \cup Migrating \cup Up
                  \cup {"probe", "health", "closing", "reaping", "terminated"}

\* The experiment of this launch is initialized and not yet shut down.
Running(l) == launch[l] \in Up

LaunchMoves(l, from, to) ==
  /\ launch[l] = from
  /\ launch' = [launch EXCEPT ![l] = to]

DatabaseKept == UNCHANGED <<version, columns>>

-----------------------------------------------------------------------------
(* Up to a ready adapter.                                                  *)

\* The user starts the program, once more when its last adapter has ended.
Begin(l) ==
  /\ ~Alive(l)
  /\ \E from \in Idle : LaunchMoves(l, from, "probe")
  /\ UNCHANGED <<dash, adapterVars>> /\ DatabaseKept

\* dashboard_is_running: yes, and the browser is sent there
DashboardFound(l) ==
  /\ dash # NONE
  /\ LaunchMoves(l, "probe", "exited")
  /\ UNCHANGED <<dash, adapterVars>> /\ DatabaseKept

\* No dashboard, or one that does not answer within a second
StartAdapter(l) ==
  /\ LaunchMoves(l, "probe", "waiting")
  /\ AdapterStarts(l)
  /\ UNCHANGED dash /\ DatabaseKept

\* wait_for_adapter: the child has exited
ChildExited(l) ==
  /\ ~Alive(l)
  /\ LaunchMoves(l, "waiting", "reaping")
  /\ UNCHANGED <<dash, adapterVars>> /\ DatabaseKept

Ask(l) ==
  /\ Alive(l)
  /\ LaunchMoves(l, "waiting", "asking")
  /\ UNCHANGED <<dash, adapterVars>> /\ DatabaseKept

NoAnswer(l) ==
  /\ LaunchMoves(l, "asking", "waiting")
  /\ UNCHANGED <<dash, adapterVars>> /\ DatabaseKept

\* Whoever has the port has answered.
Ready(l) ==
  /\ http # NONE
  /\ LaunchMoves(l, "asking", "open")
  /\ UNCHANGED <<dash, adapterVars>> /\ DatabaseKept

-----------------------------------------------------------------------------
(* DashboardApplication: the database, SQLiteStorage._migrate.  A version  *)
(* is read outside the transaction that acts on it.                        *)

Found(v) ==
  CASE v = 0 -> "create" [] v = 1 -> "alter1" [] v = NewerVersion -> "reaping"
    [] OTHER -> "recheck"

Open(l) ==
  /\ LaunchMoves(l, "open", Found(version))
  /\ UNCHANGED <<dash, adapterVars>> /\ DatabaseKept

\* Variant: what is there already is passed over.
MissingAlways(added) == TRUE

\* CREATE TABLE and ADD COLUMN refuse what is there already.
Missing(added) == added \cap columns = {}

\* One script, one transaction; the database may also be locked for too long.
Migrate(l, from, added, to, next) ==
  \/ /\ Missing(added)
     /\ LaunchMoves(l, from, next)
     /\ version' = to
     /\ columns' = columns \cup added
     /\ UNCHANGED <<dash, adapterVars>>
  \/ /\ LaunchMoves(l, from, "reaping")
     /\ UNCHANGED <<dash, adapterVars>> /\ DatabaseKept

Create(l) == Migrate(l, "create", ColumnsOf(SchemaVersion), SchemaVersion, "recheck")

AddTimeouts(l) == Migrate(l, "alter1", {"timeouts"}, 2, "recheck")

Recheck(l) ==
  /\ LaunchMoves(l, "recheck", IF version = 2 THEN "alter2" ELSE "health")
  /\ UNCHANGED <<dash, adapterVars>> /\ DatabaseKept

AddOutage(l) == Migrate(l, "alter2", {"outage"}, SchemaVersion, "health")

-----------------------------------------------------------------------------
(* The services and the dashboard.                                         *)

\* services.start: the adapter answers, and the experiment is initialized.
Initialized(l) ==
  /\ http # NONE
  /\ LaunchMoves(l, "health", "bind")
  /\ UNCHANGED <<dash, adapterVars>> /\ DatabaseKept

\* services.start failed: no experiment to shut down
Unhealthy(l) ==
  /\ LaunchMoves(l, "health", "closing")
  /\ UNCHANGED <<dash, adapterVars>> /\ DatabaseKept

Bind(l) ==
  /\ dash = NONE
  /\ LaunchMoves(l, "bind", "serving")
  /\ dash' = l
  /\ UNCHANGED adapterVars /\ DatabaseKept

\* Variant: without its port the dashboard goes on.
DashboardPortIgnored(l) ==
  /\ LaunchMoves(l, "bind", "serving")
  /\ UNCHANGED <<dash, adapterVars>> /\ DatabaseKept

\* Another dashboard or program has the port: the runner is cleaned up.
DashboardPortTaken(l) ==
  /\ LaunchMoves(l, "bind", "cleanup")
  /\ UNCHANGED <<dash, adapterVars>> /\ DatabaseKept

\* Variant: runner.cleanup is left out.
StopRequestedPortKept(l) ==
  /\ LaunchMoves(l, "serving", "cleanup")
  /\ UNCHANGED <<dash, adapterVars>> /\ DatabaseKept

\* Ctrl-C while it serves; runner.cleanup closes the port first.
StopRequested(l) ==
  /\ LaunchMoves(l, "serving", "cleanup")
  /\ dash' = NONE
  /\ UNCHANGED adapterVars /\ DatabaseKept

\* runner.cleanup has ended, and services.stop shuts the experiment down.
ShutDown(l) ==
  /\ LaunchMoves(l, "cleanup", "closing")
  /\ UNCHANGED <<dash, adapterVars>> /\ DatabaseKept

\* services.stop has ended.
Closed(l) ==
  /\ LaunchMoves(l, "closing", "reaping")
  /\ UNCHANGED <<dash, adapterVars>> /\ DatabaseKept

\* Ctrl-C before the signal handlers are installed cancels the main task.  One that hits
\* what follows a failed setup (runner.cleanup, services.stop, stop_process) skips the rest
\* of it, and is taken for a kill.
Interrupted(l) ==
  /\ \/ \E from \in Waiting : LaunchMoves(l, from, "reaping")
     \/ LaunchMoves(l, "health", "closing")
     \/ LaunchMoves(l, "bind", "cleanup")
  /\ UNCHANGED <<dash, adapterVars>> /\ DatabaseKept

-----------------------------------------------------------------------------
(* stop_process.                                                           *)

\* Variant: a failed setup leaves its adapter to itself.
ReapedAny(l) ==
  /\ LaunchMoves(l, "reaping", "exited")
  /\ UNCHANGED <<dash, adapterVars>> /\ DatabaseKept

Reaped(l) ==
  /\ ~Alive(l)
  /\ \E from \in {"reaping", "terminated"} : LaunchMoves(l, from, "exited")
  /\ UNCHANGED <<dash, adapterVars>> /\ DatabaseKept

\* process.terminate: SIGTERM, or on Windows the end of the process
Terminate(l) ==
  /\ Alive(l)
  /\ LaunchMoves(l, "reaping", "terminated")
  /\ Signalled(l) \/ Gone(l)
  /\ UNCHANGED dash /\ DatabaseKept

\* Variant: only an adapter that serves is killed.
KillServing(l) ==
  /\ Alive(l)
  /\ launch[l] = "terminated"
  /\ adapter[l] # "stopping"
  /\ Gone(l)
  /\ UNCHANGED <<launch, dash>> /\ DatabaseKept

\* It has not ended within 8 seconds.
Kill(l) ==
  /\ Alive(l)
  /\ launch[l] = "terminated"
  /\ Gone(l)
  /\ UNCHANGED <<launch, dash>> /\ DatabaseKept

\* The launcher is killed, also by a second Ctrl-C, or by a first one that interrupts the
\* end of a failed setup; its adapter knows nothing of it.
Killed(l) ==
  /\ launch[l] \notin Idle
  /\ launch' = [launch EXCEPT ![l] = "killed"]
  /\ dash' = IF dash = l THEN NONE ELSE dash
  /\ UNCHANGED adapterVars /\ DatabaseKept

-----------------------------------------------------------------------------
Init ==
  /\ launch = [l \in Launches |-> "idle"]
  /\ dash = NONE
  /\ version \in Versions
  /\ columns = ColumnsOf(version)
  /\ AdapterInit

\* What the launcher does by itself
LauncherStep(l) ==
  \/ DashboardFound(l)
  \/ StartAdapter(l)
  \/ ChildExited(l)
  \/ Ask(l)
  \/ NoAnswer(l)
  \/ Ready(l)
  \/ Open(l)
  \/ Create(l)
  \/ AddTimeouts(l)
  \/ Recheck(l)
  \/ AddOutage(l)
  \/ Initialized(l)
  \/ Unhealthy(l)
  \/ Bind(l)
  \/ DashboardPortTaken(l)
  \/ ShutDown(l)
  \/ Closed(l)
  \/ Reaped(l)
  \/ Terminate(l)
  \/ Kill(l)

UserStep(l) ==
  \/ Begin(l)
  \/ StopRequested(l)
  \/ Interrupted(l)
  \/ Killed(l)

\* The adapter, the console's Ctrl-C to it, and its death
ChildStep(l) ==
  /\ AdapterStep(l) \/ Signalled(l) \/ AdapterCrashes(l)
  /\ UNCHANGED <<launch, dash, version, columns>>

Next == \E l \in Launches : LauncherStep(l) \/ UserStep(l) \/ ChildStep(l)

Spec == Init /\ [][Next]_vars

(* Fairness: the launcher's own steps go on, among them the kill after 8   *)
(* seconds.  runner.cleanup has a timeout; that services.stop ends is      *)
(* assumed here, see StopEnds of HlsConsumer.  Users, adapters and Blink   *)
(* may do nothing for ever.                                                *)
Fairness == \A l \in Launches : WF_vars(LauncherStep(l))

FairSpec == Spec /\ Fairness

-----------------------------------------------------------------------------
\* Every variable keeps its type, and a port belongs to a process that is up.
TypeOK ==
  /\ launch \in [Launches -> LaunchPoints]
  /\ dash \in {l \in Launches : launch[l] = "serving"} \cup {NONE}
  /\ version \in 0..NewerVersion
  /\ columns \subseteq ColumnsOf(SchemaVersion)
  /\ file \in Selections \cup {NONE, "partial"}
  /\ temp \in [Launches -> {"none", "partial", "whole"}]
  /\ adapter \in [Launches -> AdapterPoints]
  /\ chosen \in [Launches -> Selections]
  /\ http \in {l \in Launches : Alive(l)} \cup {NONE}
  /\ tcp \in {l \in Launches : Alive(l)} \cup {NONE}

\* Whatever crashes during a save, and whoever saves at the same time, the store can
\* be read: docs/ARCHITECTURE.md:45, "a versioned envelope".
StoreReadable == file # "partial"

\* While the program has not been launched a second time beside it, no crash, failure
\* or restart loses the user's choice of a camera: it is in the store, or in the
\* memory of the adapter that will save next.
CameraRemembered ==
  [][\A l \in Launches :
       file \in Cameras /\ (\A k \in Launches \ {l} : adapter[k] = "off") => file' \in Cameras]_vars

\* The version says what the schema has, also when two launches migrate the same
\* database or one is killed between two migrations, and nothing runs on another
\* schema than its own.
SchemaAgrees ==
  /\ columns = ColumnsOf(version)
  /\ \A l \in Launches : Running(l) => version = SchemaVersion

\* A launcher that ends by itself leaves no adapter, from whatever step it failed; a user
\* who interrupts that end (Killed) may be left with one.
NoAdapterLeftBehind == \A l \in Launches : launch[l] = "exited" => ~Alive(l)

\* Two launches may both have passed the check for a running dashboard, and then run
\* the experiment on one database; that ends, for only one of them gets the port.
Overlap == \E k, l \in Launches : k # l /\ Running(k) /\ Running(l)

OverlapEnds == Overlap ~> ~Overlap

\* A launcher that has begun to stop ends, though its adapter may hang.
StopEnds ==
  \A l \in Launches :
    (launch[l] \in {"cleanup", "closing", "reaping", "terminated"}) ~> (launch[l] \in Idle)
=============================================================================
