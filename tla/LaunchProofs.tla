----------------------------- MODULE LaunchProofs -----------------------------
(***************************************************************************)
(* What Launch promises of its safety, for any number of launches and of   *)
(* cameras.  The inductive invariant has two halves: AdapterInv is about   *)
(* the adapters, the store and their ports and is preserved by every step  *)
(* of an adapter; LauncherInv is about the launchers, the dashboard's port *)
(* and the schema.                                                         *)
(***************************************************************************)
EXTENDS Launch, TLAPS

AdapterTypes ==
  /\ file \in Selections \cup {NONE, "partial"}
  /\ temp \in [Launches -> {"none", "partial", "whole"}]
  /\ adapter \in [Launches -> AdapterPoints]
  /\ chosen \in [Launches -> Selections]
  /\ http \in {l \in Launches : Alive(l)} \cup {NONE}
  /\ tcp \in {l \in Launches : Alive(l)} \cup {NONE}

\* A temporary file belongs to a save that is going on.
TempInv == \A l \in Launches : temp[l] # "none" => adapter[l] \in SavePoints

Fresh == {"load", "prompt", "first_signin"}

\* A sign-in with credentials knows of no selection.
FreshInv == \A l \in Launches : adapter[l] \in Fresh => chosen[l] = Unselected

Alone(l) == \A k \in Launches \ {l} : adapter[k] = "off"

\* The only adapter so far has read the selection that the store holds.
KnownInv ==
  \A l \in Launches :
    Alone(l) /\ file \in Cameras /\ adapter[l] \notin {"off", "load", "gone"}
      => chosen[l] \in Cameras

AdapterInv == AdapterTypes /\ StoreReadable /\ TempInv /\ FreshInv /\ KnownInv

LauncherTypes ==
  /\ launch \in [Launches -> LaunchPoints]
  /\ dash \in {l \in Launches : launch[l] = "serving"} \cup {NONE}
  /\ version \in 0..NewerVersion
  /\ columns = ColumnsOf(version)

\* Each point of the migration knows a lower bound of the version, and one that was
\* read as newer is never passed.
SchemaInv ==
  \A l \in Launches :
    /\ launch[l] = "alter1" => version \in 1..SchemaVersion
    /\ launch[l] \in {"recheck", "alter2"} => version \in 2..SchemaVersion
    /\ launch[l] \in {"health"} \cup Up => version = SchemaVersion

\* Before the adapter is started, and after an orderly end, there is none.
ChildInv == \A l \in Launches : launch[l] \in {"idle", "probe", "exited"} => ~Alive(l)

LauncherInv == LauncherTypes /\ SchemaInv /\ ChildInv

IInv == AdapterInv /\ LauncherInv

-----------------------------------------------------------------------------
(* The steps of an adapter.                                                *)

\* A process that ends takes its ports and its save with it.
LEMMA GoneKeeps ==
  ASSUME NEW l \in Launches, AdapterInv, Alive(l), Gone(l)
  PROVE  AdapterInv' /\ \A k \in Launches : Alive(k)' => Alive(k)
<1>1. AdapterTypes' /\ StoreReadable'
  BY DEF AdapterInv, AdapterTypes, StoreReadable, Gone, Alive, AdapterPoints
<1>2. TempInv' /\ FreshInv'
  BY DEF AdapterInv, AdapterTypes, TempInv, FreshInv, Fresh, Gone, AdapterPoints
<1>3. KnownInv'
  BY DEF AdapterInv, AdapterTypes, KnownInv, Alone, Gone, Alive, AdapterPoints
<1>4. \A k \in Launches : Alive(k)' => Alive(k)
  BY DEF AdapterInv, AdapterTypes, Gone, Alive
<1> QED BY <1>1, <1>2, <1>3, <1>4 DEF AdapterInv

\* A step of an adapter from one point to another, on which no save is going on.
LEMMA MoveKeeps ==
  ASSUME NEW l \in Launches, NEW from \in AdapterPoints, NEW to \in AdapterPoints,
         AdapterInv, Moves(l, from, to), from \notin {"off", "gone"}, to \notin {"off", "gone"},
         chosen' \in [Launches -> Selections],
         \A k \in Launches \ {l} : chosen'[k] = chosen[k],
         UNCHANGED <<file, temp>>,
         http' \in {http, l, NONE}, tcp' \in {tcp, l, NONE},
         to \in Fresh => chosen'[l] = Unselected,
         Alone(l) /\ file \in Cameras /\ to # "load" => chosen'[l] \in Cameras
  PROVE  AdapterInv' /\ \A k \in Launches : Alive(k)' => Alive(k)
<1>1. \A k \in Launches : Alive(k)' <=> Alive(k)
  BY DEF AdapterInv, AdapterTypes, Moves, Alive
<1>2. AdapterTypes' /\ StoreReadable'
  BY <1>1 DEF AdapterInv, AdapterTypes, StoreReadable, Moves, Alive
<1>3. TempInv'
  BY DEF AdapterInv, AdapterTypes, TempInv, Moves
<1>4. FreshInv'
  BY DEF AdapterInv, AdapterTypes, FreshInv, Moves
<1>5. KnownInv'
  BY DEF AdapterInv, AdapterTypes, KnownInv, Alone, Moves
<1> QED BY <1>1, <1>2, <1>3, <1>4, <1>5 DEF AdapterInv

\* Signing in changes no file and starts no process.
LEMMA SignInKeeps ==
  ASSUME NEW l \in Launches, AdapterInv, SignInStep(l)
  PROVE  AdapterInv' /\ \A k \in Launches : Alive(k)' => Alive(k)
<1> USE DEF AdapterInv, AdapterTypes, AdapterPoints
<1>1. CASE LoadNothing(l)
  <2>1. Moves(l, "load", "prompt") /\ chosen[l] = Unselected /\ file \notin Cameras
    BY <1>1, FilesAreApart DEF LoadNothing, Moves, FreshInv, Fresh, Selections
  <2> QED BY <1>1, <2>1, MoveKeeps DEF LoadNothing
<1>2. CASE LoadSession(l)
  BY <1>2, MoveKeeps DEF LoadSession, Moves, Fresh
<1>3. CASE LoadUnreadable(l)
  BY <1>3 DEF LoadUnreadable, StoreReadable
<1>4. CASE Attempt(l)
  BY <1>4, MoveKeeps DEF Attempt, Moves, Fresh, Selections
<1>5. CASE SignInFails(l)
  BY <1>5, MoveKeeps DEF SignInFails, Moves, Fresh, KnownInv
<1>6. CASE Credentials(l)
  BY <1>6, MoveKeeps DEF Credentials, Moves, Fresh, FreshInv, KnownInv
<1>7. CASE FirstSignInFails(l)
  BY <1>7, GoneKeeps DEF FirstSignInFails, Fails, Alive
<1>8. CASE SignedIn(l)
  BY <1>8, MoveKeeps DEF SignedIn, Moves, Fresh, KnownInv
<1>9. CASE SelectCamera(l)
  <2>1. /\ Moves(l, "choose", "save_camera")
        /\ UNCHANGED <<file, temp, http, tcp>>
    BY <1>9 DEF SelectCamera
  <2>2. PICK available \in SUBSET Cameras :
          \E c \in Choices(chosen[l], available) : chosen' = [chosen EXCEPT ![l] = c]
    BY <1>9 DEF SelectCamera
  <2>3. PICK c \in Choices(chosen[l], available) : chosen' = [chosen EXCEPT ![l] = c]
    BY <2>2
  <2>4. c \in Cameras
    BY <2>3 DEF Choices
  <2> QED BY <2>1, <2>3, <2>4, MoveKeeps DEF Moves, Fresh, Selections
<1>10. CASE NoCamera(l)
  BY <1>10, GoneKeeps DEF NoCamera, Fails, Alive
<1> QED BY <1>1, <1>2, <1>3, <1>4, <1>5, <1>6, <1>7, <1>8, <1>9, <1>10 DEF SignInStep

\* A save replaces the store by the whole of what its adapter knows.
LEMMA SaveKeeps ==
  ASSUME NEW l \in Launches, AdapterInv, SaveStep(l)
  PROVE  AdapterInv' /\ \A k \in Launches : Alive(k)' => Alive(k)
<1>1. CASE SaveStarts(l)
  <2>1. AdapterTypes' /\ StoreReadable' /\ \A k \in Launches : Alive(k)' <=> Alive(k)
    BY <1>1 DEF AdapterInv, AdapterTypes, StoreReadable, SaveStarts, Alive
  <2>2. TempInv' /\ FreshInv' /\ KnownInv'
    BY <1>1 DEF AdapterInv, AdapterTypes, TempInv, FreshInv, KnownInv, Alone, SaveStarts
  <2> QED BY <2>1, <2>2 DEF AdapterInv
<1>2. CASE SaveFlushed(l)
  <2>1. AdapterTypes' /\ StoreReadable' /\ \A k \in Launches : Alive(k)' <=> Alive(k)
    BY <1>2 DEF AdapterInv, AdapterTypes, StoreReadable, SaveFlushed, Alive
  <2>2. TempInv' /\ FreshInv' /\ KnownInv'
    BY <1>2 DEF AdapterInv, AdapterTypes, TempInv, FreshInv, KnownInv, Alone, SaveFlushed
  <2> QED BY <2>1, <2>2 DEF AdapterInv
<1>3. CASE SaveReplaces(l)
  <2> DEFINE to == AfterSave(adapter[l])
  <2>1. /\ temp[l] = "whole" /\ adapter[l] \in SavePoints
        /\ file' = chosen[l]
        /\ temp' = [temp EXCEPT ![l] = "none"]
        /\ adapter' = [adapter EXCEPT ![l] = to]
        /\ UNCHANGED <<chosen, http, tcp>>
    BY <1>3 DEF SaveReplaces, Written, Replacement, AdapterInv, TempInv
  <2>2. /\ to \in AdapterPoints \ {"off", "load", "gone"}
        /\ to \in Fresh => adapter[l] \in Fresh
    BY <2>1 DEF AfterSave, SavePoints, CallbackPoints, AdapterPoints, Fresh
  <2>3. adapter[l] \notin {"off", "load", "gone"}
    BY <2>1 DEF SavePoints, CallbackPoints
  <2> HIDE DEF to
  <2>4. \A k \in Launches : Alive(k)' <=> Alive(k)
    BY <2>1, <2>2, <2>3 DEF AdapterInv, AdapterTypes, Alive
  <2>5. AdapterTypes' /\ StoreReadable'
    BY <2>1, <2>2, <2>4, FilesAreApart DEF AdapterInv, AdapterTypes, StoreReadable
  <2>6. TempInv' /\ FreshInv'
    BY <2>1, <2>2 DEF AdapterInv, AdapterTypes, TempInv, FreshInv
  <2>7. KnownInv'
    BY <2>1, <2>2, <2>3 DEF AdapterInv, AdapterTypes, KnownInv, Alone
  <2> QED BY <2>4, <2>5, <2>6, <2>7 DEF AdapterInv
<1>4. CASE SaveFailsSoftly(l)
  <2> DEFINE to == IF adapter[l] = "signin" THEN "attempt" ELSE adapter[l]
  <2>1. /\ adapter[l] \in CallbackPoints \ {"first_signin"}
        /\ temp' = [temp EXCEPT ![l] = "none"]
        /\ adapter' = [adapter EXCEPT ![l] = to]
        /\ UNCHANGED <<file, chosen, http, tcp>>
    BY <1>4 DEF SaveFailsSoftly
  <2>2. /\ adapter[l] \notin {"off", "load", "gone"} \cup Fresh
        /\ to \in AdapterPoints \ ({"off", "load", "gone"} \cup Fresh)
    BY <2>1 DEF CallbackPoints, AdapterPoints, Fresh
  <2> HIDE DEF to
  <2>3. \A k \in Launches : Alive(k)' <=> Alive(k)
    BY <2>1, <2>2 DEF AdapterInv, AdapterTypes, Alive
  <2>4. AdapterTypes' /\ StoreReadable'
    BY <2>1, <2>2, <2>3 DEF AdapterInv, AdapterTypes, StoreReadable
  <2>5. TempInv' /\ FreshInv'
    BY <2>1, <2>2 DEF AdapterInv, AdapterTypes, TempInv, FreshInv
  <2>6. KnownInv'
    BY <2>1, <2>2 DEF AdapterInv, AdapterTypes, KnownInv, Alone
  <2> QED BY <2>3, <2>4, <2>5, <2>6 DEF AdapterInv
<1>5. CASE SaveFails(l)
  <2>1. Alive(l)
    BY <1>5 DEF SaveFails, AdapterInv, TempInv, SavePoints, CallbackPoints, Alive
  <2> QED BY <1>5, <2>1, GoneKeeps DEF SaveFails
<1> QED BY <1>1, <1>2, <1>3, <1>4, <1>5 DEF SaveStep

\* Binding the ports, and the orderly end.
LEMMA ServeKeeps ==
  ASSUME NEW l \in Launches, AdapterInv, ServeStep(l)
  PROVE  AdapterInv' /\ \A k \in Launches : Alive(k)' => Alive(k)
<1> USE DEF AdapterInv, AdapterTypes, AdapterPoints
<1>1. CASE BindHttp(l)
  BY <1>1, MoveKeeps DEF BindHttp, Moves, Fresh, KnownInv
<1>2. CASE BindTcp(l)
  BY <1>2, MoveKeeps DEF BindTcp, Moves, Fresh, KnownInv
<1>3. CASE PortTaken(l)
  BY <1>3, GoneKeeps DEF PortTaken, Fails, Alive
<1>4. CASE AdapterStops(l)
  BY <1>4, GoneKeeps DEF AdapterStops, Fails, Alive
<1> QED BY <1>1, <1>2, <1>3, <1>4 DEF ServeStep

\* A signal ends the adapter, or has it stop.
LEMMA SignalKeeps ==
  ASSUME NEW l \in Launches, AdapterInv, Signalled(l)
  PROVE  AdapterInv' /\ \A k \in Launches : Alive(k)' => Alive(k)
<1>1. Alive(l)
  BY DEF Signalled
<1>2. CASE adapter[l] = "serving"
  <2>1. /\ adapter' = [adapter EXCEPT ![l] = "stopping"]
        /\ tcp' = NONE
        /\ UNCHANGED <<file, temp, chosen, http>>
    BY <1>2 DEF Signalled
  <2>2. \A k \in Launches : Alive(k)' <=> Alive(k)
    BY <1>2, <2>1 DEF AdapterInv, AdapterTypes, Alive
  <2>3. AdapterTypes' /\ StoreReadable'
    BY <2>1, <2>2 DEF AdapterInv, AdapterTypes, StoreReadable, AdapterPoints
  <2>4. TempInv' /\ FreshInv' /\ KnownInv'
    BY <1>2, <2>1 DEF AdapterInv, AdapterTypes, TempInv, FreshInv, KnownInv, Alone, SavePoints,
                      CallbackPoints, Fresh
  <2> QED BY <2>2, <2>3, <2>4 DEF AdapterInv
<1>3. CASE adapter[l] = "stopping"
  <2>1. UNCHANGED adapterVars
    BY <1>3 DEF Signalled
  <2> QED BY <2>1 DEF adapterVars, AdapterInv, AdapterTypes, StoreReadable, TempInv, FreshInv,
                      KnownInv, Alone, Alive
<1>4. CASE adapter[l] \notin {"serving", "stopping"}
  BY <1>1, <1>4, GoneKeeps DEF Signalled
<1> QED BY <1>2, <1>3, <1>4

\* A new adapter knows nothing, and is no longer the first one if another ever ran.
LEMMA StartKeeps ==
  ASSUME NEW l \in Launches, AdapterInv, AdapterStarts(l)
  PROVE  AdapterInv' /\ \A k \in Launches \ {l} : Alive(k)' => Alive(k)
<1>1. \A k \in Launches : Alive(k) => Alive(k)'
  BY DEF AdapterInv, AdapterTypes, AdapterStarts, Alive
<1>2. AdapterTypes' /\ StoreReadable'
  BY <1>1 DEF AdapterInv, AdapterTypes, StoreReadable, AdapterStarts, AdapterPoints, Selections
<1>3. TempInv'
  BY DEF AdapterInv, AdapterTypes, TempInv, AdapterStarts, Alive, SavePoints, CallbackPoints
<1>4. FreshInv'
  BY DEF AdapterInv, AdapterTypes, FreshInv, AdapterStarts
<1>5. KnownInv'
  BY DEF AdapterInv, AdapterTypes, KnownInv, Alone, AdapterStarts
<1>6. \A k \in Launches \ {l} : Alive(k)' => Alive(k)
  BY DEF AdapterInv, AdapterTypes, AdapterStarts, Alive
<1> QED BY <1>2, <1>3, <1>4, <1>5, <1>6 DEF AdapterInv

LEMMA AdapterUnchanged ==
  ASSUME AdapterInv, UNCHANGED adapterVars
  PROVE  AdapterInv' /\ \A k \in Launches : Alive(k)' <=> Alive(k)
BY DEF adapterVars, AdapterInv, AdapterTypes, StoreReadable, TempInv, FreshInv, KnownInv, Alone,
       Alive

\* A step of an adapter is one of an adapter that is there, so nobody is revived.
LEMMA ChildKeeps ==
  ASSUME NEW l \in Launches, AdapterInv,
         AdapterStep(l) \/ Signalled(l) \/ AdapterCrashes(l)
  PROVE  AdapterInv' /\ \A k \in Launches : Alive(k)' => Alive(k)
BY SignInKeeps, SaveKeeps, ServeKeeps, SignalKeeps, GoneKeeps DEF AdapterStep, AdapterCrashes

-----------------------------------------------------------------------------
(* The steps of a launcher.                                                *)

\* The versions and their schemas
LEMMA Schemas ==
  /\ ColumnsOf(0) = {}
  /\ ColumnsOf(1) = {"tables"}
  /\ ColumnsOf(2) = {"tables", "timeouts"}
  /\ ColumnsOf(3) = {"tables", "timeouts", "outage"}
  /\ ColumnsOf(4) = {"tables", "timeouts", "outage"}
BY DEF ColumnsOf

\* A step of a launcher from one point to another that leaves the schema alone.
LEMMA LaunchMoveKeeps ==
  ASSUME NEW l \in Launches, NEW from \in LaunchPoints, NEW to \in LaunchPoints,
         LauncherInv, LaunchMoves(l, from, to), DatabaseKept,
         \A k \in Launches \ {l} : Alive(k)' => Alive(k),
         to \in {"idle", "probe", "exited"} => ~Alive(l)',
         dash' \in IF to = "serving" THEN {dash, l, NONE}
                   ELSE IF dash = l THEN {NONE} ELSE {dash, NONE},
         to = "alter1" => version \in 1..SchemaVersion,
         to \in {"recheck", "alter2"} => version \in 2..SchemaVersion,
         to \in {"health"} \cup Up => version = SchemaVersion
  PROVE  LauncherInv'
<1> USE DEF LauncherInv, LauncherTypes, LaunchMoves, DatabaseKept
<1>1. LauncherTypes'
  BY DEF LauncherTypes
<1>2. SchemaInv'
  BY DEF SchemaInv
<1>3. ChildInv'
  BY DEF ChildInv
<1> QED BY <1>1, <1>2, <1>3

\* A migration raises the version, and only from the one it was written for.
LEMMA MigrateKeeps ==
  ASSUME NEW l \in Launches, NEW from \in {"create", "alter1", "alter2"},
         NEW next \in {"recheck", "health"}, NEW added, NEW to \in 2..SchemaVersion,
         LauncherInv, Migrate(l, from, added, to, next),
         Missing(added) => version < to /\ ColumnsOf(to) = ColumnsOf(version) \cup added,
         next = "health" => to = SchemaVersion,
         UNCHANGED adapterVars
  PROVE  LauncherInv'
<1>1. CASE Missing(added) /\ LaunchMoves(l, from, next) /\ version' = to
             /\ columns' = columns \cup added /\ UNCHANGED <<dash, adapterVars>>
  <2>1. LauncherTypes'
    BY <1>1 DEF LauncherInv, LauncherTypes, LaunchMoves, LaunchPoints, Migrating, SchemaVersion,
                NewerVersion
  <2>2. SchemaInv'
    BY <1>1 DEF LauncherInv, LauncherTypes, SchemaInv, LaunchMoves, SchemaVersion, NewerVersion, Up
  <2>3. ChildInv'
    BY <1>1 DEF LauncherInv, LauncherTypes, ChildInv, LaunchMoves, Alive, adapterVars
  <2> QED BY <2>1, <2>2, <2>3 DEF LauncherInv
<1>2. CASE LaunchMoves(l, from, "reaping") /\ UNCHANGED <<dash, adapterVars>> /\ DatabaseKept
  <2>1. \A k \in Launches : Alive(k)' <=> Alive(k)
    BY DEF adapterVars, Alive
  <2> QED BY <1>2, <2>1, LaunchMoveKeeps
             DEF LaunchPoints, Migrating, Up, LauncherInv, LauncherTypes, LaunchMoves
<1> QED BY <1>1, <1>2 DEF Migrate

LEMMA LauncherKeeps ==
  ASSUME NEW l \in Launches, IInv, LauncherStep(l)
  PROVE  IInv'
<1> USE DEF IInv
<1> DEFINE Known == UNCHANGED adapterVars => AdapterInv' /\ \A k \in Launches : Alive(k)' <=> Alive(k)
<1>0. Known
  BY AdapterUnchanged
<1>p. /\ LaunchPoints = Idle \cup Waiting \cup Migrating \cup Up
                  \cup {"probe", "health", "closing", "reaping", "terminated"}
      /\ Idle = {"idle", "exited", "killed"}
      /\ Waiting = {"waiting", "asking"}
      /\ Migrating = {"open", "create", "alter1", "recheck", "alter2"}
      /\ Up = {"bind", "serving", "cleanup"}
  BY DEF LaunchPoints, Idle, Waiting, Migrating, Up
<1>d. dash = l => launch[l] = "serving"
  BY NoneIsApart DEF LauncherInv, LauncherTypes
<1>1. CASE DashboardFound(l)
  BY <1>1, <1>0, <1>p, <1>d, LaunchMoveKeeps DEF DashboardFound, LaunchMoves, LauncherInv, ChildInv
<1>2. CASE StartAdapter(l)
  BY <1>2, <1>p, <1>d, StartKeeps, LaunchMoveKeeps DEF StartAdapter, LaunchMoves
<1>3. CASE ChildExited(l) \/ Ask(l) \/ NoAnswer(l) \/ Ready(l)
  BY <1>3, <1>0, <1>p, <1>d, LaunchMoveKeeps DEF ChildExited, Ask, NoAnswer, Ready, LaunchMoves
<1>4. CASE Open(l)
  <2>1. /\ Found(version) \in {"create", "alter1", "reaping", "recheck"}
        /\ Found(version) = "alter1" => version \in 1..SchemaVersion
        /\ Found(version) = "recheck" => version \in 2..SchemaVersion
    BY DEF Found, LauncherInv, LauncherTypes, SchemaVersion, NewerVersion
  <2> QED BY <1>4, <1>0, <1>p, <1>d, <2>1, LaunchMoveKeeps DEF Open, LaunchMoves
<1>5. CASE Create(l)
  <2>1. Missing(ColumnsOf(SchemaVersion)) => version = 0
    BY Schemas DEF Missing, LauncherInv, LauncherTypes, SchemaVersion, NewerVersion
  <2>2. UNCHANGED adapterVars
    BY <1>5 DEF Create, Migrate
  <2> QED BY <1>5, <1>0, <2>1, <2>2, Schemas, MigrateKeeps DEF Create, SchemaVersion
<1>6. CASE AddTimeouts(l)
  <2>1. launch[l] = "alter1"
    BY <1>6 DEF AddTimeouts, Migrate, LaunchMoves
  <2>2. Missing({"timeouts"}) => version = 1
    BY <2>1, Schemas DEF Missing, LauncherInv, LauncherTypes, SchemaInv, SchemaVersion, NewerVersion
  <2>3. UNCHANGED adapterVars
    BY <1>6 DEF AddTimeouts, Migrate
  <2> QED BY <1>6, <1>0, <2>2, <2>3, Schemas, MigrateKeeps DEF AddTimeouts, SchemaVersion
<1>7. CASE Recheck(l)
  <2> DEFINE to == IF version = 2 THEN "alter2" ELSE "health"
  <2>1. /\ to = "alter2" => version \in 2..SchemaVersion
        /\ to = "health" => version = SchemaVersion
        /\ to \in {"alter2", "health"}
    BY <1>7 DEF Recheck, LaunchMoves, LauncherInv, SchemaInv, SchemaVersion
  <2>2. LaunchMoves(l, "recheck", to) /\ UNCHANGED <<dash, adapterVars>> /\ DatabaseKept
    BY <1>7 DEF Recheck
  <2> HIDE DEF to
  <2> QED BY <2>1, <2>2, <1>0, <1>p, <1>d, LaunchMoveKeeps DEF LaunchMoves
<1>8. CASE AddOutage(l)
  <2>1. launch[l] = "alter2"
    BY <1>8 DEF AddOutage, Migrate, LaunchMoves
  <2>2. Missing({"outage"}) => version = 2
    BY <2>1, Schemas DEF Missing, LauncherInv, LauncherTypes, SchemaInv, SchemaVersion, NewerVersion
  <2>3. UNCHANGED adapterVars
    BY <1>8 DEF AddOutage, Migrate
  <2> QED BY <1>8, <1>0, <2>2, <2>3, Schemas, MigrateKeeps DEF AddOutage, SchemaVersion
<1>9. CASE Initialized(l) \/ Unhealthy(l) \/ DashboardPortTaken(l) \/ ShutDown(l) \/ Closed(l)
  BY <1>9, <1>0, <1>p, <1>d, LaunchMoveKeeps
     DEF Initialized, Unhealthy, DashboardPortTaken, ShutDown, Closed, LaunchMoves, LauncherInv,
         SchemaInv
<1>10. CASE Bind(l)
  <2>1. dash' = l
    BY <1>10 DEF Bind
  <2> QED BY <1>10, <1>0, <1>p, <2>1, LaunchMoveKeeps DEF Bind, LaunchMoves, LauncherInv, SchemaInv
<1>11. CASE Reaped(l)
  BY <1>11, <1>0, <1>p, <1>d, LaunchMoveKeeps DEF Reaped, LaunchMoves
<1>12. CASE Terminate(l)
  <2>1. AdapterInv' /\ \A k \in Launches : Alive(k)' => Alive(k)
    BY <1>12, SignalKeeps, GoneKeeps DEF Terminate
  <2> QED BY <1>12, <1>p, <1>d, <2>1, LaunchMoveKeeps DEF Terminate, LaunchMoves
<1>13. CASE Kill(l)
  <2>1. AdapterInv' /\ \A k \in Launches : Alive(k)' => Alive(k)
    BY <1>13, GoneKeeps DEF Kill
  <2> QED BY <1>13, <2>1 DEF Kill, DatabaseKept, LauncherInv, LauncherTypes, SchemaInv, ChildInv
<1> QED BY <1>1, <1>2, <1>3, <1>4, <1>5, <1>6, <1>7, <1>8, <1>9, <1>10, <1>11, <1>12, <1>13
           DEF LauncherStep

\* What the user does: the next launch comes when the last adapter of this one is gone.
LEMMA UserKeeps ==
  ASSUME NEW l \in Launches, IInv, UserStep(l)
  PROVE  IInv'
<1> USE DEF IInv
<1>p. /\ LaunchPoints = Idle \cup Waiting \cup Migrating \cup Up
                  \cup {"probe", "health", "closing", "reaping", "terminated"}
      /\ Idle = {"idle", "exited", "killed"}
      /\ Waiting = {"waiting", "asking"}
      /\ Up = {"bind", "serving", "cleanup"}
  BY DEF LaunchPoints, Idle, Waiting, Up
<1>d. dash = l => launch[l] = "serving"
  BY NoneIsApart DEF LauncherInv, LauncherTypes
<1>0. AdapterInv' /\ \A k \in Launches : Alive(k)' <=> Alive(k)
  BY AdapterUnchanged DEF UserStep, Begin, StopRequested, Interrupted, Killed
<1>1. CASE Begin(l)
  BY <1>1, <1>0, <1>p, <1>d, LaunchMoveKeeps DEF Begin, LaunchMoves
<1>2. CASE StopRequested(l)
  BY <1>2, <1>0, <1>p, LaunchMoveKeeps DEF StopRequested, LaunchMoves, LauncherInv, SchemaInv
<1>3. CASE Interrupted(l)
  BY <1>3, <1>0, <1>p, <1>d, LaunchMoveKeeps DEF Interrupted, LaunchMoves, LauncherInv, SchemaInv
<1>4. CASE Killed(l)
  <2>1. launch[l] \in LaunchPoints /\ LaunchMoves(l, launch[l], "killed")
    BY <1>4 DEF Killed, LaunchMoves, LauncherInv, LauncherTypes
  <2> QED BY <1>4, <1>0, <1>p, <2>1, LaunchMoveKeeps DEF Killed
<1> QED BY <1>1, <1>2, <1>3, <1>4 DEF UserStep

LEMMA ChildStepKeeps ==
  ASSUME NEW l \in Launches, IInv, ChildStep(l)
  PROVE  IInv'
<1>1. AdapterInv' /\ \A k \in Launches : Alive(k)' => Alive(k)
  BY ChildKeeps DEF ChildStep, IInv
<1>2. LauncherInv'
  BY <1>1 DEF ChildStep, IInv, LauncherInv, LauncherTypes, SchemaInv, ChildInv
<1> QED BY <1>1, <1>2 DEF IInv

-----------------------------------------------------------------------------
LEMMA IInvInit == Init => IInv
<1> SUFFICES ASSUME Init PROVE IInv
  OBVIOUS
<1>1. AdapterInv
  BY FilesAreApart
     DEF Init, AdapterInit, AdapterInv, AdapterTypes, StoreReadable, TempInv, FreshInv, KnownInv,
         Selections, AdapterPoints, Fresh
<1>2. LauncherInv
  BY VersionsAssumption
     DEF Init, AdapterInit, LauncherInv, LauncherTypes, SchemaInv, ChildInv, LaunchPoints, Idle, Up,
         Alive
<1> QED BY <1>1, <1>2 DEF IInv

LEMMA IInvNext == IInv /\ [Next]_vars => IInv'
<1> SUFFICES ASSUME IInv, [Next]_vars PROVE IInv'
  OBVIOUS
<1>1. CASE Next
  BY <1>1, LauncherKeeps, UserKeeps, ChildStepKeeps DEF Next
<1>2. CASE UNCHANGED vars
  <2>1. AdapterInv' /\ \A k \in Launches : Alive(k)' <=> Alive(k)
    BY <1>2, AdapterUnchanged DEF vars, IInv
  <2> QED BY <1>2, <2>1 DEF vars, IInv, LauncherInv, LauncherTypes, SchemaInv, ChildInv
<1> QED BY <1>1, <1>2

\* The inductive invariant holds in every execution.
THEOREM LaunchInvariance == Spec => []IInv
BY IInvInit, IInvNext, PTL DEF Spec

\* Every variable keeps its type, and a port belongs to a process that is up.
THEOREM LaunchTypes == Spec => []TypeOK
<1>1. IInv => TypeOK
  BY Schemas DEF IInv, AdapterInv, AdapterTypes, LauncherInv, LauncherTypes, TypeOK, SchemaVersion,
                 NewerVersion
<1> QED BY <1>1, LaunchInvariance, PTL

\* The encrypted store can always be read.
THEOREM StoreStaysReadable == Spec => []StoreReadable
<1>1. IInv => StoreReadable
  BY DEF IInv, AdapterInv
<1> QED BY <1>1, LaunchInvariance, PTL

\* The version of the database says what its schema has.
THEOREM SchemaStaysTrue == Spec => []SchemaAgrees
<1>1. IInv => SchemaAgrees
  BY DEF IInv, LauncherInv, LauncherTypes, SchemaInv, SchemaAgrees, Running
<1> QED BY <1>1, LaunchInvariance, PTL

\* A launcher that ends by itself leaves no adapter behind.
THEOREM LauncherCleansUp == Spec => []NoAdapterLeftBehind
<1>1. IInv => NoAdapterLeftBehind
  BY DEF IInv, LauncherInv, ChildInv, NoAdapterLeftBehind
<1> QED BY <1>1, LaunchInvariance, PTL

\* Only a save touches the store, and an adapter that was never accompanied saves a
\* selection once it has one.
THEOREM SelectionSurvives == Spec => CameraRemembered
<1> DEFINE Kept == \A l \in Launches : file \in Cameras /\ Alone(l) => file' \in Cameras
<1>1. IInv /\ [Next]_vars => Kept
  <2> SUFFICES ASSUME IInv, [Next]_vars, NEW l \in Launches, file \in Cameras, Alone(l),
                      file' # file
               PROVE  file' \in Cameras
    OBVIOUS
  <2>1. PICK k \in Launches : SaveReplaces(k)
    BY DEF Next, vars, adapterVars, LauncherStep, UserStep, ChildStep, AdapterStep, SignInStep,
           SaveStep, ServeStep, Signalled, AdapterCrashes, Gone, Fails, AdapterStarts,
           DashboardFound, StartAdapter, ChildExited, Ask, NoAnswer, Ready, Open, Create,
           AddTimeouts, Recheck, AddOutage, Migrate, Initialized, Unhealthy, Bind,
           DashboardPortTaken, ShutDown, Closed, Reaped, Terminate, Kill, Begin, StopRequested,
           Interrupted, Killed, LoadNothing, LoadSession, LoadUnreadable, Attempt, SignInFails,
           Credentials, FirstSignInFails, SignedIn, SelectCamera, NoCamera, SaveStarts,
           SaveFlushed, SaveFailsSoftly, SaveFails, BindHttp, BindTcp, PortTaken, AdapterStops
  <2>2. /\ adapter[k] \in SavePoints
        /\ file' = chosen[k]
    BY <2>1 DEF SaveReplaces, Written, Replacement, IInv, AdapterInv, TempInv
  <2>3. k = l /\ adapter[l] \notin {"off", "load", "gone"}
    BY <2>2 DEF Alone, SavePoints, CallbackPoints
  <2> QED BY <2>2, <2>3 DEF IInv, AdapterInv, KnownInv
<1>2. Kept => (\A l \in Launches :
                 file \in Cameras /\ (\A k \in Launches \ {l} : adapter[k] = "off")
                   => file' \in Cameras)
  BY DEF Alone
<1> QED BY <1>1, <1>2, LaunchInvariance, PTL DEF Spec, CameraRemembered
=============================================================================
