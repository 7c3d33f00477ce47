---------------------------- MODULE AdapterProcess ----------------------------
(***************************************************************************)
(* The adapter process (src/blink_dashboard/adapter_main.py) until it      *)
(* serves, and its end: signing in to Blink (authenticate_blink), choosing *)
(* the camera (select_camera), keeping both in the encrypted store         *)
(* (secret_store.py), and binding its two ports.                           *)
(*                                                                         *)
(* Every launch of the program has an adapter of its own, and several may  *)
(* be alive: the launches of an impatient user, or one that a killed       *)
(* launcher left behind.  They share the store and the ports.              *)
(***************************************************************************)
EXTENDS FiniteSets

CONSTANTS
  Launches,  \* the launches of the program, one adapter each
  Cameras,   \* the cameras of the Blink account
  NONE       \* no file, no process

\* A selection is a camera, or the None of an account without a selection.
Unselected == "unselected"
Selections == Cameras \cup {Unselected}

ASSUME NoneIsApart == NONE \notin Launches
ASSUME FilesAreApart == NONE # "partial" /\ {NONE, "partial"} \cap Selections = {}

VARIABLES
  file,     \* auth.dpapi: NONE, "partial", or the camera selection that its payload
            \* holds beside the session
  temp,     \* the temporary file of each adapter's save: "none", "partial" or "whole"
  adapter,  \* where each adapter is
  chosen,   \* camera_state["value"] of each adapter
  http,     \* the adapter that listens on the HTTP port
  tcp       \* the adapter that listens on the stream port

adapterVars == <<file, temp, adapter, chosen, http, tcp>>

AdapterPoints ==
  {"off", "load", "prompt", "first_signin", "attempt", "signin", "save_auth", "choose",
   "save_camera", "bind_http", "bind_tcp", "serving", "stopping", "gone"}

Alive(l) == adapter[l] \notin {"off", "gone"}

\* Blinkpy may call back with new tokens while it signs in and while requests are served.
CallbackPoints == {"signin", "first_signin", "bind_tcp", "serving", "stopping"}
SavePoints == CallbackPoints \cup {"save_auth", "save_camera"}

Moves(l, from, to) ==
  /\ adapter[l] = from
  /\ temp[l] = "none"
  /\ adapter' = [adapter EXCEPT ![l] = to]

\* The process is gone; the system takes back its ports, and nobody reads the
\* temporary file of a save that it did not finish.
Gone(l) ==
  /\ adapter' = [adapter EXCEPT ![l] = "gone"]
  /\ temp' = [temp EXCEPT ![l] = "none"]
  /\ http' = IF http = l THEN NONE ELSE http
  /\ tcp' = IF tcp = l THEN NONE ELSE tcp
  /\ UNCHANGED <<file, chosen>>

Fails(l, from) ==
  /\ adapter[l] = from
  /\ temp[l] = "none"
  /\ Gone(l)

-----------------------------------------------------------------------------
(* Signing in.                                                             *)

\* The store decides once whether credentials are asked for.
LoadNothing(l) ==
  /\ file = NONE
  /\ Moves(l, "load", "prompt")
  /\ UNCHANGED <<file, temp, chosen, http, tcp>>

LoadSession(l) ==
  /\ file \in Selections
  /\ Moves(l, "load", "attempt")
  /\ chosen' = [chosen EXCEPT ![l] = file]
  /\ UNCHANGED <<file, temp, http, tcp>>

\* The store cannot be read: exit code 2, or 1 in a retry.
LoadUnreadable(l) ==
  /\ file = "partial"
  /\ Fails(l, "load") \/ Fails(l, "attempt")

\* Every attempt with a saved session reads the store again, and keeps what it
\* knew when the store no longer has it.
Attempt(l) ==
  /\ file # "partial"
  /\ Moves(l, "attempt", "signin")
  /\ chosen' = [chosen EXCEPT ![l] = IF file \in Cameras THEN file ELSE @]
  /\ UNCHANGED <<file, temp, http, tcp>>

\* Blink is not reachable, refuses the session or the MFA code: sleep and try again.
SignInFails(l) ==
  /\ Moves(l, "signin", "attempt")
  /\ UNCHANGED <<file, temp, chosen, http, tcp>>

Credentials(l) ==
  /\ Moves(l, "prompt", "first_signin")
  /\ UNCHANGED <<file, temp, chosen, http, tcp>>

\* Nothing was entered, or the first sign-in failed: exit code 1
FirstSignInFails(l) == Fails(l, "prompt") \/ Fails(l, "first_signin")

SignedIn(l) ==
  /\ Moves(l, "signin", "save_auth") \/ Moves(l, "first_signin", "save_auth")
  /\ UNCHANGED <<file, temp, chosen, http, tcp>>

\* select_camera: a known camera that is there, the only camera of a new account,
\* or the user's choice
Choices(saved, available) ==
  IF saved \in available THEN {saved} ELSE available

SelectCamera(l) ==
  /\ Moves(l, "choose", "save_camera")
  /\ \E available \in SUBSET Cameras : \E c \in Choices(chosen[l], available) :
       chosen' = [chosen EXCEPT ![l] = c]
  /\ UNCHANGED <<file, temp, http, tcp>>

\* The account shows no camera: exit code 1
NoCamera(l) == Fails(l, "choose")

-----------------------------------------------------------------------------
(* SecretStore.save: a temporary file is created, written and flushed, and *)
(* then takes the place of the old one.                                    *)

SaveStarts(l) ==
  /\ adapter[l] \in SavePoints
  /\ temp[l] = "none"
  /\ temp' = [temp EXCEPT ![l] = "partial"]
  /\ UNCHANGED <<file, adapter, chosen, http, tcp>>

SaveFlushed(l) ==
  /\ temp[l] = "partial"
  /\ temp' = [temp EXCEPT ![l] = "whole"]
  /\ UNCHANGED <<file, adapter, chosen, http, tcp>>

\* Variant: the save that follows the sign-in leaves the selection out.
ReplacementSignedIn(l) == IF adapter[l] = "save_auth" THEN Unselected ELSE chosen[l]

\* persist_authentication
Replacement(l) == chosen[l]

AfterSave(point) ==
  CASE point = "save_auth" -> "choose"
    [] point = "save_camera" -> "bind_http"
    [] OTHER -> point

\* Variant: the temporary file takes the place before it has been flushed.
WrittenAtOnce(l) == temp[l] # "none"

Written(l) == temp[l] = "whole"

SaveReplaces(l) ==
  /\ Written(l)
  /\ file' = IF temp[l] = "whole" THEN Replacement(l) ELSE "partial"
  /\ temp' = [temp EXCEPT ![l] = "none"]
  /\ adapter' = [adapter EXCEPT ![l] = AfterSave(@)]
  /\ UNCHANGED <<chosen, http, tcp>>

\* The disk refuses.  In a callback the error is that of the sign-in, which is tried
\* again if the session was a saved one, or that of a request; elsewhere it is fatal.
SaveFailsSoftly(l) ==
  /\ temp[l] # "none"
  /\ adapter[l] \in CallbackPoints \ {"first_signin"}
  /\ temp' = [temp EXCEPT ![l] = "none"]
  /\ adapter' = [adapter EXCEPT ![l] = IF @ = "signin" THEN "attempt" ELSE @]
  /\ UNCHANGED <<file, chosen, http, tcp>>

SaveFails(l) ==
  /\ temp[l] # "none"
  /\ adapter[l] \notin CallbackPoints \ {"first_signin"}
  /\ Gone(l)

-----------------------------------------------------------------------------
(* Serving.                                                                *)

BindHttp(l) ==
  /\ http = NONE
  /\ Moves(l, "bind_http", "bind_tcp")
  /\ http' = l
  /\ UNCHANGED <<file, temp, chosen, tcp>>

BindTcp(l) ==
  /\ tcp = NONE
  /\ Moves(l, "bind_tcp", "serving")
  /\ tcp' = l
  /\ UNCHANGED <<file, temp, chosen, http>>

\* Another adapter or program has the port: exit code 1
PortTaken(l) == Fails(l, "bind_http") \/ Fails(l, "bind_tcp")

\* SIGTERM or SIGINT: once it serves it stops in an orderly way, before it just ends.
Signalled(l) ==
  /\ Alive(l)
  /\ CASE adapter[l] = "serving" ->
            /\ adapter' = [adapter EXCEPT ![l] = "stopping"]
            /\ tcp' = NONE
            /\ UNCHANGED <<file, temp, chosen, http>>
       [] adapter[l] = "stopping" -> UNCHANGED adapterVars
       [] OTHER -> Gone(l)

\* BlinkAdapter.stop has come to its end (see AdapterStream), or never does.
AdapterStops(l) == Fails(l, "stopping")

AdapterCrashes(l) == Alive(l) /\ Gone(l)

AdapterStarts(l) ==
  /\ ~Alive(l)
  /\ adapter' = [adapter EXCEPT ![l] = "load"]
  /\ chosen' = [chosen EXCEPT ![l] = Unselected]
  /\ UNCHANGED <<file, temp, http, tcp>>

AdapterInit ==
  /\ file = NONE
  /\ temp = [l \in Launches |-> "none"]
  /\ adapter = [l \in Launches |-> "off"]
  /\ chosen = [l \in Launches |-> Unselected]
  /\ http = NONE
  /\ tcp = NONE

SignInStep(l) ==
  \/ LoadNothing(l)
  \/ LoadSession(l)
  \/ LoadUnreadable(l)
  \/ Attempt(l)
  \/ SignInFails(l)
  \/ Credentials(l)
  \/ FirstSignInFails(l)
  \/ SignedIn(l)
  \/ SelectCamera(l)
  \/ NoCamera(l)

SaveStep(l) ==
  \/ SaveStarts(l)
  \/ SaveFlushed(l)
  \/ SaveReplaces(l)
  \/ SaveFailsSoftly(l)
  \/ SaveFails(l)

ServeStep(l) ==
  \/ BindHttp(l)
  \/ BindTcp(l)
  \/ PortTaken(l)
  \/ AdapterStops(l)

AdapterStep(l) == SignInStep(l) \/ SaveStep(l) \/ ServeStep(l)
=============================================================================
