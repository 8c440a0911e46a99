----------------------------- MODULE IndexClient -----------------------------
(***************************************************************************)
(* How StorageCoordinator (storage.py) comes by its Weaviate client.       *)
(* put, sync and search first call initialize_weaviate, which under an     *)
(* asyncio lock lets a thread run WeaviateIndex._initialize_sync if the    *)
(* mode is "uninitialized" or "unavailable"; delete uses whatever client   *)
(* is there.  The thread's steps are separate actions, since the event     *)
(* loop reads self.client and self.mode between them.                      *)
(***************************************************************************)
CONSTANTS
  Requests,   \* concurrent put, sync and search requests
  Configured  \* the values of CYBERFORGE_WEAVIATE_MODE to consider; "off" makes no client

ASSUME IndexClientAssumption == Configured \subseteq {"auto", "remote", "embedded"}

VARIABLES
  requested, \* SETTINGS.weaviate_mode
  health,   \* of each server: "down", "degraded" (connects, fails the gates), "healthy"
  mode,     \* WeaviateIndex.mode
  client,   \* WeaviateIndex.client: the server it talks to, or "none"
  gated,    \* history: the client has passed the readiness gates
  raised,   \* history: closing a client has raised an exception
  at        \* what each request is doing; all but the first three hold the lock

clientVars == <<requested, health, mode, client, gated, raised, at>>

Servers == {"remote", "embedded"}
Holding == {"tryRemote", "tryEmbedded", "gateRemote", "gateEmbedded"}

ClientTypeOK ==
  /\ requested \in Configured /\ raised \in BOOLEAN
  /\ health \in [Servers -> {"down", "degraded", "healthy"}]
  /\ mode \in Servers \cup {"uninitialized", "unavailable"}
  /\ client \in Servers \cup {"none"}
  /\ gated \in BOOLEAN
  /\ at \in [Requests -> {"idle", "waiting", "ready"} \cup Holding]

ClientInit ==
  /\ requested \in Configured /\ raised = FALSE
  /\ health \in [Servers -> {"down", "degraded", "healthy"}]
  /\ mode = "uninitialized" /\ client = "none" /\ gated = FALSE
  /\ at = [q \in Requests |-> "idle"]

Free == \A q \in Requests : at[q] \notin Holding
Goto(q, step) == at' = [at EXCEPT ![q] = step]

\* Mutant: the client of a server that failed the gates is kept.
KeepClient == UNCHANGED <<client, gated>>

\* _close_sync: the client is gone, also if closing it raises.
Close == client' = "none" /\ gated' = FALSE

-----------------------------------------------------------------------------
Arrive(q) ==
  /\ at[q] = "idle"
  /\ Goto(q, "waiting")
  /\ UNCHANGED <<requested, health, mode, client, gated, raised>>

\* Mutant: a server that was unavailable is not tried again.
NeverTried == mode = "uninitialized"

MayTry == mode \in {"uninitialized", "unavailable"}

\* initialize_weaviate: another request has settled the matter.
AlreadyInitialized(q) ==
  /\ at[q] = "waiting" /\ Free /\ ~MayTry
  /\ Goto(q, "ready")
  /\ UNCHANGED <<requested, health, mode, client, gated, raised>>

BeginInitialize(q) ==
  /\ at[q] = "waiting" /\ Free /\ MayTry
  /\ Goto(q, IF requested = "embedded" THEN "tryEmbedded" ELSE "tryRemote")
  /\ UNCHANGED <<requested, health, mode, client, gated, raised>>

\* The server is given up: the next one in "auto" mode, an exception if it was
\* the one asked for, and "unavailable" if all have been tried.
GiveUp(q, server) ==
  IF requested = server THEN Goto(q, "ready") /\ UNCHANGED mode
  ELSE IF server = "remote" THEN Goto(q, "tryEmbedded") /\ UNCHANGED mode
  ELSE Goto(q, "ready") /\ mode' = "unavailable"

\* _connect_remote, _connect_embedded: the mode is set once the client exists.
Connect(q, server, try, gate) ==
  /\ at[q] = try
  /\ IF health[server] = "down"
       THEN GiveUp(q, server) /\ UNCHANGED <<client, gated>>
       ELSE /\ client' = server /\ mode' = server
            /\ Goto(q, gate) /\ UNCHANGED gated
  /\ UNCHANGED <<requested, health, raised>>

\* _validate_ready: liveness, schema and the CRUD sentinel.
Validate(q, server, gate) ==
  /\ at[q] = gate
  /\ IF health[server] = "healthy"
       THEN gated' = TRUE /\ Goto(q, "ready") /\ UNCHANGED <<mode, client>>
       ELSE \* _close_sync comes before the raise or the next attempt
            Close /\ GiveUp(q, server)
  /\ UNCHANGED <<requested, health, raised>>

\* Closing the client of a server that failed the gates raises, out of
\* initialize_weaviate, before the server is given up.
CloseRaises(q, server, gate) ==
  /\ at[q] = gate /\ health[server] # "healthy"
  /\ Close /\ raised' = TRUE
  /\ Goto(q, "ready")
  /\ UNCHANGED <<requested, health, mode>>

\* The request uses the client it finds, or does without.
Finish(q) ==
  /\ at[q] = "ready"
  /\ Goto(q, "idle")
  /\ UNCHANGED <<requested, health, mode, client, gated, raised>>

\* A server's condition changes.
Change(server) ==
  /\ \E h \in {"down", "degraded", "healthy"} : health' = [health EXCEPT ![server] = h]
  /\ UNCHANGED <<requested, mode, client, gated, raised, at>>

Serve(q) ==
  \/ AlreadyInitialized(q) \/ BeginInitialize(q) \/ Finish(q)
  \/ Connect(q, "remote", "tryRemote", "gateRemote")
  \/ Connect(q, "embedded", "tryEmbedded", "gateEmbedded")
  \/ Validate(q, "remote", "gateRemote")
  \/ Validate(q, "embedded", "gateEmbedded")
  \/ CloseRaises(q, "remote", "gateRemote")
  \/ CloseRaises(q, "embedded", "gateEmbedded")

ClientNext ==
  \/ \E q \in Requests : Arrive(q) \/ Serve(q)
  \/ \E server \in Servers : Change(server)

ClientSpec == ClientInit /\ [][ClientNext]_clientVars

\* Requests keep coming and the event loop and the pool serve them in turn.
ClientFairSpec ==
  /\ ClientSpec
  /\ \A q \in Requests : WF_clientVars(Arrive(q)) /\ SF_clientVars(Serve(q))

-----------------------------------------------------------------------------
\* Outside an initialization, the client there is has passed all three gates and
\* the mode names the server it talks to: a failed attempt leaves no client.
ClientReady ==
  Free /\ client # "none" => gated /\ mode = client

\* The servers that the configuration allows.
Wanted == IF requested = "auto" THEN Servers ELSE {requested}

\* An allowed server stays healthy from some time on.
Available == \E server \in Servers : <>[](server \in Wanted /\ health[server] = "healthy")

\* mode names a server that failed the gates: nobody begins an initialization again.
Abandoned == client = "none" /\ mode \in Servers

\* Once a server stays healthy there is a client in the end.  Only two things make
\* the sidecar do without one for good: the gates failed once for the server that the
\* configuration names, or closing the client of a server that failed them raised.
EventuallyConnected ==
  Available =>
    \/ <>[](client # "none")
    \/ <>[](Abandoned /\ (requested # "auto" \/ raised))
=============================================================================
