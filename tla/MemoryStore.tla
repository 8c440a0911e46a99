----------------------------- MODULE MemoryStore -----------------------------
(***************************************************************************)
(* The encrypted memory of sidecar/cyberforge_sidecar/storage.py: records  *)
(* in SQLite, the authority; a redacted projection of each in Weaviate;    *)
(* and sync_queue, the table that remembers which projections are due.     *)
(* StorageCoordinator serves each request as a coroutine that awaits one   *)
(* thread call after another, so the calls of concurrent requests          *)
(* interleave.  A call is one action: a SQLite transaction, or one         *)
(* request to Weaviate.                                                    *)
(*                                                                         *)
(* The contents of a record are the clock reading of the put that stored   *)
(* it, which stands for its digest; 0 stands for no active record, and for *)
(* no projection.  queued_at is a clock reading too.                       *)
(***************************************************************************)
EXTENDS Naturals, FiniteSets

CONSTANTS
  Records,   \* record ids
  Clients,   \* concurrent requests
  Poison,    \* records whose row fails authentication when it is read
  Limit,     \* how many queue entries one sync request takes
  MaxClock   \* bound: puts, deletes and rebuilds in a behaviour

ASSUME MemoryStoreAssumption ==
  /\ Records # {}
  /\ Poison \subseteq Records
  /\ Limit \in Nat \ {0}
  /\ MaxClock \in Nat

VARIABLES
  active,    \* table records: contents of the active rows
  queue,     \* table sync_queue: the operation due for each record, or "none"
  stamp,     \* sync_queue.queued_at
  index,     \* Weaviate: the contents each projection shows
  clock,
  connected, \* self.weaviate.client is not None
  up,        \* Weaviate answers
  session,   \* the caller's vault session is live
  req,       \* the request each client has in flight
  crossed,   \* history: the records that two requests have worked on at a time
  overtaken, \* history: the records deleted between a rebuild's SELECT and its INSERTs
  wiped      \* history: the collection has been deleted

tables == <<active, queue, stamp, clock>>
service == <<connected, up, session>>
vars == <<tables, index, service, req, crossed, overtaken, wiped>>

-----------------------------------------------------------------------------
Operations == {"upsert", "delete"}

Entry == [rec : Records, op : Operations, stamp : 0..MaxClock]

\* Between two calls a request is about to ...
Steps == {"idle",
          "index",    \* ... delete the old projection (weaviate.upsert)
          "insert",   \* ... insert the new one (weaviate.upsert)
          "removed",  \* ... see whether there is a client to delete it from
          "unindex",  \* ... delete the projection (weaviate.delete)
          "synced",   \* ... mark_synced
          "next",     \* ... take up the next entry of a sync
          "fetch",    \* ... read the record of that entry
          "enqueue",  \* ... queue the rows a rebuild has selected
          "start"}    \* ... sync after a rebuild

Request == [at : Steps, rec : Records, version : 0..MaxClock, todo : SUBSET Entry]

Idle == [at |-> "idle", rec |-> CHOOSE r \in Records : TRUE, version |-> 0, todo |-> {}]

TypeOK ==
  /\ active \in [Records -> 0..MaxClock]
  /\ queue \in [Records -> Operations \cup {"none"}]
  /\ stamp \in [Records -> 0..MaxClock]
  /\ index \in [Records -> 0..MaxClock]
  /\ clock \in 0..MaxClock
  /\ connected \in BOOLEAN /\ up \in BOOLEAN /\ session \in BOOLEAN
  /\ req \in [Clients -> Request]
  /\ crossed \subseteq Records /\ overtaken \subseteq Records /\ wiped \in BOOLEAN

Init ==
  /\ active = [r \in Records |-> 0]
  /\ queue = [r \in Records |-> "none"]
  /\ stamp = [r \in Records |-> 0]
  /\ index = [r \in Records |-> 0]
  /\ clock = 0
  /\ connected = FALSE /\ up = TRUE /\ session = TRUE
  /\ req = [c \in Clients |-> Idle]
  /\ crossed = {} /\ overtaken = {} /\ wiped = FALSE

-----------------------------------------------------------------------------
At(c, step) == req[c].at = step

\* The records the request of c is working on.
Touched(c) ==
  IF req[c].at \in {"idle", "start"} THEN {}
  ELSE {e.rec : e \in req[c].todo}
         \cup (IF req[c].at \in {"next", "enqueue"} THEN {} ELSE {req[c].rec})

Become(c, step, r, v) ==
  req' = [req EXCEPT ![c] = [@ EXCEPT !.at = step, !.rec = r, !.version = v]]

\* Mutant: a sync ends with its first entry.
StopAfterEntry(c) == req' = [req EXCEPT ![c] = Idle]

\* An entry is dealt with: the next one of the sync, or the end of the request.
EntryDone(c) ==
  req' = [req EXCEPT ![c] = IF @.todo = {} THEN Idle
                            ELSE [Idle EXCEPT !.at = "next", !.todo = req[c].todo]]

Tick == clock < MaxClock /\ clock' = clock + 1

\* Mutant: INSERT OR IGNORE.
EnqueueOrIgnore(S, op, time) ==
  /\ queue' = [r \in Records |-> IF r \in S /\ queue[r] = "none" THEN op ELSE queue[r]]
  /\ stamp' = [r \in Records |-> IF r \in S THEN time ELSE stamp[r]]

\* INSERT INTO sync_queue ... ON CONFLICT DO UPDATE, for the records of S.
Enqueue(S, op, time) ==
  /\ queue' = [r \in Records |-> IF r \in S THEN op ELSE queue[r]]
  /\ stamp' = [r \in Records |-> IF r \in S THEN time ELSE stamp[r]]

\* EncryptedSQLiteStore.put: one transaction.
Put(c, r) ==
  /\ At(c, "idle") /\ session
  /\ Tick /\ Enqueue({r}, "upsert", clock + 1)
  /\ active' = [active EXCEPT ![r] = clock + 1]
  /\ Become(c, "index", r, clock + 1)
  /\ UNCHANGED <<index, service>>

\* Mutant: the row is deleted and no removal is queued.
MarkDeletedOnly(r) ==
  /\ session /\ active[r] # 0
  /\ active' = [active EXCEPT ![r] = 0]
  /\ UNCHANGED <<queue, stamp, clock>>

\* EncryptedSQLiteStore.delete: one transaction; False if there is no such row.
MarkDeleted(r) ==
  /\ session /\ active[r] # 0
  /\ Tick /\ Enqueue({r}, "delete", clock + 1)
  /\ active' = [active EXCEPT ![r] = 0]

\* StorageCoordinator.delete: first the row ...
Delete(c, r) ==
  /\ At(c, "idle")
  /\ MarkDeleted(r)
  /\ Become(c, "removed", r, 0)
  /\ UNCHANGED <<index, service>>

\* ... and then Weaviate, only if there is a client by now.
Removed(c) ==
  /\ At(c, "removed")
  /\ IF connected THEN Become(c, "unindex", req[c].rec, 0) ELSE EntryDone(c)
  /\ UNCHANGED <<tables, index, service>>

\* apply_retention deletes in SQLite and leaves the rest to a later sync.
RetentionDelete(r) ==
  /\ MarkDeleted(r)
  /\ UNCHANGED <<index, service, req>>

-----------------------------------------------------------------------------
\* initialize_weaviate() has connected by now, or Weaviate answers.
CanConnect == connected \/ up

\* put: Weaviate is not to be had, the queue keeps the entry.
NoIndex(c) ==
  /\ At(c, "index") /\ ~CanConnect
  /\ EntryDone(c)
  /\ UNCHANGED <<tables, index, service>>

\* weaviate.upsert, first call: delete_by_id, whose errors are ignored.
ClearIndex(c) ==
  /\ At(c, "index") /\ CanConnect
  /\ connected' = TRUE
  /\ index' = IF up THEN [index EXCEPT ![req[c].rec] = 0] ELSE index
  /\ Become(c, "insert", req[c].rec, req[c].version)
  /\ UNCHANGED <<tables, up, session>>

\* weaviate.upsert, second call: insert, refused if the object exists.
Insert(c) ==
  /\ At(c, "insert") /\ up /\ index[req[c].rec] = 0
  /\ index' = [index EXCEPT ![req[c].rec] = req[c].version]
  /\ Become(c, "synced", req[c].rec, 0)
  /\ UNCHANGED <<tables, service>>

InsertFails(c) ==
  /\ At(c, "insert") /\ ~(up /\ index[req[c].rec] = 0)
  /\ EntryDone(c)
  /\ UNCHANGED <<tables, index, service>>

Unindex(c) ==
  /\ At(c, "unindex") /\ up
  /\ index' = [index EXCEPT ![req[c].rec] = 0]
  /\ Become(c, "synced", req[c].rec, 0)
  /\ UNCHANGED <<tables, service>>

UnindexFails(c) ==
  /\ At(c, "unindex") /\ ~up
  /\ EntryDone(c)
  /\ UNCHANGED <<tables, index, service>>

\* DELETE FROM sync_queue WHERE record_id = ?, whatever the entry now says.
Dequeue(r) ==
  /\ queue' = [queue EXCEPT ![r] = "none"]
  /\ stamp' = [stamp EXCEPT ![r] = 0]

MarkSynced(c) ==
  /\ At(c, "synced")
  /\ Dequeue(req[c].rec)
  /\ EntryDone(c)
  /\ UNCHANGED <<active, clock, index, service>>

-----------------------------------------------------------------------------
Queued == {[rec |-> r, op |-> queue[r], stamp |-> stamp[r]] :
             r \in {s \in Records : queue[s] # "none"}}

\* pending_sync: the Limit entries queued first.
Batches ==
  {B \in SUBSET Queued :
     /\ \A e \in B, f \in Queued \ B : e.stamp <= f.stamp
     /\ \/ Cardinality(B) = Limit
        \/ B = Queued /\ Cardinality(B) < Limit}

\* StorageCoordinator.sync, up to its snapshot of the queue.
BeginSync(c) ==
  /\ At(c, "start") \/ (At(c, "idle") /\ session)
  /\ CanConnect /\ connected' = TRUE
  /\ \E B \in Batches :
       req' = [req EXCEPT ![c] = IF B = {} THEN Idle
                                           ELSE [Idle EXCEPT !.at = "next", !.todo = B]]
  /\ UNCHANGED <<tables, index, up, session>>

NextEntry(c) ==
  /\ At(c, "next")
  /\ \E e \in req[c].todo :
       /\ \A f \in req[c].todo : e.stamp <= f.stamp
       /\ req' = [req EXCEPT
                    ![c] = [at |-> IF e.op = "delete" THEN "unindex" ELSE "fetch",
                            rec |-> e.rec, version |-> 0, todo |-> @.todo \ {e}]]
  /\ UNCHANGED <<tables, index, service>>

\* sqlite.get: a record that is gone needs no upsert, and counts as synced.
Fetch(c) ==
  /\ At(c, "fetch") /\ session /\ req[c].rec \notin Poison
  /\ IF active[req[c].rec] = 0 THEN Become(c, "synced", req[c].rec, 0)
                               ELSE Become(c, "index", req[c].rec, active[req[c].rec])
  /\ UNCHANGED <<tables, index, service>>

FetchFails(c) ==
  /\ At(c, "fetch") /\ (~session \/ req[c].rec \in Poison)
  /\ EntryDone(c)
  /\ UNCHANGED <<tables, index, service>>

\* queue_full_weaviate_rebuild: a SELECT, then the transaction that queues.
RebuildSelect(c) ==
  /\ At(c, "idle") /\ session
  /\ Tick
  /\ req' = [req EXCEPT ![c] =
               [Idle EXCEPT !.at = "enqueue",
                            !.version = clock + 1,
                            !.todo = {[rec |-> r, op |-> "upsert", stamp |-> clock + 1] :
                                        r \in {s \in Records : active[s] # 0}}]]
  /\ UNCHANGED <<active, queue, stamp, index, service>>

RebuildEnqueue(c) ==
  /\ At(c, "enqueue")
  /\ Enqueue({e.rec : e \in req[c].todo}, "upsert", req[c].version)
  /\ req' = [req EXCEPT ![c] = [Idle EXCEPT !.at = "start"]]
  /\ UNCHANGED <<active, clock, index, service>>

\* The sync of a rebuild returns at once when Weaviate is not to be had.
NoSync(c) ==
  /\ At(c, "start") /\ ~CanConnect
  /\ req' = [req EXCEPT ![c] = Idle]
  /\ UNCHANGED <<tables, index, service>>

-----------------------------------------------------------------------------
Outage == up' = ~up /\ UNCHANGED <<tables, index, connected, session, req>>

LockOrUnlock == session' = ~session /\ UNCHANGED <<tables, index, connected, up, req>>

\* The sidecar dies and is started again: only SQLite and Weaviate remain.
Restart ==
  /\ connected' = FALSE /\ session' = FALSE
  /\ req' = [c \in Clients |-> Idle]
  /\ UNCHANGED <<tables, index, up>>

\* The collection is deleted while the sidecar is not running.
Wipe ==
  /\ index' = [r \in Records |-> 0]
  /\ connected' = FALSE /\ session' = FALSE
  /\ req' = [c \in Clients |-> Idle]
  /\ UNCHANGED <<tables, up>>

\* Two requests are at work on a record, or one writes it while another is.
Crossing ==
  {r \in Records :
     \/ \E c, d \in Clients : c # d /\ r \in Touched(c)' /\ r \in Touched(d)'
     \/ active'[r] # active[r] /\ \E c \in Clients : r \in Touched(c)}

\* A record is deleted between the SELECT and the INSERTs of a rebuild.
Overtaking ==
  {r \in Records : /\ active[r] # 0 /\ active'[r] = 0
                   /\ \E c \in Clients : At(c, "enqueue") /\ r \in Touched(c)}

Advance(c) ==
  \/ NoIndex(c) \/ ClearIndex(c) \/ Insert(c) \/ InsertFails(c)
  \/ Removed(c) \/ Unindex(c) \/ UnindexFails(c) \/ MarkSynced(c)
  \/ NextEntry(c) \/ Fetch(c) \/ FetchFails(c)
  \/ RebuildEnqueue(c) \/ NoSync(c)

Step ==
  \/ \E c \in Clients :
       \/ Advance(c) \/ BeginSync(c) \/ RebuildSelect(c)
       \/ \E r \in Records : Put(c, r) \/ Delete(c, r)
  \/ \E r \in Records : RetentionDelete(r)
  \/ Outage \/ LockOrUnlock \/ Restart

\* The history variables follow every step.
Noting(wipe) ==
  /\ crossed' = crossed \cup Crossing
  /\ overtaken' = overtaken \cup Overtaking
  /\ wiped' = (wiped \/ wipe)

Next == (Step /\ Noting(FALSE)) \/ (Wipe /\ Noting(TRUE))

Spec == Init /\ [][Next]_vars

\* Requests in flight go on, and somebody keeps asking for a sync.
Fairness ==
  /\ \A c \in Clients :
       WF_vars((Advance(c) \/ (At(c, "start") /\ BeginSync(c))) /\ Noting(FALSE))
  /\ WF_vars(\E c \in Clients : BeginSync(c) /\ Noting(FALSE))

FairSpec == Spec /\ Fairness

-----------------------------------------------------------------------------
Quiet(r) == \A c \in Clients : r \notin Touched(c)

\* A record that is neither queued nor being worked on has in Weaviate the
\* projection of what SQLite holds, or none if SQLite holds none: whatever
\* crashes, outages and failed calls fall between the steps of put, delete, sync,
\* retention and rebuild, and however other records are written meanwhile, for
\* every record that no two requests have ever worked on at a time.
IndexFollows ==
  ~wiped =>
    \A r \in Records \ crossed : queue[r] = "none" /\ Quiet(r) => index[r] = active[r]

\* A queue entry asks for what SQLite holds, of every record, however requests overlap:
\* no delete is queued for an active record, and no upsert for a deleted one, unless it
\* was deleted between the SELECT of a rebuild and its INSERTs.
QueueMatchesRecords ==
  \A r \in Records :
    /\ queue[r] = "delete" => active[r] = 0
    /\ queue[r] = "upsert" => active[r] # 0 \/ r \in overtaken

\* Weaviate answers, a session is live, and syncs are requested from some time on.
Served == <>[](up /\ session)

\* Once served, every entry that can be read leaves the queue, as long as fewer rows
\* than a sync takes cannot be read: entries queued behind unreadable ones get their turn.
SyncDrains ==
  Cardinality(Poison) < Limit /\ Served =>
    \A r \in Records \ Poison : []<>(queue[r] = "none")

\* What the documentation says of deletion (docs/MEMORY_GOVERNANCE_AND_COUNCIL_V2.md):
\* deleted records "are queued for removal from Weaviate".  At rest, a projection
\* of a deleted record is queued for removal.
DeletedQueuedForRemoval ==
  \A r \in Records :
    active[r] = 0 /\ index[r] # 0 /\ Quiet(r) => queue[r] = "delete"
=============================================================================
