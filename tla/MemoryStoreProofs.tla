--------------------------- MODULE MemoryStoreProofs ---------------------------
(***************************************************************************)
(* Proofs about MemoryStore, for any records, requests and clock, and about *)
(* IndexClient, the initialization of its Weaviate client.                 *)
(***************************************************************************)
EXTENDS MemoryStore, IndexClient, TLAPS

\* The steps at which a request has a record in hand.
Working == {"index", "insert", "removed", "unindex", "synced", "fetch"}

\* No two requests are at work on a record that has not been crossed.
Exclusive ==
  \A r \in Records \ crossed : \A c, d \in Clients :
    r \in Touched(c) /\ r \in Touched(d) => c = d

\* Every put has been stamped.
Stamped == \A r \in Records : active[r] <= clock

\* What the request of c has in hand, as long as nobody crosses it: the entry of its
\* record is in the queue, and what it will do next fits what SQLite holds.
RecordInHand(c) ==
  LET q == req[c] IN
  q.at \in Working /\ q.rec \notin crossed =>
    /\ queue[q.rec] # "none"
    /\ q.at \in {"index", "insert"} => q.version = active[q.rec] /\ active[q.rec] # 0
    /\ q.at \in {"removed", "unindex"} => active[q.rec] = 0
    /\ q.at = "synced" => index[q.rec] = active[q.rec]
    /\ q.at = "fetch" => queue[q.rec] = "upsert"

\* What is still to do: one entry for each of other records, as the queue has it; a
\* rebuild has selected records that are active, unless they have been deleted since.
TodoInHand(c) ==
  LET q == req[c] IN
  /\ q.at \in {"idle", "start"} => q.todo = {}
  /\ \A e, f \in q.todo : e.rec = f.rec => e = f
  /\ q.at \in Working => \A e \in q.todo : e.rec # q.rec
  /\ q.at \in Working \cup {"next"} =>
       \A e \in q.todo : e.rec \notin crossed => queue[e.rec] = e.op
  /\ q.at = "enqueue" => \A e \in q.todo : active[e.rec] # 0 \/ e.rec \in overtaken

InHand == \A c \in Clients : RecordInHand(c) /\ TodoInHand(c)

\* IndexFollows for records that are being worked on too: what is about to be changed
\* in Weaviate is queued, and a record that a rebuild has selected is as it was.
UnqueuedFollows ==
  ~wiped => \A r \in Records \ crossed : queue[r] = "none" => index[r] = active[r]

IInv ==
  /\ TypeOK
  /\ overtaken \subseteq crossed
  /\ Exclusive
  /\ Stamped
  /\ InHand
  /\ UnqueuedFollows
  /\ QueueMatchesRecords

USE MemoryStoreAssumption

-----------------------------------------------------------------------------
(* Lemmas about requests. *)

\* What a request is at work on.
LEMMA TouchedBy ==
  ASSUME TypeOK, NEW c \in Clients
  PROVE  /\ req[c].at \in Working => Touched(c) = {e.rec : e \in req[c].todo} \cup {req[c].rec}
         /\ req[c].at \in {"next", "enqueue"} => Touched(c) = {e.rec : e \in req[c].todo}
         /\ req[c].at \in {"idle", "start"} => Touched(c) = {}
         /\ req[c].at \in Working \cup {"next", "enqueue", "idle", "start"}
         /\ Touched(c) \subseteq Records
<1>1. req[c] \in Request
  BY DEF TypeOK
<1>2. /\ req[c].at \in Steps /\ req[c].rec \in Records
      /\ \A e \in req[c].todo : e.rec \in Records
  BY <1>1 DEF Request, Entry
<1> QED BY <1>2 DEF Touched, Working, Steps

\* A request that does nothing.
LEMMA IdleType == Idle \in Request /\ Idle.at = "idle" /\ Idle.todo = {}
<1>1. (CHOOSE r \in Records : TRUE) \in Records
  BY DEF MemoryStoreAssumption
<1>2. 0 \in 0..MaxClock
  BY DEF MemoryStoreAssumption
<1> QED BY <1>1, <1>2 DEF Idle, Request, Steps

\* The request of c goes on to another step.
LEMMA BecomeType ==
  ASSUME TypeOK, NEW c \in Clients, NEW p \in Steps, NEW r \in Records, NEW v \in 0..MaxClock,
         Become(c, p, r, v)
  PROVE  \E q \in Request :
           /\ req' = [req EXCEPT ![c] = q]
           /\ q.at = p /\ q.rec = r /\ q.version = v /\ q.todo = req[c].todo
<1>1. req[c] \in Request
  BY DEF TypeOK
<1>2. PICK q : q = [req[c] EXCEPT !.at = p, !.rec = r, !.version = v]
  OBVIOUS
<1>3. q \in Request /\ q.at = p /\ q.rec = r /\ q.version = v /\ q.todo = req[c].todo
  BY <1>1, <1>2 DEF Request
<1>4. req' = [req EXCEPT ![c] = q]
  BY <1>2 DEF Become
<1> QED BY <1>3, <1>4

\* The request of c goes on to its next entry, or ends.
LEMMA EntryDoneType ==
  ASSUME TypeOK, NEW c \in Clients, EntryDone(c)
  PROVE  \E q \in Request :
           /\ req' = [req EXCEPT ![c] = q]
           /\ q.todo = req[c].todo
           /\ q.at = "next" \/ (q.at = "idle" /\ q.todo = {})
<1>1. req[c] \in Request
  BY DEF TypeOK
<1>2. req[c].todo \in SUBSET Entry
  BY <1>1 DEF Request
<1>3. CASE req[c].todo = {}
  <2>1. req' = [req EXCEPT ![c] = Idle]
    BY <1>3 DEF EntryDone
  <2> QED BY <1>3, <2>1, IdleType
<1>4. CASE req[c].todo # {}
  <2>1. PICK S \in SUBSET Entry : S = req[c].todo
    BY <1>2
  <2>2. req' = [req EXCEPT ![c] = [Idle EXCEPT !.at = "next", !.todo = S]]
    BY <1>4, <2>1 DEF EntryDone
  <2>3. Idle \in Request
    BY IdleType
  <2>4. /\ [Idle EXCEPT !.at = "next", !.todo = S] \in Request
        /\ [Idle EXCEPT !.at = "next", !.todo = S].at = "next"
        /\ [Idle EXCEPT !.at = "next", !.todo = S].todo = S
    BY <2>3 DEF Request, Steps
  <2> QED BY <2>1, <2>2, <2>4
<1> QED BY <1>3, <1>4

\* The history variables keep their types, and only grow.
LEMMA NotedCrossed ==
  ASSUME TypeOK, NEW w \in BOOLEAN, Noting(w)
  PROVE  /\ crossed \subseteq crossed' /\ crossed' \subseteq Records
         /\ overtaken \subseteq overtaken' /\ overtaken' \subseteq Records
         /\ overtaken' \subseteq overtaken \cup crossed'
         /\ wiped' \in BOOLEAN /\ (wiped => wiped') /\ (w => wiped')
         /\ (~w => wiped' = wiped)
         /\ \A r \in Records, c, d \in Clients :
              c # d /\ r \in Touched(c)' /\ r \in Touched(d)' => r \in crossed'
         /\ \A r \in Records, c \in Clients :
              active'[r] # active[r] /\ r \in Touched(c) => r \in crossed'
         /\ \A r \in Records, c \in Clients :
              active[r] # 0 /\ active'[r] = 0 /\ req[c].at = "enqueue" /\ r \in Touched(c)
                => r \in overtaken'
BY DEF Noting, Crossing, Overtaking, At, TypeOK

\* Steps that note what is crossed leave no two requests on a record that is not.
LEMMA NotedExclusive ==
  ASSUME TypeOK, NEW w \in BOOLEAN, Noting(w)
  PROVE  Exclusive'
BY NotedCrossed DEF Exclusive

\* A request that waits keeps in hand what it has if its records are left alone.
LEMMA OthersInHand ==
  ASSUME IInv, NEW d \in Clients, req'[d] = req[d], crossed \subseteq crossed',
         overtaken \subseteq overtaken',
         \A r \in Touched(d) :
           req[d].at = "enqueue" /\ active[r] # 0 /\ active'[r] = 0 => r \in overtaken',
         \A r \in Touched(d) \ crossed' :
           queue'[r] = queue[r] /\ active'[r] = active[r] /\ index'[r] = index[r]
  PROVE  RecordInHand(d)' /\ TodoInHand(d)'
<1>1. RecordInHand(d) /\ TodoInHand(d)
  BY DEF IInv, InHand
<1>2. /\ req[d].at \in Working => req[d].rec \in Touched(d)
      /\ req[d].at \in Working \cup {"next", "enqueue"} =>
           \A e \in req[d].todo : e.rec \in Touched(d)
  BY TouchedBy DEF IInv
<1>3. RecordInHand(d)'
  BY <1>1, <1>2 DEF RecordInHand
<1>4. TodoInHand(d)'
  BY <1>1, <1>2 DEF TodoInHand
<1> QED BY <1>3, <1>4

\* A request that goes on by itself keeps the invariant if it touches only its own
\* records, leaves SQLite's rows alone, and leaves no stale projection unqueued.
LEMMA AdvanceKeeps ==
  ASSUME IInv, NEW c \in Clients, NEW q, req' = [req EXCEPT ![c] = q],
         Noting(FALSE), TypeOK', active' = active,
         clock' \in {clock, clock + 1},
         \A r \in Records \ Touched(c) : queue'[r] = queue[r] /\ index'[r] = index[r],
         \A r \in Touched(c) \ crossed :
           queue'[r] = "none" => \/ queue[r] = "none" /\ index'[r] = index[r]
                                 \/ index'[r] = active[r],
         \A r \in Touched(c) :
           queue'[r] \in {"none", queue[r]}
             \/ (queue'[r] = "upsert" /\ (active[r] # 0 \/ r \in overtaken)),
         RecordInHand(c)', TodoInHand(c)'
  PROVE  IInv'
<1>1. /\ crossed \subseteq crossed' /\ wiped' = wiped
      /\ overtaken \subseteq overtaken' /\ overtaken' \subseteq crossed'
  BY NotedCrossed DEF IInv
<1>2. Exclusive'
  BY NotedExclusive DEF IInv
<1>3. Stamped'
  BY DEF IInv, Stamped, TypeOK
<1>4. InHand'
  <2> SUFFICES ASSUME NEW d \in Clients, d # c
               PROVE  RecordInHand(d)' /\ TodoInHand(d)'
    BY DEF InHand
  <2>1. req'[d] = req[d]
    BY DEF IInv, TypeOK
  <2>2. ASSUME NEW r \in Touched(d) \ crossed'
        PROVE  queue'[r] = queue[r] /\ active'[r] = active[r] /\ index'[r] = index[r]
    <3>1. r \in Records \ crossed
      BY <1>1, TouchedBy DEF IInv
    <3>2. r \notin Touched(c)
      BY <3>1 DEF IInv, Exclusive
    <3> QED BY <3>1, <3>2
  <2> QED BY <1>1, <2>1, <2>2, OthersInHand
<1>5. UnqueuedFollows'
  <2> SUFFICES ASSUME ~wiped, NEW r \in Records \ crossed, queue'[r] = "none"
               PROVE  index'[r] = active[r]
    BY <1>1 DEF UnqueuedFollows
  <2>1. queue[r] = "none" => index[r] = active[r]
    BY DEF IInv, UnqueuedFollows
  <2> QED BY <2>1
<1>6. QueueMatchesRecords'
  <2> SUFFICES ASSUME NEW r \in Records
               PROVE  /\ queue'[r] = "delete" => active[r] = 0
                      /\ queue'[r] = "upsert" => active[r] # 0 \/ r \in overtaken
    BY <1>1 DEF QueueMatchesRecords
  <2>1. /\ queue[r] = "delete" => active[r] = 0
        /\ queue[r] = "upsert" => active[r] # 0 \/ r \in overtaken
    BY DEF IInv, QueueMatchesRecords
  <2> QED BY <2>1
<1> QED BY <1>1, <1>2, <1>3, <1>4, <1>5, <1>6 DEF IInv

\* An entry that is dealt with leaves in hand what was still to do.
LEMMA EntryDoneInHand ==
  ASSUME IInv, NEW c \in Clients, req[c].at \in Working, EntryDone(c), crossed \subseteq crossed',
         \A e \in req[c].todo : queue'[e.rec] = queue[e.rec]
  PROVE  \E q \in Request : /\ req' = [req EXCEPT ![c] = q]
                            /\ RecordInHand(c)' /\ TodoInHand(c)'
<1>1. PICK q \in Request : /\ req' = [req EXCEPT ![c] = q]
                           /\ q.todo = req[c].todo
                           /\ q.at = "next" \/ (q.at = "idle" /\ q.todo = {})
  BY EntryDoneType DEF IInv
<1>2. req'[c] = q
  BY <1>1 DEF IInv, TypeOK
<1>3. TodoInHand(c)
  BY DEF IInv, InHand
<1>4. RecordInHand(c)'
  BY <1>1, <1>2 DEF RecordInHand, Working
<1>5. TodoInHand(c)'
  BY <1>1, <1>2, <1>3 DEF TodoInHand, Working
<1> QED BY <1>1, <1>4, <1>5

\* A request that goes on with the record it has in hand.
LEMMA BecomeInHand ==
  ASSUME IInv, NEW c \in Clients, req[c].at \in Working,
         NEW p \in {"index", "insert", "synced", "unindex"}, NEW v \in 0..MaxClock,
         Become(c, p, req[c].rec, v), crossed \subseteq crossed',
         \A e \in req[c].todo : queue'[e.rec] = queue[e.rec],
         req[c].rec \notin crossed =>
           /\ queue'[req[c].rec] # "none"
           /\ p \in {"index", "insert"} => v = active'[req[c].rec] /\ active'[req[c].rec] # 0
           /\ p = "synced" => index'[req[c].rec] = active'[req[c].rec]
           /\ p = "unindex" => active'[req[c].rec] = 0
  PROVE  \E q \in Request : /\ req' = [req EXCEPT ![c] = q]
                            /\ RecordInHand(c)' /\ TodoInHand(c)'
<1>0. p \in Steps /\ req[c].rec \in Records
  BY DEF Steps, IInv, TypeOK, Request
<1>1. PICK q \in Request : /\ req' = [req EXCEPT ![c] = q]
                           /\ q.at = p /\ q.rec = req[c].rec /\ q.version = v
                           /\ q.todo = req[c].todo
  BY <1>0, BecomeType DEF IInv
<1>2. req'[c] = q
  BY <1>1 DEF IInv, TypeOK
<1>3. TodoInHand(c)
  BY DEF IInv, InHand
<1>4. RecordInHand(c)'
  BY <1>1, <1>2 DEF RecordInHand
<1>5. TodoInHand(c)'
  BY <1>1, <1>2, <1>3 DEF TodoInHand, Working
<1> QED BY <1>1, <1>4, <1>5

\* What a request that may change Weaviate is at work on is queued.
LEMMA WorkedQueued ==
  ASSUME IInv, NEW c \in Clients, req[c].at \in Working
  PROVE  \A r \in Touched(c) \ crossed : queue[r] # "none"
<1>1. RecordInHand(c) /\ TodoInHand(c)
  BY DEF IInv, InHand
<1>2. \A e \in req[c].todo : e.rec \notin crossed => queue[e.rec] \in Operations
  BY <1>1 DEF TodoInHand, IInv, TypeOK, Request, Entry
<1>3. req[c].rec \notin crossed => queue[req[c].rec] # "none"
  BY <1>1 DEF RecordInHand
<1> QED BY <1>2, <1>3, TouchedBy DEF IInv, Operations

-----------------------------------------------------------------------------
(* The steps of a request. *)

\* A call that fails, or cannot be made, leaves the entry in the queue.
LEMMA FailureKeeps ==
  ASSUME IInv, NEW c \in Clients, Noting(FALSE),
         NoIndex(c) \/ InsertFails(c) \/ UnindexFails(c) \/ FetchFails(c)
  PROVE  IInv'
<1> USE DEF NoIndex, InsertFails, UnindexFails, FetchFails, At, tables, service
<1>0. /\ req[c].at \in Working /\ EntryDone(c)
      /\ active' = active /\ queue' = queue /\ stamp' = stamp /\ clock' = clock /\ index' = index
      /\ connected' = connected /\ up' = up /\ session' = session
  BY DEF Working
<1>1. /\ crossed \subseteq crossed' /\ crossed' \subseteq Records /\ wiped' \in BOOLEAN
      /\ overtaken \subseteq overtaken' /\ overtaken' \subseteq Records
  BY NotedCrossed DEF IInv
<1>2. PICK q \in Request : /\ req' = [req EXCEPT ![c] = q]
                           /\ RecordInHand(c)' /\ TodoInHand(c)'
  BY <1>0, <1>1, EntryDoneInHand
<1>3. TypeOK'
  BY <1>0, <1>1, <1>2 DEF IInv, TypeOK
<1> QED BY <1>0, <1>2, <1>3, AdvanceKeeps

\* With its row gone, a delete goes on to Weaviate or leaves the removal queued.
LEMMA RemovedKeeps ==
  ASSUME IInv, NEW c \in Clients, Noting(FALSE), Removed(c)
  PROVE  IInv'
<1>0. /\ req[c].at = "removed" /\ req[c].at \in Working
      /\ Become(c, "unindex", req[c].rec, 0) \/ EntryDone(c)
      /\ active' = active /\ queue' = queue /\ stamp' = stamp /\ clock' = clock /\ index' = index
      /\ connected' = connected /\ up' = up /\ session' = session /\ 0 \in 0..MaxClock
  BY DEF Removed, At, tables, service, Working
<1>1. /\ crossed \subseteq crossed' /\ crossed' \subseteq Records /\ wiped' \in BOOLEAN
      /\ overtaken \subseteq overtaken' /\ overtaken' \subseteq Records
  BY NotedCrossed DEF IInv
<1>2. req[c].rec \notin crossed => queue[req[c].rec] # "none" /\ active[req[c].rec] = 0
  BY <1>0 DEF IInv, InHand, RecordInHand
<1>3. PICK q \in Request : /\ req' = [req EXCEPT ![c] = q]
                           /\ RecordInHand(c)' /\ TodoInHand(c)'
  <2>1. CASE Become(c, "unindex", req[c].rec, 0)
    BY <1>0, <1>1, <1>2, <2>1, BecomeInHand
  <2>2. CASE EntryDone(c)
    BY <1>0, <1>1, <2>2, EntryDoneInHand
  <2> QED BY <1>0, <2>1, <2>2
<1>4. TypeOK'
  BY <1>0, <1>1, <1>3 DEF IInv, TypeOK
<1> QED BY <1>0, <1>3, <1>4, AdvanceKeeps

\* The old projection goes; the record is still queued.
LEMMA ClearIndexKeeps ==
  ASSUME IInv, NEW c \in Clients, Noting(FALSE), ClearIndex(c)
  PROVE  IInv'
<1> USE DEF ClearIndex, At, tables
<1>0. /\ req[c].at = "index" /\ req[c].at \in Working
      /\ req[c].rec \in Touched(c) /\ req[c].rec \in Records /\ req[c].version \in 0..MaxClock
      /\ active' = active /\ queue' = queue /\ stamp' = stamp /\ clock' = clock
  BY TouchedBy DEF Working, IInv, TypeOK, Request
<1>1. /\ crossed \subseteq crossed' /\ crossed' \subseteq Records /\ wiped' \in BOOLEAN
      /\ overtaken \subseteq overtaken' /\ overtaken' \subseteq Records
  BY NotedCrossed DEF IInv
<1>2. RecordInHand(c)
  BY DEF IInv, InHand
<1>3. PICK q \in Request : /\ req' = [req EXCEPT ![c] = q]
                           /\ RecordInHand(c)' /\ TodoInHand(c)'
  <2>1. Become(c, "insert", req[c].rec, req[c].version)
    OBVIOUS
  <2>2. req[c].rec \notin crossed =>
          queue[req[c].rec] # "none" /\ req[c].version = active[req[c].rec]
            /\ active[req[c].rec] # 0
    BY <1>0, <1>2 DEF RecordInHand
  <2> HIDE DEF ClearIndex
  <2> QED BY <1>0, <1>1, <2>1, <2>2, BecomeInHand
<1>4. index' \in [Records -> 0..MaxClock] /\ \A r \in Records \ Touched(c) : index'[r] = index[r]
  BY <1>0 DEF IInv, TypeOK
<1>5. TypeOK'
  BY <1>0, <1>1, <1>3, <1>4 DEF IInv, TypeOK
<1>6. \A r \in Touched(c) \ crossed : queue[r] # "none"
  BY <1>0, WorkedQueued
<1> QED BY <1>0, <1>3, <1>4, <1>5, <1>6, AdvanceKeeps

\* The new projection shows what SQLite holds.
LEMMA InsertKeeps ==
  ASSUME IInv, NEW c \in Clients, Noting(FALSE), Insert(c)
  PROVE  IInv'
<1> USE DEF Insert, At, tables, service
<1>0. /\ req[c].at = "insert" /\ req[c].at \in Working
      /\ req[c].rec \in Touched(c) /\ req[c].rec \in Records /\ req[c].version \in 0..MaxClock
      /\ active' = active /\ queue' = queue /\ stamp' = stamp /\ clock' = clock
      /\ 0 \in 0..MaxClock
  BY TouchedBy DEF Working, IInv, TypeOK, Request
<1>1. /\ crossed \subseteq crossed' /\ crossed' \subseteq Records /\ wiped' \in BOOLEAN
      /\ overtaken \subseteq overtaken' /\ overtaken' \subseteq Records
  BY NotedCrossed DEF IInv
<1>2. RecordInHand(c)
  BY DEF IInv, InHand
<1>3. /\ index' \in [Records -> 0..MaxClock]
      /\ \A r \in Records \ Touched(c) : index'[r] = index[r]
      /\ index'[req[c].rec] = req[c].version
  BY <1>0 DEF IInv, TypeOK
<1>4. PICK q \in Request : /\ req' = [req EXCEPT ![c] = q]
                           /\ RecordInHand(c)' /\ TodoInHand(c)'
  <2>1. Become(c, "synced", req[c].rec, 0)
    OBVIOUS
  <2>2. req[c].rec \notin crossed =>
          queue[req[c].rec] # "none" /\ index'[req[c].rec] = active[req[c].rec]
    BY <1>0, <1>2, <1>3 DEF RecordInHand
  <2> HIDE DEF Insert
  <2> QED BY <1>0, <1>1, <2>1, <2>2, BecomeInHand
<1>5. TypeOK'
  BY <1>0, <1>1, <1>3, <1>4 DEF IInv, TypeOK
<1>6. \A r \in Touched(c) \ crossed : queue[r] # "none"
  BY <1>0, WorkedQueued
<1> QED BY <1>0, <1>3, <1>4, <1>5, <1>6, AdvanceKeeps

\* The projection of a deleted record goes.
LEMMA UnindexKeeps ==
  ASSUME IInv, NEW c \in Clients, Noting(FALSE), Unindex(c)
  PROVE  IInv'
<1> USE DEF Unindex, At, tables, service
<1>0. /\ req[c].at = "unindex" /\ req[c].at \in Working
      /\ req[c].rec \in Touched(c) /\ req[c].rec \in Records
      /\ active' = active /\ queue' = queue /\ stamp' = stamp /\ clock' = clock
      /\ 0 \in 0..MaxClock
  BY TouchedBy DEF Working, IInv, TypeOK, Request
<1>1. /\ crossed \subseteq crossed' /\ crossed' \subseteq Records /\ wiped' \in BOOLEAN
      /\ overtaken \subseteq overtaken' /\ overtaken' \subseteq Records
  BY NotedCrossed DEF IInv
<1>2. RecordInHand(c)
  BY DEF IInv, InHand
<1>3. /\ index' \in [Records -> 0..MaxClock]
      /\ \A r \in Records \ Touched(c) : index'[r] = index[r]
      /\ index'[req[c].rec] = 0
  BY <1>0 DEF IInv, TypeOK
<1>4. PICK q \in Request : /\ req' = [req EXCEPT ![c] = q]
                           /\ RecordInHand(c)' /\ TodoInHand(c)'
  <2>1. Become(c, "synced", req[c].rec, 0)
    OBVIOUS
  <2>2. req[c].rec \notin crossed =>
          queue[req[c].rec] # "none" /\ index'[req[c].rec] = active[req[c].rec]
    BY <1>0, <1>2, <1>3 DEF RecordInHand
  <2> HIDE DEF Unindex
  <2> QED BY <1>0, <1>1, <2>1, <2>2, BecomeInHand
<1>5. TypeOK'
  BY <1>0, <1>1, <1>3, <1>4 DEF IInv, TypeOK
<1>6. \A r \in Touched(c) \ crossed : queue[r] # "none"
  BY <1>0, WorkedQueued
<1> QED BY <1>0, <1>3, <1>4, <1>5, <1>6, AdvanceKeeps

\* The entry leaves the queue when its projection shows what SQLite holds.
LEMMA MarkSyncedKeeps ==
  ASSUME IInv, NEW c \in Clients, Noting(FALSE), MarkSynced(c)
  PROVE  IInv'
<1> USE DEF MarkSynced, Dequeue, At, service
<1>0. /\ req[c].at = "synced" /\ req[c].at \in Working
      /\ req[c].rec \in Touched(c) /\ req[c].rec \in Records
      /\ req[c].todo \subseteq Entry
      /\ active' = active /\ clock' = clock /\ index' = index
      /\ EntryDone(c) /\ 0 \in 0..MaxClock
  BY TouchedBy DEF Working, IInv, TypeOK, Request
<1>1. /\ crossed \subseteq crossed' /\ crossed' \subseteq Records /\ wiped' \in BOOLEAN
      /\ overtaken \subseteq overtaken' /\ overtaken' \subseteq Records
  BY NotedCrossed DEF IInv
<1>2. RecordInHand(c) /\ TodoInHand(c)
  BY DEF IInv, InHand
<1>3. /\ queue' \in [Records -> Operations \cup {"none"}]
      /\ \A r \in Records : r # req[c].rec => queue'[r] = queue[r]
      /\ queue'[req[c].rec] = "none"
  BY <1>0 DEF IInv, TypeOK
<1>4. stamp' \in [Records -> 0..MaxClock]
  BY <1>0 DEF IInv, TypeOK
<1>5. PICK q \in Request : /\ req' = [req EXCEPT ![c] = q]
                           /\ RecordInHand(c)' /\ TodoInHand(c)'
  <2>1. \A e \in req[c].todo : queue'[e.rec] = queue[e.rec]
    BY <1>0, <1>2, <1>3 DEF TodoInHand, Entry
  <2> HIDE DEF MarkSynced
  <2> QED BY <1>0, <1>1, <2>1, EntryDoneInHand
<1>6. TypeOK'
  BY <1>0, <1>1, <1>3, <1>4, <1>5 DEF IInv, TypeOK
<1>7. req[c].rec \notin crossed => index[req[c].rec] = active[req[c].rec]
  BY <1>0, <1>2 DEF RecordInHand
<1>8. \A r \in Touched(c) \ crossed : queue[r] # "none" /\ r \in Records
  BY <1>0, WorkedQueued, TouchedBy DEF IInv
<1> HIDE DEF MarkSynced
<1>9. \A r \in Records \ Touched(c) : queue'[r] = queue[r] /\ index'[r] = index[r]
  BY <1>0, <1>3
<1>10. \A r \in Touched(c) \ crossed : queue'[r] = "none" => index'[r] = active[r]
  BY <1>0, <1>3, <1>7, <1>8
<1>11. \A r \in Touched(c) : queue'[r] \in {"none", queue[r]}
  BY <1>0, <1>3, TouchedBy DEF IInv
<1> QED BY <1>0, <1>5, <1>6, <1>9, <1>10, <1>11, AdvanceKeeps

\* A sync takes up its next entry.
LEMMA NextEntryKeeps ==
  ASSUME IInv, NEW c \in Clients, Noting(FALSE), NextEntry(c)
  PROVE  IInv'
<1> USE DEF NextEntry, At, tables, service
<1>0. /\ req[c].at = "next" /\ req[c].todo \subseteq Entry
      /\ active' = active /\ queue' = queue /\ stamp' = stamp /\ clock' = clock /\ index' = index
      /\ connected' = connected /\ up' = up /\ session' = session /\ 0 \in 0..MaxClock
  BY DEF IInv, TypeOK, Request
<1>1. /\ crossed \subseteq crossed' /\ crossed' \subseteq Records /\ wiped' \in BOOLEAN
      /\ overtaken \subseteq overtaken' /\ overtaken' \subseteq Records
  BY NotedCrossed DEF IInv
<1>2. TodoInHand(c)
  BY DEF IInv, InHand
<1>3. PICK e \in req[c].todo :
        req' = [req EXCEPT ![c] = [at |-> IF e.op = "delete" THEN "unindex" ELSE "fetch",
                                   rec |-> e.rec, version |-> 0,
                                   todo |-> req[c].todo \ {e}]]
  BY DEF IInv, TypeOK
<1>4. PICK p : p = IF e.op = "delete" THEN "unindex" ELSE "fetch"
  OBVIOUS
<1>a. PICK q : q = [at |-> p, rec |-> e.rec, version |-> 0, todo |-> req[c].todo \ {e}]
  OBVIOUS
<1>b. e.rec \in Records /\ e.op \in Operations
  BY <1>0 DEF Entry
<1>c. (p = "unindex" /\ e.op = "delete") \/ (p = "fetch" /\ e.op = "upsert")
  BY <1>4, <1>b DEF Operations
<1>5. /\ q \in Request /\ q.rec = e.rec /\ q.todo = req[c].todo \ {e}
      /\ (q.at = "unindex" /\ e.op = "delete") \/ (q.at = "fetch" /\ e.op = "upsert")
  <2> HIDE DEF NextEntry
  <2>1. req[c].todo \ {e} \in SUBSET Entry /\ p \in Steps
    BY <1>0, <1>c DEF Steps
  <2> QED BY <1>0, <1>a, <1>b, <1>c, <2>1 DEF Request
<1>6. req' = [req EXCEPT ![c] = q] /\ req'[c] = q
  BY <1>3, <1>4, <1>a DEF IInv, TypeOK
<1> HIDE DEF NextEntry
<1>7. TypeOK'
  BY <1>0, <1>1, <1>5, <1>6 DEF IInv, TypeOK
<1>8. RecordInHand(c)'
  <2>1. e.rec \in Records
    BY <1>b
  <2>2. e.rec \notin crossed => queue[e.rec] = e.op
    BY <1>0, <1>2 DEF TodoInHand
  <2>3. e.rec \notin crossed => (e.op = "delete" => active[e.rec] = 0)
    BY <2>1, <2>2 DEF IInv, QueueMatchesRecords
  <2> QED BY <1>0, <1>1, <1>5, <1>6, <2>2, <2>3 DEF RecordInHand
<1>9. TodoInHand(c)'
  BY <1>0, <1>1, <1>2, <1>5, <1>6 DEF TodoInHand, Working
<1> QED BY <1>0, <1>6, <1>7, <1>8, <1>9, AdvanceKeeps

\* The record of an entry is read; an uncrossed one is there.
LEMMA FetchKeeps ==
  ASSUME IInv, NEW c \in Clients, Noting(FALSE), Fetch(c)
  PROVE  IInv'
<1> USE DEF Fetch, At, tables, service
<1>0. /\ req[c].at = "fetch" /\ req[c].at \in Working /\ req[c].rec \in Records
      /\ active' = active /\ queue' = queue /\ stamp' = stamp /\ clock' = clock /\ index' = index
      /\ connected' = connected /\ up' = up /\ session' = session
      /\ active[req[c].rec] \in 0..MaxClock
  BY DEF Working, IInv, TypeOK, Request
<1>1. /\ crossed \subseteq crossed' /\ crossed' \subseteq Records /\ wiped' \in BOOLEAN
      /\ overtaken \subseteq overtaken' /\ overtaken' \subseteq Records
  BY NotedCrossed DEF IInv
<1>2. PICK p \in {"synced", "index"} :
        /\ Become(c, p, req[c].rec, active[req[c].rec])
        /\ p = "synced" => active[req[c].rec] = 0
  BY <1>0
<1>3. req[c].rec \notin crossed => queue[req[c].rec] = "upsert" /\ active[req[c].rec] # 0
  <2>1. RecordInHand(c)
    BY DEF IInv, InHand
  <2> QED BY <1>0, <2>1 DEF RecordInHand, IInv, QueueMatchesRecords
<1>4. PICK q \in Request : /\ req' = [req EXCEPT ![c] = q]
                           /\ RecordInHand(c)' /\ TodoInHand(c)'
  <2> HIDE DEF Fetch
  <2> QED BY <1>0, <1>1, <1>2, <1>3, BecomeInHand
<1> HIDE DEF Fetch
<1>5. TypeOK'
  BY <1>0, <1>1, <1>4 DEF IInv, TypeOK
<1> QED BY <1>0, <1>4, <1>5, AdvanceKeeps

\* What a rebuild has selected is queued.
LEMMA RebuildEnqueueKeeps ==
  ASSUME IInv, NEW c \in Clients, Noting(FALSE), RebuildEnqueue(c)
  PROVE  IInv'
<1> USE DEF RebuildEnqueue, Enqueue, At, service
<1>0. /\ req[c].at = "enqueue" /\ req[c].version \in 0..MaxClock
      /\ active' = active /\ clock' = clock /\ index' = index
      /\ connected' = connected /\ up' = up /\ session' = session
  BY DEF IInv, TypeOK, Request
<1>1. /\ crossed \subseteq crossed' /\ crossed' \subseteq Records /\ wiped' \in BOOLEAN
      /\ overtaken \subseteq overtaken' /\ overtaken' \subseteq Records
  BY NotedCrossed DEF IInv
<1>2. TodoInHand(c)
  BY DEF IInv, InHand
<1>3. Touched(c) = {e.rec : e \in req[c].todo}
  BY <1>0, TouchedBy DEF IInv
<1>4. \A r \in Records : queue'[r] = IF r \in Touched(c) THEN "upsert" ELSE queue[r]
  BY <1>3
<1>5. queue' \in [Records -> Operations \cup {"none"}] /\ stamp' \in [Records -> 0..MaxClock]
  <2>1. queue' \in [Records -> Operations \cup {"none"}]
    BY DEF IInv, TypeOK, Operations
  <2>2. stamp' \in [Records -> 0..MaxClock]
    BY <1>0 DEF IInv, TypeOK
  <2> QED BY <2>1, <2>2
<1>6. PICK q \in Request : req' = [req EXCEPT ![c] = q] /\ q.at = "start" /\ q.todo = {}
  <2>1. Idle \in Request /\ Idle.todo = {}
    BY IdleType
  <2>2. /\ [Idle EXCEPT !.at = "start"] \in Request
        /\ [Idle EXCEPT !.at = "start"].at = "start" /\ [Idle EXCEPT !.at = "start"].todo = {}
    BY <2>1 DEF Request, Steps
  <2> QED BY <2>2
<1> HIDE DEF RebuildEnqueue
<1>7. req'[c] = q
  BY <1>6 DEF IInv, TypeOK
<1>8. RecordInHand(c)' /\ TodoInHand(c)'
  BY <1>6, <1>7 DEF RecordInHand, TodoInHand, Working
<1>9. TypeOK'
  BY <1>0, <1>1, <1>5, <1>6 DEF IInv, TypeOK
<1>10. \A r \in Touched(c) : r \in Records /\ (active[r] # 0 \/ r \in overtaken)
  BY <1>0, <1>2, <1>3, TouchedBy DEF IInv, TodoInHand
<1> QED BY <1>0, <1>4, <1>6, <1>8, <1>9, <1>10, AdvanceKeeps

\* A sync that cannot connect ends, and leaves everything queued.
LEMMA NoSyncKeeps ==
  ASSUME IInv, NEW c \in Clients, Noting(FALSE), NoSync(c)
  PROVE  IInv'
<1> USE DEF NoSync, tables, service
<1>1. /\ crossed \subseteq crossed' /\ crossed' \subseteq Records /\ wiped' \in BOOLEAN
      /\ overtaken \subseteq overtaken' /\ overtaken' \subseteq Records
  BY NotedCrossed DEF IInv
<1>2. req' = [req EXCEPT ![c] = Idle] /\ req'[c] = Idle
  BY DEF IInv, TypeOK
<1>3. TypeOK'
  BY <1>1, <1>2, IdleType DEF IInv, TypeOK
<1>4. RecordInHand(c)' /\ TodoInHand(c)'
  BY <1>2, IdleType DEF RecordInHand, TodoInHand, Working
<1> QED BY <1>2, <1>3, <1>4, AdvanceKeeps

-----------------------------------------------------------------------------
(* New requests. *)

\* A sync starts with entries of the queue as it is.
LEMMA BeginSyncKeeps ==
  ASSUME IInv, NEW c \in Clients, Noting(FALSE), BeginSync(c)
  PROVE  IInv'
<1> USE DEF BeginSync, tables
<1>1. /\ crossed \subseteq crossed' /\ crossed' \subseteq Records /\ wiped' \in BOOLEAN
      /\ overtaken \subseteq overtaken' /\ overtaken' \subseteq Records
  BY NotedCrossed DEF IInv
<1>2. PICK B \in Batches :
        req' = [req EXCEPT ![c] = IF B = {} THEN Idle
                                            ELSE [Idle EXCEPT !.at = "next", !.todo = B]]
  OBVIOUS
<1>3. \A e \in Queued : e \in Entry /\ queue[e.rec] = e.op
  BY DEF Queued, IInv, TypeOK, Entry
<1>4. \A e, f \in Queued : e.rec = f.rec => e = f
  BY DEF Queued
<1>5. B \subseteq Queued /\ B \in SUBSET Entry
  BY <1>3 DEF Batches
<1>6. PICK q \in Request : /\ req' = [req EXCEPT ![c] = q]
                           /\ q.todo = B
                           /\ q.at = "next" \/ (q.at = "idle" /\ q.todo = {})
  <2>1. CASE B = {}
    BY <1>2, <2>1, IdleType
  <2>2. CASE B # {}
    <3>1. Idle \in Request
      BY IdleType
    <3>2. /\ [Idle EXCEPT !.at = "next", !.todo = B] \in Request
          /\ [Idle EXCEPT !.at = "next", !.todo = B].at = "next"
          /\ [Idle EXCEPT !.at = "next", !.todo = B].todo = B
      BY <1>5, <3>1 DEF Request, Steps
    <3> QED BY <1>2, <2>2, <3>2
  <2> QED BY <2>1, <2>2
<1>7. req'[c] = q
  BY <1>6 DEF IInv, TypeOK
<1> HIDE DEF BeginSync
<1>8. /\ active' = active /\ queue' = queue /\ stamp' = stamp /\ clock' = clock /\ index' = index
      /\ connected' = TRUE /\ up' = up /\ session' = session
  BY DEF BeginSync
<1>9. TypeOK'
  BY <1>1, <1>6, <1>8 DEF IInv, TypeOK
<1>10. RecordInHand(c)'
  BY <1>6, <1>7 DEF RecordInHand, Working
<1>11. TodoInHand(c)'
  BY <1>3, <1>4, <1>5, <1>6, <1>7, <1>8 DEF TodoInHand, Working
<1> QED BY <1>6, <1>8, <1>9, <1>10, <1>11, AdvanceKeeps

\* A rebuild starts with the active records.
LEMMA RebuildSelectKeeps ==
  ASSUME IInv, NEW c \in Clients, Noting(FALSE), RebuildSelect(c)
  PROVE  IInv'
<1> USE DEF RebuildSelect, Tick, service
<1>1. /\ crossed \subseteq crossed' /\ crossed' \subseteq Records /\ wiped' \in BOOLEAN
      /\ overtaken \subseteq overtaken' /\ overtaken' \subseteq Records
  BY NotedCrossed DEF IInv
<1>2. clock + 1 \in 0..MaxClock
  BY DEF IInv, TypeOK
<1>3. PICK S : S = {[rec |-> r, op |-> "upsert", stamp |-> clock + 1] :
                      r \in {s \in Records : active[s] # 0}}
  OBVIOUS
<1>4. S \in SUBSET Entry
  BY <1>2, <1>3 DEF Entry, Operations
<1>5. /\ \A e \in S : active[e.rec] # 0
      /\ \A e, f \in S : e.rec = f.rec => e = f
  BY <1>3
<1>6. PICK q \in Request : req' = [req EXCEPT ![c] = q] /\ q.at = "enqueue" /\ q.todo = S
  <2>1. Idle \in Request
    BY IdleType
  <2>2. PICK q : q = [Idle EXCEPT !.at = "enqueue", !.version = clock + 1, !.todo = S]
    OBVIOUS
  <2>3. q \in Request /\ q.at = "enqueue" /\ q.todo = S
    BY <1>2, <1>4, <2>1, <2>2 DEF Request, Steps
  <2> QED BY <1>3, <2>2, <2>3
<1>7. req'[c] = q
  BY <1>6 DEF IInv, TypeOK
<1>8. /\ active' = active /\ queue' = queue /\ stamp' = stamp /\ clock' = clock + 1
      /\ index' = index /\ connected' = connected /\ up' = up /\ session' = session
  OBVIOUS
<1> HIDE DEF RebuildSelect, Tick
<1>9. TypeOK'
  BY <1>1, <1>2, <1>6, <1>8 DEF IInv, TypeOK
<1>10. RecordInHand(c)'
  BY <1>6, <1>7 DEF RecordInHand, Working
<1>11. TodoInHand(c)'
  BY <1>5, <1>6, <1>7, <1>8 DEF TodoInHand, Working
<1> QED BY <1>6, <1>8, <1>9, <1>10, <1>11, AdvanceKeeps

\* A row that is written, with its queue entry in the same transaction, keeps the
\* invariant: whoever was at work on the record is crossed.
LEMMA WriteKeeps ==
  ASSUME IInv, Noting(FALSE), TypeOK', NEW r \in Records,
         \A s \in Records \ {r} : queue'[s] = queue[s] /\ active'[s] = active[s],
         active'[r] # active[r], active'[r] \in {0, clock + 1}, clock' = clock + 1,
         index' = index,
         queue'[r] = IF active'[r] = 0 THEN "delete" ELSE "upsert",
         \A c \in Clients : req'[c] = req[c] \/ (RecordInHand(c)' /\ TodoInHand(c)')
  PROVE  IInv'
<1>1. /\ crossed \subseteq crossed' /\ wiped' = wiped
      /\ overtaken \subseteq overtaken' /\ overtaken' \subseteq crossed'
  BY NotedCrossed DEF IInv
<1>2. Exclusive'
  BY NotedExclusive DEF IInv
<1>3. Stamped'
  <2>1. clock \in Nat /\ \A s \in Records : active[s] \in Nat /\ active[s] <= clock
    BY DEF IInv, TypeOK, Stamped
  <2>2. \A s \in Records : active'[s] \in {active[s], 0, clock + 1}
    OBVIOUS
  <2> QED BY <2>1, <2>2 DEF Stamped
<1>4. InHand'
  <2> SUFFICES ASSUME NEW d \in Clients, req'[d] = req[d]
               PROVE  RecordInHand(d)' /\ TodoInHand(d)'
    BY DEF InHand
  <2>1. r \in Touched(d) => r \in crossed'
    BY NotedCrossed DEF IInv
  <2>2. Touched(d) \subseteq Records
    BY TouchedBy DEF IInv
  <2>3. \A s \in Touched(d) :
          req[d].at = "enqueue" /\ active[s] # 0 /\ active'[s] = 0 => s \in overtaken'
    BY <2>2, NotedCrossed DEF IInv
  <2> QED BY <1>1, <2>1, <2>2, <2>3, OthersInHand
<1>5. UnqueuedFollows'
  BY <1>1 DEF IInv, UnqueuedFollows
<1>6. QueueMatchesRecords'
  BY <1>1 DEF IInv, QueueMatchesRecords
<1> QED BY <1>1, <1>2, <1>3, <1>4, <1>5, <1>6 DEF IInv

\* The queue after INSERT INTO sync_queue for one record.
LEMMA EnqueueOne ==
  ASSUME TypeOK, NEW r \in Records, NEW op \in Operations, NEW v \in 0..MaxClock,
         Enqueue({r}, op, v)
  PROVE  /\ queue' \in [Records -> Operations \cup {"none"}] /\ stamp' \in [Records -> 0..MaxClock]
         /\ \A s \in Records \ {r} : queue'[s] = queue[s]
         /\ queue'[r] = op
<1>1. queue' \in [Records -> Operations \cup {"none"}]
  BY DEF Enqueue, TypeOK
<1>2. stamp' \in [Records -> 0..MaxClock]
  BY DEF Enqueue, TypeOK
<1> QED BY <1>1, <1>2 DEF Enqueue

\* A put writes the row and queues its projection.
LEMMA PutKeeps ==
  ASSUME IInv, NEW c \in Clients, NEW r \in Records, Noting(FALSE), Put(c, r)
  PROVE  IInv'
<1>0. /\ req[c].at = "idle" /\ clock < MaxClock /\ clock' = clock + 1
      /\ Enqueue({r}, "upsert", clock + 1)
      /\ active' = [active EXCEPT ![r] = clock + 1]
      /\ Become(c, "index", r, clock + 1)
      /\ index' = index /\ connected' = connected /\ up' = up /\ session' = session
  BY DEF Put, At, Tick, service
<1>1. /\ crossed \subseteq crossed' /\ crossed' \subseteq Records /\ wiped' \in BOOLEAN
      /\ overtaken \subseteq overtaken' /\ overtaken' \subseteq Records
  BY NotedCrossed DEF IInv
<1>2. clock + 1 \in 0..MaxClock /\ clock \in Nat /\ active[r] \in Nat /\ active[r] <= clock
  BY <1>0 DEF IInv, TypeOK, Stamped
<1>3. /\ queue' \in [Records -> Operations \cup {"none"}] /\ stamp' \in [Records -> 0..MaxClock]
      /\ \A s \in Records \ {r} : queue'[s] = queue[s]
      /\ queue'[r] = "upsert"
  BY <1>0, <1>2, EnqueueOne DEF IInv, Operations
<1>4. /\ active' \in [Records -> 0..MaxClock] /\ active'[r] = clock + 1
      /\ \A s \in Records \ {r} : active'[s] = active[s]
  BY <1>0, <1>2 DEF IInv, TypeOK
<1>5. PICK q \in Request : /\ req' = [req EXCEPT ![c] = q]
                           /\ q.at = "index" /\ q.rec = r /\ q.version = clock + 1
                           /\ q.todo = req[c].todo
  BY <1>0, <1>2, BecomeType DEF IInv, Steps
<1>6. TypeOK'
  BY <1>0, <1>1, <1>2, <1>3, <1>4, <1>5 DEF IInv, TypeOK
<1>7. req'[c] = q /\ \A d \in Clients \ {c} : req'[d] = req[d]
  BY <1>5 DEF IInv, TypeOK
<1>8. req[c].todo = {}
  BY <1>0 DEF IInv, InHand, TodoInHand
<1>9. RecordInHand(c)' /\ TodoInHand(c)'
  BY <1>2, <1>3, <1>4, <1>5, <1>7, <1>8 DEF RecordInHand, TodoInHand, Working
<1>10. active'[r] # active[r] /\ active'[r] # 0
  BY <1>2, <1>4
<1> QED BY <1>0, <1>3, <1>4, <1>6, <1>7, <1>9, <1>10, WriteKeeps

\* What the delete transaction changes.
LEMMA MarkDeletedRow ==
  ASSUME IInv, NEW r \in Records, MarkDeleted(r)
  PROVE  /\ clock' = clock + 1 /\ clock' \in 0..MaxClock
         /\ queue' \in [Records -> Operations \cup {"none"}] /\ stamp' \in [Records -> 0..MaxClock]
         /\ active' \in [Records -> 0..MaxClock]
         /\ \A s \in Records \ {r} : queue'[s] = queue[s] /\ active'[s] = active[s]
         /\ queue'[r] = "delete" /\ active'[r] = 0 /\ active'[r] # active[r]
<1>1. /\ clock < MaxClock /\ clock' = clock + 1 /\ Enqueue({r}, "delete", clock + 1)
      /\ active[r] # 0 /\ active' = [active EXCEPT ![r] = 0]
  BY DEF MarkDeleted, Tick
<1>2. clock + 1 \in 0..MaxClock
  BY <1>1 DEF IInv, TypeOK
<1>3. /\ active' \in [Records -> 0..MaxClock] /\ active'[r] = 0
      /\ \A s \in Records \ {r} : active'[s] = active[s]
  BY <1>1 DEF IInv, TypeOK
<1> QED BY <1>1, <1>2, <1>3, EnqueueOne DEF IInv, Operations

\* A delete removes the row and queues the removal; its call of Weaviate is to come.
LEMMA DeleteKeeps ==
  ASSUME IInv, NEW c \in Clients, NEW r \in Records, Noting(FALSE), Delete(c, r)
  PROVE  IInv'
<1>0. /\ req[c].at = "idle" /\ MarkDeleted(r)
      /\ Become(c, "removed", r, 0)
      /\ index' = index /\ connected' = connected /\ up' = up /\ session' = session
  BY DEF Delete, At, service
<1>1. /\ crossed \subseteq crossed' /\ crossed' \subseteq Records /\ wiped' \in BOOLEAN
      /\ overtaken \subseteq overtaken' /\ overtaken' \subseteq Records
  BY NotedCrossed DEF IInv
<1>2. /\ clock' = clock + 1 /\ clock' \in 0..MaxClock
      /\ queue' \in [Records -> Operations \cup {"none"}] /\ stamp' \in [Records -> 0..MaxClock]
      /\ active' \in [Records -> 0..MaxClock]
      /\ \A s \in Records \ {r} : queue'[s] = queue[s] /\ active'[s] = active[s]
      /\ queue'[r] = "delete" /\ active'[r] = 0 /\ active'[r] # active[r]
  BY <1>0, MarkDeletedRow
<1>3. req[c].todo = {} /\ 0 \in 0..MaxClock /\ "removed" \in Steps
  BY <1>0 DEF IInv, InHand, TodoInHand, Steps
<1>4. PICK q \in Request : /\ req' = [req EXCEPT ![c] = q]
                           /\ q.at = "removed" /\ q.rec = r /\ q.version = 0
                           /\ q.todo = req[c].todo
  BY <1>0, <1>3, BecomeType DEF IInv
<1>5. TypeOK'
  BY <1>0, <1>1, <1>2, <1>4 DEF IInv, TypeOK
<1>6. req'[c] = q /\ \A d \in Clients \ {c} : req'[d] = req[d]
  BY <1>4 DEF IInv, TypeOK
<1>7. RecordInHand(c)' /\ TodoInHand(c)'
  BY <1>2, <1>3, <1>4, <1>6 DEF RecordInHand, TodoInHand, Working
<1> QED BY <1>0, <1>2, <1>5, <1>6, <1>7, WriteKeeps

\* Retention deletes rows under whoever is at work on them.
LEMMA RetentionDeleteKeeps ==
  ASSUME IInv, NEW r \in Records, Noting(FALSE), RetentionDelete(r)
  PROVE  IInv'
<1>0. /\ MarkDeleted(r) /\ req' = req
      /\ index' = index /\ connected' = connected /\ up' = up /\ session' = session
  BY DEF RetentionDelete, service
<1>1. /\ crossed \subseteq crossed' /\ crossed' \subseteq Records /\ wiped' \in BOOLEAN
      /\ overtaken \subseteq overtaken' /\ overtaken' \subseteq Records
  BY NotedCrossed DEF IInv
<1>2. /\ clock' = clock + 1 /\ clock' \in 0..MaxClock
      /\ queue' \in [Records -> Operations \cup {"none"}] /\ stamp' \in [Records -> 0..MaxClock]
      /\ active' \in [Records -> 0..MaxClock]
      /\ \A s \in Records \ {r} : queue'[s] = queue[s] /\ active'[s] = active[s]
      /\ queue'[r] = "delete" /\ active'[r] = 0 /\ active'[r] # active[r]
  BY <1>0, MarkDeletedRow
<1>3. TypeOK'
  BY <1>0, <1>1, <1>2 DEF IInv, TypeOK
<1> QED BY <1>0, <1>2, <1>3, WriteKeeps

-----------------------------------------------------------------------------
(* The surroundings. *)

\* Weaviate comes and goes, sessions begin and end, and so does nothing at all.
LEMMA SurroundingsKeep ==
  ASSUME IInv, NEW w \in BOOLEAN,
         Noting(w) \/ (crossed' = crossed /\ overtaken' = overtaken /\ wiped' = wiped),
         up' \in BOOLEAN, session' \in BOOLEAN,
         UNCHANGED <<active, queue, stamp, clock, index, connected, req>>
  PROVE  IInv'
<1>1. /\ crossed \subseteq crossed' /\ crossed' \subseteq Records
      /\ overtaken \subseteq overtaken' /\ overtaken' \subseteq crossed'
      /\ wiped' \in BOOLEAN /\ (wiped => wiped')
  BY NotedCrossed DEF IInv, TypeOK
<1>2. Exclusive'
  <2>1. \A c \in Clients : Touched(c)' = Touched(c)
    BY DEF Touched
  <2> QED BY <1>1, <2>1 DEF IInv, Exclusive
<1>3. TypeOK'
  BY <1>1 DEF IInv, TypeOK
<1>4. Stamped'
  BY DEF IInv, Stamped
<1>5. InHand'
  BY <1>1, OthersInHand DEF InHand
<1>6. UnqueuedFollows'
  BY <1>1 DEF IInv, UnqueuedFollows
<1>7. QueueMatchesRecords'
  BY <1>1 DEF IInv, QueueMatchesRecords
<1> QED BY <1>1, <1>2, <1>3, <1>4, <1>5, <1>6, <1>7 DEF IInv

\* A restart, with or without the collection, loses the requests and nothing else.
LEMMA RestartKeeps ==
  ASSUME IInv, \/ Restart /\ Noting(FALSE)
               \/ Wipe /\ Noting(TRUE)
  PROVE  IInv'
<1>0. /\ active' = active /\ queue' = queue /\ stamp' = stamp /\ clock' = clock
      /\ connected' = FALSE /\ session' = FALSE /\ up' = up
      /\ req' = [c \in Clients |-> Idle]
      /\ index' \in [Records -> 0..MaxClock]
  <2>1. 0 \in 0..MaxClock
    BY DEF MemoryStoreAssumption
  <2>2. CASE Restart
    BY <2>2 DEF Restart, tables, IInv, TypeOK
  <2>3. CASE Wipe
    BY <2>1, <2>3 DEF Wipe, tables
  <2> QED BY <2>2, <2>3
<1>1. /\ crossed \subseteq crossed' /\ crossed' \subseteq Records
      /\ overtaken \subseteq overtaken' /\ overtaken' \subseteq crossed'
      /\ wiped' \in BOOLEAN
      /\ wiped' \/ (~wiped /\ index' = index)
  BY NotedCrossed DEF IInv, TypeOK, Restart
<1>2. Exclusive'
  BY NotedExclusive DEF IInv
<1>3. TypeOK'
  BY <1>0, <1>1, IdleType DEF IInv, TypeOK
<1>4. Stamped'
  BY <1>0 DEF IInv, Stamped
<1>5. InHand'
  <2>1. \A c \in Clients : req'[c].at = "idle" /\ req'[c].todo = {}
    BY <1>0, IdleType
  <2> QED BY <2>1 DEF InHand, RecordInHand, TodoInHand, Working
<1>6. UnqueuedFollows'
  BY <1>0, <1>1 DEF IInv, UnqueuedFollows
<1>7. QueueMatchesRecords'
  BY <1>0, <1>1 DEF IInv, QueueMatchesRecords
<1> QED BY <1>1, <1>2, <1>3, <1>4, <1>5, <1>6, <1>7 DEF IInv

-----------------------------------------------------------------------------
(* The theorems. *)

\* Of every reachable state: while nobody crosses it, a record has one request at work
\* on it, whose next call fits what SQLite holds, and its entry in the queue until the
\* projection in Weaviate is that of the row.
THEOREM QueueInvariant == Spec => []IInv
<1>1. Init => IInv
  <2> SUFFICES ASSUME Init PROVE IInv
    OBVIOUS
  <2> USE DEF Init
  <2>0. 0 \in 0..MaxClock
    BY DEF MemoryStoreAssumption
  <2>1. TypeOK
    BY <2>0, IdleType DEF TypeOK
  <2>2. \A c \in Clients : req[c].at = "idle" /\ req[c].todo = {}
    BY IdleType
  <2>3. Exclusive
    BY <2>2 DEF Exclusive, Touched
  <2>4. Stamped
    BY DEF Stamped
  <2>5. InHand
    BY <2>2 DEF InHand, RecordInHand, TodoInHand, Working
  <2>6. UnqueuedFollows /\ QueueMatchesRecords
    BY DEF UnqueuedFollows, QueueMatchesRecords
  <2> QED BY <2>1, <2>3, <2>4, <2>5, <2>6 DEF IInv
<1>2. IInv /\ [Next]_vars => IInv'
  <2> SUFFICES ASSUME IInv, [Next]_vars PROVE IInv'
    OBVIOUS
  <2>1. ASSUME Noting(FALSE), NEW c \in Clients, Advance(c) PROVE IInv'
    BY <2>1, FailureKeeps, RemovedKeeps, ClearIndexKeeps, InsertKeeps, UnindexKeeps, MarkSyncedKeeps,
       NextEntryKeeps, FetchKeeps, RebuildEnqueueKeeps, NoSyncKeeps DEF Advance
  <2>2. ASSUME Noting(FALSE), NEW c \in Clients, BeginSync(c) \/ RebuildSelect(c) PROVE IInv'
    BY <2>2, BeginSyncKeeps, RebuildSelectKeeps
  <2>3. ASSUME Noting(FALSE), NEW c \in Clients, NEW r \in Records, Put(c, r) \/ Delete(c, r)
        PROVE  IInv'
    BY <2>3, PutKeeps, DeleteKeeps
  <2>4. ASSUME Noting(FALSE), NEW r \in Records, RetentionDelete(r) PROVE IInv'
    BY <2>4, RetentionDeleteKeeps
  <2>5. CASE Noting(FALSE) /\ Outage
    <3>1. up' \in BOOLEAN /\ session' \in BOOLEAN
          /\ UNCHANGED <<active, queue, stamp, clock, index, connected, req>>
      BY <2>5 DEF Outage, tables, IInv, TypeOK
    <3> QED BY <2>5, <3>1, SurroundingsKeep
  <2>6. CASE Noting(FALSE) /\ LockOrUnlock
    <3>1. up' \in BOOLEAN /\ session' \in BOOLEAN
          /\ UNCHANGED <<active, queue, stamp, clock, index, connected, req>>
      BY <2>6 DEF LockOrUnlock, tables, IInv, TypeOK
    <3> QED BY <2>6, <3>1, SurroundingsKeep
  <2>7. CASE (Restart /\ Noting(FALSE)) \/ (Wipe /\ Noting(TRUE))
    BY <2>7, RestartKeeps
  <2>8. CASE UNCHANGED vars
    <3>1. up' \in BOOLEAN /\ session' \in BOOLEAN /\ crossed' = crossed
          /\ overtaken' = overtaken /\ wiped' = wiped
          /\ UNCHANGED <<active, queue, stamp, clock, index, connected, req>>
      BY <2>8 DEF vars, tables, service, IInv, TypeOK
    <3> QED BY <3>1, SurroundingsKeep
  <2>9. CASE Step /\ Noting(FALSE)
    <3>1. CASE \E c \in Clients : \/ Advance(c) \/ BeginSync(c) \/ RebuildSelect(c)
                                 \/ \E r \in Records : Put(c, r) \/ Delete(c, r)
      BY <2>1, <2>2, <2>3, <2>9, <3>1
    <3>2. CASE \E r \in Records : RetentionDelete(r)
      BY <2>4, <2>9, <3>2
    <3>3. CASE Outage \/ LockOrUnlock \/ Restart
      BY <2>5, <2>6, <2>7, <2>9, <3>3
    <3> QED BY <2>9, <3>1, <3>2, <3>3 DEF Step
  <2> QED BY <2>7, <2>8, <2>9 DEF Next
<1> QED BY <1>1, <1>2, PTL DEF Spec

\* A record that is neither queued nor being worked on has in Weaviate the projection
\* of what SQLite holds, whatever crashed, failed or was refused between the steps of
\* put, delete, sync, retention and rebuild, if no two requests ever worked on it.
THEOREM ProjectionFollowsRecord == Spec => []IndexFollows
<1>1. IInv => IndexFollows
  BY DEF IInv, UnqueuedFollows, IndexFollows
<1> QED BY <1>1, QueueInvariant, PTL

\* No upsert is queued for a deleted record and no delete for an active one: put,
\* delete and retention write row and entry in one transaction, and a rebuild queues
\* what it selected.
THEOREM EntriesMatchRecords == Spec => []QueueMatchesRecords
<1>1. IInv => QueueMatchesRecords
  BY DEF IInv
<1> QED BY <1>1, QueueInvariant, PTL

-----------------------------------------------------------------------------
(* How the Weaviate client comes about that connected speaks of: IndexClient,  *)
(* for every set of requests and every setting of CYBERFORGE_WEAVIATE_MODE.    *)

\* The initialization lock has one holder.
OneHolder ==
  \A p, q \in Requests : at[p] \in Holding /\ at[q] \in Holding => p = q

\* While a client is being tried there is none in place; while it goes through the
\* gates it is the one that mode names, and has not passed them.
Attempt ==
  \A q \in Requests :
    /\ at[q] \in {"tryRemote", "tryEmbedded"} => client = "none" /\ ~gated
    /\ at[q] = "gateRemote" => client = "remote" /\ mode = "remote" /\ ~gated
    /\ at[q] = "gateEmbedded" => client = "embedded" /\ mode = "embedded" /\ ~gated

\* A mode in which initialize_weaviate would begin again means that nothing is there
\* to be overwritten.
NothingLost ==
  /\ MayTry => client = "none"
  /\ client = "none" => ~gated

ClientIInv == ClientTypeOK /\ OneHolder /\ Attempt /\ NothingLost /\ ClientReady

USE IndexClientAssumption

\* Initially nobody initializes and no client is there.
LEMMA InitClientIInv == ClientInit => ClientIInv
  BY DEF ClientInit, ClientIInv, ClientTypeOK, OneHolder, Attempt, NothingLost, ClientReady, Holding,
         Servers, MayTry

\* A request that comes in, ends, or finds the client initialized touches neither
\* client nor mode, and no lock.
LEMMA ComeAndGoKeep ==
  ASSUME ClientIInv, NEW q \in Requests, Arrive(q) \/ AlreadyInitialized(q) \/ Finish(q)
  PROVE  ClientIInv'
  BY DEF Arrive, AlreadyInitialized, Finish, Goto, Free, MayTry, ClientIInv, ClientTypeOK, OneHolder,
         Attempt, NothingLost, ClientReady, Holding, Servers

\* The request that takes the lock finds no client.
LEMMA BeginInitializeKeeps ==
  ASSUME ClientIInv, NEW q \in Requests, BeginInitialize(q)
  PROVE  ClientIInv'
  BY DEF BeginInitialize, Goto, Free, MayTry, ClientIInv, ClientTypeOK, OneHolder,
         Attempt, NothingLost, ClientReady, Holding, Servers

\* A connection attempt: the holder's client is created, or the server given up.
LEMMA ConnectKeeps ==
  ASSUME ClientIInv, NEW q \in Requests,
         \/ Connect(q, "remote", "tryRemote", "gateRemote")
         \/ Connect(q, "embedded", "tryEmbedded", "gateEmbedded")
  PROVE  ClientIInv'
  BY DEF Connect, GiveUp, Goto, Free, MayTry, ClientIInv, ClientTypeOK, OneHolder,
         Attempt, NothingLost, ClientReady, Holding, Servers

\* The gates: the client has passed them, or is closed before the lock is released.
LEMMA ValidateKeeps ==
  ASSUME ClientIInv, NEW q \in Requests,
         \/ Validate(q, "remote", "gateRemote") \/ Validate(q, "embedded", "gateEmbedded")
         \/ CloseRaises(q, "remote", "gateRemote") \/ CloseRaises(q, "embedded", "gateEmbedded")
  PROVE  ClientIInv'
<1> USE DEF Validate, CloseRaises, Close, GiveUp, Goto, Free, Holding, Servers
<1>1. ClientTypeOK'
  BY DEF ClientIInv, ClientTypeOK
<1>2. OneHolder'
  BY DEF ClientIInv, ClientTypeOK, OneHolder
<1>3. Attempt'
  BY DEF ClientIInv, ClientTypeOK, OneHolder, Attempt
<1>4. NothingLost'
  BY DEF ClientIInv, ClientTypeOK, NothingLost, Attempt, MayTry
<1>5. ClientReady'
  BY DEF ClientIInv, ClientTypeOK, OneHolder, Attempt, ClientReady
<1> QED BY <1>1, <1>2, <1>3, <1>4, <1>5 DEF ClientIInv

\* What becomes of a server does not reach the fields of the client by itself.
LEMMA ChangeKeeps ==
  ASSUME ClientIInv, NEW server \in Servers, Change(server)
  PROVE  ClientIInv'
  BY DEF Change, Free, MayTry, ClientIInv, ClientTypeOK, OneHolder, Attempt, NothingLost,
         ClientReady, Holding, Servers

\* Every step preserves the invariant.
LEMMA ClientNextKeeps == ClientIInv /\ [ClientNext]_clientVars => ClientIInv'
<1> SUFFICES ASSUME ClientIInv, [ClientNext]_clientVars PROVE ClientIInv'
  OBVIOUS
<1>1. ASSUME NEW q \in Requests, Arrive(q) \/ Serve(q) PROVE ClientIInv'
  BY <1>1, ComeAndGoKeep, BeginInitializeKeeps, ConnectKeeps, ValidateKeeps DEF Serve
<1>2. ASSUME NEW server \in Servers, Change(server) PROVE ClientIInv'
  BY <1>2, ChangeKeeps
<1>3. CASE UNCHANGED clientVars
  BY <1>3 DEF clientVars, Free, MayTry, ClientIInv, ClientTypeOK, OneHolder, Attempt, NothingLost, ClientReady
<1> QED BY <1>1, <1>2, <1>3 DEF ClientNext

\* The invariant holds throughout: at most one request initializes, and what it has
\* in hand is what client and mode say.
THEOREM InitializationInvariant == ClientSpec => []ClientIInv
<1>1. ClientInit => ClientIInv
  BY InitClientIInv
<1>2. ClientIInv /\ [ClientNext]_clientVars => ClientIInv'
  BY ClientNextKeeps
<1> QED BY <1>1, <1>2, PTL DEF ClientSpec

\* A client that requests can see outside an initialization has passed all gates and
\* is the one that mode names, in every configuration.
THEOREM ClientIsReady == ClientSpec => []ClientReady
<1>1. ClientIInv => ClientReady
  BY DEF ClientIInv
<1> QED BY <1>1, InitializationInvariant, PTL
=============================================================================
