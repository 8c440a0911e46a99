------------------------------ MODULE MemoryGraph ------------------------------
(***************************************************************************)
(* The requests that read several records: StorageCoordinator.search of    *)
(* storage.py, the provenance graph and the compaction of                  *)
(* memory_governance.py.  Each read is a transaction of its own, so        *)
(* records are put and deleted between the reads of one request.           *)
(*                                                                         *)
(* A record is a number, its rank in the order of ids.  Scores are         *)
(* millionths; cosines of the feature-hashing vectors are given in         *)
(* thousandths.  What Weaviate answers is any list of ids: its index may   *)
(* be stale or hold ghosts (see MemoryStore).                              *)
(***************************************************************************)
EXTENDS Scores

CONSTANTS
  Records,    \* the ids there may be: 1..n
  Fresh,      \* the id that a compaction draws
  Contents,   \* see TypeOK
  Relevance,  \* cosine of each content with the query, by name
  Alikeness,  \* and of two contents
  Starts,     \* requests and the stores they meet
  IndexHits,  \* what Weaviate may answer to a search
  MaxTouched, \* bound on the records written during a request
  RrfK, Lambda, \* memory_rrf_k, and memory_mmr_lambda in percent
  MinCandidates, MaxResults, \* 24 and 50 in the code
  MaxDepth, MaxNodes, \* 8 and 512 in the code
  MaxSources  \* 200 in the code

ASSUME MemoryGraphAssumption ==
  /\ Records \subseteq Nat /\ IsFiniteSet(Records) /\ Fresh \in Records
  /\ {RrfK, MaxTouched, MaxDepth} \subseteq Nat /\ Lambda \in 0..100
  /\ {MinCandidates, MaxResults, MaxNodes, MaxSources} \subseteq Nat \ {0}
  /\ Relevance \in [DOMAIN Relevance -> Nat]
  /\ Alikeness \in [DOMAIN Relevance -> [DOMAIN Relevance -> Int]]
  /\ {"absent", "compaction"} \cap DOMAIN Relevance = {"compaction"}
  /\ \A hits \in IndexHits : hits \in Seq(Records) /\ IsInjective(hits)

Absent == [name |-> "absent", matched |-> 0, refs |-> {}]

VARIABLES
  request,
  row,      \* the active records
  created,  \* all ids that have a row, by created_at
  updated,  \* and by updated_at
  step,     \* where the request is
  todo,     \* ids it has still to read
  found,    \* what it has read, as pairs of id and content in the order of the dict
  score,    \* rrf
  result,   \* what it returns
  seen,     \* every pair of id and content that was active since the request began
  touched   \* the records that others have written meanwhile

store == <<row, created, updated, seen>>
vars == <<request, store, step, todo, found, score, result, touched>>

Pair(r) == [id |-> r, content |-> row[r]]
Active(rows) == {r \in Records : rows[r] # Absent}
Pairs(rows) == {[id |-> r, content |-> rows[r]] : r \in Active(rows)}
Ids(pairs) == {pairs[k].id : k \in DOMAIN pairs}
Nothing == [none |-> TRUE]

Versions == [name : DOMAIN Relevance, matched : Nat, refs : SUBSET Records]
Candidates == [id : Records, content : Versions]

IsRequest(q) ==
  \/ q.kind = "search" /\ q.limit \in 1..MaxResults /\ q.radius \in Nat
  \/ q.kind = "provenance" /\ q.root \in Records /\ q.depth \in Nat /\ q.nodes \in Nat \ {0}
  \/ q.kind = "compact" /\ q.ids \in Seq(Records)

\* A store at the start: every active record has a place in the order of creation.
ASSUME StartsAssumption ==
  /\ Contents \subseteq Versions
  /\ \A s \in Starts :
       /\ IsRequest(s.request)
       /\ s.row \in [Records -> Versions \cup {Absent}]
       /\ s.created \in Seq(Records) /\ IsInjective(s.created)
       /\ Active(s.row) \subseteq ToSet(s.created)

TypeOK ==
  /\ IsRequest(request)
  /\ row \in [Records -> Versions \cup {Absent}]
  /\ created \in Seq(Records) /\ IsInjective(created)
  /\ updated \in Seq(Records) /\ IsInjective(updated)
  /\ Active(row) \subseteq ToSet(created) /\ ToSet(created) = ToSet(updated)
  /\ step \in {"start", "index", "fetch", "expand", "select", "done", "failed"}
  /\ todo \in Seq(Records) /\ found \in Seq(Candidates)
  /\ score \in [Records -> Nat]
  /\ touched \subseteq Records /\ Cardinality(touched) <= MaxTouched

Init ==
  /\ \E s \in Starts : request = s.request /\ row = s.row /\ created = s.created /\ updated = s.created
  /\ step = "start" /\ todo = <<>> /\ found = <<>> /\ result = Nothing
  /\ score = [r \in Records |-> 0]
  /\ seen = Pairs(row) /\ touched = {}

-----------------------------------------------------------------------------
(* Writes of other requests *)

\* Mutant: a record takes the place of those that it refers to.
WriteInPlace(r, content) ==
  /\ row' = [x \in Records |-> IF x = r THEN content
                               ELSE IF x \in content.refs THEN Absent ELSE row[x]]
  /\ created' = IF r \in ToSet(created) THEN created ELSE Append(created, r)
  /\ updated' = Append(Items(updated, {k \in DOMAIN updated : updated[k] # r}), r)
  /\ seen' = seen \cup {[id |-> r, content |-> content]}

\* A record that is put again keeps its created_at.
Write(r, content) ==
  /\ row' = [row EXCEPT ![r] = content]
  /\ created' = IF r \in ToSet(created) THEN created ELSE Append(created, r)
  /\ updated' = Append(Items(updated, {k \in DOMAIN updated : updated[k] # r}), r)
  /\ seen' = seen \cup {[id |-> r, content |-> content]}

Meanwhile(r) ==
  /\ step \notin {"start", "done", "failed"}
  /\ touched' = touched \cup {r} /\ Cardinality(touched') <= MaxTouched
  /\ UNCHANGED <<request, step, todo, found, score, result>>

Put(r) == Meanwhile(r) /\ r # Fresh /\ \E c \in Contents : Write(r, c)

Delete(r) ==
  /\ Meanwhile(r) /\ row[r] # Absent
  /\ row' = [row EXCEPT ![r] = Absent]
  /\ UNCHANGED <<created, updated, seen>>

Goes(to) == step' = to /\ UNCHANGED <<request, touched>>

-----------------------------------------------------------------------------
(* search *)

Searching(at) == request.kind = "search" /\ step = at

Rrf(rank) == 1000000 \div (RrfK + rank)

\* What a record has from a ranking, in which it stands once or not at all.
Share(hits, r) ==
  IF r \in ToSet(hits) THEN Rrf(CHOOSE k \in DOMAIN hits : hits[k] = r) ELSE 0

\* Mutant: only what has every word of the query.
SqliteHitsOfAll ==
  LET latest == Reverse(updated)
  IN Items(latest, {k \in DOMAIN latest : row[latest[k]].matched > 1})

ByMatches(hits) == Sorted(hits, LAMBDA a, b : row[a].matched > row[b].matched)

\* EncryptedSQLiteStore.search: by the words that match, then the latest.
SqliteHits ==
  LET latest == Reverse(updated)
      matching == Items(latest, {k \in DOMAIN latest : row[latest[k]].matched > 0})
  IN Upto(ByMatches(matching), Max({4 * request.limit, MinCandidates}))

SearchSqlite ==
  /\ Searching("start") /\ Goes("index")
  /\ found' = [k \in DOMAIN SqliteHits |-> Pair(SqliteHits[k])]
  /\ score' = [r \in Records |-> Share(SqliteHits, r)]
  /\ UNCHANGED <<store, todo, result>>

\* Weaviate ranks ids; none when it is off, or fails.  It has one object for an id.
SearchIndex ==
  /\ Searching("index") /\ Goes("fetch")
  /\ \E hits \in IndexHits :
       /\ todo' = hits
       /\ score' = [r \in Records |-> score[r] + Share(hits, r)]
  /\ UNCHANGED <<store, found, result>>

\* Mutant: every hit of the index is read, also what SQLite has found.
FetchAgain(r) == row[r] # Absent

\* A hit that SQLite has not found is read from it, and dropped when it is gone.
Fetch(r) == r \notin Ids(found) /\ row[r] # Absent

FetchHit ==
  /\ Searching("fetch")
  /\ IF todo = <<>>
       THEN /\ Goes("expand") /\ todo' = [k \in DOMAIN Upto(found, request.limit) |-> found[k].id]
            /\ UNCHANGED found
       ELSE /\ Goes("fetch") /\ todo' = Tail(todo)
            /\ found' = IF Fetch(Head(todo)) THEN Append(found, Pair(Head(todo))) ELSE found
  /\ UNCHANGED <<store, score, result>>

\* temporal_neighbors
Neighbours(r) ==
  LET timeline == Items(created, {k \in DOMAIN created : row[created[k]] # Absent})
      at == CHOOSE k \in DOMAIN timeline : timeline[k] = r
      radius == Clamp(request.radius, 10)
  IN IF row[r] = Absent THEN <<>>
     ELSE Items(timeline, {k \in DOMAIN timeline :
                             k # at /\ k >= at - radius /\ k <= at + radius})

\* setdefault: what has been read stays as it was read.
Expanded(neighbours) ==
  LET new == Items(neighbours, {k \in DOMAIN neighbours : neighbours[k] \notin Ids(found)})
  IN found \o [k \in DOMAIN new |-> Pair(new[k])]

ExpandHit ==
  /\ Searching("expand")
  /\ IF todo = <<>>
       THEN Goes("select") /\ UNCHANGED <<todo, found, score>>
       ELSE LET neighbours == Neighbours(Head(todo)) IN
            /\ Goes("expand") /\ todo' = Tail(todo)
            /\ found' = Expanded(neighbours)
            /\ score' = [r \in Records |->
                 score[r] + IF r \in ToSet(neighbours) THEN (15 * Rrf(1)) \div 100 ELSE 0]
  /\ UNCHANGED <<store, result>>

\* Maximal marginal relevance: what is relevant, and unlike what is chosen already.
Merit(pair, chosen) ==
  LET likeness == {Alikeness[pair.content.name][c.content.name] : c \in chosen}
  IN Lambda * (score[pair.id] + 1000 * Relevance[pair.content.name])
     - (100 - Lambda) * 1000 * (IF likeness = {} THEN 0 ELSE Max(likeness))

\* Of the places that are not taken, the first with the greatest merit.
Best(candidates, taken) ==
  LET left == DOMAIN candidates \ taken
      merit == [k \in left |-> Merit(candidates[k], {candidates[j] : j \in taken})]
  IN Min({k \in left : \A j \in left : merit[j] <= merit[k]})

Chosen(candidates) ==
  LET place[n \in DOMAIN candidates] == Best(candidates, {place[m] : m \in 1..(n - 1)})
  IN [n \in 1..Least(Clamp(request.limit, MaxResults), Len(candidates)) |-> candidates[place[n]]]

ByScore(candidates) == Sorted(candidates, LAMBDA a, b : score[a.id] > score[b.id])

SelectHits ==
  /\ Searching("select") /\ Goes("done")
  /\ result' = Chosen(ByScore(found))
  /\ UNCHANGED <<store, todo, found, score>>

-----------------------------------------------------------------------------
(* provenance_graph: one read of all active records *)

References(r) == {x \in row[r].refs : row[x] # Absent}
Referrers(r) == {x \in Active(row) : r \in References(x)}

Limit(asked, top) == Clamp(asked, top)

\* Mutant: the record that was queued last is visited first.
QueueLatestFirst(queue, ids, depth) == [k \in DOMAIN ids |-> [id |-> ids[k], depth |-> depth]] \o queue

Queue(queue, ids, depth) == queue \o [k \in DOMAIN ids |-> [id |-> ids[k], depth |-> depth]]

Edges(here, limit) ==
  IF here.depth >= limit THEN {}
  ELSE {<<here.id, x>> : x \in References(here.id)} \cup {<<x, here.id>> : x \in Referrers(here.id)}

Ascending(ids) == Items([r \in Records |-> r], ids)

\* A record is taken from the queue; edges are reported when it is expanded, before it
\* is known whether their other ends will be.
Visit(walk) ==
  LET here == Head(walk.queue)
      depth == Limit(request.depth, MaxDepth)
      neighbours == IF here.depth >= depth THEN <<>>
                    ELSE Ascending(References(here.id)) \o Ascending(Referrers(here.id))
  IN IF here.id \in Ids(walk.nodes) THEN [walk EXCEPT !.queue = Tail(@)]
     ELSE [queue |-> Queue(Tail(walk.queue), neighbours, here.depth + 1),
           nodes |-> Append(walk.nodes, here),
           edges |-> walk.edges \cup Edges(here, depth)]

NodeLimit == Limit(request.nodes - 1, MaxNodes - 1) + 1

Over(walk) == walk.queue = <<>> \/ Len(walk.nodes) >= NodeLimit

\* The loop's variables after n rounds; it ends before MaxRounds, each record being
\* expanded once.
Walk[n \in Nat] ==
  IF n = 0 THEN [queue |-> <<[id |-> request.root, depth |-> 0]>>, nodes |-> <<>>, edges |-> {}]
  ELSE LET walk == Walk[n - 1] IN IF Over(walk) THEN walk ELSE Visit(walk)

MaxRounds == 1 + 2 * Cardinality(Records) * Cardinality(Records)

Explored ==
  LET walk == Walk[MaxRounds]
  IN [nodes |-> walk.nodes, edges |-> walk.edges, truncated |-> walk.queue # <<>>]

Provenance ==
  /\ request.kind = "provenance" /\ step = "start"
  /\ IF row[request.root] = Absent
       THEN Goes("failed") /\ UNCHANGED result
       ELSE /\ Goes("done")
            /\ result' = Explored
  /\ UNCHANGED <<store, todo, found, score>>

-----------------------------------------------------------------------------
(* create_compaction_record *)

Sources(ids) == Once(ids)

Compacting(at) == request.kind = "compact" /\ step = at

BeginCompaction ==
  /\ Compacting("start") /\ Goes("fetch")
  /\ todo' = Sources(request.ids)
  /\ UNCHANGED <<store, found, score, result>>

FetchSource ==
  /\ Compacting("fetch") /\ todo # <<>>
  /\ IF row[Head(todo)] = Absent
       THEN Goes("failed") /\ UNCHANGED <<todo, found>>
       ELSE Goes("fetch") /\ todo' = Tail(todo) /\ found' = Append(found, Pair(Head(todo)))
  /\ UNCHANGED <<store, score, result>>

\* The digests of the sources are those of what was read; nothing is deleted.
StoreCompaction ==
  /\ Compacting("fetch") /\ todo = <<>>
  /\ IF Len(found) \notin 1..MaxSources
       THEN Goes("failed") /\ UNCHANGED <<store, result>>
       ELSE /\ Goes("done")
            /\ Write(Fresh, [name |-> "compaction", matched |-> 0, refs |-> Ids(found)])
            /\ result' = found
  /\ UNCHANGED <<todo, found, score>>

-----------------------------------------------------------------------------
\* The session ends, or a record does not open: _decode_row raises.
Interrupted ==
  /\ step \notin {"done", "failed"} /\ Goes("failed")
  /\ UNCHANGED <<store, todo, found, score, result>>

Next ==
  \/ SearchSqlite \/ SearchIndex \/ FetchHit \/ ExpandHit \/ SelectHits
  \/ Provenance
  \/ BeginCompaction \/ FetchSource \/ StoreCompaction
  \/ Interrupted
  \/ \E r \in Records : Put(r) \/ Delete(r)

Spec == Init /\ [][Next]_vars

-----------------------------------------------------------------------------
Returned(kind) == request.kind = kind /\ step = "done"

\* A search returns records as they were at some time while it ran, each once: none that
\* was gone before, whatever the index still holds, and no mixture of two versions.
HitsWereThere ==
  Returned("search") =>
    /\ ToSet(result) \subseteq seen
    /\ Cardinality(Ids(result)) = Len(result)
    /\ Len(result) <= request.limit

\* A search with room for all misses nothing: a record that matches, and that nobody
\* writes meanwhile, is among the results.
MatchesReturned ==
  Returned("search") /\ request.limit >= Cardinality(Records) =>
    \A r \in Records \ touched : row[r].matched > 0 => Pair(r) \in ToSet(result)

\* The records within n references of the root, in either direction.
Within[n \in Nat] ==
  IF n = 0 THEN {request.root}
  ELSE LET nearer == Within[n - 1] IN
       nearer \cup {x \in Active(row) : \E y \in nearer : y \in References(x) \/ x \in References(y)}

Distance(x) == Min({n \in 0..MaxDepth : x \in Within[n]})

\* A graph that is not truncated has every record within its depth, and a truncated one
\* the nearest of them, each at its true distance; it is truncated where the caller's
\* limit cuts it, and has no record twice.
NearestFirst(graph) ==
  LET reach == Within[Limit(request.depth, MaxDepth)]
  IN /\ Ids(graph.nodes) \subseteq reach
     /\ ~graph.truncated => Ids(graph.nodes) = reach
     /\ \A node \in ToSet(graph.nodes) :
          /\ node.depth = Distance(node.id)
          /\ \A x \in reach \ Ids(graph.nodes) : Distance(x) >= node.depth
     /\ Len(graph.nodes) = Cardinality(Ids(graph.nodes)) /\ Len(graph.nodes) <= NodeLimit
     /\ graph.truncated => Len(graph.nodes) = NodeLimit

\* Only a truncated graph has edges to records that it does not report.
EdgesReported(graph) ==
  \A e \in graph.edges :
    /\ e[2] \in References(e[1])
    /\ {e[1], e[2]} \cap Ids(graph.nodes) # {}
    /\ ~graph.truncated => {e[1], e[2]} \subseteq Ids(graph.nodes)

\* A provenance graph is what it says: the nearest records, and references between them.
GraphFaithful == Returned("provenance") => NearestFirst(result) /\ EdgesReported(result)

FirstPlace(ids, r) == Min({k \in DOMAIN ids : ids[k] = r})

\* A compaction names each of its sources once, in the order asked and as it was while the
\* compaction ran.
SourcesNamed ==
  Returned("compact") =>
    /\ ToSet(result) \subseteq seen
    /\ Ids(result) = ToSet(request.ids) /\ row[Fresh].refs = Ids(result)
    /\ \A i, j \in DOMAIN result : i < j =>
         FirstPlace(request.ids, result[i].id) < FirstPlace(request.ids, result[j].id)

\* At every moment of a compaction each record that was there when it began, its sources too,
\* is as it was, unless others have written it: a compaction "does not replace or delete
\* source records" (create_compaction_record), and no record is lost to it.
OthersKept == \A p \in seen : p.id \notin touched \cup {Fresh} => row[p.id] = p.content

\* A compaction that returns names its sources faithfully, and at no moment of any
\* compaction is a record lost to it.
CompactionFaithful == request.kind = "compact" => SourcesNamed /\ OthersKept
=============================================================================
