----------------------------- MODULE Deliberation -----------------------------
(***************************************************************************)
(* Requests that put questions to several models at once and merge what    *)
(* comes back: the scans of scanner.py and the debates of                  *)
(* advanced_research.py, round by round through ModelCouncil.deliberate    *)
(* of providers.py, and the DATAPULL of amccs.py, which deals its shards   *)
(* out to the models.  All start their tasks with asyncio.gather; these    *)
(* end in any order, each with an answer or a failure.  What a client      *)
(* says of its being configured may have changed each time it is asked:    *)
(* models are unloaded, and the vault is locked.                           *)
(***************************************************************************)
EXTENDS Council

CONSTANTS
  Clients,       \* MODEL_COUNCIL.clients in their order, as a sequence
  Provider,      \* the provider of each client
  Situations,    \* what the clients may be: "off", "stub" (a secret too short) or "ready"
  Requests,      \* see TypeOK
  Shards,        \* how many shards decompose() makes: 6 in the code
  Answers,       \* what models may answer
  Dimensions,    \* dimensionScores of the simulation: allowed vectors and scores, in their order
  ControlFor,    \* the control that the offline calibrator has for each surface
  Draw,          \* what the generator seeded with topic and shard yields for each shard
  Attributed     \* the shards that name a country: sim_forensics and attribution_sim

RemoteProviders == {"openai", "xai", "digitalocean", "gemini"}

Names == ToSet(Clients)
Remote(c) == Provider[c] \in RemoteProviders
Offline(c) == Provider[c] = "offline"

ASSUME DeliberationAssumption ==
  /\ Clients \in Seq(Names) /\ IsInjective(Clients)
  /\ \E c \in Names : Offline(c)
  /\ \A s \in Situations, c \in Names : Offline(c) => s[c] = "ready"
  /\ Shards \in Nat \ {0} /\ Attributed \subseteq 1..Shards
  /\ Draw \in [1..Shards -> [low : 0..One, high : 0..One, confidence : 0..One, country : STRING]]
  /\ \A a \in Answers : a \in Sayings
  /\ Dimensions \in Seq([surface : STRING, score : Int])
  /\ "never" \notin AllowedVectors

VARIABLES
  request,
  stage,     \* "idle", "asking", "done" or "failed"
  tasks,     \* the clients of the tasks under way, in the order of gather()'s arguments
  results,   \* of those that have ended
  finished,  \* in which order they ended
  rounds,    \* the rounds so far, of which a scan has one: the results of each
  previous,  \* previous_vectors: what each model last said
  changes    \* changedMindTrace

vars == <<request, stage, tasks, results, finished, rounds, previous, changes>>

Pending == [pending |-> TRUE]
Never == <<"never">>

TypeOK ==
  /\ request \in Requests
  /\ request.kind = "scan" => request.rounds = 1
  /\ request.kind = "debate" => request.rounds \in 1..3
  /\ request.kind = "datapull" => request.mode \in {"single", "multi"}
  /\ stage \in {"idle", "asking", "done", "failed"}
  /\ \A opinions \in ToSet(rounds) :
       /\ Disagreement(opinions) \in 0..One
       /\ Metrics(opinions) \in [quality : 0..One, contradiction : 0..One]
       /\ \A o \in ToSet(opinions) : EvidenceQuality(o) \in 0..One
  /\ stage = "done" /\ request.kind = "datapull" =>
       Fuse(results).disagreement \in 0..One /\ Fuse(results).confidence \in 0..One

Init ==
  /\ request \in Requests
  /\ stage = "idle"
  /\ tasks = <<>> /\ results = <<>> /\ finished = <<>>
  /\ rounds = <<>> /\ previous = [c \in Names |-> Never] /\ changes = <<>>

-----------------------------------------------------------------------------
\* deliberate(): the offline calibrator is always among them.
Selected(situation) ==
  Items(Clients, {k \in DOMAIN Clients :
                    /\ situation[Clients[k]] # "off"
                    /\ Remote(Clients[k]) => request.remote})

Preference(c) ==
  CASE Provider[c] \in {"xai", "openai"} -> 0
    [] Provider[c] = "local" -> 1
    [] Offline(c) -> 3
    [] OTHER -> 2

\* _configured_clients: by the request's policy; the offline lattice when nothing is left.
ConfiguredClients(situation) ==
  LET Able(c) == /\ request.provider \in {"auto", "all", Provider[c]}
                 /\ situation[c] = "ready"
                 /\ Remote(c) /\ request.provider = "auto" => request.remote
      Among(places) == Items(Clients, places)
      able == {k \in DOMAIN Clients : Able(Clients[k])}
      selected == IF able = {} THEN {k \in DOMAIN Clients : Offline(Clients[k])} ELSE able
      others == {k \in selected : ~Offline(Clients[k])}
      preferred == {k \in selected : \A l \in selected : Preference(Clients[k]) <= Preference(Clients[l])}
  IN IF request.mode = "single" THEN <<Among(preferred)[1]>>
     ELSE Among(IF others = {} THEN selected ELSE others)

Dealt(clients) == [i \in 1..Shards |-> clients[((i - 1) % Len(clients)) + 1]]

Start(clients) ==
  /\ stage = "idle" /\ stage' = "asking"
  /\ tasks' = clients
  /\ results' = [i \in DOMAIN clients |-> Pending]
  /\ finished' = <<>>
  /\ UNCHANGED <<request, rounds, previous, changes>>

Convene == request.kind # "datapull" /\ \E s \in Situations : Start(Selected(s))

Dispatch == request.kind = "datapull" /\ \E s \in Situations : Start(Dealt(ConfiguredClients(s)))

Ends(i, result) ==
  /\ results' = [results EXCEPT ![i] = result]
  /\ finished' = Append(finished, i)
  /\ UNCHANGED <<request, stage, tasks, rounds, previous, changes>>

Asked(i) == stage = "asking" /\ results[i] = Pending

Simulation == [dimensionScores |-> Dimensions]

\* _council_packet of a scan, and role_packet of a debate, which wraps the simulation.
Packet == IF request.kind = "scan" THEN [simulation |-> Simulation]
          ELSE [scenarioAndSimulation |-> [simulation |-> Simulation]]

\* OfflinePolicyClient.analyze: the four worst surfaces of packet["simulation"], and a
\* control for each.
Calibration(packet) ==
  LET dimensions == IF "simulation" \in DOMAIN packet THEN packet.simulation.dimensionScores ELSE <<>>
      ranked == Sorted(dimensions, LAMBDA a, b : a.score > b.score)
      vectors == [k \in DOMAIN Upto(ranked, 4) |-> ranked[k].surface]
      highest == IF ranked = <<>> THEN 0 ELSE ranked[1].score
      uncertainty == 72 - (45 * highest) \div One
  IN [Silence EXCEPT !.vectors = vectors, !.controls = [k \in DOMAIN vectors |-> ControlFor[vectors[k]]],
                     !.notes = 4, !.detail = 60,
                     !.uncertainty = IF uncertainty < 12 THEN 12 ELSE Least(85, uncertainty)]

\* _offline_shard: the range is of the endpoints compromised, in thousandths, and may
\* exceed One.
Lattice(i) ==
  LET topic == request.topic
      total == IF topic.healthcare THEN <<9800, 11500>> ELSE <<2500, 6000>>
      lowest == (total[1] * (340 + (60 * Draw[i].low) \div One)) \div One
      highest == (total[2] * (400 + (60 * Draw[i].high) \div One)) \div One
  IN [Silence EXCEPT !.controls = <<"mfa", "vendor review", "backups", "edr">>,
                     !.uncertainty = 100 - 42 - (28 * Draw[i].confidence) \div One,
                     !.country = IF i \in Attributed THEN Draw[i].country ELSE "",
                     !.entry = IF topic.vendor THEN "vendor" ELSE IF topic.healthcare THEN "vpn" ELSE "reuse",
                     !.range = <<(One * lowest) \div total[2], (One * highest) \div total[1]>>]

\* An opinion that has something else for a list is a failure; a shard result is not.
Answer(i) ==
  /\ Asked(i)
  /\ \E a \in IF ~Offline(tasks[i]) THEN Answers
              ELSE IF request.kind = "datapull" THEN {Lattice(i)} ELSE {Calibration(Packet)} :
       /\ request.kind # "datapull" => a.lists
       /\ Ends(i, Opinion(tasks[i], a))

\* A provider that raises or times out, an unloaded model, JSON that does not parse.
Fail(i) ==
  /\ Asked(i) /\ ~Offline(tasks[i])
  /\ Ends(i, Failure(tasks[i]))

\* Mutant: results in the order in which they came.
GatheredAsFinished == [k \in DOMAIN finished |-> results[finished[k]]]

\* gather() returns them in the order of its arguments.
Gathered == results

AllEnded == stage = "asking" /\ \A i \in DOMAIN tasks : results[i] # Pending

\* Mutant: what a model first said is what its later answers are compared with.
RememberFirst(opinions) ==
  previous' = [c \in Names |->
    IF previous[c] = Never /\ \E k \in DOMAIN opinions : opinions[k].client = c
      THEN opinions[CHOOSE k \in DOMAIN opinions : opinions[k].client = c].said.vectors
      ELSE previous[c]]

Remember(opinions) ==
  previous' = [c \in Names |->
    IF \E k \in DOMAIN opinions : opinions[k].client = c
      THEN opinions[CHOOSE k \in DOMAIN opinions : opinions[k].client = c].said.vectors
      ELSE previous[c]]

\* The council's consensus and metrics, and who has changed its mind: only models that
\* answered are looked at.
RoundDone ==
  /\ request.kind # "datapull" /\ AllEnded
  /\ LET ok == Successful(Gathered)
         turned == Items(ok, {k \in DOMAIN ok :
                               previous[ok[k].client] \notin {Never, ok[k].said.vectors}})
     IN /\ changes' = changes \o [k \in DOMAIN turned |->
              [client |-> turned[k].client, from |-> previous[turned[k].client],
               to |-> turned[k].said.vectors, round |-> Len(rounds) + 1]]
        /\ Remember(ok)
  /\ rounds' = Append(rounds, Gathered)
  /\ tasks' = <<>> /\ results' = <<>> /\ finished' = <<>>
  /\ stage' = IF Len(rounds') < request.rounds THEN "idle" ELSE "done"
  /\ UNCHANGED request

\* The response is Fuse(results); fuse raises on what is not a list and should be.
FuseShards ==
  /\ request.kind = "datapull" /\ AllEnded
  /\ stage' = IF \A i \in DOMAIN results : results[i].said.lists THEN "done" ELSE "failed"
  /\ results' = Gathered
  /\ UNCHANGED <<request, tasks, finished, rounds, previous, changes>>

Next ==
  \/ Convene \/ Dispatch
  \/ \E i \in DOMAIN tasks : Answer(i) \/ Fail(i)
  \/ RoundDone \/ FuseShards

Spec == Init /\ [][Next]_vars

-----------------------------------------------------------------------------
\* However the tasks end, a round has at most one opinion of a client, and they are in
\* the order of the clients: the votes, whose ties go to the first, do not depend on who
\* was fastest.
OpinionsKeepTheirModel ==
  \A opinions \in ToSet(rounds) : \A i, j \in DOMAIN opinions :
    LET Place(o) == CHOOSE k \in DOMAIN Clients : Clients[k] = o.client
    IN i < j => Place(opinions[i]) < Place(opinions[j])

\* A council's disagreement (providers.py) and the greatest contradiction in its audit
\* (role_council.py) are computed apart, each with its own choice of the opinions that
\* count and its own measure of two: an audit never shows less contradiction than the
\* disagreement leaves room for, whoever has failed.  Vectors are 55 of 100 parts.
AuditMatchesCouncil ==
  \A opinions \in ToSet(rounds) :
    55 * Consensus(opinions).disagreement < 100 * (Metrics(opinions).contradiction + 1)

\* The rounds that a model answered, what it said in them, and its part of the trace.
Spoken(c) == {n \in DOMAIN rounds : \E o \in ToSet(rounds[n]) : o.ok /\ o.client = c}
Vectors(c, n) == (CHOOSE o \in ToSet(rounds[n]) : o.ok /\ o.client = c).said.vectors
Turns(c) == {k \in DOMAIN changes : changes[k].client = c}

\* The trace of changed minds, read from the beginning, turns each model's first answer
\* into its last, one change after the other, over the rounds in which it failed; and
\* each change is told with what the model said in the round that it names.
TraceReplays ==
  \A c \in Names :
    IF Spoken(c) = {} THEN Turns(c) = {}
    ELSE LET first == Vectors(c, Min(Spoken(c)))
             last == Vectors(c, Max(Spoken(c)))
             Before(k) == {j \in Turns(c) : j < k}
         IN /\ Turns(c) = {} => first = last
            /\ Turns(c) # {} => changes[Max(Turns(c))].to = last
            /\ \A k \in Turns(c) :
                 LET x == changes[k] IN
                 /\ x.to # x.from
                 /\ x.from = IF Before(k) = {} THEN first ELSE changes[Max(Before(k))].to
                 /\ x.round \in Spoken(c) /\ x.to = Vectors(c, x.round)

\* The fused range holds every range that a shard gave, whichever way round it gave it,
\* and says nothing that no shard said.
RangeCovers ==
  stage = "done" /\ request.kind = "datapull" =>
    LET given == {results[i].said.range : i \in DOMAIN results} \ {<<>>}
        fused == Fuse(results).range
    IN /\ given = {} <=> fused = <<>>
       /\ \A r \in given : fused[1] <= Min(ToSet(r)) /\ Max(ToSet(r)) <= fused[2]
       /\ ToSet(fused) \subseteq UNION {ToSet(r) : r \in given}
=============================================================================
