----------------------------- MODULE CouncilProofs -----------------------------
(***************************************************************************)
(* Proofs about what several models are asked at once.  Deliberation: for  *)
(* any clients and answers, any number of rounds and shards, and any order *)
(* in which the tasks end.  RoleCouncil: for any debates, scans and        *)
(* clients, and any number of roles in a debate.                           *)
(***************************************************************************)
EXTENDS Deliberation, RoleCouncil, ScoresProofs, SequenceTheorems, TLAPS

-----------------------------------------------------------------------------
(* Deliberation *)

\* What the measures of an answer need of it.
IsMeasured(a) ==
  IsFiniteSet(ToSet(a.vectors)) /\ IsFiniteSet(ToSet(a.controls)) /\ a.uncertainty \in Int

\* What is known of an opinion or a shard result.
IsResult(r) ==
  /\ r.client \in Names /\ r.ok \in BOOLEAN
  /\ r.said.vectors \in Seq(AllowedVectors)
  /\ IsMeasured(r.said)
  /\ r.said.range \in Ranges
  /\ ~r.ok => r.said.range = <<>>

\* Where a client stands among the clients.
PlaceOf(c) == CHOOSE k \in DOMAIN Clients : Clients[k] = c

InClientsOrder(s) == \A i, j \in DOMAIN s : i < j => PlaceOf(s[i]) < PlaceOf(s[j])

\* What the client of a task may have given.
IsOutcome(r, c) == r = Pending \/ (IsResult(r) /\ r.client = c)

\* The tasks of a council have different clients, in their order; each result is of its
\* task's client.
TasksKnown ==
  /\ tasks \in Seq(Names) /\ IsSequence(results)
  /\ DOMAIN results = DOMAIN tasks
  /\ \A i \in DOMAIN tasks : IsOutcome(results[i], tasks[i])
  /\ request.kind # "datapull" => InClientsOrder(tasks)
  /\ request.kind = "datapull" => DOMAIN tasks \subseteq 1..Shards
  /\ stage = "done" => \A i \in DOMAIN results : results[i] # Pending

\* The opinions of a round are of different clients, in their order.
IsRound(s) ==
  /\ IsSequence(s)
  /\ \A i \in DOMAIN s : IsResult(s[i])
  /\ InClientsOrder([i \in DOMAIN s |-> s[i].client])

RoundsKnown == IsSequence(rounds) /\ \A n \in DOMAIN rounds : IsRound(rounds[n])

\* TraceReplays for one client, that answered in the rounds S, said v[n] in round n, and
\* has its part of the trace t at K.
Replays(S, v, K, t) ==
  IF S = {} THEN K = {}
  ELSE /\ K = {} => v[Min(S)] = v[Max(S)]
       /\ K # {} => t[Max(K)].to = v[Max(S)]
       /\ \A k \in K :
            /\ t[k].to # t[k].from
            /\ t[k].from = IF {j \in K : j < k} = {} THEN v[Min(S)] ELSE t[Max({j \in K : j < k})].to
            /\ t[k].round \in S /\ t[k].to = v[t[k].round]

\* What a client said, round by round.
Heard(c) == [n \in Nat |-> Vectors(c, n)]

TraceKnown ==
  /\ IsSequence(changes)
  /\ \A c \in Names : Replays(Spoken(c), Heard(c), Turns(c), changes)

\* previous_vectors has what each model last said.
PreviousKnown ==
  \A c \in Names :
    previous[c] = IF Spoken(c) = {} THEN Never ELSE Vectors(c, Max(Spoken(c)))

DeliberationIInv == TasksKnown /\ RoundsKnown /\ PreviousKnown /\ TraceKnown

-----------------------------------------------------------------------------
\* The clients are known and different.
LEMMA ClientsKnown ==
  Clients \in Seq(Names) /\ (\A k \in DOMAIN Clients : Clients[k] \in Names)
  /\ \A k, l \in DOMAIN Clients : Clients[k] = Clients[l] => k = l
<1>1. Clients \in Seq(Names) /\ IsInjective(Clients)
  BY DeliberationAssumption
<1> QED BY <1>1 DEF IsInjective

\* A client's place is where it is.
LEMMA PlaceIs ==
  ASSUME NEW k \in DOMAIN Clients
  PROVE  PlaceOf(Clients[k]) = k
BY ClientsKnown DEF PlaceOf

\* Clients at some of the places are in the clients' order.
LEMMA ChosenInOrder ==
  ASSUME NEW places \in SUBSET DOMAIN Clients
  PROVE  /\ Items(Clients, places) \in Seq(Names)
         /\ Len(Items(Clients, places)) = Cardinality(places)
         /\ InClientsOrder(Items(Clients, places))
         /\ places # {} => Items(Clients, places) # <<>>
<1>1. /\ Items(Clients, places) \in Seq(Names)
      /\ Len(Items(Clients, places)) = Cardinality(places)
      /\ \A k, l \in DOMAIN Items(Clients, places) : k < l =>
           \E i, j \in places : i < j /\ Items(Clients, places)[k] = Clients[i] /\ Items(Clients, places)[l] = Clients[j]
  BY ItemsProperties, ClientsKnown
<1>2. ToSet(Items(Clients, places)) = {Clients[i] : i \in places}
  <2>1. Clients \in Seq(Names)
    BY ClientsKnown
  <2> QED BY <2>1, ItemsProperties
<1>3. InClientsOrder(Items(Clients, places))
  BY <1>1, PlaceIs DEF InClientsOrder
<1>4. ASSUME places # {} PROVE Items(Clients, places) # <<>>
  <2>1. PICK i \in places : TRUE
    BY <1>4
  <2>2. Clients[i] \in ToSet(Items(Clients, places))
    BY <1>2
  <2> QED BY <2>2 DEF ToSet
<1> QED BY <1>1, <1>3, <1>4

\* A list has finitely many items.
LEMMA FinitelyMany ==
  ASSUME NEW T, NEW s \in Seq(T)
  PROVE  IsFiniteSet(ToSet(s))
<1>1. Len(s) \in Nat /\ DOMAIN s = 1..Len(s)
  OBVIOUS
<1>2. IsFiniteSet(DOMAIN s)
  BY <1>1, IntervalSize
<1> QED BY <1>2, ImageFinite DEF ToSet

\* A model's answer, as it is taken.
LEMMA OpinionIsResult ==
  ASSUME NEW c \in Names, NEW a, NEW T, a.vectors \in Seq(T), a.range \in Ranges,
         IsFiniteSet(ToSet(a.controls)), a.uncertainty \in Int, DOMAIN a = DOMAIN Silence
  PROVE  IsResult(Opinion(c, a)) /\ Opinion(c, a).client = c
<1> DEFINE v == a.vectors
           kept == {i \in DOMAIN v : v[i] \in AllowedVectors}
           o == Opinion(c, a)
<1>1. Items(v, kept) \in Seq(T) /\ ToSet(Items(v, kept)) = {v[i] : i \in kept}
  <2>1. v \in Seq(T) /\ kept \in SUBSET DOMAIN v
    OBVIOUS
  <2> HIDE DEF v, kept
  <2> QED BY <2>1, ItemsProperties
<1>2. Items(v, kept) \in Seq(AllowedVectors)
  <2>1. \A k \in DOMAIN Items(v, kept) : Items(v, kept)[k] \in AllowedVectors
    <3>1. \A x \in ToSet(Items(v, kept)) : x \in AllowedVectors
      BY <1>1
    <3> QED BY <3>1 DEF ToSet
  <2> HIDE DEF v, kept
  <2> QED BY <1>1, <2>1
<1>3. /\ o.client = c /\ o.ok = TRUE /\ o.said.vectors = Items(v, kept)
      /\ o.said.range = a.range /\ o.said.controls = a.controls
      /\ o.said.uncertainty = Clamp(a.uncertainty, 100)
  BY DEF Opinion, Silence
<1> HIDE DEF o
<1>4. IsMeasured(o.said)
  <2>1. IsFiniteSet(ToSet(o.said.vectors))
    BY <1>2, <1>3, FinitelyMany
  <2>2. Clamp(a.uncertainty, 100) \in Int
    BY DEF Clamp, Least
  <2> QED BY <1>3, <2>1, <2>2 DEF IsMeasured
<1>5. IsResult(o)
  BY <1>2, <1>3, <1>4 DEF IsResult
<1> QED BY <1>3, <1>5 DEF o

\* A model that failed.
LEMMA FailureIsResult ==
  ASSUME NEW c \in Names
  PROVE  IsResult(Failure(c)) /\ Failure(c).client = c
<1>1. <<>> \in Seq(AllowedVectors) /\ <<>> \in Ranges
  BY DEF Ranges
<1>2. /\ Failure(c).client = c /\ Failure(c).ok = FALSE
      /\ Failure(c).said.vectors = <<>> /\ Failure(c).said.range = <<>>
      /\ Failure(c).said.controls = <<>> /\ Failure(c).said.uncertainty = 100
  BY DEF Failure, Silence
<1>3. IsMeasured(Failure(c).said)
  <2> DEFINE e == <<>>
  <2>2. e \in Seq(Int)
    OBVIOUS
  <2>3. Failure(c).said.vectors = e /\ Failure(c).said.controls = e
    BY <1>2
  <2> HIDE DEF e
  <2>1. IsFiniteSet(ToSet(e))
    BY <2>2, FinitelyMany
  <2>4. 100 \in Int
    OBVIOUS
  <2> QED BY <1>2, <2>1, <2>3, <2>4 DEF IsMeasured
<1> QED BY <1>1, <1>2, <1>3 DEF IsResult

\* The first of the dimensions by their scores is one of them.
LEMMA RankedFirst ==
  ASSUME NEW d \in Seq([surface : STRING, score : Int]), d # <<>>,
         NEW t, t = [k \in DOMAIN d |-> d[CHOOSE i \in DOMAIN d :
                       Cardinality({j \in DOMAIN d : d[j].score > d[i].score
                                                     \/ (~(d[i].score > d[j].score) /\ j <= i)}) = k]]
  PROVE  \E i \in DOMAIN d : t[1] = d[i]
<1> DEFINE D == DOMAIN d
           key == [i \in D |-> d[i].score]
           before == [i \in D |-> {j \in D : d[j].score > d[i].score
                                               \/ (~(d[i].score > d[j].score) /\ j <= i)}]
<1>1. D = 1..Len(d) /\ Len(d) \in Nat /\ Len(d) # 0
  OBVIOUS
<1>12. \A i \in D : d[i].score \in Int
  <2> DEFINE R == [surface : STRING, score : Int]
  <2>3. \A x \in R : x.score \in Int
    OBVIOUS
  <2>2. d \in Seq(R)
    OBVIOUS
  <2> HIDE DEF R
  <2>1. \A i \in D : d[i] \in R
    BY <2>2
  <2> HIDE DEF D
  <2> QED BY <2>1, <2>3
<1>2. t = [k \in D |-> d[CHOOSE i \in D :
              Cardinality({j \in D : d[j].score > d[i].score
                                      \/ (~(d[i].score > d[j].score) /\ j <= i)}) = k]]
  OBVIOUS
<1>3. /\ before \in [D -> SUBSET D]
      /\ \A i \in D : key[i] = d[i].score
      /\ \A i \in D : before[i] = {j \in D : d[j].score > d[i].score
                                               \/ (~(d[i].score > d[j].score) /\ j <= i)}
  OBVIOUS
<1> HIDE DEF key, before, D
<1>4. ASSUME NEW k \in D, \E i \in D : Cardinality(before[i]) = k
      PROVE \E i \in D : Cardinality(before[i]) = k /\ t[k] = d[i]
  <2> DEFINE Sized(i) == Cardinality({j \in D : d[j].score > d[i].score
                                               \/ (~(d[i].score > d[j].score) /\ j <= i)}) = k
             p == CHOOSE i \in D : Sized(i)
  <2>1. t[k] = d[p]
    BY <1>2
  <2>2. \A i \in D : Sized(i) <=> Cardinality(before[i]) = k
    BY <1>3
  <2>3. \E i \in D : Sized(i)
    <3> HIDE DEF Sized
    <3> QED BY <1>4, <2>2
  <2>4. p \in D /\ Sized(p)
    <3> HIDE DEF Sized
    <3> QED BY <2>3
  <2> HIDE DEF p, Sized
  <2> QED BY <2>1, <2>2, <2>4
<1>5. t = [k \in D |-> t[k]]
  BY <1>2
<1>6. \A i \in D : key[i] \in Int
  BY <1>3, <1>12
<1>13. \A i, j \in D : j \in before[i] <=> key[j] > key[i] \/ (~(key[i] > key[j]) /\ j <= i)
  <2> TAKE i \in D, j \in D
  <2>1. key[i] = d[i].score /\ key[j] = d[j].score
    BY <1>3
  <2> QED BY <1>3, <2>1
<1>7. Sorts(t, d, key, before)
  BY <1>3, <1>4, <1>5, <1>6, <1>13 DEF Sorts, D
<1>8. Rearranges(t, d)
  BY <1>7, SortedProperties
<1>9. 1 \in DOMAIN d
  BY <1>1 DEF D
<1>10. PICK g \in [DOMAIN d -> DOMAIN d] : \A k \in DOMAIN d : t[k] = d[g[k]]
  BY <1>8 DEF Rearranges
<1>11. g[1] \in DOMAIN d /\ t[1] = d[g[1]]
  BY <1>9, <1>10
<1> QED BY <1>11

\* What the calibrator says, whatever it was handed.
LEMMA CalibrationSays ==
  ASSUME NEW packet, packet = Packet
  PROVE  /\ DOMAIN Calibration(packet) = DOMAIN Silence
         /\ Calibration(packet).range \in Ranges
         /\ \E T : Calibration(packet).vectors \in Seq(T)
         /\ IsFiniteSet(ToSet(Calibration(packet).controls))
         /\ Calibration(packet).uncertainty \in Int
<1> DEFINE d == IF "simulation" \in DOMAIN packet THEN packet.simulation.dimensionScores ELSE <<>>
           Ahead(a, b) == a.score > b.score
           ranked == Sorted(d, Ahead)
           v == Calibration(packet).vectors
<1>0. d \in {Dimensions, <<>>}
  <2>1. CASE request.kind = "scan"
    BY <2>1 DEF Packet, Simulation
  <2>2. CASE request.kind # "scan"
    BY <2>2 DEF Packet
  <2> QED BY <2>1, <2>2
<1> DEFINE c == Calibration(packet).controls
           highest == IF ranked = <<>> THEN 0 ELSE ranked[1].score
           u == 72 - (45 * highest) \div One
<1>2. DOMAIN Calibration(packet) = DOMAIN Silence /\ Calibration(packet).range = <<>>
  BY DEF Calibration, Silence
<1>8. c = [k \in DOMAIN v |-> ControlFor[v[k]]]
  BY DEF Calibration, Silence
<1>9. Calibration(packet).uncertainty = IF u < 12 THEN 12 ELSE Least(85, u)
  BY DEF Calibration, Silence
<1>3. v = [k \in DOMAIN Upto(ranked, 4) |-> ranked[k].surface]
  BY DEF Calibration, Silence
<1> HIDE DEF d
<1>1. Len(d) \in Nat /\ DOMAIN d = 1..Len(d)
  BY <1>0, DeliberationAssumption
<1>4. ranked = [k \in 1..Len(d) |-> ranked[k]]
  BY <1>1 DEF Sorted
<1>10. highest \in Int
  <2> DEFINE S == Seq([surface : STRING, score : Int])
  <2>4. <<>> \in S /\ Dimensions \in S
    BY DeliberationAssumption
  <2> HIDE DEF S
  <2>1. d \in S
    BY <1>0, <2>4
  <2>2. CASE d = <<>>
    <3>2. DOMAIN d = {}
      BY <2>2
    <3>3. DOMAIN ranked = {}
      BY <3>2 DEF Sorted
    <3> HIDE DEF ranked
    <3>1. ranked = <<>>
      BY <1>1, <1>4, <3>2, <3>3
    <3> QED BY <3>1
  <2>3. CASE d # <<>>
    <3>1. ranked = [k \in DOMAIN d |-> d[CHOOSE i \in DOMAIN d :
                      Cardinality({j \in DOMAIN d : d[j].score > d[i].score
                                                    \/ (~(d[i].score > d[j].score) /\ j <= i)}) = k]]
      BY DEF Sorted
    <3> HIDE DEF ranked
    <3>2. PICK i \in DOMAIN d : ranked[1] = d[i]
      BY <2>1, <2>3, <3>1, RankedFirst DEF S
    <3> DEFINE R == [surface : STRING, score : Int]
    <3>6. \A x \in R : x.score \in Int
      OBVIOUS
    <3>5. d \in Seq(R)
      BY <2>1 DEF S
    <3> HIDE DEF R
    <3>7. d[i] \in R
      BY <3>2, <3>5
    <3>3. d[i].score \in Int
      BY <3>6, <3>7
    <3>4. ranked # <<>>
      BY <1>1, <1>4, <2>3
    <3> QED BY <3>2, <3>3, <3>4
  <2> QED BY <2>2, <2>3
<1>5. \E n \in Nat : DOMAIN Upto(ranked, 4) = 1..n
  <2>1. ranked \in Seq(ToSet(ranked))
    BY <1>1, <1>4, SegmentIsSequence DEF IsSequence
  <2> HIDE DEF ranked
  <2> QED BY <2>1, UptoProperties
<1> HIDE DEF v
<1>6. \E n \in Nat : v = [k \in 1..n |-> v[k]]
  BY <1>3, <1>5
<1>7. v \in Seq(ToSet(v))
  BY <1>6, SegmentIsSequence DEF IsSequence
<1>11. IsFiniteSet(ToSet(c))
  <2>1. PICK n \in Nat : c = [k \in 1..n |-> ControlFor[v[k]]]
    BY <1>6, <1>8
  <2>2. c = [k \in 1..n |-> c[k]]
    BY <2>1
  <2>3. c \in Seq(ToSet(c))
    BY <2>2, SegmentIsSequence DEF IsSequence
  <2> HIDE DEF c
  <2> QED BY <2>3, FinitelyMany
<1>12. Calibration(packet).uncertainty \in Int
  <2> HIDE DEF highest
  <2>1. u \in Int
    BY <1>10 DEF One
  <2> HIDE DEF u
  <2> QED BY <1>9, <2>1 DEF Least
<1> QED BY <1>2, <1>7, <1>11, <1>12 DEF Ranges, v

\* What the offline lattice says.
LEMMA LatticeSays ==
  ASSUME NEW i \in 1..Shards
  PROVE  /\ DOMAIN Lattice(i) = DOMAIN Silence
         /\ Lattice(i).range \in Ranges
         /\ \E T : Lattice(i).vectors \in Seq(T)
         /\ IsFiniteSet(ToSet(Lattice(i).controls))
         /\ Lattice(i).uncertainty \in Int
<1> DEFINE low == 340 + (60 * Draw[i].low) \div One
           high == 400 + (60 * Draw[i].high) \div One
           healthy == request.topic.healthcare
           total == IF healthy THEN <<9800, 11500>> ELSE <<2500, 6000>>
           lowest == (total[1] * low) \div One
           highest == (total[2] * high) \div One
<1> DEFINE x == Draw[i].low
           y == Draw[i].high
<1>1. x \in Int /\ y \in Int
  <2>1. Draw \in [1..Shards -> [low : 0..One, high : 0..One, confidence : 0..One, country : STRING]]
    BY DeliberationAssumption
  <2>2. Draw[i] \in [low : 0..One, high : 0..One, confidence : 0..One, country : STRING]
    BY <2>1
  <2>3. x \in 0..One /\ y \in 0..One
    BY <2>2
  <2> HIDE DEF x, y
  <2>4. One \in Int
    BY DEF One
  <2> QED BY <2>3, <2>4
<1>2. low \in Int /\ high \in Int
  <2> HIDE DEF x, y
  <2>1. 340 + (60 * x) \div 1000 \in Int /\ 400 + (60 * y) \div 1000 \in Int
    BY <1>1
  <2> QED BY <2>1 DEF One, x, y
<1> HIDE DEF low, high
<1>3. /\ total[1] \in {9800, 2500} /\ total[2] \in {11500, 6000}
  OBVIOUS
<1> HIDE DEF total
<1>4. lowest \in Int /\ highest \in Int
  BY <1>2, <1>3 DEF One
<1> HIDE DEF lowest, highest
<1>5. (One * lowest) \div total[2] \in Int /\ (One * highest) \div total[1] \in Int
  BY <1>3, <1>4 DEF One
<1>6. /\ DOMAIN Lattice(i) = DOMAIN Silence
      /\ Lattice(i).vectors = <<>>
      /\ Lattice(i).range = <<(One * lowest) \div total[2], (One * highest) \div total[1]>>
  BY DEF Lattice, Silence, lowest, highest, total, low, high
<1>7. <<>> \in Seq({})
  OBVIOUS
<1>8. IsFiniteSet(ToSet(Lattice(i).controls))
  <2> DEFINE t == Lattice(i).controls
  <2>1. DOMAIN t = 1..4
    BY DEF Lattice, Silence
  <2> HIDE DEF t
  <2>2. IsFiniteSet(1..4)
    BY IntervalSize
  <2>3. IsFiniteSet({t[k] : k \in 1..4})
    BY <2>2, ImageFinite
  <2>4. ToSet(t) = {t[k] : k \in 1..4}
    BY <2>1 DEF ToSet
  <2> QED BY <2>3, <2>4 DEF t
<1>9. Lattice(i).uncertainty \in Int
  <2> DEFINE w == Draw[i].confidence
  <2>1. w \in 0..One
    <3>1. Draw \in [1..Shards -> [low : 0..One, high : 0..One, confidence : 0..One, country : STRING]]
      BY DeliberationAssumption
    <3>2. Draw[i] \in [low : 0..One, high : 0..One, confidence : 0..One, country : STRING]
      BY <3>1
    <3> QED BY <3>2
  <2>2. Lattice(i).uncertainty = 100 - 42 - (28 * w) \div One
    BY DEF Lattice, Silence
  <2> HIDE DEF w
  <2> QED BY <2>1, <2>2 DEF One
<1> QED BY <1>5, <1>6, <1>7, <1>8, <1>9 DEF Ranges

\* Each outcome of a task is its client's.
LEMMA EndsKeeps ==
  ASSUME TasksKnown, NEW i \in DOMAIN tasks, NEW r, IsOutcome(r, tasks[i]), r # Pending,
         Asked(i), Ends(i, r)
  PROVE  TasksKnown'
<1>1. /\ IsSequence(results) /\ DOMAIN results = DOMAIN tasks
      /\ tasks' = tasks /\ stage' = stage /\ request' = request
      /\ results' = [results EXCEPT ![i] = r]
  BY DEF TasksKnown, Ends
<1>2. /\ DOMAIN results' = DOMAIN tasks
      /\ \A j \in DOMAIN tasks : results'[j] = IF j = i THEN r ELSE results[j]
  BY <1>1
<1>3. IsSequence(results')
  <2>1. Len(results) \in Nat /\ DOMAIN results = 1..Len(results)
    BY <1>1 DEF IsSequence
  <2>2. results' = [k \in 1..Len(results) |-> results'[k]]
    BY <1>1, <2>1
  <2> QED BY <2>1, <2>2, SegmentIsSequence
<1>4. \A j \in DOMAIN tasks : IsOutcome(results'[j], tasks[j])
  BY <1>2 DEF TasksKnown
<1>5. stage # "done"
  BY DEF Asked
<1>6. TasksKnown'
  <2>1. tasks' \in Seq(Names)
    BY <1>1 DEF TasksKnown
  <2>2. DOMAIN results' = DOMAIN tasks'
    BY <1>1, <1>2
  <2>3. \A j \in DOMAIN tasks' : IsOutcome(results'[j], tasks'[j])
    BY <1>1, <1>4
  <2>4. request'.kind # "datapull" => InClientsOrder(tasks')
    BY <1>1 DEF TasksKnown
  <2>7. request'.kind = "datapull" => DOMAIN tasks' \subseteq 1..Shards
    BY <1>1 DEF TasksKnown
  <2>5. stage' # "done"
    BY <1>1, <1>5
  <2>6. IsSequence(results)'
    BY <1>3 DEF IsSequence, ToSet
  <2> QED BY <2>1, <2>2, <2>3, <2>4, <2>5, <2>6, <2>7 DEF TasksKnown, IsOutcome, IsResult, IsMeasured, InClientsOrder, PlaceOf, Pending, Names, Ranges
<1> QED BY <1>6

\* A start hands out its tasks; nothing has come back.
LEMMA StartKeeps ==
  ASSUME NEW clients \in Seq(Names), request.kind # "datapull" => InClientsOrder(clients),
         request.kind = "datapull" => DOMAIN clients \subseteq 1..Shards, Start(clients)
  PROVE  TasksKnown'
<1>1. Len(clients) \in Nat /\ DOMAIN clients = 1..Len(clients)
  OBVIOUS
<1>2. /\ tasks' = clients /\ stage' = "asking" /\ request' = request
      /\ results' = [i \in 1..Len(clients) |-> Pending]
  BY <1>1 DEF Start
<1>3. IsSequence(results') /\ DOMAIN results' = DOMAIN tasks'
  BY <1>1, <1>2, SegmentIsSequence
<1>4. \A i \in DOMAIN tasks' : IsOutcome(results'[i], tasks'[i])
  BY <1>1, <1>2 DEF IsOutcome
<1>5. stage' # "done"
  BY <1>2
<1> QED BY <1>2, <1>3, <1>4, <1>5 DEF TasksKnown, InClientsOrder, PlaceOf, IsSequence, ToSet, IsOutcome, IsResult, IsMeasured, Pending, Names, Ranges

\* The clients of a debate are chosen in their order.
LEMMA ConveneKeeps ==
  ASSUME Convene
  PROVE  TasksKnown'
<1>1. PICK s \in Situations : Start(Selected(s))
  BY DEF Convene
<1>2. Selected(s) \in Seq(Names) /\ InClientsOrder(Selected(s))
  BY ChosenInOrder DEF Selected
<1>3. request.kind # "datapull"
  BY DEF Convene
<1> HIDE DEF Selected
<1> QED BY <1>1, <1>2, <1>3, StartKeeps

\* There is always a client for the shards, if only the offline one.
LEMMA SomebodyConfigured ==
  ASSUME NEW situation
  PROVE  ConfiguredClients(situation) \in Seq(Names) /\ ConfiguredClients(situation) # <<>>
<1> DEFINE Able(c) == /\ request.provider \in {"auto", "all", Provider[c]}
                      /\ situation[c] = "ready"
                      /\ Remote(c) /\ request.provider = "auto" => request.remote
           able == {k \in DOMAIN Clients : Able(Clients[k])}
           selected == IF able = {} THEN {k \in DOMAIN Clients : Offline(Clients[k])} ELSE able
           others == {k \in selected : ~Offline(Clients[k])}
           preferred == {k \in selected : \A l \in selected : Preference(Clients[k]) <= Preference(Clients[l])}
<1>1. selected \subseteq DOMAIN Clients /\ selected # {}
  <2>1. PICK c \in Names : Offline(c)
    BY DeliberationAssumption
  <2>2. PICK k \in DOMAIN Clients : Clients[k] = c
    BY <2>1 DEF Names, ToSet
  <2>3. k \in {l \in DOMAIN Clients : Offline(Clients[l])}
    BY <2>1, <2>2
  <2> HIDE DEF Able
  <2> QED BY <2>3
<1>2. /\ others \subseteq DOMAIN Clients /\ preferred \subseteq DOMAIN Clients
      /\ (IF others = {} THEN selected ELSE others) \subseteq DOMAIN Clients
      /\ (IF others = {} THEN selected ELSE others) # {}
  <2> HIDE DEF selected
  <2> QED BY <1>1
<1>3. preferred # {}
  <2> DEFINE v == [k \in selected |-> -Preference(Clients[k])]
  <2>1. \A c : Preference(c) \in Int
    BY DEF Preference
  <2>2. IsFiniteSet(selected)
    <3>1. IsFiniteSet(DOMAIN Clients)
      <4>1. Len(Clients) \in Nat /\ DOMAIN Clients = 1..Len(Clients)
        BY ClientsKnown
      <4> QED BY <4>1, IntervalSize
    <3> HIDE DEF selected
    <3> QED BY <1>1, <3>1, FS_Subset
  <2> HIDE DEF selected
  <2>3. \A k \in selected : v[k] = -Preference(Clients[k]) /\ v[k] \in Int
    BY <2>1
  <2> HIDE DEF v
  <2>4. PICK m \in selected : \A k \in selected : v[k] <= v[m]
    BY <1>1, <2>2, <2>3, GreatestOfSet
  <2>5. \A k \in selected : Preference(Clients[m]) <= Preference(Clients[k])
    BY <2>1, <2>3, <2>4
  <2> QED BY <2>5
<1>4. ConfiguredClients(situation) =
        IF request.mode = "single" THEN <<Items(Clients, preferred)[1]>>
        ELSE Items(Clients, IF others = {} THEN selected ELSE others)
  BY Zenon DEF ConfiguredClients
<1> HIDE DEF selected, others, preferred
<1>5. CASE request.mode = "single"
  <2> DEFINE chosen == Items(Clients, preferred)
  <2>1. chosen \in Seq(Names) /\ chosen # <<>>
    BY <1>2, <1>3, ChosenInOrder
  <2> HIDE DEF chosen
  <2>2. chosen[1] \in Names
    BY <2>1
  <2> QED BY <1>4, <1>5, <2>2 DEF chosen
<1>6. CASE request.mode # "single"
  BY <1>2, <1>4, <1>6, ChosenInOrder
<1> QED BY <1>5, <1>6

\* The shards are dealt out among the configured clients.
LEMMA DispatchKeeps ==
  ASSUME Dispatch
  PROVE  TasksKnown'
<1>1. PICK s \in Situations : Start(Dealt(ConfiguredClients(s)))
  BY DEF Dispatch
<1> DEFINE clients == ConfiguredClients(s)
           n == Len(clients)
<1>2. clients \in Seq(Names) /\ clients # <<>>
  BY SomebodyConfigured
<1> HIDE DEF clients
<1>3. n \in Nat \ {0} /\ \A k \in 1..n : clients[k] \in Names
  BY <1>2
<1>4. Shards \in Nat
  BY DeliberationAssumption
<1>5. \A i \in 1..Shards : ((i - 1) % n) + 1 \in 1..n
  <2> HIDE DEF n
  <2> QED BY <1>3, <1>4
<1>6. Dealt(clients) \in [1..Shards -> Names]
  BY <1>3, <1>5 DEF Dealt
<1>7. Dealt(clients) \in Seq(Names) /\ DOMAIN Dealt(clients) = 1..Shards
  BY <1>4, <1>6
<1>8. request.kind = "datapull"
  BY DEF Dispatch
<1> QED BY <1>1, <1>7, <1>8, StartKeeps DEF clients

\* A model answers, or the calibrator, or the lattice.
LEMMA AnswerKeeps ==
  ASSUME TasksKnown, NEW i \in DOMAIN tasks, Answer(i)
  PROVE  TasksKnown'
<1>1. PICK a \in IF ~Offline(tasks[i]) THEN Answers
                 ELSE IF request.kind = "datapull" THEN {Lattice(i)} ELSE {Calibration(Packet)} :
        Ends(i, Opinion(tasks[i], a))
  BY DEF Answer
<1>2. /\ DOMAIN a = DOMAIN Silence /\ a.range \in Ranges
      /\ \E T : a.vectors \in Seq(T)
      /\ IsFiniteSet(ToSet(a.controls)) /\ a.uncertainty \in Int
  <2>1. CASE a \in Answers
    <3>1. a \in Sayings
      BY <2>1, DeliberationAssumption
    <3>2. /\ DOMAIN a = DOMAIN Silence /\ a.range \in Ranges /\ a.uncertainty \in Int
          /\ a.vectors \in Seq(STRING) /\ a.controls \in Seq(STRING)
      BY <3>1 DEF Sayings, Silence
    <3> QED BY <3>2, FinitelyMany
  <2>2. CASE a = Calibration(Packet)
    BY <2>2, CalibrationSays
  <2>3. CASE a = Lattice(i) /\ request.kind = "datapull"
    <3>1. i \in 1..Shards
      BY <2>3 DEF TasksKnown
    <3> QED BY <2>3, <3>1, LatticeSays
  <2> QED BY <1>1, <2>1, <2>2, <2>3
<1>3. tasks[i] \in Names
  BY DEF TasksKnown
<1>4. IsResult(Opinion(tasks[i], a)) /\ Opinion(tasks[i], a).client = tasks[i]
  BY <1>2, <1>3, OpinionIsResult
<1>5. Opinion(tasks[i], a) # Pending
  BY DEF Opinion, Pending
<1>6. Asked(i)
  BY DEF Answer
<1> QED BY <1>1, <1>4, <1>5, <1>6, EndsKeeps DEF IsOutcome

\* A model fails.
LEMMA FailKeeps ==
  ASSUME TasksKnown, NEW i \in DOMAIN tasks, Fail(i)
  PROVE  TasksKnown'
<1>1. tasks[i] \in Names
  BY DEF TasksKnown
<1>2. IsOutcome(Failure(tasks[i]), tasks[i])
  BY <1>1, FailureIsResult DEF IsOutcome
<1>3. Failure(tasks[i]) # Pending
  BY DEF Failure, Pending
<1> QED BY <1>2, <1>3, EndsKeeps DEF Fail

\* What a debate hands to its council is one round; its trace comes later.
LEMMA EndedIsRound ==
  ASSUME TasksKnown, AllEnded, request.kind # "datapull"
  PROVE  IsRound(results)
<1>1. \A i \in DOMAIN results : IsResult(results[i]) /\ results[i].client = tasks[i]
  BY DEF TasksKnown, AllEnded, IsOutcome
<1>2. IsSequence(results) /\ DOMAIN results = DOMAIN tasks /\ InClientsOrder(tasks)
  BY DEF TasksKnown
<1>3. InClientsOrder([i \in DOMAIN results |-> results[i].client])
  BY <1>1, <1>2 DEF InClientsOrder
<1> QED BY <1>1, <1>2, <1>3 DEF IsRound

\* A round that ends is kept with those before it.
LEMMA RoundDoneKeeps ==
  ASSUME TasksKnown, RoundsKnown, RoundDone
  PROVE  /\ TasksKnown' /\ RoundsKnown'
         /\ rounds' = Append(rounds, results) /\ IsRound(results)
<1>1. /\ rounds' = Append(rounds, results) /\ tasks' = <<>> /\ results' = <<>>
      /\ request' = request /\ request.kind # "datapull" /\ AllEnded
  BY DEF RoundDone, Gathered
<1>2. IsRound(results)
  BY <1>1, EndedIsRound
<1>3. TasksKnown'
  <2>1. /\ <<>> \in Seq(Names) /\ <<>> \in Seq(ToSet(<<>>)) /\ DOMAIN <<>> = {}
    BY SegmentIsSequence
  <2>2. InClientsOrder(<<>>)
    BY <2>1 DEF InClientsOrder
  <2> QED BY <1>1, <2>1, <2>2 DEF TasksKnown, InClientsOrder, IsSequence, IsOutcome
<1>4. IsSequence(rounds) /\ \A n \in DOMAIN rounds : IsRound(rounds[n])
  BY DEF RoundsKnown
<1>5. /\ IsSequence(rounds') /\ Len(rounds) \in Nat /\ DOMAIN rounds = 1..Len(rounds)
      /\ DOMAIN rounds' = 1..(Len(rounds) + 1) /\ rounds'[Len(rounds) + 1] = results
      /\ \A k \in 1..Len(rounds) : rounds'[k] = rounds[k]
  BY <1>1, <1>4, OneMore
<1>6. ASSUME NEW n \in DOMAIN rounds' PROVE IsRound(rounds'[n])
  <2>1. CASE n = Len(rounds) + 1
    BY <1>2, <1>5, <2>1
  <2>2. CASE n \in 1..Len(rounds)
    BY <1>4, <1>5, <2>2
  <2> QED BY <1>5, <1>6, <2>1, <2>2
<1>7. RoundsKnown'
  BY <1>5, <1>6 DEF RoundsKnown, IsRound, IsSequence, ToSet, IsResult, IsMeasured, InClientsOrder, PlaceOf, Names, Ranges
<1> QED BY <1>1, <1>2, <1>3, <1>7

\* The answers of a round: those of its results that are in order, each of one client.
LEMMA SuccessfulOfRound ==
  ASSUME NEW s, IsRound(s)
  PROVE  /\ IsSequence(Successful(s))
         /\ ToSet(Successful(s)) = {o \in ToSet(s) : o.ok}
         /\ \A k \in DOMAIN Successful(s) :
              Successful(s)[k] \in ToSet(s) /\ Successful(s)[k].ok /\ IsResult(Successful(s)[k])
         /\ \A k, l \in DOMAIN Successful(s) :
              Successful(s)[k].client = Successful(s)[l].client => k = l
         /\ Successful(Successful(s)) = Successful(s)
<1> DEFINE T == ToSet(s)
           places == {i \in DOMAIN s : s[i].ok}
           ok == Items(s, places)
<1>1. /\ s \in Seq(T) /\ places \in SUBSET DOMAIN s /\ Successful(s) = ok
      /\ T = {s[i] : i \in DOMAIN s} /\ Len(s) \in Nat /\ DOMAIN s = 1..Len(s)
  BY DEF IsRound, IsSequence, Successful, ToSet
<1>2. \A i \in DOMAIN s : IsResult(s[i])
  BY DEF IsRound
<1>3. \A i, j \in DOMAIN s : i < j => PlaceOf(s[i].client) < PlaceOf(s[j].client)
  BY DEF IsRound, InClientsOrder
<1>4. \A i \in DOMAIN s : PlaceOf(s[i].client) \in Nat
  <2>1. \A i \in DOMAIN s : s[i].client \in Names
    BY <1>2 DEF IsResult
  <2>2. \A c \in Names : PlaceOf(c) \in Nat
    BY PlaceIs, ClientsKnown DEF Names, ToSet
  <2> QED BY <2>1, <2>2
<1>5. /\ ok \in Seq(T)
      /\ ToSet(ok) = {s[i] : i \in places}
      /\ \A k, l \in DOMAIN ok : k < l => \E i, j \in places : i < j /\ ok[k] = s[i] /\ ok[l] = s[j]
  <2> HIDE DEF T, places
  <2> QED BY <1>1, ItemsProperties
<1>6. /\ Len(ok) \in Nat /\ DOMAIN ok = 1..Len(ok) /\ ok = [k \in 1..Len(ok) |-> ok[k]]
  <2> HIDE DEF T, ok
  <2> QED BY <1>5
<1> HIDE DEF ok
<1>7. IsSequence(ok)
  BY <1>6, SegmentIsSequence
<1>8. \A k \in DOMAIN ok : \E i \in places : ok[k] = s[i]
  <2>1. \A k \in DOMAIN ok : ok[k] \in ToSet(ok)
    BY DEF ToSet
  <2> QED BY <1>5, <2>1
<1>9. \A k, l \in DOMAIN ok : k < l => ok[k].client # ok[l].client
  <2> HIDE DEF places
  <2> QED BY <1>1, <1>3, <1>4, <1>5
<1>10. \A k, l \in DOMAIN ok : ok[k].client = ok[l].client => k = l
  BY <1>6, <1>9
<1>11. \A k \in DOMAIN ok : ok[k] \in T /\ ok[k].ok /\ IsResult(ok[k])
  BY <1>1, <1>2, <1>8
<1>12. Successful(ok) = ok
  <2>1. {k \in DOMAIN ok : ok[k].ok} = DOMAIN ok
    BY <1>11
  <2>2. Items(ok, DOMAIN ok) = ok
    <3> HIDE DEF T
    <3> QED BY <1>5, AllItems
  <2> QED BY <2>1, <2>2 DEF Successful
<1>13. {s[i] : i \in places} = {o \in T : o.ok}
  BY <1>1
<1> QED BY <1>1, <1>5, <1>7, <1>10, <1>11, <1>12, <1>13

\* What is at some places of a longer trace replays as before.
LEMMA ReplaysStill ==
  ASSUME NEW N \in Nat, NEW M \in Nat, NEW S \in SUBSET (1..N), NEW K \in SUBSET (1..M),
         NEW v, NEW t, Replays(S, v, K, t),
         NEW w, \A n \in S : w[n] = v[n], NEW u, \A k \in K : u[k] = t[k]
  PROVE  Replays(S, w, K, u)
<1>1. CASE S = {}
  BY <1>1 DEF Replays
<1>2. CASE S # {}
  <2>1. IsFiniteSet(S) /\ IsFiniteSet(K) /\ (\A i \in S : i \in Int) /\ \A i \in K : i \in Int
    BY SomeOfFirst
  <2>2. Min(S) \in S /\ Max(S) \in S
    BY <1>2, <2>1, MaxOfFinite, MinOfFinite
  <2>3. K # {} => Max(K) \in K
    BY <2>1, MaxOfFinite
  <2>4. \A k \in K : {j \in K : j < k} # {} => Max({j \in K : j < k}) \in K
    <3> SUFFICES ASSUME NEW k \in K, {j \in K : j < k} # {} PROVE Max({j \in K : j < k}) \in K
      OBVIOUS
    <3> DEFINE B == {j \in K : j < k}
    <3>1. B \subseteq K /\ B # {}
      OBVIOUS
    <3> HIDE DEF B
    <3>2. Max(B) \in B
      BY <2>1, <3>1, FS_Subset, MaxOfFinite
    <3> QED BY <3>1, <3>2 DEF B
  <2> DEFINE Before(k) == {j \in K : j < k}
  <2> HIDE DEF Before
  <2>5. \A k \in K : Before(k) # {} => Max(Before(k)) \in K
    BY <2>4 DEF Before
  <2>6. /\ K = {} => v[Min(S)] = v[Max(S)]
        /\ K # {} => t[Max(K)].to = v[Max(S)]
        /\ \A k \in K :
            /\ t[k].to # t[k].from
            /\ t[k].from = IF Before(k) = {} THEN v[Min(S)] ELSE t[Max(Before(k))].to
            /\ t[k].round \in S /\ t[k].to = v[t[k].round]
    BY <1>2 DEF Replays, Before
  <2>7. /\ K = {} => w[Min(S)] = w[Max(S)]
        /\ K # {} => u[Max(K)].to = w[Max(S)]
        /\ \A k \in K :
            /\ u[k].to # u[k].from
            /\ u[k].from = IF Before(k) = {} THEN w[Min(S)] ELSE u[Max(Before(k))].to
            /\ u[k].round \in S /\ u[k].to = w[u[k].round]
    <3>1. K = {} => w[Min(S)] = w[Max(S)]
      BY <2>2, <2>6
    <3>2. K # {} => u[Max(K)].to = w[Max(S)]
      BY <2>2, <2>3, <2>6
    <3>3. ASSUME NEW k \in K
          PROVE  /\ u[k].to # u[k].from
                 /\ u[k].from = IF Before(k) = {} THEN w[Min(S)] ELSE u[Max(Before(k))].to
                 /\ u[k].round \in S /\ u[k].to = w[u[k].round]
      <4>1. u[k] = t[k]
        OBVIOUS
      <4>2. w[t[k].round] = v[t[k].round]
        BY <2>6
      <4>3. Before(k) # {} => u[Max(Before(k))] = t[Max(Before(k))]
        BY <2>5
      <4>4. w[Min(S)] = v[Min(S)]
        BY <2>2
      <4> QED BY <2>6, <4>1, <4>2, <4>3, <4>4, Zenon
    <3> QED BY <3>1, <3>2, <3>3
  <2> QED BY <1>2, <2>7 DEF Replays, Before
<1> QED BY <1>1, <1>2

\* A client answers one more round and says what it said before, or it has not spoken.
LEMMA ReplaysAgain ==
  ASSUME NEW N \in Nat, NEW M \in Nat, NEW S \in SUBSET (1..N), NEW K \in SUBSET (1..M),
         NEW v, NEW t, Replays(S, v, K, t), S # {} => v[N + 1] = v[Max(S)]
  PROVE  Replays(S \cup {N + 1}, v, K, t)
<1> DEFINE R == S \cup {N + 1}
<1>0. R # {} /\ \A i \in R : i \in Int /\ i <= N + 1
  OBVIOUS
<1>1. Max(R) = N + 1
  <2>1. N + 1 \in R
    OBVIOUS
  <2> HIDE DEF R
  <2> QED BY <1>0, <2>1, MaxIs
<1>2. CASE S = {}
  <2>1. Min(R) = N + 1
    <3>1. N + 1 \in R /\ \A i \in R : N + 1 <= i
      BY <1>2
    <3> HIDE DEF R
    <3> QED BY <1>0, <3>1, MinIs
  <2>2. K = {}
    BY <1>2 DEF Replays
  <2> QED BY <1>0, <1>1, <2>1, <2>2 DEF Replays
<1>3. CASE S # {}
  <2>1. IsFiniteSet(S) /\ (\A i \in S : i \in Int)
    BY SomeOfFirst
  <2>2. Min(S) \in S /\ \A i \in S : Min(S) <= i
    BY <1>3, <2>1, MinOfFinite
  <2>3. Min(R) = Min(S)
    <3> DEFINE m == Min(S)
    <3>4. m \in S /\ \A i \in S : m <= i
      BY <2>2
    <3> HIDE DEF m
    <3>2. m \in S /\ m \in Int /\ m <= N + 1 /\ \A i \in S : m <= i
      BY <3>4
    <3>3. m \in R /\ \A i \in R : m <= i
      BY <3>2
    <3>1. Min(S) \in R /\ \A i \in R : Min(S) <= i
      BY <3>3 DEF m
    <3> HIDE DEF R
    <3> QED BY <1>0, <3>1, MinIs
  <2> HIDE DEF R
  <2>4. /\ K = {} => v[Min(S)] = v[Max(S)]
        /\ K # {} => t[Max(K)].to = v[Max(S)]
        /\ \A k \in K :
            /\ t[k].to # t[k].from
            /\ t[k].from = IF {j \in K : j < k} = {} THEN v[Min(S)] ELSE t[Max({j \in K : j < k})].to
            /\ t[k].round \in S /\ t[k].to = v[t[k].round]
    BY <1>3, Zenon DEF Replays
  <2>5. ASSUME NEW k \in K
        PROVE  /\ t[k].to # t[k].from
               /\ t[k].from = IF {j \in K : j < k} = {} THEN v[Min(R)] ELSE t[Max({j \in K : j < k})].to
               /\ t[k].round \in R /\ t[k].to = v[t[k].round]
    <3>1. t[k].round \in R
      BY <2>4 DEF R
    <3> QED BY <2>3, <2>4, <3>1, Zenon
  <2>6. v[Max(R)] = v[Max(S)]
    BY <1>1, <1>3
  <2>7. /\ K = {} => v[Min(R)] = v[Max(R)]
        /\ K # {} => t[Max(K)].to = v[Max(R)]
    BY <2>3, <2>4, <2>6, Zenon
  <2>8. Replays(R, v, K, t)
    BY <1>0, <2>5, <2>7, Zenon DEF Replays
  <2> QED BY <2>8 DEF R
<1> QED BY <1>2, <1>3

\* A client changes its mind.
LEMMA ReplaysTurned ==
  ASSUME NEW N \in Nat, NEW M \in Nat, NEW S \in SUBSET (1..N), NEW K \in SUBSET (1..M),
         NEW v, NEW t, Replays(S, v, K, t), S # {},
         NEW p \in Nat, p > M, v[N + 1] # v[Max(S)],
         t[p].from = v[Max(S)], t[p].to = v[N + 1], t[p].round = N + 1
  PROVE  Replays(S \cup {N + 1}, v, K \cup {p}, t)
<1> DEFINE R == S \cup {N + 1}
           L == K \cup {p}
<1>1. /\ R # {} /\ L # {} /\ N + 1 \in R /\ p \in L
      /\ \A i \in R : i \in Int /\ i <= N + 1
      /\ \A k \in L : k \in Int /\ k <= p
      /\ \A k \in L : k = p \/ k \in K
      /\ \A k \in K : k \in L /\ k < p /\ k \in Int
  OBVIOUS
<1>2. {j \in L : j < p} = K /\ \A k \in K : {j \in L : j < k} = {j \in K : j < k}
  <2>1. \A k \in K : k \in Int /\ k <= M
    OBVIOUS
  <2>2. \A k \in K : ~(p < k) /\ k < p /\ ~(p < p)
    BY <2>1
  <2>3. ASSUME NEW j PROVE (j \in L /\ j < p) <=> j \in K
    <3>1. CASE j \in K
      BY <2>2, <3>1
    <3>2. CASE j = p
      BY <2>2, <3>2
    <3> QED BY <3>1, <3>2
  <2>4. ASSUME NEW k \in K, NEW j PROVE (j \in L /\ j < k) <=> (j \in K /\ j < k)
    BY <2>2
  <2> HIDE DEF L
  <2> QED BY <2>3, <2>4, Zenon
<1>3. /\ S \subseteq R /\ IsFiniteSet(S) /\ \A i \in S : i \in Int
  BY SomeOfFirst
<1>4. Min(S) \in S /\ \A i \in S : Min(S) <= i
  BY <1>3, MinOfFinite
<1>5. Min(R) = Min(S)
  <2> DEFINE m == Min(S)
  <2>4. m \in S /\ \A i \in S : m <= i
    BY <1>4
  <2> HIDE DEF m
  <2>2. m \in S /\ m \in Int /\ m <= N + 1 /\ \A i \in S : m <= i
    BY <2>4
  <2>3. m \in R /\ \A i \in R : m <= i
    BY <2>2
  <2>1. Min(S) \in R /\ \A i \in R : Min(S) <= i
    BY <2>3 DEF m
  <2> HIDE DEF R
  <2> QED BY <1>1, <2>1, MinIs
<1> HIDE DEF R, L
<1>6. Max(R) = N + 1 /\ Max(L) = p
  BY <1>1, MaxIs
<1>7. /\ K = {} => v[Min(S)] = v[Max(S)]
      /\ K # {} => t[Max(K)].to = v[Max(S)]
      /\ \A k \in K :
            /\ t[k].to # t[k].from
            /\ t[k].from = IF {j \in K : j < k} = {} THEN v[Min(S)] ELSE t[Max({j \in K : j < k})].to
            /\ t[k].round \in S /\ t[k].to = v[t[k].round]
  BY Zenon DEF Replays
<1>8. ASSUME NEW k \in L
      PROVE  /\ t[k].to # t[k].from
             /\ t[k].from = IF {j \in L : j < k} = {} THEN v[Min(R)] ELSE t[Max({j \in L : j < k})].to
             /\ t[k].round \in R /\ t[k].to = v[t[k].round]
  <2>1. CASE k = p
    BY <1>1, <1>2, <1>5, <1>7, <2>1, Zenon
  <2>2. CASE k \in K
    BY <1>2, <1>3, <1>5, <1>7, <2>2, Zenon
  <2> QED BY <1>1, <2>1, <2>2
<1>9. Replays(R, v, L, t)
  BY <1>1, <1>6, <1>8, Zenon DEF Replays
<1> QED BY <1>9 DEF R, L

-----------------------------------------------------------------------------
\* The rounds and the trace are of the first numbers.
LEMMA NumbersKnown ==
  ASSUME IsSequence(rounds), IsSequence(changes), NEW c
  PROVE  /\ Len(rounds) \in Nat /\ DOMAIN rounds = 1..Len(rounds)
         /\ Len(changes) \in Nat /\ DOMAIN changes = 1..Len(changes)
         /\ Spoken(c) \in SUBSET (1..Len(rounds)) /\ Turns(c) \in SUBSET (1..Len(changes))
         /\ \A n \in Spoken(c) : Heard(c)[n] = Vectors(c, n)
         /\ Spoken(c) # {} => Max(Spoken(c)) \in Spoken(c)
<1>1. /\ Len(rounds) \in Nat /\ DOMAIN rounds = 1..Len(rounds)
      /\ Len(changes) \in Nat /\ DOMAIN changes = 1..Len(changes)
  BY DEF IsSequence
<1>2. Spoken(c) \in SUBSET (1..Len(rounds)) /\ Turns(c) \in SUBSET (1..Len(changes))
  BY <1>1 DEF Spoken, Turns
<1>3. \A n \in Spoken(c) : n \in Nat
  BY <1>1, <1>2
<1>4. Spoken(c) # {} => Max(Spoken(c)) \in Spoken(c)
  BY <1>1, <1>2, SomeOfFirst, MaxOfFinite
<1> QED BY <1>1, <1>2, <1>3, <1>4 DEF Heard

\* TraceReplays says of each client that its part of the trace replays.
LEMMA TraceOfClients ==
  ASSUME RoundsKnown, TraceKnown
  PROVE  TraceReplays
<1> SUFFICES ASSUME NEW c \in Names
             PROVE  IF Spoken(c) = {} THEN Turns(c) = {}
                    ELSE LET first == Vectors(c, Min(Spoken(c)))
                             last == Vectors(c, Max(Spoken(c)))
                             Before(k) == {j \in Turns(c) : j < k}
                         IN /\ Turns(c) = {} => first = last
                            /\ Turns(c) # {} => changes[Max(Turns(c))].to = last
                            /\ \A k \in Turns(c) :
                                 LET x == changes[k] IN
                                 /\ x.to # x.from
                                 /\ x.from = IF Before(k) = {} THEN first ELSE changes[Max(Before(k))].to
                                 /\ x.round \in Spoken(c) /\ x.to = Vectors(c, x.round)
  BY DEF TraceReplays
<1> DEFINE S == Spoken(c)
           K == Turns(c)
           v == Heard(c)
<1>1. /\ S \in SUBSET (1..Len(rounds)) /\ Len(rounds) \in Nat
      /\ \A n \in S : v[n] = Vectors(c, n)
  BY NumbersKnown DEF RoundsKnown, TraceKnown
<1>2. Replays(S, v, K, changes)
  BY DEF TraceKnown
<1>3. CASE S = {}
  BY <1>2, <1>3 DEF Replays
<1>4. CASE S # {}
  <2>1. Min(S) \in S /\ Max(S) \in S
    <3> HIDE DEF S
    <3> QED BY <1>1, <1>4, SomeOfFirst, MaxOfFinite, MinOfFinite
  <2>2. v[Min(S)] = Vectors(c, Min(S)) /\ v[Max(S)] = Vectors(c, Max(S))
    BY <1>1, <2>1, Zenon
  <2> HIDE DEF S, K, v
  <2>3. /\ K = {} => v[Min(S)] = v[Max(S)]
        /\ K # {} => changes[Max(K)].to = v[Max(S)]
        /\ \A k \in K :
             /\ changes[k].to # changes[k].from
             /\ changes[k].from = IF {j \in K : j < k} = {} THEN v[Min(S)] ELSE changes[Max({j \in K : j < k})].to
             /\ changes[k].round \in S /\ changes[k].to = v[changes[k].round]
    BY <1>2, <1>4, Zenon DEF Replays
  <2>4. ASSUME NEW k \in K
        PROVE  /\ changes[k].to # changes[k].from
               /\ changes[k].from = IF {j \in K : j < k} = {} THEN Vectors(c, Min(S)) ELSE changes[Max({j \in K : j < k})].to
               /\ changes[k].round \in S /\ changes[k].to = Vectors(c, changes[k].round)
    <3>1. v[changes[k].round] = Vectors(c, changes[k].round)
      BY <1>1, <2>3, Zenon
    <3> QED BY <2>2, <2>3, <3>1, Zenon
  <2>5. /\ K = {} => Vectors(c, Min(S)) = Vectors(c, Max(S))
        /\ K # {} => changes[Max(K)].to = Vectors(c, Max(S))
    BY <2>2, <2>3, Zenon
  <2> QED BY <1>4, <2>4, <2>5, Zenon DEF S, K
<1> QED BY <1>3, <1>4

\* What one more round adds to what a client has said.
LEMMA OneMoreRound ==
  ASSUME RoundsKnown, IsRound(results), rounds' = Append(rounds, results), NEW c \in Names,
         NEW N, N = Len(rounds)
  PROVE  /\ \A n \in Spoken(c) : Vectors(c, n)' = Vectors(c, n)
         /\ (\A o \in ToSet(Successful(results)) : o.client # c) => Spoken(c)' = Spoken(c)
         /\ \A o \in ToSet(Successful(results)) : o.client = c =>
              /\ Spoken(c)' = Spoken(c) \cup {N + 1}
              /\ Vectors(c, N + 1)' = o.said.vectors
<1> DEFINE ok == Successful(results)
<1>1. /\ N \in Nat /\ DOMAIN rounds = 1..N
      /\ DOMAIN rounds' = 1..(N + 1) /\ rounds'[N + 1] = results
      /\ \A k \in 1..N : rounds'[k] = rounds[k]
  BY OneMore DEF RoundsKnown
<1>2. ToSet(ok) = {o \in ToSet(results) : o.ok}
  BY SuccessfulOfRound
<1>3. \A o, p \in ToSet(ok) : o.client = p.client => o = p
  <2>1. \A k, l \in DOMAIN ok : ok[k].client = ok[l].client => k = l
    BY SuccessfulOfRound
  <2> HIDE DEF ok
  <2> QED BY <2>1 DEF ToSet
<1> HIDE DEF ok
<1>4. ASSUME NEW n \in Spoken(c) PROVE Vectors(c, n)' = Vectors(c, n)
  <2>1. rounds'[n] = rounds[n]
    BY <1>1 DEF Spoken
  <2> QED BY <2>1 DEF Vectors, ToSet
<1> DEFINE Says(n) == \E o \in ToSet(rounds[n]) : o.ok /\ o.client = c
           SaysNext(n) == \E o \in ToSet(rounds'[n]) : o.ok /\ o.client = c
<1>5. \A n \in 1..N : SaysNext(n) <=> Says(n)
  BY <1>1
<1>6. Spoken(c) = {n \in 1..N : Says(n)} /\ Spoken(c)' = {n \in 1..(N + 1) : SaysNext(n)}
  BY <1>1 DEF Spoken, ToSet
<1>7. SaysNext(N + 1) <=> \E o \in ToSet(ok) : o.client = c
  BY <1>1, <1>2
<1> HIDE DEF Says, SaysNext
<1>8. ASSUME \A o \in ToSet(ok) : o.client # c PROVE Spoken(c)' = Spoken(c)
  <2>1. ~SaysNext(N + 1)
    BY <1>7, <1>8
  <2> QED BY <1>1, <1>5, <1>6, <2>1
<1>9. ASSUME NEW o \in ToSet(ok), o.client = c
      PROVE  /\ Spoken(c)' = Spoken(c) \cup {N + 1}
             /\ Vectors(c, N + 1)' = o.said.vectors
  <2>1. SaysNext(N + 1)
    BY <1>7, <1>9
  <2>2. Spoken(c)' = Spoken(c) \cup {N + 1}
    BY <1>1, <1>5, <1>6, <2>1
  <2>3. \A p \in ToSet(results) : p.ok /\ p.client = c <=> p = o
    BY <1>2, <1>3, <1>9
  <2>4. (CHOOSE p \in ToSet(results) : p.ok /\ p.client = c) = o
    BY <1>2, <1>9, <2>3
  <2>5. Vectors(c, N + 1)' = (CHOOSE p \in ToSet(results) : p.ok /\ p.client = c).said.vectors
    BY <1>1 DEF Vectors, ToSet
  <2> QED BY <2>2, <2>4, <2>5
<1> QED BY <1>4, <1>8, <1>9 DEF ok

\* The answers of a round that are not what their models last said.
Turned(ok) == {k \in DOMAIN ok : previous[ok[k].client] \notin {Never, ok[k].said.vectors}}

TurnedTrace(ok) ==
  LET turned == Items(ok, Turned(ok))
  IN [k \in DOMAIN turned |->
        [client |-> turned[k].client, from |-> previous[turned[k].client],
         to |-> turned[k].said.vectors, round |-> Len(rounds) + 1]]

\* The trace of M changes has grown by nothing of c, or by one change, of round N + 1.
Grows(ok, c, M, N) ==
  /\ \A k \in 1..M : changes'[k] = changes[k]
  /\ (\A k \in Turned(ok) : ok[k].client # c) => Turns(c)' = Turns(c)
  /\ \A k \in Turned(ok) : ok[k].client = c =>
       \E p \in Nat : /\ p > M /\ Turns(c)' = Turns(c) \cup {p}
                      /\ changes'[p].from = previous[c]
                      /\ changes'[p].to = ok[k].said.vectors
                      /\ changes'[p].round = N + 1

\* What one more round adds to a client's part of the trace: nothing, or one change.
LEMMA OneMoreTrace ==
  ASSUME IsSequence(changes), NEW ok, IsSequence(ok),
         \A k, l \in DOMAIN ok : ok[k].client = ok[l].client => k = l,
         changes' = changes \o TurnedTrace(ok), NEW c,
         NEW M, M = Len(changes), NEW N, N = Len(rounds)
  PROVE  IsSequence(changes') /\ Grows(ok, c, M, N)
<1> DEFINE places == Turned(ok)
           turned == Items(ok, places)
           n == Cardinality(places)
           new == TurnedTrace(ok)
<1>1. places \in SUBSET DOMAIN ok /\ \A k \in DOMAIN ok : k \in Int
  BY DEF IsSequence, Turned
<1> HIDE DEF places
<1>17. PICK g : Picks(g, turned, ok, places)
  BY <1>1, ItemsPicked, Zenon
<1>2. n \in Nat
  BY <1>17 DEF Picks
<1>3. /\ g \in [1..n -> places]
      /\ turned = [k \in 1..n |-> ok[g[k]]]
      /\ \A k, l \in 1..n : k < l => g[k] < g[l]
      /\ \A i \in places : \E k \in 1..n : g[k] = i
  BY <1>17, Zenon DEF Picks
<1>4. \A k, l \in 1..n : g[k] = g[l] => k = l
  <2> HIDE DEF n
  <2>1. \A k \in 1..n : g[k] \in places
    BY <1>3
  <2>2. \A k \in 1..n : g[k] \in DOMAIN ok /\ g[k] \in Int
    BY <1>1, <2>1
  <2>3. \A k, l \in 1..n : k < l => g[k] < g[l]
    BY <1>3
  <2> QED BY <1>2, <2>2, <2>3
<1> HIDE DEF n
<1>5. new = [k \in 1..n |->
        [client |-> ok[g[k]].client, from |-> previous[ok[g[k]].client],
         to |-> ok[g[k]].said.vectors, round |-> Len(rounds) + 1]]
  BY <1>3 DEF TurnedTrace, places
<1> HIDE DEF turned, new
<1>6. IsSequence(new) /\ Len(new) = n /\ DOMAIN new = 1..n
  <2>1. new = [k \in 1..n |-> new[k]]
    BY <1>5
  <2> QED BY <1>2, <2>1, SegmentIsSequence
<1>7. changes' = changes \o new
  BY DEF new
<1>8. /\ IsSequence(changes') /\ M \in Nat /\ DOMAIN changes = 1..M
      /\ DOMAIN changes' = 1..(M + n)
      /\ \A k \in 1..M : changes'[k] = changes[k]
      /\ \A k \in 1..n : changes'[M + k] = new[k]
  <2> DEFINE u == changes \o new
  <2>1. /\ IsSequence(u) /\ Len(changes) \in Nat /\ DOMAIN changes = 1..Len(changes)
        /\ DOMAIN u = 1..(Len(changes) + Len(new))
        /\ \A k \in 1..Len(changes) : u[k] = changes[k]
        /\ \A k \in 1..Len(new) : u[Len(changes) + k] = new[k]
    <3>1. IsSequence(changes) /\ IsSequence(new)
      BY <1>6
    <3>2. Concatenates(u, changes, new)
      BY <3>1, JoinedSequences
    <3> HIDE DEF u
    <3> QED BY <3>2 DEF Concatenates
  <2>2. changes' = u
    BY <1>7
  <2> HIDE DEF u
  <2> QED BY <1>6, <2>1, <2>2
<1>16. M \in Nat /\ n \in Nat
  BY <1>2, <1>8
<1>9. /\ Turns(c) = {k \in 1..M : changes[k].client = c}
      /\ Turns(c)' = {k \in 1..(M + n) : changes'[k].client = c}
  BY <1>8 DEF Turns
<1>10. \A k \in 1..(M + n) : k \in 1..M \/ (k - M \in 1..n /\ k = M + (k - M))
  BY <1>16
<1>11. \A k \in 1..n : M + k \in 1..(M + n) /\ M + k > M /\ M + k \in Nat
  BY <1>16
<1>12. \A k \in 1..M : k \in 1..(M + n)
  BY <1>16
<1>13. \A k \in 1..n : /\ g[k] \in places /\ changes'[M + k].client = ok[g[k]].client
                       /\ changes'[M + k].from = previous[ok[g[k]].client]
                       /\ changes'[M + k].to = ok[g[k]].said.vectors
                       /\ changes'[M + k].round = N + 1
  <2> SUFFICES ASSUME NEW k \in 1..n
               PROVE  /\ g[k] \in places /\ changes'[M + k].client = ok[g[k]].client
                      /\ changes'[M + k].from = previous[ok[g[k]].client]
                      /\ changes'[M + k].to = ok[g[k]].said.vectors
                      /\ changes'[M + k].round = N + 1
    OBVIOUS
  <2>1. g[k] \in places
    BY <1>3
  <2>2. changes'[M + k] = [client |-> ok[g[k]].client, from |-> previous[ok[g[k]].client],
                           to |-> ok[g[k]].said.vectors, round |-> N + 1]
    BY <1>5, <1>8
  <2> QED BY <2>1, <2>2
<1>14. ASSUME \A k \in places : ok[k].client # c PROVE Turns(c)' = Turns(c)
  <2>1. \A k \in 1..n : changes'[M + k].client # c
    BY <1>13, <1>14
  <2>2. \A k \in 1..(M + n) : changes'[k].client = c <=> k \in 1..M /\ changes[k].client = c
    BY <1>8, <1>10, <2>1
  <2> QED BY <1>9, <1>12, <2>2
<1>15. ASSUME NEW k \in places, ok[k].client = c
       PROVE  \E p \in Nat : /\ p > M /\ Turns(c)' = Turns(c) \cup {p}
                             /\ changes'[p].from = previous[c]
                             /\ changes'[p].to = ok[k].said.vectors
                             /\ changes'[p].round = N + 1
  <2>1. PICK j \in 1..n : g[j] = k
    BY <1>3
  <2>2. \A l \in 1..n : ok[g[l]].client = c => l = j
    <3>1. \A l \in 1..n : g[l] \in DOMAIN ok
      BY <1>1, <1>3
    <3> QED BY <1>4, <1>15, <2>1, <3>1
  <2>3. \A l \in 1..n : changes'[M + l].client = c <=> l = j
    BY <1>13, <1>15, <2>1, <2>2
  <2>4. M + j \in Nat /\ M + j > M /\ M + j \in 1..(M + n) /\ ~(M + j \in 1..M)
    BY <1>8, <1>11
  <2>5. \A l \in 1..(M + n) : changes'[l].client = c <=> (l \in 1..M /\ changes[l].client = c) \/ l = M + j
    <3> SUFFICES ASSUME NEW l \in 1..(M + n)
                 PROVE  changes'[l].client = c <=> (l \in 1..M /\ changes[l].client = c) \/ l = M + j
      OBVIOUS
    <3>1. CASE l \in 1..M
      BY <1>8, <2>4, <3>1
    <3>2. CASE l - M \in 1..n /\ l = M + (l - M) /\ ~(l \in 1..M)
      <4>1. changes'[l].client = c <=> l - M = j
        BY <2>3, <3>2
      <4>2. l - M = j <=> l = M + j
        BY <1>8, <3>2
      <4> QED BY <3>2, <4>1, <4>2
    <3> QED BY <1>10, <3>1, <3>2
  <2>6. Turns(c)' = Turns(c) \cup {M + j}
    BY <1>9, <1>12, <2>4, <2>5
  <2>7. /\ changes'[M + j].from = previous[c] /\ changes'[M + j].to = ok[k].said.vectors
        /\ changes'[M + j].round = N + 1
    BY <1>13, <1>15, <2>1
  <2> QED BY <2>4, <2>6, <2>7
<1> QED BY <1>8, <1>14, <1>15, Zenon DEF places, Grows

\* A round that ends brings the trace up to what the models now say.
LEMMA RoundDoneTold ==
  ASSUME TasksKnown, RoundsKnown, PreviousKnown, TraceKnown, RoundDone
  PROVE  PreviousKnown' /\ TraceKnown'
<1> DEFINE ok == Successful(results)
           N == Len(rounds)
           M == Len(changes)
<1>1. /\ IsRound(results) /\ rounds' = Append(rounds, results) /\ RoundsKnown'
  BY RoundDoneKeeps
<1>2. changes' = changes \o TurnedTrace(ok) /\ Remember(ok)
  BY DEF RoundDone, Gathered, TurnedTrace, Turned
<1>3. /\ IsSequence(ok)
      /\ \A k \in DOMAIN ok : ok[k].ok /\ IsResult(ok[k])
      /\ \A k, l \in DOMAIN ok : ok[k].client = ok[l].client => k = l
  BY <1>1, SuccessfulOfRound
<1> HIDE DEF ok
<1>4. IsSequence(changes) /\ IsSequence(rounds)
  BY DEF TraceKnown, RoundsKnown
<1>5. N \in Nat /\ M \in Nat
  BY <1>4, NumbersKnown
<1>6. IsSequence(changes')
  BY <1>2, <1>3, <1>4, OneMoreTrace
<1>7. ASSUME NEW c \in Names, NEW K, NEW S, NEW v, NEW w, NEW n, NEW m, n = N, m = M,
             S = Spoken(c), K = Turns(c), v = Heard(c), w = [l \in Nat |-> Vectors(c, l)']
      PROVE  /\ previous'[c] = IF Spoken(c)' = {} THEN Never ELSE w[Max(Spoken(c)')]
             /\ Replays(Spoken(c)', w, Turns(c)', changes')
  <2>1. /\ n \in Nat /\ m \in Nat /\ S \in SUBSET (1..n) /\ K \in SUBSET (1..m)
        /\ \A l \in S : v[l] = Vectors(c, l)
        /\ S # {} => Max(S) \in S
    BY <1>4, <1>7, NumbersKnown
  <2>2. Replays(S, v, K, changes) /\ previous[c] = IF S = {} THEN Never ELSE v[Max(S)]
    <3>1. previous[c] = IF Spoken(c) = {} THEN Never ELSE Vectors(c, Max(Spoken(c)))
      BY DEF PreviousKnown
    <3>2. Replays(S, v, K, changes)
      BY <1>7 DEF TraceKnown
    <3> QED BY <1>7, <2>1, <3>1, <3>2
  <2>3. /\ \A l \in S : Vectors(c, l)' = Vectors(c, l)
        /\ (\A o \in ToSet(ok) : o.client # c) => Spoken(c)' = S
        /\ \A o \in ToSet(ok) : o.client = c =>
             /\ Spoken(c)' = S \cup {n + 1}
             /\ Vectors(c, n + 1)' = o.said.vectors
    BY <1>1, <1>7, OneMoreRound DEF ok
  <2>4. /\ \A k \in 1..m : changes'[k] = changes[k]
        /\ (\A k \in Turned(ok) : ok[k].client # c) => Turns(c)' = K
        /\ \A k \in Turned(ok) : ok[k].client = c =>
              \E p \in Nat : /\ p > m /\ Turns(c)' = K \cup {p}
                             /\ changes'[p].from = previous[c]
                             /\ changes'[p].to = ok[k].said.vectors
                             /\ changes'[p].round = n + 1
    <3>1. m = Len(changes) /\ n = Len(rounds) /\ K = Turns(c)
      BY <1>7
    <3>2. Grows(ok, c, m, n)
      BY <1>2, <1>3, <1>4, <3>1, OneMoreTrace
    <3> QED BY <3>1, <3>2, Zenon DEF Grows
  <2>5. /\ \A l \in S : w[l] = v[l]
        /\ w[n + 1] = Vectors(c, n + 1)'
    <3>1. \A l \in S : l \in Nat
      BY <2>1
    <3>2. \A l \in Nat : w[l] = Vectors(c, l)'
      BY <1>7
    <3>3. n + 1 \in Nat
      BY <2>1
    <3>4. \A l \in S : w[l] = v[l]
      BY <2>1, <2>3, <3>1, <3>2
    <3> QED BY <3>2, <3>3, <3>4
  <2>6. \A k \in K : changes'[k] = changes[k]
    BY <2>1, <2>4
  <2>7. Replays(S, w, K, changes')
    BY <2>1, <2>2, <2>5, <2>6, ReplaysStill
  <2>8. previous'[c] = IF \E k \in DOMAIN ok : ok[k].client = c
                         THEN ok[CHOOSE k \in DOMAIN ok : ok[k].client = c].said.vectors
                         ELSE previous[c]
    BY <1>2 DEF Remember
  <2>9. CASE ~ \E k \in DOMAIN ok : ok[k].client = c
    <3>1. \A o \in ToSet(ok) : o.client # c
      BY <2>9 DEF ToSet
    <3>2. \A k \in Turned(ok) : ok[k].client # c
      BY <2>9 DEF Turned
    <3>3. Spoken(c)' = S /\ Turns(c)' = K
      BY <2>3, <2>4, <3>1, <3>2
    <3>4. previous'[c] = previous[c]
      BY <2>8, <2>9
    <3>5. S # {} => w[Max(S)] = v[Max(S)]
      BY <2>1, <2>5
    <3> QED BY <2>2, <2>7, <3>3, <3>4, <3>5
  <2>10. CASE \E k \in DOMAIN ok : ok[k].client = c
    <3>1. PICK k \in DOMAIN ok : ok[k].client = c
      BY <2>10
    <3>2. (CHOOSE l \in DOMAIN ok : ok[l].client = c) = k
      BY <1>3, <3>1
    <3>3. previous'[c] = ok[k].said.vectors
      BY <2>8, <2>10, <3>2
    <3>4. ok[k] \in ToSet(ok)
      BY DEF ToSet
    <3>5. Spoken(c)' = S \cup {n + 1} /\ w[n + 1] = ok[k].said.vectors
      BY <2>3, <2>5, <3>1, <3>4
    <3>6. Max(S \cup {n + 1}) = n + 1 /\ S \cup {n + 1} # {}
      <4> DEFINE R == S \cup {n + 1}
      <4>1. (\A i \in R : i \in Int /\ i <= n + 1) /\ n + 1 \in R
        BY <2>1
      <4> HIDE DEF R
      <4>2. Max(R) = n + 1
        BY <4>1, MaxIs
      <4> QED BY <4>2 DEF R
    <3>7. previous'[c] = IF Spoken(c)' = {} THEN Never ELSE w[Max(Spoken(c)')]
      BY <3>3, <3>5, <3>6
    <3>8. S # {} => w[Max(S)] = previous[c]
      BY <2>1, <2>2, <2>5
    <3>9. S = {} => previous[c] = Never
      BY <2>2
    <3>10. ASSUME k \in Turned(ok) PROVE Replays(Spoken(c)', w, Turns(c)', changes')
      <4>1. PICK p \in Nat : /\ p > m /\ Turns(c)' = K \cup {p}
                             /\ changes'[p].from = previous[c]
                             /\ changes'[p].to = ok[k].said.vectors
                             /\ changes'[p].round = n + 1
        BY <2>4, <3>1, <3>10
      <4>2. previous[c] # Never /\ previous[c] # ok[k].said.vectors
        BY <3>1, <3>10 DEF Turned
      <4>3. S # {} /\ w[n + 1] # w[Max(S)]
        BY <3>5, <3>8, <3>9, <4>2
      <4>4. changes'[p].from = w[Max(S)] /\ changes'[p].to = w[n + 1]
        BY <3>5, <3>8, <4>1, <4>3
      <4>5. Replays(S \cup {n + 1}, w, K \cup {p}, changes')
        BY <2>1, <2>7, <4>1, <4>3, <4>4, ReplaysTurned
      <4> QED BY <3>5, <4>1, <4>5
    <3>11. ASSUME k \notin Turned(ok) PROVE Replays(Spoken(c)', w, Turns(c)', changes')
      <4>1. \A l \in Turned(ok) : ok[l].client # c
        <5>1. \A l \in Turned(ok) : l \in DOMAIN ok
          BY DEF Turned
        <5> QED BY <1>3, <3>1, <3>11, <5>1
      <4>2. Turns(c)' = K
        BY <2>4, <4>1
      <4>3. S # {} => w[n + 1] = w[Max(S)]
        <5>1. ASSUME S # {} PROVE previous[c] = ok[k].said.vectors
          <6>1. previous[c] # Never
            <7>1. Max(S) \in S /\ previous[c] = Vectors(c, Max(S))
              BY <2>1, <2>2, <5>1
            <7>2. PICK o \in ToSet(rounds[Max(S)]) : o.ok /\ o.client = c
              BY <1>7, <7>1 DEF Spoken
            <7>3. Vectors(c, Max(S)) \in Seq(AllowedVectors)
              <8>1. Max(S) \in DOMAIN rounds
                BY <1>7, <7>1 DEF Spoken
              <8>2. \A q \in ToSet(rounds[Max(S)]) : IsResult(q)
                BY <8>1 DEF RoundsKnown, IsRound, ToSet
              <8>3. (CHOOSE q \in ToSet(rounds[Max(S)]) : q.ok /\ q.client = c) \in ToSet(rounds[Max(S)])
                BY <7>2
              <8> QED BY <8>2, <8>3 DEF Vectors, IsResult
            <7>4. Never \notin Seq(AllowedVectors)
              <8>1. "never" \notin AllowedVectors
                BY DeliberationAssumption
              <8> QED BY <8>1 DEF Never
            <7> QED BY <7>1, <7>3, <7>4
          <6>2. previous[c] \in {Never, ok[k].said.vectors}
            BY <3>1, <3>11 DEF Turned
          <6> QED BY <6>1, <6>2
        <5> QED BY <3>5, <3>8, <5>1
      <4>4. Replays(S \cup {n + 1}, w, K, changes')
        BY <2>1, <2>7, <4>3, ReplaysAgain
      <4> QED BY <3>5, <4>2, <4>4
    <3> QED BY <3>7, <3>10, <3>11
  <2> QED BY <2>9, <2>10
<1>8. ASSUME NEW c \in Names
      PROVE  /\ previous'[c] = IF Spoken(c)' = {} THEN Never ELSE [l \in Nat |-> Vectors(c, l)'][Max(Spoken(c)')]
             /\ Replays(Spoken(c)', [l \in Nat |-> Vectors(c, l)'], Turns(c)', changes')
  <2> DEFINE w == [l \in Nat |-> Vectors(c, l)']
  <2> HIDE DEF w
  <2>1. /\ previous'[c] = IF Spoken(c)' = {} THEN Never ELSE w[Max(Spoken(c)')]
        /\ Replays(Spoken(c)', w, Turns(c)', changes')
    BY <1>7, Zenon DEF w
  <2> QED BY <2>1 DEF w
<1>9. \A c \in Names : Replays(Spoken(c), Heard(c), Turns(c), changes)'
  <2> SUFFICES ASSUME NEW c \in Names PROVE Replays(Spoken(c), Heard(c), Turns(c), changes)'
    OBVIOUS
  <2>1. Heard(c)' = [l \in Nat |-> Vectors(c, l)']
    BY DEF Heard
  <2> QED BY <1>8, <2>1 DEF Replays
<1>10. ASSUME NEW c \in Names
       PROVE  previous'[c] = IF Spoken(c)' = {} THEN Never ELSE Vectors(c, Max(Spoken(c)))'
  <2>1. DOMAIN rounds' = 1..(N + 1)
    BY <1>1, <1>4, OneMore
  <2>2. Spoken(c)' \in SUBSET (1..(N + 1)) /\ N + 1 \in Nat
    BY <1>5, <2>1 DEF Spoken
  <2>3. ASSUME NEW n \in Nat, NEW S \in SUBSET (1..n), S # {} PROVE Max(S) \in Nat
    <3>1. IsFiniteSet(S) /\ \A i \in S : i \in Int
      BY SomeOfFirst
    <3>2. Max(S) \in S
      BY <3>1, <2>3, MaxOfFinite
    <3>3. \A i \in S : i \in Nat
      OBVIOUS
    <3> HIDE DEF N, M
    <3> QED BY <3>2, <3>3, Zenon
  <2>4. Spoken(c)' # {} => Max(Spoken(c)') \in Nat
    <3> DEFINE S == Spoken(c)'
    <3> HIDE DEF S
    <3>1. S # {} => Max(S) \in Nat
      BY <2>2, <2>3 DEF S
    <3> QED BY <3>1 DEF S
  <2> QED BY <1>8, <2>4
<1> QED BY <1>6, <1>9, <1>10 DEF PreviousKnown, TraceKnown, IsSequence, ToSet

-----------------------------------------------------------------------------
\* At first nobody has spoken.
LEMMA InitDeliberation == Init => DeliberationIInv
<1> SUFFICES ASSUME Init PROVE DeliberationIInv
  OBVIOUS
<1>1. /\ tasks = <<>> /\ results = <<>> /\ stage = "idle"
      /\ rounds = <<>> /\ changes = <<>> /\ previous = [c \in Names |-> Never]
  BY DEF Init
<1>2. /\ <<>> \in Seq(Names) /\ IsSequence(<<>>) /\ DOMAIN <<>> = {} /\ InClientsOrder(<<>>)
  <2>1. IsSequence(<<>>)
    BY DEF IsSequence
  <2> QED BY <2>1 DEF InClientsOrder
<1>3. TasksKnown
  BY <1>1, <1>2 DEF TasksKnown
<1>4. RoundsKnown
  BY <1>1, <1>2 DEF RoundsKnown
<1>5. \A c \in Names : Spoken(c) = {} /\ Turns(c) = {}
  BY <1>1, <1>2 DEF Spoken, Turns
<1>6. PreviousKnown
  BY <1>1, <1>5 DEF PreviousKnown
<1>7. TraceKnown
  BY <1>1, <1>2, <1>5 DEF TraceKnown, Replays
<1> QED BY <1>3, <1>4, <1>6, <1>7 DEF DeliberationIInv

\* What has been said stays said while tasks are under way.
LEMMA SaidStays ==
  ASSUME RoundsKnown, PreviousKnown, TraceKnown, UNCHANGED <<rounds, previous, changes>>
  PROVE  RoundsKnown' /\ PreviousKnown' /\ TraceKnown'
<1>1. rounds' = rounds /\ previous' = previous /\ changes' = changes
  OBVIOUS
<1>2. RoundsKnown'
  BY <1>1 DEF RoundsKnown
<1>3. ASSUME NEW c
      PROVE  /\ \A n : Vectors(c, n)' = Vectors(c, n)
             /\ Spoken(c)' = Spoken(c) /\ Turns(c)' = Turns(c) /\ Heard(c)' = Heard(c)
  <2>1. \A n : Vectors(c, n)' = Vectors(c, n)
    BY <1>1 DEF Vectors, ToSet
  <2>2. Spoken(c)' = Spoken(c)
    BY <1>1 DEF Spoken, ToSet
  <2>3. Turns(c)' = Turns(c)
    BY <1>1 DEF Turns
  <2>4. Heard(c)' = Heard(c)
    BY <2>1 DEF Heard
  <2> QED BY <2>1, <2>2, <2>3, <2>4
<1>4. PreviousKnown'
  <2> SUFFICES ASSUME NEW c \in Names
               PROVE  previous'[c] = IF Spoken(c)' = {} THEN Never ELSE Vectors(c, Max(Spoken(c)))'
    BY DEF PreviousKnown
  <2> DEFINE last == Max(Spoken(c))
  <2>2. last' = last
    BY <1>3
  <2>1. Vectors(c, Max(Spoken(c)))' = Vectors(c, Max(Spoken(c)))
    BY <1>1, <2>2 DEF Vectors, ToSet
  <2> QED BY <1>1, <1>3, <2>1 DEF PreviousKnown
<1>5. TraceKnown'
  <2>1. IsSequence(changes)'
    BY <1>1 DEF TraceKnown, IsSequence, ToSet
  <2>2. ASSUME NEW c \in Names PROVE Replays(Spoken(c), Heard(c), Turns(c), changes)'
    <3>1. Replays(Spoken(c), Heard(c), Turns(c), changes)
      BY DEF TraceKnown
    <3> QED BY <1>1, <1>3, <3>1 DEF Replays
  <2> QED BY <2>1, <2>2 DEF TraceKnown
<1> QED BY <1>2, <1>4, <1>5

\* Tasks whose results stay are known as before.
LEMMA TasksStill ==
  ASSUME TasksKnown, results' = results, tasks' = tasks, request' = request,
         stage' = "done" => \A i \in DOMAIN results : results[i] # Pending
  PROVE  TasksKnown'
<1>1. tasks' \in Seq(Names) /\ DOMAIN results' = DOMAIN tasks'
  BY DEF TasksKnown
<1>2. IsSequence(results)'
  BY DEF TasksKnown, IsSequence, ToSet
<1>3. \A j \in DOMAIN tasks' : IsOutcome(results'[j], tasks'[j])
  BY DEF TasksKnown
<1>4. request'.kind # "datapull" => InClientsOrder(tasks')
  BY DEF TasksKnown
<1>5. request'.kind = "datapull" => DOMAIN tasks' \subseteq 1..Shards
  BY DEF TasksKnown
<1>6. stage' = "done" => \A i \in DOMAIN results' : results'[i] # Pending
  OBVIOUS
<1> QED BY <1>1, <1>2, <1>3, <1>4, <1>5, <1>6 DEF TasksKnown, IsOutcome, IsResult, IsMeasured, InClientsOrder, PlaceOf, Pending, Names, Ranges

\* The shards are fused when all have ended.
LEMMA FuseKeeps ==
  ASSUME TasksKnown, FuseShards
  PROVE  TasksKnown'
<1>1. /\ results' = results /\ tasks' = tasks /\ request' = request
      /\ \A i \in DOMAIN tasks : results[i] # Pending
  BY DEF FuseShards, Gathered, AllEnded
<1>2. DOMAIN results = DOMAIN tasks
  BY DEF TasksKnown
<1> QED BY <1>1, <1>2, TasksStill

\* Every step keeps what is known.
LEMMA NextDeliberation ==
  ASSUME DeliberationIInv, [Next]_vars
  PROVE  DeliberationIInv'
<1> USE DEF DeliberationIInv
<1>1. CASE Convene
  <2>1. UNCHANGED <<rounds, previous, changes>>
    BY <1>1 DEF Convene, Start
  <2> QED BY <1>1, <2>1, ConveneKeeps, SaidStays
<1>2. CASE Dispatch
  <2>1. UNCHANGED <<rounds, previous, changes>>
    BY <1>2 DEF Dispatch, Start
  <2> QED BY <1>2, <2>1, DispatchKeeps, SaidStays
<1>3. ASSUME NEW i \in DOMAIN tasks, Answer(i) PROVE DeliberationIInv'
  <2>1. UNCHANGED <<rounds, previous, changes>>
    BY <1>3 DEF Answer, Ends
  <2> QED BY <1>3, <2>1, AnswerKeeps, SaidStays
<1>4. ASSUME NEW i \in DOMAIN tasks, Fail(i) PROVE DeliberationIInv'
  <2>1. UNCHANGED <<rounds, previous, changes>>
    BY <1>4 DEF Fail, Ends
  <2> QED BY <1>4, <2>1, FailKeeps, SaidStays
<1>5. CASE RoundDone
  BY <1>5, RoundDoneKeeps, RoundDoneTold
<1>6. CASE FuseShards
  <2>1. UNCHANGED <<rounds, previous, changes>>
    BY <1>6 DEF FuseShards
  <2> QED BY <1>6, <2>1, FuseKeeps, SaidStays
<1>7. CASE UNCHANGED vars
  <2>1. UNCHANGED <<rounds, previous, changes>> /\ UNCHANGED <<request, stage, tasks, results>>
    BY <1>7 DEF vars
  <2>2. TasksKnown'
    BY <2>1, TasksStill DEF TasksKnown
  <2> QED BY <2>1, <2>2, SaidStays
<1> QED BY <1>1, <1>2, <1>3, <1>4, <1>5, <1>6, <1>7 DEF Next

\* What is known of tasks, rounds, models and the trace holds throughout.
THEOREM DeliberationInvariant == Spec => []DeliberationIInv
<1>1. Init => DeliberationIInv
  BY InitDeliberation
<1>2. DeliberationIInv /\ [Next]_vars => DeliberationIInv'
  BY NextDeliberation
<1> QED BY <1>1, <1>2, PTL DEF Spec

\* Opinions stay with their models and in the models' order, whoever is fastest.
THEOREM OpinionsAreTheirModels == Spec => []OpinionsKeepTheirModel
<1>1. DeliberationIInv => OpinionsKeepTheirModel
  <2> SUFFICES ASSUME DeliberationIInv, NEW opinions \in ToSet(rounds),
                      NEW i \in DOMAIN opinions, NEW j \in DOMAIN opinions, i < j
               PROVE  (CHOOSE k \in DOMAIN Clients : Clients[k] = opinions[i].client)
                        < (CHOOSE k \in DOMAIN Clients : Clients[k] = opinions[j].client)
    BY DEF OpinionsKeepTheirModel
  <2>1. IsRound(opinions)
    BY DEF DeliberationIInv, RoundsKnown, ToSet
  <2>2. PlaceOf(opinions[i].client) < PlaceOf(opinions[j].client)
    BY <2>1 DEF IsRound, InClientsOrder
  <2> QED BY <2>2 DEF PlaceOf
<1> QED BY <1>1, DeliberationInvariant, PTL

\* Read from its beginning, the trace of changed minds tells what each model says.
THEOREM TraceTellsChanges == Spec => []TraceReplays
<1>1. DeliberationIInv => TraceReplays
  BY TraceOfClients DEF DeliberationIInv
<1> QED BY <1>1, DeliberationInvariant, PTL

-----------------------------------------------------------------------------
\* A similarity of finite sets is a fraction.
LEMMA SimilarityIs ==
  ASSUME NEW a, NEW b, IsFiniteSet(a), IsFiniteSet(b)
  PROVE  Similarity(a, b) \in 0..One
<1> DEFINE i == Cardinality(a \cap b)
           u == Cardinality(a \cup b)
<1>1. IsFiniteSet(a \cup b)
  BY FS_Union
<1>2. IsFiniteSet(a \cap b) /\ i <= u
  <2>1. a \cap b \subseteq a \cup b
    OBVIOUS
  <2> QED BY <1>1, <2>1, FS_Subset
<1>3. i \in Nat /\ u \in Nat /\ (u = 0 <=> a \cup b = {})
  BY <1>1, <1>2, FS_CardinalityType, FS_EmptySet
<1>4. CASE a \cup b = {}
  BY <1>4 DEF Similarity, One
<1>5. CASE a \cup b # {}
  <2>1. Similarity(a, b) = (One * i) \div u
    BY <1>5 DEF Similarity
  <2> HIDE DEF i, u
  <2> QED BY <1>2, <1>3, <1>5, <2>1, PartIs
<1> QED BY <1>4, <1>5

\* The contradiction of two answers covers 55 of 100 parts of what they are not alike.
LEMMA ContradictionCovers ==
  ASSUME NEW a, NEW b, IsMeasured(a), IsMeasured(b)
  PROVE  /\ Alike(a, b) \in 0..One /\ Contradiction(a, b) \in 0..One
         /\ 55 * (One - Alike(a, b)) <= 100 * Contradiction(a, b) + 99
<1> DEFINE x == Alike(a, b)
           y == Similarity(ToSet(a.controls), ToSet(b.controls))
           gap == IF a.uncertainty > b.uncertainty THEN a.uncertainty - b.uncertainty
                                                   ELSE b.uncertainty - a.uncertainty
           z == Contradiction(a, b)
<1>1. x \in 0..1000 /\ y \in 0..1000
  BY SimilarityIs DEF Alike, IsMeasured, One
<1>2. gap \in Nat
  BY DEF IsMeasured
<1>3. z = Clamp((55 * (One - x) + 30 * (One - y)) \div 100 + (15 * gap) \div 10, One)
  BY DEF Contradiction, Alike
<1> HIDE DEF x, y, z, gap
<1>4. z \in 0..1000 /\ 55 * (1000 - x) <= 100 * z + 99
  BY <1>1, <1>2, <1>3 DEF Clamp, Least, One
<1> QED BY <1>1, <1>4 DEF One, x, z

\* The m pairs of a list are of the items at left and right.
Paired(said, m, left, right) ==
  /\ m \in Nat
  /\ \A k \in 1..m : left[k] \in DOMAIN said /\ right[k] \in DOMAIN said
  /\ OfPairs(said, Alike) = [k \in 1..m |-> Alike(said[left[k]], said[right[k]])]
  /\ OfPairs(said, Contradiction) = [k \in 1..m |-> Contradiction(said[left[k]], said[right[k]])]

\* A council's disagreement and its audit look at the same pairs, in the same order.
LEMMA PairsOf ==
  ASSUME NEW said, IsSequence(said)
  PROVE  \E m, left, right : Paired(said, m, left, right)
<1> DEFINE n == Len(said)
           N == n * n
           Left(k) == ((k - 1) \div n) + 1
           Right(k) == ((k - 1) % n) + 1
           places == {k \in 1..N : Left(k) < Right(k)}
           a == [k \in 1..N |-> Alike(said[Left(k)], said[Right(k)])]
           c == [k \in 1..N |-> Contradiction(said[Left(k)], said[Right(k)])]
           g == Placed(N, places)
           m == Cardinality(places)
<1>1. n \in Nat /\ DOMAIN said = 1..n /\ N \in Nat
  BY DEF IsSequence
<1>2. OfPairs(said, Alike) = Items(a, places) /\ OfPairs(said, Contradiction) = Items(c, places)
  BY DEF OfPairs
<1>3. ASSUME NEW k \in places PROVE Left(k) \in 1..n /\ Right(k) \in 1..n
  <2>1. N # 0 /\ k - 1 \in Nat
    BY <1>1
  <2>2. n \in Nat \ {0}
    BY <1>1, <2>1
  <2> DEFINE x == k - 1
             l == x \div n
             r == x % n
  <2>3. x \in Int /\ 0 <= x
    BY <2>1
  <2>7. x <= x
    BY <2>3
  <2> HIDE DEF x, n, N
  <2>4. l \in Int /\ 0 <= l
    BY <2>2, <2>3, <2>7, DivGrows
  <2>5. r \in Int /\ 0 <= r /\ r < n
    BY <2>2, <2>3
  <2>6. Left(k) = l + 1 /\ Right(k) = r + 1 /\ Left(k) < Right(k)
    BY DEF x
  <2> HIDE DEF l, r, Left, Right, n
  <2> QED BY <2>2, <2>4, <2>5, <2>6
<1> HIDE DEF N, n
<1>4. IsSequence(a) /\ Len(a) = N /\ IsSequence(c) /\ Len(c) = N
  <2> HIDE DEF Left, Right
  <2>1. a = [k \in 1..N |-> a[k]] /\ c = [k \in 1..N |-> c[k]]
    OBVIOUS
  <2> HIDE DEF a, c
  <2> QED BY <1>1, <2>1, SegmentIsSequence
<1>5. DOMAIN a = 1..N /\ DOMAIN c = 1..N /\ places \in SUBSET (1..N)
  OBVIOUS
<1>6. /\ \A k \in 1..N : a[k] = Alike(said[Left(k)], said[Right(k)])
      /\ \A k \in 1..N : c[k] = Contradiction(said[Left(k)], said[Right(k)])
  <2> HIDE DEF Left, Right
  <2> QED OBVIOUS
<1> HIDE DEF a, c, places, Left, Right
<1>7. Picks(g, Items(a, places), a, places) /\ Picks(g, Items(c, places), c, places)
  BY <1>4, <1>5, PlacedPicks
<1> HIDE DEF g
<1>8. /\ m \in Nat /\ g \in [1..m -> places]
      /\ Items(a, places) = [k \in 1..m |-> a[g[k]]]
      /\ Items(c, places) = [k \in 1..m |-> c[g[k]]]
  BY <1>7 DEF Picks
<1> HIDE DEF m
<1> DEFINE left == [k \in 1..m |-> Left(g[k])]
           right == [k \in 1..m |-> Right(g[k])]
<1>9. \A k \in 1..m : left[k] \in DOMAIN said /\ right[k] \in DOMAIN said
  BY <1>1, <1>3, <1>8
<1>10. /\ Items(a, places) = [k \in 1..m |-> Alike(said[left[k]], said[right[k]])]
       /\ Items(c, places) = [k \in 1..m |-> Contradiction(said[left[k]], said[right[k]])]
  <2>1. \A k \in 1..m : g[k] \in 1..N
    BY <1>5, <1>8
  <2> QED BY <1>6, <1>8, <2>1
<1> HIDE DEF left, right, m
<1>11. Paired(said, m, left, right)
  BY <1>2, <1>8, <1>9, <1>10 DEF Paired
<1> QED BY <1>11

\* Sorted from the greatest on, the first is no less than any.
LEMMA GreatestFirst ==
  ASSUME NEW answers, NEW n \in Nat \ {0}, NEW s \in [1..n -> Int],
         s = OfPairs(Said(answers), Contradiction),
         NEW t, t = Contradictions(answers)
  PROVE  t # <<>> /\ (\E i \in 1..n : t[1] = s[i]) /\ \A i \in 1..n : s[i] <= t[1]
<1> DEFINE D == 1..n
           before == [i \in D |-> {j \in D : s[j] > s[i] \/ (~(s[i] > s[j]) /\ j <= i)}]
<1>1. s \in Seq(Int) /\ DOMAIN s = D
  OBVIOUS
<1>2. t = [k \in D |-> s[CHOOSE i \in D :
              Cardinality({j \in D : s[j] > s[i] \/ (~(s[i] > s[j]) /\ j <= i)}) = k]]
  BY <1>1 DEF Sorted, Contradictions
<1>3. /\ before \in [D -> SUBSET D]
      /\ \A i, j \in D : j \in before[i] <=> s[j] > s[i] \/ (~(s[i] > s[j]) /\ j <= i)
      /\ \A i \in D : before[i] = {j \in D : s[j] > s[i] \/ (~(s[i] > s[j]) /\ j <= i)}
  OBVIOUS
<1> HIDE DEF before, D
<1>4. ASSUME NEW k \in D, \E i \in D : Cardinality(before[i]) = k
      PROVE \E i \in D : Cardinality(before[i]) = k /\ t[k] = s[i]
  <2> DEFINE Sized(i) == Cardinality({j \in D : s[j] > s[i] \/ (~(s[i] > s[j]) /\ j <= i)}) = k
             p == CHOOSE i \in D : Sized(i)
  <2>1. t[k] = s[p]
    BY <1>2
  <2>2. \A i \in D : Sized(i) <=> Cardinality(before[i]) = k
    BY <1>3
  <2>3. \E i \in D : Sized(i)
    <3> HIDE DEF Sized
    <3> QED BY <1>4, <2>2
  <2>4. p \in D /\ Sized(p)
    <3> HIDE DEF Sized
    <3> QED BY <2>3
  <2> HIDE DEF p, Sized
  <2> QED BY <2>1, <2>2, <2>4
<1>5. t = [k \in D |-> t[k]]
  BY <1>2
<1>6. \A i \in D : s[i] \in Int
  BY DEF D
<1>7. Sorts(t, s, s, before)
  BY <1>1, <1>3, <1>4, <1>5, <1>6 DEF Sorts
<1>8. /\ t \in Seq(Int) /\ Rearranges(t, s)
      /\ \A k, l \in DOMAIN t : k < l => \E i, j \in DOMAIN s : t[k] = s[i] /\ t[l] = s[j] /\ s[i] >= s[j]
  BY <1>1, <1>7, SortedProperties
<1>15. PICK g \in [DOMAIN s -> DOMAIN s] :
        /\ \A k \in DOMAIN s : t[k] = s[g[k]]
        /\ \A i \in DOMAIN s : \E k \in DOMAIN s : g[k] = i
  BY <1>8 DEF Rearranges
<1>9. /\ g \in [D -> D]
      /\ \A k \in D : t[k] = s[g[k]]
      /\ \A i \in D : \E k \in D : g[k] = i
  BY <1>1, <1>15
<1>10. DOMAIN t = D /\ 1 \in D
  BY <1>1, <1>8 DEF Rearranges, D
<1>11. ASSUME NEW k \in D PROVE t[k] <= t[1]
  <2>1. t[k] \in Int /\ t[1] \in Int
    BY <1>8, <1>10
  <2>2. CASE k = 1
    BY <2>1, <2>2
  <2>3. CASE k # 1
    <3>1. 1 < k
      BY <2>3 DEF D
    <3> QED BY <1>1, <1>6, <1>8, <1>10, <2>1, <3>1
  <2> QED BY <2>2, <2>3
<1>12. \A i \in D : s[i] <= t[1]
  <2> TAKE i \in D
  <2>1. PICK k \in D : g[k] = i
    BY <1>9
  <2> QED BY <1>9, <1>11, <2>1
<1>13. \E i \in D : t[1] = s[i]
  <2>1. g[1] \in D /\ t[1] = s[g[1]]
    BY <1>9, <1>10
  <2> QED BY <2>1
<1>14. t # <<>>
  BY <1>10
<1> QED BY <1>12, <1>13, <1>14 DEF D

\* What is known of an opinion's measures.
LEMMA SaidOfRound ==
  ASSUME NEW s, IsRound(s), \A i \in DOMAIN s : IsMeasured(s[i].said)
  PROVE  IsSequence(Said(s)) /\ \A k \in DOMAIN Said(s) : IsMeasured(Said(s)[k])
<1> DEFINE ok == Successful(s)
           said == Said(s)
<1>1. IsSequence(ok) /\ \A k \in DOMAIN ok : ok[k] \in ToSet(s)
  BY SuccessfulOfRound
<1>2. said = [k \in DOMAIN ok |-> ok[k].said]
  BY DEF Said
<1> HIDE DEF said, ok
<1>3. Len(ok) \in Nat /\ DOMAIN ok = 1..Len(ok)
  BY <1>1 DEF IsSequence
<1>4. IsSequence(said)
  <2>1. said = [k \in 1..Len(ok) |-> said[k]]
    BY <1>2, <1>3
  <2> QED BY <1>3, <2>1, SegmentIsSequence
<1>5. \A k \in DOMAIN said : IsMeasured(said[k])
  <2> SUFFICES ASSUME NEW k \in DOMAIN said PROVE IsMeasured(said[k])
    OBVIOUS
  <2>1. k \in DOMAIN ok /\ said[k] = ok[k].said
    BY <1>2
  <2>2. PICK i \in DOMAIN s : ok[k] = s[i]
    BY <1>1, <2>1 DEF ToSet
  <2> QED BY <2>1, <2>2
<1> QED BY <1>4, <1>5 DEF said

\* The disagreement of a round leaves room for no more than its audit shows.
LEMMA RoundAgrees ==
  ASSUME NEW s, IsRound(s), \A i \in DOMAIN s : IsMeasured(s[i].said)
  PROVE  55 * Disagreement(s) < 100 * (Metrics(s).contradiction + 1)
<1> DEFINE said == Said(s)
           a == OfPairs(said, Alike)
           c == OfPairs(said, Contradiction)
           t == Contradictions(s)
           d == Disagreement(s)
           z == Metrics(s).contradiction
<1>1. IsSequence(said) /\ \A k \in DOMAIN said : IsMeasured(said[k])
  BY SaidOfRound
<1>2. PICK n, left, right : Paired(said, n, left, right)
  BY <1>1, PairsOf
<1>3. /\ n \in Nat
      /\ \A k \in 1..n : left[k] \in DOMAIN said /\ right[k] \in DOMAIN said
      /\ a = [k \in 1..n |-> Alike(said[left[k]], said[right[k]])]
      /\ c = [k \in 1..n |-> Contradiction(said[left[k]], said[right[k]])]
  BY <1>2 DEF Paired
<1>4. d = IF a = <<>> THEN 0 ELSE Clamp(One - Total(a) \div Len(a), One)
  BY DEF Disagreement
<1>5. z = IF t = <<>> THEN 0 ELSE t[1]
  BY DEF Metrics
<1>6. t = Contradictions(s) /\ c = OfPairs(Said(s), Contradiction)
  OBVIOUS
<1> HIDE DEF said, a, c, t, d, z
<1>7. ASSUME NEW k \in 1..n
      PROVE  a[k] \in 0..1000 /\ c[k] \in 0..1000 /\ 55 * (1000 - a[k]) <= 100 * c[k] + 99
  <2> DEFINE x == said[left[k]]
             y == said[right[k]]
  <2>1. IsMeasured(x) /\ IsMeasured(y)
    BY <1>1, <1>3
  <2>2. a[k] = Alike(x, y) /\ c[k] = Contradiction(x, y)
    BY <1>3
  <2> HIDE DEF x, y
  <2> QED BY <2>1, <2>2, ContradictionCovers DEF One
<1>8. CASE n = 0
  <2>1. a = <<>> /\ c = <<>>
    BY <1>3, <1>8
  <2>2. t = <<>>
    <3>1. t = [k \in DOMAIN c |-> t[k]]
      BY <1>6 DEF Contradictions, Sorted
    <3> QED BY <2>1, <3>1
  <2> QED BY <1>4, <1>5, <2>1, <2>2 DEF d, z
<1>9. CASE n # 0
  <2>1. n \in Nat \ {0}
    BY <1>3, <1>9
  <2>2. c \in [1..n -> Int] /\ a \in Seq(Int) /\ Len(a) = n /\ a # <<>>
    <3>1. a = [k \in 1..n |-> a[k]] /\ c = [k \in 1..n |-> c[k]]
      BY <1>3
    <3>4. \A x \in 0..1000 : x \in Int
      OBVIOUS
    <3>2. \A k \in 1..n : a[k] \in Int /\ c[k] \in Int
      <4> TAKE k \in 1..n
      <4>1. a[k] \in 0..1000 /\ c[k] \in 0..1000
        BY <1>7
      <4> QED BY <3>4, <4>1
    <3>3. a \in [1..n -> Int] /\ c \in [1..n -> Int]
      BY <3>1, <3>2
    <3> QED BY <2>1, <3>3
  <2>3. t # <<>> /\ (\E i \in 1..n : t[1] = c[i]) /\ \A i \in 1..n : c[i] <= t[1]
    BY <1>6, <2>1, <2>2, GreatestFirst
  <2>4. z = t[1] /\ z \in 0..1000
    BY <1>5, <1>7, <2>3
  <2> DEFINE q == -((100 * z + 99 - 55000) \div 55)
  <2>5. q \in Int /\ 55 * (1000 - q) <= 100 * z + 99
        /\ \A x \in Int : 55 * (1000 - x) <= 100 * z + 99 => q <= x
    BY <2>4
  <2> HIDE DEF q
  <2>6. \A k \in 1..Len(a) : q <= a[k]
    <3> SUFFICES ASSUME NEW k \in 1..n PROVE q <= a[k]
      BY <2>2
    <3>3. a[k] \in 0..1000 /\ c[k] \in 0..1000
      BY <1>7
    <3>4. c[k] <= z
      BY <2>3, <2>4
    <3>5. 55 * (1000 - a[k]) <= 100 * c[k] + 99
      BY <1>7
    <3>6. \A x \in 0..1000 : x \in Int
      OBVIOUS
    <3>1. a[k] \in Int /\ c[k] \in Int /\ c[k] <= z /\ 55 * (1000 - a[k]) <= 100 * c[k] + 99
      BY <3>3, <3>4, <3>5, <3>6
    <3>2. 55 * (1000 - a[k]) <= 100 * z + 99
      BY <2>4, <3>1
    <3> QED BY <2>5, <3>1, <3>2
  <2> DEFINE mean == Total(a) \div Len(a)
  <2>7. mean \in Int /\ q <= mean
    BY <2>2, <2>5, <2>6, MeanAtLeast
  <2>8. d = Clamp(1000 - mean, 1000)
    BY <1>4, <2>2 DEF One
  <2> HIDE DEF mean
  <2>9. d \in Int /\ 55 * d < 100 * (z + 1)
    BY <2>4, <2>5, <2>7, <2>8 DEF Clamp, Least
  <2> QED BY <2>9 DEF d, z
<1> QED BY <1>8, <1>9

\* What the measures need is known of every result of a round, failures too: no audit
\* shows less contradiction than its council's disagreement leaves room for.
THEOREM AuditAgrees == Spec => []AuditMatchesCouncil
<1>1. DeliberationIInv => AuditMatchesCouncil
  <2> SUFFICES ASSUME DeliberationIInv, NEW opinions \in ToSet(rounds)
               PROVE  55 * Consensus(opinions).disagreement < 100 * (Metrics(opinions).contradiction + 1)
    BY DEF AuditMatchesCouncil
  <2>1. IsRound(opinions)
    BY DEF DeliberationIInv, RoundsKnown, ToSet
  <2>2. \A i \in DOMAIN opinions : IsMeasured(opinions[i].said)
    BY <2>1 DEF IsRound, IsResult
  <2>3. Consensus(opinions).disagreement = Disagreement(opinions)
    BY DEF Consensus
  <2> QED BY <2>1, <2>2, <2>3, RoundAgrees
<1> QED BY <1>1, DeliberationInvariant, PTL

-----------------------------------------------------------------------------
\* A range the right way round has its least end first.
LEMMA SafeRangeOf ==
  ASSUME NEW r \in Ranges, r # <<>>
  PROVE  /\ Min(ToSet(r)) \in ToSet(r) /\ Max(ToSet(r)) \in ToSet(r)
         /\ ToSet(r) \subseteq Int
         /\ SafeRange(r) = <<Min(ToSet(r)), Max(ToSet(r))>>
<1>1. r \in Int \X Int
  BY DEF Ranges
<1>2. PICK a \in Int, b \in Int : r = <<a, b>>
  BY <1>1
<1>3. ToSet(r) = {a, b}
  <2>1. DOMAIN r = {1, 2} /\ r[1] = a /\ r[2] = b
    BY <1>2
  <2> QED BY <2>1 DEF ToSet
<1>4. CASE b < a
  <2>1. Min({a, b}) = b /\ Max({a, b}) = a
    <3> DEFINE S == {a, b}
    <3>1. a \in S /\ b \in S /\ \A i \in S : i \in Int /\ b <= i /\ i <= a
      BY <1>4
    <3> HIDE DEF S
    <3>2. Min(S) = b /\ Max(S) = a
      BY <3>1, MinIs, MaxIs
    <3> QED BY <3>2 DEF S
  <2> QED BY <1>2, <1>3, <1>4, <2>1 DEF SafeRange
<1>5. CASE ~(b < a)
  <2>1. Min({a, b}) = a /\ Max({a, b}) = b
    <3> DEFINE S == {a, b}
    <3>1. a \in S /\ b \in S /\ \A i \in S : i \in Int /\ a <= i /\ i <= b
      BY <1>5
    <3> HIDE DEF S
    <3>2. Min(S) = a /\ Max(S) = b
      BY <3>1, MinIs, MaxIs
    <3> QED BY <3>2 DEF S
  <2> QED BY <1>2, <1>3, <1>5, <2>1 DEF SafeRange
<1> QED BY <1>4, <1>5

\* The ranges of the shards that gave one, and no others, are merged.
LEMMA GivenRangesOf ==
  ASSUME NEW s, IsSequence(s), \A i \in DOMAIN s : IsResult(s[i])
  PROVE  /\ IsSequence(GivenRanges(Said(s)))
         /\ ToSet(GivenRanges(Said(s))) = {SafeRange(r) : r \in {s[i].said.range : i \in DOMAIN s} \ {<<>>}}
<1> DEFINE places == {i \in DOMAIN s : s[i].ok}
           ok == Items(s, places)
           said == Said(s)
           ranges == [k \in DOMAIN said |-> SafeRange(said[k].range)]
           some == {k \in DOMAIN ranges : ranges[k] # <<>>}
           given == Items(ranges, some)
           asked == {s[i].said.range : i \in DOMAIN s} \ {<<>>}
<1>1. \A i \in DOMAIN s : s[i].said.range \in Ranges /\ s[i].ok \in BOOLEAN /\ (~s[i].ok => s[i].said.range = <<>>)
  BY DEF IsResult
<1>2. PICK g : Picks(g, ok, s, places)
  BY ItemsPicked
<1> DEFINE n == Cardinality(places)
<1>3. /\ n \in Nat /\ g \in [1..n -> places] /\ ok = [k \in 1..n |-> s[g[k]]]
      /\ \A i \in places : \E k \in 1..n : g[k] = i
  BY <1>2, Zenon DEF Picks
<1> HIDE DEF n
<1>4. /\ DOMAIN said = 1..n /\ \A k \in 1..n : said[k] = s[g[k]].said
  <2>1. said = [k \in DOMAIN ok |-> ok[k].said]
    BY DEF Said, Successful
  <2> HIDE DEF said, ok
  <2> QED BY <1>3, <2>1
<1> HIDE DEF said
<1>5. ranges = [k \in 1..n |-> SafeRange(s[g[k]].said.range)]
  BY <1>4
<1> HIDE DEF ranges
<1>6. IsSequence(ranges) /\ DOMAIN ranges = 1..n /\ \A k \in 1..n : ranges[k] = SafeRange(s[g[k]].said.range)
  <2>1. ranges = [k \in 1..n |-> ranges[k]]
    BY <1>5
  <2> QED BY <1>3, <1>5, <2>1, SegmentIsSequence
<1>7. \A r \in Ranges : SafeRange(r) = <<>> <=> r = <<>>
  BY DEF SafeRange, Ranges
<1>8. some = {k \in 1..n : s[g[k]].said.range # <<>>}
  <2>1. \A k \in 1..n : g[k] \in DOMAIN s
    BY <1>3
  <2> QED BY <1>1, <1>6, <1>7, <2>1
<1> DEFINE T == ToSet(ranges)
<1>9. ranges \in Seq(T) /\ some \in SUBSET DOMAIN ranges
  BY <1>6 DEF IsSequence
<1>10. given \in Seq(T) /\ ToSet(given) = {ranges[k] : k \in some}
  <2> HIDE DEF T, some
  <2> QED BY <1>9, ItemsProperties
<1>11. {ranges[k] : k \in some} = {SafeRange(r) : r \in asked}
  <2>1. ASSUME NEW k \in some PROVE \E r \in asked : ranges[k] = SafeRange(r)
    <3>1. k \in 1..n /\ g[k] \in DOMAIN s /\ s[g[k]].said.range # <<>>
      BY <1>3, <1>8
    <3> QED BY <1>6, <3>1
  <2>2. ASSUME NEW r \in asked PROVE \E k \in some : ranges[k] = SafeRange(r)
    <3>1. PICK i \in DOMAIN s : r = s[i].said.range /\ r # <<>>
      OBVIOUS
    <3>2. i \in places
      BY <1>1, <3>1
    <3>3. PICK k \in 1..n : g[k] = i
      BY <1>3, <3>2
    <3> QED BY <1>6, <1>8, <3>1, <3>3
  <2> HIDE DEF some, asked
  <2> QED BY <2>1, <2>2
<1>12. IsSequence(given)
  <2> HIDE DEF given, T
  <2>1. Len(given) \in Nat /\ given = [k \in 1..Len(given) |-> given[k]]
    BY <1>10
  <2> QED BY <2>1, SegmentIsSequence
<1>13. GivenRanges(said) = given
  BY Zenon DEF GivenRanges, ranges
<1> QED BY <1>10, <1>11, <1>12, <1>13 DEF said

\* The merged range of ranges has the ends that reach furthest.
LEMMA MergedRange ==
  ASSUME NEW s, IsSequence(s), NEW A, \A r \in A : r \in Ranges /\ r # <<>>,
         ToSet(s) = {SafeRange(r) : r \in A}
  PROVE  /\ A = {} <=> RangeMerge(s) = <<>>
         /\ \A r \in A : RangeMerge(s)[1] <= Min(ToSet(r)) /\ Max(ToSet(r)) <= RangeMerge(s)[2]
         /\ ToSet(RangeMerge(s)) \subseteq UNION {ToSet(r) : r \in A}
<1> DEFINE lows == {r[1] : r \in ToSet(s)}
           highs == {r[2] : r \in ToSet(s)}
           m == RangeMerge(s)
           Lo(r) == Min(ToSet(r))
           Hi(r) == Max(ToSet(r))
<1>1. \A r \in A : /\ Lo(r) \in ToSet(r) /\ Hi(r) \in ToSet(r) /\ Lo(r) \in Int /\ Hi(r) \in Int
                   /\ SafeRange(r)[1] = Lo(r) /\ SafeRange(r)[2] = Hi(r)
  BY SafeRangeOf
<1> HIDE DEF Lo, Hi
<1>2. lows = {Lo(r) : r \in A} /\ highs = {Hi(r) : r \in A}
  BY <1>1
<1>3. IsFiniteSet(lows) /\ IsFiniteSet(highs)
  <2>1. Len(s) \in Nat /\ DOMAIN s = 1..Len(s)
    BY DEF IsSequence
  <2>2. IsFiniteSet(DOMAIN s)
    BY <2>1, IntervalSize
  <2> DEFINE D == DOMAIN s
             low == [i \in D |-> s[i][1]]
             high == [i \in D |-> s[i][2]]
  <2>3. lows = {low[i] : i \in D} /\ highs = {high[i] : i \in D}
    BY DEF ToSet
  <2> HIDE DEF low, high, lows, highs, D
  <2>4. IsFiniteSet({low[i] : i \in D}) /\ IsFiniteSet({high[i] : i \in D})
    <3>1. IsFiniteSet(D)
      BY <2>2 DEF D
    <3> QED BY <3>1, ImageFinite
  <2> QED BY <2>3, <2>4
<1> HIDE DEF lows, highs
<1>4. (\A i \in lows : i \in Int) /\ \A i \in highs : i \in Int
  BY <1>1, <1>2
<1>5. A = {} => m = <<>>
  <2>1. A = {} => ToSet(s) = {}
    OBVIOUS
  <2>2. ToSet(s) = {} => s = <<>>
    <3> SUFFICES ASSUME ToSet(s) = {} PROVE s = <<>>
      OBVIOUS
    <3>1. s \in Seq({})
      BY DEF IsSequence
    <3> QED BY <3>1
  <2> QED BY <2>1, <2>2 DEF RangeMerge
<1>6. ASSUME A # {}
      PROVE  /\ m # <<>>
             /\ \A r \in A : m[1] <= Lo(r) /\ Hi(r) <= m[2]
             /\ ToSet(m) \subseteq UNION {ToSet(r) : r \in A}
  <2>1. lows # {} /\ highs # {}
    BY <1>2, <1>6
  <2>2. s # <<>>
    <3>1. PICK r \in ToSet(s) : TRUE
      BY <1>6
    <3> QED BY <3>1 DEF ToSet
  <2>3. m = <<Min(lows), Max(highs)>>
    BY <2>2 DEF RangeMerge, lows, highs
  <2>4. /\ Min(lows) \in lows /\ \A i \in lows : Min(lows) <= i
        /\ Max(highs) \in highs /\ \A i \in highs : i <= Max(highs)
    BY <1>3, <1>4, <2>1, MinOfFinite, MaxOfFinite
  <2> DEFINE low == Min(lows)
             high == Max(highs)
  <2> HIDE DEF low, high
  <2>5. m = <<low, high>> /\ m[1] = low /\ m[2] = high /\ m # <<>>
    BY <2>3 DEF low, high
  <2>6. low \in lows /\ high \in highs /\ (\A i \in lows : low <= i) /\ \A i \in highs : i <= high
    BY <2>4 DEF low, high
  <2>7. \A r \in A : Lo(r) \in lows /\ Hi(r) \in highs
    BY <1>2
  <2>8. ToSet(m) = {low, high}
    <3>1. DOMAIN m = {1, 2}
      BY <2>5
    <3> HIDE DEF m
    <3> QED BY <2>5, <3>1 DEF ToSet
  <2>9. low \in UNION {ToSet(r) : r \in A} /\ high \in UNION {ToSet(r) : r \in A}
    BY <1>1, <1>2, <2>6
  <2> HIDE DEF m
  <2> QED BY <2>5, <2>6, <2>7, <2>8, <2>9
<1>7. ToSet(<<>>) = {}
  BY DEF ToSet
<1>8. CASE A = {}
  <2> HIDE DEF m
  <2>1. m = <<>> /\ ToSet(m) = {}
    BY <1>5, <1>7, <1>8
  <2> QED BY <1>8, <2>1 DEF m
<1>9. CASE A # {}
  BY <1>6, <1>9 DEF Lo, Hi
<1> QED BY <1>8, <1>9

\* A fused range holds every range that a shard gave and nothing else.
THEOREM FusedRangeCovers == Spec => []RangeCovers
<1>1. DeliberationIInv => RangeCovers
  <2> SUFFICES ASSUME DeliberationIInv, stage = "done", request.kind = "datapull"
               PROVE  LET given == {results[i].said.range : i \in DOMAIN results} \ {<<>>}
                          fused == Fuse(results).range
                      IN /\ given = {} <=> fused = <<>>
                         /\ \A r \in given : fused[1] <= Min(ToSet(r)) /\ Max(ToSet(r)) <= fused[2]
                         /\ ToSet(fused) \subseteq UNION {ToSet(r) : r \in given}
    BY DEF RangeCovers
  <2> DEFINE given == {results[i].said.range : i \in DOMAIN results} \ {<<>>}
             s == GivenRanges(Said(results))
  <2>1. IsSequence(results) /\ \A i \in DOMAIN results : IsResult(results[i])
    BY DEF DeliberationIInv, TasksKnown, IsOutcome
  <2>2. IsSequence(s) /\ ToSet(s) = {SafeRange(r) : r \in given}
    BY <2>1, GivenRangesOf
  <2>3. \A r \in given : r \in Ranges /\ r # <<>>
    BY <2>1 DEF IsResult
  <2>4. Fuse(results).range = RangeMerge(s)
    BY DEF Fuse
  <2> HIDE DEF given, s
  <2>5. /\ given = {} <=> RangeMerge(s) = <<>>
        /\ \A r \in given : RangeMerge(s)[1] <= Min(ToSet(r)) /\ Max(ToSet(r)) <= RangeMerge(s)[2]
        /\ ToSet(RangeMerge(s)) \subseteq UNION {ToSet(r) : r \in given}
    BY <2>2, <2>3, MergedRange
  <2> QED BY <2>4, <2>5 DEF given
<1> QED BY <1>1, DeliberationInvariant, PTL

-----------------------------------------------------------------------------
(* RoleCouncil *)

\* The lock's queue has each debate that waits or asks, once.
Queued ==
  /\ \A i, j \in 1..Len(queue) : queue[i] = queue[j] => i = j
  /\ \A d \in Debates :
       at[d] \in {"waiting", "asking"} <=> \E i \in 1..Len(queue) : queue[i] = d

\* Whoever asks holds the lock, has its prompt installed, and will restore the base.
HolderAsks ==
  \A d \in Debates :
    at[d] = "asking" => Holds(d) /\ prompt = built[d] /\ saved = Base

\* A prompt that waits or is installed ends with the directive of its own round.
OwnDirective ==
  \A d \in Debates :
    at[d] \in {"waiting", "asking"} =>
      built[d] # Base /\ built[d][Len(built[d])] = <<d, round[d]>>

\* The clients of a debate have read the prompt that it has installed.
SeenInstalled ==
  \A d \in Debates : seen[d] # {} => at[d] = "asking" /\ seen[d] = {built[d]}

RoleIInv ==
  /\ RoleTypeOK
  /\ Queued
  /\ HolderAsks
  /\ OwnDirective
  /\ SeenInstalled
  /\ PromptRestored

USE RoleCouncilAssumption

-----------------------------------------------------------------------------
\* What is left when a waiter goes: the others, in the same order.
LEMMA RemoveAtProperties ==
  ASSUME NEW S, NEW s \in Seq(S), NEW i \in 1..Len(s)
  PROVE  /\ RemoveAt(s, i) \in Seq(S)
         /\ Len(RemoveAt(s, i)) = Len(s) - 1
         /\ \A j \in 1..(Len(s) - 1) : RemoveAt(s, i)[j] = IF j < i THEN s[j] ELSE s[j + 1]
<1> DEFINE front == SubSeq(s, 1, i - 1)
           back == SubSeq(s, i + 1, Len(s))
<1>1. /\ front \in Seq(S) /\ Len(front) = i - 1
      /\ \A j \in 1..(i - 1) : front[j] = s[j]
  <2>1. \A j \in 1..(i - 1) : s[j] \in S
    BY LenProperties
  <2>2. /\ front \in Seq(S)
        /\ Len(front) = IF 1 <= i - 1 THEN (i - 1) - 1 + 1 ELSE 0
        /\ \A j \in 1..((i - 1) - 1 + 1) : front[j] = s[1 + j - 1]
    BY <2>1, SubSeqProperties, LenProperties
  <2> QED BY <2>2, LenProperties
<1>2. /\ back \in Seq(S) /\ Len(back) = Len(s) - i
      /\ \A j \in 1..(Len(s) - i) : back[j] = s[i + j]
  <2>1. \A j \in (i + 1)..Len(s) : s[j] \in S
    BY LenProperties
  <2>2. /\ back \in Seq(S)
        /\ Len(back) = IF i + 1 <= Len(s) THEN Len(s) - (i + 1) + 1 ELSE 0
        /\ \A j \in 1..(Len(s) - (i + 1) + 1) : back[j] = s[(i + 1) + j - 1]
    BY <2>1, SubSeqProperties, LenProperties
  <2> QED BY <2>2, LenProperties
<1> HIDE DEF front, back
<1>3. /\ front \o back \in Seq(S)
      /\ Len(front \o back) = Len(front) + Len(back)
      /\ \A j \in 1..(Len(front) + Len(back)) :
           (front \o back)[j] = IF j <= Len(front) THEN front[j] ELSE back[j - Len(front)]
  BY <1>1, <1>2, ConcatProperties
<1>4. RemoveAt(s, i) = front \o back
  BY DEF RemoveAt, front, back
<1>5. Len(s) \in Nat
  BY LenProperties
<1>6. ASSUME NEW j \in 1..(Len(s) - 1)
      PROVE  (front \o back)[j] = IF j < i THEN s[j] ELSE s[j + 1]
  <2>1. CASE j < i
    BY <1>1, <1>2, <1>3, <1>5, <2>1
  <2>2. CASE ~(j < i)
    <3>1. j - (i - 1) \in 1..(Len(s) - i) /\ i + (j - (i - 1)) = j + 1
      BY <1>5, <2>2
    <3>2. (front \o back)[j] = back[j - (i - 1)]
      BY <1>1, <1>2, <1>3, <1>5, <2>2
    <3> QED BY <1>2, <2>2, <3>1, <3>2
  <2> QED BY <2>1, <2>2
<1> QED BY <1>1, <1>2, <1>3, <1>4, <1>5, <1>6

\* A debate is a council, and no scan.
LEMMA DebateIsCouncil ==
  /\ Debates \subseteq Councils /\ Scans \subseteq Councils
  /\ \A s \in Scans : s \notin Debates
BY DEF Councils

\* Two debates that both ask are one: they both hold the lock.
LEMMA OneAsks ==
  ASSUME RoleIInv, NEW d \in Debates, NEW e \in Debates, at[d] = "asking", at[e] = "asking"
  PROVE  d = e
BY DEF RoleIInv, HolderAsks, Holds

-----------------------------------------------------------------------------
(* One lemma per step. *)

\* At first nobody waits and nothing is installed.
LEMMA InitRoleIInv == RoleInit => RoleIInv
<1> SUFFICES ASSUME RoleInit PROVE RoleIInv
  OBVIOUS
<1>1. Base \in Seq(Directive) /\ <<>> \in Seq(Debates) /\ Len(<<>>) = 0
  BY EmptySeq DEF Base
<1>2. RoleTypeOK
  BY <1>1 DEF RoleInit, RoleTypeOK
<1>3. \A c \in Councils : at[c] = "idle" /\ seen[c] = {}
  BY DEF RoleInit
<1> QED BY <1>1, <1>2, <1>3, DebateIsCouncil
        DEF RoleInit, RoleIInv, Queued, HolderAsks, OwnDirective, SeenInstalled, PromptRestored

\* A debate builds its prompt from what is installed and joins the queue.
LEMMA BuildPromptKeeps ==
  ASSUME RoleIInv, NEW d \in Debates, BuildPrompt(d)
  PROVE  RoleIInv'
<1> USE DEF BuildPrompt
<1>0. /\ d \in Councils /\ prompt \in Seq(Directive) /\ round[d] \in 1..Rounds
      /\ <<d, round[d]>> \in Directive /\ queue \in Seq(Debates) /\ Len(queue) \in Nat
  BY DebateIsCouncil DEF RoleIInv, RoleTypeOK, Directive
<1>a. /\ built'[d] \in Seq(Directive)
      /\ built'[d] # Base /\ built'[d][Len(built'[d])] = <<d, round[d]>>
  <2>1. built'[d] = Append(prompt, <<d, round[d]>>)
    BY DEF RoleIInv, RoleTypeOK
  <2>2. /\ Append(prompt, <<d, round[d]>>) \in Seq(Directive)
        /\ Append(prompt, <<d, round[d]>>) # <<>>
        /\ Len(Append(prompt, <<d, round[d]>>)) = Len(prompt) + 1
        /\ Append(prompt, <<d, round[d]>>)[Len(prompt) + 1] = <<d, round[d]>>
    BY <1>0, AppendProperties
  <2> QED BY <2>1, <2>2 DEF Base
<1>b. /\ queue' \in Seq(Debates) /\ queue' # <<>> /\ Len(queue') = Len(queue) + 1
      /\ \A i \in 1..Len(queue) : queue'[i] = queue[i]
      /\ queue'[Len(queue) + 1] = d
  BY <1>0, AppendProperties
<1>c. \A c \in Councils : at'[c] = IF c = d THEN "waiting" ELSE at[c]
  BY DEF RoleIInv, RoleTypeOK
<1>d. \A e \in Debates : e # d => built'[e] = built[e]
  BY DEF RoleIInv, RoleTypeOK
<1>e. \A i \in 1..Len(queue) : queue[i] # d
  BY DEF RoleIInv, Queued
<1>1. RoleTypeOK'
  <2>1. built' \in [Debates -> Seq(Directive)]
    BY <1>0, AppendProperties DEF RoleIInv, RoleTypeOK
  <2>2. at' \in [Councils -> {"idle", "waiting", "asking", "done"}]
    BY DEF RoleIInv, RoleTypeOK
  <2> QED BY <1>b, <2>1, <2>2 DEF RoleIInv, RoleTypeOK
<1>2. Queued'
  <2>1. ASSUME NEW i \in 1..Len(queue'), NEW j \in 1..Len(queue'), queue'[i] = queue'[j]
        PROVE  i = j
    <3>1. \A k, l \in 1..Len(queue) : queue[k] = queue[l] => k = l
      BY DEF RoleIInv, Queued
    <3>2. \A k \in 1..Len(queue') : k \in 1..Len(queue) \/ k = Len(queue) + 1
      BY <1>0, <1>b
    <3> HIDE DEF BuildPrompt
    <3> QED BY <1>b, <1>e, <2>1, <3>1, <3>2
  <2>2. ASSUME NEW e \in Debates
        PROVE  at'[e] \in {"waiting", "asking"} <=> \E i \in 1..Len(queue') : queue'[i] = e
    <3>1. CASE e = d
      BY <1>0, <1>b, <1>c, <3>1
    <3>2. CASE e # d
      <4>1. at'[e] = at[e]
        BY <1>c, <3>2, DebateIsCouncil
      <4>2. (\E i \in 1..Len(queue') : queue'[i] = e) <=> \E i \in 1..Len(queue) : queue[i] = e
        BY <1>0, <1>b, <3>2
      <4> QED BY <4>1, <4>2 DEF RoleIInv, Queued
    <3> QED BY <3>1, <3>2
  <2> QED BY <2>1, <2>2 DEF Queued
<1>3. HolderAsks'
  <2> SUFFICES ASSUME NEW e \in Debates, at'[e] = "asking"
               PROVE  Holds(e)' /\ prompt' = built'[e] /\ saved' = Base
    BY DEF HolderAsks
  <2>1. e # d /\ at[e] = "asking"
    BY <1>0, <1>c, DebateIsCouncil
  <2>2. queue # <<>> /\ Head(queue) = e /\ prompt = built[e] /\ saved = Base
    BY <2>1 DEF RoleIInv, HolderAsks, Holds
  <2>3. Head(queue') = Head(queue)
    BY <1>0, <2>2, HeadTailAppend
  <2> QED BY <1>b, <1>d, <2>1, <2>2, <2>3 DEF Holds
<1>4. OwnDirective'
  BY <1>a, <1>c, <1>d, DebateIsCouncil DEF RoleIInv, OwnDirective
<1>5. SeenInstalled'
  BY <1>0, <1>c, <1>d, DebateIsCouncil DEF RoleIInv, SeenInstalled
<1>6. PromptRestored'
  BY <1>c, DebateIsCouncil DEF RoleIInv, PromptRestored
<1> QED BY <1>1, <1>2, <1>3, <1>4, <1>5, <1>6 DEF RoleIInv

\* The head of the queue installs its prompt over the base.
LEMMA SwapPromptKeeps ==
  ASSUME RoleIInv, NEW d \in Debates, SwapPrompt(d)
  PROVE  RoleIInv'
<1> USE DEF SwapPrompt, CreateTasks
<1>0. d \in Councils
  BY DebateIsCouncil
<1>a. /\ \A c \in Councils : at'[c] = IF c = d THEN "asking" ELSE at[c]
      /\ \A c \in Councils : seen'[c] = IF c = d THEN {} ELSE seen[c]
  BY DEF RoleIInv, RoleTypeOK
<1>b. \A e \in Debates : at[e] # "asking"
  BY DEF RoleIInv, HolderAsks, Holds
<1>c. prompt = Base
  BY <1>b DEF RoleIInv, PromptRestored
<1>1. RoleTypeOK'
  BY DEF RoleIInv, RoleTypeOK
<1>2. Queued'
  BY <1>a, DebateIsCouncil DEF RoleIInv, Queued
<1>3. HolderAsks'
  BY <1>a, <1>b, <1>c, DebateIsCouncil DEF HolderAsks, Holds
<1>4. OwnDirective'
  BY <1>a, DebateIsCouncil DEF RoleIInv, OwnDirective
<1>5. SeenInstalled'
  BY <1>a, DebateIsCouncil DEF RoleIInv, SeenInstalled
<1>6. PromptRestored'
  BY <1>0, <1>a DEF PromptRestored
<1> QED BY <1>1, <1>2, <1>3, <1>4, <1>5, <1>6 DEF RoleIInv

\* A client reads what is installed.
LEMMA AskKeeps ==
  ASSUME RoleIInv, NEW c \in Councils, NEW m \in Models, Ask(c, m)
  PROVE  RoleIInv'
<1> USE DEF Ask
<1>a. \A b \in Councils : seen'[b] = IF b = c THEN seen[c] \cup {prompt} ELSE seen[b]
  BY DEF RoleIInv, RoleTypeOK
<1>1. RoleTypeOK'
  <2>1. seen' \in [Councils -> SUBSET Seq(Directive)]
    BY DEF RoleIInv, RoleTypeOK
  <2>2. unasked' \in [Councils -> SUBSET Models]
    BY DEF RoleIInv, RoleTypeOK
  <2> QED BY <2>1, <2>2 DEF RoleIInv, RoleTypeOK
<1>2. Queued'
  BY DEF RoleIInv, Queued
<1>3. HolderAsks'
  BY DEF RoleIInv, HolderAsks, Holds
<1>4. OwnDirective'
  BY DEF RoleIInv, OwnDirective
<1>5. SeenInstalled'
  <2> SUFFICES ASSUME NEW d \in Debates, seen'[d] # {}
               PROVE  at[d] = "asking" /\ seen'[d] = {built[d]}
    BY DEF SeenInstalled
  <2>1. CASE d = c
    <3>1. prompt = built[d]
      BY <2>1 DEF RoleIInv, HolderAsks
    <3>2. seen[d] = {} \/ seen[d] = {built[d]}
      BY DEF RoleIInv, SeenInstalled
    <3> QED BY <1>a, <2>1, <3>1, <3>2
  <2>2. CASE d # c
    BY <1>a, <2>2, DebateIsCouncil DEF RoleIInv, SeenInstalled
  <2> QED BY <2>1, <2>2
<1>6. PromptRestored'
  BY DEF RoleIInv, PromptRestored
<1> QED BY <1>1, <1>2, <1>3, <1>4, <1>5, <1>6 DEF RoleIInv

\* A scan convenes and ends without the lock.
LEMMA ScanKeeps ==
  ASSUME RoleIInv, NEW s \in Scans, StartScan(s) \/ ScanDone(s)
  PROVE  RoleIInv'
<1> USE DEF StartScan, ScanDone, CreateTasks
<1>a. \A d \in Debates : at'[d] = at[d] /\ seen'[d] = seen[d]
  BY DebateIsCouncil DEF RoleIInv, RoleTypeOK
<1>1. RoleTypeOK'
  BY DebateIsCouncil DEF RoleIInv, RoleTypeOK
<1>2. Queued'
  BY <1>a DEF RoleIInv, Queued
<1>3. HolderAsks'
  BY <1>a DEF RoleIInv, HolderAsks, Holds
<1>4. OwnDirective'
  BY <1>a DEF RoleIInv, OwnDirective
<1>5. SeenInstalled'
  BY <1>a DEF RoleIInv, SeenInstalled
<1>6. PromptRestored'
  BY <1>a DEF RoleIInv, PromptRestored
<1> QED BY <1>1, <1>2, <1>3, <1>4, <1>5, <1>6 DEF RoleIInv

\* The debate that asks goes and the prompt with it: nobody asks, the base is back.
LEMMA LeaveKeeps ==
  ASSUME RoleIInv, NEW d \in Debates, at[d] = "asking", RestorePrompt,
         RoleTypeOK',
         \A c \in Councils : c # d => at'[c] = at[c] /\ seen'[c] = seen[c],
         at'[d] \in {"idle", "done"}, seen'[d] = {},
         \A e \in Debates : e # d => built'[e] = built[e] /\ round'[e] = round[e]
  PROVE  RoleIInv'
<1> USE DEF RestorePrompt
<1>0. /\ d \in Councils /\ queue # <<>> /\ Head(queue) = d /\ saved = Base
      /\ queue \in Seq(Debates) /\ Len(queue) \in Nat \ {0} /\ queue[1] = d
  <2>1. queue # <<>> /\ Head(queue) = d /\ saved = Base /\ queue \in Seq(Debates)
    BY DEF RoleIInv, HolderAsks, Holds, RoleTypeOK
  <2> QED BY <2>1, DebateIsCouncil, EmptySeq
<1>a. /\ Len(queue') = Len(queue) - 1
      /\ \A i \in 1..(Len(queue) - 1) : queue'[i] = queue[i + 1]
  BY <1>0, HeadTailProperties
<1>b. \A e \in Debates : at'[e] # "asking"
  BY OneAsks, DebateIsCouncil
<1>2. Queued'
  <2>1. ASSUME NEW i \in 1..Len(queue'), NEW j \in 1..Len(queue'), queue'[i] = queue'[j]
        PROVE  i = j
    BY <1>0, <1>a, <2>1 DEF RoleIInv, Queued
  <2>2. ASSUME NEW e \in Debates
        PROVE  at'[e] \in {"waiting", "asking"} <=> \E i \in 1..Len(queue') : queue'[i] = e
    <3>1. CASE e = d
      <4>1. \A i \in 1..Len(queue') : queue[i + 1] # d
        BY <1>0, <1>a DEF RoleIInv, Queued
      <4> QED BY <1>0, <1>a, <3>1, <4>1
    <3>2. CASE e # d
      <4>1. at'[e] = at[e]
        BY <3>2, DebateIsCouncil
      <4>2. ASSUME NEW i \in 1..Len(queue), queue[i] = e
            PROVE  \E j \in 1..Len(queue') : queue'[j] = e
        <5>1. i # 1 /\ i - 1 \in 1..Len(queue') /\ (i - 1) + 1 = i
          BY <1>0, <1>a, <3>2, <4>2
        <5> QED BY <1>a, <4>2, <5>1
      <4>3. ASSUME NEW j \in 1..Len(queue'), queue'[j] = e
            PROVE  \E i \in 1..Len(queue) : queue[i] = e
        <5>1. j + 1 \in 1..Len(queue) /\ queue[j + 1] = e
          BY <1>0, <1>a, <4>3
        <5> QED BY <5>1
      <4> QED BY <4>1, <4>2, <4>3 DEF RoleIInv, Queued
    <3> QED BY <3>1, <3>2
  <2> QED BY <2>1, <2>2 DEF Queued
<1>3. HolderAsks'
  BY <1>b DEF HolderAsks
<1>4. OwnDirective'
  BY DebateIsCouncil DEF RoleIInv, OwnDirective
<1>5. SeenInstalled'
  BY <1>0, DebateIsCouncil DEF RoleIInv, SeenInstalled
<1>6. PromptRestored'
  BY <1>0 DEF PromptRestored
<1> QED BY <1>2, <1>3, <1>4, <1>5, <1>6 DEF RoleIInv

\* A round that is answered, and one that fails, leave the prompt as they found it.
LEMMA RoundEndKeeps ==
  ASSUME RoleIInv, NEW d \in Debates, RoleDone(d) \/ RoundFails(d)
  PROVE  RoleIInv'
<1> USE DEF RoleDone, RoundFails, NextRole
<1>0. /\ d \in Councils /\ at[d] = "asking" /\ RestorePrompt /\ queue # <<>>
      /\ queue \in Seq(Debates) /\ saved \in Seq(Directive) /\ Base \in Seq(Directive)
  BY DebateIsCouncil, EmptySeq DEF RoleIInv, RoleTypeOK, HolderAsks, Holds, Base
<1>1. RoleTypeOK'
  <2>1. built' \in [Debates -> Seq(Directive)]
    BY <1>0 DEF RoleIInv, RoleTypeOK
  <2>2. at' \in [Councils -> {"idle", "waiting", "asking", "done"}]
    BY <1>0 DEF RoleIInv, RoleTypeOK
  <2>3. seen' \in [Councils -> SUBSET Seq(Directive)]
    BY <1>0 DEF RoleIInv, RoleTypeOK
  <2>4. round' \in [Debates -> 1..Rounds]
    BY <1>0 DEF RoleIInv, RoleTypeOK
  <2>5. unasked' \in [Councils -> SUBSET Models]
    BY <1>0 DEF RoleIInv, RoleTypeOK
  <2>6. queue' \in Seq(Debates) /\ prompt' \in Seq(Directive) /\ saved' \in Seq(Directive)
    BY <1>0, HeadTailProperties DEF RestorePrompt
  <2> QED BY <2>1, <2>2, <2>3, <2>4, <2>5, <2>6 DEF RoleTypeOK
<1>2. \A c \in Councils : c # d => at'[c] = at[c] /\ seen'[c] = seen[c]
  BY <1>0 DEF RoleIInv, RoleTypeOK
<1>3. at'[d] \in {"idle", "done"} /\ seen'[d] = {}
  BY <1>0 DEF RoleIInv, RoleTypeOK
<1>4. \A e \in Debates : e # d => built'[e] = built[e] /\ round'[e] = round[e]
  BY <1>0 DEF RoleIInv, RoleTypeOK
<1> QED BY <1>0, <1>1, <1>2, <1>3, <1>4, LeaveKeeps

\* A waiter that is cancelled leaves the queue, and nothing else changes.
LEMMA CancelWaitingKeeps ==
  ASSUME RoleIInv, NEW d \in Debates, CancelWaiting(d)
  PROVE  RoleIInv'
<1> USE DEF CancelWaiting
<1>0. d \in Councils /\ queue \in Seq(Debates) /\ Len(queue) \in Nat /\ Base \in Seq(Directive)
  BY DebateIsCouncil, EmptySeq, LenProperties DEF RoleIInv, RoleTypeOK, Base
<1>a. PICK k \in 1..Len(queue) : queue[k] = d /\ queue' = RemoveAt(queue, k)
  OBVIOUS
<1>b. /\ queue' \in Seq(Debates)
      /\ Len(queue') = Len(queue) - 1
      /\ \A j \in 1..(Len(queue) - 1) : queue'[j] = IF j < k THEN queue[j] ELSE queue[j + 1]
  BY <1>0, <1>a, RemoveAtProperties
<1>c. \A c \in Councils : at'[c] = IF c = d THEN "done" ELSE at[c]
  BY DEF RoleIInv, RoleTypeOK
<1>d. \A e \in Debates : e # d => built'[e] = built[e]
  BY DEF RoleIInv, RoleTypeOK
<1>e. \A i \in 1..Len(queue) : queue[i] = d => i = k
  BY <1>a DEF RoleIInv, Queued
<1>1. RoleTypeOK'
  BY <1>0, <1>b DEF RoleIInv, RoleTypeOK
<1>2. Queued'
  <2>1. ASSUME NEW i \in 1..Len(queue'), NEW j \in 1..Len(queue'), queue'[i] = queue'[j]
        PROVE  i = j
    <3>1. \A m, n \in 1..Len(queue) : queue[m] = queue[n] => m = n
      BY DEF RoleIInv, Queued
    <3>2. /\ i \in 1..Len(queue) /\ i + 1 \in 1..Len(queue)
          /\ j \in 1..Len(queue) /\ j + 1 \in 1..Len(queue)
      BY <1>0, <1>b
    <3>3. (IF i < k THEN queue[i] ELSE queue[i + 1]) = IF j < k THEN queue[j] ELSE queue[j + 1]
      BY <1>b, <2>1
    <3>4. (IF i < k THEN i ELSE i + 1) = IF j < k THEN j ELSE j + 1
      BY <3>1, <3>2, <3>3
    <3> QED BY <3>4
  <2>2. ASSUME NEW e \in Debates
        PROVE  at'[e] \in {"waiting", "asking"} <=> \E i \in 1..Len(queue') : queue'[i] = e
    <3>1. CASE e = d
      <4>1. \A i \in 1..Len(queue') : queue'[i] # d
        BY <1>0, <1>b, <1>e
      <4> QED BY <1>0, <1>c, <3>1, <4>1
    <3>2. CASE e # d
      <4>1. at'[e] = at[e]
        BY <1>c, <3>2, DebateIsCouncil
      <4>2. ASSUME NEW i \in 1..Len(queue), queue[i] = e
            PROVE  \E j \in 1..Len(queue') : queue'[j] = e
        <5>1. i # k
          BY <1>a, <3>2, <4>2
        <5>2. CASE i < k
          BY <1>0, <1>b, <4>2, <5>2
        <5>3. CASE i > k
          <6>1. i - 1 \in 1..Len(queue') /\ ~(i - 1 < k) /\ (i - 1) + 1 = i
            BY <1>0, <1>b, <5>3
          <6> QED BY <1>b, <4>2, <6>1
        <5> QED BY <5>1, <5>2, <5>3
      <4>3. ASSUME NEW j \in 1..Len(queue'), queue'[j] = e
            PROVE  \E i \in 1..Len(queue) : queue[i] = e
        <5>1. j \in 1..Len(queue) /\ j + 1 \in 1..Len(queue)
          BY <1>0, <1>b
        <5> QED BY <1>b, <4>3, <5>1
      <4> QED BY <4>1, <4>2, <4>3 DEF RoleIInv, Queued
    <3> QED BY <3>1, <3>2
  <2> QED BY <2>1, <2>2 DEF Queued
<1>3. HolderAsks'
  <2> SUFFICES ASSUME NEW e \in Debates, at'[e] = "asking"
               PROVE  Holds(e)' /\ prompt' = built'[e] /\ saved' = Base
    BY DEF HolderAsks
  <2>1. e # d /\ at[e] = "asking"
    BY <1>0, <1>c, DebateIsCouncil
  <2>2. queue # <<>> /\ Head(queue) = e /\ prompt = built[e] /\ saved = Base
    BY <2>1 DEF RoleIInv, HolderAsks, Holds
  <2>3. queue[1] = e /\ k > 1 /\ 1 \in 1..(Len(queue) - 1)
    BY <1>0, <1>a, <2>1, <2>2
  <2>4. queue'[1] = e /\ queue' # <<>>
    BY <1>0, <1>b, <2>3, EmptySeq
  <2>5. Head(queue') = e
    <3> HIDE DEF CancelWaiting
    <3> QED BY <2>4
  <2> QED BY <1>d, <2>1, <2>2, <2>4, <2>5 DEF Holds
<1>4. OwnDirective'
  BY <1>0, <1>c, <1>d, DebateIsCouncil DEF RoleIInv, OwnDirective
<1>5. SeenInstalled'
  BY <1>0, <1>c, <1>d, DebateIsCouncil DEF RoleIInv, SeenInstalled
<1>6. PromptRestored'
  BY <1>0, <1>c, DebateIsCouncil DEF RoleIInv, PromptRestored
<1> QED BY <1>1, <1>2, <1>3, <1>4, <1>5, <1>6 DEF RoleIInv

-----------------------------------------------------------------------------
(* The theorems. *)

\* Of every reachable state: the lock's queue has the waiting and asking debates once,
\* and only its head asks, over the base prompt, with its own directive last.
THEOREM RoleLockInvariant == RoleSpec => []RoleIInv
<1>1. RoleInit => RoleIInv
  BY InitRoleIInv
<1>2. RoleIInv /\ [RoleNext]_roleVars => RoleIInv'
  <2> SUFFICES ASSUME RoleIInv, [RoleNext]_roleVars PROVE RoleIInv'
    OBVIOUS
  <2>1. ASSUME NEW d \in Debates, Proceed(d) \/ RoundFails(d) \/ CancelWaiting(d)
        PROVE  RoleIInv'
    BY <2>1, BuildPromptKeeps, SwapPromptKeeps, RoundEndKeeps, CancelWaitingKeeps DEF Proceed
  <2>2. ASSUME NEW s \in Scans, StartScan(s) \/ ScanDone(s)
        PROVE  RoleIInv'
    BY <2>2, ScanKeeps
  <2>3. ASSUME NEW c \in Councils, NEW m \in Models, Ask(c, m)
        PROVE  RoleIInv'
    BY <2>3, AskKeeps
  <2>4. CASE UNCHANGED roleVars
    BY <2>4 DEF roleVars, RoleIInv, RoleTypeOK, Queued, HolderAsks, Holds, OwnDirective, SeenInstalled,
                PromptRestored
  <2> QED BY <2>1, <2>2, <2>3, <2>4 DEF RoleNext, Terminated
<1> QED BY <1>1, <1>2, PTL DEF RoleSpec

\* Whenever no debate asks its council, the prompt of every client is the base prompt,
\* however debates overlapped, failed or were cancelled: the "finally" of _trusted_prompt.
THEOREM BaseIsRestored == RoleSpec => []PromptRestored
<1>1. RoleIInv => PromptRestored
  BY DEF RoleIInv
<1> QED BY <1>1, RoleLockInvariant, PTL

\* A debate is answered by clients that all read the directive of this debate and this
\* round as the last one of their prompt, whatever it was built on.
THEOREM DirectiveReachesClients == RoleSpec => []RoleReachesClients
<1>1. RoleIInv => RoleReachesClients
  BY DEF RoleIInv, SeenInstalled, OwnDirective, RoleReachesClients
<1> QED BY <1>1, RoleLockInvariant, PTL
=============================================================================
