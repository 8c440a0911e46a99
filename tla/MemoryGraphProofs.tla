--------------------------- MODULE MemoryGraphProofs ---------------------------
(***************************************************************************)
(* Proofs about MemoryGraph, for any records, requests, scores, answers of *)
(* the index and writes of others: lemmas about the operators that the     *)
(* requests are built from, the invariant, and what it implies.            *)
(***************************************************************************)
EXTENDS MemoryGraph, ScoresProofs

-----------------------------------------------------------------------------
(* The selection of hits *)

\* Likeness and merit are integers.
LEMMA MeritType ==
  ASSUME NEW pair \in Candidates, NEW chosen \in SUBSET Candidates, IsFiniteSet(chosen),
         score \in [Records -> Nat]
  PROVE  Merit(pair, chosen) \in Int
<1> DEFINE a == pair.content.name
           likeness == {Alikeness[a][c.content.name] : c \in chosen}
           most == IF likeness = {} THEN 0 ELSE Max(likeness)
<1>0. pair.id \in Records /\ pair.content \in Versions
  BY DEF Candidates
<1>1. /\ a \in DOMAIN Relevance /\ Relevance[a] \in Nat /\ Lambda \in Int
      /\ score[pair.id] \in Nat
  <2>1. a \in DOMAIN Relevance
    BY <1>0 DEF Versions
  <2>2. Relevance[a] \in Nat
    BY <2>1, MemoryGraphAssumption
  <2>3. Lambda \in Int
    <3>1. Lambda \in 0..100
      BY MemoryGraphAssumption
    <3> QED BY <3>1
  <2> QED BY <1>0, <2>1, <2>2, <2>3
<1>2. likeness \in SUBSET Int
  <2>1. \A c \in chosen : c.content.name \in DOMAIN Relevance
    BY DEF Candidates, Versions
  <2> QED BY <1>1, <2>1, MemoryGraphAssumption
<1>3. IsFiniteSet(likeness)
  <2> DEFINE f == [c \in chosen |-> Alikeness[a][c.content.name]]
  <2>1. likeness = {f[c] : c \in chosen}
    OBVIOUS
  <2> HIDE DEF f
  <2>2. IsFiniteSet({f[c] : c \in chosen})
    BY ImageFinite
  <2> QED BY <2>1, <2>2
<1>4. most \in Int
  <2> HIDE DEF likeness
  <2>1. \A i \in likeness : i \in Int
    BY <1>2
  <2>2. CASE likeness # {}
    <3>1. Max(likeness) \in likeness
      BY <1>3, <2>1, <2>2, MaxInSet
    <3> QED BY <2>1, <2>2, <3>1
  <2>3. CASE likeness = {}
    BY <2>3
  <2> QED BY <2>2, <2>3
<1>5. Merit(pair, chosen) = Lambda * (score[pair.id] + 1000 * Relevance[a]) - (100 - Lambda) * 1000 * most
  BY DEF Merit
<1> HIDE DEF a, most
<1> QED BY <1>1, <1>4, <1>5

\* As long as a candidate is left, the best one is one that is left.
LEMMA BestIsLeft ==
  ASSUME NEW candidates \in Seq(Candidates), NEW taken \in SUBSET DOMAIN candidates,
         DOMAIN candidates \ taken # {}, score \in [Records -> Nat]
  PROVE  Best(candidates, taken) \in DOMAIN candidates \ taken
<1> DEFINE left == DOMAIN candidates \ taken
           chosen == {candidates[j] : j \in taken}
           merit == [k \in left |-> Merit(candidates[k], chosen)]
           best == {k \in left : \A j \in left : merit[j] <= merit[k]}
<1>1. /\ IsFiniteSet(DOMAIN candidates) /\ DOMAIN candidates \in SUBSET Nat
      /\ \A k \in DOMAIN candidates : candidates[k] \in Candidates
  <2>1. DOMAIN candidates = 1..Len(candidates) /\ Len(candidates) \in Nat
    OBVIOUS
  <2>2. IsFiniteSet(1..Len(candidates))
    BY <2>1, FS_Interval
  <2> QED BY <2>1, <2>2
<1>2. IsFiniteSet(left) /\ IsFiniteSet(taken)
  BY <1>1, FS_Subset
<1>3. chosen \in SUBSET Candidates /\ IsFiniteSet(chosen)
  <2>1. IsFiniteSet(chosen)
    BY <1>2, ImageFinite
  <2> QED BY <1>1, <2>1
<1>4. \A k \in left : merit[k] \in Int
  <2> HIDE DEF chosen
  <2> QED BY <1>1, <1>3, MeritType
<1>5. \E m \in left : \A i \in left : merit[i] <= merit[m]
  <2> HIDE DEF merit, left
  <2>1. left # {}
    BY DEF left
  <2> QED BY <1>2, <1>4, <2>1, GreatestOfSet
<1>6. best \in SUBSET Nat /\ best # {} /\ best \subseteq left
  BY <1>1, <1>5
<1>7. Min(best) \in left
  <2> HIDE DEF best
  <2> QED BY <1>6, MinInSet
<1> QED BY <1>7 DEF Best

\* A function that takes, at each place of a list, the best candidate that it has not
\* taken before, exists (by induction on the number of places).
LEMMA PlacesExist ==
  ASSUME NEW candidates \in Seq(Candidates), NEW n \in Nat
  PROVE  \E f : \A k \in 1..n : f[k] = Best(candidates, {f[m] : m \in 1..(k - 1)})
<1> DEFINE Good(f, l) == \A k \in 1..l : f[k] = Best(candidates, {f[m] : m \in 1..(k - 1)})
           Bad == {l \in Nat : ~ \E f : Good(f, l)}
<1> SUFFICES Bad = {}
  OBVIOUS
<1> SUFFICES ASSUME Bad # {} PROVE FALSE
  OBVIOUS
<1>1. PICK l \in Bad : \A k \in Bad : l <= k
  <2>1. Bad \in SUBSET Nat /\ Bad # {}
    OBVIOUS
  <2> HIDE DEF Bad
  <2> QED BY <2>1, LeastOfSet
<1>2. l \in Nat /\ ~ \E f : Good(f, l)
  BY <1>1
<1>3. l # 0
  <2>1. \A f : Good(f, 0)
    <3>1. \A k \in 1..0 : FALSE
      OBVIOUS
    <3> QED BY <3>1
  <2> QED BY <2>1, <1>2
<1>4. l - 1 \in Nat /\ l - 1 \notin Bad
  <2> HIDE DEF Bad
  <2> QED BY <1>1, <1>2, <1>3
<1>5. PICK f : Good(f, l - 1)
  BY <1>4
<1> DEFINE g == [k \in 1..l |-> IF k < l THEN f[k] ELSE Best(candidates, {f[m] : m \in 1..(l - 1)})]
<1>6. ASSUME NEW k \in 1..l PROVE g[k] = Best(candidates, {g[m] : m \in 1..(k - 1)})
  <2>1. \A m \in 1..(k - 1) : m \in 1..l /\ m < l /\ g[m] = f[m]
    BY <1>2
  <2>2. {g[m] : m \in 1..(k - 1)} = {f[m] : m \in 1..(k - 1)}
    <3> HIDE DEF g
    <3> QED BY <2>1
  <2>3. CASE k < l
    <3>1. g[k] = f[k] /\ k \in 1..(l - 1)
      BY <1>2, <2>3
    <3> HIDE DEF g
    <3> QED BY <1>5, <2>2, <3>1
  <2>4. CASE ~(k < l)
    <3>1. k = l
      BY <1>2, <2>4
    <3>2. g[k] = Best(candidates, {f[m] : m \in 1..(l - 1)})
      BY <2>4, <3>1
    <3> HIDE DEF g
    <3> QED BY <2>2, <3>1, <3>2
  <2> QED BY <2>3, <2>4
<1>7. Good(g, l)
  <2> HIDE DEF g
  <2> QED BY <1>6
<1> QED
  <2> HIDE DEF Good, g
  <2> QED BY <1>2, <1>7

\* The selected are candidates from different places, and from all where there is room.
Selection(selected, candidates) ==
  \E place \in [DOMAIN selected -> DOMAIN candidates] :
    /\ \A k \in DOMAIN selected : selected[k] = candidates[place[k]]
    /\ \A k, l \in DOMAIN selected : place[k] = place[l] => k = l
    /\ Len(candidates) <= request.limit =>
         \A j \in DOMAIN candidates : \E k \in DOMAIN selected : place[k] = j

\* What maximal marginal relevance selects is such a selection, and is within the limit.
LEMMA ChosenProperties ==
  ASSUME NEW candidates \in Seq(Candidates), score \in [Records -> Nat],
         request.limit \in 1..MaxResults, MaxResults \in Nat
  PROVE  /\ Chosen(candidates) \in Seq(Candidates)
         /\ Len(Chosen(candidates)) <= request.limit
         /\ Selection(Chosen(candidates), candidates)
<1> DEFINE D == DOMAIN candidates
           n == Len(candidates)
           room == Least(Clamp(request.limit, MaxResults), n)
           place == CHOOSE f : f = [k \in D |-> Best(candidates, {f[m] : m \in 1..(k - 1)})]
           c == Chosen(candidates)
<1>1. /\ D = 1..n /\ n \in Nat
      /\ \A k \in D : candidates[k] \in Candidates
  OBVIOUS
<1> HIDE DEF n
<1>2. /\ room \in 0..n /\ room <= request.limit
      /\ n <= request.limit => room = n
  <2>1. Clamp(request.limit, MaxResults) = request.limit /\ request.limit \in Nat
    BY DEF Least, Clamp
  <2>2. room = Least(request.limit, n)
    BY <2>1
  <2> HIDE DEF room
  <2> QED BY <1>1, <2>1, <2>2 DEF Least
<1>3. c = [k \in 1..room |-> candidates[place[k]]]
  BY DEF Chosen, n
<1>4. place = [k \in D |-> Best(candidates, {place[m] : m \in 1..(k - 1)})]
  <2>1. PICK f : \A k \in 1..n : f[k] = Best(candidates, {f[m] : m \in 1..(k - 1)})
    BY <1>1, PlacesExist
  <2> DEFINE g == [k \in D |-> f[k]]
  <2>2. ASSUME NEW k \in D PROVE g[k] = Best(candidates, {g[m] : m \in 1..(k - 1)})
    <3>1. \A m \in 1..(k - 1) : m \in D /\ g[m] = f[m]
      BY <1>1
    <3>2. g[k] = f[k] /\ k \in 1..n
      BY <1>1
    <3> HIDE DEF g
    <3>3. {g[m] : m \in 1..(k - 1)} = {f[m] : m \in 1..(k - 1)}
      BY <3>1
    <3> QED BY <2>1, <3>2, <3>3
  <2>3. g = [k \in D |-> Best(candidates, {g[m] : m \in 1..(k - 1)})]
    <3>1. g = [k \in D |-> g[k]]
      OBVIOUS
    <3> HIDE DEF g
    <3> QED BY <2>2, <3>1
  <2>4. \E h : h = [k \in D |-> Best(candidates, {h[m] : m \in 1..(k - 1)})]
    <3> HIDE DEF g, D
    <3> QED BY <2>3
  <2> HIDE DEF D, g
  <2> QED BY <2>4
<1> HIDE DEF place, room, c, D
<1>5. \A k \in D : place[k] = Best(candidates, {place[m] : m \in 1..(k - 1)})
  BY <1>4
<1>6. IsFiniteSet(D) /\ Cardinality(D) = n
  BY <1>1, IntervalSize
<1> DEFINE taken == [k \in D |-> {place[m] : m \in 1..(k - 1)}]
           Bad == {k \in D : place[k] \notin D \ taken[k]}
<1>7. \A k \in D : place[k] \in D \ taken[k]
  <2> SUFFICES ASSUME Bad # {} PROVE FALSE
    OBVIOUS
  <2>1. PICK k \in Bad : \A l \in Bad : k <= l
    <3>1. Bad \subseteq D /\ Bad # {}
      OBVIOUS
    <3> HIDE DEF Bad
    <3>2. Bad \in SUBSET Nat
      BY <1>1, <3>1
    <3> QED BY <3>1, <3>2, LeastOfSet
  <2>2. k \in D /\ k \in Nat /\ 1 <= k /\ k <= n
    BY <1>1, <2>1
  <2>3. \A m \in 1..(k - 1) : place[m] \in D
    <3>1. \A m \in 1..(k - 1) : m \in D /\ m \notin Bad
      BY <1>1, <2>1, <2>2
    <3> QED BY <3>1
  <2> DEFINE T == {place[m] : m \in 1..(k - 1)}
             p == [m \in 1..(k - 1) |-> place[m]]
  <2>4. Cardinality(T) <= k - 1 /\ IsFiniteSet(T)
    <3>1. IsFiniteSet(1..(k - 1)) /\ Cardinality(1..(k - 1)) = k - 1
      <4> DEFINE j == k - 1
      <4>1. j \in Nat
        BY <2>2
      <4> HIDE DEF j
      <4>2. IsFiniteSet(1..j) /\ Cardinality(1..j) = j
        BY <4>1, IntervalSize
      <4> QED BY <4>2 DEF j
    <3>2. p \in Surjection(1..(k - 1), T)
      BY DEF Surjection
    <3> HIDE DEF T, p
    <3>3. IsFiniteSet(T) /\ Cardinality(T) <= Cardinality(1..(k - 1))
      BY <3>1, <3>2, FS_Surjection
    <3> QED BY <3>1, <3>3
  <2>5. D \ T # {}
    <3>1. T \subseteq D
      BY <2>3
    <3>2. T # D
      <4> HIDE DEF T
      <4> QED BY <1>1, <1>6, <2>2, <2>4
    <3> QED BY <3>1, <3>2
  <2>6. Best(candidates, T) \in D \ T
    <3>1. T \in SUBSET D
      BY <2>3
    <3> HIDE DEF T
    <3> QED BY <2>5, <3>1, BestIsLeft DEF D
  <2>7. place[k] \in D \ T /\ taken[k] = T
    BY <1>5, <2>2, <2>6
  <2> QED BY <2>1, <2>7
<1>8. place \in [D -> D]
  <2>1. place = [k \in D |-> place[k]]
    BY <1>4
  <2> QED BY <1>7, <2>1
<1>9. \A k, l \in D : place[k] = place[l] => k = l
  <2>1. ASSUME NEW k \in D, NEW l \in D, k < l PROVE place[k] # place[l]
    <3>1. k \in 1..(l - 1)
      BY <1>1, <2>1
    <3>2. place[k] \in taken[l]
      BY <3>1
    <3> QED BY <1>7, <3>2
  <2> QED BY <1>1, <2>1
<1>10. \A j \in D : \E k \in D : place[k] = j
  <2>1. place \in Injection(D, D)
    BY <1>8, <1>9 DEF Injection, IsInjective
  <2>2. place \in Surjection(D, D)
    BY <1>6, <2>1, FS_Injection
  <2> QED BY <2>2 DEF Surjection
<1> DEFINE p == [k \in 1..room |-> place[k]]
<1>11. /\ 1..room \subseteq D
       /\ c \in Seq(Candidates) /\ Len(c) = room /\ DOMAIN c = 1..room
  <2>1. 1..room \subseteq D /\ room \in Nat
    BY <1>1, <1>2
  <2>2. \A k \in 1..room : candidates[place[k]] \in Candidates
    BY <1>1, <1>8, <2>1
  <2> QED BY <1>3, <2>1, <2>2
<1>12. /\ p \in [DOMAIN c -> D]
       /\ \A k \in DOMAIN c : c[k] = candidates[p[k]]
       /\ \A k, l \in DOMAIN c : p[k] = p[l] => k = l
       /\ n <= request.limit => \A j \in D : \E k \in DOMAIN c : p[k] = j
  <2>1. \A k \in DOMAIN c : p[k] = place[k] /\ k \in D
    BY <1>11
  <2>2. p \in [DOMAIN c -> D]
    BY <1>8, <1>11
  <2>3. \A k \in DOMAIN c : c[k] = candidates[p[k]]
    BY <1>3, <1>11, <2>1
  <2> HIDE DEF p
  <2>4. \A k, l \in DOMAIN c : p[k] = p[l] => k = l
    BY <1>9, <2>1
  <2>5. n <= request.limit => DOMAIN c = D
    BY <1>1, <1>2, <1>11
  <2>6. n <= request.limit => \A j \in D : \E k \in DOMAIN c : p[k] = j
    BY <1>10, <2>1, <2>5
  <2> QED BY <2>2, <2>3, <2>4, <2>6
<1> HIDE DEF p
<1>13. Len(c) <= request.limit
  BY <1>1, <1>2, <1>11
<1> QED BY <1>11, <1>12, <1>13 DEF Selection, c, D, n

\* A search's hits in SQLite, sorted by the words they match, are the same hits.
LEMMA SortedMatches ==
  ASSUME NEW s \in Seq(Records), row \in [Records -> Versions \cup {Absent}]
  PROVE  /\ ByMatches(s) \in Seq(Records)
         /\ ToSet(ByMatches(s)) = ToSet(s)
         /\ IsInjective(s) => IsInjective(ByMatches(s))
<1> DEFINE t == ByMatches(s)
           key == [i \in DOMAIN s |-> row[s[i]].matched]
           before == [i \in DOMAIN s |->
                       {j \in DOMAIN s : row[s[j]].matched > row[s[i]].matched
                                         \/ (~(row[s[i]].matched > row[s[j]].matched) /\ j <= i)}]
<1>1. \A i \in DOMAIN s : key[i] \in Int
  <2>1. \A i \in DOMAIN s : s[i] \in Records
    OBVIOUS
  <2>2. \A r \in Records : row[r].matched \in Nat
    BY DEF Versions, Absent
  <2> QED BY <2>1, <2>2
<1>2. before \in [DOMAIN s -> SUBSET DOMAIN s]
  OBVIOUS
<1>3. \A i, j \in DOMAIN s :
        j \in before[i] <=> key[j] > key[i] \/ (~(key[i] > key[j]) /\ j <= i)
  OBVIOUS
<1>4. t = [k \in DOMAIN s |-> s[CHOOSE i \in DOMAIN s :
             Cardinality({j \in DOMAIN s : row[s[j]].matched > row[s[i]].matched
                                            \/ (~(row[s[i]].matched > row[s[j]].matched) /\ j <= i)}) = k]]
  BY DEF Sorted, ByMatches
<1>5. \A k \in DOMAIN s : (\E i \in DOMAIN s : Cardinality(before[i]) = k)
        => \E i \in DOMAIN s : Cardinality(before[i]) = k /\ t[k] = s[i]
  <2> TAKE k \in DOMAIN s
  <2> HAVE \E i \in DOMAIN s : Cardinality(before[i]) = k
  <2> DEFINE p == CHOOSE i \in DOMAIN s : Cardinality(
                    {j \in DOMAIN s : row[s[j]].matched > row[s[i]].matched
                                   \/ (~(row[s[i]].matched > row[s[j]].matched) /\ j <= i)}) = k
  <2>1. t[k] = s[p]
    BY <1>4
  <2>2. \A l \in DOMAIN s : before[l] =
                    {j \in DOMAIN s : row[s[j]].matched > row[s[l]].matched
                                   \/ (~(row[s[l]].matched > row[s[j]].matched) /\ j <= l)}
    OBVIOUS
  <2>3. \E i \in DOMAIN s : Cardinality(
                    {j \in DOMAIN s : row[s[j]].matched > row[s[i]].matched
                                   \/ (~(row[s[i]].matched > row[s[j]].matched) /\ j <= i)}) = k
    BY <2>2
  <2>4. p \in DOMAIN s /\ Cardinality(before[p]) = k
    <3>1. p \in DOMAIN s /\ Cardinality(
                    {j \in DOMAIN s : row[s[j]].matched > row[s[p]].matched
                                   \/ (~(row[s[p]].matched > row[s[j]].matched) /\ j <= p)}) = k
      BY <2>3
    <3> QED BY <2>2, <3>1
  <2> HIDE DEF p, before
  <2> QED BY <2>1, <2>4
<1>0. t = [k \in DOMAIN s |-> t[k]]
  BY <1>4
<1> HIDE DEF key, before, t
<1>6. Sorts(t, s, key, before)
  BY <1>0, <1>1, <1>2, <1>3, <1>5 DEF Sorts
<1>8. t \in Seq(Records) /\ Rearranges(t, s)
  BY <1>6, SortedProperties
<1>7. DOMAIN t = DOMAIN s
  BY <1>8 DEF Rearranges
<1> QED BY <1>8, <1>7 DEF Rearranges, ToSet, IsInjective, t

\* The candidates, sorted by their scores, are the same candidates.
LEMMA SortedCandidates ==
  ASSUME NEW s \in Seq(Candidates), score \in [Records -> Nat]
  PROVE  ByScore(s) \in Seq(Candidates) /\ Rearranges(ByScore(s), s)
<1> DEFINE t == ByScore(s)
           key == [i \in DOMAIN s |-> score[s[i].id]]
           before == [i \in DOMAIN s |->
                       {j \in DOMAIN s : score[s[j].id] > score[s[i].id]
                                         \/ (~(score[s[i].id] > score[s[j].id]) /\ j <= i)}]
<1>1. \A i \in DOMAIN s : key[i] \in Int
  <2>1. \A i \in DOMAIN s : s[i] \in Candidates
    OBVIOUS
  <2>2. \A i \in DOMAIN s : s[i].id \in Records
    BY <2>1 DEF Candidates
  <2> QED BY <2>2
<1>2. before \in [DOMAIN s -> SUBSET DOMAIN s]
  OBVIOUS
<1>3. \A i, j \in DOMAIN s :
        j \in before[i] <=> key[j] > key[i] \/ (~(key[i] > key[j]) /\ j <= i)
  OBVIOUS
<1>4. t = [k \in DOMAIN s |-> s[CHOOSE i \in DOMAIN s :
             Cardinality({j \in DOMAIN s : score[s[j].id] > score[s[i].id]
                                            \/ (~(score[s[i].id] > score[s[j].id]) /\ j <= i)}) = k]]
  BY DEF Sorted, ByScore
<1>5. \A k \in DOMAIN s : (\E i \in DOMAIN s : Cardinality(before[i]) = k)
        => \E i \in DOMAIN s : Cardinality(before[i]) = k /\ t[k] = s[i]
  <2> TAKE k \in DOMAIN s
  <2> HAVE \E i \in DOMAIN s : Cardinality(before[i]) = k
  <2> DEFINE p == CHOOSE i \in DOMAIN s : Cardinality(
                    {j \in DOMAIN s : score[s[j].id] > score[s[i].id]
                                   \/ (~(score[s[i].id] > score[s[j].id]) /\ j <= i)}) = k
  <2>1. t[k] = s[p]
    BY <1>4
  <2>2. \A l \in DOMAIN s : before[l] =
                    {j \in DOMAIN s : score[s[j].id] > score[s[l].id]
                                   \/ (~(score[s[l].id] > score[s[j].id]) /\ j <= l)}
    OBVIOUS
  <2>3. \E i \in DOMAIN s : Cardinality(
                    {j \in DOMAIN s : score[s[j].id] > score[s[i].id]
                                   \/ (~(score[s[i].id] > score[s[j].id]) /\ j <= i)}) = k
    BY <2>2
  <2>4. p \in DOMAIN s /\ Cardinality(before[p]) = k
    <3>1. p \in DOMAIN s /\ Cardinality(
                    {j \in DOMAIN s : score[s[j].id] > score[s[p].id]
                                   \/ (~(score[s[p].id] > score[s[j].id]) /\ j <= p)}) = k
      BY <2>3
    <3> QED BY <2>2, <3>1
  <2> HIDE DEF p, before
  <2> QED BY <2>1, <2>4
<1>0. t = [k \in DOMAIN s |-> t[k]]
  BY <1>4
<1> HIDE DEF key, before, t
<1>6. Sorts(t, s, key, before)
  BY <1>0, <1>1, <1>2, <1>3, <1>5 DEF Sorts
<1> QED BY <1>6, SortedProperties DEF t

\* Items with an id each are as many as their ids.
LEMMA DistinctItems ==
  ASSUME NEW T, \A x \in T : x.id \in Records, NEW s \in Seq(T),
         \A k, l \in DOMAIN s : s[k].id = s[l].id => k = l
  PROVE  /\ Cardinality(Ids(s)) = Len(s)
         /\ Len(s) <= Cardinality(Records) /\ Cardinality(Records) \in Nat
<1> DEFINE n == Len(s)
           f == [k \in 1..n |-> s[k].id]
<1>1. /\ n \in Nat /\ DOMAIN s = 1..n /\ Ids(s) = {f[k] : k \in 1..n}
      /\ \A k \in 1..n : f[k] \in Records
  <2>1. n \in Nat /\ DOMAIN s = 1..n /\ \A k \in 1..n : s[k] \in T
    OBVIOUS
  <2>2. Ids(s) = {f[k] : k \in 1..n}
    BY <2>1 DEF Ids
  <2>3. \A k \in 1..n : f[k] \in Records
    BY <2>1
  <2> QED BY <2>1, <2>2, <2>3
<1>2. \A k, l \in 1..n : f[k] = f[l] => k = l
  BY <1>1
<1>3. f = [k \in 1..n |-> f[k]]
  OBVIOUS
<1> HIDE DEF n, f
<1>4. f \in Injection(1..n, Records) /\ f \in Surjection(1..n, Ids(s))
  BY <1>1, <1>2, <1>3 DEF Injection, Surjection, IsInjective
<1>5. f \in Injection(1..n, Ids(s))
  BY <1>1, <1>2, <1>3 DEF Injection, IsInjective
<1>6. IsFiniteSet(1..n) /\ Cardinality(1..n) = n
  BY <1>1, IntervalSize
<1>7. Cardinality(Ids(s)) = n
  BY <1>4, <1>5, <1>6, FS_Surjection
<1>8. IsFiniteSet(Records) /\ Cardinality(Records) \in Nat
  BY MemoryGraphAssumption, FS_CardinalityType
<1>9. n <= Cardinality(Records)
  BY <1>4, <1>6, <1>8, FS_Injection
<1> QED BY <1>7, <1>8, <1>9 DEF n

\* So are candidates.
LEMMA DistinctIds ==
  ASSUME NEW s \in Seq(Candidates), \A k, l \in DOMAIN s : s[k].id = s[l].id => k = l
  PROVE  /\ Cardinality(Ids(s)) = Len(s)
         /\ Len(s) <= Cardinality(Records) /\ Cardinality(Records) \in Nat
<1>1. \A x \in Candidates : x.id \in Records
  BY DEF Candidates
<1> QED BY <1>1, DistinctItems

\* A list of records without repetitions is no longer than there are records.
LEMMA InjectiveLength ==
  ASSUME NEW s \in Seq(Records), IsInjective(s)
  PROVE  Len(s) <= Cardinality(Records) /\ Cardinality(Records) \in Nat
<1> DEFINE n == Len(s)
<1>1. n \in Nat /\ s \in [1..n -> Records]
  OBVIOUS
<1> HIDE DEF n
<1>2. s \in Injection(1..n, Records)
  BY <1>1 DEF Injection
<1>3. IsFiniteSet(1..n) /\ Cardinality(1..n) = n
  BY <1>1, IntervalSize
<1>4. IsFiniteSet(Records) /\ Cardinality(Records) \in Nat
  BY MemoryGraphAssumption, FS_CardinalityType
<1> QED BY <1>2, <1>3, <1>4, FS_Injection DEF n

\* A share of a ranking is a number.
LEMMA ShareType ==
  ASSUME NEW hits \in Seq(Records), NEW r \in Records
  PROVE  Share(hits, r) \in Nat
<1>1. RrfK \in Nat
  <2>1. {RrfK, MaxTouched, MaxDepth} \subseteq Nat
    BY MemoryGraphAssumption
  <2> QED BY <2>1
<1>2. \A k \in DOMAIN hits : Rrf(k) \in Nat
  <2> TAKE k \in DOMAIN hits
  <2>1. RrfK + k \in Nat \ {0}
    BY <1>1
  <2> DEFINE d == RrfK + k
  <2> HIDE DEF d
  <2>2. \A e \in Nat \ {0} : 1000000 \div e \in Nat
    OBVIOUS
  <2> QED BY <2>1, <2>2 DEF Rrf
<1>3. r \in ToSet(hits) => \E k \in DOMAIN hits : hits[k] = r
  BY DEF ToSet
<1> QED BY <1>2, <1>3 DEF Share

-----------------------------------------------------------------------------
(* What a search finds in SQLite *)

Room == request.limit >= Cardinality(Records)

\* The hits match, none is there twice, and with room for all records none is missing.
LEMMA SqliteHitsProperties ==
  ASSUME TypeOK, request.kind = "search"
  PROVE  /\ SqliteHits \in Seq(Records) /\ IsInjective(SqliteHits)
         /\ \A k \in DOMAIN SqliteHits : row[SqliteHits[k]].matched > 0
         /\ Room => \A r \in Records : row[r].matched > 0 => r \in ToSet(SqliteHits)
<1> DEFINE latest == Reverse(updated)
           places == {k \in DOMAIN latest : row[latest[k]].matched > 0}
           matching == Items(latest, places)
           sorted == ByMatches(matching)
           top == Max({4 * request.limit, MinCandidates})
<1>1. /\ row \in [Records -> Versions \cup {Absent}]
      /\ updated \in Seq(Records) /\ IsInjective(updated)
      /\ Active(row) \subseteq ToSet(updated)
  BY DEF TypeOK
<1>2. /\ latest \in Seq(Records) /\ IsInjective(latest)
      /\ ToSet(latest) = ToSet(updated)
  BY <1>1, ReverseProperties
<1> HIDE DEF latest
<1>3. /\ matching \in Seq(Records) /\ IsInjective(matching)
      /\ ToSet(matching) = {latest[i] : i \in places}
  <2>1. places \in SUBSET DOMAIN latest
    OBVIOUS
  <2>2. \A i, j \in places : latest[i] = latest[j] => i = j
    BY <1>2 DEF IsInjective
  <2> HIDE DEF places
  <2> QED BY <1>2, <2>1, <2>2, ItemsProperties
<1>4. /\ sorted \in Seq(Records) /\ IsInjective(sorted)
      /\ ToSet(sorted) = {latest[i] : i \in places}
  <2> HIDE DEF matching, places
  <2> QED BY <1>1, <1>3, SortedMatches
<1>5. request.limit \in Nat /\ top \in Nat /\ top >= request.limit
  <2>1. request.limit \in 1..MaxResults /\ MaxResults \in Nat /\ MinCandidates \in Nat
    <3>1. {MinCandidates, MaxResults, MaxNodes, MaxSources} \subseteq Nat \ {0}
      BY MemoryGraphAssumption
    <3> QED BY <3>1 DEF TypeOK, IsRequest
  <2> DEFINE a == 4 * request.limit
             b == MinCandidates
  <2>2. request.limit \in Nat /\ a \in Nat /\ b \in Nat /\ a >= request.limit
    BY <2>1
  <2> HIDE DEF a, b
  <2>3. Max({a, b}) \in {a, b} /\ Max({a, b}) >= a
    <3>1. \E m \in {a, b} : \A n \in {a, b} : n <= m
      BY <2>2
    <3> QED BY <2>2, <3>1 DEF Max
  <2> QED BY <2>2, <2>3 DEF a, b
<1>6. SqliteHits = Upto(sorted, top)
  BY DEF SqliteHits, latest
<1> HIDE DEF sorted, top, matching
<1>7. /\ SqliteHits \in Seq(Records)
      /\ \A k \in DOMAIN SqliteHits : k \in DOMAIN sorted /\ SqliteHits[k] = sorted[k]
      /\ Len(sorted) <= top => SqliteHits = sorted
  BY <1>4, <1>5, <1>6, UptoProperties
<1>8. IsInjective(SqliteHits)
  BY <1>4, <1>7 DEF IsInjective
<1>9. \A k \in DOMAIN SqliteHits : row[SqliteHits[k]].matched > 0
  <2>1. \A k \in DOMAIN sorted : sorted[k] \in {latest[i] : i \in places}
    BY <1>4 DEF ToSet
  <2>2. \A x \in {latest[i] : i \in places} : row[x].matched > 0
    OBVIOUS
  <2> HIDE DEF places
  <2> QED BY <1>7, <2>1, <2>2
<1>10. ASSUME Room, NEW r \in Records, row[r].matched > 0 PROVE r \in ToSet(SqliteHits)
  <2>1. r \in ToSet(latest)
    <3>1. row[r] # Absent
      BY <1>10 DEF Absent
    <3> QED BY <1>1, <1>2, <3>1 DEF Active
  <2>2. r \in ToSet(sorted)
    <3>1. PICK i \in DOMAIN latest : latest[i] = r
      BY <2>1 DEF ToSet
    <3>2. i \in places
      BY <1>10, <3>1
    <3> HIDE DEF places
    <3> QED BY <1>4, <3>1, <3>2
  <2>3. Len(sorted) <= top
    <3>1. Len(sorted) <= Cardinality(Records) /\ Cardinality(Records) \in Nat
      BY <1>4, InjectiveLength
    <3> QED BY <1>4, <1>5, <1>10, <3>1 DEF Room
  <2> QED BY <1>7, <2>2, <2>3
<1> QED BY <1>7, <1>8, <1>9, <1>10

-----------------------------------------------------------------------------
(* The inductive invariant *)

\* An id is read once.
FoundOnce == \A k, l \in DOMAIN found : found[k].id = found[l].id => k = l

\* What is active now, and what was read, has been active since the request began.
AllSeen == Pairs(row) \subseteq seen /\ ToSet(found) \subseteq seen

\* Before its first read a request has read nothing and nobody has written.
NothingYet == step = "start" => touched = {} /\ found = <<>>

\* With room for all records, what matches and was left alone has been found by SQLite.
MatchesFound ==
  request.kind = "search" /\ step \in {"index", "fetch", "expand", "select"} /\ Room =>
    \A r \in Records \ touched : row[r].matched > 0 => Pair(r) \in ToSet(found)

\* What has been read, and then what is to be read, is in the order asked.
AskedOrder(ids, read, left) ==
  /\ \A i, j \in DOMAIN read : i < j => FirstPlace(ids, read[i].id) < FirstPlace(ids, read[j].id)
  /\ \A i, j \in DOMAIN left : i < j => FirstPlace(ids, left[i]) < FirstPlace(ids, left[j])
  /\ \A i \in DOMAIN read, j \in DOMAIN left :
       FirstPlace(ids, read[i].id) < FirstPlace(ids, left[j])

\* A compaction has each of its sources still to read, or has read it, and not both.
SourcesInHand ==
  request.kind = "compact" /\ step = "fetch" =>
    /\ IsInjective(todo) /\ ToSet(todo) \cap Ids(found) = {}
    /\ ToSet(todo) \cup Ids(found) = ToSet(request.ids)
    /\ AskedOrder(request.ids, found, todo)

Results == HitsWereThere /\ MatchesReturned /\ SourcesNamed

IInv ==
  /\ TypeOK /\ FoundOnce /\ AllSeen /\ NothingYet
  /\ MatchesFound /\ SourcesInHand /\ Results

\* Results are about requests that are done.
LEMMA NoResultsYet ==
  ASSUME step' # "done"
  PROVE  Results'
BY DEF Results, HitsWereThere, MatchesReturned, SourcesNamed, Returned

\* An active record is a candidate, and has been seen.
LEMMA ActiveCandidate ==
  ASSUME TypeOK, AllSeen, NEW r \in Records, row[r] # Absent
  PROVE  Pair(r) \in Candidates /\ Pair(r).id = r /\ Pair(r) \in seen
<1>1. row[r] \in Versions
  BY DEF TypeOK
<1>2. Pair(r) \in Pairs(row)
  BY DEF Pairs, Pair, Active
<1> QED BY <1>1, <1>2 DEF Pair, Candidates, AllSeen

-----------------------------------------------------------------------------
(* The initial states *)

\* A request that has not begun.
LEMMA InitHolds == ASSUME Init PROVE IInv
<1>1. PICK s \in Starts :
        request = s.request /\ row = s.row /\ created = s.created /\ updated = s.created
  BY DEF Init
<1>2. /\ IsRequest(s.request)
      /\ s.row \in [Records -> Versions \cup {Absent}]
      /\ s.created \in Seq(Records) /\ IsInjective(s.created)
      /\ Active(s.row) \subseteq ToSet(s.created)
  BY StartsAssumption
<1>3. TypeOK
  <2>1. Cardinality(touched) <= MaxTouched /\ touched \subseteq Records
    <3>1. {RrfK, MaxTouched, MaxDepth} \subseteq Nat
      BY MemoryGraphAssumption
    <3>2. Cardinality({}) = 0
      BY FS_EmptySet
    <3> QED BY <3>1, <3>2 DEF Init
  <2>2. todo \in Seq(Records) /\ found \in Seq(Candidates) /\ score \in [Records -> Nat]
    BY DEF Init
  <2>3. step \in {"start", "index", "fetch", "expand", "select", "done", "failed"}
    BY DEF Init
  <2> QED BY <1>1, <1>2, <2>1, <2>2, <2>3 DEF TypeOK
<1>4. FoundOnce /\ AllSeen /\ NothingYet
  BY DEF Init, FoundOnce, AllSeen, NothingYet, ToSet
<1>5. MatchesFound /\ SourcesInHand
  BY DEF Init, MatchesFound, SourcesInHand
<1>6. Results
  BY DEF Init, Results, HitsWereThere, MatchesReturned, SourcesNamed, Returned
<1> QED BY <1>3, <1>4, <1>5, <1>6 DEF IInv

-----------------------------------------------------------------------------
(* search *)

\* A request is of one kind.
LEMMA Kinds ==
  /\ request.kind = "search" => request.kind # "compact" /\ request.kind # "provenance"
  /\ request.kind = "compact" => request.kind # "search" /\ request.kind # "provenance"
  /\ request.kind = "provenance" => request.kind # "search" /\ request.kind # "compact"
OBVIOUS

\* The hits of SQLite are active records, each once, and all that match where there is room.
LEMMA SearchSqliteKeeps == ASSUME IInv, SearchSqlite PROVE IInv'
<1> DEFINE hits == SqliteHits
<1>1. /\ request.kind = "search" /\ step = "start" /\ step' = "index"
      /\ UNCHANGED <<request, touched, row, created, updated, seen, todo, result>>
      /\ found' = [k \in DOMAIN hits |-> Pair(hits[k])]
      /\ score' = [r \in Records |-> Share(hits, r)]
  BY DEF SearchSqlite, Searching, Goes, store
<1>2. TypeOK /\ AllSeen /\ touched = {}
  BY <1>1 DEF IInv, NothingYet
<1>3. /\ hits \in Seq(Records) /\ IsInjective(hits)
      /\ \A k \in DOMAIN hits : row[hits[k]].matched > 0
      /\ Room => \A r \in Records : row[r].matched > 0 => r \in ToSet(hits)
  BY <1>1, <1>2, SqliteHitsProperties
<1> HIDE DEF hits
<1>4. \A k \in DOMAIN hits : hits[k] \in Records /\ row[hits[k]] # Absent
  BY <1>3 DEF Absent
<1>5. \A k \in DOMAIN hits :
        Pair(hits[k]) \in Candidates /\ Pair(hits[k]).id = hits[k] /\ Pair(hits[k]) \in seen
  BY <1>2, <1>4, ActiveCandidate
<1>6. /\ DOMAIN found' = DOMAIN hits /\ found' \in Seq(Candidates)
      /\ \A k \in DOMAIN hits : found'[k] = Pair(hits[k])
  BY <1>1, <1>3, <1>5
<1>7. TypeOK'
  <2>1. score' \in [Records -> Nat]
    BY <1>1, <1>3, ShareType
  <2>2. /\ IsRequest(request') /\ row' \in [Records -> Versions \cup {Absent}]
        /\ created' \in Seq(Records) /\ IsInjective(created')
        /\ updated' \in Seq(Records) /\ IsInjective(updated')
        /\ Active(row') \subseteq ToSet(created') /\ ToSet(created') = ToSet(updated')
        /\ todo' \in Seq(Records)
        /\ touched' \subseteq Records /\ Cardinality(touched') <= MaxTouched
    BY <1>1, <1>2 DEF TypeOK
  <2> QED BY <1>1, <1>6, <2>1, <2>2 DEF TypeOK
<1>8. FoundOnce'
  BY <1>3, <1>5, <1>6 DEF FoundOnce, IsInjective
<1>9. AllSeen'
  BY <1>1, <1>2, <1>5, <1>6 DEF AllSeen, ToSet
<1>10. NothingYet' /\ SourcesInHand'
  BY <1>1 DEF NothingYet, SourcesInHand
<1>11. MatchesFound'
  <2>1. ASSUME Room, NEW r \in Records, row[r].matched > 0 PROVE Pair(r) \in ToSet(found')
    <3>1. PICK k \in DOMAIN hits : hits[k] = r
      BY <1>3, <2>1 DEF ToSet
    <3> QED BY <1>6, <3>1 DEF ToSet
  <2> QED BY <1>1, <2>1 DEF MatchesFound, Room, Pair
<1>12. Results'
  BY <1>1, NoResultsYet
<1> QED BY <1>7, <1>8, <1>9, <1>10, <1>11, <1>12 DEF IInv

\* The answer of the index changes only scores and what is still to read.
LEMMA SearchIndexKeeps == ASSUME IInv, SearchIndex PROVE IInv'
<1>1. /\ request.kind = "search" /\ step = "index" /\ step' = "fetch"
      /\ UNCHANGED <<request, touched, row, created, updated, seen, found, result>>
  BY DEF SearchIndex, Searching, Goes, store
<1>2. PICK hits \in IndexHits : todo' = hits /\ score' = [r \in Records |-> score[r] + Share(hits, r)]
  BY DEF SearchIndex
<1>3. hits \in Seq(Records)
  BY MemoryGraphAssumption
<1>4. TypeOK'
  <2>1. score' \in [Records -> Nat]
    <3>1. \A r \in Records : score[r] \in Nat /\ Share(hits, r) \in Nat
      BY <1>3, ShareType DEF IInv, TypeOK
    <3> QED BY <1>2, <3>1
  <2> QED BY <1>1, <1>2, <1>3, <2>1 DEF IInv, TypeOK, Active
<1>5. FoundOnce' /\ AllSeen' /\ NothingYet' /\ SourcesInHand'
  BY <1>1 DEF IInv, FoundOnce, AllSeen, Pairs, Active, NothingYet, SourcesInHand
<1>6. MatchesFound'
  BY <1>1 DEF IInv, MatchesFound, Room, Pair
<1>7. Results'
  BY <1>1, NoResultsYet
<1> QED BY <1>4, <1>5, <1>6, <1>7 DEF IInv

\* One more candidate, with an id that none had, keeps the ids apart.
LEMMA OneMoreFound ==
  ASSUME TypeOK, FoundOnce, NEW p \in Candidates, p.id \notin Ids(found),
         found' = Append(found, p)
  PROVE  /\ found' \in Seq(Candidates) /\ FoundOnce'
         /\ ToSet(found') = ToSet(found) \cup {p} /\ Ids(found') = Ids(found) \cup {p.id}
<1> DEFINE n == Len(found)
<1>1. /\ found \in Seq(Candidates) /\ n \in Nat /\ DOMAIN found = 1..n
      /\ \A k \in 1..n : found[k].id # p.id
  BY DEF TypeOK, Ids
<1>2. /\ found' \in Seq(Candidates) /\ DOMAIN found' = 1..(n + 1)
      /\ \A k \in 1..n : found'[k] = found[k]
      /\ found'[n + 1] = p
  BY <1>1
<1> HIDE DEF n
<1>3. \A k \in 1..(n + 1) : k \in 1..n \/ k = n + 1
  BY <1>1
<1>4. n + 1 \in 1..(n + 1) /\ \A k \in 1..n : k \in 1..(n + 1)
  BY <1>1
<1>5. FoundOnce'
  <2>1. \A k, l \in 1..(n + 1) : found'[k].id = found'[l].id => k = l
    BY <1>1, <1>2, <1>3 DEF FoundOnce
  <2> QED BY <1>2, <2>1 DEF FoundOnce
<1>6. ToSet(found') = ToSet(found) \cup {p}
  BY <1>1, <1>2, <1>3, <1>4 DEF ToSet
<1>7. Ids(found') = Ids(found) \cup {p.id}
  BY <1>1, <1>2, <1>3, <1>4 DEF Ids
<1> QED BY <1>2, <1>5, <1>6, <1>7

\* A request that goes on and reads leaves the store as it was.
LEMMA StoreTyped ==
  ASSUME TypeOK, UNCHANGED <<request, touched, row, created, updated>>
  PROVE  /\ IsRequest(request') /\ row' \in [Records -> Versions \cup {Absent}]
         /\ created' \in Seq(Records) /\ IsInjective(created')
         /\ updated' \in Seq(Records) /\ IsInjective(updated')
         /\ Active(row') \subseteq ToSet(created') /\ ToSet(created') = ToSet(updated')
         /\ touched' \subseteq Records /\ Cardinality(touched') <= MaxTouched
BY DEF TypeOK

\* A hit of the index is read once, and only while it is active.
LEMMA FetchHitKeeps == ASSUME IInv, FetchHit PROVE IInv'
<1>1. /\ request.kind = "search" /\ step = "fetch"
      /\ UNCHANGED <<request, touched, row, created, updated, seen, score, result>>
  BY DEF FetchHit, Searching, Goes, store
<1>2. TypeOK /\ FoundOnce /\ AllSeen /\ MatchesFound
  BY DEF IInv
<1>3. CASE todo = <<>>
  <2>1. /\ step' = "expand" /\ found' = found
        /\ todo' = [k \in DOMAIN Upto(found, request.limit) |-> found[k].id]
    BY <1>3 DEF FetchHit, Goes
  <2>2. todo' \in Seq(Records)
    <3> DEFINE first == Upto(found, request.limit)
    <3>1. request.limit \in Nat /\ found \in Seq(Candidates)
      <4>1. {MinCandidates, MaxResults, MaxNodes, MaxSources} \subseteq Nat \ {0}
        BY MemoryGraphAssumption
      <4> QED BY <1>1, <1>2, <4>1 DEF TypeOK, IsRequest
    <3>2. first \in Seq(Candidates) /\ \A k \in DOMAIN first : k \in DOMAIN found
      BY <3>1, UptoProperties
    <3> HIDE DEF first
    <3>3. \A k \in DOMAIN first : found[k].id \in Records
      <4>1. \A k \in DOMAIN found : found[k] \in Candidates
        BY <3>1
      <4> QED BY <3>2, <4>1 DEF Candidates
    <3>4. todo' = [k \in DOMAIN first |-> found[k].id]
      BY <2>1 DEF first
    <3> QED BY <3>2, <3>3, <3>4
  <2>3. TypeOK'
    BY <1>1, <1>2, <2>1, <2>2, StoreTyped DEF TypeOK
  <2>4. FoundOnce' /\ AllSeen' /\ NothingYet' /\ SourcesInHand'
    BY <1>1, <1>2, <2>1 DEF FoundOnce, AllSeen, Pairs, Active, NothingYet, SourcesInHand
  <2>5. MatchesFound'
    BY <1>1, <1>2, <2>1 DEF MatchesFound, Room, Pair
  <2>6. Results'
    BY <2>1, NoResultsYet
  <2> QED BY <2>3, <2>4, <2>5, <2>6 DEF IInv
<1>4. CASE todo # <<>>
  <2> DEFINE r == Head(todo)
  <2>1. /\ step' = "fetch" /\ todo' = Tail(todo)
        /\ found' = IF Fetch(r) THEN Append(found, Pair(r)) ELSE found
    BY <1>4 DEF FetchHit, Goes
  <2>2. todo' \in Seq(Records) /\ r \in Records
    BY <1>2, <1>4, <2>1 DEF TypeOK
  <2> HIDE DEF r
  <2>3. found' \in Seq(Candidates) /\ FoundOnce' /\ ToSet(found) \subseteq ToSet(found')
        /\ ToSet(found') \subseteq seen
    <3>1. CASE Fetch(r)
      <4>1. r \notin Ids(found) /\ row[r] # Absent
        BY <3>1 DEF Fetch
      <4>2. Pair(r) \in Candidates /\ Pair(r).id = r /\ Pair(r) \in seen
        BY <1>2, <2>2, <4>1, ActiveCandidate
      <4>3. found' = Append(found, Pair(r))
        BY <2>1, <3>1
      <4> QED BY <1>2, <4>1, <4>2, <4>3, OneMoreFound DEF AllSeen
    <3>2. CASE ~Fetch(r)
      <4>1. found' = found
        BY <2>1, <3>2
      <4> QED BY <1>2, <4>1 DEF TypeOK, FoundOnce, AllSeen
    <3> QED BY <3>1, <3>2
  <2>4. TypeOK'
    BY <1>1, <1>2, <2>1, <2>2, <2>3, StoreTyped DEF TypeOK
  <2>5. AllSeen' /\ NothingYet' /\ SourcesInHand'
    BY <1>1, <1>2, <2>1, <2>3 DEF AllSeen, Pairs, Active, NothingYet, SourcesInHand
  <2>6. MatchesFound'
    BY <1>1, <1>2, <2>1, <2>3 DEF MatchesFound, Room, Pair
  <2>7. Results'
    BY <2>1, NoResultsYet
  <2> QED BY <2>3, <2>4, <2>5, <2>6, <2>7 DEF IInv
<1> QED BY <1>3, <1>4

\* The neighbours of a record are active records, each once.
LEMMA NeighboursProperties ==
  ASSUME TypeOK, NEW r \in Records
  PROVE  /\ Neighbours(r) \in Seq(Records) /\ IsInjective(Neighbours(r))
         /\ \A k \in DOMAIN Neighbours(r) : row[Neighbours(r)[k]] # Absent
<1> DEFINE places == {k \in DOMAIN created : row[created[k]] # Absent}
           timeline == Items(created, places)
           at == CHOOSE k \in DOMAIN timeline : timeline[k] = r
           radius == Clamp(request.radius, 10)
           near == {k \in DOMAIN timeline : k # at /\ k >= at - radius /\ k <= at + radius}
<1>1. created \in Seq(Records) /\ IsInjective(created)
  BY DEF TypeOK
<1>2. /\ timeline \in Seq(Records) /\ IsInjective(timeline)
      /\ ToSet(timeline) = {created[i] : i \in places}
  <2>1. places \in SUBSET DOMAIN created
    OBVIOUS
  <2>2. \A i, j \in places : created[i] = created[j] => i = j
    BY <1>1 DEF IsInjective
  <2> HIDE DEF places
  <2> QED BY <1>1, <2>1, <2>2, ItemsProperties
<1>3. \A k \in DOMAIN timeline : row[timeline[k]] # Absent
  <2>1. \A x \in {created[i] : i \in places} : row[x] # Absent
    OBVIOUS
  <2> HIDE DEF timeline, places
  <2> QED BY <1>2, <2>1 DEF ToSet
<1>4. near \in SUBSET DOMAIN timeline
  OBVIOUS
<1>5. /\ Items(timeline, near) \in Seq(Records) /\ IsInjective(Items(timeline, near))
      /\ ToSet(Items(timeline, near)) = {timeline[i] : i \in near}
  <2> HIDE DEF timeline, near
  <2>1. \A i, j \in near : timeline[i] = timeline[j] => i = j
    BY <1>2, <1>4 DEF IsInjective
  <2> QED BY <1>2, <1>4, <2>1, ItemsProperties
<1>6. \A k \in DOMAIN Items(timeline, near) : row[Items(timeline, near)[k]] # Absent
  <2> HIDE DEF timeline, near
  <2>1. \A x \in {timeline[i] : i \in near} : row[x] # Absent
    BY <1>3, <1>4
  <2> QED BY <1>5, <2>1 DEF ToSet
<1>7. Neighbours(r) = IF row[r] = Absent THEN <<>> ELSE Items(timeline, near)
  BY DEF Neighbours
<1> HIDE DEF timeline, near
<1>8. <<>> \in Seq(Records) /\ IsInjective(<<>>) /\ DOMAIN <<>> = {}
  BY DEF IsInjective
<1> QED BY <1>5, <1>6, <1>7, <1>8

\* What an expansion adds are active records that had not been read.
LEMMA ExpandedProperties ==
  ASSUME TypeOK, FoundOnce, AllSeen, NEW near \in Seq(Records), IsInjective(near),
         \A k \in DOMAIN near : row[near[k]] # Absent,
         found' = Expanded(near)
  PROVE  /\ found' \in Seq(Candidates) /\ FoundOnce'
         /\ ToSet(found) \subseteq ToSet(found') /\ ToSet(found') \subseteq seen
<1> DEFINE places == {k \in DOMAIN near : near[k] \notin Ids(found)}
           new == Items(near, places)
           read == [k \in DOMAIN new |-> Pair(new[k])]
           n == Len(found)
           m == Len(new)
<1>1. /\ new \in Seq(Records) /\ IsInjective(new)
      /\ ToSet(new) = {near[i] : i \in places}
  <2>1. places \in SUBSET DOMAIN near
    OBVIOUS
  <2>2. \A i, j \in places : near[i] = near[j] => i = j
    BY DEF IsInjective
  <2> HIDE DEF places
  <2> QED BY <2>1, <2>2, ItemsProperties
<1>2. \A k \in DOMAIN new :
        new[k] \in Records /\ row[new[k]] # Absent /\ new[k] \notin Ids(found)
  <2>1. \A x \in {near[i] : i \in places} : row[x] # Absent /\ x \notin Ids(found)
    OBVIOUS
  <2> HIDE DEF new, places
  <2> QED BY <1>1, <2>1 DEF ToSet
<1>3. found' = found \o read
  BY DEF Expanded
<1> HIDE DEF new
<1>4. \A k \in DOMAIN new :
        Pair(new[k]) \in Candidates /\ Pair(new[k]).id = new[k] /\ Pair(new[k]) \in seen
  BY <1>2, ActiveCandidate
<1>5. /\ m \in Nat /\ DOMAIN new = 1..m
      /\ read \in Seq(Candidates) /\ Len(read) = m
      /\ \A k \in 1..m : read[k] = Pair(new[k])
  BY <1>1, <1>4
<1>6. /\ n \in Nat /\ DOMAIN found = 1..n /\ found \in Seq(Candidates)
      /\ \A k \in 1..n : found[k].id \in Ids(found)
  BY DEF TypeOK, Ids
<1> HIDE DEF n, m, read
<1>7. /\ found' \in Seq(Candidates) /\ DOMAIN found' = 1..(n + m)
      /\ \A k \in 1..n : found'[k] = found[k]
      /\ \A k \in 1..m : found'[n + k] = read[k]
  <2>1. Len(found) = n /\ Len(read) = m
    BY <1>5 DEF n
  <2>2. /\ found \o read \in Seq(Candidates)
        /\ DOMAIN (found \o read) = 1..(Len(found) + Len(read))
        /\ \A k \in 1..Len(found) : (found \o read)[k] = found[k]
        /\ \A k \in 1..Len(read) : (found \o read)[Len(found) + k] = read[k]
    <3>1. found \in Seq(Candidates) /\ read \in Seq(Candidates)
      BY <1>5, <1>6
    <3> QED BY <3>1, JoinedProperties
  <2> QED BY <1>3, <2>1, <2>2
<1>8. \A k \in 1..(n + m) : k \in 1..n \/ (k - n \in 1..m /\ k = n + (k - n))
  BY <1>5, <1>6
<1>9. /\ \A k \in 1..n : found'[k].id \in Ids(found) /\ found'[k] = found[k]
      /\ \A k \in 1..m : /\ found'[n + k].id = new[k] /\ new[k] \notin Ids(found)
                         /\ found'[n + k] \in seen
  <2>1. \A k \in 1..m : found'[n + k] = Pair(new[k]) /\ k \in DOMAIN new
    BY <1>5, <1>7
  <2> QED BY <1>2, <1>4, <1>6, <1>7, <2>1
<1>10. ASSUME NEW k \in 1..(n + m), NEW l \in 1..(n + m), found'[k].id = found'[l].id
       PROVE  k = l
  <2>1. CASE k \in 1..n /\ l \in 1..n
    BY <1>6, <1>9, <1>10, <2>1 DEF FoundOnce
  <2>2. CASE k \in 1..n /\ l \notin 1..n
    BY <1>8, <1>9, <1>10, <2>2
  <2>3. CASE k \notin 1..n /\ l \in 1..n
    BY <1>8, <1>9, <1>10, <2>3
  <2>4. CASE k \notin 1..n /\ l \notin 1..n
    <3>1. /\ k - n \in 1..m /\ k = n + (k - n)
          /\ l - n \in 1..m /\ l = n + (l - n)
      BY <1>8, <2>4
    <3>2. new[k - n] = new[l - n]
      BY <1>9, <1>10, <3>1
    <3>3. k - n = l - n
      BY <1>1, <1>5, <3>1, <3>2 DEF IsInjective
    <3> QED BY <3>1, <3>3
  <2> QED BY <2>1, <2>2, <2>3, <2>4
<1>11. FoundOnce'
  BY <1>7, <1>10 DEF FoundOnce
<1>12. ToSet(found) \subseteq ToSet(found')
  <2>1. \A k \in 1..n : k \in 1..(n + m)
    BY <1>5, <1>6
  <2> QED BY <1>6, <1>7, <2>1 DEF ToSet
<1>13. ToSet(found') \subseteq seen
  <2>1. \A k \in 1..n : found[k] \in seen
    BY <1>6 DEF AllSeen, ToSet
  <2>2. \A k \in 1..(n + m) : found'[k] \in seen
    BY <1>8, <1>9, <2>1
  <2> QED BY <1>7, <2>2 DEF ToSet
<1> QED BY <1>7, <1>11, <1>12, <1>13

\* Neighbourhoods add records and take none away.
LEMMA ExpandHitKeeps == ASSUME IInv, ExpandHit PROVE IInv'
<1>1. /\ request.kind = "search" /\ step = "expand" /\ step' \in {"expand", "select"}
      /\ UNCHANGED <<request, touched, row, created, updated, seen, result>>
  BY DEF ExpandHit, Searching, Goes, store
<1>2. TypeOK /\ FoundOnce /\ AllSeen /\ MatchesFound
  BY DEF IInv
<1>3. /\ todo' \in Seq(Records) /\ score' \in [Records -> Nat]
      /\ found' \in Seq(Candidates) /\ FoundOnce'
      /\ ToSet(found) \subseteq ToSet(found') /\ ToSet(found') \subseteq seen
  <2>1. CASE todo = <<>>
    <3>1. UNCHANGED <<todo, found, score>>
      BY <2>1 DEF ExpandHit
    <3> QED BY <1>2, <3>1 DEF TypeOK, FoundOnce, AllSeen
  <2>2. CASE todo # <<>>
    <3> DEFINE r == Head(todo)
               near == Neighbours(r)
               share == (15 * Rrf(1)) \div 100
    <3>1. /\ todo' = Tail(todo) /\ found' = Expanded(near)
          /\ score' = [x \in Records |-> score[x] + IF x \in ToSet(near) THEN share ELSE 0]
      BY <2>2 DEF ExpandHit
    <3>2. todo' \in Seq(Records) /\ r \in Records
      BY <1>2, <2>2, <3>1 DEF TypeOK
    <3>3. /\ near \in Seq(Records) /\ IsInjective(near)
          /\ \A k \in DOMAIN near : row[near[k]] # Absent
      <4> HIDE DEF r
      <4> QED BY <1>2, <3>2, NeighboursProperties
    <3>4. share \in Nat
      <4>1. RrfK \in Nat
        <5>1. {RrfK, MaxTouched, MaxDepth} \subseteq Nat
          BY MemoryGraphAssumption
        <5> QED BY <5>1
      <4>2. Rrf(1) \in Nat
        <5>1. \A e \in Nat \ {0} : 1000000 \div e \in Nat
          OBVIOUS
        <5>2. RrfK + 1 \in Nat \ {0}
          BY <4>1
        <5> QED BY <5>1, <5>2 DEF Rrf
      <4> QED BY <4>2
    <3> HIDE DEF r, near, share
    <3>5. score' \in [Records -> Nat]
      <4>1. \A x \in Records : score[x] \in Nat
        BY <1>2 DEF TypeOK
      <4> QED BY <3>1, <3>4, <4>1
    <3> QED BY <1>2, <3>1, <3>2, <3>3, <3>5, ExpandedProperties
  <2> QED BY <2>1, <2>2
<1>4. TypeOK'
  BY <1>1, <1>2, <1>3, StoreTyped DEF TypeOK
<1>5. AllSeen' /\ NothingYet' /\ SourcesInHand'
  BY <1>1, <1>2, <1>3 DEF AllSeen, Pairs, Active, NothingYet, SourcesInHand
<1>6. MatchesFound'
  BY <1>1, <1>2, <1>3 DEF MatchesFound, Room, Pair
<1>7. Results'
  BY <1>1, NoResultsYet
<1> QED BY <1>3, <1>4, <1>5, <1>6, <1>7 DEF IInv

\* What is selected has been read, is there once, and is all where there is room.
LEMMA SelectedProperties ==
  ASSUME TypeOK, FoundOnce, request.kind = "search", NEW selected, selected = Chosen(ByScore(found))
  PROVE  /\ ToSet(selected) \subseteq ToSet(found)
         /\ Cardinality(Ids(selected)) = Len(selected) /\ Len(selected) <= request.limit
         /\ Room => ToSet(found) \subseteq ToSet(selected)
<1> DEFINE ranked == ByScore(found)
           D == DOMAIN found
           R == DOMAIN ranked
           C == DOMAIN selected
<1>1. /\ found \in Seq(Candidates) /\ score \in [Records -> Nat]
      /\ request.limit \in 1..MaxResults /\ MaxResults \in Nat
  <2>1. {MinCandidates, MaxResults, MaxNodes, MaxSources} \subseteq Nat \ {0}
    BY MemoryGraphAssumption
  <2> QED BY <2>1 DEF TypeOK, IsRequest
<1>2. ranked \in Seq(Candidates) /\ Rearranges(ranked, found)
  BY <1>1, SortedCandidates
<1> HIDE DEF ranked
<1>3. R = D
  BY <1>2 DEF Rearranges
<1>4. PICK g \in [D -> D] :
        /\ \A k \in D : ranked[k] = found[g[k]]
        /\ \A k, l \in D : g[k] = g[l] => k = l
        /\ \A i \in D : \E k \in D : g[k] = i
  BY <1>2 DEF Rearranges
<1>5. selected \in Seq(Candidates) /\ Len(selected) <= request.limit /\ Selection(selected, ranked)
  <2>1. selected = Chosen(ranked)
    BY DEF ranked
  <2> QED BY <1>1, <1>2, <2>1, ChosenProperties
<1>6. PICK place \in [C -> R] :
        /\ \A k \in C : selected[k] = ranked[place[k]]
        /\ \A k, l \in C : place[k] = place[l] => k = l
        /\ Len(ranked) <= request.limit => \A j \in R : \E k \in C : place[k] = j
  BY <1>5 DEF Selection
<1>7. \A k \in C : place[k] \in D /\ g[place[k]] \in D /\ selected[k] = found[g[place[k]]]
  BY <1>3, <1>4, <1>6
<1>8. ToSet(selected) \subseteq ToSet(found)
  BY <1>7 DEF ToSet
<1>9. Cardinality(Ids(selected)) = Len(selected)
  <2>1. \A k, l \in C : selected[k].id = selected[l].id => k = l
    BY <1>4, <1>6, <1>7 DEF FoundOnce
  <2> QED BY <1>5, <2>1, DistinctIds
<1>10. Room => ToSet(found) \subseteq ToSet(selected)
  <2> SUFFICES ASSUME Room PROVE ToSet(found) \subseteq ToSet(selected)
    OBVIOUS
  <2>1. Len(found) <= Cardinality(Records) /\ Cardinality(Records) \in Nat
    BY <1>1, DistinctIds DEF FoundOnce
  <2>2. Len(ranked) = Len(found)
    BY <1>1, <1>2, <1>3
  <2>3. Len(ranked) <= request.limit
    BY <1>1, <2>1, <2>2 DEF Room
  <2>4. \A i \in D : \E k \in C : g[place[k]] = i
    BY <1>3, <1>4, <1>6, <2>3
  <2> QED BY <1>7, <2>4 DEF ToSet
<1> QED BY <1>5, <1>8, <1>9, <1>10

\* The results are a selection of what was read.
LEMMA SelectHitsKeeps == ASSUME IInv, SelectHits PROVE IInv'
<1>1. /\ request.kind = "search" /\ step = "select" /\ step' = "done"
      /\ UNCHANGED <<request, touched, row, created, updated, seen, todo, found, score>>
      /\ result' = Chosen(ByScore(found))
  BY DEF SelectHits, Searching, Goes, store
<1>2. TypeOK /\ FoundOnce /\ AllSeen /\ MatchesFound
  BY DEF IInv
<1>3. TypeOK'
  BY <1>1, <1>2, StoreTyped DEF TypeOK
<1>4. FoundOnce' /\ AllSeen' /\ NothingYet' /\ MatchesFound' /\ SourcesInHand'
  BY <1>1, <1>2 DEF FoundOnce, AllSeen, Pairs, Active, NothingYet, MatchesFound, SourcesInHand
<1>5. /\ ToSet(result') \subseteq ToSet(found)
      /\ Cardinality(Ids(result')) = Len(result') /\ Len(result') <= request.limit
      /\ Room => ToSet(found) \subseteq ToSet(result')
  BY <1>1, <1>2, SelectedProperties
<1>6. HitsWereThere'
  BY <1>1, <1>2, <1>5 DEF HitsWereThere, AllSeen
<1>7. MatchesReturned'
  BY <1>1, <1>2, <1>5 DEF MatchesReturned, MatchesFound, Room, Pair
<1>8. SourcesNamed'
  BY <1>1 DEF SourcesNamed, Returned
<1> QED BY <1>3, <1>4, <1>6, <1>7, <1>8 DEF IInv, Results

-----------------------------------------------------------------------------
(* Writes *)

\* A write changes one record and keeps the orders of the table.
LEMMA WriteProperties ==
  ASSUME TypeOK, AllSeen, NEW r \in Records, NEW c \in Versions, Write(r, c)
  PROVE  /\ row' \in [Records -> Versions \cup {Absent}]
         /\ row'[r] = c /\ \A x \in Records : x # r => row'[x] = row[x]
         /\ created' \in Seq(Records) /\ IsInjective(created')
         /\ updated' \in Seq(Records) /\ IsInjective(updated')
         /\ Active(row') \subseteq ToSet(created') /\ ToSet(created') = ToSet(updated')
         /\ seen \subseteq seen' /\ Pairs(row') \subseteq seen'
<1> DEFINE places == {k \in DOMAIN updated : updated[k] # r}
           others == Items(updated, places)
<1>1. /\ row \in [Records -> Versions \cup {Absent}]
      /\ created \in Seq(Records) /\ IsInjective(created)
      /\ updated \in Seq(Records) /\ IsInjective(updated)
      /\ Active(row) \subseteq ToSet(created) /\ ToSet(created) = ToSet(updated)
  BY DEF TypeOK
<1>2. /\ row' = [row EXCEPT ![r] = c]
      /\ created' = IF r \in ToSet(created) THEN created ELSE Append(created, r)
      /\ updated' = Append(others, r)
      /\ seen' = seen \cup {[id |-> r, content |-> c]}
  BY DEF Write
<1>3. /\ row' \in [Records -> Versions \cup {Absent}]
      /\ row'[r] = c /\ \A x \in Records : x # r => row'[x] = row[x]
  BY <1>1, <1>2
<1>4. /\ others \in Seq(Records) /\ IsInjective(others)
      /\ ToSet(others) = {updated[i] : i \in places}
  <2>1. places \in SUBSET DOMAIN updated
    OBVIOUS
  <2>2. \A i, j \in places : updated[i] = updated[j] => i = j
    BY <1>1 DEF IsInjective
  <2> HIDE DEF places
  <2> QED BY <1>1, <2>1, <2>2, ItemsProperties
<1>5. ToSet(others) = ToSet(updated) \ {r}
  BY <1>4 DEF ToSet
<1> HIDE DEF others
<1>6. /\ updated' \in Seq(Records) /\ IsInjective(updated')
      /\ ToSet(updated') = ToSet(updated) \cup {r}
  BY <1>2, <1>4, <1>5, OneMoreItem
<1>7. /\ created' \in Seq(Records) /\ IsInjective(created')
      /\ ToSet(created') = ToSet(created) \cup {r}
  <2>1. CASE r \in ToSet(created)
    BY <1>1, <1>2, <2>1
  <2>2. CASE r \notin ToSet(created)
    BY <1>1, <1>2, <2>2, OneMoreItem
  <2> QED BY <2>1, <2>2
<1>8. Active(row') \subseteq ToSet(created')
  BY <1>1, <1>3, <1>7 DEF Active
<1>9. Pairs(row') \subseteq seen'
  <2>1. ASSUME NEW x \in Active(row') PROVE [id |-> x, content |-> row'[x]] \in seen'
    <3>1. CASE x = r
      BY <1>2, <1>3, <3>1
    <3>2. CASE x # r
      <4>1. x \in Active(row) /\ row'[x] = row[x]
        BY <1>3, <2>1, <3>2 DEF Active
      <4> QED BY <1>2, <4>1 DEF AllSeen, Pairs
    <3> QED BY <3>1, <3>2
  <2> QED BY <2>1 DEF Pairs
<1>10. seen \subseteq seen'
  BY <1>2
<1> QED BY <1>1, <1>3, <1>6, <1>7, <1>8, <1>9, <1>10

\* A put changes nothing that has been read, and no record that is left alone.
LEMMA PutKeeps == ASSUME IInv, NEW r \in Records, Put(r) PROVE IInv'
<1>1. /\ step \notin {"start", "done", "failed"}
      /\ touched' = touched \cup {r} /\ Cardinality(touched') <= MaxTouched
      /\ UNCHANGED <<request, step, todo, found, score, result>>
  BY DEF Put, Meanwhile
<1>2. PICK c \in Contents : Write(r, c)
  BY DEF Put
<1>3. TypeOK /\ FoundOnce /\ AllSeen /\ MatchesFound /\ SourcesInHand
  BY DEF IInv
<1>4. /\ row' \in [Records -> Versions \cup {Absent}]
      /\ row'[r] = c /\ \A x \in Records : x # r => row'[x] = row[x]
      /\ created' \in Seq(Records) /\ IsInjective(created')
      /\ updated' \in Seq(Records) /\ IsInjective(updated')
      /\ Active(row') \subseteq ToSet(created') /\ ToSet(created') = ToSet(updated')
      /\ seen \subseteq seen' /\ Pairs(row') \subseteq seen'
  <2>1. c \in Versions
    BY StartsAssumption
  <2> QED BY <1>2, <1>3, <2>1, WriteProperties
<1>5. TypeOK'
  BY <1>1, <1>3, <1>4 DEF TypeOK
<1>6. FoundOnce' /\ AllSeen' /\ NothingYet' /\ SourcesInHand'
  BY <1>1, <1>3, <1>4 DEF FoundOnce, AllSeen, NothingYet, SourcesInHand
<1>7. MatchesFound'
  BY <1>1, <1>3, <1>4 DEF MatchesFound, Room, Pair
<1>8. Results'
  BY <1>1, NoResultsYet
<1> QED BY <1>5, <1>6, <1>7, <1>8 DEF IInv

\* A deletion takes away nothing that has been read.
LEMMA DeleteKeeps == ASSUME IInv, NEW r \in Records, Delete(r) PROVE IInv'
<1>1. /\ step \notin {"start", "done", "failed"}
      /\ touched' = touched \cup {r} /\ Cardinality(touched') <= MaxTouched
      /\ UNCHANGED <<request, step, todo, found, score, result, created, updated, seen>>
      /\ row' = [row EXCEPT ![r] = Absent]
  BY DEF Delete, Meanwhile
<1>2. TypeOK /\ FoundOnce /\ AllSeen /\ MatchesFound /\ SourcesInHand
  BY DEF IInv
<1>3. /\ row' \in [Records -> Versions \cup {Absent}]
      /\ row'[r] = Absent /\ \A x \in Records : x # r => row'[x] = row[x]
  BY <1>1, <1>2 DEF TypeOK
<1>4. \A x \in Active(row') : x \in Active(row) /\ row'[x] = row[x]
  BY <1>3 DEF Active
<1>5. TypeOK'
  BY <1>1, <1>2, <1>3, <1>4 DEF TypeOK
<1>6. AllSeen'
  BY <1>1, <1>2, <1>4 DEF AllSeen, Pairs
<1>7. FoundOnce' /\ NothingYet' /\ SourcesInHand'
  BY <1>1, <1>2 DEF FoundOnce, NothingYet, SourcesInHand
<1>8. MatchesFound'
  BY <1>1, <1>2, <1>3 DEF MatchesFound, Room, Pair
<1>9. Results'
  BY <1>1, NoResultsYet
<1> QED BY <1>5, <1>6, <1>7, <1>8, <1>9 DEF IInv

-----------------------------------------------------------------------------
(* The provenance graph, and the compaction *)

\* A provenance graph leaves all but its result alone.
LEMMA ProvenanceKeeps == ASSUME IInv, Provenance PROVE IInv'
<1>1. /\ request.kind = "provenance" /\ step = "start" /\ step' \in {"failed", "done"}
      /\ UNCHANGED <<request, touched, row, created, updated, seen, todo, found, score>>
  BY DEF Provenance, Goes, store
<1>2. TypeOK /\ FoundOnce /\ AllSeen
  BY DEF IInv
<1>3. TypeOK'
  BY <1>1, <1>2, StoreTyped DEF TypeOK
<1>4. FoundOnce' /\ AllSeen' /\ NothingYet' /\ MatchesFound' /\ SourcesInHand'
  BY <1>1, <1>2 DEF FoundOnce, AllSeen, Pairs, Active, NothingYet, MatchesFound, SourcesInHand
<1>5. Results'
  BY <1>1 DEF Results, HitsWereThere, MatchesReturned, SourcesNamed, Returned
<1> QED BY <1>3, <1>4, <1>5 DEF IInv

\* dict.fromkeys: an item comes where it is named first.
LEMMA OnceInOrder ==
  ASSUME NEW T, NEW s \in Seq(T)
  PROVE  \A k, l \in DOMAIN Once(s) : k < l => FirstPlace(s, Once(s)[k]) < FirstPlace(s, Once(s)[l])
<1> DEFINE first == {i \in DOMAIN s : \A j \in 1..(i - 1) : s[j] # s[i]}
           t == Items(s, first)
<1>1. DOMAIN s = 1..Len(s) /\ Len(s) \in Nat
  OBVIOUS
<1>2. ASSUME NEW i \in first PROVE FirstPlace(s, s[i]) = i
  <2> DEFINE S == {k \in DOMAIN s : s[k] = s[i]}
  <2>1. S \in SUBSET Nat /\ i \in S
    BY <1>1
  <2>2. Min(S) \in S /\ Min(S) <= i
    <3> HIDE DEF S
    <3> QED BY <2>1, LeastOfSet DEF Min
  <2>3. Min(S) \in 1..Len(s) /\ s[Min(S)] = s[i] /\ i \in 1..Len(s)
    BY <1>1, <2>2
  <2>4. Min(S) \notin 1..(i - 1)
    BY <2>3
  <2>5. Min(S) = i
    <3> DEFINE m == Min(S)
    <3>1. m \in 1..Len(s) /\ i \in 1..Len(s) /\ m <= i /\ m \notin 1..(i - 1)
      BY <2>2, <2>3, <2>4
    <3> HIDE DEF m
    <3>2. m = i
      BY <1>1, <3>1
    <3> QED BY <3>2 DEF m
  <2> QED BY <2>5 DEF FirstPlace
<1>3. first \in SUBSET DOMAIN s
  OBVIOUS
<1>4. \A k, l \in DOMAIN t : k < l => \E i, j \in first : i < j /\ t[k] = s[i] /\ t[l] = s[j]
  <2> HIDE DEF first
  <2> QED BY <1>3, ItemsProperties
<1>5. Once(s) = t
  BY DEF Once
<1> HIDE DEF first, t
<1>6. \A k, l \in DOMAIN t : k < l => FirstPlace(s, t[k]) < FirstPlace(s, t[l])
  <2> TAKE k \in DOMAIN t, l \in DOMAIN t
  <2> HAVE k < l
  <2>1. PICK i, j \in first : i < j /\ t[k] = s[i] /\ t[l] = s[j]
    BY <1>4
  <2>2. FirstPlace(s, s[i]) = i /\ FirstPlace(s, s[j]) = j
    BY <1>2
  <2> QED BY <2>1, <2>2
<1> QED BY <1>5, <1>6

\* To read the next keeps the order.
LEMMA OrderKept ==
  ASSUME NEW T, NEW ids, NEW read \in Seq(T), NEW left \in Seq(Records), left # <<>>,
         NEW p \in T, p.id = Head(left), AskedOrder(ids, read, left)
  PROVE  AskedOrder(ids, Append(read, p), Tail(left))
<1> DEFINE n == Len(read)
           m == Len(left)
           more == Append(read, p)
           rest == Tail(left)
<1>1. /\ n \in Nat /\ DOMAIN read = 1..n /\ m \in Nat /\ DOMAIN left = 1..m /\ m # 0
      /\ DOMAIN more = 1..(n + 1) /\ DOMAIN rest = 1..(m - 1)
      /\ \A k \in 1..n : more[k] = read[k]
      /\ more[n + 1] = p /\ p.id = left[1]
      /\ \A k \in 1..(m - 1) : rest[k] = left[k + 1]
  OBVIOUS
<1> HIDE DEF n, m, more, rest
<1>2. /\ \A i, j \in 1..n : i < j => FirstPlace(ids, read[i].id) < FirstPlace(ids, read[j].id)
      /\ \A i, j \in 1..m : i < j => FirstPlace(ids, left[i]) < FirstPlace(ids, left[j])
      /\ \A i \in 1..n, j \in 1..m : FirstPlace(ids, read[i].id) < FirstPlace(ids, left[j])
  BY <1>1 DEF AskedOrder
<1>3. /\ \A k \in 1..(n + 1) : k \in 1..n \/ k = n + 1
      /\ \A k \in 1..(m - 1) : k + 1 \in 1..m /\ 1 < k + 1
      /\ 1 \in 1..m
      /\ \A k, l \in 1..(m - 1) : k < l => k + 1 < l + 1
      /\ \A k, l \in 1..(n + 1) : k < l => k \in 1..n
  BY <1>1
<1>4. \A i, j \in 1..(n + 1) : i < j => FirstPlace(ids, more[i].id) < FirstPlace(ids, more[j].id)
  <2> TAKE i \in 1..(n + 1), j \in 1..(n + 1)
  <2> HAVE i < j
  <2>1. i \in 1..n /\ more[i] = read[i]
    BY <1>1, <1>3
  <2>2. CASE j \in 1..n
    BY <1>1, <1>2, <2>1, <2>2
  <2>3. CASE j = n + 1
    BY <1>1, <1>2, <1>3, <2>1, <2>3
  <2> QED BY <1>3, <2>2, <2>3
<1>5. \A i, j \in 1..(m - 1) : i < j => FirstPlace(ids, rest[i]) < FirstPlace(ids, rest[j])
  BY <1>1, <1>2, <1>3
<1>6. \A i \in 1..(n + 1), j \in 1..(m - 1) :
        FirstPlace(ids, more[i].id) < FirstPlace(ids, rest[j])
  <2> TAKE i \in 1..(n + 1), j \in 1..(m - 1)
  <2>1. rest[j] = left[j + 1] /\ j + 1 \in 1..m /\ 1 < j + 1
    BY <1>1, <1>3
  <2>2. CASE i \in 1..n
    BY <1>1, <1>2, <2>1, <2>2
  <2>3. CASE i = n + 1
    BY <1>1, <1>2, <1>3, <2>1, <2>3
  <2> QED BY <1>3, <2>2, <2>3
<1> QED BY <1>1, <1>4, <1>5, <1>6 DEF AskedOrder, more, rest

\* All sources are still to read.
LEMMA BeginCompactionKeeps == ASSUME IInv, BeginCompaction PROVE IInv'
<1>1. /\ request.kind = "compact" /\ step = "start" /\ step' = "fetch"
      /\ UNCHANGED <<request, touched, row, created, updated, seen, found, score, result>>
      /\ todo' = Once(request.ids)
  BY DEF BeginCompaction, Compacting, Goes, store, Sources
<1>2. TypeOK /\ FoundOnce /\ AllSeen /\ found = <<>>
  BY <1>1 DEF IInv, NothingYet
<1>3. todo' \in Seq(Records) /\ IsInjective(todo') /\ ToSet(todo') = ToSet(request.ids)
  <2>1. request.ids \in Seq(Records)
    BY <1>1, <1>2 DEF TypeOK, IsRequest
  <2> QED BY <1>1, <2>1, OnceProperties
<1>4. Ids(found) = {}
  BY <1>2 DEF Ids
<1>5. TypeOK'
  BY <1>1, <1>2, <1>3, StoreTyped DEF TypeOK
<1>6. FoundOnce' /\ AllSeen' /\ NothingYet' /\ MatchesFound'
  BY <1>1, <1>2 DEF FoundOnce, AllSeen, Pairs, Active, NothingYet, MatchesFound
<1>7. SourcesInHand'
  <2>1. AskedOrder(request.ids, found, todo')
    <3>1. request.ids \in Seq(Records)
      BY <1>1, <1>2 DEF TypeOK, IsRequest
    <3>2. \A k, l \in DOMAIN todo' : k < l =>
            FirstPlace(request.ids, todo'[k]) < FirstPlace(request.ids, todo'[l])
      BY <1>1, <3>1, OnceInOrder
    <3>3. DOMAIN found = {}
      BY <1>2
    <3> QED BY <3>2, <3>3 DEF AskedOrder
  <2> QED BY <1>1, <1>3, <1>4, <2>1 DEF SourcesInHand
<1>8. Results'
  BY <1>1, NoResultsYet
<1> QED BY <1>5, <1>6, <1>7, <1>8 DEF IInv

\* One source is read, or the compaction fails.
LEMMA FetchSourceKeeps == ASSUME IInv, FetchSource PROVE IInv'
<1>1. /\ request.kind = "compact" /\ step = "fetch" /\ todo # <<>>
      /\ UNCHANGED <<request, touched, row, created, updated, seen, score, result>>
  BY DEF FetchSource, Compacting, Goes, store
<1>2. TypeOK /\ FoundOnce /\ AllSeen /\ SourcesInHand
  BY DEF IInv
<1>3. CASE row[Head(todo)] = Absent
  <2>1. step' = "failed" /\ UNCHANGED <<todo, found>>
    BY <1>3 DEF FetchSource, Goes
  <2>2. TypeOK'
    BY <1>1, <1>2, <2>1, StoreTyped DEF TypeOK
  <2>3. FoundOnce' /\ AllSeen' /\ NothingYet' /\ MatchesFound' /\ SourcesInHand'
    BY <1>1, <1>2, <2>1 DEF FoundOnce, AllSeen, Pairs, Active, NothingYet, MatchesFound, SourcesInHand
  <2>4. Results'
    BY <2>1, NoResultsYet
  <2> QED BY <2>2, <2>3, <2>4 DEF IInv
<1>4. CASE row[Head(todo)] # Absent
  <2> DEFINE r == Head(todo)
  <2>1. /\ step' = "fetch" /\ todo' = Tail(todo) /\ found' = Append(found, Pair(r))
    BY <1>4 DEF FetchSource, Goes
  <2>2. /\ IsInjective(todo) /\ ToSet(todo) \cap Ids(found) = {}
        /\ ToSet(todo) \cup Ids(found) = ToSet(request.ids)
        /\ AskedOrder(request.ids, found, todo)
    BY <1>1, <1>2 DEF SourcesInHand
  <2>3. /\ todo' \in Seq(Records) /\ r \in Records
        /\ ToSet(todo) = ToSet(todo') \cup {r} /\ r \notin ToSet(todo') /\ IsInjective(todo')
    BY <1>1, <1>2, <2>1, <2>2, TailProperties DEF TypeOK
  <2>4. Pair(r) \in Candidates /\ Pair(r).id = r /\ Pair(r) \in seen
    BY <1>2, <1>4, <2>3, ActiveCandidate
  <2>5. r \notin Ids(found)
    BY <2>2, <2>3
  <2> HIDE DEF r
  <2>6. /\ found' \in Seq(Candidates) /\ FoundOnce'
        /\ ToSet(found') = ToSet(found) \cup {Pair(r)} /\ Ids(found') = Ids(found) \cup {r}
    BY <1>2, <2>1, <2>4, <2>5, OneMoreFound
  <2>7. TypeOK'
    BY <1>1, <1>2, <2>1, <2>3, <2>6, StoreTyped DEF TypeOK
  <2>8. AllSeen' /\ NothingYet' /\ MatchesFound'
    BY <1>1, <1>2, <2>1, <2>4, <2>6 DEF AllSeen, Pairs, Active, NothingYet, MatchesFound
  <2>9. SourcesInHand'
    <3>1. found \in Seq(Candidates) /\ todo \in Seq(Records)
      BY <1>2 DEF TypeOK
    <3>2. Pair(r).id = Head(todo)
      BY <2>4 DEF r
    <3>3. AskedOrder(request.ids, found', todo')
      BY <1>1, <2>1, <2>2, <2>4, <3>1, <3>2, OrderKept
    <3> QED BY <1>1, <2>2, <2>3, <2>5, <2>6, <3>3 DEF SourcesInHand
  <2>10. Results'
    BY <2>1, NoResultsYet
  <2> QED BY <2>6, <2>7, <2>8, <2>9, <2>10 DEF IInv
<1> QED BY <1>3, <1>4

\* All sources have been read, and the new record names them.
LEMMA StoreCompactionKeeps == ASSUME IInv, StoreCompaction PROVE IInv'
<1>1. /\ request.kind = "compact" /\ step = "fetch" /\ todo = <<>>
      /\ UNCHANGED <<request, touched, todo, found, score>>
  BY DEF StoreCompaction, Compacting, Goes
<1>2. TypeOK /\ FoundOnce /\ AllSeen /\ SourcesInHand
  BY DEF IInv
<1>3. CASE Len(found) \notin 1..MaxSources
  <2>1. step' = "failed" /\ UNCHANGED <<row, created, updated, seen, result>>
    BY <1>3 DEF StoreCompaction, Goes, store
  <2>2. TypeOK'
    BY <1>1, <1>2, <2>1, StoreTyped DEF TypeOK
  <2>3. FoundOnce' /\ AllSeen' /\ NothingYet' /\ MatchesFound' /\ SourcesInHand'
    BY <1>1, <1>2, <2>1 DEF FoundOnce, AllSeen, Pairs, Active, NothingYet, MatchesFound, SourcesInHand
  <2>4. Results'
    BY <2>1, NoResultsYet
  <2> QED BY <2>2, <2>3, <2>4 DEF IInv
<1>4. CASE Len(found) \in 1..MaxSources
  <2> DEFINE c == [name |-> "compaction", matched |-> 0, refs |-> Ids(found)]
  <2>1. step' = "done" /\ Write(Fresh, c) /\ result' = found
    BY <1>4 DEF StoreCompaction, Goes
  <2>2. Ids(found) \subseteq Records /\ Cardinality(Ids(found)) = Len(found)
    <3>1. found \in Seq(Candidates) /\ \A k, l \in DOMAIN found : found[k].id = found[l].id => k = l
      BY <1>2 DEF TypeOK, FoundOnce
    <3>2. \A k \in DOMAIN found : found[k] \in Candidates
      BY <3>1
    <3>3. Ids(found) \subseteq Records
      BY <3>2 DEF Ids, Candidates
    <3>4. Cardinality(Ids(found)) = Len(found)
      BY <3>1, DistinctIds
    <3> QED BY <3>3, <3>4
  <2>3. c \in Versions /\ Fresh \in Records
    <3>1. "compaction" \in DOMAIN Relevance
      BY MemoryGraphAssumption
    <3>2. Fresh \in Records
      BY MemoryGraphAssumption
    <3> QED BY <2>2, <3>1, <3>2 DEF Versions
  <2>4. c.refs = Ids(found)
    OBVIOUS
  <2> HIDE DEF c
  <2>5. /\ row' \in [Records -> Versions \cup {Absent}] /\ row'[Fresh] = c
        /\ created' \in Seq(Records) /\ IsInjective(created')
        /\ updated' \in Seq(Records) /\ IsInjective(updated')
        /\ Active(row') \subseteq ToSet(created') /\ ToSet(created') = ToSet(updated')
        /\ seen \subseteq seen' /\ Pairs(row') \subseteq seen'
    BY <1>2, <2>1, <2>3, WriteProperties
  <2>6. TypeOK'
    BY <1>1, <1>2, <2>1, <2>5 DEF TypeOK
  <2>7. FoundOnce' /\ AllSeen' /\ NothingYet' /\ MatchesFound' /\ SourcesInHand'
    BY <1>1, <1>2, <2>1, <2>5 DEF FoundOnce, AllSeen, NothingYet, MatchesFound, SourcesInHand
  <2>8. Ids(found) = ToSet(request.ids)
    <3>1. ToSet(todo) = {}
      BY <1>1 DEF ToSet
    <3> QED BY <1>1, <1>2, <3>1 DEF SourcesInHand
  <2>9. SourcesNamed'
    <3>1. \A i, j \in DOMAIN found : i < j =>
            FirstPlace(request.ids, found[i].id) < FirstPlace(request.ids, found[j].id)
      BY <1>1, <1>2 DEF SourcesInHand, AskedOrder
    <3>2. ToSet(found) \subseteq seen'
      BY <1>2, <2>5 DEF AllSeen
    <3>3. Ids(found) = ToSet(request.ids) /\ row'[Fresh].refs = Ids(found)
      BY <2>4, <2>5, <2>8
    <3> QED BY <1>1, <2>1, <3>1, <3>2, <3>3 DEF SourcesNamed, Ids
  <2>10. HitsWereThere' /\ MatchesReturned'
    BY <1>1 DEF HitsWereThere, MatchesReturned, Returned
  <2> QED BY <2>6, <2>7, <2>9, <2>10 DEF IInv, Results
<1> QED BY <1>3, <1>4

\* A request that fails has no result.
LEMMA InterruptedKeeps == ASSUME IInv, Interrupted PROVE IInv'
<1>1. /\ step' = "failed"
      /\ UNCHANGED <<request, touched, row, created, updated, seen, todo, found, score, result>>
  BY DEF Interrupted, Goes, store
<1>2. TypeOK /\ FoundOnce /\ AllSeen
  BY DEF IInv
<1>3. TypeOK'
  BY <1>1, <1>2, StoreTyped DEF TypeOK
<1>4. FoundOnce' /\ AllSeen' /\ NothingYet' /\ MatchesFound' /\ SourcesInHand'
  BY <1>1, <1>2 DEF FoundOnce, AllSeen, Pairs, Active, NothingYet, MatchesFound, SourcesInHand
<1>5. Results'
  BY <1>1, NoResultsYet
<1> QED BY <1>3, <1>4, <1>5 DEF IInv

-----------------------------------------------------------------------------
(* The provenance graph: breadth first *)

\* A set of ids in their order.
LEMMA AscendingProperties ==
  ASSUME NEW ids \in SUBSET Records
  PROVE  /\ Ascending(ids) \in Seq(Records)
         /\ Len(Ascending(ids)) = Cardinality(ids)
         /\ ToSet(Ascending(ids)) = ids
<1> DEFINE below == [i \in ids |-> {j \in ids : j <= i}]
           n == Cardinality(ids)
           g == [k \in 1..n |-> CHOOSE i \in ids : Cardinality({j \in ids : j <= i}) = k]
<1>1. IsFiniteSet(ids) /\ \A i \in ids : i \in Nat
  BY MemoryGraphAssumption, FS_Subset
<1>2. /\ below \in [ids -> SUBSET ids]
      /\ \A i \in ids : i \in below[i]
      /\ \A i, j \in ids : i # j =>
           \/ below[i] \subseteq below[j] /\ j \notin below[i]
           \/ below[j] \subseteq below[i] /\ i \notin below[j]
  BY <1>1
<1>3. /\ n \in Nat
      /\ \A k \in 1..n : \E i \in ids : Cardinality(below[i]) = k
      /\ \A i \in ids : Cardinality(below[i]) \in 1..n
      /\ \A i, j \in ids : Cardinality(below[i]) = Cardinality(below[j]) => i = j
  <2> HIDE DEF below
  <2> QED BY <1>1, <1>2, RanksNumber
<1>4. \A k \in 1..n : g[k] \in ids /\ Cardinality(below[g[k]]) = k
  <2>1. \A i \in ids : below[i] = {j \in ids : j <= i}
    OBVIOUS
  <2> TAKE k \in 1..n
  <2>2. \E i \in ids : Cardinality({j \in ids : j <= i}) = k
    BY <1>3, <2>1
  <2>3. g[k] \in ids /\ Cardinality({j \in ids : j <= g[k]}) = k
    BY <2>2
  <2> QED BY <2>1, <2>3
<1>5. \A k \in 1..n : [r \in Records |-> r][g[k]] = g[k]
  <2> HIDE DEF g
  <2> QED BY <1>4
<1>6. Ascending(ids) = [k \in 1..n |-> [r \in Records |-> r][g[k]]]
  BY DEF Ascending, Items
<1> DEFINE a == Ascending(ids)
<1> HIDE DEF g, n, below, a
<1>7. DOMAIN a = 1..n /\ \A k \in 1..n : a[k] = g[k] /\ a[k] \in ids
  BY <1>4, <1>5, <1>6 DEF a
<1>8. a \in Seq(Records) /\ Len(a) = n
  <2>1. a = [k \in 1..n |-> a[k]]
    BY <1>6, <1>7 DEF a
  <2> QED BY <2>1, <1>3, <1>7
<1>9. \A i \in ids : \E k \in 1..n : a[k] = i
  <2> TAKE i \in ids
  <2>1. g[Cardinality(below[i])] \in ids /\ Cardinality(below[i]) \in 1..n
    BY <1>3, <1>4
  <2>2. Cardinality(below[g[Cardinality(below[i])]]) = Cardinality(below[i])
    BY <1>3, <1>4
  <2>3. g[Cardinality(below[i])] = i
    BY <1>3, <2>1, <2>2
  <2> QED BY <1>7, <2>1, <2>3
<1>10. ToSet(a) = ids
  BY <1>7, <1>9 DEF ToSet
<1> QED BY <1>8, <1>10 DEF a, n

\* The limit of depth in force.
Depth == Limit(request.depth, MaxDepth)

\* What a walk has in its queue and its nodes.
Entries == [id : Records, depth : Nat]
Walks == [queue : Seq(Entries), nodes : Seq(Entries), edges : SUBSET (Records \X Records)]

\* The neighbours of a record, in both directions.
Nearby(r) == References(r) \cup Referrers(r)

\* The graph that is walked: what has kind provenance has an active root.
Rooted ==
  /\ row \in [Records -> Versions \cup {Absent}]
  /\ request.root \in Active(row) /\ request.depth \in Nat /\ request.nodes \in Nat \ {0}

\* References lead from active records to active records.
LEMMA NearbyProperties ==
  ASSUME Rooted, NEW r \in Records
  PROVE  /\ References(r) \subseteq Active(row) /\ Referrers(r) \subseteq Active(row)
         /\ \A x \in Records : x \in Nearby(r) <=>
              x \in Active(row) /\ (r \in References(x) \/ x \in References(r))
<1>1. row[r] \in Versions \cup {Absent}
  BY DEF Rooted
<1>2. row[r].refs \subseteq Records
  BY <1>1 DEF Versions, Absent
<1>3. References(r) \subseteq Active(row)
  BY <1>2 DEF References, Active
<1> QED BY <1>3 DEF Referrers, Nearby

\* It is between none and the code's.
LEMMA DepthType == ASSUME Rooted PROVE Depth \in 0..MaxDepth /\ MaxDepth \in Nat
<1>1. MaxDepth \in Nat
  BY MemoryGraphAssumption
<1> QED BY <1>1 DEF Rooted, Depth, Limit, Clamp, Least

\* Who is within n + 1 references is within n, or is a neighbour of one who is.
LEMMA WithinProperties ==
  ASSUME Rooted
  PROVE  /\ Within \in [Nat -> SUBSET Active(row)]
         /\ Within[0] = {request.root}
         /\ \A n \in Nat : Within[n + 1] =
              Within[n] \cup {x \in Active(row) : \E y \in Within[n] : x \in Nearby(y)}
<1> DEFINE S == SUBSET Active(row)
           next == [X \in S |-> X \cup {x \in Active(row) :
                      \E y \in X : y \in References(x) \/ x \in References(y)}]
           Equation(f) == f = [n \in Nat |->
                      IF n = 0 THEN {request.root}
                      ELSE LET nearer == f[n - 1] IN
                           nearer \cup {x \in Active(row) : \E y \in nearer :
                                          y \in References(x) \/ x \in References(y)}]
<1>1. {request.root} \in S /\ next \in [S -> S]
  BY DEF Rooted
<1>2. PICK f \in [Nat -> S] : f[0] = {request.root} /\ \A n \in Nat : f[n + 1] = next[f[n]]
  <2> HIDE DEF S, next
  <2> QED BY <1>1, IterationExists
<1>3. \A n \in Nat : n # 0 => n - 1 \in Nat /\ f[n] = next[f[n - 1]]
  <2> HIDE DEF S, next
  <2>1. \A n \in Nat : n # 0 => n - 1 \in Nat /\ n = (n - 1) + 1
    OBVIOUS
  <2> QED BY <1>2, <2>1
<1>4. \A n \in Nat : f[n] = IF n = 0 THEN {request.root}
                      ELSE LET nearer == f[n - 1] IN
                           nearer \cup {x \in Active(row) : \E y \in nearer :
                                          y \in References(x) \/ x \in References(y)}
  <2>1. \A X \in S : next[X] = X \cup {x \in Active(row) :
                      \E y \in X : y \in References(x) \/ x \in References(y)}
    OBVIOUS
  <2>2. \A n \in Nat : f[n] \in S
    BY <1>2
  <2> HIDE DEF S, next
  <2> QED BY <1>2, <1>3, <2>1, <2>2
<1>5. Equation(f)
  <2>1. f = [n \in Nat |-> f[n]]
    BY <1>2
  <2> HIDE DEF S, next
  <2> QED BY <1>4, <2>1
<1>6. Within = CHOOSE g : Equation(g)
  BY DEF Within
<1>7. Equation(Within)
  <2> HIDE DEF Equation
  <2> QED BY <1>5, <1>6
<1>8. Within = [n \in Nat |-> IF n = 0 THEN {request.root}
                      ELSE LET nearer == Within[n - 1] IN
                           nearer \cup {x \in Active(row) : \E y \in nearer :
                                          y \in References(x) \/ x \in References(y)}]
  BY <1>7
<1>9. \A n \in Nat : Within[n] = IF n = 0 THEN {request.root}
                      ELSE LET nearer == Within[n - 1] IN
                           nearer \cup {x \in Active(row) : \E y \in nearer :
                                          y \in References(x) \/ x \in References(y)}
  <2> HIDE DEF Equation
  <2> QED BY <1>8
<1> DEFINE W == Within
<1>10. Within[0] = {request.root}
  BY <1>9
<1>11. \A n \in Nat : Within[n + 1] =
              Within[n] \cup {x \in Active(row) : \E y \in Within[n] :
                                y \in References(x) \/ x \in References(y)}
  <2> TAKE n \in Nat
  <2>1. n + 1 \in Nat /\ n + 1 # 0 /\ (n + 1) - 1 = n
    OBVIOUS
  <2> QED BY <1>9, <2>1
<1>12. \A n \in Nat : Within[n] \in S
  <2> DEFINE P == {n \in Nat : Within[n] \in S}
  <2>1. 0 \in P
    BY <1>1, <1>10
  <2>2. \A n \in P : n + 1 \in P
    BY <1>11
  <2> HIDE DEF P, S
  <2>3. P \in SUBSET Nat
    BY DEF P
  <2>4. P = Nat
    BY <2>1, <2>2, <2>3, AllNumbers
  <2> QED BY <2>4 DEF P
<1>13. Within \in [Nat -> S]
  <2>1. Within = [n \in Nat |-> Within[n]]
    BY <1>8
  <2> HIDE DEF S
  <2> QED BY <1>12, <2>1
<1>14. ASSUME NEW X \in S
       PROVE  {x \in Active(row) : \E y \in X : y \in References(x) \/ x \in References(y)}
              = {x \in Active(row) : \E y \in X : x \in Nearby(y)}
  <2>1. Active(row) \subseteq Records
    BY DEF Active
  <2> QED BY <2>1, NearbyProperties
<1>15. \A n \in Nat : Within[n + 1] =
              Within[n] \cup {x \in Active(row) : \E y \in Within[n] : x \in Nearby(y)}
  <2> HIDE DEF S
  <2> QED BY <1>11, <1>12, <1>14
<1> QED BY <1>10, <1>13, <1>15

\* What the queue gets: one entry for each id, at the given depth.
Added(ids, depth) == [k \in DOMAIN ids |-> [id |-> ids[k], depth |-> depth]]

\* They go behind what is there, as many as the ids.
LEMMA QueueProperties ==
  ASSUME NEW queue \in Seq(Entries), NEW ids \in Seq(Records), NEW depth \in Nat
  PROVE  /\ Queue(queue, ids, depth) = queue \o Added(ids, depth)
         /\ Added(ids, depth) \in Seq(Entries) /\ Len(Added(ids, depth)) = Len(ids)
         /\ ToSet(Added(ids, depth)) = {[id |-> x, depth |-> depth] : x \in ToSet(ids)}
<1> DEFINE new == [k \in DOMAIN ids |-> [id |-> ids[k], depth |-> depth]]
           n == Len(ids)
<1>1. n \in Nat /\ DOMAIN ids = 1..n /\ \A k \in 1..n : ids[k] \in Records
  OBVIOUS
<1> HIDE DEF n
<1>2. /\ DOMAIN new = 1..n
      /\ \A k \in 1..n : new[k] = [id |-> ids[k], depth |-> depth] /\ new[k] \in Entries
  BY <1>1 DEF Entries
<1>3. new \in Seq(Entries) /\ Len(new) = n
  <2>1. new = [k \in 1..n |-> new[k]]
    BY <1>1
  <2> HIDE DEF new
  <2> QED BY <1>1, <1>2, <2>1
<1>4. ToSet(new) = {[id |-> x, depth |-> depth] : x \in ToSet(ids)}
  <2>1. ToSet(new) = {new[k] : k \in 1..n} /\ ToSet(ids) = {ids[k] : k \in 1..n}
    BY <1>1, <1>2 DEF ToSet
  <2> HIDE DEF new
  <2> QED BY <1>2, <2>1
<1>5. Queue(queue, ids, depth) = queue \o new
  BY DEF Queue
<1> QED BY <1>3, <1>4, <1>5 DEF n, Added

\* What a record has for neighbours in the queue: all, or none at the limit.
Ahead(here) ==
  IF here.depth >= Depth THEN <<>>
  ELSE Ascending(References(here.id)) \o Ascending(Referrers(here.id))

\* They are the record's neighbours, no more than two for each record there is.
LEMMA AheadProperties ==
  ASSUME Rooted, NEW here \in Entries
  PROVE  /\ Ahead(here) \in Seq(Records)
         /\ Len(Ahead(here)) <= 2 * Cardinality(Records)
         /\ here.depth < Depth => ToSet(Ahead(here)) = Nearby(here.id)
         /\ ~(here.depth < Depth) => Ahead(here) = <<>>
<1> DEFINE a == Ascending(References(here.id))
           b == Ascending(Referrers(here.id))
<1>1. here.id \in Records /\ here.depth \in Nat /\ Depth \in Nat
  BY DepthType DEF Entries
<1>2. References(here.id) \in SUBSET Records /\ Referrers(here.id) \in SUBSET Records
  BY <1>1, NearbyProperties DEF Active
<1>3. /\ a \in Seq(Records) /\ Len(a) <= Cardinality(Records) /\ ToSet(a) = References(here.id)
      /\ b \in Seq(Records) /\ Len(b) <= Cardinality(Records) /\ ToSet(b) = Referrers(here.id)
  <2>1. IsFiniteSet(Records)
    BY MemoryGraphAssumption
  <2>2. \A s \in SUBSET Records : Cardinality(s) <= Cardinality(Records)
    BY <2>1, FS_Subset
  <2> QED BY <1>2, <2>2, AscendingProperties
<1>4. Ahead(here) = IF here.depth >= Depth THEN <<>> ELSE a \o b
  BY DEF Ahead
<1> HIDE DEF a, b
<1>5. a \o b \in Seq(Records) /\ Len(a \o b) = Len(a) + Len(b) /\ ToSet(a \o b) = Nearby(here.id)
  BY <1>3, ConcatItems DEF Nearby
<1>6. Cardinality(Records) \in Nat /\ Len(a) \in Nat /\ Len(b) \in Nat
  BY <1>3, MemoryGraphAssumption, FS_CardinalityType
<1>7. Len(a \o b) <= 2 * Cardinality(Records)
  BY <1>3, <1>5, <1>6
<1>8. CASE here.depth >= Depth
  <2>1. Ahead(here) = <<>>
    BY <1>4, <1>8
  <2> QED BY <1>1, <1>6, <1>8, <2>1
<1>9. CASE ~(here.depth >= Depth)
  <2>1. Ahead(here) = a \o b
    BY <1>4, <1>9
  <2> QED BY <1>1, <1>5, <1>7, <1>9, <2>1
<1> QED BY <1>8, <1>9

\* One round of the walk: its first entry is dropped, or its record is expanded.
LEMMA VisitProperties ==
  ASSUME Rooted, NEW walk \in Walks, walk.queue # <<>>
  PROVE  LET here == Head(walk.queue)
             rest == Tail(walk.queue)
             ahead == Added(Ahead(here), here.depth + 1)
         IN /\ here \in Entries
            /\ here.id \in Ids(walk.nodes) => Visit(walk) = [walk EXCEPT !.queue = rest]
            /\ here.id \notin Ids(walk.nodes) =>
                 Visit(walk) = [queue |-> rest \o ahead, nodes |-> Append(walk.nodes, here),
                                edges |-> walk.edges \cup Edges(here, Depth)]
            /\ Visit(walk) \in Walks
<1> DEFINE here == Head(walk.queue)
           rest == Tail(walk.queue)
           ahead == Added(Ahead(here), here.depth + 1)
<1>1. walk.queue \in Seq(Entries) /\ walk.nodes \in Seq(Entries)
      /\ walk.edges \in SUBSET (Records \X Records)
  BY DEF Walks
<1>2. here \in Entries /\ rest \in Seq(Entries)
  BY <1>1, TailItems
<1>3. here.id \in Records /\ here.depth \in Nat /\ here.depth + 1 \in Nat
  BY <1>2 DEF Entries
<1>4. Visit(walk) = IF here.id \in Ids(walk.nodes) THEN [walk EXCEPT !.queue = rest]
                    ELSE [queue |-> Queue(rest, Ahead(here), here.depth + 1),
                          nodes |-> Append(walk.nodes, here),
                          edges |-> walk.edges \cup Edges(here, Depth)]
  BY DEF Visit, Ahead, Depth
<1>5. Queue(rest, Ahead(here), here.depth + 1) = rest \o ahead /\ ahead \in Seq(Entries)
  <2>1. Ahead(here) \in Seq(Records)
    BY <1>2, AheadProperties
  <2> HIDE DEF rest, here
  <2> QED BY <1>2, <1>3, <2>1, QueueProperties
<1>6. Edges(here, Depth) \in SUBSET (Records \X Records)
  <2>1. References(here.id) \subseteq Records /\ Referrers(here.id) \subseteq Records
    BY <1>3, NearbyProperties DEF Active
  <2> HIDE DEF here
  <2> QED BY <1>3, <2>1 DEF Edges
<1> HIDE DEF here, rest, ahead
<1>7. Visit(walk) \in Walks
  <2>1. CASE here.id \in Ids(walk.nodes)
    BY <1>2, <1>4, <2>1 DEF Walks
  <2>2. CASE here.id \notin Ids(walk.nodes)
    <3>1. rest \o ahead \in Seq(Entries) /\ Append(walk.nodes, here) \in Seq(Entries)
      BY <1>1, <1>2, <1>5
    <3>2. walk.edges \cup Edges(here, Depth) \in SUBSET (Records \X Records)
      BY <1>1, <1>6
    <3>3. Visit(walk) = [queue |-> rest \o ahead, nodes |-> Append(walk.nodes, here),
                         edges |-> walk.edges \cup Edges(here, Depth)]
      BY <1>4, <1>5, <2>2
    <3> QED BY <3>1, <3>2, <3>3 DEF Walks
  <2> QED BY <2>1, <2>2
<1> QED BY <1>2, <1>4, <1>5, <1>7 DEF here, rest, ahead

\* A round goes from walk to walk.
LEMMA VisitType ==
  ASSUME Rooted, NEW walk \in Walks, walk.queue # <<>>
  PROVE  Visit(walk) \in Walks
BY VisitProperties

\* The walk begins at the root and goes on until it is over.
LEMMA WalkProperties ==
  ASSUME Rooted
  PROVE  /\ Walk \in [Nat -> Walks]
         /\ Walk[0] = [queue |-> <<[id |-> request.root, depth |-> 0]>>, nodes |-> <<>>, edges |-> {}]
         /\ \A n \in Nat : Walk[n + 1] = IF Over(Walk[n]) THEN Walk[n] ELSE Visit(Walk[n])
<1> DEFINE base == [queue |-> <<[id |-> request.root, depth |-> 0]>>, nodes |-> <<>>, edges |-> {}]
           next == [walk \in Walks |-> IF Over(walk) THEN walk ELSE Visit(walk)]
           Equation(f) == f = [n \in Nat |->
                      IF n = 0 THEN base
                      ELSE LET walk == f[n - 1] IN IF Over(walk) THEN walk ELSE Visit(walk)]
<1>1. base \in Walks
  <2>1. [id |-> request.root, depth |-> 0] \in Entries
    BY DEF Rooted, Active, Entries
  <2>2. <<[id |-> request.root, depth |-> 0]>> \in Seq(Entries) /\ <<>> \in Seq(Entries)
    BY <2>1
  <2> QED BY <2>2 DEF Walks
<1>2. next \in [Walks -> Walks]
  <2>1. \A walk \in Walks : ~Over(walk) => Visit(walk) \in Walks
    BY VisitType DEF Over
  <2> QED BY <2>1
<1>3. PICK f \in [Nat -> Walks] : f[0] = base /\ \A n \in Nat : f[n + 1] = next[f[n]]
  <2> HIDE DEF base, next
  <2> QED BY <1>1, <1>2, IterationExists
<1> HIDE DEF base
<1>4. \A n \in Nat : f[n] = IF n = 0 THEN base
                      ELSE LET walk == f[n - 1] IN IF Over(walk) THEN walk ELSE Visit(walk)
  <2>1. \A n \in Nat : n # 0 => n - 1 \in Nat /\ n = (n - 1) + 1
    OBVIOUS
  <2>2. \A walk \in Walks : next[walk] = IF Over(walk) THEN walk ELSE Visit(walk)
    OBVIOUS
  <2>3. \A n \in Nat : f[n] \in Walks
    BY <1>3
  <2> HIDE DEF next
  <2>4. \A n \in Nat : n # 0 => f[n] = next[f[n - 1]] /\ f[n - 1] \in Walks
    BY <1>3, <2>1, <2>3
  <2> QED BY <1>3, <2>2, <2>4
<1>5. Equation(f)
  <2>1. f = [n \in Nat |-> f[n]]
    BY <1>3
  <2> HIDE DEF next
  <2> QED BY <1>4, <2>1
<1>6. Walk = CHOOSE g : Equation(g)
  BY DEF Walk, base
<1>7. Equation(Walk)
  <2> HIDE DEF Equation
  <2> QED BY <1>5, <1>6
<1>8. Walk = [n \in Nat |-> IF n = 0 THEN base
              ELSE LET walk == Walk[n - 1] IN IF Over(walk) THEN walk ELSE Visit(walk)]
  BY <1>7
<1>9. \A n \in Nat : Walk[n] = IF n = 0 THEN base
              ELSE LET walk == Walk[n - 1] IN IF Over(walk) THEN walk ELSE Visit(walk)
  <2> HIDE DEF Equation
  <2> QED BY <1>8
<1>10. Walk[0] = base
  BY <1>9
<1>11. \A n \in Nat : Walk[n + 1] = IF Over(Walk[n]) THEN Walk[n] ELSE Visit(Walk[n])
  <2> TAKE n \in Nat
  <2>1. n + 1 \in Nat /\ n + 1 # 0 /\ (n + 1) - 1 = n
    OBVIOUS
  <2> QED BY <1>9, <2>1
<1>12. \A n \in Nat : Walk[n] \in Walks
  <2> DEFINE P == {n \in Nat : Walk[n] \in Walks}
  <2>1. 0 \in P
    BY <1>1, <1>10
  <2>2. ASSUME NEW n \in P PROVE n + 1 \in P
    <3>1. n \in Nat /\ n + 1 \in Nat /\ Walk[n] \in Walks
      OBVIOUS
    <3>2. ~Over(Walk[n]) => Visit(Walk[n]) \in Walks
      BY <3>1, VisitType DEF Over
    <3>3. Walk[n + 1] \in Walks
      BY <1>11, <3>1, <3>2
    <3> QED BY <3>1, <3>3
  <2> HIDE DEF P
  <2>3. P \in SUBSET Nat
    BY DEF P
  <2>4. P = Nat
    BY <2>1, <2>2, <2>3, AllNumbers
  <2> QED BY <2>4 DEF P
<1>13. Walk \in [Nat -> Walks]
  <2>1. Walk = [n \in Nat |-> Walk[n]]
    BY <1>8
  <2> QED BY <1>12, <2>1
<1> QED BY <1>10, <1>11, <1>13 DEF base

\* What a walk knows of: its nodes and its queue.
Known(walk) == ToSet(walk.nodes) \cup ToSet(walk.queue)
Reached(walk, x, depth) == \E e \in Known(walk) : e.id = x /\ e.depth <= depth

\* A record is expanded once.
EachOnce(walk) == \A k, l \in DOMAIN walk.nodes : walk.nodes[k].id = walk.nodes[l].id => k = l

\* What is known is as near as its entry says, or nearer, and not beyond the limit.
InReach(walk) == \A e \in Known(walk) : e.depth <= Depth /\ e.id \in Within[e.depth]

\* No node is farther than an entry of the queue.
NodesFirst(walk) == \A v \in ToSet(walk.nodes), e \in ToSet(walk.queue) : v.depth <= e.depth

\* The queue is in the order of depth, and has no more than two depths.
QueueInOrder(walk) ==
  \A i, j \in 1..Len(walk.queue) :
    /\ i <= j => walk.queue[i].depth <= walk.queue[j].depth
    /\ walk.queue[j].depth <= walk.queue[i].depth + 1

\* The root and the neighbours of every expanded node are known, as near as they are to it.
NeighboursKnown(walk) ==
  /\ Reached(walk, request.root, 0)
  /\ \A v \in ToSet(walk.nodes) : v.depth < Depth =>
       \A x \in Nearby(v.id) : Reached(walk, x, v.depth + 1)

\* Edges are references to or from expanded nodes.
EdgesFound(walk) ==
  \A e \in walk.edges :
    /\ e[2] \in References(e[1])
    /\ \E v \in ToSet(walk.nodes) : v.depth < Depth /\ v.id \in {e[1], e[2]}

BreadthFirst(walk) ==
  /\ walk \in Walks
  /\ EachOnce(walk) /\ InReach(walk) /\ NodesFirst(walk)
  /\ QueueInOrder(walk) /\ NeighboursKnown(walk) /\ EdgesFound(walk)

\* The first entry of the queue is no farther than the others, and at most one nearer.
LEMMA HeadIsNearest ==
  ASSUME NEW walk \in Walks, QueueInOrder(walk), walk.queue # <<>>,
         NEW e \in ToSet(walk.queue)
  PROVE  Head(walk.queue).depth <= e.depth /\ e.depth <= Head(walk.queue).depth + 1
<1>1. walk.queue \in Seq(Entries)
  BY DEF Walks
<1>2. Head(walk.queue) = walk.queue[1] /\ 1 \in 1..Len(walk.queue)
  BY <1>1
<1>3. PICK k \in 1..Len(walk.queue) : e = walk.queue[k]
  BY <1>1 DEF ToSet
<1>4. 1 <= k
  BY <1>3
<1> QED BY <1>2, <1>3, <1>4 DEF QueueInOrder

\* What is in the queue or among the nodes is an entry.
LEMMA KnownType ==
  ASSUME NEW walk \in Walks
  PROVE  /\ Known(walk) \subseteq Entries
         /\ \A e \in Entries : e.id \in Records /\ e.depth \in Nat
<1>1. \A s \in Seq(Entries) : ToSet(s) \subseteq Entries
  BY DEF ToSet
<1> QED BY <1>1 DEF Known, Walks, Entries

\* Where the record of the first entry has been expanded, the entry can go.
LEMMA DropKeeps ==
  ASSUME Rooted, NEW walk, BreadthFirst(walk), walk.queue # <<>>,
         Head(walk.queue).id \in Ids(walk.nodes)
  PROVE  BreadthFirst(Visit(walk))
<1> DEFINE here == Head(walk.queue)
           next == Visit(walk)
<1>1. walk \in Walks /\ walk.queue \in Seq(Entries) /\ walk.nodes \in Seq(Entries)
  BY DEF BreadthFirst, Walks
<1>2. next = [walk EXCEPT !.queue = Tail(walk.queue)] /\ next \in Walks
  BY <1>1, VisitProperties
<1>3. next.queue = Tail(walk.queue) /\ next.nodes = walk.nodes /\ next.edges = walk.edges
  BY <1>1, <1>2 DEF Walks
<1> HIDE DEF next
<1>4. /\ ToSet(walk.queue) = ToSet(next.queue) \cup {here}
      /\ Len(walk.queue) \in Nat \ {0} /\ Len(next.queue) = Len(walk.queue) - 1
      /\ \A k \in 1..(Len(walk.queue) - 1) : next.queue[k] = walk.queue[k + 1]
  BY <1>1, <1>3, TailItems
<1>5. /\ Known(next) \subseteq Known(walk) /\ Known(walk) = Known(next) \cup {here}
      /\ here \in ToSet(walk.queue) /\ here \in Known(walk)
  BY <1>3, <1>4 DEF Known
<1>6. \A e \in Known(walk) : e.depth \in Nat
  BY <1>1, KnownType
<1>7. PICK v \in ToSet(walk.nodes) : v.id = here.id
  BY <1>1 DEF Ids, ToSet
<1>8. v \in Known(next) /\ v \in Known(walk) /\ v.depth <= here.depth
  BY <1>3, <1>5, <1>7 DEF Known, BreadthFirst, NodesFirst
<1>9. \A x, k : k \in Nat /\ Reached(walk, x, k) => Reached(next, x, k)
  <2> SUFFICES ASSUME NEW x, NEW k \in Nat, NEW e \in Known(walk), e.id = x, e.depth <= k
               PROVE  Reached(next, x, k)
    BY DEF Reached
  <2>1. CASE e = here
    <3>1. v.id = x /\ v.depth <= k
      BY <1>5, <1>6, <1>7, <1>8, <2>1
    <3> QED BY <1>8, <3>1 DEF Reached
  <2>2. CASE e \in Known(next)
    BY <2>2 DEF Reached
  <2> QED BY <1>5, <2>1, <2>2
<1>10. EachOnce(next) /\ InReach(next) /\ NodesFirst(next) /\ EdgesFound(next)
  BY <1>3, <1>4, <1>5 DEF BreadthFirst, EachOnce, InReach, NodesFirst, EdgesFound
<1>11. QueueInOrder(next)
  <2> SUFFICES ASSUME NEW i \in 1..Len(next.queue), NEW j \in 1..Len(next.queue)
               PROVE  /\ i <= j => next.queue[i].depth <= next.queue[j].depth
                      /\ next.queue[j].depth <= next.queue[i].depth + 1
    BY DEF QueueInOrder
  <2>1. /\ i + 1 \in 1..Len(walk.queue) /\ j + 1 \in 1..Len(walk.queue)
        /\ i <= j => i + 1 <= j + 1
        /\ next.queue[i] = walk.queue[i + 1] /\ next.queue[j] = walk.queue[j + 1]
    BY <1>4
  <2> QED BY <2>1 DEF BreadthFirst, QueueInOrder
<1>12. NeighboursKnown(next)
  <2>1. \A u \in ToSet(next.nodes) : u.depth + 1 \in Nat
    BY <1>3, <1>6 DEF Known
  <2> QED BY <1>3, <1>9, <2>1 DEF BreadthFirst, NeighboursKnown
<1> QED BY <1>2, <1>10, <1>11, <1>12 DEF BreadthFirst, next

\* Otherwise its record is expanded, and its neighbours are queued behind all others.
LEMMA ExpandKeeps ==
  ASSUME Rooted, NEW walk, BreadthFirst(walk), walk.queue # <<>>,
         Head(walk.queue).id \notin Ids(walk.nodes)
  PROVE  BreadthFirst(Visit(walk))
<1> DEFINE here == Head(walk.queue)
           rest == Tail(walk.queue)
           added == Added(Ahead(here), here.depth + 1)
           next == Visit(walk)
<1>1. walk \in Walks /\ walk.queue \in Seq(Entries) /\ walk.nodes \in Seq(Entries)
  BY DEF BreadthFirst, Walks
<1>2. /\ next = [queue |-> rest \o added, nodes |-> Append(walk.nodes, here),
                 edges |-> walk.edges \cup Edges(here, Depth)]
      /\ next \in Walks /\ here \in Entries
  BY <1>1, VisitProperties
<1> HIDE DEF here, rest, added, next
<1>3. /\ next.queue = rest \o added /\ next.nodes = Append(walk.nodes, here)
      /\ next.edges = walk.edges \cup Edges(here, Depth)
  BY <1>2
<1>4. /\ ToSet(walk.queue) = ToSet(rest) \cup {here} /\ rest \in Seq(Entries)
      /\ Len(walk.queue) \in Nat \ {0} /\ Len(rest) = Len(walk.queue) - 1
      /\ \A k \in 1..(Len(walk.queue) - 1) : rest[k] = walk.queue[k + 1]
  BY <1>1, TailItems DEF here, rest
<1>5. here.id \in Records /\ here.depth \in Nat /\ here.depth + 1 \in Nat /\ Depth \in Nat
  BY <1>2, DepthType DEF Entries
<1>6. /\ Ahead(here) \in Seq(Records)
      /\ here.depth < Depth => ToSet(Ahead(here)) = Nearby(here.id)
      /\ ~(here.depth < Depth) => Ahead(here) = <<>>
  BY <1>2, AheadProperties
<1>7. /\ added \in Seq(Entries)
      /\ ToSet(added) = {[id |-> x, depth |-> here.depth + 1] : x \in ToSet(Ahead(here))}
  BY <1>1, <1>5, <1>6, QueueProperties DEF added
<1>8. ToSet(next.queue) = ToSet(rest) \cup ToSet(added)
  BY <1>3, <1>4, <1>7, ConcatItems
<1>9. ToSet(next.nodes) = ToSet(walk.nodes) \cup {here}
  <2> DEFINE one == <<here>>
  <2>1. Append(walk.nodes, here) = walk.nodes \o one
    BY <1>1, <1>2
  <2>2. one \in Seq(Entries) /\ ToSet(one) = {here}
    BY <1>2 DEF ToSet
  <2> HIDE DEF one
  <2> QED BY <1>1, <1>3, <2>1, <2>2, ConcatItems
<1>10. /\ Known(next) = Known(walk) \cup ToSet(added)
       /\ here \in Known(walk) /\ here \in ToSet(walk.queue) /\ here \in ToSet(next.nodes)
  BY <1>4, <1>8, <1>9 DEF Known
<1>11. \A e \in ToSet(added) :
         /\ here.depth < Depth /\ e.depth = here.depth + 1
         /\ e.id \in Nearby(here.id) /\ e.depth \in Nat
  <2> TAKE e \in ToSet(added)
  <2>1. PICK x \in ToSet(Ahead(here)) : e = [id |-> x, depth |-> here.depth + 1]
    BY <1>7
  <2>2. Ahead(here) # <<>>
    BY <2>1 DEF ToSet
  <2> QED BY <1>5, <1>6, <2>1, <2>2
<1>12. \A e \in Known(walk) : e.depth \in Nat
  BY <1>1, KnownType
<1>13. \A e \in ToSet(rest) : here.depth <= e.depth /\ e.depth <= here.depth + 1 /\ e.depth \in Nat
  BY <1>1, <1>4, <1>12, HeadIsNearest DEF BreadthFirst, here, Known
<1>14. EachOnce(next)
  <2> DEFINE n == Len(walk.nodes)
  <2>1. /\ n \in Nat /\ DOMAIN walk.nodes = 1..n /\ DOMAIN next.nodes = 1..(n + 1)
        /\ \A k \in 1..n : next.nodes[k] = walk.nodes[k]
        /\ next.nodes[n + 1] = here
    BY <1>1, <1>2, <1>3
  <2> HIDE DEF n
  <2>2. \A k \in 1..(n + 1) : k \in 1..n \/ k = n + 1
    BY <2>1
  <2>3. \A k \in 1..n : walk.nodes[k].id # here.id
    BY <2>1 DEF Ids, here
  <2> QED BY <2>1, <2>2, <2>3 DEF BreadthFirst, EachOnce
<1>15. InReach(next)
  <2> SUFFICES ASSUME NEW e \in ToSet(added) PROVE e.depth <= Depth /\ e.id \in Within[e.depth]
    BY <1>10 DEF BreadthFirst, InReach
  <2>1. here.depth < Depth /\ e.depth = here.depth + 1 /\ e.id \in Nearby(here.id)
    BY <1>11
  <2>2. here.id \in Within[here.depth]
    BY <1>10 DEF BreadthFirst, InReach
  <2>3. Nearby(here.id) \subseteq Active(row)
    BY <1>5, NearbyProperties DEF Nearby
  <2>4. e.id \in Within[here.depth + 1]
    BY <1>5, <2>1, <2>2, <2>3, WithinProperties
  <2> QED BY <1>5, <2>1, <2>4
<1>16. NodesFirst(next)
  <2> SUFFICES ASSUME NEW v \in ToSet(next.nodes), NEW e \in ToSet(next.queue)
               PROVE  v.depth <= e.depth
    BY DEF NodesFirst
  <2>1. v.depth <= here.depth /\ v.depth \in Nat
    <3>1. CASE v \in ToSet(walk.nodes)
      BY <1>10, <1>12, <3>1 DEF BreadthFirst, NodesFirst, Known
    <3>2. CASE v = here
      BY <1>5, <3>2
    <3> QED BY <1>9, <3>1, <3>2
  <2>2. here.depth <= e.depth /\ e.depth \in Nat
    BY <1>5, <1>8, <1>11, <1>13
  <2> QED BY <1>5, <2>1, <2>2
<1>17. QueueInOrder(next)
  <2> DEFINE m == Len(rest)
             n == Len(added)
             q == next.queue
  <2>1. /\ m \in Nat /\ n \in Nat /\ Len(q) = m + n
        /\ \A k \in 1..m : q[k] = rest[k]
        /\ \A k \in 1..n : q[m + k] = added[k]
    <3> DEFINE u == rest \o added
    <3>0. rest \in Seq(Entries) /\ added \in Seq(Entries)
      BY <1>4, <1>7
    <3>3. m \in Nat /\ n \in Nat
      BY <3>0
    <3>4. /\ rest \o added \in Seq(Entries)
          /\ DOMAIN (rest \o added) = 1..(Len(rest) + Len(added))
          /\ \A k \in 1..Len(rest) : (rest \o added)[k] = rest[k]
          /\ \A k \in 1..Len(added) : (rest \o added)[Len(rest) + k] = added[k]
      BY <3>0, JoinedProperties
    <3>1. /\ u \in Seq(Entries) /\ DOMAIN u = 1..(m + n) /\ m \in Nat /\ n \in Nat
          /\ \A k \in 1..m : u[k] = rest[k]
          /\ \A k \in 1..n : u[m + k] = added[k]
      BY <3>3, <3>4
    <3> HIDE DEF u, m, n
    <3>2. Len(u) = m + n
      BY <3>1
    <3> QED BY <1>3, <3>1, <3>2 DEF u
  <2>2. /\ \A k \in 1..m : rest[k] \in ToSet(rest)
        /\ \A k \in 1..n : added[k] \in ToSet(added)
    BY <1>4, <1>7 DEF ToSet
  <2> HIDE DEF n, q
  <2>3. \A k \in 1..(m + n) : k \in 1..m \/ (k > m /\ k - m \in 1..n /\ k = m + (k - m))
    BY <2>1
  <2>4. \A k \in 1..(m + n) : k > m => q[k].depth = here.depth + 1
    <3> TAKE k \in 1..(m + n)
    <3> HAVE k > m
    <3>1. k - m \in 1..n /\ m + (k - m) = k
      BY <2>1
    <3>2. q[k] = added[k - m] /\ added[k - m] \in ToSet(added)
      BY <2>1, <2>2, <3>1
    <3> QED BY <1>11, <3>2
  <2>5. \A i, j \in 1..m : /\ i <= j => rest[i].depth <= rest[j].depth
                           /\ rest[j].depth <= rest[i].depth + 1
    <3> TAKE i, j \in 1..m
    <3>1. /\ i + 1 \in 1..Len(walk.queue) /\ j + 1 \in 1..Len(walk.queue)
          /\ i <= j => i + 1 <= j + 1
          /\ rest[i] = walk.queue[i + 1] /\ rest[j] = walk.queue[j + 1]
      BY <1>4
    <3> QED BY <3>1 DEF BreadthFirst, QueueInOrder
  <2>6. \A k \in 1..m : /\ q[k] = rest[k] /\ q[k].depth \in Nat
                        /\ here.depth <= q[k].depth /\ q[k].depth <= here.depth + 1
    BY <1>13, <2>1, <2>2
  <2> SUFFICES ASSUME NEW i \in 1..(m + n), NEW j \in 1..(m + n)
               PROVE  /\ i <= j => q[i].depth <= q[j].depth
                      /\ q[j].depth <= q[i].depth + 1
    BY <2>1 DEF QueueInOrder, q
  <2>7. CASE i \in 1..m /\ j \in 1..m
    BY <2>5, <2>6, <2>7
  <2>8. CASE i \in 1..m /\ j > m
    BY <1>5, <2>4, <2>6, <2>8
  <2>9. CASE i > m /\ j \in 1..m
    <3>1. ~(i <= j)
      BY <2>1, <2>9
    <3>2. q[i].depth = here.depth + 1 /\ q[j].depth \in Nat /\ q[j].depth <= here.depth + 1
      BY <2>4, <2>6, <2>9
    <3>3. q[j].depth <= q[i].depth + 1
      BY <1>5, <3>2
    <3> QED BY <3>1, <3>3
  <2>10. CASE i > m /\ j > m
    BY <1>5, <2>4, <2>10
  <2> QED BY <2>3, <2>7, <2>8, <2>9, <2>10
<1>18. NeighboursKnown(next)
  <2>1. \A x, k : Reached(walk, x, k) => Reached(next, x, k)
    BY <1>10 DEF Reached
  <2>2. here.depth < Depth => \A x \in Nearby(here.id) : Reached(next, x, here.depth + 1)
    <3> SUFFICES ASSUME here.depth < Depth, NEW x \in Nearby(here.id)
                 PROVE  Reached(next, x, here.depth + 1)
      OBVIOUS
    <3>1. [id |-> x, depth |-> here.depth + 1] \in ToSet(added)
      BY <1>6, <1>7
    <3>2. [id |-> x, depth |-> here.depth + 1] \in Known(next)
      BY <1>10, <3>1
    <3>3. here.depth + 1 <= here.depth + 1
      BY <1>5
    <3> QED BY <3>2, <3>3 DEF Reached
  <2> QED BY <1>9, <2>1, <2>2 DEF BreadthFirst, NeighboursKnown
<1>19. EdgesFound(next)
  <2> SUFFICES ASSUME NEW e \in Edges(here, Depth)
               PROVE  /\ e[2] \in References(e[1])
                      /\ here.depth < Depth /\ here.id \in {e[1], e[2]}
    BY <1>3, <1>9 DEF BreadthFirst, EdgesFound
  <2>1. here.depth < Depth
    BY <1>5 DEF Edges
  <2>2. \/ \E x \in References(here.id) : e = <<here.id, x>>
        \/ \E x \in Referrers(here.id) : e = <<x, here.id>>
    BY <1>5, <2>1 DEF Edges
  <2> QED BY <2>1, <2>2 DEF Referrers
<1> QED BY <1>2, <1>14, <1>15, <1>16, <1>17, <1>18, <1>19 DEF BreadthFirst, next

\* Before the first round only the root is known.
LEMMA BeginsBreadthFirst == ASSUME Rooted PROVE BreadthFirst(Walk[0])
<1> DEFINE walk == Walk[0]
           root == [id |-> request.root, depth |-> 0]
<1>1. walk \in Walks /\ walk = [queue |-> <<root>>, nodes |-> <<>>, edges |-> {}]
  BY WalkProperties
<1>2. walk.queue = <<root>> /\ walk.nodes = <<>> /\ walk.edges = {}
  BY <1>1
<1> HIDE DEF walk, root
<1>3. ToSet(walk.queue) = {root} /\ ToSet(walk.nodes) = {} /\ Known(walk) = {root}
  BY <1>2 DEF ToSet, Known
<1>4. root.id = request.root /\ root.depth = 0
  BY DEF root
<1>5. 0 <= Depth /\ request.root \in Within[0]
  BY DepthType, WithinProperties
<1>6. EachOnce(walk) /\ NodesFirst(walk) /\ EdgesFound(walk)
  BY <1>2, <1>3 DEF EachOnce, NodesFirst, EdgesFound
<1>7. InReach(walk)
  BY <1>3, <1>4, <1>5 DEF InReach
<1>8. NeighboursKnown(walk)
  BY <1>3, <1>4 DEF NeighboursKnown, Reached
<1>9. QueueInOrder(walk)
  <2>1. \A i \in 1..Len(walk.queue) : walk.queue[i].depth = 0
    BY <1>2, <1>4
  <2> QED BY <2>1 DEF QueueInOrder
<1> QED BY <1>1, <1>6, <1>7, <1>8, <1>9 DEF BreadthFirst, walk

\* At least one node may be reported.
LEMMA NodeLimitType == ASSUME Rooted PROVE NodeLimit \in Nat /\ NodeLimit >= 1
<1>1. MaxNodes - 1 \in Nat /\ request.nodes - 1 \in Nat
  BY MemoryGraphAssumption DEF Rooted
<1> QED BY <1>1 DEF NodeLimit, Limit, Clamp, Least

\* Every round keeps breadth first, and the limit of nodes.
LEMMA StaysBreadthFirst ==
  ASSUME Rooted
  PROVE  \A n \in Nat : BreadthFirst(Walk[n]) /\ Len(Walk[n].nodes) <= NodeLimit
<1> DEFINE P == {n \in Nat : BreadthFirst(Walk[n]) /\ Len(Walk[n].nodes) <= NodeLimit}
<1>1. 0 \in P
  <2>1. Walk[0].nodes = <<>> /\ Len(<<>>) = 0
    BY WalkProperties
  <2>2. Len(Walk[0].nodes) <= NodeLimit
    BY <2>1, NodeLimitType
  <2> QED BY <2>2, BeginsBreadthFirst
<1>2. ASSUME NEW n \in P PROVE n + 1 \in P
  <2> DEFINE walk == Walk[n]
  <2>1. n \in Nat /\ n + 1 \in Nat /\ BreadthFirst(walk) /\ Len(walk.nodes) <= NodeLimit
    OBVIOUS
  <2>2. walk \in Walks /\ Walk[n + 1] = IF Over(walk) THEN walk ELSE Visit(walk)
    BY <2>1, WalkProperties
  <2> HIDE DEF walk
  <2>3. CASE Over(walk)
    BY <2>1, <2>2, <2>3
  <2>4. CASE ~Over(walk)
    <3>1. walk.queue # <<>> /\ ~(Len(walk.nodes) >= NodeLimit)
      BY <2>4 DEF Over
    <3>2. BreadthFirst(Visit(walk))
      BY <2>1, <3>1, DropKeeps, ExpandKeeps
    <3>3. Len(Visit(walk).nodes) <= NodeLimit
      <4>1. walk.nodes \in Seq(Entries) /\ Len(walk.nodes) \in Nat
        BY <2>2 DEF Walks
      <4>2. Head(walk.queue).id \in Ids(walk.nodes) => Visit(walk).nodes = walk.nodes
        <5>1. Head(walk.queue).id \in Ids(walk.nodes) =>
                Visit(walk) = [walk EXCEPT !.queue = Tail(walk.queue)]
          BY <2>2, <3>1, VisitProperties
        <5> QED BY <2>2, <5>1 DEF Walks
      <4>3. Head(walk.queue).id \notin Ids(walk.nodes) =>
              Visit(walk).nodes = Append(walk.nodes, Head(walk.queue))
        <5> DEFINE here == Head(walk.queue)
        <5>1. here.id \notin Ids(walk.nodes) =>
                Visit(walk) = [queue |-> Tail(walk.queue) \o Added(Ahead(here), here.depth + 1),
                               nodes |-> Append(walk.nodes, here),
                               edges |-> walk.edges \cup Edges(here, Depth)]
          BY <2>2, <3>1, VisitProperties
        <5> HIDE DEF here
        <5>2. here.id \notin Ids(walk.nodes) => Visit(walk).nodes = Append(walk.nodes, here)
          BY <5>1
        <5> QED BY <5>2 DEF here
      <4>4. Len(Append(walk.nodes, Head(walk.queue))) = Len(walk.nodes) + 1
        BY <4>1
      <4> QED BY <2>1, <3>1, <4>1, <4>2, <4>3, <4>4, NodeLimitType
    <3> QED BY <2>1, <2>2, <2>4, <3>2, <3>3 DEF walk
  <2> QED BY <2>3, <2>4
<1> HIDE DEF P
<1>3. P \in SUBSET Nat
  BY DEF P
<1>4. P = Nat
  BY <1>1, <1>2, <1>3, AllNumbers
<1> QED BY <1>4 DEF P

\* The queue of a walk that goes on: each round takes one entry from it, and each node
\* has added no more than two for each record.
Remaining(walk, n) ==
  ~Over(walk) => n + Len(walk.queue) <= 1 + (2 * Cardinality(Records)) * Len(walk.nodes)

\* MaxRounds are enough for every graph: the walk has stopped by itself.
LEMMA WalkEnds == ASSUME Rooted PROVE Over(Walk[MaxRounds])
<1> DEFINE c == 2 * Cardinality(Records)
<1>1. Cardinality(Records) \in Nat /\ c \in Nat
  BY MemoryGraphAssumption, FS_CardinalityType
<1> HIDE DEF c
<1> DEFINE P == {n \in Nat : Remaining(Walk[n], n)}
<1>2. 0 \in P
  <2>1. /\ Walk[0].queue = <<[id |-> request.root, depth |-> 0]>> /\ Walk[0].nodes = <<>>
    BY WalkProperties
  <2>2. Len(Walk[0].queue) = 1 /\ Len(Walk[0].nodes) = 0
    BY <2>1
  <2>3. 0 + 1 <= 1 + c * 0
    BY <1>1
  <2> QED BY <2>2, <2>3 DEF Remaining, c
<1>3. ASSUME NEW n \in P PROVE n + 1 \in P
  <2> DEFINE walk == Walk[n]
             next == Walk[n + 1]
  <2>1. n \in Nat /\ n + 1 \in Nat /\ Remaining(walk, n)
    OBVIOUS
  <2>2. walk \in Walks /\ next = IF Over(walk) THEN walk ELSE Visit(walk)
    BY <2>1, WalkProperties
  <2> HIDE DEF walk, next
  <2>3. CASE Over(walk)
    BY <2>1, <2>2, <2>3 DEF Remaining, next
  <2>4. CASE ~Over(walk)
    <3> DEFINE here == Head(walk.queue)
               rest == Tail(walk.queue)
               added == Added(Ahead(here), here.depth + 1)
    <3>1. walk.queue # <<>> /\ walk.queue \in Seq(Entries) /\ walk.nodes \in Seq(Entries)
      BY <2>2, <2>4 DEF Over, Walks
    <3>2. here \in Entries /\ rest \in Seq(Entries) /\ Len(rest) = Len(walk.queue) - 1
      BY <3>1, TailItems
    <3>3. /\ here.id \in Ids(walk.nodes) => next = [walk EXCEPT !.queue = rest]
          /\ here.id \notin Ids(walk.nodes) =>
               next = [queue |-> rest \o added, nodes |-> Append(walk.nodes, here),
                       edges |-> walk.edges \cup Edges(here, Depth)]
      BY <2>2, <2>4, <3>1, VisitProperties
    <3> HIDE DEF here, rest
    <3>4. added \in Seq(Entries) /\ Len(added) <= c
      <4>1. here.depth + 1 \in Nat
        BY <3>2 DEF Entries
      <4>2. Ahead(here) \in Seq(Records) /\ Len(Ahead(here)) <= c
        BY <3>2, AheadProperties DEF c
      <4> QED BY <3>2, <4>1, <4>2, QueueProperties
    <3> HIDE DEF added
    <3> DEFINE q == Len(walk.queue)
               m == Len(walk.nodes)
    <3>5. /\ q \in Nat /\ m \in Nat /\ Len(rest) = q - 1 /\ Len(added) \in Nat
          /\ n + q <= 1 + c * m
      BY <2>1, <2>4, <3>1, <3>2, <3>4 DEF Remaining, c
    <3>6. CASE here.id \in Ids(walk.nodes)
      <4>1. Len(next.queue) = q - 1 /\ Len(next.nodes) = m
        BY <2>2, <3>3, <3>5, <3>6 DEF Walks
      <4> HIDE DEF q, m
      <4>2. c * m \in Nat
        BY <1>1, <3>5
      <4>3. (n + 1) + (q - 1) <= 1 + c * m
        BY <2>1, <3>5, <4>2
      <4> QED BY <2>1, <4>1, <4>3 DEF Remaining, next, c
    <3>7. CASE here.id \notin Ids(walk.nodes)
      <4>1. Len(next.queue) = (q - 1) + Len(added) /\ Len(next.nodes) = m + 1
        <5>1. next.queue = rest \o added /\ next.nodes = Append(walk.nodes, here)
          BY <3>3, <3>7
        <5>2. Len(rest \o added) = Len(rest) + Len(added)
          BY <3>2, <3>4
        <5>3. Len(Append(walk.nodes, here)) = Len(walk.nodes) + 1
          BY <3>1
        <5> QED BY <3>5, <5>1, <5>2, <5>3
      <4> HIDE DEF q, m
      <4>2. c * m \in Nat /\ c * (m + 1) = c * m + c
        BY <1>1, <3>5
      <4>3. (n + 1) + ((q - 1) + Len(added)) <= 1 + c * (m + 1)
        BY <1>1, <2>1, <3>4, <3>5, <4>2
      <4> QED BY <2>1, <4>1, <4>3 DEF Remaining, next, c
    <3> QED BY <3>6, <3>7
  <2> QED BY <2>3, <2>4
<1>4. P = Nat
  <2> HIDE DEF P
  <2>1. P \in SUBSET Nat
    BY DEF P
  <2> QED BY <1>2, <1>3, <2>1, AllNumbers
<1> DEFINE walk == Walk[MaxRounds]
           r == Cardinality(Records)
<1>5. MaxRounds \in Nat /\ MaxRounds = 1 + c * r
  BY <1>1 DEF MaxRounds, c
<1>6. Remaining(walk, MaxRounds)
  BY <1>4, <1>5
<1>7. walk \in Walks /\ BreadthFirst(walk)
  BY <1>5, StaysBreadthFirst DEF BreadthFirst
<1> HIDE DEF walk
<1>8. walk.nodes \in Seq(Entries) /\ walk.queue \in Seq(Entries)
  BY <1>7 DEF Walks
<1>9. Len(walk.nodes) <= r
  <2>1. \A e \in Entries : e.id \in Records
    BY DEF Entries
  <2> QED BY <1>7, <1>8, <2>1, DistinctItems DEF BreadthFirst, EachOnce
<1>10. SUFFICES ASSUME ~Over(walk) PROVE FALSE
  BY DEF walk
<1>11. Len(walk.queue) >= 1 /\ Len(walk.queue) \in Nat /\ Len(walk.nodes) \in Nat
  <2>1. walk.queue # <<>>
    BY <1>10 DEF Over
  <2> QED BY <1>8, <2>1
<1>12. MaxRounds + Len(walk.queue) <= 1 + c * Len(walk.nodes)
  BY <1>6, <1>10 DEF Remaining, c
<1>13. c * Len(walk.nodes) <= c * r
  <2> DEFINE m == Len(walk.nodes)
  <2>1. m \in Nat /\ m <= r /\ r \in Nat
    BY <1>1, <1>9, <1>11
  <2> HIDE DEF m, r
  <2>2. r - m \in Nat /\ r = m + (r - m)
    BY <2>1
  <2>3. c * (r - m) \in Nat /\ c * r = c * m + c * (r - m) /\ c * m \in Nat
    BY <1>1, <2>1, <2>2
  <2>4. c * m <= c * r
    BY <2>3
  <2> QED BY <2>4 DEF m
<1> HIDE DEF r
<1>14. c * r \in Nat /\ c * Len(walk.nodes) \in Nat
  BY <1>1, <1>11 DEF r
<1> QED BY <1>5, <1>11, <1>12, <1>13, <1>14

\* Who is within some references is within more.
LEMMA WithinGrows ==
  ASSUME Rooted, NEW m \in Nat, NEW n \in Nat, m <= n
  PROVE  Within[m] \subseteq Within[n]
<1> DEFINE P == {k \in Nat : Within[m] \subseteq Within[m + k]}
<1>1. 0 \in P
  BY DEF P
<1>2. ASSUME NEW k \in P PROVE k + 1 \in P
  <2>1. k + 1 \in Nat /\ m + k \in Nat /\ m + (k + 1) = (m + k) + 1
    OBVIOUS
  <2>2. Within[m + k] \subseteq Within[(m + k) + 1]
    BY <2>1, WithinProperties
  <2> QED BY <2>1, <2>2
<1>3. P = Nat
  <2> HIDE DEF P
  <2>1. P \in SUBSET Nat
    BY DEF P
  <2> QED BY <1>1, <1>2, <2>1, AllNumbers
<1>4. n - m \in P /\ m + (n - m) = n
  <2>1. n - m \in Nat /\ m + (n - m) = n
    OBVIOUS
  <2> HIDE DEF P
  <2> QED BY <1>3, <2>1
<1> QED BY <1>4

\* Breadth first: whoever is within n references is an expanded node that is no farther
\* than that, or an entry as near is still in the queue.
LEMMA NearFirst ==
  ASSUME Rooted, NEW walk, BreadthFirst(walk)
  PROVE  \A n \in 0..Depth : \A x \in Within[n] :
           \E e \in Known(walk) : e.depth <= n /\ (e.id = x \/ e \in ToSet(walk.queue))
<1> DEFINE Near(n) == \A x \in Within[n] :
             \E e \in Known(walk) : e.depth <= n /\ (e.id = x \/ e \in ToSet(walk.queue))
           P == {n \in Nat : n <= Depth => Near(n)}
<1>1. Depth \in Nat /\ \A e \in Known(walk) : e.depth \in Nat
  BY DepthType, KnownType DEF BreadthFirst
<1>2. 0 \in P
  <2>1. Within[0] = {request.root}
    BY WithinProperties
  <2> QED BY <2>1 DEF BreadthFirst, NeighboursKnown, Reached
<1>3. ASSUME NEW n \in P PROVE n + 1 \in P
  <2>1. n \in Nat /\ n + 1 \in Nat
    OBVIOUS
  <2>2. SUFFICES ASSUME n + 1 <= Depth, NEW x \in Within[n + 1]
        PROVE  \E e \in Known(walk) : e.depth <= n + 1 /\ (e.id = x \/ e \in ToSet(walk.queue))
    BY <2>1
  <2>3. n < Depth /\ Near(n)
    BY <1>1, <2>1, <2>2
  <2>4. PICK y \in Within[n] : x = y \/ x \in Nearby(y)
    BY <2>1, <2>2, WithinProperties
  <2>5. PICK e \in Known(walk) : e.depth <= n /\ (e.id = y \/ e \in ToSet(walk.queue))
    BY <2>3
  <2>6. e.depth \in Nat /\ e.depth <= n + 1 /\ e.depth < Depth /\ e.depth + 1 <= n + 1
    BY <1>1, <2>1, <2>3, <2>5
  <2>7. CASE e \in ToSet(walk.queue) \/ x = y
    BY <2>5, <2>6, <2>7
  <2>8. CASE e \notin ToSet(walk.queue) /\ x \in Nearby(y)
    <3>1. e \in ToSet(walk.nodes) /\ x \in Nearby(e.id)
      BY <2>5, <2>8 DEF Known
    <3>2. PICK f \in Known(walk) : f.id = x /\ f.depth <= e.depth + 1
      BY <2>6, <3>1 DEF BreadthFirst, NeighboursKnown, Reached
    <3>3. f.depth \in Nat
      BY <1>1
    <3>4. f.depth <= n + 1
      BY <2>1, <2>6, <3>2, <3>3
    <3> QED BY <3>2, <3>4
  <2> QED BY <2>4, <2>7, <2>8
<1>4. P = Nat
  <2> HIDE DEF P
  <2>1. P \in SUBSET Nat
    BY DEF P
  <2> QED BY <1>2, <1>3, <2>1, AllNumbers
<1>5. ASSUME NEW n \in 0..Depth PROVE Near(n)
  <2>1. n \in P /\ n <= Depth
    BY <1>1, <1>4
  <2> QED BY <2>1
<1> QED BY <1>5

\* The distance of a record within the limit is the least number of references.
LEMMA DistanceProperties ==
  ASSUME Rooted, NEW x \in Within[Depth]
  PROVE  /\ Distance(x) \in 0..Depth /\ x \in Within[Distance(x)]
         /\ \A n \in 0..Depth : x \in Within[n] => Distance(x) <= n
<1> DEFINE S == {n \in 0..MaxDepth : x \in Within[n]}
<1>1. Depth \in 0..MaxDepth /\ MaxDepth \in Nat
  BY DepthType
<1>2. S \in SUBSET Nat /\ Depth \in S
  BY <1>1
<1>3. Distance(x) = Min(S)
  BY DEF Distance
<1>4. Min(S) \in S /\ \A n \in S : Min(S) <= n
  <2> HIDE DEF S
  <2> QED BY <1>2, LeastOfSet DEF Min
<1>5. Distance(x) \in 0..MaxDepth /\ x \in Within[Distance(x)] /\ Distance(x) <= Depth
  BY <1>2, <1>3, <1>4
<1>6. \A n \in 0..Depth : n \in 0..MaxDepth
  BY <1>1
<1> QED BY <1>1, <1>3, <1>4, <1>5, <1>6

\* The graph has the nearest records, each once, at their distances.
LEMMA ExploredNearest == ASSUME Rooted PROVE NearestFirst(Explored)
<1> DEFINE walk == Walk[MaxRounds]
<1>0. MaxRounds \in Nat
  <2>1. Cardinality(Records) \in Nat
    BY MemoryGraphAssumption, FS_CardinalityType
  <2> QED BY <2>1 DEF MaxRounds
<1>1. /\ walk \in Walks /\ BreadthFirst(walk) /\ Len(walk.nodes) <= NodeLimit /\ Over(walk)
      /\ Explored.nodes = walk.nodes /\ Explored.truncated = (walk.queue # <<>>)
  BY <1>0, StaysBreadthFirst, WalkEnds DEF Explored, BreadthFirst
<1> HIDE DEF walk
<1>2. walk.queue \in Seq(Entries) /\ walk.nodes \in Seq(Entries)
  BY <1>1 DEF Walks
<1>3. /\ Depth \in 0..MaxDepth /\ MaxDepth \in Nat
      /\ \A e \in Known(walk) : e.depth \in Nat /\ e.id \in Records
  BY <1>1, DepthType, KnownType
<1>4. Ids(walk.nodes) = {v.id : v \in ToSet(walk.nodes)}
  BY <1>2 DEF Ids, ToSet
<1>5. ToSet(walk.nodes) \subseteq Known(walk) /\ ToSet(walk.queue) \subseteq Known(walk)
  BY DEF Known
<1>6. \A u, v \in ToSet(walk.nodes) : u.id = v.id => u = v
  BY <1>1, <1>2 DEF BreadthFirst, EachOnce, ToSet
<1>7. \A v \in Known(walk) : v.id \in Within[Depth] /\ v.id \in Within[v.depth] /\ v.depth \in 0..Depth
  <2> TAKE v \in Known(walk)
  <2>1. v.depth \in Nat /\ v.depth <= Depth /\ v.id \in Within[v.depth]
    BY <1>1, <1>3 DEF BreadthFirst, InReach
  <2>2. Within[v.depth] \subseteq Within[Depth]
    BY <1>3, <2>1, WithinGrows
  <2> QED BY <1>3, <2>1, <2>2
<1>8. Ids(walk.nodes) \subseteq Within[Depth]
  BY <1>4, <1>5, <1>7
<1>9. walk.queue = <<>> => Ids(walk.nodes) = Within[Depth]
  <2> SUFFICES ASSUME walk.queue = <<>>, NEW x \in Within[Depth] PROVE x \in Ids(walk.nodes)
    BY <1>8
  <2>1. ToSet(walk.queue) = {} /\ Known(walk) = ToSet(walk.nodes)
    BY DEF ToSet, Known
  <2>2. Depth \in 0..Depth
    BY <1>3
  <2>3. PICK e \in Known(walk) : e.id = x
    BY <1>1, <2>1, <2>2, NearFirst
  <2> QED BY <1>4, <2>1, <2>3
<1>10. ASSUME NEW v \in ToSet(walk.nodes) PROVE v.depth = Distance(v.id)
  <2>1. v.id \in Within[Depth] /\ v.id \in Within[v.depth] /\ v.depth \in 0..Depth
    BY <1>5, <1>7
  <2>2. /\ Distance(v.id) \in 0..Depth /\ v.id \in Within[Distance(v.id)]
        /\ Distance(v.id) <= v.depth
    BY <2>1, DistanceProperties
  <2>3. PICK e \in Known(walk) : e.depth <= Distance(v.id)
                                  /\ (e.id = v.id \/ e \in ToSet(walk.queue))
    BY <1>1, <2>2, NearFirst
  <2>4. v.depth <= e.depth
    <3>1. CASE e \in ToSet(walk.queue)
      BY <1>1, <3>1 DEF BreadthFirst, NodesFirst
    <3>2. CASE e \notin ToSet(walk.queue)
      <4>1. e \in ToSet(walk.nodes) /\ e.id = v.id
        BY <2>3, <3>2 DEF Known
      <4>2. e = v
        BY <1>6, <4>1
      <4> QED BY <2>1, <4>2
    <3> QED BY <3>1, <3>2
  <2> QED BY <1>3, <2>1, <2>2, <2>3, <2>4
<1>11. ASSUME NEW v \in ToSet(walk.nodes), NEW x \in Within[Depth] \ Ids(walk.nodes)
       PROVE  Distance(x) >= v.depth
  <2>1. Distance(x) \in 0..Depth /\ x \in Within[Distance(x)]
    BY DistanceProperties
  <2>2. PICK e \in Known(walk) : e.depth <= Distance(x) /\ (e.id = x \/ e \in ToSet(walk.queue))
    BY <1>1, <2>1, NearFirst
  <2>3. e \in ToSet(walk.queue)
    BY <1>4, <2>2 DEF Known
  <2>4. v.depth <= e.depth
    BY <1>1, <2>3 DEF BreadthFirst, NodesFirst
  <2>5. v.depth \in Nat /\ e.depth \in Nat
    BY <1>3, <1>5
  <2> QED BY <2>1, <2>2, <2>4, <2>5
<1>12. Len(walk.nodes) = Cardinality(Ids(walk.nodes))
  <2>1. \A e \in Entries : e.id \in Records
    BY DEF Entries
  <2> QED BY <1>1, <1>2, <2>1, DistinctItems DEF BreadthFirst, EachOnce
<1>13. walk.queue # <<>> => Len(walk.nodes) = NodeLimit
  <2>1. Len(walk.nodes) \in Nat /\ NodeLimit \in Nat
    BY <1>2, NodeLimitType
  <2> QED BY <1>1, <2>1 DEF Over
<1>14. Depth = Limit(request.depth, MaxDepth)
  BY DEF Depth
<1> QED BY <1>1, <1>8, <1>9, <1>10, <1>11, <1>12, <1>13, <1>14 DEF NearestFirst

\* Its edges are references, and have an end that it does not report only if it is truncated.
LEMMA ExploredEdges == ASSUME Rooted PROVE EdgesReported(Explored)
<1> DEFINE walk == Walk[MaxRounds]
<1>0. MaxRounds \in Nat
  <2>1. Cardinality(Records) \in Nat
    BY MemoryGraphAssumption, FS_CardinalityType
  <2> QED BY <2>1 DEF MaxRounds
<1>1. /\ walk \in Walks /\ BreadthFirst(walk) /\ Explored.nodes = walk.nodes
      /\ Explored.edges = walk.edges /\ Explored.truncated = (walk.queue # <<>>)
  BY <1>0, StaysBreadthFirst DEF Explored, BreadthFirst
<1> HIDE DEF walk
<1>2. walk.nodes \in Seq(Entries) /\ walk.edges \subseteq Records \X Records
  BY <1>1 DEF Walks
<1>3. Ids(walk.nodes) = {v.id : v \in ToSet(walk.nodes)}
  BY <1>2 DEF Ids, ToSet
<1> SUFFICES ASSUME NEW e \in walk.edges
             PROVE  /\ e[2] \in References(e[1])
                    /\ {e[1], e[2]} \cap Ids(walk.nodes) # {}
                    /\ walk.queue = <<>> => {e[1], e[2]} \subseteq Ids(walk.nodes)
  BY <1>1 DEF EdgesReported
<1>4. e[1] \in Records /\ e[2] \in Records /\ e[2] \in References(e[1])
  BY <1>1, <1>2 DEF BreadthFirst, EdgesFound
<1>5. PICK v \in ToSet(walk.nodes) : v.depth < Depth /\ v.id \in {e[1], e[2]}
  BY <1>1 DEF BreadthFirst, EdgesFound
<1>6. v.id \in Ids(walk.nodes)
  BY <1>3
<1>7. walk.queue = <<>> => {e[1], e[2]} \subseteq Ids(walk.nodes)
  <2> SUFFICES ASSUME walk.queue = <<>>, NEW x \in {e[1], e[2]}, x # v.id
               PROVE  x \in Ids(walk.nodes)
    BY <1>6
  <2>1. x \in Nearby(v.id)
    <3>1. CASE v.id = e[1] /\ x = e[2]
      BY <1>4, <3>1 DEF Nearby
    <3>2. CASE v.id = e[2] /\ x = e[1]
      <4>1. v.id \in References(x) /\ x \in Records
        BY <1>4, <3>2
      <4>2. row[x] # Absent
        BY <4>1 DEF References, Absent
      <4> QED BY <4>1, <4>2 DEF Nearby, Referrers, Active
    <3> QED BY <1>5, <3>1, <3>2
  <2>2. ToSet(walk.queue) = {} /\ Known(walk) = ToSet(walk.nodes)
    BY DEF ToSet, Known
  <2>3. PICK f \in Known(walk) : f.id = x
    BY <1>1, <1>5, <2>1 DEF BreadthFirst, NeighboursKnown, Reached
  <2> QED BY <1>3, <2>2, <2>3
<1> QED BY <1>4, <1>5, <1>6, <1>7

\* The request, the table and the graph decide whether the graph is faithful.
LEMMA GraphSame ==
  ASSUME UNCHANGED <<request, row>>
  PROVE  \A graph : (NearestFirst(graph) /\ EdgesReported(graph))' = (NearestFirst(graph) /\ EdgesReported(graph))
<1>1. Within' = Within
  BY DEF Within, Active, References
<1> QED BY <1>1 DEF NearestFirst, EdgesReported, Distance, NodeLimit, Limit, References, Ids

-----------------------------------------------------------------------------
(* The theorems *)

\* Every step keeps the invariant.
LEMMA NextKeeps == ASSUME IInv, [Next]_vars PROVE IInv'
<1>1. CASE UNCHANGED vars
  BY <1>1 DEF IInv, vars, store, TypeOK, FoundOnce, AllSeen, Pairs, Active, NothingYet, MatchesFound,
     Room, Pair, SourcesInHand, Results, HitsWereThere, MatchesReturned, SourcesNamed, Returned
<1>2. CASE Next
  BY <1>2, SearchSqliteKeeps, SearchIndexKeeps, FetchHitKeeps, ExpandHitKeeps, SelectHitsKeeps,
     ProvenanceKeeps, BeginCompactionKeeps, FetchSourceKeeps, StoreCompactionKeeps,
     InterruptedKeeps, PutKeeps, DeleteKeeps DEF Next
<1> QED BY <1>1, <1>2

\* What a request has read is once and from its own time, through every write between its
\* reads.
THEOREM GraphInvariant == Spec => []IInv
BY InitHolds, NextKeeps, PTL DEF Spec

\* Every variable of a request and of the table keeps its type; the two orders of the
\* table hold the same ids, each once.
THEOREM TypeCorrect == Spec => []TypeOK
<1>1. IInv => TypeOK
  BY DEF IInv
<1> QED BY <1>1, GraphInvariant, PTL

\* StorageCoordinator.search: whatever the index answers and whoever writes meanwhile, the
\* results are records that were there while it ran, each once and in one version.
THEOREM SearchReturnsRecords == Spec => []HitsWereThere
<1>1. IInv => HitsWereThere
  BY DEF IInv, Results
<1> QED BY <1>1, GraphInvariant, PTL

\* And with room for all records it misses none that matches and is left alone, for any
\* scores, likenesses, neighbourhoods and answers of the index.
THEOREM SearchMissesNothing == Spec => []MatchesReturned
<1>1. IInv => MatchesReturned
  BY DEF IInv, Results
<1> QED BY <1>1, GraphInvariant, PTL

\* Whatever a request does, it writes no record but its own.
Untouched == OthersKept /\ \A p \in seen : p.id \in Records

\* A write of another request, or of the new record, leaves the rest as it was.
LEMMA WriteLeavesOthers ==
  ASSUME TypeOK, Untouched, NEW r \in Records, NEW c, Write(r, c),
         touched \subseteq touched', r \in touched' \cup {Fresh}
  PROVE  Untouched'
<1>1. row' = [row EXCEPT ![r] = c] /\ seen' = seen \cup {[id |-> r, content |-> c]}
  BY DEF Write
<1>2. \A x \in Records : x # r => row'[x] = row[x]
  BY <1>1 DEF TypeOK
<1>3. \A p \in seen' : p \in seen \/ p.id = r
  BY <1>1
<1>4. \A p \in seen' : p.id \in Records
  BY <1>3 DEF Untouched
<1>5. ASSUME NEW p \in seen', p.id \notin touched' \cup {Fresh} PROVE row'[p.id] = p.content
  <2>1. p \in seen /\ p.id # r /\ p.id \in Records /\ p.id \notin touched \cup {Fresh}
    BY <1>3, <1>4, <1>5
  <2> QED BY <1>2, <2>1 DEF Untouched, OthersKept
<1> QED BY <1>4, <1>5 DEF Untouched, OthersKept

\* Nor does any other step.
LEMMA StaysUntouched == ASSUME IInv, Untouched, [Next]_vars PROVE Untouched'
<1>1. TypeOK /\ Fresh \in Records
  BY MemoryGraphAssumption DEF IInv
<1>2. CASE UNCHANGED <<row, seen, touched>>
  BY <1>2 DEF Untouched, OthersKept
<1>3. ASSUME NEW r \in Records, Put(r) PROVE Untouched'
  <2>1. PICK c \in Contents : Write(r, c)
    BY <1>3 DEF Put
  <2>2. touched' = touched \cup {r}
    BY <1>3 DEF Put, Meanwhile
  <2> QED BY <1>1, <2>1, <2>2, WriteLeavesOthers
<1>4. ASSUME NEW r \in Records, Delete(r) PROVE Untouched'
  <2>1. row' = [row EXCEPT ![r] = Absent] /\ seen' = seen /\ touched' = touched \cup {r}
    BY <1>4 DEF Delete, Meanwhile
  <2>2. \A x \in Records : x # r => row'[x] = row[x]
    BY <1>1, <2>1 DEF TypeOK
  <2> QED BY <2>1, <2>2 DEF Untouched, OthersKept
<1>5. CASE StoreCompaction
  <2>1. touched' = touched
    BY <1>5 DEF StoreCompaction, Goes
  <2>2. CASE Len(found) \notin 1..MaxSources
    <3>1. UNCHANGED <<row, seen>>
      BY <1>5, <2>2 DEF StoreCompaction, store
    <3> QED BY <1>2, <2>1, <3>1
  <2>3. CASE Len(found) \in 1..MaxSources
    <3>1. Write(Fresh, [name |-> "compaction", matched |-> 0, refs |-> Ids(found)])
      BY <1>5, <2>3 DEF StoreCompaction
    <3> QED BY <1>1, <2>1, <3>1, WriteLeavesOthers
  <2> QED BY <2>2, <2>3
<1>6. ASSUME \/ SearchSqlite \/ SearchIndex \/ FetchHit \/ ExpandHit \/ SelectHits \/ Provenance
             \/ BeginCompaction \/ FetchSource \/ Interrupted \/ UNCHANGED vars
      PROVE  UNCHANGED <<row, seen, touched>>
  BY <1>6 DEF SearchSqlite, SearchIndex, FetchHit, ExpandHit, SelectHits, Provenance,
     BeginCompaction, FetchSource, Interrupted, Goes, store, vars
<1> QED BY <1>2, <1>3, <1>4, <1>5, <1>6 DEF Next

\* create_compaction_record: the sources it names are those it was asked for, once, in that
\* order and as they were while it ran; and at no moment has it changed or deleted a record
\* that was there, whoever else writes meanwhile.
THEOREM CompactionNamesSources == Spec => []CompactionFaithful
<1>1. Init => Untouched
  <2> SUFFICES ASSUME Init PROVE Untouched
    OBVIOUS
  <2>1. seen = Pairs(row)
    BY DEF Init
  <2> QED BY <2>1 DEF Untouched, OthersKept, Pairs, Active
<1>2. IInv /\ Untouched => CompactionFaithful
  BY DEF IInv, Results, Untouched, CompactionFaithful
<1> QED BY <1>1, <1>2, StaysUntouched, GraphInvariant, PTL DEF Spec

\* A provenance request is one read: nobody writes between it and the answer.
AnswersFaithful ==
  /\ request.kind = "provenance" => step \in {"start", "done", "failed"}
  /\ GraphFaithful

\* And no other step gives one an answer.
LEMMA ProvenanceAnswers == ASSUME IInv, AnswersFaithful, [Next]_vars PROVE AnswersFaithful'
<1>1. UNCHANGED request
  BY DEF Next, vars, SearchSqlite, SearchIndex, FetchHit, ExpandHit, SelectHits, Provenance,
     BeginCompaction, FetchSource, StoreCompaction, Interrupted, Put, Delete, Meanwhile, Goes
<1> SUFFICES ASSUME request.kind = "provenance" PROVE AnswersFaithful'
  BY <1>1 DEF AnswersFaithful, GraphFaithful, Returned
<1>2. TypeOK /\ step \in {"start", "done", "failed"}
  BY DEF IInv, AnswersFaithful
<1>3. CASE Provenance
  <2>1. UNCHANGED <<request, row>> /\ step = "start"
    BY <1>3, <1>1 DEF Provenance, store
  <2>2. CASE row[request.root] = Absent
    <3>1. step' = "failed"
      BY <1>3, <2>2 DEF Provenance, Goes
    <3> QED BY <3>1 DEF AnswersFaithful, GraphFaithful, Returned
  <2>3. CASE row[request.root] # Absent
    <3>1. step' = "done" /\ result' = Explored
      BY <1>3, <2>3 DEF Provenance, Goes
    <3>2. Rooted
      BY <1>2, <2>3 DEF TypeOK, IsRequest, Rooted, Active
    <3>3. NearestFirst(Explored) /\ EdgesReported(Explored)
      BY <3>2, ExploredNearest, ExploredEdges
    <3> DEFINE graph == Explored
    <3> HIDE DEF graph
    <3>4. (NearestFirst(result) /\ EdgesReported(result))'
      BY <2>1, <3>1, <3>3, GraphSame
    <3> QED BY <3>1, <3>4 DEF AnswersFaithful, GraphFaithful
  <2> QED BY <2>2, <2>3
<1>4. CASE Interrupted
  BY <1>4 DEF Interrupted, Goes, AnswersFaithful, GraphFaithful, Returned
<1>5. CASE UNCHANGED vars
  BY <1>5, GraphSame DEF vars, store, AnswersFaithful, GraphFaithful, Returned
<1>6. ASSUME Next PROVE Provenance \/ Interrupted
  BY <1>2, <1>6, Kinds DEF Next, SearchSqlite, SearchIndex, FetchHit, ExpandHit, SelectHits, Searching,
     BeginCompaction, FetchSource, StoreCompaction, Compacting, Put, Delete, Meanwhile
<1> QED BY <1>3, <1>4, <1>5, <1>6

\* provenance_graph: for every graph of references, every limit of depth and of nodes, it
\* reports the nearest records at their distances, each once, stops only at the caller's
\* limit, and its edges are references.
THEOREM GraphsAreFaithful == Spec => []GraphFaithful
<1>1. Init => AnswersFaithful
  BY DEF Init, AnswersFaithful, GraphFaithful, Returned
<1>2. AnswersFaithful => GraphFaithful
  BY DEF AnswersFaithful
<1> QED BY <1>1, <1>2, ProvenanceAnswers, GraphInvariant, PTL DEF Spec
=============================================================================
