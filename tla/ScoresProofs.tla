------------------------------ MODULE ScoresProofs ------------------------------
(***************************************************************************)
(* Lemmas that the proofs about several components need: sets of numbers,  *)
(* the lists of Scores (comprehensions, sorts, slices), iteration, and     *)
(* sums.                                                                   *)
(***************************************************************************)
EXTENDS Scores, FiniteSetTheorems, TLAPS

-----------------------------------------------------------------------------
(* Sets of numbers *)

\* A set of natural numbers has a least one.  (The initial segments 0..m are ordered by
\* inclusion, of which the library knows that it is well-founded.)
LEMMA LeastOfSet ==
  ASSUME NEW S \in SUBSET Nat, S # {}
  PROVE  \E m \in S : \A n \in S : m <= n
<1> DEFINE Segments == {0..m : m \in S}
<1>1. Segments \subseteq FiniteSubsetsOf(Nat) /\ Segments # {}
  <2>1. \A m \in S : IsFiniteSet(0..m) /\ 0..m \subseteq Nat
    BY FS_Interval
  <2> QED BY <2>1 DEF FiniteSubsetsOf
<1>2. PICK s \in Segments : \A t \in Segments : ~ (<<t, s>> \in StrictSubsetOrdering(Nat))
  <2> HIDE DEF Segments
  <2> QED BY <1>1, FS_StrictSubsetOrderingWellFounded, WFMin
<1>3. PICK m \in S : s = 0..m
  BY <1>2
<1>4. ASSUME NEW n \in S, n < m PROVE FALSE
  <2>1. 0..n \in Segments /\ 0..n \subseteq 0..m /\ m \in 0..m /\ m \notin 0..n
    BY <1>4
  <2>2. <<0..n, 0..m>> \in StrictSubsetOrdering(Nat)
    <3>1. 0..n \subseteq Nat /\ 0..m \subseteq Nat /\ 0..n # 0..m
      BY <2>1
    <3> QED BY <2>1, <3>1 DEF StrictSubsetOrdering
  <2> QED BY <1>2, <1>3, <2>1, <2>2
<1> QED BY <1>3, <1>4

\* 1..n has n elements.
LEMMA IntervalSize ==
  ASSUME NEW n \in Nat
  PROVE  IsFiniteSet(1..n) /\ Cardinality(1..n) = n
BY FS_Interval

\* Where all elements of a finite set are ranked by sets of which one of any two holds
\* the other, the sizes of these sets number the elements.
LEMMA RanksNumber ==
  ASSUME NEW S, IsFiniteSet(S), NEW below \in [S -> SUBSET S],
         \A i \in S : i \in below[i],
         \A i, j \in S : i # j =>
           \/ below[i] \subseteq below[j] /\ j \notin below[i]
           \/ below[j] \subseteq below[i] /\ i \notin below[j]
  PROVE  /\ Cardinality(S) \in Nat
         /\ \A i \in S : Cardinality(below[i]) \in 1..Cardinality(S)
         /\ \A i, j \in S : Cardinality(below[i]) = Cardinality(below[j]) => i = j
         /\ \A k \in 1..Cardinality(S) : \E i \in S : Cardinality(below[i]) = k
         /\ \A i, j \in S :
              below[i] \subseteq below[j] /\ j \notin below[i] => Cardinality(below[i]) < Cardinality(below[j])
<1> DEFINE n == Cardinality(S)
           rank == [i \in S |-> Cardinality(below[i])]
<1>1. n \in Nat /\ IsFiniteSet(1..n) /\ Cardinality(1..n) = n
  BY FS_CardinalityType, FS_Interval
<1>2. ASSUME NEW i \in S PROVE IsFiniteSet(below[i]) /\ rank[i] \in 1..n
  <2>1. below[i] \in SUBSET S
    OBVIOUS
  <2>2. IsFiniteSet(below[i]) /\ Cardinality(below[i]) <= n
    BY <2>1, FS_Subset
  <2>3. Cardinality(below[i]) \in Nat /\ Cardinality(below[i]) # 0
    BY <2>2, FS_CardinalityType, FS_EmptySet
  <2> QED BY <2>2, <2>3, <1>1
<1>3. ASSUME NEW i \in S, NEW j \in S, below[i] \subseteq below[j], j \notin below[i]
      PROVE  rank[i] < rank[j]
  <2>1. Cardinality(below[i]) <= Cardinality(below[j])
        /\ (Cardinality(below[j]) = Cardinality(below[i]) => below[j] = below[i])
    BY <1>2, <1>3, FS_Subset
  <2>2. below[j] # below[i]
    BY <1>3
  <2> QED BY <2>1, <2>2, <1>2
<1>4. ASSUME NEW i \in S, NEW j \in S, rank[i] = rank[j] PROVE i = j
  <2> SUFFICES ASSUME i # j PROVE FALSE
    OBVIOUS
  <2>1. rank[i] \in Nat /\ rank[j] \in Nat
    BY <1>2
  <2> QED BY <2>1, <1>3, <1>4
<1>5. rank \in Injection(S, 1..n)
  <2>1. rank \in [S -> 1..n]
    BY <1>2
  <2> HIDE DEF rank, n
  <2> QED BY <2>1, <1>4 DEF Injection, IsInjective
<1>6. rank \in Surjection(S, 1..n)
  <2> HIDE DEF rank, n
  <2> QED BY <1>1, <1>5, FS_Injection DEF n
<1>7. \A k \in 1..n : \E i \in S : Cardinality(below[i]) = k
  BY <1>6 DEF Surjection
<1> QED BY <1>1, <1>2, <1>3, <1>4, <1>7

-----------------------------------------------------------------------------
(* Sequences *)

\* Two lists, one after the other.
LEMMA JoinedProperties ==
  ASSUME NEW T, NEW s \in Seq(T), NEW t \in Seq(T)
  PROVE  /\ s \o t \in Seq(T) /\ DOMAIN (s \o t) = 1..(Len(s) + Len(t))
         /\ \A k \in 1..Len(s) : (s \o t)[k] = s[k]
         /\ \A k \in 1..Len(t) : (s \o t)[Len(s) + k] = t[k]
OBVIOUS

\* One more item.
LEMMA OneMoreItem ==
  ASSUME NEW T, NEW s \in Seq(T), NEW x \in T, IsInjective(s), x \notin ToSet(s)
  PROVE  /\ Append(s, x) \in Seq(T) /\ IsInjective(Append(s, x))
         /\ ToSet(Append(s, x)) = ToSet(s) \cup {x}
<1> DEFINE n == Len(s)
           t == Append(s, x)
<1>1. /\ n \in Nat /\ DOMAIN s = 1..n /\ t \in Seq(T) /\ DOMAIN t = 1..(n + 1)
      /\ t[n + 1] = x /\ \A k \in 1..n : t[k] = s[k]
  OBVIOUS
<1> HIDE DEF n, t
<1>2. \A k \in 1..(n + 1) : k \in 1..n \/ k = n + 1
  BY <1>1
<1>3. n + 1 \in 1..(n + 1) /\ \A k \in 1..n : k \in 1..(n + 1)
  BY <1>1
<1>4. \A k \in 1..n : s[k] # x
  BY <1>1 DEF ToSet
<1>5. ToSet(t) = ToSet(s) \cup {x}
  BY <1>1, <1>2, <1>3 DEF ToSet
<1>6. \A k, l \in 1..(n + 1) : t[k] = t[l] => k = l
  BY <1>1, <1>2, <1>4 DEF IsInjective
<1>7. IsInjective(t)
  BY <1>1, <1>6 DEF IsInjective
<1> QED BY <1>1, <1>5, <1>7 DEF t

\* One item less.
LEMMA TailProperties ==
  ASSUME NEW T, NEW s \in Seq(T), s # <<>>, IsInjective(s)
  PROVE  /\ Tail(s) \in Seq(T) /\ IsInjective(Tail(s)) /\ Head(s) \in T
         /\ ToSet(s) = ToSet(Tail(s)) \cup {Head(s)} /\ Head(s) \notin ToSet(Tail(s))
<1> DEFINE n == Len(s)
           t == Tail(s)
<1>1. /\ n \in Nat \ {0} /\ DOMAIN s = 1..n /\ t \in Seq(T) /\ DOMAIN t = 1..(n - 1)
      /\ Head(s) = s[1] /\ s[1] \in T /\ \A k \in 1..(n - 1) : t[k] = s[k + 1]
  OBVIOUS
<1> HIDE DEF n, t
<1>2. \A k \in 1..n : k = 1 \/ (k - 1 \in 1..(n - 1) /\ k = (k - 1) + 1)
  BY <1>1
<1>3. 1 \in 1..n /\ \A k \in 1..(n - 1) : k + 1 \in 1..n /\ k + 1 # 1
  BY <1>1
<1>4. ToSet(s) = ToSet(t) \cup {s[1]}
  <2>1. ToSet(s) = {s[k] : k \in 1..n} /\ ToSet(t) = {t[k] : k \in 1..(n - 1)}
    BY <1>1 DEF ToSet
  <2>2. \A k \in 1..n : s[k] = s[1] \/ \E l \in 1..(n - 1) : t[l] = s[k]
    BY <1>1, <1>2
  <2>3. \A l \in 1..(n - 1) : \E k \in 1..n : t[l] = s[k]
    BY <1>1, <1>3
  <2>4. \E k \in 1..n : s[1] = s[k]
    BY <1>3
  <2> QED BY <2>1, <2>2, <2>3, <2>4
<1>5. s[1] \notin ToSet(t)
  <2>1. \A k \in 1..(n - 1) : s[k + 1] # s[1]
    BY <1>1, <1>3 DEF IsInjective
  <2> QED BY <1>1, <2>1 DEF ToSet
<1>6. IsInjective(t)
  <2>1. \A k, l \in 1..(n - 1) : s[k + 1] = s[l + 1] => k + 1 = l + 1
    BY <1>1, <1>3 DEF IsInjective
  <2>2. \A k, l \in 1..(n - 1) : t[k] = t[l] => k = l
    BY <1>1, <2>1
  <2> QED BY <1>1, <2>2 DEF IsInjective
<1> QED BY <1>1, <1>4, <1>5, <1>6 DEF t

\* Items are taken from the places in their order: the k-th item from the place that is
\* the k-th of them.
LEMMA ItemsPlaces ==
  ASSUME NEW T, NEW s \in Seq(T), NEW places \in SUBSET DOMAIN s
  PROVE  /\ Cardinality(places) \in Nat /\ IsFiniteSet(places)
         /\ \E g \in [1..Cardinality(places) -> places] :
              /\ Items(s, places) = [k \in 1..Cardinality(places) |-> s[g[k]]]
              /\ \A k, l \in 1..Cardinality(places) : k < l => g[k] < g[l]
              /\ \A i \in places : \E k \in 1..Cardinality(places) : g[k] = i
<1> DEFINE below == [i \in places |-> {j \in places : j <= i}]
           n == Cardinality(places)
           g == [k \in 1..n |-> CHOOSE i \in places : Cardinality({j \in places : j <= i}) = k]
<1>1. IsFiniteSet(places) /\ places \subseteq 1..Len(s) /\ Len(s) \in Nat
  <2>1. DOMAIN s = 1..Len(s) /\ Len(s) \in Nat
    OBVIOUS
  <2>2. IsFiniteSet(1..Len(s))
    BY <2>1, FS_Interval
  <2> QED BY <2>1, <2>2, FS_Subset
<1>2. /\ below \in [places -> SUBSET places]
      /\ \A i \in places : i \in below[i]
      /\ \A i, j \in places : i # j =>
           \/ below[i] \subseteq below[j] /\ j \notin below[i]
           \/ below[j] \subseteq below[i] /\ i \notin below[j]
  BY <1>1
<1>3. \A i, j \in places : i < j => below[i] \subseteq below[j] /\ j \notin below[i]
  BY <1>1
<1>4. /\ n \in Nat
      /\ \A i \in places : Cardinality(below[i]) \in 1..n
      /\ \A i, j \in places : Cardinality(below[i]) = Cardinality(below[j]) => i = j
      /\ \A k \in 1..n : \E i \in places : Cardinality(below[i]) = k
      /\ \A i, j \in places : i < j => Cardinality(below[i]) < Cardinality(below[j])
  <2> HIDE DEF below
  <2> QED BY <1>1, <1>2, <1>3, RanksNumber
<1>5. \A k \in 1..n : g[k] \in places /\ Cardinality(below[g[k]]) = k
  <2>1. \A i \in places : below[i] = {j \in places : j <= i}
    OBVIOUS
  <2> TAKE k \in 1..n
  <2>2. \E i \in places : Cardinality({j \in places : j <= i}) = k
    BY <1>4, <2>1
  <2>3. g[k] \in places /\ Cardinality({j \in places : j <= g[k]}) = k
    BY <2>2
  <2> QED BY <2>3, <2>1
<1>6. g \in [1..n -> places]
  BY <1>5
<1>7. Items(s, places) = [k \in 1..n |-> s[g[k]]]
  BY DEF Items
<1> HIDE DEF g, below, n
<1>8. \A i \in places : \E k \in 1..n : g[k] = i
  BY <1>4, <1>5
<1>9. ASSUME NEW k \in 1..n, NEW l \in 1..n, k < l PROVE g[k] < g[l]
  <2>1. /\ g[k] \in places /\ g[l] \in places /\ g[k] \in Int /\ g[l] \in Int
        /\ Cardinality(below[g[k]]) = k /\ Cardinality(below[g[l]]) = l
    BY <1>1, <1>5
  <2>2. ~(g[l] < g[k]) /\ g[l] # g[k]
    BY <1>4, <1>9, <2>1
  <2> QED BY <2>1, <2>2
<1> QED BY <1>1, <1>4, <1>6, <1>7, <1>8, <1>9 DEF n

\* Items: the items at the given places, no more and no fewer, in their order, and
\* each once if it stands at one of them only.
LEMMA ItemsProperties ==
  ASSUME NEW T, NEW s \in Seq(T), NEW places \in SUBSET DOMAIN s
  PROVE  /\ Items(s, places) \in Seq(T)
         /\ Len(Items(s, places)) = Cardinality(places)
         /\ ToSet(Items(s, places)) = {s[i] : i \in places}
         /\ (\A i, j \in places : s[i] = s[j] => i = j) => IsInjective(Items(s, places))
         /\ \A k, l \in DOMAIN Items(s, places) : k < l =>
              \E i, j \in places : i < j /\ Items(s, places)[k] = s[i] /\ Items(s, places)[l] = s[j]
<1> DEFINE q == Items(s, places)
           n == Cardinality(places)
<1>1. n \in Nat /\ DOMAIN s = 1..Len(s) /\ Len(s) \in Nat /\ \A i \in DOMAIN s : s[i] \in T
  BY ItemsPlaces
<1>2. PICK g \in [1..n -> places] :
        /\ q = [k \in 1..n |-> s[g[k]]]
        /\ \A k, l \in 1..n : k < l => g[k] < g[l]
        /\ \A i \in places : \E k \in 1..n : g[k] = i
  BY ItemsPlaces
<1> HIDE DEF q, n
<1>3. /\ DOMAIN q = 1..n
      /\ \A k \in 1..n : q[k] = s[g[k]] /\ g[k] \in places /\ q[k] \in T
  BY <1>1, <1>2
<1>4. q \in Seq(T) /\ Len(q) = n
  <2>1. q = [k \in 1..n |-> q[k]]
    BY <1>2, <1>3
  <2> QED BY <2>1, <1>1, <1>3
<1>5. ToSet(q) = {s[i] : i \in places}
  BY <1>2, <1>3 DEF ToSet
<1>6. \A k, l \in 1..n : g[k] = g[l] => k = l
  <2>1. \A k \in 1..n : g[k] \in Int
    BY <1>1, <1>3
  <2>2. \A k, l \in 1..n : k = l \/ k < l \/ l < k
    BY <1>1
  <2> QED BY <1>2, <2>1, <2>2
<1>7. (\A i, j \in places : s[i] = s[j] => i = j) => IsInjective(q)
  BY <1>1, <1>6, <1>3 DEF IsInjective
<1>8. \A k, l \in 1..n : k < l => \E i, j \in places : i < j /\ q[k] = s[i] /\ q[l] = s[j]
  BY <1>2, <1>3
<1> QED BY <1>3, <1>4, <1>5, <1>7, <1>8 DEF q, n

\* A comprehension that leaves nothing out is the list itself.
LEMMA AllItems ==
  ASSUME NEW T, NEW s \in Seq(T)
  PROVE  Items(s, DOMAIN s) = s
<1> DEFINE n == Len(s)
<1>1. n \in Nat /\ DOMAIN s = 1..n /\ s = [k \in 1..n |-> s[k]] /\ Cardinality(1..n) = n
  BY IntervalSize
<1> HIDE DEF n
<1>2. ASSUME NEW k \in 1..n PROVE (CHOOSE i \in 1..n : Cardinality({j \in 1..n : j <= i}) = k) = k
  <2>1. \A i \in 1..n : Cardinality({j \in 1..n : j <= i}) = i
    <3> TAKE i \in 1..n
    <3>1. {j \in 1..n : j <= i} = 1..i /\ i \in Nat
      BY <1>1
    <3> QED BY <3>1, IntervalSize
  <2> QED BY <2>1
<1>3. Items(s, 1..n) = [k \in 1..n |-> s[CHOOSE i \in 1..n : Cardinality({j \in 1..n : j <= i}) = k]]
  BY <1>1 DEF Items
<1>4. Items(s, 1..n) = [k \in 1..n |-> s[k]]
  BY <1>2, <1>3
<1> QED BY <1>1, <1>4

\* Once: each item of the list, and each once.
LEMMA OnceProperties ==
  ASSUME NEW T, NEW s \in Seq(T)
  PROVE  Once(s) \in Seq(T) /\ IsInjective(Once(s)) /\ ToSet(Once(s)) = ToSet(s)
<1> DEFINE first == {i \in DOMAIN s : \A j \in 1..(i - 1) : s[j] # s[i]}
           t == Items(s, first)
<1>1. DOMAIN s = 1..Len(s) /\ Len(s) \in Nat
  OBVIOUS
<1>2. ASSUME NEW i \in DOMAIN s PROVE \E k \in first : s[k] = s[i]
  <2>1. {j \in DOMAIN s : s[j] = s[i]} \in SUBSET Nat
    BY <1>1
  <2>2. PICK k \in {j \in DOMAIN s : s[j] = s[i]} : \A j \in {x \in DOMAIN s : s[x] = s[i]} : k <= j
    BY <2>1, LeastOfSet
  <2>3. \A j \in 1..(k - 1) : j \in DOMAIN s /\ j < k
    BY <1>1, <2>2
  <2>4. k \in first
    BY <1>1, <2>2, <2>3
  <2> QED BY <2>2, <2>4
<1>3. \A i, j \in first : s[i] = s[j] => i = j
  <2> TAKE i \in first, j \in first
  <2>1. i \in Nat /\ j \in Nat /\ 1 <= i /\ 1 <= j
    BY <1>1
  <2>2. i < j => i \in 1..(j - 1)
    BY <2>1
  <2>3. j < i => j \in 1..(i - 1)
    BY <2>1
  <2> QED BY <2>1, <2>2, <2>3
<1>4. /\ t \in Seq(T) /\ IsInjective(t)
      /\ ToSet(t) = {s[i] : i \in first}
  <2> HIDE DEF first
  <2> QED BY <1>3, ItemsProperties DEF first
<1>5. {s[i] : i \in first} = ToSet(s)
  BY <1>2 DEF ToSet
<1> QED BY <1>4, <1>5 DEF Once

\* A relation between places, as a set of pairs, that says which of two items comes
\* first and for some says neither.
WeakOrder(first, D) ==
  /\ \A i, j \in D : <<i, j>> \in first => <<j, i>> \notin first
  /\ \A i, j, k \in D : <<i, j>> \notin first /\ <<j, k>> \notin first => <<i, k>> \notin first

\* t is s in the order of first: at the k-th place is the item that k items do not come
\* after, and before[i] are these items.
Arranges(t, s, first, before) ==
  /\ WeakOrder(first, DOMAIN s)
  /\ before \in [DOMAIN s -> SUBSET DOMAIN s]
  /\ \A i, j \in DOMAIN s :
       j \in before[i] <=> <<j, i>> \in first \/ (<<i, j>> \notin first /\ j <= i)
  /\ t = [k \in DOMAIN s |-> t[k]]
  /\ \A k \in DOMAIN s : (\E i \in DOMAIN s : Cardinality(before[i]) = k)
       => \E i \in DOMAIN s : Cardinality(before[i]) = k /\ t[k] = s[i]

\* The items of t are those of s in another order.
Rearranges(t, s) ==
  /\ DOMAIN t = DOMAIN s
  /\ \E g \in [DOMAIN s -> DOMAIN s] :
       /\ \A k \in DOMAIN s : t[k] = s[g[k]]
       /\ \A k, l \in DOMAIN s : g[k] = g[l] => k = l
       /\ \A i \in DOMAIN s : \E k \in DOMAIN s : g[k] = i

\* No item of t comes first of one before it.
InOrder(t, s, first) ==
  \A k, l \in DOMAIN t : k < l =>
    \E i, j \in DOMAIN s : t[k] = s[i] /\ t[l] = s[j] /\ <<j, i>> \notin first

\* A sort only rearranges, and puts in order.
LEMMA ArrangedProperties ==
  ASSUME NEW T, NEW s \in Seq(T), NEW first, NEW before, NEW t, Arranges(t, s, first, before)
  PROVE  t \in Seq(T) /\ Rearranges(t, s) /\ InOrder(t, s, first)
<1> DEFINE S == DOMAIN s
           n == Len(s)
<1>1. /\ S = 1..n /\ n \in Nat /\ \A i \in S : i \in Int
      /\ IsFiniteSet(S) /\ Cardinality(S) = n
  <2>1. S = 1..n /\ n \in Nat /\ \A i \in S : i \in Int
    OBVIOUS
  <2> HIDE DEF S, n
  <2>2. IsFiniteSet(1..n) /\ Cardinality(1..n) = n
    BY <2>1, IntervalSize
  <2> QED BY <2>1, <2>2
<1>2. \A k \in S : s[k] \in T
  BY <1>1
<1>3. /\ WeakOrder(first, S) /\ before \in [S -> SUBSET S]
      /\ \A i, j \in S :
           j \in before[i] <=> <<j, i>> \in first \/ (<<i, j>> \notin first /\ j <= i)
  BY DEF Arranges
<1>4. /\ t = [k \in S |-> t[k]]
      /\ \A k \in S : (\E i \in S : Cardinality(before[i]) = k)
           => \E i \in S : Cardinality(before[i]) = k /\ t[k] = s[i]
  BY DEF Arranges
<1> HIDE DEF S, n
<1>5. /\ \A i \in S : i \in Int /\ <<i, i>> \notin first
      /\ \A i, j \in S : <<i, j>> \in first => <<j, i>> \notin first
      /\ \A i, j, k \in S : <<i, j>> \notin first /\ <<j, k>> \notin first => <<i, k>> \notin first
  BY <1>1, <1>3 DEF WeakOrder
<1>6. ASSUME NEW i \in S, NEW j \in S,
             <<i, j>> \in first \/ (<<j, i>> \notin first /\ i < j)
      PROVE  before[i] \subseteq before[j] /\ j \notin before[i]
  <2>1. j \notin before[i]
    BY <1>5, <1>3, <1>6
  <2>2. ASSUME NEW k \in before[i] PROVE k \in before[j]
    <3>1. k \in S
      BY <1>3
    <3>2. <<k, i>> \in first \/ (<<i, k>> \notin first /\ k <= i)
      BY <1>3, <3>1
    <3>3. <<j, i>> \notin first
      BY <1>5, <1>6
    <3>4. CASE <<k, i>> \in first
      <4>1. <<k, j>> \in first
        BY <1>5, <3>1, <3>3, <3>4
      <4> QED BY <1>3, <3>1, <4>1
    <3>5. CASE <<i, k>> \notin first /\ k <= i
      <4>1. <<j, k>> \notin first
        BY <1>5, <3>1, <3>3, <3>5
      <4>2. CASE <<i, j>> \in first
        <5>1. <<k, j>> \in first
          BY <1>5, <3>1, <3>5, <4>2
        <5> QED BY <1>3, <3>1, <5>1
      <4>3. CASE <<i, j>> \notin first
        <5>0. i < j /\ k <= i /\ i \in Int /\ j \in Int /\ k \in Int
          BY <1>5, <1>6, <3>1, <3>5, <4>3, Zenon
        <5>1. k <= j
          BY <5>0
        <5> QED BY <1>3, <3>1, <4>1, <5>1
      <4> QED BY <4>2, <4>3
    <3> QED BY <3>2, <3>4, <3>5
  <2> QED BY <2>1, <2>2
<1>7. \A i, j \in S : i # j =>
           \/ before[i] \subseteq before[j] /\ j \notin before[i]
           \/ before[j] \subseteq before[i] /\ i \notin before[j]
  <2>1. \A i, j \in S : i # j =>
           \/ <<i, j>> \in first \/ (<<j, i>> \notin first /\ i < j)
           \/ <<j, i>> \in first \/ (<<i, j>> \notin first /\ j < i)
    <3>1. \A i, j \in S : i # j => i < j \/ j < i
      BY <1>1
    <3> QED BY <3>1, Zenon
  <2> QED BY <1>6, <2>1
<1>8. \A i \in S : i \in before[i]
  <2>1. \A i \in S : i <= i
    BY <1>1
  <2> QED BY <1>5, <1>3, <2>1, Zenon
<1>9. /\ \A i \in S : Cardinality(before[i]) \in 1..n
      /\ \A i, j \in S : Cardinality(before[i]) = Cardinality(before[j]) => i = j
      /\ \A k \in 1..n : \E i \in S : Cardinality(before[i]) = k
      /\ \A i, j \in S : before[i] \subseteq before[j] /\ j \notin before[i] =>
           Cardinality(before[i]) < Cardinality(before[j])
  <2>1. before \in [S -> SUBSET S] /\ IsFiniteSet(S)
    BY <1>1, <1>3
  <2>2. /\ \A i \in S : Cardinality(before[i]) \in 1..Cardinality(S)
        /\ \A i, j \in S : Cardinality(before[i]) = Cardinality(before[j]) => i = j
        /\ \A k \in 1..Cardinality(S) : \E i \in S : Cardinality(before[i]) = k
        /\ \A i, j \in S : before[i] \subseteq before[j] /\ j \notin before[i] =>
             Cardinality(before[i]) < Cardinality(before[j])
    BY <1>7, <1>8, <2>1, RanksNumber
  <2> QED BY <1>1, <2>2
<1> DEFINE g == [k \in S |-> CHOOSE i \in S : Cardinality(before[i]) = k /\ t[k] = s[i]]
<1>10. \A k \in S : g[k] \in S /\ Cardinality(before[g[k]]) = k /\ t[k] = s[g[k]]
  <2> TAKE k \in S
  <2>1. \E i \in S : Cardinality(before[i]) = k /\ t[k] = s[i]
    BY <1>1, <1>4, <1>9
  <2> QED BY <2>1
<1>11. g \in [S -> S]
  BY <1>10
<1> HIDE DEF g
<1>12. /\ \A k, l \in S : g[k] = g[l] => k = l
       /\ \A i \in S : \E k \in S : g[k] = i
  <2>1. \A k, l \in S : g[k] = g[l] => k = l
    BY <1>10
  <2>2. \A i \in S : Cardinality(before[i]) \in S /\ g[Cardinality(before[i])] = i
    BY <1>1, <1>9, <1>10
  <2> QED BY <2>1, <2>2
<1>13. t \in Seq(T) /\ Len(t) = n
  <2>1. \A k \in 1..n : t[k] \in T
    BY <1>1, <1>2, <1>4, <1>10
  <2> QED BY <1>1, <1>4, <2>1
<1>14. ASSUME NEW k \in S, NEW l \in S, k < l PROVE <<g[l], g[k]>> \notin first
  <2> SUFFICES ASSUME <<g[l], g[k]>> \in first PROVE FALSE
    OBVIOUS
  <2>1. g[k] \in S /\ g[l] \in S
    BY <1>10
  <2>2. Cardinality(before[g[l]]) < Cardinality(before[g[k]])
    BY <1>6, <1>9, <2>1
  <2> QED BY <1>1, <1>10, <1>14, <2>2
<1>15. DOMAIN t = S
  BY <1>4
<1>16. Rearranges(t, s)
  BY <1>10, <1>11, <1>12, <1>15 DEF Rearranges, S
<1>17. \A k, l \in DOMAIN t : k < l =>
         \E i, j \in S : t[k] = s[i] /\ t[l] = s[j] /\ <<j, i>> \notin first
  BY <1>10, <1>14, <1>15, Zenon
<1>18. InOrder(t, s, first)
  BY <1>17 DEF InOrder, S
<1> QED BY <1>13, <1>16, <1>18

\* A stable sort by descending keys.
Sorts(t, s, key, before) ==
  /\ \A i \in DOMAIN s : key[i] \in Int
  /\ before \in [DOMAIN s -> SUBSET DOMAIN s]
  /\ \A i, j \in DOMAIN s :
       j \in before[i] <=> key[j] > key[i] \/ (~(key[i] > key[j]) /\ j <= i)
  /\ t = [k \in DOMAIN s |-> t[k]]
  /\ \A k \in DOMAIN s : (\E i \in DOMAIN s : Cardinality(before[i]) = k)
       => \E i \in DOMAIN s : Cardinality(before[i]) = k /\ t[k] = s[i]

\* It only rearranges, and no key is less than a later one.
LEMMA SortedProperties ==
  ASSUME NEW T, NEW s \in Seq(T), NEW key, NEW before, NEW t, Sorts(t, s, key, before)
  PROVE  /\ t \in Seq(T) /\ Rearranges(t, s)
         /\ \A k, l \in DOMAIN t : k < l =>
              \E i, j \in DOMAIN s : t[k] = s[i] /\ t[l] = s[j] /\ key[i] >= key[j]
<1> DEFINE S == DOMAIN s
           first == {p \in S \X S : key[p[1]] > key[p[2]]}
<1>1. \A i, j \in S : <<i, j>> \in first <=> key[i] > key[j]
  OBVIOUS
<1>2. \A i \in S : key[i] \in Int
  BY DEF Sorts
<1>3. /\ before \in [S -> SUBSET S]
      /\ \A i, j \in S : j \in before[i] <=> key[j] > key[i] \/ (~(key[i] > key[j]) /\ j <= i)
      /\ t = [k \in S |-> t[k]]
      /\ \A k \in S : (\E i \in S : Cardinality(before[i]) = k)
           => \E i \in S : Cardinality(before[i]) = k /\ t[k] = s[i]
  BY DEF Sorts
<1> HIDE DEF first, S
<1>4. WeakOrder(first, S)
  BY <1>1, <1>2 DEF WeakOrder
<1>5. \A i, j \in S : j \in before[i] <=> <<j, i>> \in first \/ (<<i, j>> \notin first /\ j <= i)
  BY <1>1, <1>3
<1>6. Arranges(t, s, first, before)
  BY <1>3, <1>4, <1>5 DEF Arranges, S
<1>7. t \in Seq(T) /\ Rearranges(t, s) /\ InOrder(t, s, first)
  BY <1>6, ArrangedProperties
<1>8. ASSUME NEW k \in DOMAIN t, NEW l \in DOMAIN t, k < l
      PROVE  \E i, j \in DOMAIN s : t[k] = s[i] /\ t[l] = s[j] /\ key[i] >= key[j]
  <2>1. PICK i \in S, j \in S : t[k] = s[i] /\ t[l] = s[j] /\ <<j, i>> \notin first
    BY <1>7, <1>8 DEF InOrder, S
  <2>2. key[i] >= key[j]
    BY <1>1, <1>2, <2>1
  <2> QED BY <2>1, <2>2 DEF S
<1> QED BY <1>7, <1>8

\* A slice from the beginning has items of the sequence, and all where there is room.
LEMMA UptoProperties ==
  ASSUME NEW T, NEW s \in Seq(T), NEW n \in Nat
  PROVE  /\ Upto(s, n) \in Seq(T)
         /\ Len(Upto(s, n)) <= Len(s) /\ Len(Upto(s, n)) <= n
         /\ \A k \in DOMAIN Upto(s, n) : k \in DOMAIN s /\ Upto(s, n)[k] = s[k]
         /\ Len(s) <= n => Upto(s, n) = s
<1>1. Least(n, Len(s)) \in 0..Len(s) /\ Least(n, Len(s)) <= n
      /\ (Len(s) <= n => Least(n, Len(s)) = Len(s))
  BY DEF Least
<1> QED BY <1>1 DEF Upto

\* A list read from its end has the same items.
LEMMA ReverseProperties ==
  ASSUME NEW T, NEW s \in Seq(T)
  PROVE  /\ Reverse(s) \in Seq(T)
         /\ ToSet(Reverse(s)) = ToSet(s)
         /\ IsInjective(s) => IsInjective(Reverse(s))
<1> DEFINE t == Reverse(s)
           n == Len(s)
<1>1. /\ n \in Nat /\ DOMAIN s = 1..n /\ t \in Seq(T) /\ DOMAIN t = 1..n
      /\ \A k \in 1..n : t[k] = s[(n - k) + 1]
  BY DEF Reverse
<1> HIDE DEF t, n
<1>2. \A k \in 1..n : (n - k) + 1 \in 1..n /\ (n - ((n - k) + 1)) + 1 = k
  BY <1>1
<1>3. ASSUME NEW k \in 1..n PROVE s[k] = t[(n - k) + 1]
  BY <1>1, <1>2
<1>4. ToSet(t) = ToSet(s)
  BY <1>1, <1>2, <1>3 DEF ToSet
<1>5. IsInjective(s) => IsInjective(t)
  <2> SUFFICES ASSUME IsInjective(s), NEW k \in 1..n, NEW l \in 1..n, t[k] = t[l]
               PROVE  k = l
    BY <1>1 DEF IsInjective
  <2>1. (n - k) + 1 = (n - l) + 1
    BY <1>1, <1>2 DEF IsInjective
  <2> QED BY <1>1, <2>1
<1> QED BY <1>1, <1>4, <1>5 DEF t, n

-----------------------------------------------------------------------------
(* The greatest of finitely many, and functions defined along 1..n *)

\* A finite set has an element with the greatest value.
LEMMA GreatestOfSet ==
  ASSUME NEW S, IsFiniteSet(S), S # {}, NEW v, \A i \in S : v[i] \in Int
  PROVE  \E m \in S : \A i \in S : v[i] <= v[m]
<1> DEFINE above == [i \in S |-> {j \in S : v[j] > v[i]}]
           Sizes == {Cardinality(above[i]) : i \in S}
<1>1. \A i \in S : IsFiniteSet(above[i]) /\ Cardinality(above[i]) \in Nat
  <2>1. \A i \in S : above[i] \subseteq S
    OBVIOUS
  <2> HIDE DEF above
  <2> QED BY <2>1, FS_Subset, FS_CardinalityType
<1>2. PICK m \in S : \A i \in S : Cardinality(above[m]) <= Cardinality(above[i])
  <2>1. Sizes \in SUBSET Nat /\ Sizes # {}
    BY <1>1
  <2>2. PICK k \in Sizes : \A l \in Sizes : k <= l
    <3> HIDE DEF Sizes
    <3> QED BY <2>1, LeastOfSet
  <2> QED BY <2>2
<1>3. ASSUME NEW i \in S, v[i] > v[m] PROVE FALSE
  <2>1. above[i] \subseteq above[m] /\ i \in above[m] /\ i \notin above[i]
    BY <1>3
  <2> HIDE DEF above
  <2>2. above[i] \subseteq above[m] /\ above[i] # above[m]
    BY <2>1
  <2>3. Cardinality(above[i]) < Cardinality(above[m])
    <3>1. Cardinality(above[i]) <= Cardinality(above[m])
          /\ (Cardinality(above[m]) = Cardinality(above[i]) => above[i] = above[m])
      BY <1>1, <2>2, FS_Subset
    <3> QED BY <1>1, <2>2, <3>1
  <2> QED BY <1>1, <1>2, <2>3
<1> QED BY <1>3

\* The values of a function on a finite set are finitely many.
LEMMA ImageFinite ==
  ASSUME NEW S, IsFiniteSet(S), NEW f
  PROVE  IsFiniteSet({f[x] : x \in S})
<1> DEFINE T == {f[x] : x \in S}
           g == [x \in S |-> f[x]]
<1>1. g \in Surjection(S, T)
  BY DEF Surjection
<1> QED BY <1>1, FS_Surjection

\* The greatest of a finite set of integers is in it.
LEMMA MaxInSet ==
  ASSUME NEW S, IsFiniteSet(S), S # {}, \A i \in S : i \in Int
  PROVE  Max(S) \in S
<1> DEFINE v == [i \in S |-> i]
<1>1. \E m \in S : \A i \in S : v[i] <= v[m]
  <2>1. \A i \in S : v[i] \in Int
    OBVIOUS
  <2> HIDE DEF v
  <2> QED BY <2>1, GreatestOfSet
<1> QED BY <1>1 DEF Max

\* The least of a set of natural numbers is in it.
LEMMA MinInSet ==
  ASSUME NEW S \in SUBSET Nat, S # {}
  PROVE  Min(S) \in S
BY LeastOfSet DEF Min

\* The items behind the first.
LEMMA TailItems ==
  ASSUME NEW T, NEW s \in Seq(T), s # <<>>
  PROVE  /\ Tail(s) \in Seq(T) /\ Head(s) \in T /\ Head(s) = s[1]
         /\ Len(s) \in Nat \ {0} /\ Len(Tail(s)) = Len(s) - 1
         /\ \A k \in 1..(Len(s) - 1) : Tail(s)[k] = s[k + 1]
         /\ ToSet(s) = ToSet(Tail(s)) \cup {Head(s)}
<1> DEFINE n == Len(s)
           t == Tail(s)
<1>1. /\ n \in Nat \ {0} /\ DOMAIN s = 1..n /\ t \in Seq(T) /\ DOMAIN t = 1..(n - 1)
      /\ Head(s) = s[1] /\ s[1] \in T /\ \A k \in 1..(n - 1) : t[k] = s[k + 1]
      /\ Len(t) = n - 1
  OBVIOUS
<1> HIDE DEF n, t
<1>2. \A k \in 1..n : k = 1 \/ (k - 1 \in 1..(n - 1) /\ k = (k - 1) + 1)
  BY <1>1
<1>3. 1 \in 1..n /\ \A k \in 1..(n - 1) : k + 1 \in 1..n
  BY <1>1
<1>4. ToSet(s) = {s[k] : k \in 1..n} /\ ToSet(t) = {t[k] : k \in 1..(n - 1)}
  BY <1>1 DEF ToSet
<1>5. \A k \in 1..n : s[k] = s[1] \/ \E l \in 1..(n - 1) : t[l] = s[k]
  BY <1>1, <1>2
<1>6. \A l \in 1..(n - 1) : \E k \in 1..n : t[l] = s[k]
  BY <1>1, <1>3
<1>7. \E k \in 1..n : s[1] = s[k]
  BY <1>3
<1>8. ToSet(s) = ToSet(t) \cup {s[1]}
  BY <1>4, <1>5, <1>6, <1>7
<1> QED BY <1>1, <1>8 DEF n, t

\* The items of two lists, one after the other.
LEMMA ConcatItems ==
  ASSUME NEW T, NEW s \in Seq(T), NEW t \in Seq(T)
  PROVE  ToSet(s \o t) = ToSet(s) \cup ToSet(t)
<1> DEFINE m == Len(s)
           n == Len(t)
           u == s \o t
<1>1. /\ m \in Nat /\ n \in Nat /\ DOMAIN s = 1..m /\ DOMAIN t = 1..n
      /\ DOMAIN u = 1..(m + n)
      /\ \A k \in 1..m : u[k] = s[k]
      /\ \A k \in 1..n : u[m + k] = t[k]
  BY JoinedProperties
<1> HIDE DEF m, n, u
<1>2. \A k \in 1..(m + n) : k \in 1..m \/ (k - m \in 1..n /\ k = m + (k - m))
  BY <1>1
<1>3. (\A k \in 1..m : k \in 1..(m + n)) /\ \A k \in 1..n : m + k \in 1..(m + n)
  BY <1>1
<1>4. \A k \in 1..(m + n) : (\E l \in 1..m : u[k] = s[l]) \/ (\E l \in 1..n : u[k] = t[l])
  BY <1>1, <1>2
<1>5. /\ \A l \in 1..m : \E k \in 1..(m + n) : u[k] = s[l]
      /\ \A l \in 1..n : \E k \in 1..(m + n) : u[k] = t[l]
  BY <1>1, <1>3
<1>6. /\ ToSet(s) = {s[k] : k \in 1..m} /\ ToSet(t) = {t[k] : k \in 1..n}
      /\ ToSet(u) = {u[k] : k \in 1..(m + n)}
  BY <1>1 DEF ToSet
<1>7. ToSet(u) = ToSet(s) \cup ToSet(t)
  BY <1>4, <1>5, <1>6
<1> QED BY <1>7 DEF u

-----------------------------------------------------------------------------
(* Iteration *)

\* A set of natural numbers that has 0, and with each number the next, has them all.
LEMMA AllNumbers ==
  ASSUME NEW P \in SUBSET Nat, 0 \in P, \A n \in P : n + 1 \in P
  PROVE  P = Nat
<1> SUFFICES ASSUME Nat \ P # {} PROVE FALSE
  OBVIOUS
<1>1. PICK m \in Nat \ P : \A n \in Nat \ P : m <= n
  BY LeastOfSet
<1>2. m # 0 /\ m - 1 \in Nat /\ m - 1 \notin Nat \ P
  BY <1>1
<1> QED BY <1>1, <1>2

\* f has the first n values of what begins with base and goes on with next.
Begins(f, n, base, next) == f[0] = base /\ \A k \in 0..(n - 1) : f[k + 1] = next[f[k]]

\* A function can be applied again and again.
LEMMA IterationExists ==
  ASSUME NEW S, NEW base \in S, NEW next \in [S -> S]
  PROVE  \E f \in [Nat -> S] : f[0] = base /\ \A n \in Nat : f[n + 1] = next[f[n]]
<1> DEFINE Some == {n \in Nat : \E f \in [0..n -> S] : Begins(f, n, base, next)}
<1>1. Some = Nat
  <2>1. 0 \in Some
    <3> DEFINE f == [k \in 0..0 |-> base]
    <3>1. f \in [0..0 -> S] /\ f[0] = base /\ 0..(0 - 1) = {}
      OBVIOUS
    <3> QED BY <3>1 DEF Begins
  <2>2. ASSUME NEW n \in Some PROVE n + 1 \in Some
    <3>1. n \in Nat /\ 0..n \subseteq 0..(n + 1) /\ 0 \in 0..n /\ n \in 0..n
      OBVIOUS
    <3>2. PICK f \in [0..n -> S] : Begins(f, n, base, next)
      OBVIOUS
    <3> DEFINE g == [k \in 0..(n + 1) |-> IF k \in 0..n THEN f[k] ELSE next[f[n]]]
    <3>3. /\ \A k \in 0..n : g[k] = f[k] /\ g[k] \in S
          /\ g[n + 1] = next[f[n]] /\ g[n + 1] \in S
      <4>1. n + 1 \notin 0..n /\ n + 1 \in 0..(n + 1)
        BY <3>1
      <4>2. f[n] \in S
        BY <3>1
      <4> QED BY <4>1, <4>2, <3>1
    <3>4. g \in [0..(n + 1) -> S]
      <4>1. \A k \in 0..(n + 1) : k \in 0..n \/ k = n + 1
        BY <3>1
      <4>2. \A k \in 0..(n + 1) : g[k] \in S
        <5> HIDE DEF g
        <5> QED BY <3>3, <4>1
      <4>3. g = [k \in 0..(n + 1) |-> g[k]]
        OBVIOUS
      <4> HIDE DEF g
      <4> QED BY <4>2, <4>3
    <3>5. \A k \in 0..((n + 1) - 1) : g[k + 1] = next[g[k]]
      <4> TAKE k \in 0..((n + 1) - 1)
      <4>1. k \in 0..n /\ (k = n \/ (k \in 0..(n - 1) /\ k + 1 \in 0..n))
        BY <3>1
      <4> HIDE DEF g
      <4> QED BY <4>1, <3>2, <3>3 DEF Begins
    <3>6. g[0] = base
      <4> HIDE DEF g
      <4> QED BY <3>1, <3>2, <3>3 DEF Begins
    <3> HIDE DEF g
    <3>7. Begins(g, n + 1, base, next)
      BY <3>5, <3>6 DEF Begins
    <3> QED BY <3>1, <3>4, <3>7
  <2> HIDE DEF Some
  <2>3. Some \in SUBSET Nat
    BY DEF Some
  <2> QED BY <2>1, <2>2, <2>3, AllNumbers
<1>2. ASSUME NEW n \in Nat, NEW f, Begins(f, n, base, next),
             NEW m \in Nat, NEW g, Begins(g, m, base, next), n <= m
      PROVE  f[n] = g[n]
  <2> DEFINE Same == {k \in Nat : k <= n => f[k] = g[k]}
  <2>1. 0 \in Same
    BY <1>2 DEF Begins
  <2>2. ASSUME NEW k \in Same PROVE k + 1 \in Same
    <3>1. k \in Nat /\ (k + 1 <= n => k <= n /\ k \in 0..(n - 1) /\ k \in 0..(m - 1))
      BY <1>2
    <3> QED BY <1>2, <3>1 DEF Begins
  <2>3. Same \in SUBSET Nat
    OBVIOUS
  <2>4. Same = Nat
    <3> HIDE DEF Same
    <3> QED BY <2>1, <2>2, <2>3, AllNumbers
  <2> QED BY <2>4
<1> DEFINE G == [n \in Nat |-> CHOOSE f \in [0..n -> S] : Begins(f, n, base, next)]
           F == [n \in Nat |-> G[n][n]]
<1>3. ASSUME NEW n \in Nat PROVE G[n] \in [0..n -> S] /\ Begins(G[n], n, base, next)
  <2>1. n \in Some
    BY <1>1
  <2>2. \E f \in [0..n -> S] : Begins(f, n, base, next)
    BY <2>1
  <2> QED BY <2>2
<1> HIDE DEF G
<1>4. F \in [Nat -> S]
  <2>1. \A n \in Nat : n \in 0..n
    OBVIOUS
  <2> QED BY <2>1, <1>3
<1>5. F[0] = base
  BY <1>3 DEF Begins
<1>6. ASSUME NEW n \in Nat PROVE F[n + 1] = next[F[n]]
  <2>1. n + 1 \in Nat /\ n <= n + 1 /\ n \in 0..((n + 1) - 1)
    OBVIOUS
  <2>2. G[n][n] = G[n + 1][n]
    BY <1>2, <1>3, <2>1
  <2>3. G[n + 1][n + 1] = next[G[n + 1][n]]
    BY <1>3, <2>1 DEF Begins
  <2> QED BY <2>1, <2>2, <2>3
<1> HIDE DEF F
<1> QED BY <1>4, <1>5, <1>6

-----------------------------------------------------------------------------
(* Sequences of any things, and the greatest and the least of finite sets *)

\* A sequence of any things.
IsSequence(s) == s \in Seq(ToSet(s))

\* A function on an initial segment is a sequence of its values.
LEMMA SegmentIsSequence ==
  ASSUME NEW n \in Nat, NEW s, s = [k \in 1..n |-> s[k]]
  PROVE  IsSequence(s) /\ DOMAIN s = 1..n /\ Len(s) = n
<1>1. \A k \in 1..n : s[k] \in ToSet(s)
  BY DEF ToSet
<1>2. s \in [1..n -> ToSet(s)]
  BY <1>1
<1> QED BY <1>2 DEF IsSequence

\* One more of a sequence of any things.
LEMMA OneMore ==
  ASSUME NEW s, IsSequence(s), NEW x
  PROVE  /\ IsSequence(Append(s, x)) /\ Len(s) \in Nat /\ DOMAIN s = 1..Len(s)
         /\ DOMAIN Append(s, x) = 1..(Len(s) + 1) /\ Append(s, x)[Len(s) + 1] = x
         /\ \A k \in 1..Len(s) : Append(s, x)[k] = s[k]
<1> DEFINE T == ToSet(s) \cup {x}
<1>1. s \in Seq(T) /\ x \in T
  BY DEF IsSequence
<1> HIDE DEF T
<1>2. /\ Append(s, x) \in Seq(T) /\ Len(s) \in Nat /\ DOMAIN s = 1..Len(s)
      /\ DOMAIN Append(s, x) = 1..(Len(s) + 1) /\ Append(s, x)[Len(s) + 1] = x
      /\ \A k \in 1..Len(s) : Append(s, x)[k] = s[k]
  BY <1>1
<1>3. IsSequence(Append(s, x))
  <2> DEFINE t == Append(s, x)
  <2>3. t \in Seq(T)
    BY <1>2
  <2> HIDE DEF t
  <2>1. Len(t) \in Nat /\ t = [k \in 1..Len(t) |-> t[k]]
    BY <2>3
  <2>2. IsSequence(t)
    BY <2>1, SegmentIsSequence
  <2> QED BY <2>2 DEF t
<1> QED BY <1>2, <1>3

\* The greatest and the least of a set of integers, once one has them.
LEMMA MaxIs ==
  ASSUME NEW S, \A i \in S : i \in Int, NEW m \in S, \A i \in S : i <= m
  PROVE  Max(S) = m
<1>1. \A x \in S : (\A y \in S : x >= y) => x = m
  OBVIOUS
<1>2. \A y \in S : m >= y
  OBVIOUS
<1> QED BY <1>1, <1>2 DEF Max

\* The least of them is what none is less than.
LEMMA MinIs ==
  ASSUME NEW S, \A i \in S : i \in Int, NEW m \in S, \A i \in S : m <= i
  PROVE  Min(S) = m
<1>1. \A x \in S : (\A y \in S : x <= y) => x = m
  OBVIOUS
<1> QED BY <1>1 DEF Min

\* A finite set of integers has a greatest element.
LEMMA MaxOfFinite ==
  ASSUME NEW S, IsFiniteSet(S), S # {}, \A i \in S : i \in Int
  PROVE  Max(S) \in S /\ \A i \in S : i <= Max(S)
<1> DEFINE v == [i \in S |-> i]
<1>1. PICK m \in S : \A i \in S : v[i] <= v[m]
  <2>1. \A i \in S : v[i] \in Int
    OBVIOUS
  <2> HIDE DEF v
  <2> QED BY <2>1, GreatestOfSet
<1>2. \A i \in S : i <= m
  BY <1>1
<1>3. Max(S) = m
  BY <1>2, MaxIs
<1> QED BY <1>2, <1>3

\* ... and a least.
LEMMA MinOfFinite ==
  ASSUME NEW S, IsFiniteSet(S), S # {}, \A i \in S : i \in Int
  PROVE  Min(S) \in S /\ \A i \in S : Min(S) <= i
<1> DEFINE v == [i \in S |-> -i]
<1>1. PICK m \in S : \A i \in S : v[i] <= v[m]
  <2>1. \A i \in S : v[i] \in Int
    OBVIOUS
  <2> HIDE DEF v
  <2> QED BY <2>1, GreatestOfSet
<1>2. \A i \in S : m <= i
  BY <1>1
<1>3. Min(S) = m
  BY <1>2, MinIs
<1> QED BY <1>2, <1>3

\* Some of the first numbers are finitely many.
LEMMA SomeOfFirst ==
  ASSUME NEW n \in Nat, NEW S \in SUBSET (1..n)
  PROVE  IsFiniteSet(S) /\ \A i \in S : i \in Int
<1> DEFINE T == 1..n
<1>1. IsFiniteSet(T)
  BY IntervalSize
<1>2. S \subseteq T /\ \A i \in T : i \in Int
  OBVIOUS
<1> HIDE DEF T
<1> QED BY <1>1, <1>2, FS_Subset

\* u is s, and t behind it.
Concatenates(u, s, t) ==
  /\ IsSequence(u)
  /\ Len(s) \in Nat /\ DOMAIN s = 1..Len(s) /\ Len(t) \in Nat /\ DOMAIN t = 1..Len(t)
  /\ DOMAIN u = 1..(Len(s) + Len(t))
  /\ \A k \in 1..Len(s) : u[k] = s[k]
  /\ \A k \in 1..Len(t) : u[Len(s) + k] = t[k]

\* Two sequences of any things.
LEMMA JoinedSequences ==
  ASSUME NEW s, IsSequence(s), NEW t, IsSequence(t)
  PROVE  Concatenates(s \o t, s, t)
<1> DEFINE T == ToSet(s) \cup ToSet(t)
           u == s \o t
<1>1. s \in Seq(T) /\ t \in Seq(T)
  BY DEF IsSequence
<1> HIDE DEF T
<1>2. /\ u \in Seq(T) /\ Len(s) \in Nat /\ DOMAIN s = 1..Len(s) /\ Len(t) \in Nat /\ DOMAIN t = 1..Len(t)
      /\ DOMAIN u = 1..(Len(s) + Len(t))
      /\ \A k \in 1..Len(s) : u[k] = s[k]
      /\ \A k \in 1..Len(t) : u[Len(s) + k] = t[k]
  BY <1>1, JoinedProperties
<1> HIDE DEF u
<1>3. Len(u) \in Nat /\ u = [k \in 1..Len(u) |-> u[k]]
  BY <1>2
<1>4. IsSequence(u)
  BY <1>3, SegmentIsSequence
<1> QED BY <1>2, <1>4 DEF u, Concatenates

\* g are the places of which t has the items of s, in their order.
Picks(g, t, s, places) ==
  LET n == Cardinality(places) IN
  /\ n \in Nat /\ g \in [1..n -> places]
  /\ t = [k \in 1..n |-> s[g[k]]]
  /\ \A k, l \in 1..n : k < l => g[k] < g[l]
  /\ \A i \in places : \E k \in 1..n : g[k] = i

\* The items at some places of a sequence of any things.
LEMMA ItemsPicked ==
  ASSUME NEW s, IsSequence(s), NEW places \in SUBSET DOMAIN s
  PROVE  \E g : Picks(g, Items(s, places), s, places)
<1> DEFINE T == ToSet(s)
<1>1. s \in Seq(T)
  BY DEF IsSequence
<1> HIDE DEF T
<1> QED BY <1>1, ItemsPlaces DEF Picks

-----------------------------------------------------------------------------
(* Recursion and sums *)

\* f is the iteration of next from base.
Iterates(f, S, base, next) ==
  f \in [Nat -> S] /\ f[0] = base /\ \A n \in Nat : f[n + 1] = next[f[n]]

\* The function of IterationExists, as a predicate.
LEMMA IterationIs ==
  ASSUME NEW S, NEW base, base \in S, NEW next, next \in [S -> S]
  PROVE  \E f : Iterates(f, S, base, next)
BY IterationExists DEF Iterates

\* f is defined along the numbers, each value from the one before and its place.
Recurs(f, S, base, next) ==
  f \in [Nat -> S] /\ f[0] = base /\ \A n \in Nat : f[n + 1] = next[<<n, f[n]>>]

\* There is such a function.
LEMMA RecursionIs ==
  ASSUME NEW S, NEW base, base \in S, NEW next, next \in [Nat \X S -> S]
  PROVE  \E f : Recurs(f, S, base, next)
<1> DEFINE T == Nat \X S
           start == <<0, base>>
           step == [t \in T |-> <<t[1] + 1, next[t]>>]
<1>1. start \in T /\ step \in [T -> T]
  <2>1. \A t \in T : t[1] + 1 \in Nat /\ next[t] \in S
    OBVIOUS
  <2> QED BY <2>1
<1>2. \A t \in T : step[t][1] = t[1] + 1 /\ step[t][2] = next[t]
  OBVIOUS
<1>3. PICK g : Iterates(g, T, start, step)
  <2> HIDE DEF T, step, start
  <2> QED BY <1>1, IterationIs, Zenon
<1>4. g \in [Nat -> T] /\ g[0] = start /\ \A n \in Nat : g[n + 1] = step[g[n]]
  <2> HIDE DEF T, step, start
  <2> QED BY <1>3 DEF Iterates
<1>5. \A n \in Nat : g[n] \in T /\ g[n] = <<g[n][1], g[n][2]>> /\ g[n][2] \in S
  <2>1. \A t \in T : t = <<t[1], t[2]>> /\ t[2] \in S
    OBVIOUS
  <2>2. \A n \in Nat : g[n] \in T
    <3> HIDE DEF T
    <3> QED BY <1>4
  <2> HIDE DEF T
  <2> QED BY <2>1, <2>2
<1>6. g[0] = <<0, base>>
  BY <1>4
<1>7. \A n \in Nat : g[n + 1][1] = g[n][1] + 1 /\ g[n + 1][2] = next[g[n]]
  <2> HIDE DEF T, step, start
  <2> QED BY <1>2, <1>4, <1>5
<1> HIDE DEF T, step, start
<1> DEFINE Counted == {n \in Nat : g[n][1] = n}
<1>8. Counted = Nat
  <2>1. 0 \in Counted
    BY <1>6
  <2>2. ASSUME NEW n \in Counted PROVE n + 1 \in Counted
    BY <1>7
  <2>3. Counted \in SUBSET Nat
    OBVIOUS
  <2> HIDE DEF Counted
  <2> QED BY <2>1, <2>2, <2>3, AllNumbers
<1> DEFINE f == [n \in Nat |-> g[n][2]]
<1>9. f \in [Nat -> S] /\ f[0] = base
  BY <1>5, <1>6
<1>10. ASSUME NEW n \in Nat PROVE f[n + 1] = next[<<n, f[n]>>]
  <2>1. n + 1 \in Nat /\ f[n + 1] = g[n + 1][2] /\ f[n] = g[n][2]
    OBVIOUS
  <2>2. g[n] = <<n, f[n]>>
    BY <1>5, <1>8, <2>1
  <2> HIDE DEF f
  <2> QED BY <1>7, <2>1, <2>2
<1> HIDE DEF f
<1> QED BY <1>9, <1>10 DEF Recurs

\* f has the sums of the first items of s.
Sums(f, s) ==
  /\ \A n \in 0..Len(s) : f[n] \in Int
  /\ f[0] = 0
  /\ \A n \in 1..Len(s) : f[n] = f[n - 1] + s[n]
  /\ Total(s) = f[Len(s)]

\* A sequence of numbers has a total.
LEMMA TotalIs ==
  ASSUME NEW s \in Seq(Int)
  PROVE  \E f : Sums(f, s)
<1> DEFINE N == Len(s)
           Equation(f) == f = [n \in 0..N |-> IF n = 0 THEN 0 ELSE f[n - 1] + s[n]]
           next == [t \in Nat \X Int |-> IF t[1] + 1 \in 1..N THEN t[2] + s[t[1] + 1] ELSE t[2]]
<1>1. N \in Nat /\ \A n \in 1..N : s[n] \in Int
  OBVIOUS
<1>2. next \in [Nat \X Int -> Int] /\ 0 \in Int
  <2>1. \A t \in Nat \X Int : t[1] \in Nat /\ t[2] \in Int
    OBVIOUS
  <2>2. \A t \in Nat \X Int : (IF t[1] + 1 \in 1..N THEN t[2] + s[t[1] + 1] ELSE t[2]) \in Int
    <3> HIDE DEF N
    <3> QED BY <1>1, <2>1
  <2> QED BY <2>2
<1>3. PICK g : Recurs(g, Int, 0, next)
  <2> HIDE DEF next
  <2> QED BY <1>2, RecursionIs, Zenon
<1>14. g \in [Nat -> Int] /\ g[0] = 0 /\ \A n \in Nat : g[n + 1] = next[<<n, g[n]>>]
  <2> HIDE DEF next
  <2> QED BY <1>3 DEF Recurs
<1>4. \A n \in 1..N : g[n - 1] \in Int /\ g[n] = g[n - 1] + s[n]
  <2> TAKE n \in 1..N
  <2>1. n - 1 \in Nat /\ (n - 1) + 1 = n
    BY <1>1
  <2>2. <<n - 1, g[n - 1]>> \in Nat \X Int /\ g[n - 1] \in Int
    BY <1>14, <2>1
  <2>3. next[<<n - 1, g[n - 1]>>] = g[n - 1] + s[n]
    <3> HIDE DEF N
    <3> QED BY <2>1, <2>2
  <2> HIDE DEF next, N
  <2> QED BY <1>14, <2>1, <2>2, <2>3
<1> DEFINE f == [n \in 0..N |-> g[n]]
<1>5. Equation(f)
  <2>1. \A n \in 0..N : f[n] = IF n = 0 THEN 0 ELSE f[n - 1] + s[n]
    <3> TAKE n \in 0..N
    <3>1. n = 0 \/ (n \in 1..N /\ n - 1 \in 0..N)
      BY <1>1
    <3>2. f[n] = g[n]
      <4> HIDE DEF N
      <4> QED OBVIOUS
    <3>3. n \in 1..N => f[n - 1] = g[n - 1] /\ n # 0
      BY <1>1
    <3> HIDE DEF f, N
    <3> QED BY <1>14, <1>4, <3>1, <3>2, <3>3
  <2>2. f = [n \in 0..N |-> f[n]]
    OBVIOUS
  <2> HIDE DEF f
  <2> QED BY <2>1, <2>2
<1> HIDE DEF f
<1> DEFINE h == CHOOSE h : Equation(h)
<1>6. Total(s) = h[N]
  BY DEF Total
<1>7. Equation(h)
  <2> HIDE DEF Equation
  <2> QED BY <1>5
<1>8. h = [n \in 0..N |-> IF n = 0 THEN 0 ELSE h[n - 1] + s[n]]
  BY <1>7
<1> HIDE DEF h
<1>9. \A n \in 0..N : h[n] = IF n = 0 THEN 0 ELSE h[n - 1] + s[n]
  <2> HIDE DEF N
  <2> QED BY <1>8
<1>10. h[0] = 0 /\ \A n \in 1..N : h[n] = h[n - 1] + s[n]
  <2>1. 0 \in 0..N /\ \A n \in 1..N : n \in 0..N /\ n # 0
    BY <1>1
  <2> HIDE DEF N
  <2> QED BY <1>9, <2>1
<1> DEFINE Numbers == {n \in Nat : n <= N => h[n] \in Int}
<1>11. Numbers = Nat
  <2>1. 0 \in Numbers
    BY <1>10
  <2>2. ASSUME NEW n \in Numbers PROVE n + 1 \in Numbers
    <3>1. n \in Nat /\ n + 1 \in Nat /\ (n + 1 <= N => n <= N /\ n + 1 \in 1..N /\ (n + 1) - 1 = n)
      BY <1>1
    <3>2. n + 1 <= N => h[n] \in Int /\ h[n + 1] = h[n] + s[n + 1] /\ s[n + 1] \in Int
      <4> HIDE DEF N
      <4> QED BY <1>1, <1>10, <3>1
    <3> HIDE DEF N
    <3> QED BY <3>1, <3>2
  <2>3. Numbers \in SUBSET Nat
    OBVIOUS
  <2> HIDE DEF Numbers
  <2> QED BY <2>1, <2>2, <2>3, AllNumbers
<1>12. \A n \in 0..N : h[n] \in Int
  <2>1. \A n \in 0..N : n \in Nat /\ n <= N
    BY <1>1
  <2> HIDE DEF N
  <2> QED BY <1>11, <2>1
<1>13. Sums(h, s)
  BY <1>6, <1>10, <1>12 DEF Sums
<1> QED BY <1>13

\* Where every item of s is at most that of t, so is the total.
LEMMA TotalGrows ==
  ASSUME NEW s \in Seq(Int), NEW t \in Seq(Int), Len(s) = Len(t),
         \A n \in 1..Len(s) : s[n] <= t[n]
  PROVE  Total(s) \in Int /\ Total(t) \in Int /\ Total(s) <= Total(t)
<1>1. PICK f : Sums(f, s)
  BY TotalIs
<1>2. PICK g : Sums(g, t)
  BY TotalIs
<1> DEFINE N == Len(s)
<1>3. N \in Nat /\ N = Len(t) /\ \A n \in 1..N : s[n] \in Int /\ t[n] \in Int
  OBVIOUS
<1>4. /\ \A n \in 0..N : f[n] \in Int /\ g[n] \in Int
      /\ f[0] = 0 /\ g[0] = 0
      /\ \A n \in 1..N : f[n] = f[n - 1] + s[n] /\ g[n] = g[n - 1] + t[n]
      /\ Total(s) = f[N] /\ Total(t) = g[N]
  BY <1>1, <1>2 DEF Sums
<1>5. \A n \in 1..N : s[n] <= t[n]
  OBVIOUS
<1> HIDE DEF N
<1> DEFINE Less == {n \in Nat : n <= N => f[n] <= g[n]}
<1>6. Less = Nat
  <2>1. 0 \in Less
    BY <1>4
  <2>2. ASSUME NEW n \in Less PROVE n + 1 \in Less
    <3>1. n \in Nat /\ n + 1 \in Nat
      OBVIOUS
    <3>2. n + 1 <= N => /\ n <= N /\ n \in 0..N /\ n + 1 \in 1..N /\ (n + 1) - 1 = n
      BY <1>3, <3>1
    <3>3. n <= N => f[n] <= g[n]
      OBVIOUS
    <3>4. n + 1 <= N => f[n + 1] = f[n] + s[n + 1] /\ g[n + 1] = g[n] + t[n + 1]
      BY <1>4, <3>2, Zenon
    <3>5. n + 1 <= N => /\ f[n] \in Int /\ g[n] \in Int /\ s[n + 1] \in Int /\ t[n + 1] \in Int
                        /\ s[n + 1] <= t[n + 1]
      BY <1>3, <1>4, <1>5, <3>2, Zenon
    <3>6. n + 1 <= N => f[n + 1] <= g[n + 1]
      BY <3>2, <3>3, <3>4, <3>5
    <3> QED BY <3>1, <3>6
  <2>3. Less \in SUBSET Nat
    OBVIOUS
  <2> HIDE DEF Less
  <2> QED BY <2>1, <2>2, <2>3, AllNumbers
<1>7. N \in 0..N /\ N \in Less
  BY <1>3, <1>6
<1> QED BY <1>3, <1>4, <1>7

\* The order of the items does not matter to their total: not that of the reverse.
LEMMA TotalReversed ==
  ASSUME NEW s \in Seq(Int)
  PROVE  Total(Reverse(s)) = Total(s)
<1> DEFINE N == Len(s)
           t == Reverse(s)
<1>1. N \in Nat /\ \A n \in 1..N : s[n] \in Int
  OBVIOUS
<1>2. t \in Seq(Int) /\ Len(t) = N /\ \A n \in 1..N : t[n] = s[(N - n) + 1]
  BY DEF Reverse
<1>3. PICK f : Sums(f, s)
  BY TotalIs
<1>4. PICK g : Sums(g, t)
  <2> HIDE DEF t
  <2> QED BY <1>2, TotalIs
<1>5. /\ \A n \in 0..N : f[n] \in Int /\ g[n] \in Int
      /\ f[0] = 0 /\ g[0] = 0
      /\ \A n \in 1..N : f[n] = f[n - 1] + s[n] /\ g[n] = g[n - 1] + t[n]
      /\ Total(s) = f[N] /\ Total(t) = g[N]
  <2> HIDE DEF t
  <2> QED BY <1>2, <1>3, <1>4 DEF Sums
<1> HIDE DEF N, t
<1> DEFINE Split == {n \in Nat : n <= N => g[n] = f[N] - f[N - n]}
<1>6. Split = Nat
  <2>1. 0 \in Split
    BY <1>1, <1>5
  <2>2. ASSUME NEW n \in Split PROVE n + 1 \in Split
    <3>1. n \in Nat /\ n + 1 \in Nat
      OBVIOUS
    <3>2. n + 1 <= N => /\ n <= N /\ n + 1 \in 1..N /\ (n + 1) - 1 = n
                        /\ N - n \in 1..N /\ (N - n) - 1 = N - (n + 1)
                        /\ N - (n + 1) \in 0..N /\ (N - (n + 1)) + 1 = N - n
      BY <1>1, <3>1
    <3>3. n <= N => g[n] = f[N] - f[N - n]
      OBVIOUS
    <3>4. n + 1 <= N => g[n + 1] = g[n] + s[N - n]
      <4>1. n + 1 <= N => g[n + 1] = g[n] + t[n + 1]
        BY <1>5, <3>2, Zenon
      <4>2. n + 1 <= N => t[n + 1] = s[(N - (n + 1)) + 1]
        BY <1>2, <3>2, Zenon
      <4> QED BY <3>2, <4>1, <4>2, Zenon
    <3>5. n + 1 <= N => f[N - n] = f[N - (n + 1)] + s[N - n]
      BY <1>5, <3>2
    <3>6. n + 1 <= N => /\ f[N] \in Int /\ f[N - (n + 1)] \in Int /\ s[N - n] \in Int
      BY <1>1, <1>5, <3>2
    <3>7. n + 1 <= N => g[n + 1] = f[N] - f[N - (n + 1)]
      BY <3>2, <3>3, <3>4, <3>5, <3>6
    <3> QED BY <3>1, <3>7
  <2>3. Split \in SUBSET Nat
    OBVIOUS
  <2> HIDE DEF Split
  <2> QED BY <2>1, <2>2, <2>3, AllNumbers
<1>7. N \in 0..N /\ N \in Split /\ N - N = 0
  BY <1>1, <1>6
<1> QED BY <1>1, <1>5, <1>7 DEF t

\* The total of the items at some places is that of all, where the others count nothing.
LEMMA TotalOfItems ==
  ASSUME NEW s \in Seq(Int), NEW places \in SUBSET DOMAIN s, NEW t,
         t = [k \in DOMAIN s |-> IF k \in places THEN s[k] ELSE 0]
  PROVE  Items(s, places) \in Seq(Int) /\ t \in Seq(Int) /\ Total(Items(s, places)) = Total(t)
<1> DEFINE N == Len(s)
           C == Cardinality(places)
           u == Items(s, places)
<1>1. N \in Nat /\ DOMAIN s = 1..N /\ \A n \in 1..N : s[n] \in Int
  OBVIOUS
<1>2. t \in Seq(Int) /\ Len(t) = N /\ \A n \in 1..N : t[n] = IF n \in places THEN s[n] ELSE 0
  <2>1. \A n \in 1..N : (IF n \in places THEN s[n] ELSE 0) \in Int
    BY <1>1
  <2> HIDE DEF N
  <2> QED BY <1>1, <2>1
<1>3. u \in Seq(Int) /\ Len(u) = C /\ C \in Nat
  BY ItemsProperties, ItemsPlaces
<1>4. PICK g : Picks(g, u, s, places)
  <2>1. IsSequence(s)
    BY SegmentIsSequence
  <2> QED BY <2>1, ItemsPicked
<1> HIDE DEF u, C
<1>5. /\ \A k \in 1..C : g[k] \in places /\ u[k] = s[g[k]]
      /\ \A k, l \in 1..C : k < l => g[k] < g[l]
      /\ \A i \in places : \E k \in 1..C : g[k] = i
  BY <1>4 DEF Picks, C
<1>6. PICK f : Sums(f, u)
  BY <1>3, TotalIs
<1>7. PICK h : Sums(h, t)
  BY <1>2, TotalIs
<1>8. /\ \A n \in 0..C : f[n] \in Int
      /\ f[0] = 0 /\ Total(u) = f[C]
      /\ \A n \in 1..C : f[n] = f[n - 1] + u[n]
      /\ \A n \in 0..N : h[n] \in Int
      /\ h[0] = 0 /\ Total(t) = h[N]
      /\ \A n \in 1..N : h[n] = h[n - 1] + t[n]
  <2> HIDE DEF N
  <2> QED BY <1>2, <1>3, <1>6, <1>7 DEF Sums
<1>9. \A i \in places : i \in 1..N /\ i \in Int
  BY <1>1
<1> HIDE DEF N
<1> DEFINE SameAt(n, k) == /\ \A l \in 1..C : g[l] <= n <=> l <= k
                         /\ h[n] = f[k]
           Equal == {n \in Nat : n <= N => \E k \in 0..C : SameAt(n, k)}
<1>10. Equal = Nat
  <2>1. 0 \in Equal
    <3>1. \A l \in 1..C : g[l] \in Int /\ g[l] > 0 /\ l > 0 /\ l \in Int
      BY <1>1, <1>3, <1>5, <1>9
    <3>2. SameAt(0, 0)
      BY <1>8, <3>1
    <3>3. 0 \in 0..C
      BY <1>3
    <3> HIDE DEF SameAt
    <3> QED BY <3>2, <3>3
  <2>2. ASSUME NEW n \in Equal PROVE n + 1 \in Equal
    <3>1. n \in Nat /\ n + 1 \in Nat
      OBVIOUS
    <3>2. SUFFICES ASSUME n + 1 <= N PROVE \E k \in 0..C : SameAt(n + 1, k)
      BY <3>1
    <3>3. n <= N /\ n + 1 \in 1..N /\ (n + 1) - 1 = n /\ n \in 0..N
      BY <1>1, <3>1, <3>2
    <3>4. PICK k \in 0..C : SameAt(n, k)
      BY <3>3
    <3>5. \A l \in 1..C : l \in Int /\ g[l] \in Int /\ (g[l] <= n <=> l <= k)
      BY <1>3, <1>5, <1>9, <3>4
    <3>6. k \in Nat /\ h[n] = f[k] /\ f[k] \in Int /\ h[n + 1] = h[n] + t[n + 1]
      <4>1. h[n + 1] = h[n] + t[n + 1]
        BY <1>8, <3>3, Zenon
      <4>2. f[k] \in Int
        BY <1>8
      <4> QED BY <1>3, <3>4, <4>1, <4>2
    <3>7. CASE n + 1 \in places
      <4>1. PICK m \in 1..C : g[m] = n + 1
        BY <1>5, <3>7
      <4>2. m > k
        BY <3>1, <3>5, <3>6, <4>1
      <4>3. k + 1 \in 1..C
        BY <1>3, <3>6, <4>2
      <4>4. m = k + 1
        <5>1. g[k + 1] > n
          BY <3>1, <3>5, <3>6, <4>3
        <5>2. k + 1 < m => g[k + 1] < n + 1
          BY <1>5, <4>1, <4>3
        <5>3. g[k + 1] \in Int /\ m \in Int
          BY <1>3, <3>5, <4>3
        <5> QED BY <3>1, <3>6, <4>2, <5>1, <5>2, <5>3
      <4>5. ASSUME NEW l \in 1..C PROVE g[l] <= n + 1 <=> l <= k + 1
        <5>1. l < m => g[l] < n + 1
          BY <1>5, <4>1
        <5>2. m < l => n + 1 < g[l]
          BY <1>5, <4>1
        <5>3. g[l] \in Int /\ l \in Int /\ m \in Int
          BY <1>3, <3>5
        <5> QED BY <3>1, <3>6, <4>1, <4>4, <5>1, <5>2, <5>3
      <4>6. u[k + 1] = s[n + 1] /\ t[n + 1] = s[n + 1]
        BY <1>2, <1>5, <3>3, <3>7, <4>1, <4>4
      <4>7. f[k + 1] = f[k] + u[k + 1]
        <5>1. f[k + 1] = f[(k + 1) - 1] + u[k + 1]
          BY <1>8, <4>3, Zenon
        <5>2. (k + 1) - 1 = k
          BY <3>6
        <5> QED BY <5>1, <5>2, Zenon
      <4>8. h[n + 1] = f[k + 1]
        BY <3>6, <4>6, <4>7, Zenon
      <4>9. SameAt(n + 1, k + 1)
        BY <4>5, <4>8
      <4>10. k + 1 \in 0..C
        BY <1>3, <4>3
      <4> HIDE DEF SameAt
      <4> QED BY <4>9, <4>10
    <3>8. CASE n + 1 \notin places
      <4>1. \A l \in 1..C : g[l] # n + 1
        BY <1>5, <3>8
      <4>2. \A l \in 1..C : g[l] <= n + 1 <=> l <= k
        BY <3>1, <3>5, <4>1
      <4>3. t[n + 1] = 0
        BY <1>2, <3>3, <3>8
      <4>4. h[n + 1] = f[k]
        BY <3>6, <4>3
      <4>5. SameAt(n + 1, k)
        BY <4>2, <4>4
      <4> HIDE DEF SameAt
      <4> QED BY <4>5
    <3> QED BY <3>7, <3>8
  <2>3. Equal \in SUBSET Nat
    OBVIOUS
  <2> HIDE DEF Equal
  <2> QED BY <2>1, <2>2, <2>3, AllNumbers
<1>11. PICK k \in 0..C : SameAt(N, k)
  BY <1>1, <1>10
<1>12. k = C
  <2>1. C \in 1..C => g[C] \in Int /\ g[C] <= N
    BY <1>1, <1>5, <1>9
  <2>2. C \in 1..C => C <= k
    BY <1>11, <2>1
  <2> QED BY <1>3, <2>2
<1>13. Total(u) = Total(t)
  BY <1>8, <1>11, <1>12
<1> QED BY <1>2, <1>3, <1>13 DEF u

-----------------------------------------------------------------------------
(* Filters by what is found there *)

\* The places of a set of numbers, in their order.
Placed(n, places) == Items([i \in 1..n |-> i], places)

\* Whatever stands at the places, these are where the items are picked.
LEMMA PlacedPicks ==
  ASSUME NEW s, IsSequence(s), NEW places \in SUBSET DOMAIN s
  PROVE  Picks(Placed(Len(s), places), Items(s, places), s, places)
<1> DEFINE n == Len(s)
           id == [i \in 1..n |-> i]
           C == Cardinality(places)
           at == [k \in 1..C |-> CHOOSE i \in places : Cardinality({j \in places : j <= i}) = k]
<1>1. n \in Nat /\ DOMAIN s = 1..n /\ places \in SUBSET (1..n)
  BY DEF IsSequence
<1>2. id \in Seq(Nat) /\ DOMAIN id = 1..n /\ \A i \in 1..n : id[i] = i
  BY <1>1
<1>3. Items(s, places) = [k \in 1..C |-> s[at[k]]] /\ Items(id, places) = [k \in 1..C |-> id[at[k]]]
  BY DEF Items
<1> HIDE DEF id, n
<1>12. PICK g : Picks(g, Items(id, places), id, places)
  <2>1. IsSequence(id)
    <3>1. id = [k \in 1..n |-> id[k]]
      BY <1>2
    <3> QED BY <1>1, <3>1, SegmentIsSequence
  <2>2. places \in SUBSET DOMAIN id
    BY <1>1, <1>2
  <2> QED BY <2>1, <2>2, ItemsPicked
<1>4. /\ g \in [1..C -> places]
      /\ Items(id, places) = [k \in 1..C |-> id[g[k]]]
      /\ \A k, l \in 1..C : k < l => g[k] < g[l]
      /\ \A i \in places : \E k \in 1..C : g[k] = i
  BY <1>12 DEF Picks
<1>5. C \in Nat /\ IsFiniteSet(places)
  BY <1>1, <1>2, ItemsPlaces
<1>6. \A k \in 1..C : at[k] \in places
  <2> TAKE k \in 1..C
  <2>1. \E i \in places : Cardinality({j \in places : j <= i}) = k
    <3> DEFINE below == [i \in places |-> {j \in places : j <= i}]
    <3>1. below \in [places -> SUBSET places] /\ \A i \in places : i \in below[i]
      BY <1>1
    <3>2. \A i, j \in places : i # j =>
           \/ below[i] \subseteq below[j] /\ j \notin below[i]
           \/ below[j] \subseteq below[i] /\ i \notin below[j]
      BY <1>1
    <3>3. \A i \in places : below[i] = {j \in places : j <= i}
      OBVIOUS
    <3> HIDE DEF below, C
    <3>4. \E i \in places : Cardinality(below[i]) = k
      BY <1>5, <3>1, <3>2, RanksNumber DEF C
    <3> QED BY <3>3, <3>4
  <2> QED BY <2>1
<1> HIDE DEF at
<1>7. \A k \in 1..C : g[k] \in 1..n /\ at[k] \in 1..n
  BY <1>1, <1>4, <1>6
<1>8. \A k \in 1..C : id[g[k]] = g[k] /\ id[at[k]] = at[k]
  BY <1>2, <1>7
<1>9. \A k \in 1..C : at[k] = g[k]
  BY <1>3, <1>4, <1>8
<1>10. Items(id, places) = g /\ g = [k \in 1..C |-> g[k]]
  BY <1>4, <1>8
<1>11. Items(s, places) = [k \in 1..C |-> s[g[k]]]
  BY <1>3, <1>9
<1> HIDE DEF C
<1> QED BY <1>4, <1>5, <1>10, <1>11 DEF Picks, Placed, id, n, C

-----------------------------------------------------------------------------
(* Arithmetic *)

\* Division and multiplication keep the order.
LEMMA DivGrows ==
  ASSUME NEW a \in Int, NEW b \in Int, a <= b, NEW d \in Nat \ {0}
  PROVE  a \div d \in Int /\ b \div d \in Int /\ a \div d <= b \div d /\ (0 <= a => 0 <= a \div d)
<1> DEFINE q == a \div d
           r == b \div d
           m == a % d
           k == b % d
<1>1. d \in Int /\ d > 0
  OBVIOUS
<1>2. q \in Int /\ r \in Int /\ m \in Int /\ k \in Int
  BY <1>1
<1>3. a = d * q + m /\ 0 <= m /\ m < d
  BY <1>1
<1>4. b = d * r + k /\ 0 <= k /\ k < d
  BY <1>1
<1> HIDE DEF q, r, m, k
<1>5. q <= r
  <2>1. SUFFICES ASSUME r + 1 <= q PROVE FALSE
    BY <1>2
  <2>2. d * (r + 1) <= d * q
    BY <1>1, <1>2, <2>1
  <2>3. d * (r + 1) = d * r + d /\ d * r \in Int /\ d * q \in Int
    BY <1>1, <1>2
  <2> QED BY <1>1, <1>2, <1>3, <1>4, <2>2, <2>3
<1>6. 0 <= a => 0 <= q
  <2>1. SUFFICES ASSUME 0 <= a, q + 1 <= 0 PROVE FALSE
    BY <1>2
  <2>2. d * (q + 1) <= 0 /\ d * (q + 1) = d * q + d /\ d * q \in Int
    BY <1>1, <1>2, <2>1
  <2> QED BY <1>1, <1>2, <1>3, <2>1, <2>2
<1> QED BY <1>2, <1>5, <1>6 DEF q, r

\* A product grows with a factor when the other is a natural number.
LEMMA TimesGrows ==
  ASSUME NEW a \in Int, NEW b \in Int, a <= b, NEW c \in Nat
  PROVE  a * c \in Int /\ b * c \in Int /\ a * c <= b * c /\ (0 <= a => 0 <= a * c)
OBVIOUS

\* A part of a whole, in thousandths.
LEMMA PartIs ==
  ASSUME NEW i \in Nat, NEW u \in Nat, i <= u, u # 0
  PROVE  (One * i) \div u \in 0..One
<1> DEFINE p == One * i
           w == One * u
           q == w \div u
<1>1. p \in Int /\ w \in Int /\ p <= w /\ 0 <= p /\ u \in Nat \ {0}
  BY DEF One
<1>2. q = One
  <2>1. q \in Int /\ w = u * q + (w % u) /\ 0 <= w % u /\ w % u < u /\ u * One = w
    BY <1>1 DEF One
  <2> DEFINE r == w % u
  <2>2. r \in Int
    BY <1>1
  <2> HIDE DEF q, w, r
  <2>3. ASSUME q + 1 <= One PROVE FALSE
    <3>1. u * (q + 1) <= u * One /\ u * (q + 1) = u * q + u /\ u * q \in Int
      BY <2>1, <2>3 DEF One
    <3> QED BY <2>1, <2>2, <3>1 DEF r
  <2>4. ASSUME One + 1 <= q PROVE FALSE
    <3>1. u * (One + 1) <= u * q /\ u * (One + 1) = u * One + u /\ u * q \in Int
      BY <2>1, <2>4 DEF One
    <3> QED BY <1>1, <2>1, <2>2, <3>1 DEF r
  <2> QED BY <2>1, <2>3, <2>4 DEF One
<1> HIDE DEF p, w
<1>3. p \div u \in Int /\ p \div u <= q /\ 0 <= p \div u
  BY <1>1, DivGrows
<1> QED BY <1>2, <1>3 DEF p, One

\* What division is.
LEMMA DivisionIs ==
  ASSUME NEW w \in Int, NEW d \in Nat \ {0}
  PROVE  w \div d \in Int /\ w % d \in 0..(d - 1) /\ w = d * (w \div d) + (w % d)
OBVIOUS

\* A mean is no less than what none of its items is less than.
LEMMA MeanAtLeast ==
  ASSUME NEW s \in Seq(Int), s # <<>>, NEW q \in Int, \A n \in 1..Len(s) : q <= s[n]
  PROVE  Total(s) \div Len(s) \in Int /\ q <= Total(s) \div Len(s)
<1> DEFINE N == Len(s)
<1>1. PICK f : Sums(f, s)
  BY TotalIs
<1>2. N \in Nat \ {0} /\ \A n \in 1..N : s[n] \in Int /\ q <= s[n]
  OBVIOUS
<1>3. /\ \A n \in 0..N : f[n] \in Int
      /\ f[0] = 0
      /\ \A n \in 1..N : f[n] = f[n - 1] + s[n]
      /\ Total(s) = f[N]
  BY <1>1 DEF Sums
<1> HIDE DEF N
<1> DEFINE P == {n \in Nat : n <= N => n * q <= f[n]}
<1>4. P = Nat
  <2>1. 0 \in P
    <3>1. 0 * q = 0
      OBVIOUS
    <3> QED BY <1>3, <3>1
  <2>2. ASSUME NEW n \in P PROVE n + 1 \in P
    <3>1. n \in Nat /\ n + 1 \in Nat
      OBVIOUS
    <3>2. n + 1 <= N => n <= N /\ n \in 0..N /\ n + 1 \in 1..N /\ (n + 1) - 1 = n
      BY <1>2, <3>1
    <3>3. n <= N => n * q <= f[n]
      OBVIOUS
    <3>4. n + 1 <= N => /\ f[n + 1] = f[n] + s[n + 1] /\ f[n] \in Int
                        /\ s[n + 1] \in Int /\ q <= s[n + 1]
      BY <1>2, <1>3, <3>2, Zenon
    <3>5. (n + 1) * q = n * q + q /\ n * q \in Int
      BY <3>1
    <3>6. n + 1 <= N => (n + 1) * q <= f[n + 1]
      BY <3>2, <3>3, <3>4, <3>5
    <3> QED BY <3>1, <3>6
  <2>3. P \in SUBSET Nat
    OBVIOUS
  <2> HIDE DEF P
  <2> QED BY <2>1, <2>2, <2>3, AllNumbers
<1>5. N * q <= f[N] /\ f[N] \in Int /\ N * q \in Int
  <2>1. N \in P /\ N \in 0..N
    BY <1>2, <1>4
  <2> QED BY <1>2, <1>3, <2>1
<1> DEFINE w == N * q
           r == w \div N
           t == f[N]
<1>6. r \in Int /\ t \div N \in Int /\ r <= t \div N
  <2> HIDE DEF w, t
  <2> QED BY <1>2, <1>5, DivGrows DEF w, t
<1>8. w \in Int /\ w = N * q
  BY <1>5
<1>7. q <= r
  <2> DEFINE m == w % N
  <2> HIDE DEF w
  <2>3. w \div N \in Int /\ w % N \in 0..(N - 1) /\ w = N * (w \div N) + (w % N)
    BY <1>2, <1>8, DivisionIs, Zenon
  <2>4. r \in Int /\ m \in 0..(N - 1) /\ w = N * r + m
    BY <2>3
  <2> HIDE DEF r, m
  <2>1. w = N * r + m /\ 0 <= m /\ m < N /\ m \in Int
    BY <1>2, <2>4
  <2>2. ASSUME r + 1 <= q PROVE FALSE
    <3>1. N * (r + 1) <= N * q /\ N * (r + 1) = N * r + N /\ N * r \in Int
      BY <1>2, <1>6, <2>2
    <3> QED BY <1>2, <1>8, <2>1, <3>1
  <2> QED BY <1>6, <2>2
<1> QED BY <1>3, <1>6, <1>7 DEF N

-----------------------------------------------------------------------------
(* The k-th greatest *)

\* The k-th item of t is that of s at g[k].
Permutes(g, t, s, n) ==
  /\ g \in [1..n -> 1..n]
  /\ \A k \in 1..n : t[k] = s[g[k]]
  /\ \A k, l \in 1..n : g[k] = g[l] => k = l
  /\ \A i \in 1..n : \E k \in 1..n : g[k] = i

\* Of a rearrangement there is a permutation.
LEMMA RearrangedIs ==
  ASSUME NEW t, NEW s, Rearranges(t, s), NEW n, DOMAIN s = 1..n
  PROVE  DOMAIN t = 1..n /\ \E g : Permutes(g, t, s, n)
<1>1. PICK g \in [DOMAIN s -> DOMAIN s] :
        /\ \A k \in DOMAIN s : t[k] = s[g[k]]
        /\ \A k, l \in DOMAIN s : g[k] = g[l] => k = l
        /\ \A i \in DOMAIN s : \E k \in DOMAIN s : g[k] = i
  BY DEF Rearranges
<1>2. Permutes(g, t, s, n)
  BY <1>1 DEF Permutes
<1> QED BY <1>2 DEF Rearranges

Descending(t, s) ==
  /\ Rearranges(t, s)
  /\ \A k, l \in DOMAIN t : k < l => t[k] >= t[l]

\* Where every number is at most its counterpart, the k-th greatest is at most the k-th
\* greatest.
LEMMA RanksGrow ==
  ASSUME NEW n \in Nat, NEW s, NEW r, NEW t, NEW u,
         DOMAIN s = 1..n, DOMAIN r = 1..n,
         \A i \in 1..n : s[i] \in Int /\ r[i] \in Int /\ s[i] <= r[i],
         Descending(t, s), Descending(u, r)
  PROVE  \A k \in 1..n : t[k] \in Int /\ u[k] \in Int /\ t[k] <= u[k]
<1>7. PICK g : Permutes(g, t, s, n)
  BY RearrangedIs DEF Descending
<1>8. PICK h : Permutes(h, u, r, n)
  BY RearrangedIs DEF Descending
<1>1. /\ \A k \in 1..n : t[k] = s[g[k]]
      /\ \A k, l \in 1..n : g[k] = g[l] => k = l
  BY <1>7 DEF Permutes
<1>2. /\ \A k \in 1..n : u[k] = r[h[k]]
      /\ \A i \in 1..n : \E k \in 1..n : h[k] = i
  BY <1>8 DEF Permutes
<1>9. DOMAIN t = 1..n /\ DOMAIN u = 1..n
  BY RearrangedIs DEF Descending
<1>3. /\ \A k, l \in 1..n : k < l => t[k] >= t[l]
      /\ \A k, l \in 1..n : k < l => u[k] >= u[l]
  BY <1>9 DEF Descending
<1>4. \A k \in 1..n : g[k] \in 1..n /\ h[k] \in 1..n
  BY <1>7, <1>8 DEF Permutes
<1>5. \A k \in 1..n : t[k] \in Int /\ u[k] \in Int
  BY <1>1, <1>2, <1>4
<1>6. ASSUME NEW k \in 1..n, u[k] < t[k] PROVE FALSE
  <2> DEFINE at == [l \in 1..k |-> CHOOSE m \in 1..n : h[m] = g[l]]
  <2>1. \A l \in 1..k : l \in 1..n /\ k \in Nat /\ k - 1 \in Nat /\ l <= k /\ l \in Int
    OBVIOUS
  <2>2. \A l \in 1..k : at[l] \in 1..n /\ h[at[l]] = g[l]
    BY <1>2, <1>4, <2>1
  <2>9. at = [l \in 1..k |-> at[l]]
    OBVIOUS
  <2> HIDE DEF at
  <2>3. ASSUME NEW l \in 1..k PROVE at[l] \in 1..(k - 1)
    <3>1. t[l] >= t[k]
      BY <1>3, <1>5, <2>1
    <3>2. u[at[l]] = r[g[l]] /\ t[l] = s[g[l]] /\ s[g[l]] <= r[g[l]]
      BY <1>1, <1>2, <1>4, <2>1, <2>2
    <3>3. s[g[l]] \in Int /\ r[g[l]] \in Int /\ u[k] \in Int /\ t[k] \in Int
      BY <1>4, <1>5, <2>1
    <3>4. u[at[l]] > u[k]
      BY <1>6, <3>1, <3>2, <3>3
    <3>5. ~(k < at[l]) /\ at[l] # k
      BY <1>3, <1>5, <2>2, <3>4
    <3> QED BY <2>1, <2>2, <3>5
  <2>4. k \in 1..k /\ k \in Nat /\ k - 1 \in Nat
    OBVIOUS
  <2>5. IsFiniteSet(1..k) /\ IsFiniteSet(1..(k - 1)) /\ Cardinality(1..(k - 1)) < Cardinality(1..k)
    <3>1. Cardinality(1..k) = k /\ Cardinality(1..(k - 1)) = k - 1 /\ IsFiniteSet(1..k) /\ IsFiniteSet(1..(k - 1))
      BY <2>4, IntervalSize
    <3> QED BY <2>4, <3>1
  <2>6. at \in [1..k -> 1..(k - 1)]
    BY <2>3, <2>9
  <2>7. PICK l, m \in 1..k : l # m /\ at[l] = at[m]
    BY <2>5, <2>6, FS_PigeonHole
  <2>8. g[l] = g[m]
    BY <2>2, <2>7
  <2> QED BY <1>1, <2>1, <2>7, <2>8
<1> QED BY <1>5, <1>6

\* The items up to n are those of the sequence at the same places.
LEMMA UptoLength ==
  ASSUME NEW s, IsSequence(s), NEW n \in Nat
  PROVE  /\ Len(Upto(s, n)) = Least(n, Len(s)) /\ Least(n, Len(s)) \in Nat
         /\ Least(n, Len(s)) <= Len(s) /\ DOMAIN Upto(s, n) = 1..Least(n, Len(s))
         /\ \A k \in 1..Least(n, Len(s)) : k \in 1..Len(s) /\ Upto(s, n)[k] = s[k]
<1> DEFINE T == ToSet(s)
           m == Least(n, Len(s))
<1>1. s \in Seq(T) /\ Len(s) \in Nat
  BY DEF IsSequence
<1>2. m \in Nat /\ m <= Len(s)
  BY <1>1 DEF Least
<1> HIDE DEF T, m
<1>3. Upto(s, n) = SubSeq(s, 1, m)
  BY DEF Upto, m
<1>4. /\ Len(SubSeq(s, 1, m)) = m /\ DOMAIN SubSeq(s, 1, m) = 1..m
      /\ \A k \in 1..m : k \in 1..Len(s) /\ SubSeq(s, 1, m)[k] = s[k]
  BY <1>1, <1>2
<1> QED BY <1>2, <1>3, <1>4 DEF m

\* What a permutation gives is a rearrangement.
LEMMA PermutedIs ==
  ASSUME NEW t, NEW s, NEW n, NEW g, Permutes(g, t, s, n), DOMAIN t = 1..n, DOMAIN s = 1..n
  PROVE  Rearranges(t, s)
<1>1. /\ g \in [1..n -> 1..n]
      /\ \A k \in 1..n : t[k] = s[g[k]]
      /\ \A k, l \in 1..n : g[k] = g[l] => k = l
      /\ \A i \in 1..n : \E k \in 1..n : g[k] = i
  BY DEF Permutes
<1>2. /\ g \in [DOMAIN s -> DOMAIN s]
      /\ \A k \in DOMAIN s : t[k] = s[g[k]]
      /\ \A k, l \in DOMAIN s : g[k] = g[l] => k = l
      /\ \A i \in DOMAIN s : \E k \in DOMAIN s : g[k] = i
  BY <1>1
<1> QED BY <1>2, Zenon DEF Rearranges

\* What is rearranged has the same items.
LEMMA RearrangedItems ==
  ASSUME NEW t, NEW s, Rearranges(t, s)
  PROVE  /\ DOMAIN t = DOMAIN s
         /\ \A k \in DOMAIN t : \E i \in DOMAIN s : t[k] = s[i]
         /\ \A i \in DOMAIN s : \E k \in DOMAIN t : t[k] = s[i]
<1>1. PICK g \in [DOMAIN s -> DOMAIN s] :
         /\ \A k \in DOMAIN s : t[k] = s[g[k]]
         /\ \A i \in DOMAIN s : \E k \in DOMAIN s : g[k] = i
  BY DEF Rearranges
<1>2. DOMAIN t = DOMAIN s
  BY DEF Rearranges
<1>3. \A k \in DOMAIN s : g[k] \in DOMAIN s /\ t[k] = s[g[k]]
  BY <1>1
<1>4. \A k \in DOMAIN t : \E i \in DOMAIN s : t[k] = s[i]
  BY <1>2, <1>3
<1>5. \A i \in DOMAIN s : \E k \in DOMAIN t : t[k] = s[i]
  BY <1>1, <1>2, <1>3
<1> QED BY <1>2, <1>4, <1>5
=============================================================================
