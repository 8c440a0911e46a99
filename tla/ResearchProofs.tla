---------------------------- MODULE ResearchProofs ----------------------------
(***************************************************************************)
(* Proofs about Research, for every packet and every map: that a run is    *)
(* stored with its answer, and what the twin computes.  The lemmas follow  *)
(* the computation: validation and rows, what a surface contributes, the   *)
(* rounds along the links, findings, the overall risk, then what is made   *)
(* of simulations (sensitivities, candidates, the frontier) and of maps.   *)
(***************************************************************************)
EXTENDS Research, ScoresProofs


-----------------------------------------------------------------------------
(* Packets *)

\* A packet as the scanner takes it.
IsScenario(p) ==
  /\ "surfaces" \in DOMAIN p /\ "links" \in DOMAIN p
  /\ p.surfaces \in Seq(Surfaces) /\ p.links \in Seq(Links)

\* What validate makes of a surface and of a link.
NormalSurface(s) ==
  /\ s \in Surfaces
  /\ s.criticality \in 0..100 /\ s.exposure \in 0..100 /\ s.controlStrength \in 0..100
  /\ s.humanPressure \in 0..100 /\ s.telemetryConfidence \in 0..100

NormalLink(l, surfaces) ==
  l \in Links /\ Joins(l, surfaces) /\ l.trust \in 0..100 /\ l.controlStrength \in 0..100

AllNormal(surfaces, links) ==
  /\ surfaces \in Seq(Surfaces) /\ links \in Seq(Links)
  /\ \A i \in DOMAIN surfaces : NormalSurface(surfaces[i])
  /\ \A k \in DOMAIN links : NormalLink(links[k], surfaces)

Normal(p) == IsScenario(p) /\ AllNormal(p.surfaces, p.links)

\* Clamping bounds, and leaves alone what is within its bounds.
LEMMA ClampIs ==
  ASSUME NEW x \in Int, NEW top \in Nat
  PROVE  Clamp(x, top) \in 0..top /\ (x \in 0..top => Clamp(x, top) = x)
BY DEF Clamp, Least

\* A greater number is not clamped to a lesser.
LEMMA ClampGrows ==
  ASSUME NEW x \in Int, NEW y \in Int, x <= y, NEW top \in Nat
  PROVE  Clamp(x, top) <= Clamp(y, top)
BY DEF Clamp, Least

\* Validation leaves a normal surface as it is.
LEMMA NormalizedIs ==
  ASSUME NEW s \in Surfaces
  PROVE  /\ NormalSurface(Normalized(s)) /\ Normalized(s).id = s.id
         /\ NormalSurface(s) => Normalized(s) = s
<1>1. /\ s.id \in STRING /\ s.criticality \in Int /\ s.exposure \in Int /\ s.controlStrength \in Int
      /\ s.humanPressure \in Int /\ s.telemetryConfidence \in Int /\ s.signals \in Nat
      /\ s.localMicro \in -50..50
      /\ s = [id |-> s.id, criticality |-> s.criticality, exposure |-> s.exposure,
              controlStrength |-> s.controlStrength, humanPressure |-> s.humanPressure,
              telemetryConfidence |-> s.telemetryConfidence, signals |-> s.signals,
              localMicro |-> s.localMicro]
  BY DEF Surfaces
<1> DEFINE a == Clamp(s.criticality, 100)
           b == Clamp(s.exposure, 100)
           c == Clamp(s.controlStrength, 100)
           d == Clamp(s.humanPressure, 100)
           e == Clamp(s.telemetryConfidence, 100)
<1>2. Normalized(s) = [id |-> s.id, criticality |-> a, exposure |-> b, controlStrength |-> c,
                       humanPressure |-> d, telemetryConfidence |-> e, signals |-> s.signals,
                       localMicro |-> s.localMicro]
  <2>1. Normalized(s) = [s EXCEPT !.criticality = a, !.exposure = b, !.controlStrength = c,
                                  !.humanPressure = d, !.telemetryConfidence = e]
    BY DEF Normalized
  <2> HIDE DEF a, b, c, d, e
  <2> QED BY <1>1, <2>1
<1>3. a \in 0..100 /\ b \in 0..100 /\ c \in 0..100 /\ d \in 0..100 /\ e \in 0..100
  BY <1>1, ClampIs
<1>4. NormalSurface(s) => a = s.criticality /\ b = s.exposure /\ c = s.controlStrength
                          /\ d = s.humanPressure /\ e = s.telemetryConfidence
  BY <1>1, ClampIs DEF NormalSurface
<1> HIDE DEF a, b, c, d, e
<1>5. NormalSurface(Normalized(s))
  BY <1>1, <1>2, <1>3 DEF NormalSurface, Surfaces
<1> QED BY <1>1, <1>2, <1>4, <1>5

\* And a normal link.
LEMMA NormalizedLinkIs ==
  ASSUME NEW l \in Links
  PROVE  /\ NormalizedLink(l) \in Links
         /\ NormalizedLink(l).source = l.source /\ NormalizedLink(l).target = l.target
         /\ NormalizedLink(l).trust \in 0..100 /\ NormalizedLink(l).controlStrength \in 0..100
         /\ l.trust \in 0..100 /\ l.controlStrength \in 0..100 => NormalizedLink(l) = l
<1>1. /\ l.source \in STRING /\ l.target \in STRING /\ l.trust \in Int /\ l.controlStrength \in Int
      /\ l = [source |-> l.source, target |-> l.target, trust |-> l.trust,
              controlStrength |-> l.controlStrength]
  BY DEF Links
<1> DEFINE a == Clamp(l.trust, 100)
           b == Clamp(l.controlStrength, 100)
<1>2. NormalizedLink(l) = [source |-> l.source, target |-> l.target, trust |-> a, controlStrength |-> b]
  <2>1. NormalizedLink(l) = [l EXCEPT !.trust = a, !.controlStrength = b]
    BY DEF NormalizedLink
  <2> HIDE DEF a, b
  <2> QED BY <1>1, <2>1
<1>3. a \in 0..100 /\ b \in 0..100
  BY <1>1, ClampIs
<1>4. l.trust \in 0..100 /\ l.controlStrength \in 0..100 => a = l.trust /\ b = l.controlStrength
  BY <1>1, ClampIs
<1> HIDE DEF a, b
<1> QED BY <1>1, <1>2, <1>3, <1>4 DEF Links

-----------------------------------------------------------------------------
(* Rows *)

\* The same surfaces, as far as their ids go.
Alike(S, T) == Len(S) = Len(T) /\ \A i \in 1..Len(S) : S[i].id = T[i].id

\* rows are the surfaces at the n places of g.
Placing(rows, S, n, g) ==
  /\ n \in Nat /\ rows = [k \in 1..n |-> S[g[k]]]
  /\ \A k \in 1..n : g[k] \in 1..Len(S)

\* Every id has one row.
OneEach(rows, S, n) ==
  /\ \A k, l \in 1..n : rows[k].id = rows[l].id => k = l
  /\ \A i \in 1..Len(S) : \E k \in 1..n : rows[k].id = S[i].id

\* The last of the surfaces with the id of the i-th.
LastLike(S) == [i \in DOMAIN S |-> Max({j \in DOMAIN S : S[j].id = S[i].id})]

\* The last surface with the id of surface i has that id.
LEMMA LastLikeIs ==
  ASSUME NEW S \in Seq(Surfaces), NEW i \in 1..Len(S)
  PROVE  LastLike(S)[i] \in 1..Len(S) /\ S[LastLike(S)[i]].id = S[i].id
<1> DEFINE like == {j \in 1..Len(S) : S[j].id = S[i].id}
<1>1. Len(S) \in Nat /\ DOMAIN S = 1..Len(S)
  OBVIOUS
<1>2. IsFiniteSet(like) /\ \A j \in like : j \in Int
  BY <1>1, SomeOfFirst
<1>3. like # {}
  OBVIOUS
<1>4. LastLike(S)[i] = Max(like)
  BY <1>1 DEF LastLike
<1>5. Max(like) \in like
  <2> HIDE DEF like
  <2> QED BY <1>2, <1>3, MaxOfFinite
<1> QED BY <1>4, <1>5

\* The first places of the ids.
FirstOf(S) == {i \in DOMAIN S : \A j \in 1..(i - 1) : S[j].id # S[i].id}

\* Which surfaces have the same id depends on the ids alone.
LEMMA AlikeSame ==
  ASSUME NEW S \in Seq(Surfaces), NEW T \in Seq(Surfaces), Alike(S, T)
  PROVE  LastLike(S) = LastLike(T) /\ FirstOf(S) = FirstOf(T)
<1> DEFINE n == Len(S)
<1>1. n \in Nat /\ DOMAIN S = 1..n /\ DOMAIN T = 1..n /\ \A i \in 1..n : S[i].id = T[i].id
  BY DEF Alike
<1>2. \A i \in 1..n : \A j \in 1..(i - 1) : j \in 1..n
  BY <1>1
<1> HIDE DEF n
<1>3. LastLike(S) = LastLike(T)
  <2>1. \A i \in 1..n : {j \in 1..n : S[j].id = S[i].id} = {j \in 1..n : T[j].id = T[i].id}
    BY <1>1
  <2> QED BY <1>1, <2>1, Zenon DEF LastLike
<1>4. FirstOf(S) = FirstOf(T)
  <2>1. \A i \in 1..n : (\A j \in 1..(i - 1) : S[j].id # S[i].id) <=> (\A j \in 1..(i - 1) : T[j].id # T[i].id)
    BY <1>1, <1>2, Zenon
  <2> QED BY <1>1, <2>1, Zenon DEF FirstOf
<1> QED BY <1>3, <1>4

\* The places of the rows.
RowPlaces(S, L) ==
  IF L = <<>> THEN [i \in 1..Len(S) |-> i]
  ELSE [k \in 1..Cardinality(FirstOf(S)) |-> LastLike(S)[Placed(Len(S), FirstOf(S))[k]]]

RowCount(S, L) == IF L = <<>> THEN Len(S) ELSE Cardinality(FirstOf(S))

\* Rows are the surfaces at these places, which depend on the ids alone; with links, each
\* id has one.
LEMMA RowsAre ==
  ASSUME NEW S \in Seq(Surfaces), NEW L
  PROVE  /\ Placing(Rows(S, L), S, RowCount(S, L), RowPlaces(S, L))
         /\ L # <<>> => OneEach(Rows(S, L), S, RowCount(S, L))
<1> DEFINE n == Len(S)
           C == Cardinality(FirstOf(S))
           last == [i \in DOMAIN S |-> S[LastLike(S)[i]]]
           g == Placed(n, FirstOf(S))
<1>1. n \in Nat /\ DOMAIN S = 1..n
  OBVIOUS
<1>2. CASE L = <<>>
  <2>1. Rows(S, L) = S /\ S = [k \in 1..n |-> S[k]]
    BY <1>1, <1>2 DEF Rows
  <2>2. RowCount(S, L) = n /\ RowPlaces(S, L) = [i \in 1..n |-> i]
    BY <1>2 DEF RowCount, RowPlaces
  <2> QED BY <1>1, <1>2, <2>1, <2>2 DEF Placing
<1>3. CASE L # <<>>
  <2>1. Rows(S, L) = Items(last, FirstOf(S))
    BY <1>1, <1>3 DEF Rows, LastLike, FirstOf
  <2>2. IsSequence(last) /\ DOMAIN last = 1..n /\ Len(last) = n
    <3>1. last = [i \in 1..n |-> last[i]]
      BY <1>1
    <3> HIDE DEF last, n
    <3> QED BY <1>1, <3>1, SegmentIsSequence
  <2>3. FirstOf(S) \in SUBSET DOMAIN last
    BY <1>1, <2>2 DEF FirstOf
  <2>4. Picks(g, Rows(S, L), last, FirstOf(S))
    <3> HIDE DEF last
    <3> QED BY <2>1, <2>2, <2>3, PlacedPicks
  <2>5. /\ C \in Nat /\ Rows(S, L) = [k \in 1..C |-> last[g[k]]]
        /\ \A k \in 1..C : g[k] \in FirstOf(S)
        /\ \A k, l \in 1..C : k < l => g[k] < g[l]
        /\ \A i \in FirstOf(S) : \E k \in 1..C : g[k] = i
    <3> HIDE DEF g, last, C
    <3> QED BY <2>4 DEF Picks, C
  <2>6. \A k \in 1..C : g[k] \in 1..n
    BY <2>2, <2>3, <2>5
  <2>7. RowCount(S, L) = C /\ RowPlaces(S, L) = [k \in 1..C |-> LastLike(S)[g[k]]]
    BY <1>3 DEF RowCount, RowPlaces
  <2> HIDE DEF g
  <2>8. \A k \in 1..C : last[g[k]] = S[RowPlaces(S, L)[k]] /\ RowPlaces(S, L)[k] \in 1..n
    BY <1>1, <2>6, <2>7, LastLikeIs
  <2>9. Placing(Rows(S, L), S, C, RowPlaces(S, L))
    <3>1. Rows(S, L) = [k \in 1..C |-> S[RowPlaces(S, L)[k]]]
      BY <2>5, <2>8
    <3> QED BY <2>5, <2>8, <3>1 DEF Placing
  <2>10. \A k \in 1..C : Rows(S, L)[k].id = S[g[k]].id
    <3> TAKE k \in 1..C
    <3>1. g[k] \in 1..n /\ Rows(S, L)[k] = last[g[k]]
      BY <2>5, <2>6
    <3>2. last[g[k]] = S[LastLike(S)[g[k]]]
      BY <1>1, <3>1
    <3>3. S[LastLike(S)[g[k]]].id = S[g[k]].id
      BY <3>1, LastLikeIs
    <3> QED BY <3>1, <3>2, <3>3, Zenon
  <2>11. ASSUME NEW k \in 1..C, NEW l \in 1..C, Rows(S, L)[k].id = Rows(S, L)[l].id PROVE k = l
    <3>1. S[g[k]].id = S[g[l]].id
      BY <2>10, <2>11
    <3>2. g[k] \in Int /\ g[l] \in Int /\ g[k] \in FirstOf(S) /\ g[l] \in FirstOf(S) /\ g[k] \in 1..n /\ g[l] \in 1..n
      BY <1>1, <2>5, <2>6
    <3>3. ~(g[k] < g[l]) /\ ~(g[l] < g[k])
      BY <1>1, <3>1, <3>2 DEF FirstOf
    <3>4. ~(k < l) /\ ~(l < k)
      BY <2>5, <3>3
    <3> QED BY <2>5, <3>4
  <2>12. ASSUME NEW i \in 1..n PROVE \E k \in 1..C : Rows(S, L)[k].id = S[i].id
    <3> DEFINE like == {j \in 1..n : S[j].id = S[i].id}
    <3>1. like \in SUBSET Nat /\ like # {}
      BY <1>1
    <3>2. PICK m \in like : \A j \in like : m <= j
      <4> HIDE DEF like
      <4> QED BY <3>1, LeastOfSet
    <3>3. m \in FirstOf(S)
      <4>1. \A j \in 1..(m - 1) : j \in 1..n /\ ~(m <= j)
        BY <1>1
      <4>2. \A j \in 1..(m - 1) : S[j].id # S[m].id
        BY <3>2, <4>1
      <4> QED BY <1>1, <4>2 DEF FirstOf
    <3> QED BY <2>5, <2>10, <3>3
  <2>13. OneEach(Rows(S, L), S, C)
    BY <2>11, <2>12 DEF OneEach
  <2> QED BY <2>7, <2>9, <2>13
<1> QED BY <1>2, <1>3

\* Surfaces with the same ids have their rows at the same places.
LEMMA RowsAlike ==
  ASSUME NEW S \in Seq(Surfaces), NEW T \in Seq(Surfaces), Alike(S, T),
         NEW L, NEW M, L = <<>> <=> M = <<>>
  PROVE  RowCount(S, L) = RowCount(T, M) /\ RowPlaces(S, L) = RowPlaces(T, M)
<1>1. LastLike(S) = LastLike(T) /\ FirstOf(S) = FirstOf(T)
  BY AlikeSame
<1>2. Len(S) = Len(T)
  BY DEF Alike
<1> QED BY <1>1, <1>2, Zenon DEF RowCount, RowPlaces

-----------------------------------------------------------------------------
(* Validation *)

\* What validate gives.
Ready(p) == Normal(p) /\ Len(p.links) <= MaxLinks

\* The places of links that join surfaces depend on the ids alone.
LEMMA JoinsById ==
  ASSUME NEW S, NEW T, DOMAIN S = DOMAIN T, \A i \in DOMAIN S : S[i].id = T[i].id
  PROVE  Ids(S) = Ids(T) /\ \A l : Joins(l, S) <=> Joins(l, T)
<1>1. Ids(S) = Ids(T)
  BY DEF Ids
<1> QED BY <1>1 DEF Joins

\* So they are of surfaces that have the same ids at the same places.
LEMMA JoinsAlike ==
  ASSUME NEW S \in Seq(Surfaces), NEW T \in Seq(Surfaces), Alike(S, T)
  PROVE  Ids(S) = Ids(T) /\ \A l : Joins(l, S) <=> Joins(l, T)
<1>1. DOMAIN S = DOMAIN T /\ \A i \in DOMAIN S : S[i].id = T[i].id
  BY DEF Alike
<1> QED BY <1>1, JoinsById

\* The links that are kept are normal, and what is normal is kept.
LEMMA ValidLinksAre ==
  ASSUME NEW S, NEW L \in Seq(Links)
  PROVE  /\ ValidLinks(L, S) \in Seq(Links) /\ Len(ValidLinks(L, S)) <= Len(L)
         /\ \A k \in DOMAIN ValidLinks(L, S) : NormalLink(ValidLinks(L, S)[k], S)
         /\ (\A k \in DOMAIN L : NormalLink(L[k], S)) => ValidLinks(L, S) = L
<1> DEFINE n == Len(L)
           N == [k \in DOMAIN L |-> NormalizedLink(L[k])]
           P == {k \in DOMAIN L : Joins(L[k], S)}
           V == Items(N, P)
<1>1. n \in Nat /\ DOMAIN L = 1..n /\ \A k \in 1..n : L[k] \in Links
  OBVIOUS
<1>2. \A k \in 1..n : /\ N[k] = NormalizedLink(L[k]) /\ N[k] \in Links
                      /\ N[k].source = L[k].source /\ N[k].target = L[k].target
                      /\ N[k].trust \in 0..100 /\ N[k].controlStrength \in 0..100
  BY <1>1, NormalizedLinkIs
<1>3. N \in Seq(Links) /\ DOMAIN N = 1..n /\ Len(N) = n
  <2>1. N = [k \in 1..n |-> N[k]]
    BY <1>1
  <2> HIDE DEF N
  <2> QED BY <1>1, <1>2, <2>1
<1>4. P \in SUBSET DOMAIN N /\ P \in SUBSET (1..n)
  BY <1>1, <1>3
<1>5. ValidLinks(L, S) = V
  BY DEF ValidLinks
<1>6. V \in Seq(Links) /\ Len(V) = Cardinality(P) /\ ToSet(V) = {N[i] : i \in P}
  <2> HIDE DEF N, P
  <2> QED BY <1>3, <1>4, ItemsProperties
<1>7. Len(V) <= n
  <2> HIDE DEF P, V
  <2> QED BY <1>1, <1>4, <1>6, IntervalSize, FS_Subset
<1>8. ASSUME NEW k \in DOMAIN V PROVE NormalLink(V[k], S)
  <2>1. V[k] \in ToSet(V)
    <3> HIDE DEF V
    <3> QED BY <1>6 DEF ToSet
  <2>2. PICK i \in P : V[k] = N[i]
    <3> HIDE DEF V, P, N
    <3> QED BY <1>6, <2>1
  <2>3. i \in 1..n /\ Joins(L[i], S)
    BY <1>1
  <2> HIDE DEF V, N, P
  <2>4. Joins(N[i], S)
    BY <1>2, <2>3 DEF Joins
  <2> QED BY <1>2, <2>2, <2>3, <2>4 DEF NormalLink
<1>9. ASSUME \A k \in DOMAIN L : NormalLink(L[k], S) PROVE V = L
  <2>1. P = DOMAIN L
    BY <1>1, <1>9 DEF NormalLink
  <2>2. \A k \in 1..n : NormalizedLink(L[k]) = L[k]
    BY <1>1, <1>9, NormalizedLinkIs DEF NormalLink
  <2>3. N = L
    BY <1>1, <2>2
  <2> HIDE DEF N, P
  <2> QED BY <1>3, <2>1, <2>3, AllItems
<1> HIDE DEF V
<1> QED BY <1>5, <1>6, <1>7, <1>8, <1>9

\* Validation of a packet.
LEMMA ValidateIs ==
  ASSUME NEW p, IsScenario(p)
  PROVE  /\ Ready(Validate(p)) /\ DOMAIN Validate(p) = DOMAIN p
         /\ Validate(p).surfaces = [i \in DOMAIN p.surfaces |-> Normalized(p.surfaces[i])]
         /\ Validate(p).links = ValidLinks(Upto(p.links, MaxLinks), p.surfaces)
         /\ Alike(Validate(p).surfaces, p.surfaces)
<1> DEFINE S == [i \in DOMAIN p.surfaces |-> Normalized(p.surfaces[i])]
           L == ValidLinks(Upto(p.links, MaxLinks), p.surfaces)
<1>1. p.surfaces \in Seq(Surfaces) /\ p.links \in Seq(Links) /\ MaxLinks \in Nat
  BY TwinGraphAssumption DEF IsScenario
<1>2. Validate(p) = [p EXCEPT !.surfaces = S, !.links = L]
  BY DEF Validate
<1>3. S \in Seq(Surfaces) /\ Len(S) = Len(p.surfaces) /\ DOMAIN S = 1..Len(p.surfaces)
      /\ \A i \in 1..Len(S) : NormalSurface(S[i]) /\ S[i].id = p.surfaces[i].id
  <2>1. \A i \in 1..Len(p.surfaces) : p.surfaces[i] \in Surfaces
    BY <1>1
  <2>2. \A i \in 1..Len(p.surfaces) : NormalSurface(S[i]) /\ S[i].id = p.surfaces[i].id
    BY <1>1, <2>1, NormalizedIs
  <2>3. \A i \in 1..Len(p.surfaces) : S[i] \in Surfaces
    BY <2>2 DEF NormalSurface
  <2>4. Len(p.surfaces) \in Nat /\ S = [i \in 1..Len(p.surfaces) |-> S[i]]
    BY <1>1
  <2> HIDE DEF S
  <2> QED BY <2>2, <2>3, <2>4
<1>4. Upto(p.links, MaxLinks) \in Seq(Links) /\ Len(Upto(p.links, MaxLinks)) <= MaxLinks
  BY <1>1, UptoProperties
<1>5. L \in Seq(Links) /\ Len(L) <= Len(Upto(p.links, MaxLinks))
      /\ \A k \in DOMAIN L : NormalLink(L[k], p.surfaces)
  <2> DEFINE U == Upto(p.links, MaxLinks)
  <2> HIDE DEF U
  <2> QED BY <1>1, <1>4, ValidLinksAre DEF U
<1>6. "surfaces" \in DOMAIN p /\ "links" \in DOMAIN p
  BY DEF IsScenario
<1> HIDE DEF S, L
<1>7. Validate(p).surfaces = S /\ Validate(p).links = L /\ DOMAIN Validate(p) = DOMAIN p
  BY <1>2, <1>6
<1>8. Alike(S, p.surfaces)
  BY <1>3 DEF Alike
<1>9. \A k \in DOMAIN L : NormalLink(L[k], S)
  <2>1. \A l : Joins(l, S) <=> Joins(l, p.surfaces)
    BY <1>1, <1>3, <1>8, JoinsAlike
  <2> QED BY <1>5, <2>1 DEF NormalLink
<1>10. Len(L) <= MaxLinks
  <2>1. Len(L) \in Nat /\ Len(Upto(p.links, MaxLinks)) \in Nat
    BY <1>4, <1>5
  <2> QED BY <1>1, <1>4, <1>5, <2>1
<1>11. AllNormal(S, L)
  BY <1>3, <1>5, <1>9 DEF AllNormal
<1>12. Ready(Validate(p))
  BY <1>3, <1>5, <1>6, <1>7, <1>10, <1>11 DEF Ready, Normal, IsScenario
<1> QED BY <1>7, <1>8, <1>12 DEF S, L

\* Validating again changes nothing.
LEMMA ReadyStays ==
  ASSUME NEW p, Ready(p)
  PROVE  Validate(p).surfaces = p.surfaces /\ Validate(p).links = p.links
<1>1. IsScenario(p) /\ AllNormal(p.surfaces, p.links) /\ Len(p.links) <= MaxLinks
  BY DEF Ready, Normal
<1>2. p.surfaces \in Seq(Surfaces) /\ p.links \in Seq(Links) /\ MaxLinks \in Nat
      /\ (\A i \in DOMAIN p.surfaces : NormalSurface(p.surfaces[i]))
      /\ (\A k \in DOMAIN p.links : NormalLink(p.links[k], p.surfaces))
  BY <1>1, TwinGraphAssumption DEF IsScenario, AllNormal
<1>3. Validate(p).surfaces = [i \in DOMAIN p.surfaces |-> Normalized(p.surfaces[i])]
      /\ Validate(p).links = ValidLinks(Upto(p.links, MaxLinks), p.surfaces)
  BY <1>1, ValidateIs
<1>4. \A i \in DOMAIN p.surfaces : Normalized(p.surfaces[i]) = p.surfaces[i]
  BY <1>2, NormalizedIs DEF NormalSurface
<1>5. [i \in DOMAIN p.surfaces |-> Normalized(p.surfaces[i])] = p.surfaces
  BY <1>2, <1>4
<1>6. Upto(p.links, MaxLinks) = p.links
  BY <1>1, <1>2, UptoProperties
<1>7. ValidLinks(p.links, p.surfaces) = p.links
  BY <1>2, ValidLinksAre
<1> QED BY <1>3, <1>5, <1>6, <1>7

-----------------------------------------------------------------------------
(* What a surface contributes *)

\* t is no less at risk than s in any respect.
Milder(s, t) ==
  /\ s.id = t.id /\ s.signals = t.signals /\ s.localMicro = t.localMicro
  /\ s.criticality <= t.criticality /\ s.exposure <= t.exposure
  /\ s.humanPressure <= t.humanPressure
  /\ t.controlStrength <= s.controlStrength /\ t.telemetryConfidence <= s.telemetryConfidence

AllMilder(S, T) == Len(S) = Len(T) /\ \A i \in 1..Len(S) : Milder(S[i], T[i])

\* Normalization keeps what is milder milder: the fields are clamped, and clamping grows.
LEMMA NormalizedMilder ==
  ASSUME NEW s \in Surfaces, NEW t \in Surfaces, Milder(s, t)
  PROVE  Milder(Normalized(s), Normalized(t))
<1>1. /\ s.criticality \in Int /\ s.exposure \in Int /\ s.controlStrength \in Int
      /\ s.humanPressure \in Int /\ s.telemetryConfidence \in Int
      /\ t.criticality \in Int /\ t.exposure \in Int /\ t.controlStrength \in Int
      /\ t.humanPressure \in Int /\ t.telemetryConfidence \in Int
      /\ DOMAIN s = {"id", "criticality", "exposure", "controlStrength", "humanPressure", "telemetryConfidence", "signals",
                     "localMicro"}
      /\ DOMAIN t = DOMAIN s
  BY DEF Surfaces
<1>2. /\ Clamp(s.criticality, 100) <= Clamp(t.criticality, 100)
      /\ Clamp(s.exposure, 100) <= Clamp(t.exposure, 100)
      /\ Clamp(s.humanPressure, 100) <= Clamp(t.humanPressure, 100)
      /\ Clamp(t.controlStrength, 100) <= Clamp(s.controlStrength, 100)
      /\ Clamp(t.telemetryConfidence, 100) <= Clamp(s.telemetryConfidence, 100)
  BY <1>1, ClampGrows DEF Milder
<1>3. \A x \in {s, t} :
         /\ Normalized(x).id = x.id /\ Normalized(x).signals = x.signals
         /\ Normalized(x).localMicro = x.localMicro
         /\ Normalized(x).criticality = Clamp(x.criticality, 100)
         /\ Normalized(x).exposure = Clamp(x.exposure, 100)
         /\ Normalized(x).humanPressure = Clamp(x.humanPressure, 100)
         /\ Normalized(x).controlStrength = Clamp(x.controlStrength, 100)
         /\ Normalized(x).telemetryConfidence = Clamp(x.telemetryConfidence, 100)
  BY <1>1 DEF Normalized
<1> QED BY <1>2, <1>3 DEF Milder

\* Probability and impact do not fall with what a surface is exposed to.
LEMMA SurfaceGrows ==
  ASSUME NEW s, NormalSurface(s), NEW t, NormalSurface(t), Milder(s, t)
  PROVE  /\ Probability(s) \in 0..One /\ Probability(t) \in 0..One /\ Probability(s) <= Probability(t)
         /\ Impact(s) \in Nat /\ Impact(t) \in Nat /\ Impact(s) <= Impact(t)
<1>1. \A x \in {s, t} :
        /\ x.criticality \in 0..100 /\ x.exposure \in 0..100 /\ x.controlStrength \in 0..100
        /\ x.humanPressure \in 0..100 /\ x.telemetryConfidence \in 0..100 /\ x.signals \in Nat
        /\ x.localMicro \in Int
  BY DEF NormalSurface, Surfaces
<1> DEFINE W(x) == 2050 * x.exposure + 950 * x.criticality + 720 * x.humanPressure
                     - 1750 * x.controlStrength + 480 * (100 - x.telemetryConfidence)
                     + 550 * x.localMicro
           N(x) == (400 * Least(x.signals, 12)) \div 12
           I(x) == 780 * x.criticality + 150 * x.exposure + 70 * x.humanPressure
<1>2. W(s) \in Int /\ W(t) \in Int /\ W(s) <= W(t)
  <2>1. /\ s.criticality <= t.criticality /\ s.exposure <= t.exposure
        /\ s.humanPressure <= t.humanPressure
        /\ t.controlStrength <= s.controlStrength /\ t.telemetryConfidence <= s.telemetryConfidence
    BY DEF Milder
  <2> DEFINE a == s.criticality   f == t.criticality
             b == s.exposure      g == t.exposure
             c == s.humanPressure h == t.humanPressure
             d == s.controlStrength i == t.controlStrength
             e == s.telemetryConfidence j == t.telemetryConfidence
             k == s.localMicro
  <2>2. a \in Int /\ b \in Int /\ c \in Int /\ d \in Int /\ e \in Int
        /\ f \in Int /\ g \in Int /\ h \in Int /\ i \in Int /\ j \in Int /\ k \in Int
    BY <1>1
  <2>3. a <= f /\ b <= g /\ c <= h /\ i <= d /\ j <= e
    BY <2>1
  <2>4. /\ W(s) = 2050 * b + 950 * a + 720 * c - 1750 * d + 480 * (100 - e) + 550 * k
        /\ W(t) = 2050 * g + 950 * f + 720 * h - 1750 * i + 480 * (100 - j) + 550 * k
    BY DEF Milder
  <2> HIDE DEF W, a, b, c, d, e, f, g, h, i, j, k
  <2> QED BY <2>2, <2>3, <2>4
<1>3. N(s) \in Int /\ N(t) = N(s)
  <2>1. Least(s.signals, 12) \in Int /\ s.signals = t.signals
    BY <1>1 DEF Least, Milder
  <2> DEFINE z == Least(s.signals, 12)
  <2>2. N(s) = (400 * z) \div 12 /\ N(t) = (400 * z) \div 12 /\ z \in Int
    BY <2>1
  <2> HIDE DEF N, z
  <2> QED BY <2>2
<1>4. I(s) \in Nat /\ I(t) \in Nat /\ I(s) <= I(t)
  <2> DEFINE a == s.criticality   f == t.criticality
             b == s.exposure      g == t.exposure
             c == s.humanPressure h == t.humanPressure
  <2>1. a \in Nat /\ b \in Nat /\ c \in Nat /\ f \in Nat /\ g \in Nat /\ h \in Nat
    BY <1>1
  <2>2. a <= f /\ b <= g /\ c <= h
    BY DEF Milder
  <2>3. I(s) = 780 * a + 150 * b + 70 * c /\ I(t) = 780 * f + 150 * g + 70 * h
    OBVIOUS
  <2> HIDE DEF I, a, b, c, f, g, h
  <2> QED BY <2>1, <2>2, <2>3
<1>5. Logit(s) = W(s) \div 100 + N(s) - 2200 /\ Logit(t) = W(t) \div 100 + N(t) - 2200
  BY DEF Logit
<1>6. Impact(s) = I(s) \div 100 /\ Impact(t) = I(t) \div 100
  BY DEF Impact
<1> HIDE DEF W, N, I
<1>7. Impact(s) \in Nat /\ Impact(t) \in Nat /\ Impact(s) <= Impact(t)
  BY <1>4, <1>6, DivGrows
<1>8. Logit(s) \in Int /\ Logit(t) \in Int /\ Logit(s) <= Logit(t)
  <2>1. W(s) \div 100 \in Int /\ W(t) \div 100 \in Int /\ W(s) \div 100 <= W(t) \div 100
    BY <1>2, DivGrows
  <2> QED BY <1>3, <1>5, <2>1
<1>9. Logit(s) \div 8 \in Int /\ Logit(t) \div 8 \in Int /\ Logit(s) \div 8 <= Logit(t) \div 8
  BY <1>8, DivGrows
<1>10. One \in Nat
  BY DEF One
<1> DEFINE x == 500 + Logit(s) \div 8
           y == 500 + Logit(t) \div 8
<1>11. x \in Int /\ y \in Int /\ x <= y
  BY <1>9
<1>12. Probability(s) = Clamp(x, One) /\ Probability(t) = Clamp(y, One)
  BY DEF Probability
<1> HIDE DEF x, y
<1>13. Probability(s) \in 0..One /\ Probability(t) \in 0..One /\ Probability(s) <= Probability(t)
  BY <1>10, <1>11, <1>12, ClampIs, ClampGrows
<1> QED BY <1>7, <1>13

-----------------------------------------------------------------------------
(* A round *)

\* What a link passes on does not fall with its source's probability.
LEMMA PressureGrows ==
  ASSUME NEW l \in Links, l.trust \in 0..100, l.controlStrength \in 0..100,
         NEW p \in 0..One, NEW q \in 0..One, p <= q, NEW round \in Nat \ {0}
  PROVE  Pressure(l, p, round) \in Nat /\ Pressure(l, q, round) \in Nat
         /\ Pressure(l, p, round) <= Pressure(l, q, round)
<1> DEFINE t == l.trust
           c == 100 - l.controlStrength
           d == One * round
<1>1. t \in Nat /\ c \in Nat /\ d \in Nat \ {0} /\ p \in Int /\ q \in Int /\ 0 <= p /\ 0 <= q
  BY DEF One
<1>2. Coupling \in Nat
  BY TwinGraphAssumption
<1>3. Pressure(l, p, round) = (((p * t * c) \div 10000) * Coupling) \div d
      /\ Pressure(l, q, round) = (((q * t * c) \div 10000) * Coupling) \div d
  BY DEF Pressure
<1> HIDE DEF t, c, d
<1>4. p * t \in Int /\ q * t \in Int /\ p * t <= q * t /\ 0 <= p * t
  BY <1>1, TimesGrows
<1>5. p * t * c \in Int /\ q * t * c \in Int /\ p * t * c <= q * t * c /\ 0 <= p * t * c
  BY <1>1, <1>4, TimesGrows
<1> DEFINE a == p * t * c
           b == q * t * c
           e == a \div 10000
           f == b \div 10000
<1>6. e \in Int /\ f \in Int /\ e <= f /\ 0 <= e
  <2>1. a \in Int /\ b \in Int /\ a <= b /\ 0 <= a
    BY <1>5
  <2> HIDE DEF a, b
  <2> QED BY <2>1, DivGrows
<1>10. Pressure(l, p, round) = (e * Coupling) \div d /\ Pressure(l, q, round) = (f * Coupling) \div d
  BY <1>3
<1> HIDE DEF a, b, e, f
<1> DEFINE g == e * Coupling
           h == f * Coupling
<1>7. g \in Int /\ h \in Int /\ g <= h /\ 0 <= g
  BY <1>2, <1>6, TimesGrows
<1>8. Pressure(l, p, round) = g \div d /\ Pressure(l, q, round) = h \div d
  BY <1>10
<1> HIDE DEF g, h
<1>9. g \div d \in Int /\ h \div d \in Int /\ g \div d <= h \div d /\ 0 <= g \div d
  BY <1>1, <1>7, DivGrows
<1> QED BY <1>8, <1>9

\* A probability, raised and bounded, does not fall with it or with the increment.
LEMMA RaiseGrows ==
  ASSUME NEW p \in 0..One, NEW q \in 0..One, p <= q, NEW a \in Nat, NEW b \in Nat, a <= b
  PROVE  /\ Clamp(Raise(p, a), One) \in 0..One /\ Clamp(Raise(q, b), One) \in 0..One
         /\ Clamp(Raise(p, a), One) <= Clamp(Raise(q, b), One)
<1> DEFINE x == (One - p) * (One - a)
           y == (One - q) * (One - b)
<1>1. One = 1000 /\ One \in Nat /\ p \in Int /\ q \in Int /\ 0 <= p /\ p <= One /\ 0 <= q /\ q <= One
  BY DEF One
<1>2. x \in Int /\ y \in Int
  BY <1>1
<1>3. Raise(p, a) = One - x \div One /\ Raise(q, b) = One - y \div One
  BY DEF Raise
<1>4. b <= One => y <= x
  <2> SUFFICES ASSUME b <= One PROVE y <= x
    OBVIOUS
  <2>1. One - q \in Nat /\ One - p \in Nat /\ One - q <= One - p
        /\ One - b \in Nat /\ One - a \in Nat /\ One - b <= One - a
    BY <1>1
  <2> DEFINE c == One - q
             d == One - p
             e == One - b
             f == One - a
  <2>2. x = d * f /\ y = c * e
    OBVIOUS
  <2> HIDE DEF c, d, e, f, x, y
  <2>3. c \in Nat /\ d \in Nat /\ c <= d /\ e \in Nat /\ f \in Nat /\ e <= f
    BY <2>1 DEF c, d, e, f
  <2>4. c * e <= d * e /\ c * e \in Int /\ d * e \in Int
    BY <2>3, TimesGrows
  <2>5. e * d <= f * d /\ e * d \in Int /\ f * d \in Int
    BY <2>3, TimesGrows
  <2>6. e * d = d * e /\ f * d = d * f
    BY <2>3
  <2> QED BY <2>2, <2>4, <2>5, <2>6
<1>5. b > One => y <= 0
  <2> SUFFICES ASSUME b > One PROVE y <= 0
    OBVIOUS
  <2> DEFINE c == One - q
             e == b - One
  <2>3. c \in Nat /\ e \in Nat /\ One - b \in Int /\ One - b = -e
    BY <1>1
  <2>4. y = c * (One - b)
    OBVIOUS
  <2> HIDE DEF c, e, y
  <2>1. c \in Nat /\ e \in Nat /\ y = -(c * e)
    <3>1. c * (-e) = -(c * e)
      BY <2>3
    <3> QED BY <2>3, <2>4, <3>1
  <2> HIDE DEF c, e, y
  <2>2. c * e >= 0 /\ c * e \in Int
    BY <2>1
  <2> QED BY <2>1, <2>2
<1> HIDE DEF x, y
<1>6. x \div One \in Int /\ y \div One \in Int /\ (y <= x => y \div One <= x \div One)
      /\ (y <= 0 => y \div One <= 0)
  <2>1. One \in Nat \ {0} /\ 0 \div One = 0
    BY <1>1
  <2>2. x \div One \in Int /\ y \div One \in Int
    BY <1>2, <2>1, DivGrows
  <2>3. y <= x => y \div One <= x \div One
    BY <1>2, <2>1, DivGrows
  <2>4. y <= 0 => y \div One <= 0 \div One
    BY <1>2, <2>1, DivGrows
  <2> QED BY <2>1, <2>2, <2>3, <2>4
<1>7. Raise(p, a) \in Int /\ Raise(q, b) \in Int
  BY <1>1, <1>3, <1>6
<1>8. Clamp(Raise(p, a), One) \in 0..One /\ Clamp(Raise(q, b), One) \in 0..One
  <2>1. One \in Nat
    BY <1>1
  <2> QED BY <1>7, <2>1, ClampIs
<1>9. CASE b <= One
  <2>1. Raise(p, a) <= Raise(q, b)
    BY <1>1, <1>3, <1>4, <1>6, <1>9
  <2> QED BY <1>1, <1>7, <1>8, <2>1, ClampGrows
<1>10. CASE b > One
  <2>1. Raise(q, b) >= One
    BY <1>1, <1>3, <1>5, <1>6, <1>10
  <2>2. Clamp(Raise(q, b), One) = One
    BY <1>1, <1>7, <2>1 DEF Clamp, Least
  <2> QED BY <1>1, <1>8, <2>2
<1> QED BY <1>1, <1>9, <1>10

-----------------------------------------------------------------------------
(* Rows and links *)

\* n rows of normal surfaces, and links between them.
Net(rows, n, L) ==
  /\ n \in Nat /\ rows = [k \in 1..n |-> rows[k]]
  /\ \A k \in 1..n : NormalSurface(rows[k])
  /\ L \in Seq(Links)
  /\ \A k \in 1..Len(L) :
       /\ L[k].trust \in 0..100 /\ L[k].controlStrength \in 0..100
       /\ \E i \in 1..n : rows[i].id = L[k].source
       /\ \E i \in 1..n : rows[i].id = L[k].target

\* The rows of surfaces that validation has accepted.
LEMMA RowsNet ==
  ASSUME NEW S, NEW L, AllNormal(S, L)
  PROVE  /\ S \in Seq(Surfaces) /\ L \in Seq(Links)
         /\ Net(Rows(S, L), RowCount(S, L), L)
<1> DEFINE n == RowCount(S, L)
           g == RowPlaces(S, L)
           R == Rows(S, L)
<1>1. S \in Seq(Surfaces) /\ L \in Seq(Links) /\ DOMAIN S = 1..Len(S) /\ DOMAIN L = 1..Len(L)
      /\ Len(L) \in Nat /\ (\A i \in DOMAIN S : NormalSurface(S[i]))
      /\ (\A k \in DOMAIN L : NormalLink(L[k], S))
  BY DEF AllNormal
<1>2. Placing(R, S, n, g) /\ (L # <<>> => OneEach(R, S, n))
  BY <1>1, RowsAre
<1> HIDE DEF n, g, R
<1>3. n \in Nat /\ R = [k \in 1..n |-> R[k]] /\ \A k \in 1..n : R[k] = S[g[k]] /\ g[k] \in 1..Len(S)
  <2>1. n \in Nat /\ R = [k \in 1..n |-> S[g[k]]] /\ \A k \in 1..n : g[k] \in 1..Len(S)
    BY <1>2 DEF Placing
  <2> QED BY <2>1
<1>4. \A k \in 1..n : NormalSurface(R[k])
  BY <1>1, <1>3
<1>5. ASSUME NEW k \in 1..Len(L)
      PROVE /\ L[k].trust \in 0..100 /\ L[k].controlStrength \in 0..100
            /\ \E i \in 1..n : R[i].id = L[k].source
            /\ \E i \in 1..n : R[i].id = L[k].target
  <2>1. L # <<>> /\ NormalLink(L[k], S)
    BY <1>1
  <2>2. L[k].trust \in 0..100 /\ L[k].controlStrength \in 0..100
        /\ L[k].source \in Ids(S) /\ L[k].target \in Ids(S)
    BY <2>1 DEF NormalLink, Joins
  <2>3. \A i \in 1..Len(S) : \E m \in 1..n : R[m].id = S[i].id
    BY <1>2, <2>1 DEF OneEach
  <2> QED BY <1>1, <2>2, <2>3 DEF Ids
<1>6. Net(R, n, L)
  BY <1>1, <1>3, <1>4, <1>5 DEF Net
<1> QED BY <1>1, <1>6 DEF R, n

\* The same ids.
Same(rows, others, n) == \A k \in 1..n : rows[k].id = others[k].id

\* Which row has an id depends on the ids alone.
LEMMA RowIs ==
  ASSUME NEW rows, NEW n, rows = [k \in 1..n |-> rows[k]], NEW id,
         \E i \in 1..n : rows[i].id = id
  PROVE  Row(rows, id) \in 1..n /\ rows[Row(rows, id)].id = id
<1>1. DOMAIN rows = 1..n
  OBVIOUS
<1> QED BY <1>1 DEF Row

\* Rows with the same ids are found at the same places.
LEMMA RowSame ==
  ASSUME NEW rows, NEW others, NEW n,
         rows = [k \in 1..n |-> rows[k]], others = [k \in 1..n |-> others[k]],
         Same(rows, others, n), NEW id
  PROVE  Row(rows, id) = Row(others, id)
<1>1. DOMAIN rows = 1..n /\ DOMAIN others = 1..n
  OBVIOUS
<1> QED BY <1>1, Zenon DEF Row, Same

Probabilities(n) == [1..n -> 0..One]

\* What a link brings to a row.
Brings(prob, rows, L, round, i, k) ==
  IF L[k].target = rows[i].id THEN Passed(prob, rows, L[k], round) ELSE 0

\* None of the probabilities is greater.
NoGreater(prob, other, n) == \A i \in 1..n : prob[i] <= other[i]

\* What a link passes on grows with the probability of its source.
LEMMA PassedGrows ==
  ASSUME NEW rows, NEW others, NEW n, NEW L, Net(rows, n, L), Net(others, n, L), Same(rows, others, n),
         NEW prob \in Probabilities(n), NEW other \in Probabilities(n), NoGreater(prob, other, n),
         NEW round \in Nat \ {0}, NEW k \in 1..Len(L)
  PROVE  /\ Passed(prob, rows, L[k], round) \in Nat /\ Passed(other, others, L[k], round) \in Nat
         /\ Passed(prob, rows, L[k], round) <= Passed(other, others, L[k], round)
<1> DEFINE l == L[k]
           r == Row(rows, l.source)
<1>1. l \in Links /\ l.trust \in 0..100 /\ l.controlStrength \in 0..100
      /\ rows = [m \in 1..n |-> rows[m]] /\ others = [m \in 1..n |-> others[m]]
      /\ \E i \in 1..n : rows[i].id = l.source
  <2>1. L \in Seq(Links)
    BY DEF Net
  <2>2. L[k] \in Links
    BY <2>1
  <2>3. rows = [m \in 1..n |-> rows[m]] /\ others = [m \in 1..n |-> others[m]]
    BY DEF Net
  <2>4. l.trust \in 0..100 /\ l.controlStrength \in 0..100 /\ \E i \in 1..n : rows[i].id = l.source
    BY DEF Net
  <2> QED BY <2>2, <2>3, <2>4
<1>2. r \in 1..n
  BY <1>1, RowIs
<1>3. r = Row(others, l.source)
  BY <1>1, RowSame
<1>4. Passed(prob, rows, l, round) = Pressure(l, prob[r], round)
      /\ Passed(other, others, l, round) = Pressure(l, other[r], round)
  BY <1>3, Zenon DEF Passed
<1> HIDE DEF l, r
<1>5. prob[r] \in 0..One /\ other[r] \in 0..One /\ prob[r] <= other[r]
  BY <1>2 DEF Probabilities, NoGreater
<1> QED BY <1>1, <1>4, <1>5, PressureGrows DEF l

\* What a round adds to a row.
LEMMA AddedIs ==
  ASSUME NEW rows, NEW n, NEW L, Net(rows, n, L), NEW prob, NEW round, NEW i \in 1..n
  PROVE  Added(prob, rows, L, round)[i] = Total([k \in 1..Len(L) |-> Brings(prob, rows, L, round, i, k)])
<1>1. DOMAIN rows = 1..n /\ DOMAIN L = 1..Len(L)
  BY DEF Net
<1> QED BY <1>1, Zenon DEF Added, Brings

\* What all links add to a row grows with the probabilities.
LEMMA AddedGrows ==
  ASSUME NEW rows, NEW others, NEW n, NEW L, Net(rows, n, L), Net(others, n, L), Same(rows, others, n),
         NEW prob \in Probabilities(n), NEW other \in Probabilities(n), NoGreater(prob, other, n),
         NEW round \in Nat \ {0}, NEW i \in 1..n
  PROVE  /\ Added(prob, rows, L, round)[i] \in Nat /\ Added(other, others, L, round)[i] \in Nat
         /\ Added(prob, rows, L, round)[i] <= Added(other, others, L, round)[i]
<1> DEFINE m == Len(L)
           s == [k \in 1..m |-> Brings(prob, rows, L, round, i, k)]
           t == [k \in 1..m |-> Brings(other, others, L, round, i, k)]
           z == [k \in 1..m |-> 0]
<1>1. m \in Nat
  BY DEF Net
<1>2. \A k \in 1..m : Brings(prob, rows, L, round, i, k) \in Nat
        /\ Brings(other, others, L, round, i, k) \in Nat
        /\ Brings(prob, rows, L, round, i, k) <= Brings(other, others, L, round, i, k)
  <2> TAKE k \in 1..m
  <2>1. rows[i].id = others[i].id
    BY DEF Same
  <2>2. /\ Passed(prob, rows, L[k], round) \in Nat /\ Passed(other, others, L[k], round) \in Nat
        /\ Passed(prob, rows, L[k], round) <= Passed(other, others, L[k], round)
    BY PassedGrows
  <2> QED BY <2>1, <2>2 DEF Brings
<1> HIDE DEF m
<1>3. s \in Seq(Int) /\ t \in Seq(Int) /\ z \in Seq(Int) /\ Len(s) = m /\ Len(t) = m /\ Len(z) = m
      /\ (\A k \in 1..m : s[k] <= t[k]) /\ (\A k \in 1..m : z[k] <= s[k] /\ z[k] = 0)
  BY <1>1, <1>2
<1>4. Added(prob, rows, L, round)[i] = Total(s) /\ Added(other, others, L, round)[i] = Total(t)
  <2>1. Added(prob, rows, L, round)[i] = Total([k \in 1..Len(L) |-> Brings(prob, rows, L, round, i, k)])
    BY AddedIs
  <2>2. Added(other, others, L, round)[i] = Total([k \in 1..Len(L) |-> Brings(other, others, L, round, i, k)])
    BY AddedIs
  <2> QED BY <2>1, <2>2, Zenon DEF m
<1> HIDE DEF s, t, z
<1>5. Total(s) \in Int /\ Total(t) \in Int /\ Total(s) <= Total(t)
  BY <1>3, TotalGrows
<1>6. Total(z) \in Int /\ Total(z) <= Total(s)
  BY <1>3, TotalGrows
<1>7. Total(z) = 0
  <2>1. PICK f : Sums(f, z)
    BY <1>3, TotalIs
  <2>2. /\ \A j \in 0..m : f[j] \in Int
        /\ f[0] = 0 /\ Total(z) = f[m]
        /\ \A j \in 1..m : f[j] = f[j - 1] + z[j]
    BY <1>3, <2>1 DEF Sums
  <2> DEFINE Nought == {j \in Nat : j <= m => f[j] = 0}
  <2>3. Nought = Nat
    <3>1. 0 \in Nought
      BY <2>2
    <3>2. ASSUME NEW j \in Nought PROVE j + 1 \in Nought
      <4>1. j \in Nat /\ j + 1 \in Nat /\ (j + 1 <= m => j <= m /\ j + 1 \in 1..m /\ (j + 1) - 1 = j)
        BY <1>1
      <4>2. j + 1 <= m => f[j + 1] = f[j] + z[j + 1]
        BY <2>2, <4>1, Zenon
      <4> QED BY <1>3, <4>1, <4>2
    <3>3. Nought \in SUBSET Nat
      OBVIOUS
    <3> HIDE DEF Nought
    <3> QED BY <3>1, <3>2, <3>3, AllNumbers
  <2> QED BY <1>1, <2>2, <2>3
<1> QED BY <1>4, <1>5, <1>6, <1>7

\* A round raises no probability beyond one, and greater probabilities stay greater.
LEMMA SpreadGrows ==
  ASSUME NEW rows, NEW others, NEW n, NEW L, Net(rows, n, L), Net(others, n, L), Same(rows, others, n),
         NEW prob \in Probabilities(n), NEW other \in Probabilities(n), NoGreater(prob, other, n),
         NEW round \in Nat \ {0}
  PROVE  /\ Spread(prob, rows, L, round) \in Probabilities(n)
         /\ Spread(other, others, L, round) \in Probabilities(n)
         /\ NoGreater(Spread(prob, rows, L, round), Spread(other, others, L, round), n)
<1> DEFINE a == Added(prob, rows, L, round)
           b == Added(other, others, L, round)
           s == Spread(prob, rows, L, round)
           t == Spread(other, others, L, round)
<1>1. DOMAIN rows = 1..n /\ DOMAIN others = 1..n
  BY DEF Net
<1>2. /\ s = [i \in 1..n |-> Clamp(Raise(prob[i], a[i]), One)]
      /\ t = [i \in 1..n |-> Clamp(Raise(other[i], b[i]), One)]
  BY <1>1, Zenon DEF Spread
<1>3. \A i \in 1..n : a[i] \in Nat /\ b[i] \in Nat /\ a[i] <= b[i]
  BY AddedGrows
<1> HIDE DEF a, b, s, t
<1>4. \A i \in 1..n : s[i] \in 0..One /\ t[i] \in 0..One /\ s[i] <= t[i]
  <2> TAKE i \in 1..n
  <2>1. prob[i] \in 0..One /\ other[i] \in 0..One /\ prob[i] <= other[i]
    BY DEF Probabilities, NoGreater
  <2>2. /\ Clamp(Raise(prob[i], a[i]), One) \in 0..One /\ Clamp(Raise(other[i], b[i]), One) \in 0..One
        /\ Clamp(Raise(prob[i], a[i]), One) <= Clamp(Raise(other[i], b[i]), One)
    BY <1>3, <2>1, RaiseGrows
  <2> QED BY <1>2, <2>2
<1> QED BY <1>2, <1>4 DEF s, t, Probabilities, NoGreater

-----------------------------------------------------------------------------
(* All rounds *)

\* Before the first round a row has the probability of its surface.
LEMMA StartIs ==
  ASSUME NEW rows, NEW n, NEW L, Net(rows, n, L)
  PROVE  Start(rows) \in Probabilities(n) /\ \A i \in 1..n : Start(rows)[i] = Probability(rows[i])
<1>1. DOMAIN rows = 1..n /\ \A i \in 1..n : NormalSurface(rows[i])
  BY DEF Net
<1>2. \A i \in 1..n : Milder(rows[i], rows[i])
  BY <1>1 DEF Milder, NormalSurface, Surfaces
<1>3. \A i \in 1..n : Probability(rows[i]) \in 0..One
  BY <1>1, <1>2, SurfaceGrows
<1> QED BY <1>1, <1>3 DEF Start, Probabilities

\* f has the probabilities after each round.
Propagates(f, rows, n, L) ==
  /\ f[0] = Start(rows)
  /\ \A r \in 1..Rounds : f[r] = Spread(f[r - 1], rows, L, r)
  /\ \A r \in 0..Rounds : f[r] \in Probabilities(n)
  /\ Propagated(rows, L) = f[Rounds]

\* The rounds exist, one from the other, and Propagated is the last.
LEMMA PropagatedIs ==
  ASSUME NEW rows, NEW n, NEW L, Net(rows, n, L)
  PROVE  \E f : Propagates(f, rows, n, L)
<1> DEFINE P == Probabilities(n)
           base == Start(rows)
           next == [t \in Nat \X P |-> Spread(t[2], rows, L, t[1] + 1)]
           Equation(f) == f = [round \in 0..Rounds |->
                                IF round = 0 THEN Start(rows) ELSE Spread(f[round - 1], rows, L, round)]
<1>1. Rounds \in Nat
  BY TwinGraphAssumption
<1>2. base \in P
  BY StartIs
<1>3. \A r \in Nat, p \in P : Spread(p, rows, L, r + 1) \in P
  <2> TAKE r \in Nat, p \in P
  <2>1. r + 1 \in Nat \ {0} /\ Same(rows, rows, n)
    BY DEF Same
  <2>2. NoGreater(p, p, n)
    <3>1. \A i \in 1..n : p[i] \in Int
      <4>1. \A i \in 1..n : p[i] \in 0..One
        BY DEF Probabilities
      <4>2. One \in Int
        BY DEF One
      <4> QED BY <4>1, <4>2
    <3> QED BY <3>1 DEF NoGreater
  <2>3. p \in Probabilities(n)
    BY DEF P
  <2> QED BY <2>1, <2>2, <2>3, SpreadGrows DEF P
<1> HIDE DEF P, base
<1>4. next \in [Nat \X P -> P] /\ \A r \in Nat, p \in P : next[<<r, p>>] = Spread(p, rows, L, r + 1)
  <2>1. \A t \in Nat \X P : t[1] \in Nat /\ t[2] \in P
    OBVIOUS
  <2>2. \A t \in Nat \X P : Spread(t[2], rows, L, t[1] + 1) \in P
    BY <1>3, <2>1
  <2> QED BY <2>2
<1> HIDE DEF next
<1>5. PICK g : Recurs(g, P, base, next)
  BY <1>2, <1>4, RecursionIs, Zenon
<1>6. /\ \A r \in Nat : g[r] \in P
      /\ g[0] = base
      /\ \A r \in Nat : g[r + 1] = Spread(g[r], rows, L, r + 1)
  <2>1. g \in [Nat -> P] /\ g[0] = base /\ \A r \in Nat : g[r + 1] = next[<<r, g[r]>>]
    BY <1>5 DEF Recurs
  <2>2. \A r \in Nat : g[r] \in P
    BY <2>1
  <2> QED BY <1>4, <2>1, <2>2, Zenon
<1>7. \A r \in 1..Rounds : r - 1 \in Nat /\ (r - 1) + 1 = r /\ r - 1 \in 0..Rounds /\ r # 0 /\ r \in 0..Rounds
  BY <1>1
<1>8. \A r \in 1..Rounds : g[r] = Spread(g[r - 1], rows, L, r)
  BY <1>6, <1>7
<1> DEFINE f == [r \in 0..Rounds |-> g[r]]
<1>9. Equation(f)
  <2>1. \A r \in 0..Rounds : f[r] = g[r] /\ (r = 0 \/ r \in 1..Rounds)
    BY <1>1
  <2>2. f = [r \in 0..Rounds |-> f[r]]
    OBVIOUS
  <2> HIDE DEF f
  <2>3. \A r \in 0..Rounds : f[r] = IF r = 0 THEN Start(rows) ELSE Spread(f[r - 1], rows, L, r)
    BY <1>6, <1>7, <1>8, <2>1 DEF base
  <2> QED BY <2>2, <2>3
<1> HIDE DEF f
<1> DEFINE h == CHOOSE h : Equation(h)
<1>10. Propagated(rows, L) = h[Rounds]
  BY DEF Propagated
<1>11. Equation(h)
  <2> HIDE DEF Equation
  <2> QED BY <1>9
<1>12. h = [r \in 0..Rounds |-> IF r = 0 THEN Start(rows) ELSE Spread(h[r - 1], rows, L, r)]
  BY <1>11
<1> HIDE DEF h
<1>13. \A r \in 0..Rounds : h[r] = IF r = 0 THEN Start(rows) ELSE Spread(h[r - 1], rows, L, r)
  BY <1>12
<1>14. h[0] = base /\ \A r \in 1..Rounds : h[r] = Spread(h[r - 1], rows, L, r)
  <2>1. 0 \in 0..Rounds
    BY <1>1
  <2> QED BY <1>7, <1>13, <2>1, Zenon DEF base
<1> DEFINE Typed == {r \in Nat : r <= Rounds => h[r] \in P}
<1>15. Typed = Nat
  <2>1. 0 \in Typed
    BY <1>2, <1>14
  <2>2. ASSUME NEW r \in Typed PROVE r + 1 \in Typed
    <3>1. r \in Nat /\ r + 1 \in Nat /\ (r + 1 <= Rounds => r <= Rounds /\ r + 1 \in 1..Rounds /\ (r + 1) - 1 = r)
      BY <1>1
    <3>2. r + 1 <= Rounds => h[r + 1] = Spread(h[r], rows, L, r + 1)
      BY <1>14, <3>1
    <3> QED BY <1>3, <3>1, <3>2
  <2>3. Typed \in SUBSET Nat
    OBVIOUS
  <2> HIDE DEF Typed
  <2> QED BY <2>1, <2>2, <2>3, AllNumbers
<1>16. \A r \in 0..Rounds : h[r] \in P
  BY <1>1, <1>15
<1> QED BY <1>10, <1>14, <1>16 DEF Propagates, P, base

\* Pressure keeps the order of what it starts from.
LEMMA PropagatedGrows ==
  ASSUME NEW rows, NEW others, NEW n, NEW L, Net(rows, n, L), Net(others, n, L), Same(rows, others, n),
         NoGreater(Start(rows), Start(others), n)
  PROVE  /\ Propagated(rows, L) \in Probabilities(n) /\ Propagated(others, L) \in Probabilities(n)
         /\ NoGreater(Propagated(rows, L), Propagated(others, L), n)
<1>1. PICK f : Propagates(f, rows, n, L)
  BY PropagatedIs
<1>2. PICK g : Propagates(g, others, n, L)
  BY PropagatedIs
<1>3. /\ f[0] = Start(rows) /\ g[0] = Start(others)
      /\ \A r \in 1..Rounds : f[r] = Spread(f[r - 1], rows, L, r) /\ g[r] = Spread(g[r - 1], others, L, r)
      /\ \A r \in 0..Rounds : f[r] \in Probabilities(n) /\ g[r] \in Probabilities(n)
      /\ Propagated(rows, L) = f[Rounds] /\ Propagated(others, L) = g[Rounds]
  BY <1>1, <1>2 DEF Propagates
<1>4. Rounds \in Nat
  BY TwinGraphAssumption
<1> DEFINE Kept == {r \in Nat : r <= Rounds => NoGreater(f[r], g[r], n)}
<1>5. Kept = Nat
  <2>1. 0 \in Kept
    BY <1>3
  <2>2. ASSUME NEW r \in Kept PROVE r + 1 \in Kept
    <3>1. SUFFICES ASSUME r + 1 <= Rounds PROVE NoGreater(f[r + 1], g[r + 1], n)
      OBVIOUS
    <3>2. r \in Nat /\ r + 1 \in Nat \ {0} /\ r <= Rounds /\ r + 1 \in 1..Rounds /\ (r + 1) - 1 = r
          /\ r \in 0..Rounds
      BY <1>4, <3>1
    <3>3. NoGreater(f[r], g[r], n)
      BY <3>2
    <3>4. f[r + 1] = Spread(f[r], rows, L, r + 1) /\ g[r + 1] = Spread(g[r], others, L, r + 1)
      BY <1>3, <3>2
    <3>5. f[r] \in Probabilities(n) /\ g[r] \in Probabilities(n)
      BY <1>3, <3>2
    <3> HIDE DEF Kept
    <3>6. NoGreater(Spread(f[r], rows, L, r + 1), Spread(g[r], others, L, r + 1), n)
      BY <3>2, <3>3, <3>5, SpreadGrows
    <3> QED BY <3>4, <3>6
  <2>3. Kept \in SUBSET Nat
    OBVIOUS
  <2> HIDE DEF Kept
  <2> QED BY <2>1, <2>2, <2>3, AllNumbers
<1>6. Rounds \in 0..Rounds /\ Rounds \in Kept
  BY <1>4, <1>5
<1> QED BY <1>3, <1>4, <1>6

-----------------------------------------------------------------------------
(* Findings *)

Risk(rows, prob, i) == (prob[i] * Impact(rows[i])) \div One

Finding(rows, prob, i) == [id |-> rows[i].id, probability |-> prob[i], risk |-> Risk(rows, prob, i)]

\* findings are those of all rows, the greatest risk first.
Lists(findings, rows, prob, n) ==
  /\ IsSequence(findings) /\ Len(findings) = n /\ DOMAIN findings = 1..n
  /\ \E g : Permutes(g, findings, [i \in 1..n |-> Finding(rows, prob, i)], n)
  /\ \A k, l \in 1..n : k < l => findings[k].risk >= findings[l].risk

\* A risk is a natural number.
LEMMA RiskIs ==
  ASSUME NEW rows, NEW n, NEW L, Net(rows, n, L), NEW prob \in Probabilities(n), NEW i \in 1..n
  PROVE  Risk(rows, prob, i) \in Nat /\ prob[i] \in 0..One
<1>1. NormalSurface(rows[i])
  BY DEF Net
<1>2. Milder(rows[i], rows[i])
  BY <1>1 DEF Milder, NormalSurface, Surfaces
<1>3. Impact(rows[i]) \in Nat
  BY <1>1, <1>2, SurfaceGrows
<1>4. prob[i] \in 0..One
  BY DEF Probabilities
<1>5. prob[i] \in Nat /\ One \in Nat \ {0}
  BY <1>4 DEF One
<1> DEFINE a == prob[i] * Impact(rows[i])
<1>6. a \in Nat /\ a <= a
  <2> DEFINE x == prob[i]
             y == Impact(rows[i])
  <2>1. x \in Nat /\ y \in Nat
    BY <1>3, <1>5
  <2> HIDE DEF x, y
  <2>2. x * y \in Nat
    BY <2>1
  <2>3. x * y \in Int /\ x * y <= x * y
    BY <2>2
  <2> QED BY <2>2, <2>3 DEF x, y
<1>7. Risk(rows, prob, i) = a \div One
  BY DEF Risk
<1> HIDE DEF a
<1>8. a \div One \in Int /\ 0 <= a \div One
  BY <1>5, <1>6, DivGrows
<1> QED BY <1>4, <1>7, <1>8

\* The findings are those of the rows, the greatest risk first.
LEMMA FindingsAre ==
  ASSUME NEW rows, NEW n, NEW L, Net(rows, n, L), NEW prob \in Probabilities(n)
  PROVE  Lists(Findings(rows, prob), rows, prob, n)
<1> DEFINE s == [i \in DOMAIN rows |-> [id |-> rows[i].id, probability |-> prob[i],
                                        risk |-> (prob[i] * Impact(rows[i])) \div One]]
           D == DOMAIN s
           t == Findings(rows, prob)
           key == [i \in D |-> s[i].risk]
           before == [i \in D |-> {j \in D : s[j].risk > s[i].risk \/ (~(s[i].risk > s[j].risk) /\ j <= i)}]
<1>1. n \in Nat /\ DOMAIN rows = 1..n /\ D = 1..n
  BY DEF Net
<1>2. \A i \in 1..n : s[i] = Finding(rows, prob, i) /\ s[i].risk = Risk(rows, prob, i)
  BY <1>1 DEF Finding, Risk
<1>3. IsSequence(s) /\ Len(s) = n
  <2>1. s = [i \in 1..n |-> s[i]]
    BY <1>1
  <2> HIDE DEF s
  <2> QED BY <1>1, <2>1, SegmentIsSequence
<1>4. \A i \in D : s[i].risk \in Int
  <2>1. \A i \in 1..n : Risk(rows, prob, i) \in Nat
    BY RiskIs
  <2> HIDE DEF s
  <2> QED BY <1>1, <1>2, <2>1
<1>5. t = [k \in D |-> s[CHOOSE i \in D :
             Cardinality({j \in D : s[j].risk > s[i].risk \/ (~(s[i].risk > s[j].risk) /\ j <= i)}) = k]]
  BY DEF Sorted, Findings
<1> HIDE DEF s, t, D
<1>6. /\ \A i \in D : key[i] \in Int /\ key[i] = s[i].risk
      /\ before \in [D -> SUBSET D]
      /\ \A i, j \in D : j \in before[i] <=> key[j] > key[i] \/ (~(key[i] > key[j]) /\ j <= i)
      /\ \A i \in D : before[i] = {j \in D : s[j].risk > s[i].risk \/ (~(s[i].risk > s[j].risk) /\ j <= i)}
  BY <1>4
<1> HIDE DEF key, before
<1>7. ASSUME NEW k \in D, \E i \in D : Cardinality(before[i]) = k
      PROVE \E i \in D : Cardinality(before[i]) = k /\ t[k] = s[i]
  <2> DEFINE Sized(i) == Cardinality({j \in D : s[j].risk > s[i].risk \/ (~(s[i].risk > s[j].risk) /\ j <= i)}) = k
             p == CHOOSE i \in D : Sized(i)
  <2>1. t[k] = s[p]
    BY <1>5
  <2>2. \A i \in D : Sized(i) <=> Cardinality(before[i]) = k
    BY <1>6
  <2>3. \E i \in D : Sized(i)
    <3> HIDE DEF Sized
    <3> QED BY <1>7, <2>2
  <2>4. p \in D /\ Sized(p)
    <3> HIDE DEF Sized
    <3> QED BY <2>3
  <2> HIDE DEF p, Sized
  <2> QED BY <2>1, <2>2, <2>4
<1>8. t = [k \in D |-> t[k]]
  BY <1>5
<1>9. Sorts(t, s, key, before)
  BY <1>6, <1>7, <1>8 DEF Sorts, D
<1> DEFINE T == ToSet(s)
<1>10. s \in Seq(T)
  BY <1>3 DEF IsSequence
<1> HIDE DEF T
<1>11. /\ t \in Seq(T) /\ Rearranges(t, s)
       /\ \A k, l \in DOMAIN t : k < l => \E i, j \in DOMAIN s : t[k] = s[i] /\ t[l] = s[j] /\ key[i] >= key[j]
  BY <1>9, <1>10, SortedProperties
<1>12. DOMAIN t = 1..n /\ DOMAIN s = 1..n
  BY <1>1, <1>11 DEF Rearranges, D
<1>13. IsSequence(t) /\ Len(t) = n
  <2>1. t = [k \in 1..n |-> t[k]]
    BY <1>8, <1>12
  <2> QED BY <1>1, <2>1, SegmentIsSequence
<1>14. \A k, l \in 1..n : k < l => t[k].risk >= t[l].risk
  BY <1>6, <1>11, <1>12 DEF D
<1>15. \E g : Permutes(g, t, [i \in 1..n |-> Finding(rows, prob, i)], n)
  <2>1. s = [i \in 1..n |-> Finding(rows, prob, i)]
    <3>1. s = [i \in 1..n |-> s[i]]
      BY <1>3, <1>12 DEF s
    <3> QED BY <1>2, <3>1
  <2> QED BY <1>11, <1>12, <2>1, RearrangedIs
<1> QED BY <1>12, <1>13, <1>14, <1>15 DEF Lists, t

-----------------------------------------------------------------------------
(* The overall risk *)

\* The risk of a row grows with its probability and its surface.
LEMMA RiskGrows ==
  ASSUME NEW rows, NEW others, NEW n, NEW L, Net(rows, n, L), Net(others, n, L),
         NEW prob \in Probabilities(n), NEW other \in Probabilities(n), NoGreater(prob, other, n),
         NEW i \in 1..n, Milder(rows[i], others[i])
  PROVE  Risk(rows, prob, i) \in Nat /\ Risk(others, other, i) \in Nat
         /\ Risk(rows, prob, i) <= Risk(others, other, i)
<1> DEFINE x == prob[i]
           y == other[i]
           v == Impact(rows[i])
           w == Impact(others[i])
<1>1. v \in Nat /\ w \in Nat /\ v <= w
  <2>1. NormalSurface(rows[i]) /\ NormalSurface(others[i])
    BY DEF Net
  <2> QED BY <2>1, SurfaceGrows
<1>2. x \in Nat /\ y \in Nat /\ x <= y
  <2>1. x \in 0..One /\ y \in 0..One
    BY DEF Probabilities
  <2>2. x <= y
    BY DEF NoGreater
  <2>3. One = 1000
    BY DEF One
  <2> HIDE DEF x, y
  <2> QED BY <2>1, <2>2, <2>3
<1>3. Risk(rows, prob, i) = (x * v) \div One /\ Risk(others, other, i) = (y * w) \div One
  BY DEF Risk
<1> HIDE DEF x, y, v, w
<1>4. x * v \in Int /\ y * v \in Int /\ x * v <= y * v
  BY <1>1, <1>2, TimesGrows
<1>5. v * y \in Int /\ w * y \in Int /\ v * y <= w * y
  BY <1>1, <1>2, TimesGrows
<1>6. v * y = y * v /\ w * y = y * w
  BY <1>1, <1>2
<1> DEFINE a == x * v
           b == y * w
<1>7. a \in Int /\ b \in Int /\ a <= b
  BY <1>4, <1>5, <1>6
<1>8. Risk(rows, prob, i) = a \div One /\ Risk(others, other, i) = b \div One
  BY <1>3
<1> HIDE DEF a, b
<1>9. a \div One <= b \div One
  BY <1>7, DivGrows DEF One
<1>10. Risk(rows, prob, i) \in Nat /\ Risk(others, other, i) \in Nat
  BY RiskIs
<1> QED BY <1>8, <1>9, <1>10

\* The risks of the findings are those of the rows, in descending order.
LEMMA RisksDescend ==
  ASSUME NEW F, NEW rows, NEW prob, NEW n, Lists(F, rows, prob, n), NEW t, NEW s,
         t = [k \in 1..n |-> F[k].risk], s = [i \in 1..n |-> Risk(rows, prob, i)]
  PROVE  Descending(t, s)
<1> DEFINE all == [i \in 1..n |-> Finding(rows, prob, i)]
<1>1. PICK g : Permutes(g, F, all, n)
  BY DEF Lists
<1>2. \A i \in 1..n : all[i].risk = s[i]
  BY DEF Finding
<1> HIDE DEF all
<1>3. \A k \in 1..n : g[k] \in 1..n /\ F[k] = all[g[k]]
  BY <1>1 DEF Permutes
<1>4. \A k \in 1..n : t[k] = s[g[k]]
  BY <1>2, <1>3
<1>5. Permutes(g, t, s, n)
  BY <1>1, <1>4, Zenon DEF Permutes
<1>6. DOMAIN t = 1..n /\ DOMAIN s = 1..n
  OBVIOUS
<1>7. Rearranges(t, s)
  BY <1>5, <1>6, PermutedIs
<1>8. \A k, l \in 1..n : k < l => t[k] >= t[l]
  BY DEF Lists
<1> QED BY <1>6, <1>7, <1>8 DEF Descending

\* The overall risk does not fall when no probability and no impact does.
LEMMA OverallGrows ==
  ASSUME NEW rows, NEW others, NEW n, NEW L, Net(rows, n, L), Net(others, n, L),
         NEW prob \in Probabilities(n), NEW other \in Probabilities(n), NoGreater(prob, other, n),
         \A i \in 1..n : Milder(rows[i], others[i]),
         NEW F, NEW G, Lists(F, rows, prob, n), Lists(G, others, other, n)
  PROVE  Overall(F) \in Int /\ Overall(G) \in Int /\ Overall(F) <= Overall(G)
<1> DEFINE s == [i \in 1..n |-> Risk(rows, prob, i)]
           r == [i \in 1..n |-> Risk(others, other, i)]
           t == [k \in 1..n |-> F[k].risk]
           u == [k \in 1..n |-> G[k].risk]
           m == Least(Leading, n)
<1>1. n \in Nat /\ Leading \in Nat /\ Leading # 0
  BY TwinGraphAssumption DEF Net
<1>2. \A i \in 1..n : s[i] \in Int /\ r[i] \in Int /\ s[i] <= r[i]
  <2> TAKE i \in 1..n
  <2>1. Milder(rows[i], others[i])
    OBVIOUS
  <2>2. Risk(rows, prob, i) \in Nat /\ Risk(others, other, i) \in Nat
        /\ Risk(rows, prob, i) <= Risk(others, other, i)
    BY <2>1, RiskGrows
  <2> QED BY <2>2
<1>3. Descending(t, s)
  BY RisksDescend
<1>4. Descending(u, r)
  BY RisksDescend
<1>5. \A k \in 1..n : t[k] \in Int /\ u[k] \in Int /\ t[k] <= u[k]
  <2>1. DOMAIN s = 1..n /\ DOMAIN r = 1..n
    OBVIOUS
  <2> HIDE DEF s, r, t, u
  <2> QED BY <1>1, <1>2, <1>3, <1>4, <2>1, RanksGrow
<1>6. \A k \in 1..n : t[k] = F[k].risk /\ u[k] = G[k].risk
  OBVIOUS
<1> HIDE DEF s, r, t, u
<1>7. IsSequence(F) /\ IsSequence(G) /\ Len(F) = n /\ Len(G) = n
  BY DEF Lists
<1> DEFINE f == Upto(F, Leading)
           g == Upto(G, Leading)
           p == [i \in DOMAIN f |-> f[i].risk]
           q == [i \in DOMAIN g |-> g[i].risk]
<1>8. /\ m \in Nat /\ Len(f) = m /\ Len(g) = m /\ DOMAIN f = 1..m /\ DOMAIN g = 1..m
      /\ \A k \in 1..m : k \in 1..n /\ f[k] = F[k] /\ g[k] = G[k]
  BY <1>1, <1>7, UptoLength
<1>9. m = 0 <=> n = 0
  BY <1>1 DEF Least
<1>10. (f = <<>> <=> m = 0) /\ (g = <<>> <=> m = 0)
  <2>1. f = <<>> => m = 0
    BY <1>8
  <2>2. g = <<>> => m = 0
    BY <1>8
  <2>3. m = 0 => f = <<>> /\ g = <<>>
    <3>1. F \in Seq(ToSet(F)) /\ G \in Seq(ToSet(G))
      BY <1>7 DEF IsSequence
    <3>2. f \in Seq(ToSet(F)) /\ g \in Seq(ToSet(G))
      BY <1>1, <3>1, UptoProperties
    <3> HIDE DEF f, g
    <3> QED BY <1>8, <3>2
  <2> QED BY <2>1, <2>2, <2>3
<1> HIDE DEF f, g, m
<1>11. p \in Seq(Int) /\ q \in Seq(Int) /\ Len(p) = m /\ Len(q) = m /\ \A k \in 1..m : p[k] <= q[k]
  <2>1. \A k \in 1..m : p[k] = t[k] /\ q[k] = u[k] /\ t[k] \in Int /\ u[k] \in Int /\ t[k] <= u[k]
    BY <1>5, <1>6, <1>8
  <2>2. p = [k \in 1..m |-> p[k]] /\ q = [k \in 1..m |-> q[k]]
    BY <1>8
  <2> HIDE DEF p, q
  <2>3. p \in [1..m -> Int] /\ q \in [1..m -> Int]
    BY <2>1, <2>2
  <2> QED BY <1>8, <2>1, <2>3
<1>12. /\ Overall(F) = IF f = <<>> THEN 0 ELSE Total(p) \div Len(f)
       /\ Overall(G) = IF g = <<>> THEN 0 ELSE Total(q) \div Len(g)
  BY DEF Overall, f, g
<1> HIDE DEF p, q
<1>13. Total(p) \in Int /\ Total(q) \in Int /\ Total(p) <= Total(q)
  BY <1>11, TotalGrows
<1>14. m # 0 => /\ Total(p) \div m \in Int /\ Total(q) \div m \in Int
                /\ Total(p) \div m <= Total(q) \div m
  BY <1>8, <1>13, DivGrows
<1> QED BY <1>8, <1>10, <1>12, <1>14

-----------------------------------------------------------------------------
(* Simulations *)

TwinRows(p) == Rows(Validate(p).surfaces, Validate(p).links)

TwinCount(p) == RowCount(Validate(p).surfaces, Validate(p).links)

Final(p) == Propagated(TwinRows(p), Validate(p).links)

\* What a simulation is made of: the rows of the validated packet, their probabilities
\* after all rounds, and the findings about them.
LEMMA SimulateIs ==
  ASSUME NEW p, IsScenario(p)
  PROVE  /\ Net(TwinRows(p), TwinCount(p), Validate(p).links)
         /\ Final(p) \in Probabilities(TwinCount(p))
         /\ Simulate(p).findings = Findings(TwinRows(p), Final(p))
         /\ Lists(Simulate(p).findings, TwinRows(p), Final(p), TwinCount(p))
         /\ Simulate(p).overall = Overall(Simulate(p).findings)
<1> DEFINE v == Validate(p)
           R == TwinRows(p)
           n == TwinCount(p)
<1>1. AllNormal(v.surfaces, v.links)
  BY ValidateIs DEF Ready, Normal
<1>2. Net(R, n, v.links)
  <2> HIDE DEF v
  <2> QED BY <1>1, RowsNet DEF TwinRows, TwinCount, v
<1>3. PICK f : Propagates(f, R, n, v.links)
  <2> HIDE DEF R, n, v
  <2> QED BY <1>2, PropagatedIs
<1>4. Final(p) \in Probabilities(n)
  <2>1. Rounds \in 0..Rounds
    BY TwinGraphAssumption
  <2>2. Propagated(R, v.links) = f[Rounds] /\ f[Rounds] \in Probabilities(n)
    BY <1>3, <2>1 DEF Propagates
  <2> QED BY <2>2 DEF Final
<1>5. Simulate(p).findings = Findings(R, Final(p)) /\ Simulate(p).overall = Overall(Findings(R, Final(p)))
  BY DEF Simulate, TwinRows, Final
<1>6. Lists(Findings(R, Final(p)), R, Final(p), n)
  <2> HIDE DEF R, n, v
  <2> QED BY <1>2, <1>4, FindingsAre
<1> QED BY <1>2, <1>4, <1>5, <1>6

\* A scenario that is milder throughout and has the same links is no riskier.
LEMMA SimulateGrows ==
  ASSUME NEW p, IsScenario(p), NEW q, IsScenario(q), p.links = q.links, AllMilder(p.surfaces, q.surfaces)
  PROVE  Simulate(p).overall \in Int /\ Simulate(q).overall \in Int
         /\ Simulate(p).overall <= Simulate(q).overall
<1> DEFINE S == Validate(p).surfaces
           T == Validate(q).surfaces
           L == Validate(p).links
           n == TwinCount(p)
           R == TwinRows(p)
           Q == TwinRows(q)
<1>1. p.surfaces \in Seq(Surfaces) /\ q.surfaces \in Seq(Surfaces) /\ p.links \in Seq(Links)
      /\ Len(p.surfaces) = Len(q.surfaces) /\ DOMAIN p.surfaces = 1..Len(p.surfaces)
      /\ DOMAIN q.surfaces = 1..Len(p.surfaces)
      /\ \A i \in 1..Len(p.surfaces) : Milder(p.surfaces[i], q.surfaces[i])
  BY DEF IsScenario, AllMilder
<1>2. /\ S = [i \in 1..Len(p.surfaces) |-> Normalized(p.surfaces[i])]
      /\ T = [i \in 1..Len(p.surfaces) |-> Normalized(q.surfaces[i])]
      /\ L = ValidLinks(Upto(p.links, MaxLinks), p.surfaces)
      /\ Validate(q).links = ValidLinks(Upto(p.links, MaxLinks), q.surfaces)
      /\ Ready(Validate(p)) /\ Ready(Validate(q))
  <2>1. /\ S = [i \in DOMAIN p.surfaces |-> Normalized(p.surfaces[i])]
        /\ L = ValidLinks(Upto(p.links, MaxLinks), p.surfaces) /\ Ready(Validate(p))
    BY ValidateIs
  <2>2. /\ T = [i \in DOMAIN q.surfaces |-> Normalized(q.surfaces[i])]
        /\ Validate(q).links = ValidLinks(Upto(q.links, MaxLinks), q.surfaces) /\ Ready(Validate(q))
    BY ValidateIs
  <2> HIDE DEF S, T, L
  <2> QED BY <1>1, <2>1, <2>2
<1>3. S \in Seq(Surfaces) /\ T \in Seq(Surfaces)
  BY <1>2 DEF Ready, Normal, AllNormal
<1>4. \A i \in 1..Len(p.surfaces) : Milder(S[i], T[i])
  <2> TAKE i \in 1..Len(p.surfaces)
  <2>1. Milder(Normalized(p.surfaces[i]), Normalized(q.surfaces[i]))
    <3>1. p.surfaces[i] \in Surfaces /\ q.surfaces[i] \in Surfaces /\ Milder(p.surfaces[i], q.surfaces[i])
      BY <1>1
    <3> QED BY <3>1, NormalizedMilder
  <2> HIDE DEF S, T
  <2> QED BY <1>2, <2>1
<1>5. Validate(q).links = L
  <2>1. Alike(p.surfaces, q.surfaces)
    BY <1>1 DEF Alike, Milder
  <2>2. \A l : Joins(l, p.surfaces) <=> Joins(l, q.surfaces)
    BY <1>1, <2>1, JoinsAlike
  <2>3. ValidLinks(Upto(p.links, MaxLinks), p.surfaces) = ValidLinks(Upto(p.links, MaxLinks), q.surfaces)
    BY <2>2, Zenon DEF ValidLinks
  <2> HIDE DEF L
  <2> QED BY <1>2, <2>3
<1>6. Len(S) = Len(p.surfaces) /\ Len(T) = Len(p.surfaces)
  <2>1. Len(p.surfaces) \in Nat
    BY <1>1
  <2> HIDE DEF S, T
  <2> QED BY <1>2, <1>3, <2>1
<1>7. Alike(S, T)
  <2> HIDE DEF S, T
  <2> QED BY <1>4, <1>6 DEF Alike, Milder
<1>8. /\ RowCount(T, L) = n /\ RowPlaces(T, L) = RowPlaces(S, L)
      /\ R = Rows(S, L) /\ Q = Rows(T, L) /\ TwinCount(q) = n /\ n = RowCount(S, L)
  <2>1. RowCount(T, L) = RowCount(S, L) /\ RowPlaces(T, L) = RowPlaces(S, L)
    <3> HIDE DEF S, T, L
    <3> QED BY <1>3, <1>7, RowsAlike
  <2> QED BY <1>5, <2>1 DEF TwinRows, TwinCount
<1>9. Placing(R, S, n, RowPlaces(S, L)) /\ Placing(Q, T, n, RowPlaces(S, L))
  <2> HIDE DEF S, T, L, n, R, Q
  <2> QED BY <1>3, <1>8, RowsAre
<1>10. Net(R, n, L) /\ Final(p) \in Probabilities(n) /\ Lists(Simulate(p).findings, R, Final(p), n)
       /\ Simulate(p).overall = Overall(Simulate(p).findings)
  BY SimulateIs
<1>11. Net(Q, n, L) /\ Final(q) \in Probabilities(n) /\ Lists(Simulate(q).findings, Q, Final(q), n)
       /\ Simulate(q).overall = Overall(Simulate(q).findings)
  <2>1. Net(Q, TwinCount(q), Validate(q).links) /\ Final(q) \in Probabilities(TwinCount(q))
        /\ Lists(Simulate(q).findings, Q, Final(q), TwinCount(q))
        /\ Simulate(q).overall = Overall(Simulate(q).findings)
    BY SimulateIs
  <2> HIDE DEF Q, L, n
  <2> QED BY <1>5, <1>8, <2>1
<1>12. Final(p) = Propagated(R, L) /\ Final(q) = Propagated(Q, L)
  BY <1>5 DEF Final
<1> HIDE DEF S, T, L, n, R, Q
<1>13. \A k \in 1..n : Milder(R[k], Q[k])
  <2>1. \A k \in 1..n : R[k] = S[RowPlaces(S, L)[k]] /\ Q[k] = T[RowPlaces(S, L)[k]]
                        /\ RowPlaces(S, L)[k] \in 1..Len(S)
    BY <1>9 DEF Placing
  <2> QED BY <1>4, <1>6, <2>1
<1>14. Same(R, Q, n)
  BY <1>13 DEF Same, Milder
<1>15. NoGreater(Start(R), Start(Q), n)
  <2> SUFFICES ASSUME NEW i \in 1..n PROVE Start(R)[i] <= Start(Q)[i]
    BY DEF NoGreater
  <2>1. Start(R)[i] = Probability(R[i]) /\ Start(Q)[i] = Probability(Q[i])
    BY <1>10, <1>11, StartIs
  <2>2. NormalSurface(R[i]) /\ NormalSurface(Q[i]) /\ Milder(R[i], Q[i])
    BY <1>10, <1>11, <1>13 DEF Net
  <2> QED BY <2>1, <2>2, SurfaceGrows
<1>16. NoGreater(Final(p), Final(q), n)
  BY <1>10, <1>11, <1>12, <1>14, <1>15, PropagatedGrows
<1> QED BY <1>10, <1>11, <1>13, <1>16, OverallGrows

-----------------------------------------------------------------------------
(* One field of one surface *)

Rising == {"criticality", "exposure", "humanPressure"}

\* Changing a field changes its surface for the better or the worse.
LEMMA FieldMilder ==
  ASSUME NEW s \in Surfaces, NEW f \in Fields, NEW v \in Int, NEW w \in Int, v <= w
  PROVE  /\ [s EXCEPT ![f] = v] \in Surfaces /\ [s EXCEPT ![f] = w] \in Surfaces
         /\ f \in Rising => Milder([s EXCEPT ![f] = v], [s EXCEPT ![f] = w])
         /\ f \notin Rising => Milder([s EXCEPT ![f] = w], [s EXCEPT ![f] = v])
         /\ [s EXCEPT ![f] = s[f]] = s /\ s[f] \in Int
         /\ Milder(s, s)
<1>1. /\ s.id \in STRING /\ s.criticality \in Int /\ s.exposure \in Int /\ s.controlStrength \in Int
      /\ s.humanPressure \in Int /\ s.telemetryConfidence \in Int /\ s.signals \in Nat
      /\ s.localMicro \in -50..50
      /\ s = [id |-> s.id, criticality |-> s.criticality, exposure |-> s.exposure,
              controlStrength |-> s.controlStrength, humanPressure |-> s.humanPressure,
              telemetryConfidence |-> s.telemetryConfidence, signals |-> s.signals,
              localMicro |-> s.localMicro]
  BY DEF Surfaces
<1>2. CASE f = "criticality"
  BY <1>1, <1>2 DEF Surfaces, Milder, Rising
<1>3. CASE f = "exposure"
  BY <1>1, <1>3 DEF Surfaces, Milder, Rising
<1>4. CASE f = "controlStrength"
  BY <1>1, <1>4 DEF Surfaces, Milder, Rising
<1>5. CASE f = "humanPressure"
  BY <1>1, <1>5 DEF Surfaces, Milder, Rising
<1>6. CASE f = "telemetryConfidence"
  BY <1>1, <1>6 DEF Surfaces, Milder, Rising
<1> QED BY <1>2, <1>3, <1>4, <1>5, <1>6 DEF Fields

\* A field is an integer, and setting it to what it is changes nothing.
LEMMA FieldItself ==
  ASSUME NEW s \in Surfaces, NEW f \in Fields
  PROVE  s[f] \in Int /\ [s EXCEPT ![f] = s[f]] = s
<1>1. \A v, w \in Int : v <= w => [s EXCEPT ![f] = s[f]] = s /\ s[f] \in Int
  BY FieldMilder
<1>2. 0 \in Int /\ 0 <= 0
  OBVIOUS
<1> QED BY <1>1, <1>2

\* Every id of the packet is found.
LEMMA FindSurfaceIs ==
  ASSUME NEW p, IsScenario(p), NEW id \in Ids(p.surfaces)
  PROVE  FindSurface(p, id) \in 1..Len(p.surfaces) /\ p.surfaces[FindSurface(p, id)].id = id
<1>1. p.surfaces \in Seq(Surfaces) /\ DOMAIN p.surfaces = 1..Len(p.surfaces) /\ Len(p.surfaces) \in Nat
  BY DEF IsScenario
<1> DEFINE having == {i \in 1..Len(p.surfaces) : p.surfaces[i].id = id}
<1>2. having \in SUBSET Nat /\ having # {}
  BY <1>1 DEF Ids
<1>3. PICK m \in having : \A i \in having : m <= i
  <2> HIDE DEF having
  <2> QED BY <1>2, LeastOfSet
<1>4. m \in DOMAIN p.surfaces /\ p.surfaces[m].id = id /\ \A j \in 1..(m - 1) : p.surfaces[j].id # id
  <2>1. \A j \in 1..(m - 1) : j \in 1..Len(p.surfaces) /\ ~(m <= j)
    BY <1>1
  <2> QED BY <1>1, <1>3, <2>1
<1>5. \E i \in DOMAIN p.surfaces : p.surfaces[i].id = id /\ \A j \in 1..(i - 1) : p.surfaces[j].id # id
  BY <1>4
<1> QED BY <1>1, <1>5, Zenon DEF FindSurface

\* The packet q is p with one field of a surface changed.
Varied(p, q, id, f, v) ==
  /\ IsScenario(q) /\ q.links = p.links /\ Len(q.surfaces) = Len(p.surfaces)
  /\ \A i \in 1..Len(p.surfaces) :
       q.surfaces[i] =
         IF i = FindSurface(p, id) THEN [p.surfaces[i] EXCEPT ![f] = v] ELSE p.surfaces[i]

\* Vary changes that field, and keeps a scenario one.
LEMMA VaryIs ==
  ASSUME NEW p, IsScenario(p), NEW id \in Ids(p.surfaces), NEW f \in Fields, NEW v \in Int
  PROVE  Varied(p, Vary(p, id, f, v), id, f, v)
<1> DEFINE m == FindSurface(p, id)
           S == p.surfaces
           T == [S EXCEPT ![m] = [S[m] EXCEPT ![f] = v]]
           q == Vary(p, id, f, v)
<1>1. S \in Seq(Surfaces) /\ DOMAIN S = 1..Len(S) /\ Len(S) \in Nat /\ p.links \in Seq(Links)
      /\ "surfaces" \in DOMAIN p /\ "links" \in DOMAIN p
  BY DEF IsScenario
<1>2. m \in 1..Len(S)
  BY FindSurfaceIs
<1>3. S[m] \in Surfaces /\ [S[m] EXCEPT ![f] = v] \in Surfaces
  <2>1. S[m] \in Surfaces
    BY <1>1, <1>2
  <2> HIDE DEF m, S
  <2> QED BY <2>1, FieldMilder
<1>4. q = [p EXCEPT !.surfaces = T]
  BY DEF Vary
<1> HIDE DEF m, S
<1>5. T \in Seq(Surfaces) /\ Len(T) = Len(S)
      /\ \A i \in 1..Len(S) : T[i] = IF i = m THEN [S[i] EXCEPT ![f] = v] ELSE S[i]
  BY <1>1, <1>2, <1>3
<1> HIDE DEF T
<1>6. q.surfaces = T /\ q.links = p.links /\ DOMAIN q = DOMAIN p
  BY <1>1, <1>4
<1>7. IsScenario(q)
  BY <1>1, <1>5, <1>6 DEF IsScenario
<1> HIDE DEF q
<1>8. Varied(p, q, id, f, v)
  BY <1>5, <1>6, <1>7 DEF m, S, Varied
<1> QED BY <1>8 DEF q

\* Raising a field makes the scenario riskier, or a control less so.
LEMMA VaryGrows ==
  ASSUME NEW p, IsScenario(p), NEW id \in Ids(p.surfaces), NEW f \in Fields,
         NEW v \in Int, NEW w \in Int, v <= w
  PROVE  /\ Simulate(Vary(p, id, f, v)).overall \in Int /\ Simulate(Vary(p, id, f, w)).overall \in Int
         /\ f \in Rising => Simulate(Vary(p, id, f, v)).overall <= Simulate(Vary(p, id, f, w)).overall
         /\ f \notin Rising => Simulate(Vary(p, id, f, w)).overall <= Simulate(Vary(p, id, f, v)).overall
<1> DEFINE q == Vary(p, id, f, v)
           r == Vary(p, id, f, w)
           m == FindSurface(p, id)
           S == p.surfaces
<1>1. S \in Seq(Surfaces)
  BY DEF IsScenario
<1>a. Varied(p, q, id, f, v) /\ Varied(p, r, id, f, w)
  BY VaryIs
<1> HIDE DEF q, r
<1>2. /\ IsScenario(q) /\ q.links = p.links /\ Len(q.surfaces) = Len(S)
      /\ \A i \in 1..Len(S) : q.surfaces[i] = IF i = m THEN [S[i] EXCEPT ![f] = v] ELSE S[i]
  BY <1>a DEF Varied
<1>3. /\ IsScenario(r) /\ r.links = p.links /\ Len(r.surfaces) = Len(S)
      /\ \A i \in 1..Len(S) : r.surfaces[i] = IF i = m THEN [S[i] EXCEPT ![f] = w] ELSE S[i]
  BY <1>a DEF Varied
<1> HIDE DEF m, S
<1>4. \A i \in 1..Len(S) :
        /\ Milder(S[i], S[i])
        /\ f \in Rising => Milder([S[i] EXCEPT ![f] = v], [S[i] EXCEPT ![f] = w])
        /\ f \notin Rising => Milder([S[i] EXCEPT ![f] = w], [S[i] EXCEPT ![f] = v])
  <2> TAKE i \in 1..Len(S)
  <2>1. S[i] \in Surfaces
    BY <1>1
  <2> QED BY <2>1, FieldMilder
<1>5. f \in Rising => AllMilder(q.surfaces, r.surfaces)
  <2> SUFFICES ASSUME f \in Rising, NEW i \in 1..Len(S) PROVE Milder(q.surfaces[i], r.surfaces[i])
    BY <1>2, <1>3 DEF AllMilder
  <2>1. CASE i = m
    BY <1>2, <1>3, <1>4, <2>1
  <2>2. CASE i # m
    BY <1>2, <1>3, <1>4, <2>2
  <2> QED BY <2>1, <2>2
<1>6. f \notin Rising => AllMilder(r.surfaces, q.surfaces)
  <2> SUFFICES ASSUME f \notin Rising, NEW i \in 1..Len(S) PROVE Milder(r.surfaces[i], q.surfaces[i])
    BY <1>2, <1>3 DEF AllMilder
  <2>1. CASE i = m
    BY <1>2, <1>3, <1>4, <2>1
  <2>2. CASE i # m
    BY <1>2, <1>3, <1>4, <2>2
  <2> QED BY <2>1, <2>2
<1> QED BY <1>2, <1>3, <1>5, <1>6, SimulateGrows DEF q, r

\* A field put to its own value changes nothing.
LEMMA VaryNothing ==
  ASSUME NEW p, IsScenario(p), NEW id \in Ids(p.surfaces), NEW f \in Fields
  PROVE  /\ Field(p, id, f) \in Int
         /\ Simulate(Vary(p, id, f, Field(p, id, f))).overall = Simulate(p).overall
         /\ Ready(p) => Field(p, id, f) \in 0..100
<1> DEFINE m == FindSurface(p, id)
           S == p.surfaces
           v == Field(p, id, f)
           q == Vary(p, id, f, v)
<1>1. S \in Seq(Surfaces) /\ DOMAIN S = 1..Len(S) /\ Len(S) \in Nat
  BY DEF IsScenario
<1>2. m \in 1..Len(S) /\ v = S[m][f]
  BY FindSurfaceIs DEF Field
<1>3. S[m] \in Surfaces
  BY <1>1, <1>2
<1>4. v \in Int /\ [S[m] EXCEPT ![f] = v] = S[m]
  <2> HIDE DEF m, S, v
  <2> QED BY <1>2, <1>3, FieldItself
<1>5. /\ IsScenario(q) /\ q.links = p.links /\ Len(q.surfaces) = Len(S)
      /\ \A i \in 1..Len(S) : q.surfaces[i] = IF i = m THEN [S[i] EXCEPT ![f] = v] ELSE S[i]
  <2> HIDE DEF v
  <2>1. Varied(p, q, id, f, v)
    BY <1>4, VaryIs
  <2> HIDE DEF q
  <2> QED BY <2>1 DEF Varied
<1>6. Ready(p) => v \in 0..100
  <2> SUFFICES ASSUME Ready(p) PROVE v \in 0..100
    OBVIOUS
  <2>1. NormalSurface(S[m])
    BY <1>1, <1>2 DEF Ready, Normal, AllNormal
  <2> QED BY <1>2, <2>1 DEF NormalSurface, Fields
<1> HIDE DEF m, S, v, q
<1>7. \A i \in 1..Len(S) : q.surfaces[i] = S[i]
  BY <1>4, <1>5
<1>8. q.surfaces = S
  <2>1. q.surfaces \in Seq(Surfaces)
    BY <1>5 DEF IsScenario
  <2> QED BY <1>1, <1>5, <1>7, <2>1
<1>9. Validate(q).surfaces = Validate(p).surfaces /\ Validate(q).links = Validate(p).links
  <2>1. /\ Validate(q).surfaces = [i \in DOMAIN q.surfaces |-> Normalized(q.surfaces[i])]
        /\ Validate(q).links = ValidLinks(Upto(q.links, MaxLinks), q.surfaces)
    BY <1>5, ValidateIs
  <2>2. /\ Validate(p).surfaces = [i \in DOMAIN p.surfaces |-> Normalized(p.surfaces[i])]
        /\ Validate(p).links = ValidLinks(Upto(p.links, MaxLinks), p.surfaces)
    BY ValidateIs
  <2> QED BY <1>5, <1>8, <2>1, <2>2, Zenon DEF S
<1>10. Simulate(q).overall = Simulate(p).overall
  <2>1. TwinRows(q) = TwinRows(p) /\ Final(q) = Final(p)
    BY <1>9 DEF TwinRows, Final
  <2>2. Simulate(q).findings = Simulate(p).findings
    BY <1>5, <2>1, SimulateIs
  <2> QED BY <1>5, <2>2, SimulateIs
<1> QED BY <1>4, <1>6, <1>10 DEF v, q

-----------------------------------------------------------------------------
(* Sequences one after the other *)

Quotient(m, w) == ((m - 1) \div w) + 1

Remainder(m, w) == ((m - 1) % w) + 1

\* Every item of a chain is an item of one of its rows.
LEMMA ChainedIs ==
  ASSUME NEW rows, IsSequence(rows), NEW w \in Nat \ {0}
  PROVE  /\ IsSequence(Chained(rows, w)) /\ DOMAIN Chained(rows, w) = 1..(Len(rows) * w)
         /\ Len(Chained(rows, w)) = Len(rows) * w /\ Len(rows) * w \in Nat
         /\ \A m \in 1..(Len(rows) * w) :
              /\ Quotient(m, w) \in 1..Len(rows) /\ Remainder(m, w) \in 1..w
              /\ Chained(rows, w)[m] = rows[Quotient(m, w)][Remainder(m, w)]
<1> DEFINE n == Len(rows)
           c == Chained(rows, w)
           all == n * w
<1>1. n \in Nat /\ w \in Nat /\ w > 0
  BY DEF IsSequence
<1>2. all \in Nat
  <2> HIDE DEF n
  <2> QED BY <1>1
<1>3. c = [m \in 1..all |-> rows[Quotient(m, w)][Remainder(m, w)]]
  BY DEF Chained, Quotient, Remainder
<1> HIDE DEF n, c
<1>4. ASSUME NEW m \in 1..all PROVE Quotient(m, w) \in 1..n /\ Remainder(m, w) \in 1..w
  <2> DEFINE k == m - 1
             q == k \div w
             r == k % w
  <2>1. k \in Nat /\ k < all /\ 0 <= k /\ k <= k
    BY <1>2
  <2> HIDE DEF k
  <2>2. q \in Int /\ r \in Int /\ k = w * q + r /\ 0 <= r /\ r < w
    BY <1>1, <2>1
  <2>3. 0 <= q
    BY <1>1, <2>1, DivGrows
  <2> HIDE DEF q, r
  <2>4. q < n
    <3> SUFFICES ASSUME n <= q PROVE FALSE
      BY <1>1, <2>2
    <3>1. n * w <= q * w /\ n * w \in Int /\ q * w \in Int
      BY <1>1, <2>2, TimesGrows
    <3>2. q * w = w * q
      BY <1>1, <2>2
    <3> HIDE DEF all
    <3>3. all = n * w
      BY DEF all
    <3> QED BY <1>2, <2>1, <2>2, <3>1, <3>2, <3>3
  <2>5. Quotient(m, w) = q + 1 /\ Remainder(m, w) = r + 1
    BY DEF Quotient, Remainder, q, r, k
  <2> QED BY <1>1, <2>2, <2>3, <2>4, <2>5
<1> HIDE DEF all
<1>5. c = [m \in 1..all |-> c[m]]
  BY <1>3
<1>6. IsSequence(c) /\ DOMAIN c = 1..all /\ Len(c) = all
  BY <1>2, <1>5, SegmentIsSequence
<1>7. \A m \in 1..all : c[m] = rows[Quotient(m, w)][Remainder(m, w)]
  BY <1>3
<1> QED BY <1>2, <1>4, <1>6, <1>7 DEF c, all, n

-----------------------------------------------------------------------------
(* Hotspots *)

\* The ids of what a simulation finds are those of the surfaces.
LEMMA FoundIds ==
  ASSUME NEW p, IsScenario(p)
  PROVE  /\ IsSequence(Simulate(p).findings)
         /\ \A k \in DOMAIN Simulate(p).findings : Simulate(p).findings[k].id \in Ids(p.surfaces)
<1> DEFINE F == Simulate(p).findings
           R == TwinRows(p)
           n == TwinCount(p)
           v == Validate(p)
           h == RowPlaces(v.surfaces, v.links)
<1>1. Lists(F, R, Final(p), n)
  BY SimulateIs
<1>2. IsSequence(F) /\ DOMAIN F = 1..n
  <2> HIDE DEF F, R, n
  <2> QED BY <1>1 DEF Lists
<1>3. v.surfaces \in Seq(Surfaces) /\ Alike(v.surfaces, p.surfaces)
  BY ValidateIs DEF Ready, Normal, AllNormal
<1>4. Placing(R, v.surfaces, n, h)
  <2> HIDE DEF v
  <2> QED BY <1>3, RowsAre DEF v, TwinRows, TwinCount
<1>5. p.surfaces \in Seq(Surfaces)
  BY DEF IsScenario
<1> HIDE DEF F, R, n, v, h
<1>6. PICK g : Permutes(g, F, [i \in 1..n |-> Finding(R, Final(p), i)], n)
  BY <1>1 DEF Lists
<1>7. ASSUME NEW k \in 1..n PROVE F[k].id \in Ids(p.surfaces)
  <2>1. g[k] \in 1..n /\ F[k] = Finding(R, Final(p), g[k])
    <3>1. g[k] \in 1..n /\ F[k] = [i \in 1..n |-> Finding(R, Final(p), i)][g[k]]
      BY <1>6 DEF Permutes
    <3> QED BY <3>1
  <2>2. F[k].id = R[g[k]].id
    BY <2>1 DEF Finding
  <2>3. h[g[k]] \in 1..Len(v.surfaces) /\ R[g[k]] = v.surfaces[h[g[k]]]
    BY <1>4, <2>1 DEF Placing
  <2>4. v.surfaces[h[g[k]]].id \in Ids(v.surfaces)
    BY <1>3, <2>3 DEF Ids
  <2>5. Ids(v.surfaces) = Ids(p.surfaces)
    BY <1>3, <1>5, JoinsAlike
  <2> QED BY <2>2, <2>3, <2>4, <2>5
<1> QED BY <1>2, <1>7 DEF F

\* Hotspots are ids of the packet, six at most.
LEMMA HotspotsKnown ==
  ASSUME NEW p, IsScenario(p)
  PROVE  /\ IsSequence(HotspotIds(Simulate(p))) /\ Len(HotspotIds(Simulate(p))) <= 6
         /\ \A k \in 1..Len(HotspotIds(Simulate(p))) : HotspotIds(Simulate(p))[k] \in Ids(p.surfaces)
<1> DEFINE F == Simulate(p).findings
           u == [i \in DOMAIN F |-> F[i].id]
           T == Ids(p.surfaces)
           H == HotspotIds(Simulate(p))
<1>1. IsSequence(F) /\ \A k \in DOMAIN F : F[k].id \in T
  BY FoundIds
<1>2. HotspotLimit \in 1..6
  BY ResearchAssumption
<1>3. H = Upto(Once(u), HotspotLimit)
  BY DEF HotspotIds
<1> HIDE DEF F, T, H
<1>4. DOMAIN F = 1..Len(F) /\ Len(F) \in Nat
  BY <1>1 DEF IsSequence
<1>5. u \in Seq(T)
  <2>1. u = [i \in 1..Len(F) |-> u[i]] /\ \A i \in 1..Len(F) : u[i] \in T
    BY <1>1, <1>4
  <2> HIDE DEF u
  <2> QED BY <1>4, <2>1
<1> HIDE DEF u
<1>6. Once(u) \in Seq(T)
  BY <1>5, OnceProperties
<1>7. H \in Seq(T) /\ Len(H) <= HotspotLimit
  BY <1>2, <1>3, <1>6, UptoProperties
<1>8. IsSequence(H)
  <2>1. H = [k \in 1..Len(H) |-> H[k]] /\ Len(H) \in Nat
    BY <1>7
  <2> QED BY <2>1, SegmentIsSequence
<1>9. Len(H) <= 6 /\ \A k \in 1..Len(H) : H[k] \in T
  BY <1>2, <1>7
<1> QED BY <1>8, <1>9 DEF H, T

\* What the bounded change of a field does is in one direction.
LEMMA SensitivitiesAre ==
  ASSUME NEW p, Ready(p), NEW H, IsSequence(H), \A k \in 1..Len(H) : H[k] \in Ids(p.surfaces),
         NEW x \in Sensitivities(p, H)
  PROVE  IF x.field \in {"controlStrength", "telemetryConfidence"} THEN x.high <= x.low ELSE x.low <= x.high
<1> DEFINE R(id, f, v) == Simulate(Vary(p, id, f, Clamp(v, 100))).overall
           low(id, f) == R(id, f, Field(p, id, f) - Delta)
           high(id, f) == R(id, f, Field(p, id, f) + Delta)
<1>1. PICK id \in ToSet(H), f \in Fields : x.low = low(id, f) /\ x.high = high(id, f) /\ x.field = f
  <2>1. \E id \in ToSet(H), f \in Fields :
          x = [id |-> id, field |-> f, low |-> low(id, f), high |-> high(id, f),
               influence |-> ((IF high(id, f) > low(id, f) THEN high(id, f) - low(id, f)
                               ELSE low(id, f) - high(id, f)) * 100) \div (2 * Delta)]
    BY DEF Sensitivities
  <2> HIDE DEF low, high
  <2> QED BY <2>1
<1>2. IsScenario(p)
  BY DEF Ready, Normal
<1>3. id \in Ids(p.surfaces)
  <2>1. DOMAIN H = 1..Len(H)
    BY DEF IsSequence
  <2> QED BY <2>1 DEF ToSet
<1> DEFINE now == Field(p, id, f)
           v == Clamp(now - Delta, 100)
           w == Clamp(now + Delta, 100)
<1>4. now \in Int
  BY <1>2, <1>3, VaryNothing
<1>5. v \in Int /\ w \in Int /\ v <= w
  <2>1. Delta \in Int /\ Delta >= 0
    BY ResearchAssumption
  <2>2. now - Delta \in Int /\ now + Delta \in Int /\ now - Delta <= now + Delta
    BY <1>4, <2>1
  <2>3. v <= w
    BY <2>2, ClampGrows
  <2>4. 100 \in Nat
    OBVIOUS
  <2>5. v \in 0..100 /\ w \in 0..100
    BY <2>2, <2>4, ClampIs
  <2> HIDE DEF v, w
  <2> QED BY <2>3, <2>5
<1>6. x.low = Simulate(Vary(p, id, f, v)).overall /\ x.high = Simulate(Vary(p, id, f, w)).overall
  BY <1>1
<1> HIDE DEF v, w, now
<1>7. /\ f \in Rising => x.low <= x.high
      /\ f \notin Rising => x.high <= x.low
  BY <1>2, <1>3, <1>5, <1>6, VaryGrows
<1>8. f \in Rising <=> f \notin {"controlStrength", "telemetryConfidence"}
  BY DEF Rising, Fields
<1> QED BY <1>1, <1>7, <1>8

-----------------------------------------------------------------------------
(* Candidates *)

Costed(p) == "costs" \in DOMAIN p /\ \A x \in DOMAIN p.costs : p.costs[x] \in Int

\* What the frontier is made of.
Sound(c, overall) ==
  c.cost \in Nat /\ c.reduction \in Nat /\ c.residual <= overall

ActionsAre == \A a \in {Actions[k] : k \in 1..4} :
  /\ a.field \in Fields /\ a.step \in Int /\ a.cost \in Int
  /\ a.field \in Rising => a.step <= 0
  /\ a.field \notin Rising => 0 <= a.step

\* The four actions lower a rising field or raise another.
LEMMA ActionsHelp == ActionsAre /\ DOMAIN Actions = 1..4
<1>1. Actions[1] = [field |-> "controlStrength", step |-> 15, cost |-> 20]
      /\ Actions[2] = [field |-> "exposure", step |-> -15, cost |-> 30]
      /\ Actions[3] = [field |-> "telemetryConfidence", step |-> 15, cost |-> 15]
      /\ Actions[4] = [field |-> "humanPressure", step |-> -15, cost |-> 25]
      /\ DOMAIN Actions = 1..4
  BY DEF Actions
<1>2. \A k \in 1..4 : /\ Actions[k].field \in Fields /\ Actions[k].step \in Int /\ Actions[k].cost \in Int
                      /\ Actions[k].field \in Rising => Actions[k].step <= 0
                      /\ Actions[k].field \notin Rising => 0 <= Actions[k].step
  <2> TAKE k \in 1..4
  <2>1. CASE k = 1
    BY <1>1, <2>1 DEF Fields, Rising
  <2>2. CASE k = 2
    BY <1>1, <2>2 DEF Fields, Rising
  <2>3. CASE k = 3
    BY <1>1, <2>3 DEF Fields, Rising
  <2>4. CASE k = 4
    BY <1>1, <2>4 DEF Fields, Rising
  <2> QED BY <2>1, <2>2, <2>3, <2>4
<1> HIDE DEF Actions
<1> QED BY <1>1, <1>2 DEF ActionsAre

\* No action makes the scenario riskier.
LEMMA ActionHelps ==
  ASSUME NEW p, Ready(p), NEW id \in Ids(p.surfaces), NEW k \in 1..4
  PROVE  /\ Simulate(Vary(p, id, Actions[k].field, After(p, id, Actions[k]))).overall \in Int
         /\ Simulate(Vary(p, id, Actions[k].field, After(p, id, Actions[k]))).overall <= Simulate(p).overall
         /\ Simulate(p).overall \in Int
<1> DEFINE a == Actions[k]
           f == a.field
           v == Field(p, id, f)
           w == After(p, id, a)
<1>1. f \in Fields /\ a.step \in Int /\ (f \in Rising => a.step <= 0) /\ (f \notin Rising => 0 <= a.step)
  BY ActionsHelp DEF ActionsAre
<1> HIDE DEF a
<1>2. IsScenario(p)
  BY DEF Ready, Normal
<1>3. v \in 0..100 /\ v \in Int
  BY <1>1, <1>2, VaryNothing
<1>4. w = Clamp(v + a.step, 100)
  BY DEF After
<1> HIDE DEF f
<1>5. Simulate(p).overall = Simulate(Vary(p, id, f, v)).overall
  BY <1>1, <1>2, VaryNothing
<1> HIDE DEF v, w
<1>6. v + a.step \in Int /\ Clamp(v, 100) = v /\ w \in 0..100 /\ w \in Int
  <2>1. v + a.step \in Int
    BY <1>1, <1>3
  <2>2. w \in 0..100
    BY <1>4, <2>1, ClampIs
  <2>3. Clamp(v, 100) = v
    BY <1>3 DEF Clamp, Least
  <2> QED BY <2>1, <2>2, <2>3
<1>7. (f \in Rising => w <= v) /\ (f \notin Rising => v <= w)
  <2>1. f \in Rising => v + a.step <= v
    BY <1>1, <1>3
  <2>2. f \notin Rising => v <= v + a.step
    BY <1>1, <1>3
  <2>3. f \in Rising => Clamp(v + a.step, 100) <= Clamp(v, 100)
    BY <1>3, <1>6, <2>1, ClampGrows
  <2>4. f \notin Rising => Clamp(v, 100) <= Clamp(v + a.step, 100)
    BY <1>3, <1>6, <2>2, ClampGrows
  <2> QED BY <1>4, <1>6, <2>3, <2>4
<1>8. CASE f \in Rising
  BY <1>1, <1>2, <1>3, <1>5, <1>6, <1>7, <1>8, VaryGrows DEF f, a, w
<1>9. CASE f \notin Rising
  BY <1>1, <1>2, <1>3, <1>5, <1>6, <1>7, <1>9, VaryGrows DEF f, a, w
<1> QED BY <1>8, <1>9

\* Every candidate is priced, and takes nothing off the overall risk that was not there:
\* the packet it varies is milder than the packet.
LEMMA CandidatesAre ==
  ASSUME NEW p, Ready(p), Costed(p), NEW H, IsSequence(H), Len(H) <= 6,
         \A k \in 1..Len(H) : H[k] \in Ids(p.surfaces)
  PROVE  LET c == Candidates(p, Simulate(p).overall, H) IN
         /\ IsSequence(c) /\ Len(c) <= 24
         /\ \A m \in 1..Len(c) : Sound(c[m], Simulate(p).overall)
<1> DEFINE b == Simulate(p).overall
           E(id, a) == [id |-> id, field |-> a.field, cost |-> Cost(p, id, a),
                        residual |-> Simulate(Vary(p, id, a.field, After(p, id, a))).overall,
                        reduction |-> IF b > Simulate(Vary(p, id, a.field, After(p, id, a))).overall
                                      THEN b - Simulate(Vary(p, id, a.field, After(p, id, a))).overall ELSE 0]
           rows == [h \in DOMAIN H |-> [k \in DOMAIN Actions |-> [id |-> H[h], action |-> Actions[k]]]]
           tries == Chained(rows, 4)
           places == {m \in DOMAIN tries : After(p, tries[m].id, tries[m].action)
                                             # Field(p, tries[m].id, tries[m].action.field)}
           changing == Items(tries, places)
           c == Candidates(p, b, H)
<1>1. c = [m \in DOMAIN changing |-> E(changing[m].id, changing[m].action)]
  BY DEF Candidates
<1>2. DOMAIN H = 1..Len(H) /\ Len(H) \in Nat /\ DOMAIN Actions = 1..4
  BY ActionsHelp DEF IsSequence
<1>3. IsSequence(rows) /\ Len(rows) = Len(H)
      /\ \A h \in 1..Len(H), k \in 1..4 : rows[h][k] = [id |-> H[h], action |-> Actions[k]]
  <2>1. rows = [h \in 1..Len(H) |-> rows[h]]
    BY <1>2
  <2>2. \A h \in 1..Len(H), k \in 1..4 : rows[h][k] = [id |-> H[h], action |-> Actions[k]]
    BY <1>2
  <2> HIDE DEF rows
  <2> QED BY <1>2, <2>1, <2>2, SegmentIsSequence
<1> HIDE DEF rows
<1>4. /\ IsSequence(tries) /\ DOMAIN tries = 1..(Len(H) * 4) /\ Len(H) * 4 \in Nat
      /\ \A m \in 1..(Len(H) * 4) :
           /\ Quotient(m, 4) \in 1..Len(H) /\ Remainder(m, 4) \in 1..4
           /\ tries[m] = rows[Quotient(m, 4)][Remainder(m, 4)]
  <2>1. 4 \in Nat \ {0}
    OBVIOUS
  <2>2. /\ IsSequence(Chained(rows, 4)) /\ DOMAIN Chained(rows, 4) = 1..(Len(rows) * 4)
        /\ Len(rows) * 4 \in Nat
        /\ \A m \in 1..(Len(rows) * 4) :
              /\ Quotient(m, 4) \in 1..Len(rows) /\ Remainder(m, 4) \in 1..4
              /\ Chained(rows, 4)[m] = rows[Quotient(m, 4)][Remainder(m, 4)]
    <3> DEFINE w == 4
    <3> HIDE DEF w
    <3>1. w \in Nat \ {0}
      BY DEF w
    <3>2. /\ IsSequence(Chained(rows, w)) /\ DOMAIN Chained(rows, w) = 1..(Len(rows) * w)
          /\ Len(rows) * w \in Nat
          /\ \A m \in 1..(Len(rows) * w) :
                /\ Quotient(m, w) \in 1..Len(rows) /\ Remainder(m, w) \in 1..w
                /\ Chained(rows, w)[m] = rows[Quotient(m, w)][Remainder(m, w)]
      BY <1>3, <3>1, ChainedIs
    <3> QED BY <3>2, Zenon DEF w
  <2> QED BY <1>3, <2>2, Zenon
<1> HIDE DEF tries
<1>5. places \in SUBSET DOMAIN tries
  OBVIOUS
<1> HIDE DEF places
<1>6. PICK g : Picks(g, changing, tries, places)
  BY <1>4, <1>5, ItemsPicked
<1> DEFINE n == Cardinality(places)
<1>7. n \in Nat /\ changing = [m \in 1..n |-> tries[g[m]]] /\ \A m \in 1..n : g[m] \in places
  BY <1>6 DEF Picks
<1>8. n <= 24
  <2>1. n <= Cardinality(1..(Len(H) * 4)) /\ IsFiniteSet(1..(Len(H) * 4))
    BY <1>4, <1>5, IntervalSize, FS_Subset
  <2>2. Cardinality(1..(Len(H) * 4)) = Len(H) * 4
    BY <1>4, IntervalSize
  <2> HIDE DEF n
  <2> QED BY <1>2, <1>7, <2>1, <2>2
<1> HIDE DEF n, changing, E
<1>9. DOMAIN changing = 1..n
  BY <1>7
<1>10. c = [m \in 1..n |-> c[m]]
  BY <1>1, <1>9
<1>11. IsSequence(c) /\ Len(c) = n
  <2> HIDE DEF c
  <2> QED BY <1>7, <1>10, SegmentIsSequence
<1>12. ASSUME NEW m \in 1..n PROVE Sound(c[m], b)
  <2> DEFINE i == Quotient(g[m], 4)
             k == Remainder(g[m], 4)
             id == H[i]
  <2>1. g[m] \in 1..(Len(H) * 4)
    BY <1>4, <1>5, <1>7
  <2>2. i \in 1..Len(H) /\ k \in 1..4 /\ tries[g[m]] = rows[i][k]
    BY <1>4, <2>1
  <2> HIDE DEF i, k
  <2>3. changing[m].id = id /\ changing[m].action = Actions[k]
    <3>1. changing[m] = tries[g[m]]
      BY <1>7
    <3>2. rows[i][k] = [id |-> id, action |-> Actions[k]]
      BY <1>3, <2>2
    <3> HIDE DEF id
    <3> QED BY <2>2, <3>1, <3>2
  <2>4. c[m] = E(id, Actions[k]) /\ id \in Ids(p.surfaces)
    BY <1>1, <1>9, <2>2, <2>3
  <2> HIDE DEF id
  <2> DEFINE res == Simulate(Vary(p, id, Actions[k].field, After(p, id, Actions[k]))).overall
  <2>5. res \in Int /\ b \in Int /\ res <= b
    BY <2>2, <2>4, ActionHelps
  <2>6. Cost(p, id, Actions[k]) \in Nat
    <3> DEFINE given == IF <<id, Actions[k].field>> \in DOMAIN p.costs
                        THEN p.costs[<<id, Actions[k].field>>] ELSE Actions[k].cost
    <3>1. Actions[k].cost \in Int
      BY <2>2, ActionsHelp DEF ActionsAre
    <3>2. given \in Int
      BY <3>1 DEF Costed
    <3>3. Cost(p, id, Actions[k]) = IF given < 1 THEN 1 ELSE given
      BY DEF Cost
    <3> HIDE DEF given
    <3> QED BY <3>2, <3>3
  <2>7. /\ c[m].cost = Cost(p, id, Actions[k]) /\ c[m].residual = res
        /\ c[m].reduction = IF b > res THEN b - res ELSE 0
    <3> HIDE DEF b
    <3> QED BY <2>4 DEF E, b
  <2> HIDE DEF c, b, res
  <2> QED BY <2>5, <2>6, <2>7 DEF Sound
<1> QED BY <1>8, <1>11, <1>12 DEF c, b

-----------------------------------------------------------------------------
(* The frontier *)

\* Candidates with a price and an effect.
Priced(c) ==
  IsSequence(c) /\ \A m \in 1..Len(c) : c[m].cost \in Int /\ c[m].reduction \in Int

Effective(a, b) == a.reduction > b.reduction \/ (a.reduction = b.reduction /\ a.cost < b.cost)

\* The most effective first: the same candidates.
LEMMA EffectiveFirst ==
  ASSUME NEW c, Priced(c)
  PROVE  IsSequence(Sorted(c, Effective)) /\ Rearranges(Sorted(c, Effective), c)
<1> DEFINE D == DOMAIN c
           t == Sorted(c, Effective)
           first == {x \in D \X D : Effective(c[x[1]], c[x[2]])}
           before == [i \in D |-> {j \in D : Effective(c[j], c[i]) \/ (~Effective(c[i], c[j]) /\ j <= i)}]
<1>1. D = 1..Len(c) /\ Len(c) \in Nat /\ \A i \in D : c[i].cost \in Int /\ c[i].reduction \in Int
  BY DEF Priced, IsSequence
<1>2. t = [k \in D |-> c[CHOOSE i \in D :
             Cardinality({j \in D : Effective(c[j], c[i]) \/ (~Effective(c[i], c[j]) /\ j <= i)}) = k]]
  BY DEF Sorted
<1> HIDE DEF t, D
<1>3. \A i, j \in D : <<i, j>> \in first <=> Effective(c[i], c[j])
  OBVIOUS
<1>4. /\ before \in [D -> SUBSET D]
      /\ \A i, j \in D : j \in before[i] <=> Effective(c[j], c[i]) \/ (~Effective(c[i], c[j]) /\ j <= i)
      /\ \A i \in D : before[i] = {j \in D : Effective(c[j], c[i]) \/ (~Effective(c[i], c[j]) /\ j <= i)}
  OBVIOUS
<1> HIDE DEF first, before
<1>5. WeakOrder(first, D)
  <2>1. \A i, j \in D : Effective(c[i], c[j]) => ~Effective(c[j], c[i])
    BY <1>1 DEF Effective
  <2>2. \A i, j, k \in D : ~Effective(c[i], c[j]) /\ ~Effective(c[j], c[k]) => ~Effective(c[i], c[k])
    <3> TAKE i, j, k \in D
    <3> DEFINE ri == c[i].reduction
               rj == c[j].reduction
               rk == c[k].reduction
               wi == c[i].cost
               wj == c[j].cost
               wk == c[k].cost
    <3>1. ri \in Int /\ rj \in Int /\ rk \in Int /\ wi \in Int /\ wj \in Int /\ wk \in Int
      BY <1>1
    <3>2. /\ Effective(c[i], c[j]) <=> ri > rj \/ (ri = rj /\ wi < wj)
          /\ Effective(c[j], c[k]) <=> rj > rk \/ (rj = rk /\ wj < wk)
          /\ Effective(c[i], c[k]) <=> ri > rk \/ (ri = rk /\ wi < wk)
      BY DEF Effective
    <3> HIDE DEF ri, rj, rk, wi, wj, wk
    <3> QED BY <3>1, <3>2
  <2> QED BY <1>3, <2>1, <2>2 DEF WeakOrder
<1>6. ASSUME NEW k \in D, \E i \in D : Cardinality(before[i]) = k
      PROVE \E i \in D : Cardinality(before[i]) = k /\ t[k] = c[i]
  <2> DEFINE Sized(i) == Cardinality({j \in D : Effective(c[j], c[i]) \/ (~Effective(c[i], c[j]) /\ j <= i)}) = k
             p == CHOOSE i \in D : Sized(i)
  <2>1. t[k] = c[p]
    BY <1>2
  <2>2. \A i \in D : Sized(i) <=> Cardinality(before[i]) = k
    BY <1>4
  <2>3. \E i \in D : Sized(i)
    <3> HIDE DEF Sized
    <3> QED BY <1>6, <2>2
  <2>4. p \in D /\ Sized(p)
    <3> HIDE DEF Sized
    <3> QED BY <2>3
  <2> HIDE DEF p, Sized
  <2> QED BY <2>1, <2>2, <2>4
<1>7. t = [k \in D |-> t[k]]
  BY <1>2
<1>8. \A i, j \in D : j \in before[i] <=> <<j, i>> \in first \/ (<<i, j>> \notin first /\ j <= i)
  BY <1>3, <1>4
<1>9. Arranges(t, c, first, before)
  BY <1>4, <1>5, <1>6, <1>7, <1>8 DEF Arranges, D
<1> DEFINE T == ToSet(c)
<1>10. c \in Seq(T)
  BY DEF Priced, IsSequence
<1> HIDE DEF T
<1>11. t \in Seq(T) /\ Rearranges(t, c)
  BY <1>9, <1>10, ArrangedProperties
<1>12. IsSequence(t)
  <2>1. t = [k \in 1..Len(t) |-> t[k]] /\ Len(t) \in Nat
    BY <1>11
  <2> QED BY <2>1, SegmentIsSequence
<1> QED BY <1>11, <1>12 DEF t

Cheaper(a, b) == a.cost < b.cost

\* The cheapest first.
LEMMA CheapestFirst ==
  ASSUME NEW c, Priced(c)
  PROVE  /\ IsSequence(Sorted(c, Cheaper)) /\ Rearranges(Sorted(c, Cheaper), c)
         /\ \A k, l \in DOMAIN c : k < l => Sorted(c, Cheaper)[k].cost <= Sorted(c, Cheaper)[l].cost
<1> DEFINE D == DOMAIN c
           t == Sorted(c, Cheaper)
           key == [i \in D |-> 0 - c[i].cost]
           before == [i \in D |-> {j \in D : Cheaper(c[j], c[i]) \/ (~Cheaper(c[i], c[j]) /\ j <= i)}]
<1>1. D = 1..Len(c) /\ Len(c) \in Nat /\ \A i \in D : c[i].cost \in Int
  BY DEF Priced, IsSequence
<1>2. t = [k \in D |-> c[CHOOSE i \in D :
             Cardinality({j \in D : Cheaper(c[j], c[i]) \/ (~Cheaper(c[i], c[j]) /\ j <= i)}) = k]]
  BY DEF Sorted
<1> HIDE DEF t, D
<1>3. /\ before \in [D -> SUBSET D]
      /\ \A i, j \in D : j \in before[i] <=> Cheaper(c[j], c[i]) \/ (~Cheaper(c[i], c[j]) /\ j <= i)
      /\ \A i \in D : before[i] = {j \in D : Cheaper(c[j], c[i]) \/ (~Cheaper(c[i], c[j]) /\ j <= i)}
  OBVIOUS
<1>4. \A i \in D : key[i] = 0 - c[i].cost
  OBVIOUS
<1> HIDE DEF before, key
<1>5. /\ \A i \in D : key[i] \in Int
      /\ \A i, j \in D : Cheaper(c[i], c[j]) <=> key[i] > key[j]
      /\ \A i, j \in D : key[i] >= key[j] => c[i].cost <= c[j].cost
  BY <1>1, <1>4 DEF Cheaper
<1>6. ASSUME NEW k \in D, \E i \in D : Cardinality(before[i]) = k
      PROVE \E i \in D : Cardinality(before[i]) = k /\ t[k] = c[i]
  <2> DEFINE Sized(i) == Cardinality({j \in D : Cheaper(c[j], c[i]) \/ (~Cheaper(c[i], c[j]) /\ j <= i)}) = k
             p == CHOOSE i \in D : Sized(i)
  <2>1. t[k] = c[p]
    BY <1>2
  <2>2. \A i \in D : Sized(i) <=> Cardinality(before[i]) = k
    BY <1>3
  <2>3. \E i \in D : Sized(i)
    <3> HIDE DEF Sized
    <3> QED BY <1>6, <2>2
  <2>4. p \in D /\ Sized(p)
    <3> HIDE DEF Sized
    <3> QED BY <2>3
  <2> HIDE DEF p, Sized
  <2> QED BY <2>1, <2>2, <2>4
<1>7. t = [k \in D |-> t[k]]
  BY <1>2
<1>8. \A i, j \in D : j \in before[i] <=> key[j] > key[i] \/ (~(key[i] > key[j]) /\ j <= i)
  BY <1>3, <1>5
<1>9. Sorts(t, c, key, before)
  BY <1>3, <1>5, <1>6, <1>7, <1>8 DEF Sorts, D
<1> DEFINE T == ToSet(c)
<1>10. c \in Seq(T)
  BY DEF Priced, IsSequence
<1> HIDE DEF T
<1>11. /\ t \in Seq(T) /\ Rearranges(t, c)
       /\ \A k, l \in DOMAIN t : k < l => \E i, j \in DOMAIN c : t[k] = c[i] /\ t[l] = c[j] /\ key[i] >= key[j]
  BY <1>9, <1>10, SortedProperties
<1>12. IsSequence(t)
  <2>1. t = [k \in 1..Len(t) |-> t[k]] /\ Len(t) \in Nat
    BY <1>11
  <2> QED BY <2>1, SegmentIsSequence
<1>13. DOMAIN t = D
  BY <1>11 DEF Rearranges, D
<1>14. \A k, l \in D : k < l => t[k].cost <= t[l].cost
  <2> SUFFICES ASSUME NEW k \in D, NEW l \in D, k < l PROVE t[k].cost <= t[l].cost
    OBVIOUS
  <2>1. PICK i \in D, j \in D : t[k] = c[i] /\ t[l] = c[j] /\ key[i] >= key[j]
    BY <1>11, <1>13 DEF D
  <2> QED BY <1>5, <2>1
<1> QED BY <1>11, <1>12, <1>14 DEF t, D

\* For whatever a candidate costs, one that nothing dominates does as much.
LEMMA SomeUndominated ==
  ASSUME NEW c, Priced(c), NEW m \in 1..Len(c)
  PROVE  \E i \in 1..Len(c) :
           /\ c[i].cost <= c[m].cost /\ c[i].reduction >= c[m].reduction
           /\ \A j \in 1..Len(c) : ~Dominates(c[j], c[i])
<1> DEFINE D == 1..Len(c)
           S == {i \in D : c[i].cost <= c[m].cost /\ c[i].reduction >= c[m].reduction}
           v == [i \in D |-> c[i].reduction - c[i].cost]
<1>1. Len(c) \in Nat /\ \A i \in D : c[i].cost \in Int /\ c[i].reduction \in Int
  BY DEF Priced, IsSequence
<1>2. IsFiniteSet(S)
  <2>1. IsFiniteSet(D) /\ S \subseteq D
    BY <1>1, IntervalSize
  <2> QED BY <2>1, FS_Subset
<1>3. m \in S
  BY <1>1
<1>4. \A i \in D : v[i] = c[i].reduction - c[i].cost
  OBVIOUS
<1> HIDE DEF v, D
<1>5. \A i \in S : v[i] \in Int
  BY <1>1, <1>4
<1>6. PICK i \in S : \A j \in S : v[j] <= v[i]
  <2> HIDE DEF S
  <2> QED BY <1>2, <1>3, <1>5, GreatestOfSet
<1>7. ASSUME NEW j \in D, Dominates(c[j], c[i]) PROVE FALSE
  <2>1. i \in D /\ m \in D
    BY <1>3, <1>6
  <2> DEFINE ci == c[i].cost
             cj == c[j].cost
             cm == c[m].cost
             ri == c[i].reduction
             rj == c[j].reduction
             rm == c[m].reduction
  <2>2. ci \in Int /\ cj \in Int /\ cm \in Int /\ ri \in Int /\ rj \in Int /\ rm \in Int
    BY <1>1, <2>1
  <2>3. cj <= ci /\ rj >= ri /\ (cj < ci \/ rj > ri)
    BY <1>7 DEF Dominates
  <2>4. ci <= cm /\ ri >= rm
    BY <1>6
  <2>5. cj <= cm /\ rj >= rm
    <3> HIDE DEF ci, cj, cm, ri, rj, rm
    <3> QED BY <2>2, <2>3, <2>4
  <2>6. j \in S
    BY <2>5
  <2>7. rj - cj <= ri - ci
    BY <1>4, <1>6, <2>1, <2>6
  <2> HIDE DEF ci, cj, cm, ri, rj, rm
  <2> QED BY <2>2, <2>3, <2>7
<1>8. i \in D /\ c[i].cost <= c[m].cost /\ c[i].reduction >= c[m].reduction
  BY <1>6
<1> QED BY <1>7, <1>8 DEF D

\* What FrontierAnswersBudgets says of options and the candidates they are from.
Answers(options, c) ==
  /\ \A o \in ToSet(options), x \in ToSet(c) : ~(x.cost < o.cost /\ x.reduction > o.reduction)
  /\ \A x \in ToSet(c) : \E o \in ToSet(options) : o.cost <= x.cost /\ o.reduction >= x.reduction
  /\ \A i, j \in DOMAIN options :
       i < j => /\ options[i].cost <= options[j].cost
                /\ options[i].reduction <= options[j].reduction

\* Of 24 candidates or fewer the frontier has an answer for every budget.
LEMMA FrontierIs ==
  ASSUME NEW c, Priced(c), Len(c) <= 24
  PROVE  Answers(Frontier(c), c)
<1> DEFINE sorted == Sorted(c, Effective)
           places == {k \in DOMAIN sorted : ~\E o \in ToSet(c) : Dominates(o, sorted[k])}
           retained == Items(sorted, places)
           options == Sorted(retained, Cheaper)
<1>1. Frontier(c) = Upto(options, 24)
  BY DEF Frontier, Effective, Cheaper
<1>2. IsSequence(sorted) /\ Rearranges(sorted, c)
  BY EffectiveFirst
<1> HIDE DEF sorted
<1>3. /\ DOMAIN sorted = DOMAIN c
      /\ \A k \in DOMAIN sorted : \E i \in DOMAIN c : sorted[k] = c[i]
      /\ \A i \in DOMAIN c : \E k \in DOMAIN sorted : sorted[k] = c[i]
  BY <1>2, RearrangedItems
<1>4. DOMAIN c = 1..Len(c) /\ Len(c) \in Nat /\ \A i \in DOMAIN c : c[i].cost \in Int /\ c[i].reduction \in Int
  BY DEF Priced, IsSequence
<1>5. ToSet(c) = {c[i] : i \in 1..Len(c)}
  BY <1>4 DEF ToSet
<1>6. places \in SUBSET DOMAIN sorted /\ \A k \in places : \A o \in ToSet(c) : ~Dominates(o, sorted[k])
  OBVIOUS
<1>7. \A k \in DOMAIN sorted : (\A o \in ToSet(c) : ~Dominates(o, sorted[k])) => k \in places
  OBVIOUS
<1> HIDE DEF places
<1>8. PICK g : Picks(g, retained, sorted, places)
  BY <1>2, <1>6, ItemsPicked
<1> DEFINE n == Cardinality(places)
<1>9. /\ n \in Nat /\ retained = [k \in 1..n |-> sorted[g[k]]] /\ \A k \in 1..n : g[k] \in places
      /\ \A i \in places : \E k \in 1..n : g[k] = i
  BY <1>8 DEF Picks
<1>10. n <= Len(c)
  <2>1. IsFiniteSet(1..Len(c)) /\ places \subseteq 1..Len(c) /\ Cardinality(1..Len(c)) = Len(c)
    BY <1>3, <1>4, <1>6, IntervalSize
  <2> QED BY <2>1, FS_Subset
<1> HIDE DEF n, retained
<1>11. IsSequence(retained) /\ Len(retained) = n /\ DOMAIN retained = 1..n
  <2>1. retained = [k \in 1..n |-> retained[k]]
    BY <1>9
  <2> QED BY <1>9, <2>1, SegmentIsSequence

\* Every option is a candidate that nothing dominates.
<1>12. ASSUME NEW k \in 1..n PROVE (\E i \in DOMAIN c : retained[k] = c[i]) /\ \A o \in ToSet(c) : ~Dominates(o, retained[k])
  <2>1. retained[k] = sorted[g[k]] /\ g[k] \in places
    BY <1>9
  <2> QED BY <1>3, <1>6, <2>1
<1>13. Priced(retained)
  BY <1>4, <1>11, <1>12 DEF Priced
<1>14. /\ IsSequence(options) /\ Rearranges(options, retained)
       /\ \A k, l \in DOMAIN retained : k < l => options[k].cost <= options[l].cost
  BY <1>13, CheapestFirst
<1> HIDE DEF options
<1>15. /\ DOMAIN options = DOMAIN retained
       /\ \A k \in DOMAIN options : \E i \in DOMAIN retained : options[k] = retained[i]
       /\ \A i \in DOMAIN retained : \E k \in DOMAIN options : options[k] = retained[i]
  BY <1>14, RearrangedItems
<1>16. Frontier(c) = options
  <2> DEFINE T == ToSet(options)
  <2>1. options \in Seq(T) /\ DOMAIN options = 1..Len(options) /\ Len(options) \in Nat
    BY <1>14 DEF IsSequence
  <2>2. Len(options) = n
    BY <1>9, <1>11, <1>15, <2>1
  <2>3. 24 \in Nat /\ Len(options) <= 24
    BY <1>4, <1>9, <1>10, <2>2
  <2> HIDE DEF T
  <2> QED BY <1>1, <2>1, <2>3, UptoProperties
<1>17. ASSUME NEW k \in 1..n
       PROVE  /\ \E i \in DOMAIN c : options[k] = c[i]
              /\ \A o \in ToSet(c) : ~Dominates(o, options[k])
              /\ options[k].cost \in Int /\ options[k].reduction \in Int
  <2>1. PICK i \in 1..n : options[k] = retained[i]
    BY <1>11, <1>15
  <2>2. (\E j \in DOMAIN c : retained[i] = c[j]) /\ \A o \in ToSet(c) : ~Dominates(o, retained[i])
    BY <1>12
  <2> QED BY <1>4, <2>1, <2>2
<1>18. ToSet(options) = {options[k] : k \in 1..n}
  BY <1>11, <1>15 DEF ToSet
<1>19. ASSUME NEW x \in ToSet(c), NEW k \in 1..n PROVE ~(x.cost < options[k].cost /\ x.reduction > options[k].reduction)
  <2>1. ~Dominates(x, options[k])
    BY <1>17
  <2>2. x.cost \in Int /\ x.reduction \in Int
    BY <1>4, <1>5
  <2> QED BY <1>17, <2>1, <2>2 DEF Dominates
<1>20. ASSUME NEW x \in ToSet(c) PROVE \E k \in 1..n : options[k].cost <= x.cost /\ options[k].reduction >= x.reduction
  <2>1. PICK m \in 1..Len(c) : x = c[m]
    BY <1>5
  <2>2. PICK i \in 1..Len(c) : /\ c[i].cost <= c[m].cost /\ c[i].reduction >= c[m].reduction
                               /\ \A j \in 1..Len(c) : ~Dominates(c[j], c[i])
    BY SomeUndominated
  <2>3. PICK k \in DOMAIN sorted : sorted[k] = c[i]
    BY <1>3, <1>4
  <2>4. k \in places
    BY <1>5, <1>7, <2>2, <2>3
  <2>5. PICK l \in 1..n : retained[l] = sorted[k]
    BY <1>9, <2>4
  <2>6. PICK h \in 1..n : options[h] = retained[l]
    BY <1>11, <1>15
  <2> QED BY <2>1, <2>2, <2>3, <2>5, <2>6
<1>21. ASSUME NEW i \in 1..n, NEW j \in 1..n, i < j
       PROVE  options[i].cost <= options[j].cost /\ options[i].reduction <= options[j].reduction
  <2>1. options[i].cost <= options[j].cost
    BY <1>11, <1>14, <1>21
  <2>2. options[i] \in ToSet(c)
    BY <1>4, <1>5, <1>17
  <2>3. ~Dominates(options[i], options[j])
    BY <1>17, <2>2
  <2> DEFINE ci == options[i].cost
             cj == options[j].cost
             ri == options[i].reduction
             rj == options[j].reduction
  <2>4. ci \in Int /\ cj \in Int /\ ri \in Int /\ rj \in Int
    BY <1>17
  <2>5. ~(ci <= cj /\ ri >= rj /\ (ci < cj \/ ri > rj))
    BY <2>3 DEF Dominates
  <2> HIDE DEF ci, cj, ri, rj
  <2>6. ci <= cj /\ ri <= rj
    BY <2>1, <2>4, <2>5 DEF ci, cj
  <2> QED BY <2>6 DEF ci, cj, ri, rj
<1>22. DOMAIN options = 1..n
  BY <1>11, <1>15
<1> QED BY <1>16, <1>18, <1>19, <1>20, <1>21, <1>22 DEF Answers

-----------------------------------------------------------------------------
(* The order of the links *)

\* What a link brings is all that a round knows of it.
LEMMA AddedSame ==
  ASSUME NEW rows, NEW others, NEW n, NEW L, Net(rows, n, L), Net(others, n, L),
         NEW prob, NEW other, NEW round, NEW i \in 1..n,
         \A k \in 1..Len(L) : Brings(prob, rows, L, round, i, k) = Brings(other, others, L, round, i, k)
  PROVE  Added(prob, rows, L, round)[i] = Added(other, others, L, round)[i]
<1> DEFINE s == [k \in 1..Len(L) |-> Brings(prob, rows, L, round, i, k)]
           t == [k \in 1..Len(L) |-> Brings(other, others, L, round, i, k)]
<1>1. Added(prob, rows, L, round)[i] = Total(s) /\ Added(other, others, L, round)[i] = Total(t)
  <2>1. Added(prob, rows, L, round)[i] = Total([k \in 1..Len(L) |-> Brings(prob, rows, L, round, i, k)])
    BY AddedIs
  <2>2. Added(other, others, L, round)[i] = Total([k \in 1..Len(L) |-> Brings(other, others, L, round, i, k)])
    BY AddedIs
  <2> QED BY <2>1, <2>2, Zenon
<1>2. s = t
  OBVIOUS
<1> HIDE DEF s, t
<1> QED BY <1>1, <1>2

\* What a link brings to a row is a natural number.
LEMMA BringsIs ==
  ASSUME NEW rows, NEW n, NEW L, Net(rows, n, L), NEW prob \in Probabilities(n),
         NEW round \in Nat \ {0}, NEW i \in 1..n, NEW k \in 1..Len(L)
  PROVE  Brings(prob, rows, L, round, i, k) \in Nat
<1>1. Same(rows, rows, n)
  BY DEF Same
<1>2. NoGreater(prob, prob, n)
  <2>1. One \in Int
    BY DEF One
  <2>2. \A j \in 1..n : prob[j] \in 0..One
    BY DEF Probabilities
  <2> QED BY <2>1, <2>2 DEF NoGreater
<1>3. Passed(prob, rows, L[k], round) \in Nat
  BY <1>1, <1>2, PassedGrows
<1> QED BY <1>3 DEF Brings

\* The links in any other order: here, backwards.
LEMMA ReversedNet ==
  ASSUME NEW rows, NEW n, NEW L, Net(rows, n, L)
  PROVE  Net(rows, n, Reverse(L)) /\ Len(Reverse(L)) = Len(L) /\ Len(L) \in Nat
         /\ \A k \in 1..Len(L) : (Len(L) - k) + 1 \in 1..Len(L) /\ Reverse(L)[k] = L[(Len(L) - k) + 1]
<1> DEFINE m == Len(L)
           R == Reverse(L)
<1>1. L \in Seq(Links) /\ m \in Nat
  BY DEF Net
<1>2. R \in Seq(Links) /\ Len(R) = m
      /\ \A k \in 1..m : (m - k) + 1 \in 1..m /\ R[k] = L[(m - k) + 1]
  BY <1>1 DEF Reverse
<1> HIDE DEF m, R
<1>3. ASSUME NEW k \in 1..m
      PROVE /\ R[k].trust \in 0..100 /\ R[k].controlStrength \in 0..100
            /\ \E i \in 1..n : rows[i].id = R[k].source
            /\ \E i \in 1..n : rows[i].id = R[k].target
  <2> DEFINE j == (m - k) + 1
  <2>1. j \in 1..m /\ R[k] = L[j]
    BY <1>2
  <2> HIDE DEF j
  <2>2. /\ L[j].trust \in 0..100 /\ L[j].controlStrength \in 0..100
        /\ \E i \in 1..n : rows[i].id = L[j].source
        /\ \E i \in 1..n : rows[i].id = L[j].target
    BY <2>1 DEF Net, m
  <2> QED BY <2>1, <2>2
<1>4. Net(rows, n, R)
  BY <1>2, <1>3 DEF Net
<1> QED BY <1>1, <1>2, <1>4 DEF R, m

\* Links bring a row the same in whichever order they are taken.
LEMMA AddedReversed ==
  ASSUME NEW rows, NEW n, NEW L, Net(rows, n, L), NEW prob \in Probabilities(n),
         NEW round \in Nat \ {0}, NEW i \in 1..n
  PROVE  Added(prob, rows, Reverse(L), round)[i] = Added(prob, rows, L, round)[i]
<1> DEFINE m == Len(L)
           R == Reverse(L)
           s == [k \in 1..m |-> Brings(prob, rows, L, round, i, k)]
           t == [k \in 1..m |-> Brings(prob, rows, R, round, i, k)]
<1>1. /\ Net(rows, n, R) /\ Len(R) = m /\ m \in Nat
      /\ \A k \in 1..m : (m - k) + 1 \in 1..m /\ R[k] = L[(m - k) + 1]
  BY ReversedNet
<1> HIDE DEF R
<1>2. Added(prob, rows, L, round)[i] = Total(s)
  BY AddedIs
<1>3. Added(prob, rows, R, round)[i] = Total(t)
  <2>1. Added(prob, rows, R, round)[i] = Total([k \in 1..Len(R) |-> Brings(prob, rows, R, round, i, k)])
    <3>1. Net(rows, n, R)
      BY <1>1
    <3> HIDE DEF s, t, m
    <3> QED BY <3>1, AddedIs
  <2>2. Len(R) = m
    BY <1>1
  <2> DEFINE e == Len(R)
  <2>3. Added(prob, rows, R, round)[i] = Total([k \in 1..e |-> Brings(prob, rows, R, round, i, k)]) /\ e = m
    BY <2>1, <2>2
  <2> HIDE DEF m, e
  <2>4. [k \in 1..e |-> Brings(prob, rows, R, round, i, k)] = t
    BY <2>3
  <2> HIDE DEF t
  <2> QED BY <2>3, <2>4, Zenon
<1>4. \A k \in 1..m : Brings(prob, rows, L, round, i, k) \in Nat
  BY BringsIs
<1>5. s \in Seq(Int) /\ Len(s) = m /\ \A k \in 1..m : s[k] = Brings(prob, rows, L, round, i, k)
  BY <1>1, <1>4
<1>6. \A k \in 1..m : t[k] = s[(m - k) + 1]
  <2> TAKE k \in 1..m
  <2> DEFINE j == (m - k) + 1
  <2>1. j \in 1..m /\ R[k] = L[j]
    BY <1>1
  <2> HIDE DEF j
  <2>2. t[k] = Brings(prob, rows, R, round, i, k) /\ s[j] = Brings(prob, rows, L, round, i, j)
    BY <2>1
  <2>3. Brings(prob, rows, R, round, i, k) = Brings(prob, rows, L, round, i, j)
    BY <2>1 DEF Brings
  <2> QED BY <2>2, <2>3 DEF j
<1>7. t = [k \in 1..m |-> t[k]]
  OBVIOUS
<1> HIDE DEF s, t, m
<1>8. Reverse(s) = [k \in 1..m |-> s[(m - k) + 1]]
  BY <1>5 DEF Reverse
<1>9. t = Reverse(s)
  BY <1>6, <1>7, <1>8
<1>10. Total(t) = Total(s)
  BY <1>5, <1>9, TotalReversed
<1> QED BY <1>2, <1>3, <1>10 DEF R

\* A round is the same with the links reversed.
LEMMA SpreadReversed ==
  ASSUME NEW rows, NEW n, NEW L, Net(rows, n, L), NEW prob \in Probabilities(n), NEW round \in Nat \ {0}
  PROVE  Spread(prob, rows, Reverse(L), round) = Spread(prob, rows, L, round)
<1> DEFINE a == Added(prob, rows, L, round)
           b == Added(prob, rows, Reverse(L), round)
<1>1. DOMAIN rows = 1..n
  BY DEF Net
<1>2. /\ Spread(prob, rows, L, round) = [i \in 1..n |-> Clamp(Raise(prob[i], a[i]), One)]
      /\ Spread(prob, rows, Reverse(L), round) = [i \in 1..n |-> Clamp(Raise(prob[i], b[i]), One)]
  BY <1>1, Zenon DEF Spread
<1>3. \A i \in 1..n : b[i] = a[i]
  BY AddedReversed
<1> HIDE DEF a, b
<1> QED BY <1>2, <1>3

\* So are all rounds.
LEMMA PropagatedReversed ==
  ASSUME NEW rows, NEW n, NEW L, Net(rows, n, L)
  PROVE  Propagated(rows, Reverse(L)) = Propagated(rows, L)
<1> DEFINE R == Reverse(L)
<1>1. Net(rows, n, R)
  BY ReversedNet
<1>2. \A prob \in Probabilities(n), round \in Nat \ {0} : Spread(prob, rows, R, round) = Spread(prob, rows, L, round)
  BY SpreadReversed
<1> HIDE DEF R
<1>3. PICK f : Propagates(f, rows, n, L)
  BY PropagatedIs
<1>4. PICK g : Propagates(g, rows, n, R)
  BY <1>1, PropagatedIs
<1>5. /\ f[0] = Start(rows) /\ g[0] = Start(rows)
      /\ \A r \in 1..Rounds : f[r] = Spread(f[r - 1], rows, L, r) /\ g[r] = Spread(g[r - 1], rows, R, r)
      /\ \A r \in 0..Rounds : f[r] \in Probabilities(n)
      /\ Propagated(rows, L) = f[Rounds] /\ Propagated(rows, R) = g[Rounds]
  BY <1>3, <1>4 DEF Propagates
<1>6. Rounds \in Nat
  BY TwinGraphAssumption
<1> DEFINE Kept == {r \in Nat : r <= Rounds => f[r] = g[r]}
<1>7. Kept = Nat
  <2>1. 0 \in Kept
    BY <1>5
  <2>2. ASSUME NEW r \in Kept PROVE r + 1 \in Kept
    <3>1. SUFFICES ASSUME r + 1 <= Rounds PROVE f[r + 1] = g[r + 1]
      OBVIOUS
    <3>2. r \in Nat /\ r + 1 \in Nat \ {0} /\ r <= Rounds /\ r + 1 \in 1..Rounds /\ (r + 1) - 1 = r
          /\ r \in 0..Rounds
      BY <1>6, <3>1
    <3>3. f[r] = g[r] /\ f[r] \in Probabilities(n)
      BY <1>5, <3>2
    <3>4. f[r + 1] = Spread(f[r], rows, L, r + 1) /\ g[r + 1] = Spread(g[r], rows, R, r + 1)
      BY <1>5, <3>2
    <3> HIDE DEF Kept
    <3> QED BY <1>2, <3>2, <3>3, <3>4
  <2>3. Kept \in SUBSET Nat
    OBVIOUS
  <2> HIDE DEF Kept
  <2> QED BY <2>1, <2>2, <2>3, AllNumbers
<1>8. Rounds \in Kept
  BY <1>6, <1>7
<1> QED BY <1>5, <1>6, <1>8 DEF R

\* Links say the same in any order.
LEMMA LinksReversed ==
  ASSUME NEW p, Ready(p)
  PROVE  Simulate([p EXCEPT !.links = Reverse(@)]).findings = Simulate(p).findings
<1> DEFINE S == p.surfaces
           L == p.links
           R == Reverse(L)
           q == [p EXCEPT !.links = Reverse(@)]
<1>1. IsScenario(p) /\ AllNormal(S, L) /\ Len(L) <= MaxLinks
  BY DEF Ready, Normal
<1>2. L \in Seq(Links) /\ Len(L) \in Nat
  BY <1>1 DEF AllNormal
<1>3. R \in Seq(Links) /\ Len(R) = Len(L) /\ \A k \in DOMAIN R : \E j \in DOMAIN L : R[k] = L[j]
  <2> HIDE DEF L
  <2>1. /\ R \in Seq(Links) /\ Len(R) = Len(L)
        /\ \A k \in 1..Len(L) : (Len(L) - k) + 1 \in 1..Len(L) /\ R[k] = L[(Len(L) - k) + 1]
    BY <1>2 DEF Reverse
  <2> HIDE DEF R
  <2>2. DOMAIN L = 1..Len(L) /\ DOMAIN R = 1..Len(L)
    BY <1>2, <2>1
  <2>3. ASSUME NEW k \in DOMAIN R PROVE \E j \in DOMAIN L : R[k] = L[j]
    <3> DEFINE i == (Len(L) - k) + 1
    <3>1. i \in 1..Len(L) /\ R[k] = L[i]
      BY <2>1, <2>2
    <3> HIDE DEF i
    <3> QED BY <2>2, <3>1
  <2> QED BY <2>1, <2>3
<1>4. q.surfaces = S /\ q.links = R /\ "surfaces" \in DOMAIN q /\ "links" \in DOMAIN q
  BY <1>1 DEF IsScenario
<1> HIDE DEF S, L, R, q
<1>5. AllNormal(S, R)
  BY <1>1, <1>3 DEF AllNormal
<1>6. Ready(q) /\ IsScenario(q)
  BY <1>1, <1>3, <1>4, <1>5 DEF Ready, Normal, IsScenario, AllNormal
<1>7. Validate(q).surfaces = S /\ Validate(q).links = R
  BY <1>4, <1>6, ReadyStays
<1>8. Validate(p).surfaces = S /\ Validate(p).links = L
  BY ReadyStays DEF S, L
<1>9. TwinRows(q) = Rows(S, R) /\ TwinRows(p) = Rows(S, L)
  BY <1>7, <1>8 DEF TwinRows
<1>10. Rows(S, R) = Rows(S, L)
  <2>1. R = <<>> <=> L = <<>>
    BY <1>2, <1>3
  <2> QED BY <2>1 DEF Rows
<1>11. Net(Rows(S, L), RowCount(S, L), L)
  BY <1>1, RowsNet
<1>12. Propagated(Rows(S, L), R) = Propagated(Rows(S, L), L)
  BY <1>11, PropagatedReversed DEF R
<1>13. Final(q) = Final(p)
  BY <1>7, <1>8, <1>9, <1>10, <1>12 DEF Final
<1>14. Simulate(q).findings = Findings(TwinRows(q), Final(q)) /\ Simulate(p).findings = Findings(TwinRows(p), Final(p))
  BY <1>1, <1>6, SimulateIs
<1>15. Simulate(q).findings = Simulate(p).findings
  BY <1>9, <1>10, <1>13, <1>14
<1> QED BY <1>15 DEF q

-----------------------------------------------------------------------------
(* How far pressure travels *)

\* One round further along the links.
Further(X, L) == X \cup {l.target : l \in {x \in ToSet(L) : x.source \in X}}

Reaches(h, L, u) ==
  /\ h[0] = {u}
  /\ \A r \in 1..Rounds : h[r] = Further(h[r - 1], L)
  /\ Near(L, u, Rounds) = h[Rounds]

\* Near is reached round by round.
LEMMA NearIs ==
  ASSUME NEW L \in Seq(Links), NEW u \in STRING
  PROVE  \E h : Reaches(h, L, u)
<1> DEFINE P == SUBSET STRING
           base == {u}
           next == [X \in P |-> Further(X, L)]
           Equation(f) == f = [r \in 0..Rounds |->
                IF r = 0 THEN {u}
                ELSE f[r - 1] \cup {l.target : l \in {x \in ToSet(L) : x.source \in f[r - 1]}}]
<1>1. Rounds \in Nat
  BY TwinGraphAssumption
<1>2. base \in P
  OBVIOUS
<1>3. \A X \in P : Further(X, L) \in P
  <2>1. \A l \in ToSet(L) : l.target \in STRING
    <3>1. \A l \in ToSet(L) : l \in Links
      BY DEF ToSet
    <3> QED BY <3>1 DEF Links
  <2> QED BY <2>1 DEF Further
<1> HIDE DEF P, base
<1>4. next \in [P -> P] /\ \A X \in P : next[X] = Further(X, L)
  BY <1>3
<1> HIDE DEF next
<1>5. PICK g : Iterates(g, P, base, next)
  BY <1>2, <1>4, IterationIs, Zenon
<1>6. /\ g[0] = base
      /\ \A r \in Nat : g[r + 1] = Further(g[r], L)
  <2>1. g \in [Nat -> P] /\ g[0] = base /\ \A r \in Nat : g[r + 1] = next[g[r]]
    BY <1>5 DEF Iterates
  <2>2. \A r \in Nat : g[r] \in P
    BY <2>1
  <2> QED BY <1>4, <2>1, <2>2, Zenon
<1>7. \A r \in 1..Rounds : r - 1 \in Nat /\ (r - 1) + 1 = r /\ r - 1 \in 0..Rounds /\ r # 0 /\ r \in 0..Rounds
  BY <1>1
<1>8. \A r \in 1..Rounds : g[r] = Further(g[r - 1], L)
  BY <1>6, <1>7
<1> DEFINE f == [r \in 0..Rounds |-> g[r]]
<1>9. Equation(f)
  <2>1. \A r \in 0..Rounds : f[r] = g[r] /\ (r = 0 \/ r \in 1..Rounds)
    BY <1>1
  <2>2. f = [r \in 0..Rounds |-> f[r]]
    OBVIOUS
  <2> HIDE DEF f
  <2>3. \A r \in 0..Rounds : f[r] = IF r = 0 THEN {u} ELSE Further(f[r - 1], L)
    BY <1>6, <1>7, <1>8, <2>1 DEF base
  <2>4. f = [r \in 0..Rounds |-> IF r = 0 THEN {u} ELSE Further(f[r - 1], L)]
    BY <2>2, <2>3
  <2> QED BY <2>4 DEF Further
<1> HIDE DEF f
<1> DEFINE h == CHOOSE h : Equation(h)
<1>10. Near(L, u, Rounds) = h[Rounds]
  BY DEF Near
<1>11. Equation(h)
  <2> HIDE DEF Equation
  <2> QED BY <1>9
<1>12. h = [r \in 0..Rounds |-> IF r = 0 THEN {u} ELSE Further(h[r - 1], L)]
  BY <1>11 DEF Further
<1> HIDE DEF h
<1>13. \A r \in 0..Rounds : h[r] = IF r = 0 THEN {u} ELSE Further(h[r - 1], L)
  BY <1>12
<1>14. h[0] = {u} /\ \A r \in 1..Rounds : h[r] = Further(h[r - 1], L)
  <2>1. 0 \in 0..Rounds
    BY <1>1
  <2> QED BY <1>7, <1>13, <2>1, Zenon
<1> QED BY <1>10, <1>14 DEF Reaches

\* Where a round has not come, nothing changes with what it starts from.
LEMMA SpreadNear ==
  ASSUME NEW rows, NEW others, NEW n, NEW L, Net(rows, n, L), Net(others, n, L), Same(rows, others, n),
         NEW X, NEW prob, NEW other, \A i \in 1..n : rows[i].id \notin X => prob[i] = other[i],
         NEW round, NEW i \in 1..n, rows[i].id \notin Further(X, L)
  PROVE  Spread(prob, rows, L, round)[i] = Spread(other, others, L, round)[i]
<1>1. DOMAIN rows = 1..n /\ DOMAIN others = 1..n
  BY DEF Net
<1>2. /\ rows = [k \in 1..n |-> rows[k]] /\ others = [k \in 1..n |-> others[k]]
      /\ L \in Seq(Links) /\ DOMAIN L = 1..Len(L)
  BY DEF Net
<1>3. prob[i] = other[i] /\ rows[i].id = others[i].id
  <2>1. rows[i].id \notin X
    BY DEF Further
  <2> QED BY <2>1 DEF Same
<1>4. ASSUME NEW k \in 1..Len(L) PROVE Brings(prob, rows, L, round, i, k) = Brings(other, others, L, round, i, k)
  <2>1. CASE L[k].target # rows[i].id
    BY <1>3, <2>1 DEF Brings
  <2>2. CASE L[k].target = rows[i].id
    <3>1. L[k] \in ToSet(L)
      BY <1>2 DEF ToSet
    <3>2. L[k].source \notin X
      BY <2>2, <3>1 DEF Further
    <3> DEFINE id == L[k].source
    <3>3. \E row \in 1..n : rows[row].id = id
      BY DEF Net
    <3> HIDE DEF id
    <3> DEFINE j == Row(rows, id)
    <3>4. j \in 1..n /\ rows[j].id = id
      <4>1. rows = [row \in 1..n |-> rows[row]]
        BY <1>2
      <4> QED BY <3>3, <4>1, RowIs, Zenon
    <3>5. Row(others, id) = j
      <4>1. rows = [row \in 1..n |-> rows[row]] /\ others = [row \in 1..n |-> others[row]]
        BY <1>2
      <4> QED BY <4>1, RowSame, Zenon
    <3>6. prob[j] = other[j]
      <4> HIDE DEF j
      <4> QED BY <3>2, <3>4 DEF id
    <3>7. Passed(prob, rows, L[k], round) = Passed(other, others, L[k], round)
      <4>1. Passed(prob, rows, L[k], round) = Pressure(L[k], prob[j], round)
        BY DEF Passed, id
      <4>2. Passed(other, others, L[k], round) = Pressure(L[k], other[j], round)
        BY <3>5 DEF Passed, id
      <4> HIDE DEF j
      <4> QED BY <3>6, <4>1, <4>2
    <3> QED BY <1>3, <3>7 DEF Brings
  <2> QED BY <2>1, <2>2
<1>5. Added(prob, rows, L, round)[i] = Added(other, others, L, round)[i]
  BY <1>4, AddedSame
<1> DEFINE a == Added(prob, rows, L, round)
           b == Added(other, others, L, round)
<1>6. /\ Spread(prob, rows, L, round) = [k \in 1..n |-> Clamp(Raise(prob[k], a[k]), One)]
      /\ Spread(other, others, L, round) = [k \in 1..n |-> Clamp(Raise(other[k], b[k]), One)]
  BY <1>1, Zenon DEF Spread
<1>7. a[i] = b[i]
  BY <1>5
<1> HIDE DEF a, b
<1> QED BY <1>3, <1>6, <1>7

\* After all rounds: what differs at u makes no difference where pressure from u has
\* not come.
LEMMA PropagatedNear ==
  ASSUME NEW rows, NEW others, NEW n, NEW L, Net(rows, n, L), Net(others, n, L), Same(rows, others, n),
         NEW u \in STRING, \A i \in 1..n : rows[i].id # u => rows[i] = others[i]
  PROVE  \A i \in 1..n : rows[i].id \notin Near(L, u, Rounds)
           => Propagated(rows, L)[i] = Propagated(others, L)[i]
<1>1. L \in Seq(Links)
  BY DEF Net
<1>2. PICK h : Reaches(h, L, u)
  BY <1>1, NearIs
<1>3. PICK f : Propagates(f, rows, n, L)
  BY PropagatedIs
<1>4. PICK g : Propagates(g, others, n, L)
  BY PropagatedIs
<1>5. /\ f[0] = Start(rows) /\ g[0] = Start(others)
      /\ \A r \in 1..Rounds : f[r] = Spread(f[r - 1], rows, L, r) /\ g[r] = Spread(g[r - 1], others, L, r)
      /\ Propagated(rows, L) = f[Rounds] /\ Propagated(others, L) = g[Rounds]
  BY <1>3, <1>4 DEF Propagates
<1>6. /\ h[0] = {u} /\ \A r \in 1..Rounds : h[r] = Further(h[r - 1], L)
      /\ Near(L, u, Rounds) = h[Rounds]
  BY <1>2 DEF Reaches
<1>7. Rounds \in Nat
  BY TwinGraphAssumption
<1> DEFINE Apart(r) == \A i \in 1..n : rows[i].id \notin h[r] => f[r][i] = g[r][i]
           Kept == {r \in Nat : r <= Rounds => Apart(r)}
<1>8. Kept = Nat
  <2>1. 0 \in Kept
    <3>1. ASSUME NEW i \in 1..n, rows[i].id \notin h[0] PROVE f[0][i] = g[0][i]
      <4>1. rows[i] = others[i]
        BY <1>6, <3>1
      <4>2. Start(rows)[i] = Probability(rows[i])
        BY StartIs
      <4>3. Start(others)[i] = Probability(others[i])
        BY StartIs
      <4> QED BY <1>5, <4>1, <4>2, <4>3
    <3> QED BY <3>1
  <2>2. ASSUME NEW r \in Kept PROVE r + 1 \in Kept
    <3>1. SUFFICES ASSUME r + 1 <= Rounds PROVE Apart(r + 1)
      OBVIOUS
    <3>2. r \in Nat /\ r <= Rounds /\ r + 1 \in 1..Rounds /\ (r + 1) - 1 = r
      BY <1>7, <3>1
    <3>3. Apart(r)
      BY <3>2
    <3>4. /\ f[r + 1] = Spread(f[r], rows, L, r + 1) /\ g[r + 1] = Spread(g[r], others, L, r + 1)
          /\ h[r + 1] = Further(h[r], L)
      BY <1>5, <1>6, <3>2
    <3> HIDE DEF Kept
    <3> DEFINE X == h[r]
               a == f[r]
               b == g[r]
               t == r + 1
    <3>5. ASSUME NEW i \in 1..n, rows[i].id \notin Further(X, L)
          PROVE Spread(a, rows, L, t)[i] = Spread(b, others, L, t)[i]
      <4>1. \A m \in 1..n : rows[m].id \notin X => a[m] = b[m]
        BY <3>3
      <4> HIDE DEF X, a, b, t, Apart
      <4>2. \A l \in 1..n : rows[l].id \notin Further(X, L)
              => Spread(a, rows, L, t)[l] = Spread(b, others, L, t)[l]
        BY <4>1, SpreadNear
      <4> QED BY <3>5, <4>2
    <3> QED BY <3>4, <3>5
  <2>3. Kept \in SUBSET Nat
    OBVIOUS
  <2> HIDE DEF Kept
  <2> QED BY <2>1, <2>2, <2>3, AllNumbers
<1>9. Apart(Rounds)
  BY <1>7, <1>8
<1> QED BY <1>5, <1>6, <1>9

\* The probabilities that are listed for an id, and those of the rows with it.
ListedOf(F, v) == {F[i].probability : i \in {k \in DOMAIN F : F[k].id = v}}

HeldOf(rows, prob, n, v) == {prob[i] : i \in {k \in 1..n : rows[k].id = v}}

\* Every finding has the probability of its row.
LEMMA ListedFor ==
  ASSUME NEW F, NEW rows, NEW prob, NEW n, Lists(F, rows, prob, n), NEW v
  PROVE  ListedOf(F, v) = HeldOf(rows, prob, n, v)
<1> DEFINE A == {F[i].probability : i \in {k \in DOMAIN F : F[k].id = v}}
           B == {prob[i] : i \in {k \in 1..n : rows[k].id = v}}
           s == [i \in 1..n |-> Finding(rows, prob, i)]
<1>1. DOMAIN F = 1..n
  BY DEF Lists
<1>2. PICK g : Permutes(g, F, s, n)
  BY DEF Lists
<1>3. \A i \in 1..n : s[i].id = rows[i].id /\ s[i].probability = prob[i]
  BY DEF Finding
<1> HIDE DEF s
<1>4. /\ \A k \in 1..n : g[k] \in 1..n /\ F[k] = s[g[k]]
      /\ \A i \in 1..n : \E k \in 1..n : g[k] = i
  BY <1>2 DEF Permutes
<1>5. ASSUME NEW x \in A PROVE x \in B
  <2>1. PICK k \in 1..n : F[k].id = v /\ x = F[k].probability
    BY <1>1
  <2> DEFINE i == g[k]
  <2>2. i \in 1..n /\ F[k] = s[i]
    BY <1>4
  <2> HIDE DEF i
  <2>3. rows[i].id = v /\ x = prob[i]
    BY <1>3, <2>1, <2>2
  <2> QED BY <2>2, <2>3
<1>6. ASSUME NEW x \in B PROVE x \in A
  <2>1. PICK i \in 1..n : rows[i].id = v /\ x = prob[i]
    OBVIOUS
  <2>2. PICK k \in 1..n : g[k] = i
    BY <1>4
  <2>3. F[k] = s[i]
    BY <1>4, <2>2
  <2>4. F[k].id = v /\ F[k].probability = x
    BY <1>3, <2>1, <2>3
  <2> QED BY <1>1, <2>4
<1> HIDE DEF A, B
<1>7. A = B
  BY <1>5, <1>6
<1> QED BY <1>7 DEF A, B, ListedOf, HeldOf

\* A surface that is fully exposed is a surface still.
LEMMA ExposedReady ==
  ASSUME NEW p, Ready(p), NEW u \in Ids(p.surfaces)
  PROVE  LET q == Vary(p, u, "exposure", 100) IN
         /\ Ready(q) /\ q.links = p.links /\ Alike(p.surfaces, q.surfaces)
         /\ \A i \in 1..Len(p.surfaces) : p.surfaces[i].id # u => q.surfaces[i] = p.surfaces[i]
<1> DEFINE q == Vary(p, u, "exposure", 100)
           S == p.surfaces
           T == q.surfaces
           m == FindSurface(p, u)
<1>1. IsScenario(p) /\ AllNormal(S, p.links) /\ Len(p.links) <= MaxLinks
  BY DEF Ready, Normal
<1> DEFINE e == "exposure"
           c == 100
<1>2. e \in Fields /\ c \in Int
  BY DEF Fields
<1>3. /\ IsScenario(q) /\ q.links = p.links /\ Len(T) = Len(S)
      /\ \A i \in 1..Len(S) : T[i] = IF i = m THEN [S[i] EXCEPT !["exposure"] = 100] ELSE S[i]
  <2> HIDE DEF e, c, q, S, T, m
  <2>1. Varied(p, Vary(p, u, e, c), u, e, c)
    <3>1. \A x \in Ids(p.surfaces), y \in Fields, w \in Int : Varied(p, Vary(p, x, y, w), x, y, w)
      BY <1>1, VaryIs
    <3> QED BY <3>1, <1>2
  <2> QED BY <2>1, Zenon DEF Varied, e, c, q, S, T, m
<1>4. S[m].id = u
  BY <1>1, FindSurfaceIs
<1> HIDE DEF q, m
<1>5. S \in Seq(Surfaces) /\ T \in Seq(Surfaces) /\ p.links \in Seq(Links)
      /\ DOMAIN S = 1..Len(S) /\ DOMAIN T = 1..Len(S) /\ Len(S) \in Nat
  BY <1>1, <1>3 DEF IsScenario
<1>6. \A i \in 1..Len(S) : NormalSurface(S[i])
  BY <1>1, <1>5 DEF AllNormal
<1> HIDE DEF S, T
<1>7. ASSUME NEW i \in 1..Len(S) PROVE NormalSurface(T[i]) /\ T[i].id = S[i].id
  <2>1. CASE i = m
    <3> DEFINE s == S[i]
    <3>1. T[i] = [s EXCEPT !.exposure = 100] /\ NormalSurface(s)
      BY <1>3, <1>6, <2>1
    <3> HIDE DEF s
    <3>2. [s EXCEPT !.exposure = 100] =
            [id |-> s.id, criticality |-> s.criticality, exposure |-> 100,
             controlStrength |-> s.controlStrength, humanPressure |-> s.humanPressure,
             telemetryConfidence |-> s.telemetryConfidence, signals |-> s.signals,
              localMicro |-> s.localMicro]
      BY <3>1 DEF NormalSurface, Surfaces
    <3> DEFINE t == [s EXCEPT !.exposure = 100]
    <3>3. /\ t \in Surfaces /\ t.id = s.id /\ t.criticality = s.criticality /\ t.exposure = 100
          /\ t.controlStrength = s.controlStrength /\ t.humanPressure = s.humanPressure
          /\ t.telemetryConfidence = s.telemetryConfidence
      BY <3>1, <3>2 DEF NormalSurface, Surfaces
    <3> HIDE DEF t
    <3>4. NormalSurface(t) /\ t.id = s.id
      BY <3>1, <3>3 DEF NormalSurface
    <3> QED BY <3>1, <3>4 DEF s, t
  <2>2. CASE i # m
    BY <1>3, <1>6, <2>2
  <2> QED BY <2>1, <2>2
<1>8. Alike(S, T)
  BY <1>3, <1>7 DEF Alike
<1>9. \A k \in DOMAIN p.links : NormalLink(p.links[k], T)
  <2>1. \A l : Joins(l, S) <=> Joins(l, T)
    BY <1>5, <1>8, JoinsAlike
  <2> QED BY <1>1, <2>1 DEF AllNormal, NormalLink
<1>10. AllNormal(T, p.links)
  BY <1>5, <1>7, <1>9 DEF AllNormal
<1>11. Ready(q)
  BY <1>1, <1>3, <1>10 DEF Ready, Normal, T
<1>12. \A i \in 1..Len(S) : S[i].id # u => T[i] = S[i]
  BY <1>3, <1>4
<1> QED BY <1>3, <1>8, <1>11, <1>12 DEF S, T, q

\* What happens to a surface changes no probability beyond where pressure carries it.
LEMMA ExposureStaysNear ==
  ASSUME NEW p, Ready(p), NEW u \in Ids(p.surfaces), NEW v, v \notin Near(p.links, u, Rounds)
  PROVE  ListedOf(Simulate(Vary(p, u, "exposure", 100)).findings, v) = ListedOf(Simulate(p).findings, v)
<1> DEFINE q == Vary(p, u, "exposure", 100)
           S == p.surfaces
           T == q.surfaces
           L == p.links
           n == RowCount(S, L)
           g == RowPlaces(S, L)
           R == Rows(S, L)
           Q == Rows(T, L)
<1>1. /\ Ready(q) /\ q.links = L /\ Alike(S, T)
      /\ \A i \in 1..Len(S) : S[i].id # u => T[i] = S[i]
  BY ExposedReady
<1> HIDE DEF q
<1>2. IsScenario(p) /\ IsScenario(q) /\ AllNormal(S, L) /\ AllNormal(T, L)
  BY <1>1 DEF Ready, Normal
<1>3. S \in Seq(Surfaces) /\ T \in Seq(Surfaces) /\ DOMAIN S = 1..Len(S)
  BY <1>2 DEF AllNormal
<1>4. u \in STRING
  <2>1. PICK i \in 1..Len(S) : u = S[i].id
    BY <1>3 DEF Ids
  <2>2. S[i] \in Surfaces
    BY <1>3
  <2> QED BY <2>1, <2>2 DEF Surfaces
<1>5. Validate(q).surfaces = T /\ Validate(q).links = L /\ Validate(p).surfaces = S /\ Validate(p).links = L
  BY <1>1, ReadyStays
<1> HIDE DEF S, T, L
<1>6. RowCount(T, L) = n /\ RowPlaces(T, L) = g
  BY <1>1, <1>3, RowsAlike
<1>7. Placing(R, S, n, g) /\ Placing(Q, T, n, g)
  BY <1>3, <1>6, RowsAre
<1>8. Net(R, n, L) /\ Net(Q, n, L)
  <2>1. Net(Rows(T, L), RowCount(T, L), L)
    BY <1>2, RowsNet
  <2> QED BY <1>2, <1>6, <2>1, RowsNet
<1>9. /\ TwinRows(q) = Q /\ TwinRows(p) = R /\ TwinCount(q) = n /\ TwinCount(p) = n
      /\ Final(q) = Propagated(Q, L) /\ Final(p) = Propagated(R, L)
  BY <1>5, <1>6 DEF TwinRows, TwinCount, Final
<1> HIDE DEF n, g, R, Q
<1>10. \A k \in 1..n : g[k] \in 1..Len(S) /\ R[k] = S[g[k]] /\ Q[k] = T[g[k]]
  BY <1>7 DEF Placing
<1>11. Same(R, Q, n) /\ \A k \in 1..n : R[k].id # u => R[k] = Q[k]
  BY <1>1, <1>10 DEF Same, Alike
<1>12. \A i \in 1..n : R[i].id \notin Near(L, u, Rounds) => Propagated(R, L)[i] = Propagated(Q, L)[i]
  BY <1>4, <1>8, <1>11, PropagatedNear
<1> DEFINE a == Propagated(Q, L)
           b == Propagated(R, L)
           F == Simulate(q).findings
           G == Simulate(p).findings
<1>13. Lists(F, Q, a, n) /\ Lists(G, R, b, n)
  BY <1>2, <1>9, SimulateIs
<1>14. v \notin Near(L, u, Rounds)
  BY DEF L
<1> HIDE DEF a, b, F, G
<1>15. ListedOf(F, v) = HeldOf(Q, a, n, v)
  BY <1>13, ListedFor
<1>16. ListedOf(G, v) = HeldOf(R, b, n, v)
  BY <1>13, ListedFor
<1>17. HeldOf(Q, a, n, v) = HeldOf(R, b, n, v)
  <2>1. \A k \in 1..n : Q[k].id = R[k].id
    BY <1>11 DEF Same
  <2>2. \A k \in 1..n : R[k].id = v => b[k] = a[k]
    BY <1>12, <1>14 DEF a, b
  <2> QED BY <2>1, <2>2 DEF HeldOf
<1> QED BY <1>15, <1>16, <1>17 DEF F, G, q

-----------------------------------------------------------------------------
(* Maps *)

MapKind == [nodes : Seq(MapNodes), edges : Seq(Links)]

\* There are six controls.
LEMMA ControlsCounted ==
  /\ IsFiniteSet(Controls) /\ Cardinality(Controls) = 6
  /\ \A S \in SUBSET Controls : IsFiniteSet(S) /\ Cardinality(S) \in 0..6
<1> DEFINE A == {"mfa"}
           B == A \cup {"encryption"}
           C == B \cup {"logging"}
           D == C \cup {"backup"}
           E == D \cup {"segmented"}
           F == E \cup {"managed"}
<1>1. IsFiniteSet(A) /\ Cardinality(A) = 1
  <2>1. IsFiniteSet({}) /\ Cardinality({}) = 0
    BY FS_EmptySet
  <2>2. IsFiniteSet({} \cup {"mfa"}) /\ Cardinality({} \cup {"mfa"}) = 1
    BY <2>1, FS_AddElement
  <2>3. {} \cup {"mfa"} = A
    OBVIOUS
  <2> QED BY <2>2, <2>3, Zenon
<1>2. IsFiniteSet(B) /\ Cardinality(B) = 2
  <2>1. "encryption" \notin A
    OBVIOUS
  <2> HIDE DEF A
  <2> QED BY <1>1, <2>1, FS_AddElement
<1>3. IsFiniteSet(C) /\ Cardinality(C) = 3
  <2>1. "logging" \notin B
    OBVIOUS
  <2> HIDE DEF B
  <2> QED BY <1>2, <2>1, FS_AddElement
<1>4. IsFiniteSet(D) /\ Cardinality(D) = 4
  <2>1. "backup" \notin C
    OBVIOUS
  <2> HIDE DEF C
  <2> QED BY <1>3, <2>1, FS_AddElement
<1>5. IsFiniteSet(E) /\ Cardinality(E) = 5
  <2>1. "segmented" \notin D
    OBVIOUS
  <2> HIDE DEF D
  <2> QED BY <1>4, <2>1, FS_AddElement
<1>6. IsFiniteSet(F) /\ Cardinality(F) = 6
  <2>1. "managed" \notin E
    OBVIOUS
  <2> HIDE DEF E
  <2> QED BY <1>5, <2>1, FS_AddElement
<1>7. F = Controls
  BY DEF Controls
<1> HIDE DEF F
<1>8. IsFiniteSet(Controls) /\ Cardinality(Controls) = 6
  BY <1>6, <1>7
<1>9. ASSUME NEW S \in SUBSET Controls PROVE IsFiniteSet(S) /\ Cardinality(S) \in 0..6
  <2>1. IsFiniteSet(S) /\ Cardinality(S) <= 6
    BY <1>8, FS_Subset
  <2>2. Cardinality(S) \in Nat
    BY <2>1, FS_CardinalityType
  <2> QED BY <2>1, <2>2
<1> QED BY <1>8, <1>9

\* The share of the controls that a node has.
Share(controls) == (100 * Cardinality(controls)) \div Cardinality(Controls)

\* More controls are a greater share of the six.
LEMMA ShareGrows ==
  ASSUME NEW S \in SUBSET Controls, NEW T \in SUBSET Controls, S \subseteq T
  PROVE  Share(S) \in 0..100 /\ Share(T) \in 0..100 /\ Share(S) <= Share(T)
<1> DEFINE s == Cardinality(S)
           t == Cardinality(T)
<1>1. Cardinality(Controls) = 6 /\ s \in 0..6 /\ t \in 0..6
  BY ControlsCounted
<1>2. s <= t
  <2>1. IsFiniteSet(T)
    BY ControlsCounted
  <2> QED BY <2>1, FS_Subset
<1>3. Share(S) = (100 * s) \div 6 /\ Share(T) = (100 * t) \div 6
  BY <1>1 DEF Share
<1> HIDE DEF s, t
<1> QED BY <1>1, <1>2, <1>3

\* A node as the review sees it.
NormalNode(n) ==
  /\ n.id \in STRING /\ n.controls \in SUBSET Controls
  /\ n.criticality \in 0..100 /\ n.exposure \in 0..100 /\ n.telemetryConfidence \in 0..100

\* The fields of a normalized node.
LEMMA NodeIs ==
  ASSUME NEW m \in MapNodes
  PROVE  LET n == NormalizedNode(m) IN
         /\ NormalNode(n) /\ n.id = Stripped[m.id] /\ n.kind = m.kind /\ n.zone = m.zone
         /\ n.flags = m.flags /\ n.controls = m.controls
         /\ n.criticality = Clamp(m.criticality, 100) /\ n.exposure = Clamp(m.exposure, 100)
         /\ n.telemetryConfidence = Clamp(m.telemetryConfidence, 100)
<1> DEFINE n == NormalizedNode(m)
<1>1. /\ m.id \in DOMAIN Stripped /\ m.controls \in SUBSET Controls
      /\ m.criticality \in Int /\ m.exposure \in Int /\ m.telemetryConfidence \in Int
      /\ DOMAIN m = {"id", "kind", "zone", "flags", "controls", "criticality", "exposure", "telemetryConfidence"}
  BY DEF MapNodes
<1>2. /\ n.id = Stripped[m.id] /\ n.kind = m.kind /\ n.zone = m.zone
      /\ n.flags = m.flags /\ n.controls = m.controls
      /\ n.criticality = Clamp(m.criticality, 100) /\ n.exposure = Clamp(m.exposure, 100)
      /\ n.telemetryConfidence = Clamp(m.telemetryConfidence, 100)
  BY <1>1 DEF NormalizedNode
<1>3. n.id \in STRING
  BY <1>1, <1>2, InfrastructureMapAssumption
<1>4. n.criticality \in 0..100 /\ n.exposure \in 0..100 /\ n.telemetryConfidence \in 0..100
  BY <1>1, <1>2 DEF Clamp, Least
<1> HIDE DEF n
<1>5. NormalNode(n)
  BY <1>1, <1>2, <1>3, <1>4 DEF NormalNode
<1> QED BY <1>2, <1>5 DEF n

\* More controls make a node's surface milder.
LEMMA SurfaceIs ==
  ASSUME NEW n, NormalNode(n)
  PROVE  NormalSurface(Surface(n)) /\ Surface(n).id = n.id
<1> DEFINE e == IF "internetFacing" \in n.flags /\ n.exposure < 82 THEN 82 ELSE n.exposure
           h == IF "privileged" \in n.flags THEN 62 ELSE 35
           k == Share(n.controls)
<1>1. e \in 0..100 /\ h \in 0..100 /\ k \in 0..100
  BY ShareGrows DEF NormalNode
<1>2. Surface(n) = [id |-> n.id, criticality |-> n.criticality, exposure |-> e, controlStrength |-> k,
                    humanPressure |-> h, telemetryConfidence |-> n.telemetryConfidence, signals |-> 5, localMicro |-> 0]
  BY DEF Surface, Share
<1> HIDE DEF e, h, k
<1>3. Surface(n) \in Surfaces
  BY <1>1, <1>2 DEF NormalNode, Surfaces
<1> QED BY <1>1, <1>2, <1>3 DEF NormalNode, NormalSurface

\* A node with more controls is a milder surface.
LEMMA SurfaceMilder ==
  ASSUME NEW n, NormalNode(n), NEW m, NormalNode(m), n.id = m.id, n.flags = m.flags,
         n.criticality = m.criticality, n.exposure = m.exposure,
         n.telemetryConfidence = m.telemetryConfidence, m.controls \subseteq n.controls
  PROVE  Milder(Surface(n), Surface(m))
<1>1. Share(m.controls) \in 0..100 /\ Share(n.controls) \in 0..100 /\ Share(m.controls) <= Share(n.controls)
  BY ShareGrows DEF NormalNode
<1> DEFINE e == IF "internetFacing" \in m.flags /\ m.exposure < 82 THEN 82 ELSE m.exposure
           h == IF "privileged" \in m.flags THEN 62 ELSE 35
<1>2. e \in Int /\ h \in Int
  BY DEF NormalNode
<1>3. Surface(m) = [id |-> m.id, criticality |-> m.criticality, exposure |-> e, controlStrength |-> Share(m.controls),
                    humanPressure |-> h, telemetryConfidence |-> m.telemetryConfidence, signals |-> 5, localMicro |-> 0]
  BY DEF Surface, Share
<1>4. Surface(n) = [id |-> m.id, criticality |-> m.criticality, exposure |-> e, controlStrength |-> Share(n.controls),
                    humanPressure |-> h, telemetryConfidence |-> m.telemetryConfidence, signals |-> 5, localMicro |-> 0]
  BY DEF Surface, Share
<1> HIDE DEF e, h
<1> QED BY <1>1, <1>2, <1>3, <1>4 DEF Milder, NormalNode

-----------------------------------------------------------------------------
(* The packet made of a review *)

\* The nodes of a map, normalized one by one.
LEMMA NodesAre ==
  ASSUME NEW map \in MapKind
  PROVE  /\ Len(map.nodes) \in Nat /\ DOMAIN map.nodes = 1..Len(map.nodes)
         /\ IsSequence(Nodes(map)) /\ Len(Nodes(map)) = Len(map.nodes) /\ DOMAIN Nodes(map) = 1..Len(map.nodes)
         /\ \A i \in 1..Len(map.nodes) :
              map.nodes[i] \in MapNodes /\ Nodes(map)[i] = NormalizedNode(map.nodes[i]) /\ NormalNode(Nodes(map)[i])
<1> DEFINE S == map.nodes
           N == Nodes(map)
<1>1. S \in Seq(MapNodes) /\ Len(S) \in Nat /\ DOMAIN S = 1..Len(S)
  BY DEF MapKind
<1>2. N = [i \in 1..Len(S) |-> NormalizedNode(S[i])]
  BY <1>1 DEF Nodes
<1> HIDE DEF S, N
<1>3. IsSequence(N) /\ Len(N) = Len(S) /\ DOMAIN N = 1..Len(S)
  <2>1. N = [i \in 1..Len(S) |-> N[i]]
    BY <1>2
  <2> QED BY <1>1, <2>1, SegmentIsSequence
<1>4. ASSUME NEW i \in 1..Len(S) PROVE S[i] \in MapNodes /\ N[i] = NormalizedNode(S[i]) /\ NormalNode(N[i])
  <2>1. S[i] \in MapNodes /\ N[i] = NormalizedNode(S[i])
    BY <1>1, <1>2
  <2> QED BY <2>1, NodeIs
<1> QED BY <1>1, <1>3, <1>4 DEF S, N

\* Edges join nodes, whatever is left of them.
LEMMA EdgesAre ==
  ASSUME NEW map \in MapKind
  PROVE  /\ Edges(map) \in Seq(Links)
         /\ \A k \in DOMAIN Edges(map) : NormalLink(Edges(map)[k], Nodes(map))
<1>1. map.edges \in Seq(Links) /\ MaxEdges \in Nat
  BY InfrastructureMapAssumption DEF MapKind
<1>2. Upto(map.edges, MaxEdges) \in Seq(Links)
  BY <1>1, UptoProperties
<1> QED BY <1>2, ValidLinksAre DEF Edges

\* The packet made of a review has a surface for every node of the map, and its edges as
\* links.
LEMMA PacketIs ==
  ASSUME NEW map \in MapKind
  PROVE  LET p == ScannerPacket(Review(map)) IN
         /\ IsScenario(p) /\ AllNormal(p.surfaces, p.links)
         /\ Len(p.surfaces) = Len(map.nodes)
         /\ \A i \in 1..Len(map.nodes) : p.surfaces[i] = Surface(Nodes(map)[i])
         /\ p.links = Edges(map)
<1> DEFINE r == Review(map)
           p == ScannerPacket(r)
           N == Nodes(map)
           E == Edges(map)
           S == [i \in DOMAIN r.nodes |-> Surface(r.nodes[i])]
           L == [k \in DOMAIN r.edges |-> [source |-> r.edges[k].source, target |-> r.edges[k].target,
                   trust |-> r.edges[k].trust, controlStrength |-> r.edges[k].controlStrength]]
<1>1. r.nodes = N /\ r.edges = E
  BY DEF Review
<1>2. p.surfaces = S /\ p.links = L /\ "surfaces" \in DOMAIN p /\ "links" \in DOMAIN p
  BY DEF ScannerPacket
<1> HIDE DEF r, p, N, E
<1>3. /\ Len(map.nodes) \in Nat /\ DOMAIN N = 1..Len(map.nodes)
      /\ \A i \in 1..Len(map.nodes) : NormalNode(N[i])
  BY NodesAre DEF N
<1>4. E \in Seq(Links) /\ \A k \in DOMAIN E : NormalLink(E[k], N)
  BY EdgesAre DEF E, N
<1>5. \A i \in 1..Len(map.nodes) : S[i] = Surface(N[i]) /\ NormalSurface(S[i]) /\ S[i].id = N[i].id
  BY <1>1, <1>3, SurfaceIs
<1>6. S = [i \in 1..Len(map.nodes) |-> S[i]]
  BY <1>1, <1>3
<1>7. L = E
  <2>1. DOMAIN L = DOMAIN E
    BY <1>1
  <2>2. ASSUME NEW k \in DOMAIN E PROVE L[k] = E[k]
    <3>1. E[k] \in Links
      BY <1>4
    <3>2. L[k] = [source |-> E[k].source, target |-> E[k].target, trust |-> E[k].trust,
                  controlStrength |-> E[k].controlStrength]
      BY <1>1
    <3> QED BY <3>1, <3>2 DEF Links
  <2>3. L = [k \in DOMAIN L |-> L[k]] /\ E = [k \in DOMAIN E |-> E[k]]
    BY <1>4
  <2> HIDE DEF L
  <2> QED BY <2>1, <2>2, <2>3
<1> HIDE DEF S, L
<1>8. S \in Seq(Surfaces) /\ Len(S) = Len(map.nodes) /\ DOMAIN S = 1..Len(map.nodes)
  BY <1>3, <1>5, <1>6 DEF NormalSurface
<1>9. \A k \in DOMAIN E : NormalLink(E[k], S)
  <2>1. \A l : Joins(l, S) <=> Joins(l, N)
    BY <1>3, <1>5, <1>8, JoinsById
  <2> QED BY <1>4, <2>1 DEF NormalLink
<1>10. AllNormal(S, E)
  BY <1>4, <1>5, <1>8, <1>9 DEF AllNormal
<1>11. IsScenario(p)
  BY <1>2, <1>4, <1>7, <1>8 DEF IsScenario
<1> QED BY <1>2, <1>5, <1>7, <1>8, <1>10, <1>11 DEF p, r, N, E

\* Of a map within its limits nothing is dropped or merged.
LEMMA PacketKept ==
  ASSUME NEW map \in MapKind, AcceptedMap(map), Len(Review(map).edges) <= MaxLinks
  PROVE  LET p == ScannerPacket(Review(map))
             valid == Validate(p)
         IN valid.links = p.links /\ Len(Rows(valid.surfaces, valid.links)) = Len(map.nodes)
<1> DEFINE p == ScannerPacket(Review(map))
           S == p.surfaces
           L == p.links
           n == Len(map.nodes)
<1>1. /\ IsScenario(p) /\ AllNormal(S, L) /\ Len(S) = n /\ L = Edges(map)
      /\ \A i \in 1..n : S[i] = Surface(Nodes(map)[i])
  BY PacketIs
<1>2. Review(map).edges = Edges(map)
  BY DEF Review
<1> HIDE DEF p
<1>3. Ready(p)
  BY <1>1, <1>2 DEF Ready, Normal
<1>4. Validate(p).surfaces = S /\ Validate(p).links = L
  BY <1>3, ReadyStays
<1> HIDE DEF S, L
<1>5. n \in Nat /\ \A i \in 1..n : S[i].id = Stripped[map.nodes[i].id]
  <2>1. n \in Nat
    BY NodesAre
  <2>2. ASSUME NEW i \in 1..n PROVE S[i].id = Stripped[map.nodes[i].id]
    <3>1. map.nodes[i] \in MapNodes /\ Nodes(map)[i] = NormalizedNode(map.nodes[i]) /\ NormalNode(Nodes(map)[i])
      BY NodesAre
    <3>2. Surface(Nodes(map)[i]).id = Nodes(map)[i].id
      BY <3>1, SurfaceIs
    <3>3. NormalizedNode(map.nodes[i]).id = Stripped[map.nodes[i].id]
      BY <3>1, NodeIs
    <3> QED BY <1>1, <3>1, <3>2, <3>3
  <2> QED BY <2>1, <2>2
<1>6. S \in Seq(Surfaces) /\ DOMAIN S = 1..n
  BY <1>1 DEF AllNormal
<1>7. FirstOf(S) = 1..n
  <2>1. \A i \in 1..n : \A j \in 1..(i - 1) : j \in 1..n /\ i # j
    BY <1>5
  <2>2. \A i, j \in 1..n : i # j => S[i].id # S[j].id
    <3>1. DOMAIN map.nodes = 1..n
      BY NodesAre
    <3>2. UniqueIds(map)
      BY DEF AcceptedMap
    <3> QED BY <1>5, <3>1, <3>2 DEF UniqueIds
  <2> HIDE DEF n
  <2> QED BY <1>6, <2>1, <2>2 DEF FirstOf
<1>8. RowCount(S, L) = n
  <2>1. Cardinality(1..n) = n
    BY <1>5, IntervalSize
  <2> HIDE DEF n
  <2> QED BY <1>1, <1>7, <2>1 DEF RowCount
<1>9. Len(Rows(S, L)) = n
  <2>1. Placing(Rows(S, L), S, RowCount(S, L), RowPlaces(S, L))
    BY <1>6, RowsAre
  <2>2. Rows(S, L) = [k \in 1..n |-> Rows(S, L)[k]]
    <3> HIDE DEF n
    <3> QED BY <1>8, <2>1 DEF Placing
  <2> HIDE DEF n
  <2> QED BY <1>5, <2>2, SegmentIsSequence
<1> QED BY <1>4, <1>9 DEF p, S, L

-----------------------------------------------------------------------------
(* One more control on a node *)

With(map, i, c) == [map EXCEPT !.nodes[i].controls = @ \cup {c}]

\* The same nodes, one of them with one control more.
Safer(N, M, n) ==
  /\ n \in Nat /\ Len(N) = n /\ Len(M) = n /\ DOMAIN N = 1..n /\ DOMAIN M = 1..n
  /\ \A j \in 1..n :
       /\ NormalNode(N[j]) /\ NormalNode(M[j])
       /\ N[j].id = M[j].id /\ N[j].kind = M[j].kind /\ N[j].zone = M[j].zone
       /\ N[j].flags = M[j].flags /\ N[j].criticality = M[j].criticality
       /\ N[j].exposure = M[j].exposure /\ N[j].telemetryConfidence = M[j].telemetryConfidence
       /\ M[j].controls \subseteq N[j].controls

\* A map with one more control on a node is a map that is safer there and the same elsewhere.
LEMMA WithIs ==
  ASSUME NEW map \in MapKind, NEW i \in 1..Len(map.nodes), NEW c \in Controls
  PROVE  /\ With(map, i, c) \in MapKind /\ Len(With(map, i, c).nodes) = Len(map.nodes)
         /\ Safer(Nodes(With(map, i, c)), Nodes(map), Len(map.nodes))
         /\ Edges(With(map, i, c)) = Edges(map)
<1> DEFINE S == map.nodes
           m == S[i]
           more == [m EXCEPT !.controls = m.controls \cup {c}]
           T == [S EXCEPT ![i] = more]
           w == With(map, i, c)
           n == Len(S)
<1>1. S \in Seq(MapNodes) /\ n \in Nat /\ DOMAIN S = 1..n /\ map.edges \in Seq(Links)
  BY DEF MapKind
<1>2. m \in MapNodes /\ more \in MapNodes
  <2>1. m \in MapNodes
    BY <1>1
  <2>2. m.controls \cup {c} \in SUBSET Controls
    BY <2>1 DEF MapNodes
  <2>3. more \in MapNodes
    <3> HIDE DEF m
    <3> QED BY <2>1, <2>2 DEF MapNodes
  <2> QED BY <2>1, <2>3
<1>3. w = [map EXCEPT !.nodes = T]
  BY DEF With
<1>4. /\ more.id = m.id /\ more.kind = m.kind /\ more.zone = m.zone /\ more.flags = m.flags
      /\ more.criticality = m.criticality /\ more.exposure = m.exposure
      /\ more.telemetryConfidence = m.telemetryConfidence /\ more.controls = m.controls \cup {c}
  <2> HIDE DEF m
  <2> QED BY <1>2 DEF MapNodes
<1> HIDE DEF more, m, n, S
<1>5. /\ T \in Seq(MapNodes) /\ Len(T) = n
      /\ T[i] = more /\ \A j \in 1..n : j # i => T[j] = S[j]
  BY <1>1, <1>2 DEF n, S
<1> HIDE DEF T, w
<1>6. w \in MapKind /\ w.nodes = T /\ w.edges = map.edges
  BY <1>1, <1>3, <1>5 DEF MapKind, S
<1>7. /\ Len(Nodes(map)) = n /\ DOMAIN Nodes(map) = 1..n
      /\ \A j \in 1..n : S[j] \in MapNodes /\ Nodes(map)[j] = NormalizedNode(S[j]) /\ NormalNode(Nodes(map)[j])
  BY NodesAre DEF n, S
<1>8. /\ Len(Nodes(w)) = n /\ DOMAIN Nodes(w) = 1..n
      /\ \A j \in 1..n : T[j] \in MapNodes /\ Nodes(w)[j] = NormalizedNode(T[j]) /\ NormalNode(Nodes(w)[j])
  BY <1>5, <1>6, NodesAre
<1> DEFINE N == Nodes(w)
           M == Nodes(map)
<1>9. ASSUME NEW j \in 1..n
      PROVE /\ NormalNode(N[j]) /\ NormalNode(M[j])
            /\ N[j].id = M[j].id /\ N[j].kind = M[j].kind /\ N[j].zone = M[j].zone
            /\ N[j].flags = M[j].flags /\ N[j].criticality = M[j].criticality
            /\ N[j].exposure = M[j].exposure /\ N[j].telemetryConfidence = M[j].telemetryConfidence
            /\ M[j].controls \subseteq N[j].controls
  <2>1. /\ T[j].id = S[j].id /\ T[j].kind = S[j].kind /\ T[j].zone = S[j].zone /\ T[j].flags = S[j].flags
        /\ T[j].criticality = S[j].criticality /\ T[j].exposure = S[j].exposure
        /\ T[j].telemetryConfidence = S[j].telemetryConfidence /\ S[j].controls \subseteq T[j].controls
    <3>1. CASE j = i
      BY <1>4, <1>5, <3>1 DEF m
    <3>2. CASE j # i
      BY <1>5, <3>2
    <3> QED BY <3>1, <3>2
  <2>2. /\ N[j].id = Stripped[T[j].id] /\ N[j].kind = T[j].kind /\ N[j].zone = T[j].zone
        /\ N[j].flags = T[j].flags /\ N[j].controls = T[j].controls
        /\ N[j].criticality = Clamp(T[j].criticality, 100) /\ N[j].exposure = Clamp(T[j].exposure, 100)
        /\ N[j].telemetryConfidence = Clamp(T[j].telemetryConfidence, 100)
    BY <1>8, NodeIs
  <2>3. /\ M[j].id = Stripped[S[j].id] /\ M[j].kind = S[j].kind /\ M[j].zone = S[j].zone
        /\ M[j].flags = S[j].flags /\ M[j].controls = S[j].controls
        /\ M[j].criticality = Clamp(S[j].criticality, 100) /\ M[j].exposure = Clamp(S[j].exposure, 100)
        /\ M[j].telemetryConfidence = Clamp(S[j].telemetryConfidence, 100)
    BY <1>7, NodeIs
  <2> HIDE DEF N, M
  <2>4. NormalNode(N[j]) /\ NormalNode(M[j])
    BY <1>7, <1>8 DEF N, M
  <2> QED BY <2>1, <2>2, <2>3, <2>4
<1> HIDE DEF N, M
<1>10. Safer(N, M, n)
  BY <1>1, <1>7, <1>8, <1>9 DEF Safer, N, M
<1>11. Edges(w) = Edges(map)
  <2>1. \A l : Joins(l, N) <=> Joins(l, M)
    BY <1>7, <1>8, <1>9, JoinsById DEF N, M
  <2> DEFINE L == Upto(map.edges, MaxEdges)
  <2>2. ValidLinks(L, N) = ValidLinks(L, M)
    BY <2>1 DEF ValidLinks
  <2> QED BY <1>6, <2>2 DEF Edges, N, M
<1> QED BY <1>5, <1>6, <1>10, <1>11 DEF w, N, M, n, S

\* What the local model says of a surface changes nothing else of it.
LEMMA JudgedMilder ==
  ASSUME NEW s \in Surfaces, NEW t \in Surfaces, NEW micro \in Micro, Milder(s, t)
  PROVE  /\ Judged(s, micro) \in Surfaces /\ Judged(t, micro) \in Surfaces
         /\ Milder(Judged(s, micro), Judged(t, micro))
<1> DEFINE b == IF s.id \in DOMAIN micro THEN micro[s.id] ELSE 0
<1>1. b \in -50..50
  BY ResearchAssumption
<1>2. s.id = t.id
  BY DEF Milder
<1>3. Judged(s, micro) = [s EXCEPT !.localMicro = b] /\ Judged(t, micro) = [t EXCEPT !.localMicro = b]
  BY <1>2 DEF Judged
<1> HIDE DEF b
<1> QED BY <1>1, <1>3 DEF Milder, Surfaces

\* Surfaces that are milder are no riskier together, whatever the local model says.
LEMMA ScanGrows ==
  ASSUME NEW p, IsScenario(p), NEW q, IsScenario(q), p.links = q.links,
         AllMilder(p.surfaces, q.surfaces), NEW micro \in Micro
  PROVE  Scan(p, micro).overall <= Scan(q, micro).overall
<1> DEFINE S == [i \in DOMAIN p.surfaces |-> Judged(p.surfaces[i], micro)]
           T == [i \in DOMAIN q.surfaces |-> Judged(q.surfaces[i], micro)]
           a == [p EXCEPT !.surfaces = S]
           b == [q EXCEPT !.surfaces = T]
           n == Len(p.surfaces)
<1>1. /\ n \in Nat /\ Len(q.surfaces) = n
      /\ DOMAIN p.surfaces = 1..n /\ DOMAIN q.surfaces = 1..n
      /\ \A i \in 1..n : /\ p.surfaces[i] \in Surfaces /\ q.surfaces[i] \in Surfaces
                         /\ Milder(p.surfaces[i], q.surfaces[i])
  BY DEF IsScenario, AllMilder
<1>2. Scan(p, micro) = Simulate(a) /\ Scan(q, micro) = Simulate(b)
  BY DEF Scan
<1>3. S = [i \in 1..n |-> Judged(p.surfaces[i], micro)] /\ T = [i \in 1..n |-> Judged(q.surfaces[i], micro)]
  BY <1>1
<1>4. \A i \in 1..n : /\ Judged(p.surfaces[i], micro) \in Surfaces
                      /\ Judged(q.surfaces[i], micro) \in Surfaces
                      /\ Milder(Judged(p.surfaces[i], micro), Judged(q.surfaces[i], micro))
  BY <1>1, JudgedMilder
<1> HIDE DEF S, T
<1>5. S \in Seq(Surfaces) /\ T \in Seq(Surfaces) /\ Len(S) = n /\ Len(T) = n
  BY <1>1, <1>3, <1>4
<1>6. AllMilder(S, T)
  BY <1>1, <1>3, <1>4, <1>5 DEF AllMilder
<1>7. /\ a.surfaces = S /\ a.links = p.links /\ DOMAIN a = DOMAIN p
      /\ b.surfaces = T /\ b.links = q.links /\ DOMAIN b = DOMAIN q
  BY DEF IsScenario
<1> HIDE DEF a, b
<1>8. IsScenario(a) /\ IsScenario(b)
  BY <1>5, <1>7 DEF IsScenario
<1>9. Simulate(a).overall <= Simulate(b).overall
  BY <1>6, <1>7, <1>8, SimulateGrows
<1> QED BY <1>2, <1>9

\* The twin of the map is no riskier.
LEMMA WithIsMilder ==
  ASSUME NEW map \in MapKind, NEW i \in 1..Len(map.nodes), NEW c \in Controls, NEW micro \in Micro
  PROVE  Scan(ScannerPacket(Review(With(map, i, c))), micro).overall
           <= Scan(ScannerPacket(Review(map)), micro).overall
<1> DEFINE w == With(map, i, c)
           p == ScannerPacket(Review(w))
           q == ScannerPacket(Review(map))
           n == Len(map.nodes)
<1>1. w \in MapKind /\ Len(w.nodes) = n /\ Safer(Nodes(w), Nodes(map), n) /\ Edges(w) = Edges(map)
  BY WithIs
<1> HIDE DEF w
<1>2. /\ IsScenario(p) /\ Len(p.surfaces) = n /\ p.links = Edges(map)
      /\ \A j \in 1..n : p.surfaces[j] = Surface(Nodes(w)[j])
  BY <1>1, PacketIs
<1>3. /\ IsScenario(q) /\ Len(q.surfaces) = n /\ q.links = Edges(map)
      /\ \A j \in 1..n : q.surfaces[j] = Surface(Nodes(map)[j])
  BY PacketIs
<1> HIDE DEF p, q
<1>4. ASSUME NEW j \in 1..n PROVE Milder(p.surfaces[j], q.surfaces[j])
  <2> DEFINE a == Nodes(w)[j]
             b == Nodes(map)[j]
  <2>1. /\ NormalNode(a) /\ NormalNode(b) /\ a.id = b.id /\ a.flags = b.flags
        /\ a.criticality = b.criticality /\ a.exposure = b.exposure
        /\ a.telemetryConfidence = b.telemetryConfidence /\ b.controls \subseteq a.controls
    BY <1>1 DEF Safer
  <2>2. p.surfaces[j] = Surface(a) /\ q.surfaces[j] = Surface(b)
    BY <1>2, <1>3
  <2> HIDE DEF a, b
  <2> QED BY <2>1, <2>2, SurfaceMilder
<1>5. AllMilder(p.surfaces, q.surfaces)
  BY <1>2, <1>3, <1>4 DEF AllMilder
<1> QED BY <1>2, <1>3, <1>5, ScanGrows DEF p, q, w

-----------------------------------------------------------------------------
(* Rules *)

\* A rule as the review applies it.
IsRule(r) == r.finding.severity \in {"critical", "high", "medium"}

\* What a rule finds at one place it finds at the other, with less or more reason.
Excuses(r, s) == r.finding = s.finding /\ (r.faulty => s.faulty) /\ IsRule(s)

\* A finding weighs a natural number.
LEMMA WeightIs ==
  ASSUME NEW r, IsRule(r)
  PROVE  SeverityWeight(r.finding) \in Nat
<1> DEFINE s == r.finding.severity
           k == Severity(r.finding)
<1>1. Severities[1] = "critical" /\ Severities[2] = "high" /\ Severities[3] = "medium"
      /\ DOMAIN Severities = 1..3
  BY DEF Severities
<1>2. \E j \in DOMAIN Severities : Severities[j] = s
  <2>1. CASE s = "critical"
    BY <1>1, <2>1
  <2>2. CASE s = "high"
    BY <1>1, <2>2
  <2>3. CASE s = "medium"
    BY <1>1, <2>3
  <2> QED BY <2>1, <2>2, <2>3 DEF IsRule
<1>3. k \in 1..3
  BY <1>1, <1>2 DEF Severity
<1>4. SeverityWeight(r.finding) = <<100, 76, 48>>[k]
  BY DEF SeverityWeight
<1> HIDE DEF k
<1> QED BY <1>3, <1>4

\* One rule, with less or more reason.
LEMMA RuleExcuses ==
  ASSUME NEW less, NEW more, less => more, NEW severity \in {"critical", "high", "medium"},
         NEW category, NEW ids
  PROVE  Excuses(Rule(less, severity, category, ids), Rule(more, severity, category, ids))
<1>1. /\ Rule(less, severity, category, ids).finding = Rule(more, severity, category, ids).finding
      /\ Rule(more, severity, category, ids).finding.severity = severity
  BY DEF Rule
<1>2. Rule(less, severity, category, ids).faulty = less /\ Rule(more, severity, category, ids).faulty = more
  BY DEF Rule
<1>3. Rule(less, severity, category, ids).faulty => Rule(more, severity, category, ids).faulty
  BY <1>2, Zenon
<1> QED BY <1>1, <1>3 DEF Excuses, IsRule

\* The rules of a node, with more controls.
LEMMA NodeRulesExcuse ==
  ASSUME NEW a, NEW b, NEW degree,
         a.id = b.id, a.kind = b.kind, a.flags = b.flags, a.criticality = b.criticality,
         b.controls \subseteq a.controls, NEW x \in 1..6
  PROVE  Excuses(NodeRules(a, degree)[x], NodeRules(b, degree)[x])
<1>1. CASE x = 1
  <2> DEFINE p == degree = 0
  <2>1. /\ NodeRules(a, degree)[x] = Rule(p, "medium", "inventory", <<b.id>>)
        /\ NodeRules(b, degree)[x] = Rule(p, "medium", "inventory", <<b.id>>)
    BY <1>1 DEF NodeRules
  <2> HIDE DEF p
  <2> QED BY <2>1, RuleExcuses
<1>2. CASE x = 2
  <2> DEFINE p == "internetFacing" \in b.flags /\ "logging" \notin a.controls
             q == "internetFacing" \in b.flags /\ "logging" \notin b.controls
  <2>1. /\ NodeRules(a, degree)[x] = Rule(p, "high", "telemetry", <<b.id>>)
        /\ NodeRules(b, degree)[x] = Rule(q, "high", "telemetry", <<b.id>>)
    BY <1>2 DEF NodeRules
  <2>2. p => q
    OBVIOUS
  <2> HIDE DEF p, q
  <2> QED BY <2>1, <2>2, RuleExcuses
<1>3. CASE x = 3
  <2> DEFINE p == "privileged" \in b.flags /\ "mfa" \notin a.controls
             q == "privileged" \in b.flags /\ "mfa" \notin b.controls
  <2>1. /\ NodeRules(a, degree)[x] = Rule(p, "critical", "identity", <<b.id>>)
        /\ NodeRules(b, degree)[x] = Rule(q, "critical", "identity", <<b.id>>)
    BY <1>3 DEF NodeRules
  <2>2. p => q
    OBVIOUS
  <2> HIDE DEF p, q
  <2> QED BY <2>1, <2>2, RuleExcuses
<1>4. CASE x = 4
  <2> DEFINE p == "sensitive" \in b.flags /\ "encryption" \notin a.controls
             q == "sensitive" \in b.flags /\ "encryption" \notin b.controls
  <2>1. /\ NodeRules(a, degree)[x] = Rule(p, "high", "data", <<b.id>>)
        /\ NodeRules(b, degree)[x] = Rule(q, "high", "data", <<b.id>>)
    BY <1>4 DEF NodeRules
  <2>2. p => q
    OBVIOUS
  <2> HIDE DEF p, q
  <2> QED BY <2>1, <2>2, RuleExcuses
<1>5. CASE x = 5
  <2> DEFINE p == b.criticality >= 80 /\ "backup" \notin a.controls /\ b.kind = "server"
             q == b.criticality >= 80 /\ "backup" \notin b.controls /\ b.kind = "server"
  <2>1. /\ NodeRules(a, degree)[x] = Rule(p, "high", "resilience", <<b.id>>)
        /\ NodeRules(b, degree)[x] = Rule(q, "high", "resilience", <<b.id>>)
    BY <1>5 DEF NodeRules
  <2>2. p => q
    OBVIOUS
  <2> HIDE DEF p, q
  <2> QED BY <2>1, <2>2, RuleExcuses
<1>6. CASE x = 6
  <2> DEFINE p == degree >= 4 /\ b.criticality >= 70
  <2>1. /\ NodeRules(a, degree)[x] = Rule(p, "high", "concentration", <<b.id>>)
        /\ NodeRules(b, degree)[x] = Rule(p, "high", "concentration", <<b.id>>)
    BY <1>6 DEF NodeRules
  <2> HIDE DEF p
  <2> QED BY <2>1, RuleExcuses
<1> QED BY <1>1, <1>2, <1>3, <1>4, <1>5, <1>6

\* The rules of an edge, with more controls at its ends.
LEMMA EdgeRulesExcuse ==
  ASSUME NEW e, NEW a, NEW b, NEW c, NEW d,
         a.id = b.id, a.zone = b.zone, b.controls \subseteq a.controls,
         c.id = d.id, c.zone = d.zone, d.controls \subseteq c.controls, NEW x \in 1..2
  PROVE  Excuses(EdgeRules(e, a, c)[x], EdgeRules(e, b, d)[x])
<1>1. CASE x = 1
  BY <1>1 DEF EdgeRules, Rule, Excuses, IsRule
<1>2. CASE x = 2
  BY <1>2 DEF EdgeRules, Rule, Excuses, IsRule
<1> QED BY <1>1, <1>2

\* Where ids are unique, a node is found at its place.
LEMMA NodeFound ==
  ASSUME NEW N, NEW M, NEW n, Safer(N, M, n),
         \A j, k \in 1..n : j # k => M[j].id # M[k].id,
         NEW id \in Ids(M)
  PROVE  \E j \in 1..n : Node(N, id) = N[j] /\ Node(M, id) = M[j]
<1>1. PICK j \in 1..n : M[j].id = id
  BY DEF Safer, Ids
<1>2. DOMAIN N = 1..n /\ DOMAIN M = 1..n /\ \A k \in 1..n : N[k].id = M[k].id
  BY DEF Safer
<1>3. Node(M, id) = M[j]
  <2>1. M[j] \in ToSet(M) /\ \A m \in ToSet(M) : m.id = id => m = M[j]
    BY <1>1, <1>2 DEF ToSet
  <2> QED BY <1>1, <2>1 DEF Node
<1>4. Node(N, id) = N[j]
  <2>1. N[j] \in ToSet(N) /\ \A m \in ToSet(N) : m.id = id => m = N[j]
    BY <1>1, <1>2 DEF ToSet
  <2> QED BY <1>1, <1>2, <2>1 DEF Node
<1> QED BY <1>3, <1>4

\* All rules of a review, in the order in which they are applied.
RulesOf(nodes, edges) ==
  Chained([i \in DOMAIN nodes |-> NodeRules(nodes[i], Cardinality(Neighbours(nodes[i].id, edges)))], 6)
  \o Chained([k \in DOMAIN edges |->
                EdgeRules(edges[k], Node(nodes, edges[k].source), Node(nodes, edges[k].target))], 2)

\* Rows of rules, one excusing the other, also one after the other.
LEMMA ChainedExcuse ==
  ASSUME NEW R, NEW Q, IsSequence(R), IsSequence(Q), Len(R) = Len(Q), NEW w \in Nat \ {0},
         \A j \in 1..Len(R), x \in 1..w : Excuses(R[j][x], Q[j][x])
  PROVE  /\ IsSequence(Chained(R, w)) /\ IsSequence(Chained(Q, w))
         /\ Len(Chained(R, w)) = Len(Chained(Q, w))
         /\ \A m \in 1..Len(Chained(R, w)) : Excuses(Chained(R, w)[m], Chained(Q, w)[m])
<1>1. /\ IsSequence(Chained(R, w)) /\ Len(Chained(R, w)) = Len(R) * w
      /\ \A m \in 1..(Len(R) * w) :
           /\ Quotient(m, w) \in 1..Len(R) /\ Remainder(m, w) \in 1..w
           /\ Chained(R, w)[m] = R[Quotient(m, w)][Remainder(m, w)]
  BY ChainedIs
<1>2. /\ IsSequence(Chained(Q, w)) /\ Len(Chained(Q, w)) = Len(R) * w
      /\ \A m \in 1..(Len(R) * w) : Chained(Q, w)[m] = Q[Quotient(m, w)][Remainder(m, w)]
  BY ChainedIs
<1> DEFINE all == Len(R) * w
           c == Chained(R, w)
           d == Chained(Q, w)
<1> HIDE DEF all, c, d
<1>3. ASSUME NEW m \in 1..all PROVE Excuses(c[m], d[m])
  <2> DEFINE j == Quotient(m, w)
             x == Remainder(m, w)
  <2>1. j \in 1..Len(R) /\ x \in 1..w /\ c[m] = R[j][x] /\ d[m] = Q[j][x]
    BY <1>1, <1>2 DEF all, c, d
  <2> HIDE DEF j, x
  <2> QED BY <2>1
<1>4. Len(c) = all /\ Len(d) = all /\ IsSequence(c) /\ IsSequence(d)
  BY <1>1, <1>2 DEF all, c, d
<1> QED BY <1>3, <1>4 DEF c, d

\* More controls, fewer faults: rule by rule.
LEMMA RulesExcuse ==
  ASSUME NEW N, NEW M, NEW n, Safer(N, M, n), \A j, k \in 1..n : j # k => M[j].id # M[k].id,
         NEW E \in Seq(Links), \A k \in DOMAIN E : NormalLink(E[k], M)
  PROVE  /\ IsSequence(RulesOf(N, E)) /\ IsSequence(RulesOf(M, E))
         /\ Len(RulesOf(N, E)) = Len(RulesOf(M, E))
         /\ \A m \in 1..Len(RulesOf(N, E)) : Excuses(RulesOf(N, E)[m], RulesOf(M, E)[m])
<1> DEFINE A(S) == [i \in DOMAIN S |-> NodeRules(S[i], Cardinality(Neighbours(S[i].id, E)))]
           B(S) == [k \in DOMAIN E |-> EdgeRules(E[k], Node(S, E[k].source), Node(S, E[k].target))]
           e == Len(E)
<1>1. n \in Nat /\ DOMAIN N = 1..n /\ DOMAIN M = 1..n /\ e \in Nat /\ DOMAIN E = 1..e
  BY DEF Safer
<1>2. /\ A(N) = [i \in 1..n |-> A(N)[i]] /\ A(M) = [i \in 1..n |-> A(M)[i]]
      /\ B(N) = [k \in 1..e |-> B(N)[k]] /\ B(M) = [k \in 1..e |-> B(M)[k]]
  BY <1>1
<1>3. /\ \A i \in 1..n : A(N)[i] = NodeRules(N[i], Cardinality(Neighbours(N[i].id, E)))
      /\ \A i \in 1..n : A(M)[i] = NodeRules(M[i], Cardinality(Neighbours(M[i].id, E)))
      /\ \A k \in 1..e : B(N)[k] = EdgeRules(E[k], Node(N, E[k].source), Node(N, E[k].target))
      /\ \A k \in 1..e : B(M)[k] = EdgeRules(E[k], Node(M, E[k].source), Node(M, E[k].target))
  BY <1>1
<1> DEFINE an == A(N)
           am == A(M)
           bn == B(N)
           bm == B(M)
<1>4. RulesOf(N, E) = Chained(an, 6) \o Chained(bn, 2) /\ RulesOf(M, E) = Chained(am, 6) \o Chained(bm, 2)
  BY DEF RulesOf
<1> HIDE DEF an, am, bn, bm, e
<1>5. IsSequence(an) /\ IsSequence(am) /\ Len(an) = n /\ Len(am) = n
  BY <1>1, <1>2, SegmentIsSequence DEF an, am
<1>6. IsSequence(bn) /\ IsSequence(bm) /\ Len(bn) = e /\ Len(bm) = e
  BY <1>1, <1>2, SegmentIsSequence DEF bn, bm
<1>7. ASSUME NEW j \in 1..n, NEW x \in 1..6 PROVE Excuses(an[j][x], am[j][x])
  <2> DEFINE dn == Cardinality(Neighbours(N[j].id, E))
             dm == Cardinality(Neighbours(M[j].id, E))
             a == N[j]
             b == M[j]
  <2>1. an[j] = NodeRules(a, dn) /\ am[j] = NodeRules(b, dm)
    BY <1>3 DEF an, am
  <2>2. /\ NormalNode(a) /\ NormalNode(b) /\ a.id = b.id /\ a.kind = b.kind /\ a.flags = b.flags
        /\ a.criticality = b.criticality /\ b.controls \subseteq a.controls
    BY DEF Safer
  <2>3. dn = dm
    BY <2>2
  <2> HIDE DEF dn, dm, a, b
  <2> QED BY <2>1, <2>2, <2>3, NodeRulesExcuse
<1>8. ASSUME NEW j \in 1..e, NEW x \in 1..2 PROVE Excuses(bn[j][x], bm[j][x])
  <2>1. E[j].source \in Ids(M) /\ E[j].target \in Ids(M)
    BY <1>1 DEF NormalLink, Joins, e
  <2>2. PICK s \in 1..n : Node(N, E[j].source) = N[s] /\ Node(M, E[j].source) = M[s]
    BY <2>1, NodeFound
  <2>3. PICK t \in 1..n : Node(N, E[j].target) = N[t] /\ Node(M, E[j].target) = M[t]
    BY <2>1, NodeFound
  <2>4. bn[j] = EdgeRules(E[j], N[s], N[t]) /\ bm[j] = EdgeRules(E[j], M[s], M[t])
    BY <1>3, <2>2, <2>3 DEF bn, bm
  <2>5. \A k \in 1..n : N[k].id = M[k].id /\ N[k].zone = M[k].zone /\ M[k].controls \subseteq N[k].controls
    BY DEF Safer
  <2> DEFINE a == N[s]
             b == M[s]
             c == N[t]
             d == M[t]
  <2>6. /\ a.id = b.id /\ a.zone = b.zone /\ b.controls \subseteq a.controls
        /\ c.id = d.id /\ c.zone = d.zone /\ d.controls \subseteq c.controls
    BY <2>5
  <2> HIDE DEF a, b, c, d
  <2>7. Excuses(EdgeRules(E[j], a, c)[x], EdgeRules(E[j], b, d)[x])
    BY <2>6, EdgeRulesExcuse
  <2> QED BY <2>4, <2>7 DEF a, b, c, d
<1> DEFINE six == 6
           two == 2
<1>9. six \in Nat \ {0} /\ two \in Nat \ {0}
  OBVIOUS
<1>10. \A j \in 1..Len(an), x \in 1..six : Excuses(an[j][x], am[j][x])
  BY <1>5, <1>7
<1>11. \A j \in 1..Len(bn), x \in 1..two : Excuses(bn[j][x], bm[j][x])
  BY <1>6, <1>8
<1>12. RulesOf(N, E) = Chained(an, six) \o Chained(bn, two) /\ RulesOf(M, E) = Chained(am, six) \o Chained(bm, two)
  BY <1>4
<1> HIDE DEF six, two
<1> DEFINE p == Chained(an, six)
           q == Chained(am, six)
           r == Chained(bn, two)
           s == Chained(bm, two)
<1>13. /\ IsSequence(p) /\ IsSequence(q) /\ Len(p) = Len(q) /\ \A m \in 1..Len(p) : Excuses(p[m], q[m])
  BY <1>5, <1>9, <1>10, ChainedExcuse
<1>14. /\ IsSequence(r) /\ IsSequence(s) /\ Len(r) = Len(s) /\ \A m \in 1..Len(r) : Excuses(r[m], s[m])
  BY <1>6, <1>9, <1>11, ChainedExcuse
<1> HIDE DEF p, q, r, s
<1>15. Concatenates(p \o r, p, r) /\ Concatenates(q \o s, q, s)
  BY <1>13, <1>14, JoinedSequences
<1> DEFINE u == p \o r
           v == q \o s
<1> HIDE DEF u, v
<1>16. /\ IsSequence(u) /\ IsSequence(v) /\ DOMAIN u = 1..(Len(p) + Len(r)) /\ DOMAIN v = DOMAIN u
       /\ Len(p) \in Nat /\ Len(r) \in Nat
       /\ \A k \in 1..Len(p) : u[k] = p[k] /\ v[k] = q[k]
       /\ \A k \in 1..Len(r) : u[Len(p) + k] = r[k] /\ v[Len(p) + k] = s[k]
  BY <1>13, <1>14, <1>15 DEF Concatenates, u, v
<1>17. Len(u) = Len(p) + Len(r) /\ Len(v) = Len(u)
  BY <1>16 DEF IsSequence
<1>18. ASSUME NEW m \in 1..Len(u) PROVE Excuses(u[m], v[m])
  <2>1. CASE m \in 1..Len(p)
    BY <1>13, <1>16, <2>1
  <2>2. CASE m \notin 1..Len(p)
    <3> DEFINE k == m - Len(p)
    <3>1. k \in 1..Len(r) /\ m = Len(p) + k
      BY <1>16, <1>17, <2>2
    <3> HIDE DEF k
    <3> QED BY <1>14, <1>16, <3>1
  <2> QED BY <2>1, <2>2
<1> QED BY <1>12, <1>16, <1>17, <1>18 DEF p, q, r, s, u, v

-----------------------------------------------------------------------------
(* The pressure of a map *)

Weighs(R) == [m \in 1..Len(R) |-> IF R[m].faulty THEN SeverityWeight(R[m].finding) ELSE 0]

\* The weight of what rules find is that of the rules that find fault.
LEMMA FoundWeight ==
  ASSUME NEW R, IsSequence(R), \A m \in 1..Len(R) : IsRule(R[m])
  PROVE  /\ Weighs(R) \in Seq(Int) /\ Len(Weighs(R)) = Len(R)
         /\ Total([k \in DOMAIN Found(R) |-> SeverityWeight(Found(R)[k])]) = Total(Weighs(R))
<1> DEFINE n == Len(R)
           s == [m \in 1..n |-> SeverityWeight(R[m].finding)]
           places == {m \in DOMAIN R : R[m].faulty}
           all == Items(R, places)
           F == Found(R)
           t == [k \in DOMAIN s |-> IF k \in places THEN s[k] ELSE 0]
           picked == [k \in DOMAIN F |-> SeverityWeight(F[k])]
<1>1. n \in Nat /\ DOMAIN R = 1..n
  BY DEF IsSequence
<1>2. \A m \in 1..n : s[m] = SeverityWeight(R[m].finding) /\ s[m] \in Nat
  BY WeightIs
<1>3. s \in Seq(Int) /\ DOMAIN s = 1..n /\ Len(s) = n
  <2>1. s = [m \in 1..n |-> s[m]]
    OBVIOUS
  <2> HIDE DEF s
  <2> QED BY <1>1, <1>2, <2>1
<1>4. places \in SUBSET DOMAIN s
  BY <1>1, <1>3
<1>5. t = Weighs(R)
  <2>1. \A k \in 1..n : k \in places <=> R[k].faulty
    BY <1>1
  <2> HIDE DEF places
  <2>2. t = [k \in 1..n |-> IF k \in places THEN s[k] ELSE 0]
    BY <1>3
  <2>3. Weighs(R) = [m \in 1..n |-> IF R[m].faulty THEN SeverityWeight(R[m].finding) ELSE 0]
    BY DEF Weighs
  <2>4. \A k \in 1..n : (IF k \in places THEN s[k] ELSE 0) = IF R[k].faulty THEN SeverityWeight(R[k].finding) ELSE 0
    BY <1>2, <2>1
  <2> HIDE DEF s, t
  <2> QED BY <2>2, <2>3, <2>4
<1>6. Items(s, places) \in Seq(Int) /\ t \in Seq(Int) /\ Total(Items(s, places)) = Total(t)
  <2> HIDE DEF s, places
  <2> QED BY <1>3, <1>4, TotalOfItems
<1>7. picked = Items(s, places)
  <2> DEFINE c == Cardinality(places)
             g == Placed(n, places)
  <2>1. Picks(g, all, R, places)
    <3>1. places \in SUBSET DOMAIN R
      OBVIOUS
    <3> HIDE DEF places
    <3> QED BY <3>1, PlacedPicks
  <2>2. Picks(g, Items(s, places), s, places)
    <3>1. IsSequence(s)
      <4>1. s = [m \in 1..n |-> s[m]]
        OBVIOUS
      <4> HIDE DEF s
      <4> QED BY <1>1, <4>1, SegmentIsSequence
    <3> HIDE DEF places, s
    <3> QED BY <1>3, <1>4, <3>1, PlacedPicks
  <2>3. F = [k \in DOMAIN all |-> all[k].finding]
    BY DEF Found
  <2>4. /\ all = [k \in 1..c |-> R[g[k]]] /\ Items(s, places) = [k \in 1..c |-> s[g[k]]]
        /\ \A k \in 1..c : g[k] \in 1..n
    <3> HIDE DEF g, s, all
    <3>1. /\ all = [k \in 1..c |-> R[g[k]]] /\ Items(s, places) = [k \in 1..c |-> s[g[k]]]
          /\ g \in [1..c -> places]
      BY <2>1, <2>2 DEF Picks
    <3> HIDE DEF places, c
    <3>2. \A k \in 1..c : g[k] \in places
      BY <3>1
    <3> QED BY <1>3, <1>4, <3>1, <3>2
  <2> DEFINE u == Items(s, places)
  <2> HIDE DEF all, F, g, c, u
  <2>5. DOMAIN F = 1..c /\ \A k \in 1..c : F[k] = R[g[k]].finding
    BY <2>3, <2>4
  <2>6. u = [k \in 1..c |-> s[g[k]]]
    BY <2>4 DEF u
  <2>7. \A k \in 1..c : SeverityWeight(F[k]) = s[g[k]]
    BY <1>2, <2>4, <2>5
  <2> HIDE DEF s
  <2>8. picked = [k \in 1..c |-> s[g[k]]]
    BY <2>5, <2>7
  <2> QED BY <2>6, <2>8 DEF u
<1>8. Len(t) = n
  <2> HIDE DEF s, places
  <2> QED BY <1>1, <1>3
<1> HIDE DEF picked, s, places, t
<1> QED BY <1>5, <1>6, <1>7, <1>8 DEF picked, F

\* Less is found where every rule has less reason.
LEMMA WeightGrows ==
  ASSUME NEW R, NEW Q, IsSequence(R), IsSequence(Q), Len(R) = Len(Q),
         \A m \in 1..Len(R) : Excuses(R[m], Q[m])
  PROVE  LET T(P) == Total([k \in DOMAIN Found(P) |-> SeverityWeight(Found(P)[k])])
         IN T(R) \in Int /\ T(Q) \in Int /\ T(R) <= T(Q)
<1> DEFINE n == Len(R)
           a == Weighs(R)
           b == Weighs(Q)
<1>1. \A m \in 1..n : IsRule(R[m]) /\ IsRule(Q[m])
  BY DEF Excuses, IsRule
<1>2. /\ a \in Seq(Int) /\ Len(a) = n
      /\ Total([k \in DOMAIN Found(R) |-> SeverityWeight(Found(R)[k])]) = Total(a)
  BY <1>1, FoundWeight
<1>3. /\ b \in Seq(Int) /\ Len(b) = n
      /\ Total([k \in DOMAIN Found(Q) |-> SeverityWeight(Found(Q)[k])]) = Total(b)
  BY <1>1, FoundWeight
<1>4. ASSUME NEW m \in 1..n PROVE a[m] <= b[m]
  <2> DEFINE v == SeverityWeight(R[m].finding)
  <2>1. a[m] = (IF R[m].faulty THEN v ELSE 0) /\ b[m] = (IF Q[m].faulty THEN v ELSE 0)
    BY DEF Weighs, Excuses
  <2>2. v \in Nat
    BY <1>1, WeightIs
  <2>3. R[m].faulty => Q[m].faulty
    BY DEF Excuses
  <2> HIDE DEF v, a, b
  <2>4. CASE R[m].faulty
    BY <2>1, <2>2, <2>3, <2>4
  <2>5. CASE ~R[m].faulty
    BY <2>1, <2>2, <2>5
  <2> QED BY <2>4, <2>5
<1> HIDE DEF a, b, n
<1>5. Total(a) \in Int /\ Total(b) \in Int /\ Total(a) <= Total(b)
  BY <1>2, <1>3, <1>4, TotalGrows
<1> QED BY <1>2, <1>3, <1>5

\* There is a square root in thousandths of every number.
LEMMA RootIs ==
  ASSUME NEW n \in Nat
  PROVE  Root(n) \in Nat
<1> DEFINE top == n * 1000
           all == n * 1000 * 1000
           S == {r \in 0..top : r * r <= all}
           v == [r \in S |-> r]
<1>1. top \in Nat /\ all \in Nat /\ all = top * 1000
  OBVIOUS
<1> HIDE DEF top, all
<1>2. IsFiniteSet(S) /\ 0 \in S
  <2>1. IsFiniteSet(0..top)
    BY <1>1, FS_Interval
  <2>2. 0 \in S
    BY <1>1
  <2> QED BY <2>1, <2>2, FS_Subset
<1>3. \A r \in S : v[r] = r /\ r \in 0..top /\ r * r <= all
  OBVIOUS
<1>4. \A r \in 0..top : r * r <= all => r \in S
  OBVIOUS
<1> HIDE DEF S, v
<1>5. PICK m \in S : \A r \in S : r <= m
  <2>1. \A r \in S : v[r] \in Int
    BY <1>1, <1>3
  <2>2. \E m \in S : \A r \in S : v[r] <= v[m]
    BY <1>2, <2>1, GreatestOfSet
  <2> QED BY <1>3, <2>2
<1>6. m \in Nat /\ m <= top /\ m * m <= all /\ m + 1 \in Nat
  BY <1>1, <1>3
<1>7. (m + 1) * (m + 1) > all
  <2> DEFINE k == m + 1
  <2>1. k \in Nat /\ k > 0 /\ k * k \in Nat
    BY <1>6
  <2> HIDE DEF k
  <2>2. SUFFICES ASSUME k * k <= all PROVE FALSE
    BY <1>1, <2>1 DEF k
  <2>3. k > top
    <3> SUFFICES ASSUME k <= top PROVE FALSE
      BY <1>1, <2>1
    <3>1. k \in S
      BY <1>1, <1>4, <2>1, <2>2
    <3>2. k <= m
      BY <1>5, <3>1
    <3> QED BY <1>6, <3>2 DEF k
  <2>4. CASE top = 0
    <3>1. all = 0
      BY <1>1, <2>4
    <3>2. k * k > 0
      <4>1. 1 <= k /\ 1 * k <= k * k
        BY <2>1, TimesGrows
      <4> QED BY <2>1, <4>1
    <3> QED BY <2>1, <2>2, <3>1, <3>2
  <2>5. CASE top # 0
    <3>1. top >= 1000
      BY <1>1, <2>5 DEF top
    <3>2. top * 1000 < k * 1000
      BY <1>1, <2>1, <2>3
    <3>3. 1000 <= k /\ 1000 \in Int
      BY <1>1, <2>1, <2>3, <3>1
    <3>4. 1000 * k <= k * k
      BY <2>1, <3>3, TimesGrows
    <3> QED BY <1>1, <2>1, <2>2, <3>2, <3>4
  <2> QED BY <2>4, <2>5
<1>8. \E r \in 0..(n * One) : r * r <= n * One * One /\ (r + 1) * (r + 1) > n * One * One
  <2>1. m \in 0..top
    BY <1>1, <1>6
  <2> QED BY <1>6, <1>7, <2>1 DEF top, all, One
<1>9. Root(n) \in 0..(n * One) /\ n * One \in Nat
  <2>1. Root(n) \in 0..(n * One)
    BY <1>8, Zenon DEF Root
  <2> QED BY <2>1 DEF One
<1> QED BY <1>9

\* The pressure grows with the weight, on as many nodes.
LEMMA TopologyPressureGrows ==
  ASSUME NEW N, NEW M, Len(N) = Len(M), Len(M) \in Nat, NEW F, NEW G,
         NEW a \in Int, NEW b \in Int, a <= b,
         a = Total([k \in DOMAIN F |-> SeverityWeight(F[k])]),
         b = Total([k \in DOMAIN G |-> SeverityWeight(G[k])])
  PROVE  TopologyPressure(N, F) <= TopologyPressure(M, G)
<1> DEFINE r == Root(Len(M))
           room == IF (35 * r) \div 10 > 4000 THEN (35 * r) \div 10 ELSE 4000
<1>1. r \in Nat
  BY RootIs
<1>2. room \in Nat \ {0}
  <2> HIDE DEF r
  <2> QED BY <1>1
<1> HIDE DEF r
<1> DEFINE x == ((10 * a) * One) \div room
           y == ((10 * b) * One) \div room
<1>3. TopologyPressure(N, F) = Least(One, x) /\ TopologyPressure(M, G) = Least(One, y)
  BY DEF TopologyPressure, r
<1>4. (10 * a) * One \in Int /\ (10 * b) * One \in Int /\ (10 * a) * One <= (10 * b) * One
  BY DEF One
<1> HIDE DEF room
<1>5. x \in Int /\ y \in Int /\ x <= y
  <2> DEFINE c == (10 * a) * One
             d == (10 * b) * One
  <2>1. c \in Int /\ d \in Int /\ c <= d
    BY <1>4
  <2> HIDE DEF c, d
  <2>2. c \div room \in Int /\ d \div room \in Int /\ c \div room <= d \div room
    BY <1>2, <2>1, DivGrows
  <2> QED BY <2>2 DEF c, d
<1> HIDE DEF x, y
<1> QED BY <1>3, <1>5 DEF Least, One

\* A map with one control more is under no more pressure.
LEMMA WithLessPressure ==
  ASSUME NEW map \in MapKind, AcceptedMap(map), NEW i \in 1..Len(map.nodes), NEW c \in Controls
  PROVE  Review(With(map, i, c)).pressure <= Review(map).pressure
<1> DEFINE w == With(map, i, c)
           N == Nodes(w)
           M == Nodes(map)
           E == Edges(map)
           n == Len(map.nodes)
           R == RulesOf(N, E)
           Q == RulesOf(M, E)
<1>1. Safer(N, M, n) /\ Edges(w) = E
  BY WithIs
<1>2. \A j, k \in 1..n : j # k => M[j].id # M[k].id
  <2>1. /\ DOMAIN map.nodes = 1..n
        /\ \A j \in 1..n : map.nodes[j] \in MapNodes /\ M[j] = NormalizedNode(map.nodes[j])
    BY NodesAre
  <2>2. \A j \in 1..n : M[j].id = Stripped[map.nodes[j].id]
    BY <2>1, NodeIs
  <2>3. UniqueIds(map)
    BY DEF AcceptedMap
  <2> HIDE DEF M, n
  <2> QED BY <2>1, <2>2, <2>3 DEF UniqueIds
<1>3. E \in Seq(Links) /\ \A k \in DOMAIN E : NormalLink(E[k], M)
  BY EdgesAre
<1>4. /\ Review(w).pressure = TopologyPressure(N, Found(R))
      /\ Review(map).pressure = TopologyPressure(M, Found(Q))
  BY <1>1 DEF Review, AllFindings, RulesOf
<1> HIDE DEF w, N, M, E, n
<1>5. /\ IsSequence(R) /\ IsSequence(Q) /\ Len(R) = Len(Q)
      /\ \A m \in 1..Len(R) : Excuses(R[m], Q[m])
  BY <1>1, <1>2, <1>3, RulesExcuse
<1> HIDE DEF R, Q
<1> DEFINE a == Total([k \in DOMAIN Found(R) |-> SeverityWeight(Found(R)[k])])
           b == Total([k \in DOMAIN Found(Q) |-> SeverityWeight(Found(Q)[k])])
<1>6. a \in Int /\ b \in Int /\ a <= b
  BY <1>5, WeightGrows
<1>7. Len(N) = Len(M) /\ Len(M) \in Nat
  BY <1>1 DEF Safer
<1>8. TopologyPressure(N, Found(R)) <= TopologyPressure(M, Found(Q))
  BY <1>6, <1>7, TopologyPressureGrows
<1> QED BY <1>4, <1>8 DEF w

-----------------------------------------------------------------------------
(* The invariant of Research *)

Analyzing == {"coarse", "deep", "sensitivity", "frontier", "debate", "signed"}

\* What is known of the request throughout, and whose steps they are.
Asked ==
  /\ request \in Requests /\ stage \in Stages /\ stored \in BOOLEAN
  /\ stage \in Analyzing => request.kind = "analyze"

\* Only the request that asks for it has stored its run, and only with its last step:
\* one that is answered, or refused because the put failed after its commit.
StoredLast ==
  stored => request.kind = "analyze" /\ ToPersist /\ stage \in {"answered", "refused"}

\* Both simulations are of the scenario the request was validated to.
SimulatedScenario ==
  /\ stage \in Analyzing => coarse = Simulate(Scenario)
  /\ stage \in Analyzing \ {"coarse"} => deep = Simulate(Scenario)

\* Sensitivities and candidates are about that simulation, and stay with it.
MeasuredScenario ==
  LET report == Simulate(Scenario) IN
  /\ \/ sensitivity = {}
     \/ request.kind = "analyze" /\ sensitivity = Sensitivities(Scenario, HotspotIds(report))
  /\ \/ frontier = [options |-> <<>>, of |-> <<>>]
     \/ /\ request.kind = "analyze" /\ deep = report
        /\ frontier = [options |-> Frontier(Candidates(Scenario, report.overall, HotspotIds(report))),
                       of |-> Candidates(Scenario, report.overall, HotspotIds(report))]

\* What is on its way to the scanner is the review of the map that was sent.
ReviewedMap ==
  stage = "reviewed" =>
    request.kind = "review" /\ AcceptedMap(request.body) /\ review = Review(request.body)

IInv == Asked /\ StoredLast /\ AnsweredIsStored /\ SimulatedScenario /\ MeasuredScenario /\ ReviewedMap

-----------------------------------------------------------------------------
(* Steps *)

\* A request is received with nothing stored and nothing computed.
LEMMA InitIInv == Init => IInv
<1> SUFFICES ASSUME Init PROVE IInv
  OBVIOUS
<1>1. /\ request \in Requests /\ stage = "received" /\ stored = FALSE
      /\ sensitivity = {} /\ frontier = [options |-> <<>>, of |-> <<>>]
  BY DEF Init
<1>2. Asked /\ StoredLast /\ AnsweredIsStored /\ SimulatedScenario /\ ReviewedMap
  BY <1>1 DEF Asked, Stages, Analyzing, StoredLast, AnsweredIsStored, SimulatedScenario, ReviewedMap
<1>3. MeasuredScenario
  BY <1>1 DEF MeasuredScenario
<1> QED BY <1>2, <1>3 DEF IInv

\* What no step but the last may touch: nothing is stored or answered.
LEMMA AskedKept ==
  ASSUME Asked, StoredLast, AnsweredIsStored, UNCHANGED <<request, stored>>,
         stage \notin {"answered", "refused"}, stage' \in Stages \ {"answered"},
         stage' \in Analyzing => request.kind = "analyze"
  PROVE  Asked' /\ StoredLast' /\ AnsweredIsStored'
  BY DEF Asked, Stages, StoredLast, AnsweredIsStored, ToPersist

\* The scenario is that of the request, which stays what it is.
LEMMA SameScenario == ASSUME UNCHANGED request PROVE Scenario' = Scenario
  BY DEF Scenario

\* Steps of the analysis that compute nothing.
LEMMA PassingKeeps ==
  ASSUME IInv, RefusePacket \/ Debate \/ Sign \/ AnalysisFails
  PROVE  IInv'
<1>1. /\ UNCHANGED <<request, coarse, deep, sensitivity, frontier, review, stored>>
      /\ stage \notin {"answered", "refused"} /\ stage' \in {"debate", "signed", "refused"}
      /\ stage' \in Analyzing => stage \in Analyzing \ {"coarse"} 
  BY DEF RefusePacket, Debate, Sign, AnalysisFails, Step, Analyzing
<1>2. Scenario' = Scenario
  BY <1>1, SameScenario
<1>3. Asked' /\ StoredLast' /\ AnsweredIsStored'
  <2>1. stage' \in Analyzing => request.kind = "analyze"
    BY <1>1 DEF IInv, Asked
  <2> QED BY <1>1, <2>1, AskedKept DEF IInv, Stages
<1>4. SimulatedScenario'
  BY <1>1, <1>2 DEF IInv, SimulatedScenario, Analyzing
<1>5. MeasuredScenario'
  BY <1>1, <1>2 DEF IInv, MeasuredScenario
<1>6. ReviewedMap'
  BY <1>1 DEF ReviewedMap
<1> QED BY <1>3, <1>4, <1>5, <1>6 DEF IInv

\* The two simulations.
LEMMA RunCoarseKeeps == ASSUME IInv, RunCoarse PROVE IInv'
<1>1. /\ UNCHANGED <<request, deep, sensitivity, frontier, review, stored>>
      /\ stage = "received" /\ stage' = "coarse" /\ request.kind = "analyze" /\ coarse' = Simulate(Scenario)
  BY DEF RunCoarse, Step
<1>2. Scenario' = Scenario
  BY <1>1, SameScenario
<1>3. Asked' /\ StoredLast' /\ AnsweredIsStored'
  BY <1>1, AskedKept DEF IInv, Stages
<1>4. SimulatedScenario'
  BY <1>1, <1>2 DEF SimulatedScenario, Analyzing
<1>5. MeasuredScenario'
  BY <1>1, <1>2 DEF IInv, MeasuredScenario
<1>6. ReviewedMap'
  BY <1>1 DEF ReviewedMap
<1> QED BY <1>3, <1>4, <1>5, <1>6 DEF IInv

\* The second simulation is of the same scenario.
LEMMA RunDeepKeeps == ASSUME IInv, RunDeep PROVE IInv'
<1>1. /\ UNCHANGED <<request, coarse, sensitivity, frontier, review, stored>>
      /\ stage = "coarse" /\ stage' = "deep" /\ request.kind = "analyze" /\ deep' = Simulate(Scenario)
  BY DEF RunDeep, Step
<1>2. Scenario' = Scenario
  BY <1>1, SameScenario
<1>3. Asked' /\ StoredLast' /\ AnsweredIsStored'
  BY <1>1, AskedKept DEF IInv, Stages
<1>4. SimulatedScenario'
  BY <1>1, <1>2 DEF IInv, SimulatedScenario, Analyzing
<1>5. MeasuredScenario'
  BY <1>1, <1>2 DEF IInv, MeasuredScenario
<1>6. ReviewedMap'
  BY <1>1 DEF ReviewedMap
<1> QED BY <1>3, <1>4, <1>5, <1>6 DEF IInv

\* What is measured starts from the hotspots of the coarse simulation.
LEMMA RunSensitivityKeeps == ASSUME IInv, RunSensitivity PROVE IInv'
<1>1. /\ UNCHANGED <<request, coarse, deep, frontier, review, stored>>
      /\ stage = "deep" /\ stage' = "sensitivity" /\ request.kind = "analyze"
      /\ sensitivity' = Sensitivities(Scenario, HotspotIds(coarse))
  BY DEF RunSensitivity, Step
<1>2. Scenario' = Scenario
  BY <1>1, SameScenario
<1>3. Asked' /\ StoredLast' /\ AnsweredIsStored'
  BY <1>1, AskedKept DEF IInv, Stages
<1>4. SimulatedScenario' /\ coarse = Simulate(Scenario)
  BY <1>1, <1>2 DEF IInv, SimulatedScenario, Analyzing
<1>5. MeasuredScenario'
  BY <1>1, <1>2, <1>4 DEF IInv, MeasuredScenario
<1>6. ReviewedMap'
  BY <1>1 DEF ReviewedMap
<1> QED BY <1>3, <1>4, <1>5, <1>6 DEF IInv

\* The candidates are those of the scenario that was simulated.
LEMMA RunFrontierKeeps == ASSUME IInv, RunFrontier PROVE IInv'
<1>1. /\ UNCHANGED <<request, coarse, deep, sensitivity, review, stored>>
      /\ stage = "sensitivity" /\ stage' = "frontier" /\ request.kind = "analyze"
      /\ frontier' = [options |-> Frontier(Candidates(Scenario, deep.overall, HotspotIds(coarse))),
                      of |-> Candidates(Scenario, deep.overall, HotspotIds(coarse))]
  BY DEF RunFrontier, Step
<1>2. Scenario' = Scenario
  BY <1>1, SameScenario
<1>3. Asked' /\ StoredLast' /\ AnsweredIsStored'
  BY <1>1, AskedKept DEF IInv, Stages
<1>4. SimulatedScenario' /\ coarse = Simulate(Scenario) /\ deep = Simulate(Scenario)
  BY <1>1, <1>2 DEF IInv, SimulatedScenario, Analyzing
<1>5. MeasuredScenario'
  BY <1>1, <1>2, <1>4 DEF IInv, MeasuredScenario
<1>6. ReviewedMap'
  BY <1>1 DEF ReviewedMap
<1> QED BY <1>3, <1>4, <1>5, <1>6 DEF IInv

\* The end: what is not to be stored is answered unstored, what is to be is answered by
\* the step that stores it, or refused.
LEMMA AnswerKeeps == ASSUME IInv, AnswerEphemeral \/ Persist \/ PersistFails PROVE IInv'
<1>1. /\ UNCHANGED <<request, coarse, deep, sensitivity, frontier, review>>
      /\ stage = "signed" /\ stage' \in {"answered", "refused"} /\ request.kind = "analyze"
  BY DEF AnswerEphemeral, Persist, PersistFails, Step
<1>2. \/ ~ToPersist /\ stored' = stored /\ stage' = "answered"
      \/ ToPersist /\ stored' = TRUE /\ stage' = "answered"
      \/ ToPersist /\ stored' \in BOOLEAN /\ stage' = "refused"
  BY DEF AnswerEphemeral, Persist, PersistFails, Step
<1>7. ToPersist' = ToPersist
  BY <1>1 DEF ToPersist
<1>3. Scenario' = Scenario
  BY <1>1, SameScenario
<1>4. Asked' /\ StoredLast' /\ AnsweredIsStored'
  <2>1. request' \in Requests /\ stage' \in Stages /\ stage' \notin Analyzing
    BY <1>1 DEF IInv, Asked, Stages, Analyzing
  <2>2. ~stored
    BY <1>1 DEF IInv, StoredLast
  <2>3. /\ stored' \in BOOLEAN /\ (stored' => ToPersist)
        /\ stage' = "answered" => (stored' <=> ToPersist)
    <3>1. stored \in BOOLEAN /\ "answered" # "refused"
      BY DEF IInv, Asked
    <3>2. CASE ~ToPersist /\ stored' = stored /\ stage' = "answered"
      BY <2>2, <3>1, <3>2, Zenon
    <3>3. CASE ToPersist /\ stored' = TRUE /\ stage' = "answered"
      BY <3>3, Zenon
    <3>4. CASE ToPersist /\ stored' \in BOOLEAN /\ stage' = "refused"
      BY <3>1, <3>4, Zenon
    <3> QED BY <1>2, <3>2, <3>3, <3>4
  <2>4. Asked'
    BY <1>1, <2>1, <2>3, Zenon DEF Asked
  <2>5. StoredLast' /\ AnsweredIsStored'
    BY <1>1, <1>7, <2>3, Zenon DEF StoredLast, AnsweredIsStored
  <2> QED BY <2>4, <2>5
<1>5. SimulatedScenario' /\ ReviewedMap'
  BY <1>1 DEF SimulatedScenario, ReviewedMap, Analyzing
<1>6. MeasuredScenario'
  BY <1>1, <1>3 DEF IInv, MeasuredScenario
<1> QED BY <1>4, <1>5, <1>6 DEF IInv

\* The review of a map stores nothing, and AnsweredIsStored does not ask it to.
LEMMA ReviewKeeps == ASSUME IInv, ReviewRequest PROVE IInv'
<1>1. /\ UNCHANGED <<request, coarse, sensitivity, frontier, stored>>
      /\ request.kind = "review" /\ stage' \in {"refused", "reviewed", "answered"}
      /\ stage' = "reviewed" => AcceptedMap(request.body) /\ review' = Review(request.body)
  <2>1. CASE ReviewMap
    BY <2>1 DEF ReviewMap
  <2>2. CASE RefuseMap \/ ScanMap \/ ScanFails
    BY <2>2 DEF RefuseMap, ScanMap, ScanFails, Step
  <2> QED BY <2>1, <2>2 DEF ReviewRequest
<1>2. Scenario' = Scenario
  BY <1>1, SameScenario
<1>3. Asked' /\ StoredLast' /\ AnsweredIsStored'
  BY <1>1 DEF IInv, Asked, Stages, Analyzing, StoredLast, AnsweredIsStored, ToPersist
<1>4. SimulatedScenario'
  BY <1>1 DEF SimulatedScenario, Analyzing
<1>5. MeasuredScenario'
  BY <1>1, <1>2 DEF IInv, MeasuredScenario
<1>6. ReviewedMap'
  BY <1>1 DEF ReviewedMap
<1> QED BY <1>3, <1>4, <1>5, <1>6 DEF IInv

\* A step that leaves all but the session alone.
LEMMA IdleKeeps ==
  ASSUME IInv, UNCHANGED <<request, stage, coarse, deep, sensitivity, frontier, review, stored>>
  PROVE  IInv'
<1>1. Scenario' = Scenario
  BY SameScenario
<1>2. Asked' /\ StoredLast' /\ AnsweredIsStored'
  BY DEF IInv, Asked, StoredLast, AnsweredIsStored, ToPersist
<1>3. SimulatedScenario' /\ ReviewedMap'
  BY <1>1 DEF IInv, SimulatedScenario, ReviewedMap
<1>4. MeasuredScenario'
  BY <1>1 DEF IInv, MeasuredScenario
<1> QED BY <1>2, <1>3, <1>4 DEF IInv

\* Every step preserves the invariant; a session that ends takes nothing away.
LEMMA NextKeeps == IInv /\ [Next]_vars => IInv'
<1> SUFFICES ASSUME IInv, [Next]_vars PROVE IInv'
  OBVIOUS
<1>1. CASE Analyze
  BY <1>1, PassingKeeps, RunCoarseKeeps, RunDeepKeeps, RunSensitivityKeeps, RunFrontierKeeps, AnswerKeeps
     DEF Analyze
<1>2. CASE ReviewRequest
  BY <1>2, ReviewKeeps
<1>3. CASE Expire
  BY <1>3, IdleKeeps DEF Expire
<1>4. CASE UNCHANGED vars
  BY <1>4, IdleKeeps DEF vars
<1> QED BY <1>1, <1>2, <1>3, <1>4 DEF Next

\* The scenario of an analysis is validated, and its costs are numbers.
LEMMA ScenarioReady ==
  ASSUME request \in Requests, request.kind = "analyze"
  PROVE  Ready(Scenario) /\ Costed(Scenario) /\ IsScenario(Scenario) /\ IsScenario(request.body)
<1>1. request.body \in Packets
  BY DEF Requests
<1> DEFINE p == request.body
<1>2. DOMAIN p = {"surfaces", "links", "costs"} /\ p.surfaces \in Seq(Surfaces) /\ p.links \in Seq(Links)
      /\ \A x \in DOMAIN p.costs : p.costs[x] \in Int
  BY <1>1, ResearchAssumption
<1>3. Scenario = Validate(p)
  BY DEF Scenario
<1> HIDE DEF p
<1>4. IsScenario(p)
  BY <1>2 DEF IsScenario
<1>5. Ready(Scenario) /\ DOMAIN Scenario = DOMAIN p
  BY <1>3, <1>4, ValidateIs
<1>6. Scenario.costs = p.costs
  BY <1>2, <1>3 DEF Validate
<1>7. Costed(Scenario)
  BY <1>2, <1>5, <1>6 DEF Costed
<1> QED BY <1>4, <1>5, <1>7 DEF p, Ready, Normal

\* What the frontier is chosen from.
LEMMA OfferedCandidates ==
  ASSUME IInv, frontier # [options |-> <<>>, of |-> <<>>]
  PROVE  /\ IsSequence(frontier.of) /\ Len(frontier.of) <= 24
         /\ \A m \in 1..Len(frontier.of) : Sound(frontier.of[m], deep.overall)
         /\ frontier.options = Frontier(frontier.of)
<1> DEFINE p == Scenario
           report == Simulate(p)
           H == HotspotIds(report)
           c == Candidates(p, report.overall, H)
<1>1. request.kind = "analyze" /\ deep = report /\ frontier = [options |-> Frontier(c), of |-> c]
  BY DEF IInv, MeasuredScenario
<1>2. Ready(p) /\ Costed(p) /\ IsScenario(p)
  BY <1>1, ScenarioReady DEF IInv, Asked
<1> HIDE DEF p
<1>3. IsSequence(H) /\ Len(H) <= 6 /\ \A k \in 1..Len(H) : H[k] \in Ids(p.surfaces)
  BY <1>2, HotspotsKnown
<1> HIDE DEF H
<1>4. IsSequence(c) /\ Len(c) <= 24 /\ \A m \in 1..Len(c) : Sound(c[m], report.overall)
  BY <1>2, <1>3, CandidatesAre
<1> HIDE DEF c, report
<1> QED BY <1>1, <1>4

\* What is reviewed is a map.
LEMMA MapOfRequest ==
  ASSUME IInv, stage = "reviewed"
  PROVE  request.body \in MapKind /\ AcceptedMap(request.body) /\ review = Review(request.body)
<1>1. request \in Requests /\ request.kind = "review" /\ AcceptedMap(request.body) /\ review = Review(request.body)
  BY DEF IInv, Asked, ReviewedMap
<1>2. request.body \in Maps
  BY <1>1 DEF Requests
<1>3. Maps \subseteq MapKind
  BY ResearchAssumption DEF MapKind
<1> QED BY <1>1, <1>2, <1>3

-----------------------------------------------------------------------------
(* Theorems *)

\* A run is stored by the step that answers, and by no other; and what is computed on
\* the way is all of the one scenario.
THEOREM ResearchInvariant == Spec => []IInv
<1>1. Init => IInv
  BY InitIInv
<1>2. IInv /\ [Next]_vars => IInv'
  BY NextKeeps
<1> QED BY <1>1, <1>2, PTL DEF Spec

\* With auto_persist_research on, a caller who sends a token gets an answer only with its
\* run stored, whenever the session ends; no other run that is answered is stored.
THEOREM AnswersAreStored == Spec => []AnsweredIsStored
<1>1. IInv => AnsweredIsStored
  BY DEF IInv
<1> QED BY <1>1, ResearchInvariant, PTL

\* No control that is offered makes the scenario riskier, and every field pulls in one
\* direction.
THEOREM OffersHelp == Spec => []ControlsNeverHurt
<1>1. IInv => ControlsNeverHurt
  <2> SUFFICES ASSUME IInv PROVE ControlsNeverHurt
    OBVIOUS
  <2>1. ASSUME NEW c \in ToSet(frontier.of) PROVE c.residual <= deep.overall
    <3>1. frontier # [options |-> <<>>, of |-> <<>>]
      BY DEF ToSet
    <3>2. IsSequence(frontier.of) /\ \A m \in 1..Len(frontier.of) : Sound(frontier.of[m], deep.overall)
      BY <3>1, OfferedCandidates
    <3> QED BY <3>2 DEF ToSet, Sound, IsSequence
  <2>2. ASSUME NEW s \in sensitivity
        PROVE IF s.field \in {"controlStrength", "telemetryConfidence"} THEN s.high <= s.low ELSE s.low <= s.high
    <3> DEFINE p == Scenario
               H == HotspotIds(Simulate(p))
    <3>1. request.kind = "analyze" /\ s \in Sensitivities(p, H)
      BY DEF IInv, MeasuredScenario
    <3>2. Ready(p) /\ IsScenario(p)
      BY <3>1, ScenarioReady DEF IInv, Asked
    <3> HIDE DEF p
    <3>3. IsSequence(H) /\ \A k \in 1..Len(H) : H[k] \in Ids(p.surfaces)
      BY <3>2, HotspotsKnown
    <3> HIDE DEF H
    <3> QED BY <3>1, <3>2, <3>3, SensitivitiesAre
  <2> QED BY <2>1, <2>2 DEF ControlsNeverHurt
<1> QED BY <1>1, ResearchInvariant, PTL

\* For every budget the best option is retained, and no retained option is both more
\* expensive and less effective than a candidate.
THEOREM BudgetsAnswered == Spec => []FrontierAnswersBudgets
<1>1. IInv => FrontierAnswersBudgets
  <2> SUFFICES ASSUME IInv PROVE FrontierAnswersBudgets
    OBVIOUS
  <2>1. Answers(frontier.options, frontier.of) => FrontierAnswersBudgets
    BY DEF Answers, FrontierAnswersBudgets
  <2>2. CASE frontier = [options |-> <<>>, of |-> <<>>]
    BY <2>1, <2>2 DEF Answers, ToSet
  <2>3. CASE frontier # [options |-> <<>>, of |-> <<>>]
    <3>1. IsSequence(frontier.of) /\ Len(frontier.of) <= 24 /\ frontier.options = Frontier(frontier.of)
          /\ \A m \in 1..Len(frontier.of) : Sound(frontier.of[m], deep.overall)
      BY <2>3, OfferedCandidates
    <3>2. Priced(frontier.of)
      BY <3>1 DEF Priced, Sound
    <3> QED BY <2>1, <3>1, <3>2, FrontierIs
  <2> QED BY <2>2, <2>3
<1> QED BY <1>1, ResearchInvariant, PTL

\* What was reviewed is what is simulated: no link of it is dropped, no nodes are merged.
THEOREM MapsAreKept == Spec => []TwinKeepsMap
<1>1. IInv => TwinKeepsMap
  <2> SUFFICES ASSUME IInv, stage = "reviewed", Len(review.edges) <= MaxLinks
               PROVE  LET packet == ScannerPacket(review)
                          valid == Validate(packet)
                      IN valid.links = packet.links
                         /\ Len(Rows(valid.surfaces, valid.links)) = Len(review.nodes)
    BY DEF TwinKeepsMap
  <2> DEFINE map == request.body
  <2>1. map \in MapKind /\ AcceptedMap(map) /\ review = Review(map)
    BY MapOfRequest
  <2> HIDE DEF map
  <2>2. Len(Review(map).edges) <= MaxLinks
    BY <2>1
  <2>3. LET p == ScannerPacket(Review(map))
            valid == Validate(p)
        IN valid.links = p.links /\ Len(Rows(valid.surfaces, valid.links)) = Len(map.nodes)
    BY <2>1, <2>2, PacketKept
  <2>4. Len(review.nodes) = Len(map.nodes)
    <3>1. Len(Nodes(map)) = Len(map.nodes)
      BY <2>1, NodesAre
    <3> QED BY <2>1, <3>1 DEF Review
  <2> QED BY <2>1, <2>3, <2>4
<1> QED BY <1>1, ResearchInvariant, PTL

\* One more control on a node makes neither the pressure of the map nor the risk of its
\* twin greater, for everything the local model may say of its surfaces.
THEOREM ControlsOfMapsHelp == Spec => []MapControlsNeverHurt
<1>1. IInv => MapControlsNeverHurt
  <2> SUFFICES ASSUME IInv, stage = "reviewed", NEW i \in DOMAIN request.body.nodes, NEW c \in Controls
               PROVE  LET better == Review([request.body EXCEPT !.nodes[i].controls = @ \cup {c}])
                      IN /\ better.pressure <= review.pressure
                         /\ \A micro \in Micro :
                              Scan(ScannerPacket(better), micro).overall <= Scan(ScannerPacket(review), micro).overall
    BY DEF MapControlsNeverHurt
  <2> DEFINE map == request.body
  <2>1. map \in MapKind /\ AcceptedMap(map) /\ review = Review(map)
    BY MapOfRequest
  <2>2. [request.body EXCEPT !.nodes[i].controls = @ \cup {c}] = With(map, i, c)
    BY DEF With
  <2>3. i \in DOMAIN map.nodes
    OBVIOUS
  <2> HIDE DEF map
  <2>4. i \in 1..Len(map.nodes)
    BY <2>1, <2>3, NodesAre
  <2>5. Review(With(map, i, c)).pressure <= Review(map).pressure
    BY <2>1, <2>4, WithLessPressure
  <2>6. \A micro \in Micro : Scan(ScannerPacket(Review(With(map, i, c))), micro).overall
                               <= Scan(ScannerPacket(Review(map)), micro).overall
    BY <2>1, <2>4, WithIsMilder
  <2> QED BY <2>1, <2>2, <2>5, <2>6
<1> QED BY <1>1, ResearchInvariant, PTL

\* The order in which links are listed changes nothing in the findings.
THEOREM LinksInAnyOrder == Spec => []LinkOrderIrrelevant
<1>1. IInv => LinkOrderIrrelevant
  <2> SUFFICES ASSUME IInv, stage = "coarse"
               PROVE Simulate([Scenario EXCEPT !.links = Reverse(@)]).findings = coarse.findings
    BY DEF LinkOrderIrrelevant
  <2>1. request \in Requests /\ request.kind = "analyze" /\ coarse = Simulate(Scenario)
    BY DEF IInv, Asked, SimulatedScenario, Analyzing
  <2>2. Ready(Scenario)
    BY <2>1, ScenarioReady
  <2> QED BY <2>1, <2>2, LinksReversed
<1> QED BY <1>1, ResearchInvariant, PTL

\* Pressure travels along links, in their direction, and no further than the rounds
\* carry it.
THEOREM PressureIsLocal == Spec => []PressureStaysNear
<1>1. IInv => PressureStaysNear
  <2> SUFFICES ASSUME IInv, stage = "coarse", NEW u \in Ids(Scenario.surfaces),
                      NEW v \in Ids(Scenario.surfaces) \ Near(Scenario.links, u, Rounds)
               PROVE  ListedOf(Simulate(Vary(Scenario, u, "exposure", 100)).findings, v)
                        = ListedOf(coarse.findings, v)
    BY DEF PressureStaysNear, ListedOf
  <2>1. request \in Requests /\ request.kind = "analyze" /\ coarse = Simulate(Scenario)
    BY DEF IInv, Asked, SimulatedScenario, Analyzing
  <2>2. Ready(Scenario)
    BY <2>1, ScenarioReady
  <2> DEFINE p == Scenario
  <2> HIDE DEF p
  <2>3. Ready(p) /\ u \in Ids(p.surfaces) /\ v \notin Near(p.links, u, Rounds) /\ coarse = Simulate(p)
    BY <2>1, <2>2 DEF p
  <2>4. ListedOf(Simulate(Vary(p, u, "exposure", 100)).findings, v) = ListedOf(Simulate(p).findings, v)
    BY <2>3, ExposureStaysNear, Zenon
  <2> QED BY <2>3, <2>4 DEF p
<1> QED BY <1>1, ResearchInvariant, PTL
=============================================================================
