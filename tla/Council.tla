-------------------------------- MODULE Council --------------------------------
(***************************************************************************)
(* What is computed from the answers of several models: the consensus of   *)
(* ModelCouncil.deliberate in providers.py, the audit metrics of           *)
(* role_council.py, and the fusion of DATAPULL shards in amccs.py.         *)
(*                                                                         *)
(* An answer is what a model's JSON says of vectors, controls, uncertainty *)
(* (a percentage, as given), the number of its assumptions and evidence    *)
(* needs (notes), the mean length of its controls (detail), and, for a     *)
(* shard, a country, an entry vector and a range; "" and <<>> are no       *)
(* answer.  lists is false if a part that is to be a list is something     *)
(* else.  A result is an opinion or a shard result: one of a model that    *)
(* failed says nothing and has the uncertainty 100.                        *)
(***************************************************************************)
EXTENDS Scores

CONSTANTS
  AllowedVectors,  \* allowed_vectors of _opinion
  TopVectors,      \* vectors in a consensus: 6 in the code
  TopControls      \* controls in a consensus, or a fusion: 12 in the code

ASSUME CouncilAssumption == TopVectors \in Nat \ {0} /\ TopControls \in Nat \ {0}

Ranges == {<<>>} \cup (Int \X Int)

Sayings ==
  [vectors : Seq(STRING), controls : Seq(STRING), notes : Nat, detail : Nat,
   uncertainty : Int, country : STRING, entry : STRING, range : Ranges, lists : BOOLEAN]

Silence == [vectors |-> <<>>, controls |-> <<>>, notes |-> 0, detail |-> 0,
            uncertainty |-> 100, country |-> "", entry |-> "", range |-> <<>>, lists |-> TRUE]

\* _opinion, _shard_from_payload: unknown vectors go, uncertainty is bounded.
Opinion(client, answer) ==
  [client |-> client, ok |-> TRUE,
   said |-> [answer EXCEPT !.vectors = Items(@, {i \in DOMAIN @ : @[i] \in AllowedVectors}),
                           !.uncertainty = Clamp(@, 100)]]

\* _failure, and the except of _run_shard_with_client.
Failure(client) == [client |-> client, ok |-> FALSE, said |-> Silence]

Successful(results) == Items(results, {i \in DOMAIN results : results[i].ok})

Said(results) == LET ok == Successful(results) IN [k \in DOMAIN ok |-> ok[k].said]

\* Values of f for each member of a sequence with each that comes after it, row by row.
OfPairs(s, f(_, _)) ==
  LET n == Len(s)
      Left(m) == ((m - 1) \div n) + 1
      Right(m) == ((m - 1) % n) + 1
  IN Items([m \in 1..(n * n) |-> f(s[Left(m)], s[Right(m)])],
           {m \in 1..(n * n) : Left(m) < Right(m)})

\* Jaccard similarity; nothing is like nothing.
Similarity(a, b) ==
  IF a \cup b = {} THEN One ELSE (One * Cardinality(a \cap b)) \div Cardinality(a \cup b)

Alike(a, b) == Similarity(ToSet(a.vectors), ToSet(b.vectors))

-----------------------------------------------------------------------------
(* ModelCouncil *)

Ballots(said, Of(_)) ==
  FlattenSeq([k \in DOMAIN said |->
    [n \in DOMAIN Of(said[k]) |-> [item |-> Of(said[k])[n], weight |-> Weight(said[k])]]])

Disagreement(results) ==
  LET similarities == OfPairs(Said(results), Alike)
  IN IF similarities = <<>> THEN 0
     ELSE Clamp(One - Total(similarities) \div Len(similarities), One)

\* A vector that a model names twice has its weight twice.
Consensus(results) ==
  LET said == Said(results)
  IN [vectors |-> Upto(Ranking(Ballots(said, LAMBDA s : s.vectors)), TopVectors),
      controls |-> Upto(Ranking(Ballots(said, LAMBDA s : s.controls)), TopControls),
      disagreement |-> Disagreement(results),
      successful |-> Len(said)]

-----------------------------------------------------------------------------
(* _evidence_quality, _contradiction_matrix and _round_metrics *)

EvidenceQuality(result) ==
  LET s == result.said IN
  IF ~result.ok THEN 0
  ELSE (320 * Least(9, s.notes + Len(s.controls))) \div 9
       + (240 * Least(100, s.detail)) \div 100
       + (IF Len(s.vectors) \in 1..6 THEN 180 ELSE 72)
       + (260 * (100 - s.uncertainty)) \div 100

Contradiction(a, b) ==
  LET Divergence(x, y) == One - Similarity(ToSet(x), ToSet(y))
      gap == IF a.uncertainty > b.uncertainty THEN a.uncertainty - b.uncertainty
                                              ELSE b.uncertainty - a.uncertainty
  IN Clamp((55 * Divergence(a.vectors, b.vectors) + 30 * Divergence(a.controls, b.controls)) \div 100
           + (15 * gap) \div 10, One)

\* Mutant: the least contradiction comes first.
ContradictionsAscending(results) ==
  Sorted(OfPairs(Said(results), Contradiction), LAMBDA a, b : a < b)

Contradictions(results) == Sorted(OfPairs(Said(results), Contradiction), LAMBDA a, b : a > b)

Metrics(results) ==
  LET scores == Contradictions(results)
  IN [quality |-> IF results = <<>> THEN 0
                  ELSE Total([k \in DOMAIN results |-> EvidenceQuality(results[k])]) \div Len(results),
      contradiction |-> IF scores = <<>> THEN 0 ELSE scores[1]]

-----------------------------------------------------------------------------
(* fuse *)

\* Mutant: a range is taken as the model wrote it.
RangeAsGiven(range) == range

\* _safe_range
SafeRange(range) == IF range # <<>> /\ range[2] < range[1] THEN <<range[2], range[1]>> ELSE range

RangeMerge(ranges) ==
  IF ranges = <<>> THEN <<>>
  ELSE <<Min({r[1] : r \in ToSet(ranges)}), Max({r[2] : r \in ToSet(ranges)})>>

\* The ranges that shards gave, the right way round.
GivenRanges(said) ==
  LET ranges == [k \in DOMAIN said |-> SafeRange(said[k].range)]
  IN Items(ranges, {k \in DOMAIN ranges : ranges[k] # <<>>})

\* _disagreement: countries that differ, entry vectors by their number, the spread of
\* the uncertainties.
ShardDisagreement(said) ==
  LET countries == {said[k].country : k \in DOMAIN said} \ {""}
      entries == {said[k].entry : k \in DOMAIN said} \ {""}
      Given(Of(_)) == Cardinality({k \in DOMAIN said : Of(said[k]) # ""})
      u == {said[k].uncertainty : k \in DOMAIN said}
      parts ==
        (IF Given(LAMBDA s : s.country) >= 2 THEN <<IF Cardinality(countries) = 1 THEN 0 ELSE One>> ELSE <<>>)
        \o (IF Given(LAMBDA s : s.entry) >= 2 THEN <<One - One \div Cardinality(entries)>> ELSE <<>>)
        \o <<10 * (Max(u) - Min(u))>>
  IN IF Len(said) < 2 THEN 0 ELSE Clamp(Total(parts) \div Len(parts), One)

Named(said, Of(_), unknown) ==
  SelectSeq([k \in DOMAIN said |-> [item |-> Of(said[k]), weight |-> Weight(said[k])]],
            LAMBDA b : b.item \notin unknown)

Fuse(results) ==
  LET said == Said(results)
      countries == Named(said, LAMBDA s : s.country, {"", "XX"})
      entries == Named(said, LAMBDA s : s.entry, {""})
      First(ballots) == IF ballots = <<>> THEN "" ELSE Ranking(ballots)[1]
  IN [country |-> First(countries),
      entry |-> First(entries),
      confidence |->
        IF countries # <<>>
          THEN (One * Votes(countries, First(countries))) \div Total([k \in DOMAIN countries |-> countries[k].weight])
        ELSE IF entries # <<>> THEN 550 ELSE 400,
      range |-> RangeMerge(GivenRanges(said)),
      controls |-> Upto(Once(FlattenSeq([k \in DOMAIN said |-> said[k].controls])), TopControls),
      disagreement |-> ShardDisagreement(said),
      successful |-> Len(said)]
=============================================================================
