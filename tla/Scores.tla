-------------------------------- MODULE Scores --------------------------------
(***************************************************************************)
(* What the sidecar's scoring code has in common: bounded numbers, Python's *)
(* stable sort and slices, and votes.                                      *)
(*                                                                         *)
(* Fractions are thousandths or percentages.  Divisions round down, which  *)
(* keeps the order of what they are applied to.                            *)
(***************************************************************************)
EXTENDS Integers, Sequences, FiniteSets, SequencesExt

One == 1000

Least(a, b) == IF a < b THEN a ELSE b
Clamp(x, top) == IF x < 0 THEN 0 ELSE Least(x, top)

Total(s) ==
  LET sum[n \in 0..Len(s)] == IF n = 0 THEN 0 ELSE sum[n - 1] + s[n] IN sum[Len(s)]

Upto(s, n) == SubSeq(s, 1, Least(n, Len(s)))

\* A comprehension with an if: the items of s at some of its places, in their order.
Items(s, places) ==
  [k \in 1..Cardinality(places) |->
     s[CHOOSE i \in places : Cardinality({j \in places : j <= i}) = k]]

\* dict.fromkeys: each item once, where it comes first.
Once(s) == Items(s, {i \in DOMAIN s : \A j \in 1..(i - 1) : s[j] # s[i]})

\* Python's sort: stable, Before says which of two items comes first.
Sorted(s, Before(_, _)) ==
  LET Rank(i) == Cardinality({j \in DOMAIN s :
                   Before(s[j], s[i]) \/ (~Before(s[i], s[j]) /\ j <= i)})
  IN [k \in DOMAIN s |-> s[CHOOSE i \in DOMAIN s : Rank(i) = k]]

\* A model that is sure of itself weighs more, and none weighs nothing.
Weight(opinion) == IF opinion.uncertainty > 95 THEN 5 ELSE 100 - opinion.uncertainty

\* ballots is a sequence of [item, weight]; each item's weights add up.
Votes(ballots, item) ==
  Total([k \in DOMAIN ballots |-> IF ballots[k].item = item THEN ballots[k].weight ELSE 0])

\* The items by their votes, and as they came up where the votes are equal.
Ranking(ballots) ==
  LET items == Once([k \in DOMAIN ballots |-> ballots[k].item])
      tally == [k \in DOMAIN items |-> [item |-> items[k], votes |-> Votes(ballots, items[k])]]
      ranked == Sorted(tally, LAMBDA a, b : a.votes > b.votes)
  IN [k \in DOMAIN ranked |-> ranked[k].item]
=============================================================================
