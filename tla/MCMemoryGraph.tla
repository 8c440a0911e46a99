----------------------------- MODULE MCMemoryGraph -----------------------------
(* Instances of MemoryGraph: every graph of up to four references between four  *)
(* records, one of which may be gone; searches and compactions of three         *)
(* records of which one is written meanwhile.                                   *)
EXTENDS MemoryGraph, TLC

Plain(refs) == [name |-> "plain", matched |-> 0, refs |-> refs]
MCWords == {[name |-> "close", matched |-> 2, refs |-> {}], [name |-> "copy", matched |-> 1, refs |-> {}]}
MCContents == MCWords \cup {Plain({})}

MCRelevance == [close |-> 800, copy |-> 750, plain |-> 100, compaction |-> 0]

MCAlikeness ==
  LET cosine(a, b) == IF a = b THEN 1000 ELSE IF {a, b} = {"close", "copy"} THEN 900 ELSE 50
  IN [a \in DOMAIN MCRelevance |-> [b \in DOMAIN MCRelevance |-> cosine(a, b)]]

Graphs == UNION {kSubset(k, (1..4) \X (1..4)) : k \in 0..4}

GraphStarts ==
  {[request |-> [kind |-> "provenance", root |-> 1, depth |-> d, nodes |-> n],
    row |-> [r \in 1..5 |-> IF r = 5 \/ (r = 4 /\ gone) THEN Absent ELSE Plain({x \in 1..4 : <<r, x>> \in g})],
    created |-> <<1, 2, 3, 4>>] :
   d \in {0, 1, 5}, n \in {2, 3, 9}, gone \in BOOLEAN, g \in Graphs}

Stores ==
  {[r \in 1..5 |-> IF r \in 1..3 THEN c[r] ELSE Absent] : c \in [1..3 -> MCWords \cup {Absent, Plain({})}]}

OtherStarts ==
  {[request |-> q, row |-> s, created |-> <<2, 1, 3>>] :
   q \in {[kind |-> "search", limit |-> l, radius |-> 1] : l \in {1, 5}}
         \cup {[kind |-> "compact", ids |-> i] : i \in {<<>>, <<1, 1>>, <<2, 1, 2>>, <<1, 2, 3>>}},
   s \in Stores}

MCStarts == GraphStarts \cup OtherStarts

MCIndexHits == {<<>>, <<1>>, <<3, 2>>, <<2, 1, 3>>}
=============================================================================
