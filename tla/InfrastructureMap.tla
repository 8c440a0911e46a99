--------------------------- MODULE InfrastructureMap ---------------------------
(***************************************************************************)
(* sidecar/cyberforge_sidecar/infrastructure.py: a map of nodes and edges  *)
(* is normalized, reviewed by fixed rules, and turned into a packet for    *)
(* the scanner's twin.                                                     *)
(*                                                                         *)
(* A node has a set of flags (internetFacing, privileged, and sensitive    *)
(* for its data class), a set of controls, and percentages.  The kind      *)
(* "server" stands for those that need a backup.                           *)
(***************************************************************************)
EXTENDS TwinGraph

CONSTANTS
  Stripped,     \* what an id becomes when its blanks are removed
  MaxNodes,     \* nodes of a map: 2048 in the code
  MaxEdges,     \* edges looked at: 16384 in the code
  MaxReported,  \* findings reported: 256 in the code
  MaxInPacket   \* findings handed to the scanner: 32 in the code

Controls == {"mfa", "encryption", "logging", "backup", "segmented", "managed"}

MapNodes ==
  [id : DOMAIN Stripped, kind : STRING, zone : STRING,
   flags : SUBSET {"internetFacing", "privileged", "sensitive"},
   controls : SUBSET Controls,
   criticality : Int, exposure : Int, telemetryConfidence : Int]

ASSUME InfrastructureMapAssumption ==
  /\ \A id \in DOMAIN Stripped : Stripped[id] \in STRING
  /\ MaxNodes \in Nat /\ MaxEdges \in Nat
  /\ MaxReported \in Nat \ {0} /\ MaxInPacket \in 1..MaxReported

Severities == <<"critical", "high", "medium">>

Severity(f) == CHOOSE k \in DOMAIN Severities : Severities[k] = f.severity

SeverityWeight(f) == <<100, 76, 48>>[Severity(f)]

-----------------------------------------------------------------------------
(* _normalize_graph *)

\* Mutant: ids are compared before their blanks are removed.
UniqueAsGiven(map) ==
  \A i, j \in DOMAIN map.nodes : i # j => map.nodes[i].id # map.nodes[j].id

\* A map in which two nodes have one id, or one has none, is refused.
UniqueIds(map) ==
  \A i, j \in DOMAIN map.nodes : i # j => Stripped[map.nodes[i].id] # Stripped[map.nodes[j].id]

AcceptedMap(map) ==
  /\ Len(map.nodes) \in 1..MaxNodes
  /\ \A i \in DOMAIN map.nodes : Stripped[map.nodes[i].id] # ""
  /\ UniqueIds(map)

NormalizedNode(node) ==
  [node EXCEPT !.id = Stripped[@], !.criticality = Clamp(@, 100), !.exposure = Clamp(@, 100),
               !.telemetryConfidence = Clamp(@, 100)]

Nodes(map) == [i \in DOMAIN map.nodes |-> NormalizedNode(map.nodes[i])]

\* Edges name nodes by their normalized ids, and are not normalized themselves.
Edges(map) == ValidLinks(Upto(map.edges, MaxEdges), Nodes(map))

-----------------------------------------------------------------------------
(* analyze_infrastructure *)

Neighbours(id, edges) ==
  {e.target : e \in {x \in ToSet(edges) : x.source = id}}
  \cup {e.source : e \in {x \in ToSet(edges) : x.target = id}}

\* A rule, and whether it finds fault.
Rule(faulty, severity, category, ids) ==
  [faulty |-> faulty, finding |-> [severity |-> severity, category |-> category, nodes |-> ids]]

NodeRules(n, degree) ==
  <<Rule(degree = 0, "medium", "inventory", <<n.id>>),
    Rule("internetFacing" \in n.flags /\ "logging" \notin n.controls, "high", "telemetry", <<n.id>>),
    Rule("privileged" \in n.flags /\ "mfa" \notin n.controls, "critical", "identity", <<n.id>>),
    Rule("sensitive" \in n.flags /\ "encryption" \notin n.controls, "high", "data", <<n.id>>),
    Rule(n.criticality >= 80 /\ "backup" \notin n.controls /\ n.kind = "server", "high", "resilience", <<n.id>>),
    Rule(degree >= 4 /\ n.criticality >= 70, "high", "concentration", <<n.id>>)>>

EdgeRules(e, source, target) ==
  <<Rule(e.trust >= 75 /\ e.controlStrength < 45, "high", "trust-path", <<source.id, target.id>>),
    Rule(source.zone # target.zone /\ "segmented" \notin source.controls \cup target.controls,
         "medium", "segmentation", <<source.id, target.id>>)>>

Node(nodes, id) == CHOOSE n \in ToSet(nodes) : n.id = id

\* The items of sequences of w items each, one after the other.
Chained(rows, w) == [m \in 1..(Len(rows) * w) |-> rows[((m - 1) \div w) + 1][((m - 1) % w) + 1]]

Found(rules) == LET all == Items(rules, {m \in DOMAIN rules : rules[m].faulty})
                IN [k \in DOMAIN all |-> all[k].finding]

AllFindings(nodes, edges) ==
  Found(Chained([i \in DOMAIN nodes |->
                   NodeRules(nodes[i], Cardinality(Neighbours(nodes[i].id, edges)))], 6)
        \o Chained([k \in DOMAIN edges |->
                   EdgeRules(edges[k], Node(nodes, edges[k].source), Node(nodes, edges[k].target))], 2))

\* The square root in thousandths.
Root(n) == CHOOSE r \in 0..(n * One) : r * r <= n * One * One /\ (r + 1) * (r + 1) > n * One * One

\* Thousandths of the weight that a map of this size may carry.
TopologyPressure(nodes, findings) ==
  LET weight == 10 * Total([k \in DOMAIN findings |-> SeverityWeight(findings[k])])
      room == IF (35 * Root(Len(nodes))) \div 10 > 4000 THEN (35 * Root(Len(nodes))) \div 10 ELSE 4000
  IN Least(One, (weight * One) \div room)

Ranked(findings) == Sorted(findings, LAMBDA a, b : Severity(a) < Severity(b))

Review(map) ==
  LET nodes == Nodes(map)
      edges == Edges(map)
      findings == AllFindings(nodes, edges)
  IN [nodes |-> nodes, edges |-> edges,
      findings |-> Upto(Ranked(findings), MaxReported),
      pressure |-> TopologyPressure(nodes, findings)]

-----------------------------------------------------------------------------
(* to_scanner_packet *)

\* Mutant: a node is as exposed as it has controls.
SurfaceSwapped(n) ==
  [id |-> n.id, criticality |-> n.criticality,
   exposure |-> (100 * Cardinality(n.controls)) \div Cardinality(Controls),
   controlStrength |-> IF "internetFacing" \in n.flags /\ n.exposure < 82 THEN 82 ELSE n.exposure,
   humanPressure |-> IF "privileged" \in n.flags THEN 62 ELSE 35,
   telemetryConfidence |-> n.telemetryConfidence, signals |-> 5, localMicro |-> 0]

Surface(n) ==
  [id |-> n.id, criticality |-> n.criticality,
   exposure |-> IF "internetFacing" \in n.flags /\ n.exposure < 82 THEN 82 ELSE n.exposure,
   controlStrength |-> (100 * Cardinality(n.controls)) \div Cardinality(Controls),
   humanPressure |-> IF "privileged" \in n.flags THEN 62 ELSE 35,
   telemetryConfidence |-> n.telemetryConfidence, signals |-> 5, localMicro |-> 0]

ScannerPacket(review) ==
  [surfaces |-> [i \in DOMAIN review.nodes |-> Surface(review.nodes[i])],
   links |-> [k \in DOMAIN review.edges |->
               [source |-> review.edges[k].source, target |-> review.edges[k].target,
                trust |-> review.edges[k].trust,
                controlStrength |-> review.edges[k].controlStrength]],
   deterministicFindings |-> Upto(review.findings, MaxInPacket)]
=============================================================================
