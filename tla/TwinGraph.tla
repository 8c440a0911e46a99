------------------------------ MODULE TwinGraph ------------------------------
(***************************************************************************)
(* The defensive twin of sidecar/cyberforge_sidecar/scanner.py: how        *)
(* SuperScanner validates a packet of surfaces and links, estimates each   *)
(* surface, lets pressure spread along the links for three rounds, and     *)
(* ranks what it finds.                                                    *)
(*                                                                         *)
(* Fields of surfaces and links are percentages, probabilities and risks   *)
(* are thousandths.  The logistic function is a straight line here: all    *)
(* that is said of it is that it grows and stays in 0..1.                  *)
(***************************************************************************)
EXTENDS Scores

CONSTANTS
  Coupling,  \* share of a source's pressure that a link passes on: 260 in the code
  Rounds,    \* message-passing rounds: 3 in the code
  Leading,   \* findings that make up the overall risk: 12 in the code
  MaxPaths,  \* paths reported: 24 in the code
  MaxSurfaces,  \* SETTINGS.max_surfaces
  MaxLinks      \* links looked at: 8 for every surface allowed

ASSUME TwinGraphAssumption ==
  /\ Coupling \in Nat /\ Rounds \in Nat
  /\ Leading \in Nat \ {0} /\ MaxPaths \in Nat \ {0}
  /\ MaxSurfaces \in Nat \ {0} /\ MaxLinks \in Nat

-----------------------------------------------------------------------------
(* validate *)

Surfaces ==
  [id : STRING, criticality : Int, exposure : Int, controlStrength : Int, humanPressure : Int,
   telemetryConfidence : Int, signals : Nat, localMicro : -50..50]

Links == [source : STRING, target : STRING, trust : Int, controlStrength : Int]

Ids(surfaces) == {surfaces[i].id : i \in DOMAIN surfaces}

Fields == {"criticality", "exposure", "controlStrength", "humanPressure", "telemetryConfidence"}

Normalized(surface) ==
  [surface EXCEPT !.criticality = Clamp(@, 100), !.exposure = Clamp(@, 100),
                  !.controlStrength = Clamp(@, 100), !.humanPressure = Clamp(@, 100),
                  !.telemetryConfidence = Clamp(@, 100)]

\* Links to surfaces that are not there, and loops, are dropped.
Joins(link, surfaces) ==
  /\ link.source \in Ids(surfaces) /\ link.target \in Ids(surfaces)
  /\ link.source # link.target

NormalizedLink(link) == [link EXCEPT !.trust = Clamp(@, 100), !.controlStrength = Clamp(@, 100)]

ValidLinks(links, surfaces) ==
  LET normalized == [k \in DOMAIN links |-> NormalizedLink(links[k])]
  IN Items(normalized, {k \in DOMAIN links : Joins(links[k], surfaces)})

Accepted(packet) == Len(packet.surfaces) \in 1..MaxSurfaces

Validate(packet) ==
  [packet EXCEPT
     !.surfaces = [i \in DOMAIN @ |-> Normalized(@[i])],
     !.links = ValidLinks(Upto(@, MaxLinks), packet.surfaces)]

-----------------------------------------------------------------------------
(* _simulate *)

\* Mutant: telemetry counts for what it is trusted, and not for what it lacks.
LogitOfTelemetry(s) ==
  (2050 * s.exposure + 950 * s.criticality + 720 * s.humanPressure
   - 1750 * s.controlStrength + 480 * s.telemetryConfidence + 550 * s.localMicro) \div 100
  + (400 * Least(s.signals, 12)) \div 12 - 2200

\* signals is the number of notes on the surface, localMicro the local model's risk
\* above a half.
Logit(s) ==
  (2050 * s.exposure + 950 * s.criticality + 720 * s.humanPressure
   - 1750 * s.controlStrength + 480 * (100 - s.telemetryConfidence) + 550 * s.localMicro) \div 100
  + (400 * Least(s.signals, 12)) \div 12 - 2200

Probability(s) == Clamp(500 + Logit(s) \div 8, One)

Impact(s) == (780 * s.criticality + 150 * s.exposure + 70 * s.humanPressure) \div 100

\* by_id: with links, surfaces under one id become one, the last of them.  Without
\* links each stays.
Rows(surfaces, links) ==
  IF links = <<>> THEN surfaces
  ELSE LET Latest(id) == Max({i \in DOMAIN surfaces : surfaces[i].id = id})
       IN Items([i \in DOMAIN surfaces |-> surfaces[Latest(surfaces[i].id)]],
                {i \in DOMAIN surfaces : \A j \in 1..(i - 1) : surfaces[j].id # surfaces[i].id})

Row(rows, id) == CHOOSE i \in DOMAIN rows : rows[i].id = id

\* What a link passes on in a round, of its source's probability before the round.
Pressure(link, p, round) ==
  (((p * link.trust * (100 - link.controlStrength)) \div 10000) * Coupling) \div (One * round)

\* The increments of a round, all from the probabilities before it.
Passed(prob, rows, link, round) == Pressure(link, prob[Row(rows, link.source)], round)

Added(prob, rows, links, round) ==
  [i \in DOMAIN rows |->
     Total([k \in DOMAIN links |->
              IF links[k].target = rows[i].id THEN Passed(prob, rows, links[k], round) ELSE 0])]

Raise(p, increment) == One - ((One - p) * (One - increment)) \div One

\* Mutant: a link sees what the links before it have added in the same round.
SpreadInPlace(prob, rows, links, round) ==
  FoldLeft(LAMBDA now, l :
             [now EXCEPT ![Row(rows, l.target)] =
                Clamp(Raise(@, Pressure(l, now[Row(rows, l.source)], round)), One)],
           prob, links)

\* Mutant: a link carries pressure both ways.
SpreadBothWays(prob, rows, links, round) ==
  LET added == Added(prob, rows, links \o [k \in DOMAIN links |->
                 [links[k] EXCEPT !.source = links[k].target, !.target = links[k].source]], round)
  IN [i \in DOMAIN rows |-> Clamp(Raise(prob[i], added[i]), One)]

\* One round: every link adds to its target, then all targets change at once.
Spread(prob, rows, links, round) ==
  LET added == Added(prob, rows, links, round)
  IN [i \in DOMAIN rows |-> Clamp(Raise(prob[i], added[i]), One)]

Start(rows) == [i \in DOMAIN rows |-> Probability(rows[i])]

Propagated(rows, links) ==
  LET prob[round \in 0..Rounds] ==
        IF round = 0 THEN Start(rows) ELSE Spread(prob[round - 1], rows, links, round)
  IN prob[Rounds]

\* The links as first-round paths, the strongest first.
Paths(rows, links) ==
  Upto(Sorted([k \in DOMAIN links |->
                [source |-> links[k].source, target |-> links[k].target,
                 pressure |-> Clamp((32 * Pressure(links[k], Start(rows)[Row(rows, links[k].source)], 1)) \div 10, One)]],
              LAMBDA a, b : a.pressure > b.pressure),
       MaxPaths)

Findings(rows, prob) ==
  Sorted([i \in DOMAIN rows |-> [id |-> rows[i].id, probability |-> prob[i],
                                 risk |-> (prob[i] * Impact(rows[i])) \div One]],
         LAMBDA a, b : a.risk > b.risk)

Overall(findings) ==
  LET top == Upto(findings, Leading)
  IN IF top = <<>> THEN 0 ELSE Total([i \in DOMAIN top |-> top[i].risk]) \div Len(top)

\* validate and _simulate of a copy of the packet (_fast_simulation): no local model
\* is asked, and localMicro is 0.
Simulate(packet) ==
  LET valid == Validate(packet)
      rows == Rows(valid.surfaces, valid.links)
      findings == Findings(rows, Propagated(rows, valid.links))
  IN [findings |-> findings, overall |-> Overall(findings), paths |-> Paths(rows, valid.links)]

\* scan: micro has what the local model said of the surfaces it answered for.
Judged(surface, micro) ==
  [surface EXCEPT !.localMicro = IF surface.id \in DOMAIN micro THEN micro[surface.id] ELSE 0]

Scan(packet, micro) ==
  Simulate([packet EXCEPT !.surfaces = [i \in DOMAIN @ |-> Judged(@[i], micro)]])
=============================================================================
