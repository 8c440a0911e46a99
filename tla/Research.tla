------------------------------- MODULE Research -------------------------------
(***************************************************************************)
(* Two requests that work on the twin: POST /v1/research/analyze of        *)
(* sidecar/cyberforge_sidecar/research_api.py, whose steps are             *)
(* analyze_research of advanced_research.py and research.py, and           *)
(* POST /v1/infrastructure/review of infrastructure_api.py.  Each step is  *)
(* what runs between two awaits; the caller's session may end in between.  *)
(***************************************************************************)
EXTENDS InfrastructureMap

CONSTANTS
  Packets,       \* packets sent to the research endpoint
  Maps,          \* maps sent to the infrastructure endpoint
  HotspotLimit,  \* research.hotspotLimit: 1..6
  Delta,         \* research.sensitivityDelta, in percent
  Micro          \* what the local model may say of the surfaces of a scan

ASSUME ResearchAssumption ==
  /\ HotspotLimit \in 1..6 /\ Delta \in 2..20
  /\ \A packet \in Packets :
       /\ DOMAIN packet = {"surfaces", "links", "costs"}
       /\ packet.surfaces \in Seq(Surfaces) /\ packet.links \in Seq(Links)
       /\ \A x \in DOMAIN packet.costs : packet.costs[x] \in Int
  /\ \A micro \in Micro : \A id \in DOMAIN micro : micro[id] \in -50..50
  /\ Maps \subseteq [nodes : Seq(MapNodes), edges : Seq(Links)]

VARIABLES
  request,      \* what was asked, with a bearer token or not, and with remote models;
                \* autoPersist is SETTINGS.auto_persist_research when it is
  stage,
  coarse, deep, \* the two simulations
  sensitivity, frontier,
  review,       \* the review of a map, its packet and its simulation
  session,      \* the caller's token is live
  stored        \* the run is in the encrypted store

vars == <<request, stage, coarse, deep, sensitivity, frontier, review, session, stored>>

None == [none |-> TRUE]

Stages == {"received", "coarse", "deep", "sensitivity", "frontier", "debate", "signed",
           "reviewed", "answered", "refused"}

Requests ==
  [kind : {"analyze"}, body : Packets, bearer : BOOLEAN, autoPersist : BOOLEAN]
  \cup [kind : {"review"}, body : Maps, bearer : BOOLEAN, remote : BOOLEAN]

TypeOK ==
  /\ request \in Requests /\ stage \in Stages
  /\ session \in BOOLEAN /\ stored \in BOOLEAN
  /\ \A report \in {coarse, deep} \ {None} :
       /\ report.overall \in 0..One
       /\ \A i \in DOMAIN report.findings : report.findings[i].probability \in 0..One

-----------------------------------------------------------------------------
(* research.py *)

HotspotIds(report) ==
  Upto(Once([i \in DOMAIN report.findings |-> report.findings[i].id]), HotspotLimit)

\* _find_surface: the first surface with the id.
FindSurface(packet, id) ==
  CHOOSE i \in DOMAIN packet.surfaces :
    packet.surfaces[i].id = id /\ \A j \in 1..(i - 1) : packet.surfaces[j].id # id

Vary(packet, id, field, value) ==
  [packet EXCEPT !.surfaces[FindSurface(packet, id)][field] = value]

Field(packet, id, field) == packet.surfaces[FindSurface(packet, id)][field]

\* The change of the overall risk over the bounded change of one field, both ways.
Sensitivities(packet, hotspots) ==
  {LET now == Field(packet, id, f)
       Risk(v) == Simulate(Vary(packet, id, f, Clamp(v, 100))).overall
       low == Risk(now - Delta)
       high == Risk(now + Delta)
   IN [id |-> id, field |-> f, low |-> low, high |-> high,
       influence |-> ((IF high > low THEN high - low ELSE low - high) * 100) \div (2 * Delta)]
   : id \in ToSet(hotspots), f \in Fields}

\* Costs are tenths.
Actions ==
  <<[field |-> "controlStrength", step |-> 15, cost |-> 20],
    [field |-> "exposure", step |-> -15, cost |-> 30],
    [field |-> "telemetryConfidence", step |-> 15, cost |-> 15],
    [field |-> "humanPressure", step |-> -15, cost |-> 25]>>

Cost(packet, id, action) ==
  LET given == IF <<id, action.field>> \in DOMAIN packet.costs
               THEN packet.costs[<<id, action.field>>] ELSE action.cost
  IN IF given < 1 THEN 1 ELSE given

After(packet, id, action) == Clamp(Field(packet, id, action.field) + action.step, 100)

\* Every action on every hotspot that it changes, simulated by itself.
Candidates(packet, baseline, hotspots) ==
  LET Estimate(id, a) ==
        LET residual == Simulate(Vary(packet, id, a.field, After(packet, id, a))).overall
        IN [id |-> id, field |-> a.field, cost |-> Cost(packet, id, a), residual |-> residual,
            reduction |-> IF baseline > residual THEN baseline - residual ELSE 0]
      tries == Chained([h \in DOMAIN hotspots |->
                          [k \in DOMAIN Actions |-> [id |-> hotspots[h], action |-> Actions[k]]]], 4)
      changing == Items(tries, {n \in DOMAIN tries :
                          After(packet, tries[n].id, tries[n].action)
                            # Field(packet, tries[n].id, tries[n].action.field)})
  IN [n \in DOMAIN changing |-> Estimate(changing[n].id, changing[n].action)]

\* Mutant: what costs as much as another is dominated by it.
DominatesOnCost(a, b) == a # b /\ a.cost <= b.cost

Dominates(a, b) ==
  /\ a.cost <= b.cost /\ a.reduction >= b.reduction
  /\ a.cost < b.cost \/ a.reduction > b.reduction

Frontier(candidates) ==
  LET Effective(a, b) == a.reduction > b.reduction \/ (a.reduction = b.reduction /\ a.cost < b.cost)
      sorted == Sorted(candidates, Effective)
      retained == Items(sorted, {k \in DOMAIN sorted : ~\E o \in ToSet(candidates) : Dominates(o, sorted[k])})
  IN Upto(Sorted(retained, LAMBDA a, b : a.cost < b.cost), 24)

-----------------------------------------------------------------------------
(* POST /v1/research/analyze *)

Init ==
  /\ request \in Requests
  /\ stage = "received"
  /\ coarse = None /\ deep = None
  /\ sensitivity = {} /\ frontier = [options |-> <<>>, of |-> <<>>]
  /\ review = None
  /\ session = request.bearer /\ stored = FALSE

Step(kind, from, to) == request.kind = kind /\ stage = from /\ stage' = to

\* Validated once for the whole analysis; every simulation validates its copy again.
Scenario == Validate(request.body)

RefusePacket ==
  /\ Step("analyze", "received", "refused")
  /\ ~Accepted(request.body)
  /\ UNCHANGED <<request, coarse, deep, sensitivity, frontier, review, session, stored>>

\* The overall risk does not depend on the number of worlds.
RunCoarse ==
  /\ Step("analyze", "received", "coarse")
  /\ Accepted(request.body)
  /\ coarse' = Simulate(Scenario)
  /\ UNCHANGED <<request, deep, sensitivity, frontier, review, session, stored>>

RunDeep ==
  /\ Step("analyze", "coarse", "deep")
  /\ deep' = Simulate(Scenario)
  /\ UNCHANGED <<request, coarse, sensitivity, frontier, review, session, stored>>

RunSensitivity ==
  /\ Step("analyze", "deep", "sensitivity")
  /\ sensitivity' = Sensitivities(Scenario, HotspotIds(coarse))
  /\ UNCHANGED <<request, coarse, deep, frontier, review, session, stored>>

RunFrontier ==
  /\ Step("analyze", "sensitivity", "frontier")
  /\ LET c == Candidates(Scenario, deep.overall, HotspotIds(coarse))
     IN frontier' = [options |-> Frontier(c), of |-> c]
  /\ UNCHANGED <<request, coarse, deep, sensitivity, review, session, stored>>

\* The debate is RoleCouncil's; nothing of it comes back into the other results.
Debate ==
  /\ Step("analyze", "frontier", "debate")
  /\ UNCHANGED <<request, coarse, deep, sensitivity, frontier, review, session, stored>>

Sign ==
  /\ Step("analyze", "debate", "signed")
  /\ UNCHANGED <<request, coarse, deep, sensitivity, frontier, review, session, stored>>

\* A signing key that cannot be read, or a debate that fails, ends the request.
AnalysisFails ==
  /\ stage \in {"frontier", "debate"}
  /\ stage' = "refused"
  /\ UNCHANGED <<request, coarse, deep, sensitivity, frontier, review, session, stored>>

\* The analyses that are to be stored: the caller sent a header, and the setting is on.
ToPersist == request.autoPersist /\ request.bearer

\* The others are ephemeral.
AnswerEphemeral ==
  /\ Step("analyze", "signed", "answered")
  /\ ~ToPersist
  /\ UNCHANGED <<request, coarse, deep, sensitivity, frontier, review, session, stored>>

\* Mutant: a run that cannot be stored is answered all the same.
AnswerUnstored ==
  /\ Step("analyze", "signed", "answered")
  /\ ToPersist
  /\ UNCHANGED <<request, coarse, deep, sensitivity, frontier, review, session, stored>>

\* bearer_token looks at the session now, for the first time.
Persist ==
  /\ Step("analyze", "signed", "answered")
  /\ ToPersist /\ session
  /\ stored' = TRUE
  /\ UNCHANGED <<request, coarse, deep, sensitivity, frontier, review, session>>

\* The session has ended, or the put fails: the caller gets neither record nor result.
\* A put that fails after its commit, on the queue of the index, leaves the run stored.
PersistFails ==
  /\ Step("analyze", "signed", "refused")
  /\ ToPersist
  /\ stored' \in BOOLEAN /\ (stored' => session)
  /\ UNCHANGED <<request, coarse, deep, sensitivity, frontier, review, session>>

-----------------------------------------------------------------------------
(* POST /v1/infrastructure/review *)

RefuseMap ==
  /\ Step("review", "received", "refused")
  /\ ~AcceptedMap(request.body)
  /\ UNCHANGED <<request, coarse, deep, sensitivity, frontier, review, session, stored>>

\* Review, session check for remote models, packet: no await in between.
ReviewMap ==
  /\ stage = "received" /\ request.kind = "review" /\ AcceptedMap(request.body)
  /\ review' = Review(request.body)
  /\ stage' = IF request.remote /\ ~session THEN "refused" ELSE "reviewed"
  /\ UNCHANGED <<request, coarse, deep, sensitivity, frontier, session, stored>>

\* The local model is asked about the surfaces when it is loaded, and may fail on any.
ScanMap ==
  /\ Step("review", "reviewed", "answered")
  /\ Accepted(ScannerPacket(review))
  /\ \E micro \in Micro : deep' = Scan(ScannerPacket(review), micro)
  /\ UNCHANGED <<request, coarse, sensitivity, frontier, review, session, stored>>

\* A map may have more nodes than the scanner takes surfaces.
ScanFails ==
  /\ Step("review", "reviewed", "refused")
  /\ ~Accepted(ScannerPacket(review))
  /\ UNCHANGED <<request, coarse, deep, sensitivity, frontier, review, session, stored>>

Expire ==
  /\ session /\ session' = FALSE
  /\ UNCHANGED <<request, stage, coarse, deep, sensitivity, frontier, review, stored>>

Analyze == RefusePacket \/ RunCoarse \/ RunDeep \/ RunSensitivity \/ RunFrontier \/ Debate \/ Sign
           \/ AnalysisFails \/ AnswerEphemeral \/ Persist \/ PersistFails

ReviewRequest == RefuseMap \/ ReviewMap \/ ScanMap \/ ScanFails

Next == Analyze \/ ReviewRequest \/ Expire

Spec == Init /\ [][Next]_vars

-----------------------------------------------------------------------------
\* The order in which links are listed says nothing about the scenario, and changes
\* nothing in its simulation.
LinkOrderIrrelevant ==
  stage = "coarse" =>
    Simulate([Scenario EXCEPT !.links = Reverse(@)]).findings = coarse.findings

\* Surfaces that pressure from u can have reached after n rounds.
Near(links, u, n) ==
  LET near[r \in 0..n] ==
        IF r = 0 THEN {u}
        ELSE near[r - 1] \cup {l.target : l \in {x \in ToSet(links) : x.source \in near[r - 1]}}
  IN near[n]

\* Pressure travels along links, in their direction, and no further than the rounds
\* carry it: what happens to a surface changes no probability beyond that.
PressureStaysNear ==
  stage = "coarse" =>
    \A u \in Ids(Scenario.surfaces) :
      LET raised == Simulate(Vary(Scenario, u, "exposure", 100)).findings
          Of(findings, v) == {findings[i].probability : i \in {k \in DOMAIN findings : findings[k].id = v}}
      IN \A v \in Ids(Scenario.surfaces) \ Near(Scenario.links, u, Rounds) :
           Of(raised, v) = Of(coarse.findings, v)

\* No control that the analysis offers makes the scenario riskier, and every field
\* pulls in one direction: what a control saves on its surface it saves along the
\* links too, also where pressure has reached its limit.
ControlsNeverHurt ==
  /\ \A c \in ToSet(frontier.of) : c.residual <= deep.overall
  /\ \A s \in sensitivity :
       IF s.field \in {"controlStrength", "telemetryConfidence"} THEN s.high <= s.low ELSE s.low <= s.high

\* docs/RESEARCH_ANALYSIS.md: no retained option is both more expensive and less
\* effective than another; and for every budget the best option is retained.
FrontierAnswersBudgets ==
  LET options == ToSet(frontier.options)
      of == ToSet(frontier.of) IN
  /\ \A o \in options, c \in of : ~(c.cost < o.cost /\ c.reduction > o.reduction)
  /\ \A c \in of : \E o \in options : o.cost <= c.cost /\ o.reduction >= c.reduction
  /\ \A i, j \in DOMAIN frontier.options :
       i < j => /\ frontier.options[i].cost <= frontier.options[j].cost
                /\ frontier.options[i].reduction <= frontier.options[j].reduction

\* With auto_persist_research on, a caller who sends a token gets an answer only if the
\* run is stored; with it off, or without a token, the answer says so truly: it is not.
AnsweredIsStored ==
  request.kind = "analyze" /\ stage = "answered" => (stored <=> ToPersist)

\* What was reviewed is what is simulated: of a map within its limits, the scanner
\* drops no link and merges no nodes.
TwinKeepsMap ==
  stage = "reviewed" /\ Len(review.edges) <= MaxLinks =>
    LET packet == ScannerPacket(review)
        valid == Validate(packet)
    IN valid.links = packet.links /\ Len(Rows(valid.surfaces, valid.links)) = Len(review.nodes)

\* One more control on a node of the map makes neither side of the answer's assessment
\* worse: the review's pressure does not grow, nor does the twin's risk, whatever the
\* local model said of the surfaces, as long as it says the same of them.
MapControlsNeverHurt ==
  stage = "reviewed" =>
    \A i \in DOMAIN request.body.nodes, c \in Controls :
      LET better == Review([request.body EXCEPT !.nodes[i].controls = @ \cup {c}]) IN
      /\ better.pressure <= review.pressure
      /\ \A micro \in Micro :
           Scan(ScannerPacket(better), micro).overall <= Scan(ScannerPacket(review), micro).overall
=============================================================================
