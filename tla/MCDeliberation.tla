---------------------------- MODULE MCDeliberation ----------------------------
(* Instances of Deliberation: two local models, a remote one and the offline   *)
(* calibrator; four shards.                                                   *)
EXTENDS Deliberation, TLC

CONSTANTS llama, gemma, openai, offline

MCClients == <<llama, gemma, openai, offline>>
MCProvider == llama :> "local" @@ gemma :> "local" @@ openai :> "openai" @@ offline :> "offline"

MCSituations ==
  {llama :> l @@ gemma :> g @@ openai :> o @@ offline :> "ready" :
     l \in {"off", "ready"}, g \in {"off", "ready"}, o \in {"off", "stub", "ready"}}

MCRequests ==
  {[kind |-> "scan", remote |-> TRUE, rounds |-> 1],
   [kind |-> "debate", remote |-> FALSE, rounds |-> 3], [kind |-> "debate", remote |-> TRUE, rounds |-> 1]}
  \cup {[kind |-> "datapull", mode |-> m, provider |-> p,
           topic |-> [healthcare |-> p = "offline", vendor |-> m = "single"], remote |-> p \notin {"local", "offline"}] :
          m \in {"single", "multi"}, p \in {"auto", "local", "openai", "offline"}}

Says(vectors, controls, notes, uncertainty, country, entry, range) ==
  [vectors |-> vectors, controls |-> controls, notes |-> notes, detail |-> 100,
   uncertainty |-> uncertainty, country |-> country, entry |-> entry, range |-> range,
   lists |-> TRUE]

MCAnswers ==
  {Says(<<"api", "cloud", "api">>, <<"mfa">>, 9, -30, "XX", "vpn", <<40, 10>>),
   Says(<<"magic", "cloud">>, <<"edr", "mfa">>, 2, 140, "RU", "", <<20, 30>>),
   [Silence EXCEPT !.lists = FALSE]}

MCDimensions ==
  <<[surface |-> "api", score |-> 300], [surface |-> "endpoint", score |-> 900], [surface |-> "cloud", score |-> 300]>>

MCControlFor == [api |-> "scoped tokens", endpoint |-> "edr", cloud |-> "least privilege"]

MCDraw ==
  [i \in 1..4 |-> [low |-> 250 * i, high |-> 1000 - 250 * i, confidence |-> 300 * (i % 2),
                   country |-> IF i = 3 THEN "CN" ELSE "XX"]]
=============================================================================
