------------------------------ MODULE MCResearch ------------------------------
(* Packets and maps for Research: two surfaces with every short list of links, *)
(* ids given twice, chains longer than the rounds, links enough to saturate.   *)
EXTENDS Research, TLC

Profile(name) ==
  CASE name = "weak"   -> <<120, 90, -10, 80, 20>>
    [] name = "usual"  -> <<60, 50, 50, 40, 60>>
    [] name = "strong" -> <<30, 10, 95, 20, 100>>

S(id, name) ==
  [id |-> id, criticality |-> Profile(name)[1], exposure |-> Profile(name)[2],
   controlStrength |-> Profile(name)[3], humanPressure |-> Profile(name)[4],
   telemetryConfidence |-> Profile(name)[5],
   signals |-> IF name = "weak" THEN 15 ELSE 0, localMicro |-> 0]

To(source, target, trust, control) ==
  [source |-> source, target |-> target, trust |-> trust, controlStrength |-> control]

Names == {"weak", "usual", "strong"}

Few == {To("a", "b", 90, 10), To("b", "a", 60, 30), To("a", "a", 90, 10), To("a", "x", 90, 10)}

Pairs ==
  {[surfaces |-> <<S("a", p[1]), S(p[3], p[2])>>, links |-> l, costs |-> <<>>] :
     p \in Names \X Names \X {"a", "b"},
     l \in SeqOf(Few, 2)}

Chain(names) == [k \in 1..4 |-> To(names[k], names[k + 1], 100, 0)]

Letters == <<"a", "b", "c", "d", "e">>

Chains ==
  {[surfaces |-> [k \in 1..5 |-> S(Letters[k], IF k = w THEN "weak" ELSE "usual")],
    links |-> l, costs |-> (<<"a", "exposure">> :> 0 @@ <<"b", "controlStrength">> :> 90)] :
     w \in 1..5, l \in {Chain(Letters), Reverse(Chain(Letters)), Append(Chain(Letters), To("e", "a", 80, 20)),
                        <<>>}}

\* Links into b that carry more than there is room for, in the second round too.
Saturated ==
  {[surfaces |-> <<S("a", p), S("b", "usual"), S("c", "strong")>>,
    links |-> [k \in 1..n |-> IF k = n THEN To("b", "c", 90, 20) ELSE To("a", "b", 100, 0)],
    costs |-> <<>>] : p \in Names, n \in {8, 15}}

TooMany == {[surfaces |-> [k \in 1..n |-> S("a", "usual")], links |-> <<>>, costs |-> <<>>] : n \in {0, 6}}

MCPackets == TooMany \cup Pairs \cup Chains \cup Saturated

N(id, kind, zone, flags, controls, criticality, exposure) ==
  [id |-> id, kind |-> kind, zone |-> zone, flags |-> flags, controls |-> controls,
   criticality |-> criticality, exposure |-> exposure, telemetryConfidence |-> 50]

First == {N("a", "device", "dmz", {"internetFacing"}, {"mfa"}, 50, 40),
          N("a", "server", "core", {"privileged", "sensitive"}, {}, 90, 20)}
Second == {N(" a", "device", "core", {}, {"logging"}, 70, 60),
           N(" b", "server", "core", {"privileged"}, {"mfa", "segmented"}, 85, 95),
           N("b", "server", "dmz", {"internetFacing", "privileged"}, {}, 40, 30)}

Ways == {To("a", "b", 120, 30), To("b", "a", 50, 50), To("a", " b", 80, 30)}

Small == {[nodes |-> <<f, s>>, edges |-> e] : f \in First, s \in Second, e \in SeqOf(Ways, 2)}

\* A hub: four neighbours make it a point of concentration.
Hub == {[nodes |-> <<N("h", "device", "core", {}, c, 70, 50)>>
                   \o [k \in 1..4 |-> N(Letters[k], "device", z, {}, {}, 30, 30)],
         edges |-> [k \in 1..4 |-> IF k % 2 = 0 THEN To("h", Letters[k], 60, 50) ELSE To(Letters[k], "h", 60, 50)]] :
          c \in {{}, {"segmented"}}, z \in {"core", "dmz"}}

\* Ids that differ in their blanks only.
Blanks == {[nodes |-> <<N("a", "device", "dmz", {}, {}, 50, 40), s, N("b", "device", "core", {}, {}, 60, 30)>>,
            edges |-> <<To("a", "b", 80, 30)>>] : s \in Second}

\* Six nodes: reviewed, but too many for the scanner.  Seven are refused.
Wide == {[nodes |-> [k \in 1..n |-> N(<<"a", "b", "c", "d", "h", "k", "l">>[k], "device", "core", {}, {}, 30, 30)],
          edges |-> <<>>] : n \in {6, 7}}

\* More edges than the scanner takes links.
Dense == {[nodes |-> <<N("a", "device", "core", {}, {}, 50, 40), N("b", "device", "core", {}, {}, 50, 40)>>,
           edges |-> [k \in 1..18 |-> To("a", "b", 50, 50)]]}

\* A node with nothing but blanks for its id.
Nameless == {[nodes |-> <<N(" ", "device", "core", {}, {}, 50, 40)>>, edges |-> <<>>]}

MCMaps == Wide \cup Dense \cup Small \cup Blanks \cup Nameless \cup Hub

MCStripped == [id \in {"a", "b", "c", "d", "h", "k", "l", " ", " a", " b"} |->
                 CASE id = " " -> "" [] id = " a" -> "a" [] id = " b" -> "b" [] OTHER -> id]

\* No local model, one that agrees on nothing, and one that fails on most surfaces.
MCMicro == {<<>>, "a" :> 50 @@ "b" :> -50 @@ "h" :> -50, "h" :> 37}
=============================================================================
