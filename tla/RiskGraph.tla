------------------------------ MODULE RiskGraph ------------------------------
(***************************************************************************)
(* The risk engine as functions of one organisation's graph:               *)
(* server/app/services/risk_engine.py, attack_paths.py, impact.py,         *)
(* hardening.py and the loader engine_loader.py.                           *)
(*                                                                         *)
(* The code computes with floats rounded to three places. Here a weight,   *)
(* an ease, a factor or a likelihood is an integer number of thousandths,  *)
(* a CVSS score one of tenths, and a quotient is cut instead of rounded.   *)
(* An engine is a record: node (the assets and INTERNET, each with its     *)
(* NodeData) and edge (a relation for every linked pair).                  *)
(***************************************************************************)
EXTENDS Integers, Sequences, FiniteSets

LOCAL INSTANCE FiniteSetsExt
LOCAL INSTANCE SequencesExt
LOCAL INSTANCE Functions

CONSTANTS
    MaxHops,        \* RiskConfig.max_hops: 6
    PathsPerTarget, \* RiskConfig.paths_per_target: 5
    TopK,           \* RiskConfig.top_k: 25
    MaxCandidates   \* MAX_CANDIDATES_PER_TARGET: 500

INTERNET == "INTERNET"
One == 1000

CritFactor == [low |-> 250, medium |-> 500, high |-> 750, critical |-> 1000]
RelationBase == [exposure |-> 100, network |-> 200, trust |-> 250, admin |-> 150]
RelationEase == [exposure |-> 500, network |-> 400, trust |-> 450, admin |-> 500]
ImpactMultiplier == [database |-> 1000, webapp |-> 700, server |-> 600, workstation |-> 300,
                     firewall |-> 500, router |-> 500, iot |-> 400, cloud |-> 800]

\* RiskConfig: the weights of a node's and of a path's risk, in hundredths.
Config == [exploit |-> 30, reach |-> 25, central |-> 20, value |-> 15, crit |-> 10,
           pLikely |-> 45, pValue |-> 30, pCrit |-> 15, pWeight |-> 10]

Clamped(x, lo, hi) == Max({lo, Min({hi, x})})

(***************************************************************************)
(* Loading. asset: its row and the open or remediating findings on it,     *)
(* each with exploitability and CVSS of its vulnerability. top: the first  *)
(* finding with the best rank, 0 when there is none.                       *)
(***************************************************************************)
Rank(f) == 6 * f.exploitability + 40 * f.cvss
TopFinding(fs) ==
    IF fs = {} THEN 0
    ELSE CHOOSE v \in {f.vuln : f \in fs} :
            \E f \in fs : f.vuln = v /\ \A g \in fs : Rank(f) > Rank(g) \/ (Rank(f) = Rank(g) /\ v <= g.vuln)

NodeOf(asset) ==
    [type |-> asset.type, zone |-> asset.zone, crit |-> asset.crit, value |-> asset.value,
     exposed |-> asset.exposed, open |-> Cardinality(asset.findings),
     exploitability |-> Max({100} \cup {f.exploitability : f \in asset.findings}),
     cvss |-> Max({10} \cup {f.cvss : f \in asset.findings}),
     top |-> TopFinding(asset.findings)]

InternetNode == [type |-> "cloud", zone |-> "none", crit |-> "low", value |-> 0,
                 exposed |-> TRUE, open |-> 0, exploitability |-> 100, cvss |-> 10, top |-> 0]

\* build_engine: an exposure edge to every internet-facing asset, then the links
\* between known assets.
Engine(assets, links) ==
    LET ids == DOMAIN assets
        known == {l \in DOMAIN links : l[1] \in ids /\ l[2] \in ids}
        exposed == {<<INTERNET, a>> : a \in {b \in ids : assets[b].exposed}}
    IN [node |-> [n \in ids \cup {INTERNET} |-> IF n = INTERNET THEN InternetNode ELSE NodeOf(assets[n])],
        edge |-> [l \in exposed \cup known |-> IF l \in known THEN links[l] ELSE "exposure"]]

Assets(e) == DOMAIN e.node \ {INTERNET}

EaseOfCompromise(node) == Clamped((6 * node.exploitability + 40 * node.cvss) \div 10, 0, One)
HopEase(e, u, v) ==
    LET floor == IF <<u, v>> \in DOMAIN e.edge THEN RelationEase[e.edge[<<u, v>>]] ELSE 400
    IN Clamped(Max({EaseOfCompromise(e.node[v]), floor}), 0, One)
EdgeWeight(e, u, v) == RelationBase[e.edge[<<u, v>>]] + (One - EaseOfCompromise(e.node[v]))

ValueFactor(e, node) ==
    LET values == {e.node[a].value : a \in Assets(e)} \cup (IF Assets(e) = {} THEN {0} ELSE {})
        lo == Min(values)
        hi == Max(values)
    IN IF hi <= lo THEN 0 ELSE Clamped(((node.value - lo) * One) \div (hi - lo), 0, One)

(***************************************************************************)
(* Paths. networkx finds them; the model takes the set of simple paths.    *)
(***************************************************************************)
SimplePathsFrom(e, s) ==
    LET next(p) == {v \in DOMAIN e.node : <<Last(p), v>> \in DOMAIN e.edge /\ ~\E i \in DOMAIN p : p[i] = v}
        step(ps) == UNION {{Append(p, v) : v \in next(p)} : p \in ps}
        grow[k \in 0..Cardinality(DOMAIN e.node)] ==
            IF k = 0 THEN {<<s>>} ELSE step(grow[k - 1])
    IN UNION {grow[k] : k \in 1..Cardinality(DOMAIN e.node)}

Hops(p) == Len(p) - 1
TotalWeight(e, p) == FoldFunctionOnSet(+, 0, [i \in 1..Hops(p) |-> EdgeWeight(e, p[i], p[i + 1])], 1..Hops(p))

PathsTo(e, t) == {p \in SimplePathsFrom(e, INTERNET) : Last(p) = t}

\* blast_radius: what is reachable from a compromised node.
BlastRadius(e, n) == {Last(p) : p \in SimplePathsFrom(e, n)} \ {INTERNET, n}

Lightest(e, ps) == {p \in ps : \A q \in ps : TotalWeight(e, p) <= TotalWeight(e, q)}

\* Betweenness of every node: the share of the lightest paths of each pair that
\* go through it, unnormalised (the score divides by the largest one).
Betweenness(e) ==
    LET from == [s \in DOMAIN e.node |-> SimplePathsFrom(e, s)]
        pairs == {st \in (DOMAIN e.node) \X (DOMAIN e.node) : st[1] # st[2]}
        light == [st \in pairs |-> Lightest(e, {p \in from[st[1]] : Last(p) = st[2]})]
        share(n, st) == LET through == {p \in light[st] : \E i \in 2..Hops(p) : p[i] = n}
                        IN IF light[st] = {} THEN 0 ELSE (Cardinality(through) * 60) \div Cardinality(light[st])
    IN [n \in DOMAIN e.node |-> MapThenSumSet(LAMBDA st : share(n, st), pairs)]

\* An asset's share of the most central node's betweenness.
Centrality(e) ==
    LET between == Betweenness(e)
        most == Max({between[n] : n \in DOMAIN e.node})
    IN [a \in Assets(e) |-> IF most = 0 THEN 0 ELSE (between[a] * One) \div most]

\* compute_node_scores: an asset's risk in thousandths of a point, 0..100000.
NodeScores(e) ==
    LET dist(a) == Min({TotalWeight(e, p) : p \in PathsTo(e, a)})
        reach(a) == IF PathsTo(e, a) = {} THEN 0 ELSE Max({500, (One * One) \div (One + dist(a))})
        central == Centrality(e)
    IN [a \in Assets(e) |-> Clamped(
            Config.exploit * EaseOfCompromise(e.node[a]) + Config.reach * reach(a)
            + Config.central * central[a] + Config.value * ValueFactor(e, e.node[a])
            + Config.crit * CritFactor[e.node[a].crit], 0, 100 * One)]

(***************************************************************************)
(* Attack paths.                                                           *)
(***************************************************************************)
FindTargets(e) ==
    LET n == Cardinality(Assets(e))
        index == Max({0, (n \div 10) - 1})
        \* the value at that index of the values in descending order
        threshold == CHOOSE x \in {e.node[a].value : a \in Assets(e)} :
                        /\ Cardinality({a \in Assets(e) : e.node[a].value > x}) <= index
                        /\ Cardinality({a \in Assets(e) : e.node[a].value >= x}) > index
    IN {a \in Assets(e) : \/ e.node[a].zone = "crown_jewel"
                          \/ e.node[a].crit = "critical"
                          \/ e.node[a].value >= threshold}

\* n members of S that come first; of two that come together either may be among them.
First(n, S, before(_, _)) ==
    IF Cardinality(S) <= n THEN S
    ELSE CHOOSE K \in kSubset(n, S) : \A p \in K, q \in S \ K : ~before(q, p)

\* The paths kept for one target: shortest_simple_paths yields them by weight,
\* one longer than max_hops is passed over, and at most paths_per_target of the
\* first candidates are kept.
Lighter(e, p, q) == TotalWeight(e, p) < TotalWeight(e, q)
Candidates(e, t) == First(MaxCandidates, PathsTo(e, t), LAMBDA p, q : Lighter(e, p, q))
\* Mutant: the search ends at the first path that is too long.
TargetPathsBreak(e, t) ==
    LET long == {p \in Candidates(e, t) : Hops(p) > MaxHops}
        before == {p \in Candidates(e, t) : \A q \in long : Lighter(e, p, q)}
    IN First(PathsPerTarget, before, LAMBDA p, q : Lighter(e, p, q))
TargetPaths(e, t) ==
    First(PathsPerTarget, {p \in Candidates(e, t) : Hops(p) <= MaxHops}, LAMBDA p, q : Lighter(e, p, q))
RawPaths(e) == UNION {TargetPaths(e, t) : t \in FindTargets(e)}

Likelihood(e, p) ==
    LET chain[i \in 0..Hops(p)] == IF i = 0 THEN One ELSE (chain[i - 1] * HopEase(e, p[i], p[i + 1])) \div One
    IN Clamped(chain[Hops(p)], 1, 999)

PathRisk(e, p, raw) ==
    LET weights == {TotalWeight(e, q) : q \in raw}
        lo == Min(weights)
        hi == Max(weights)
        norm == IF hi <= lo THEN 0 ELSE ((TotalWeight(e, p) - lo) * One) \div (hi - lo)
        target == e.node[Last(p)]
    IN Clamped(Config.pLikely * Likelihood(e, p) + Config.pValue * ValueFactor(e, target)
               + Config.pCrit * CritFactor[target.crit] + Config.pWeight * (One - norm), 0, 100 * One)

\* path_impact_usd, with breach the breach_cost_base.
Impact(e, p, breach) ==
    LET target == e.node[Last(p)]
    IN Max({0, (Likelihood(e, p) * ((target.value * ImpactMultiplier[target.type]) \div One + breach)) \div One})

\* enumerate_paths with what recompute stores of a path; the top_k of the ranking.
AttackPaths(e, breach) ==
    LET raw == RawPaths(e)
        scored == {[steps |-> p, target |-> Last(p), hops |-> Hops(p), risk |-> PathRisk(e, p, raw),
                    likelihood |-> Likelihood(e, p), impact |-> Impact(e, p, breach)] : p \in raw}
        better(s, r) == s.risk > r.risk \/ (s.risk = r.risk /\ s.hops < r.hops)
    IN First(TopK, scored, better)

\* total_exposure: the worst impact per target, added up.
TotalExposure(paths) ==
    MapThenSumSet(LAMBDA t : Max({p.impact : p \in {q \in paths : q.target = t}}), {p.target : p \in paths})

(***************************************************************************)
(* Hardening: the engine after a change, and the scores it gives.          *)
(***************************************************************************)
Patched(e, a) == [e EXCEPT !.node[a].exploitability = 100, !.node[a].cvss = 10,
                           !.node[a].open = 0, !.node[a].top = 0]
Cut(e, links) == [e EXCEPT !.edge = [l \in DOMAIN e.edge \ links |-> e.edge[l]]]

\* The three actions hardening_report may recommend for an asset of score 40 or more.
\* The lateral link is the one of the largest stored weight (Connection.weight, None is
\* 0), which is what the last recomputation left in the row and not what the link weighs in e.
Recommended(e, a, stored) ==
    LET inbound == {l \in DOMAIN e.edge : l[2] = a /\ l[1] # INTERNET}
        worst == {l \in inbound : \A k \in inbound : stored[l] >= stored[k]}
        exposure == {l \in DOMAIN e.edge : l = <<INTERNET, a>> /\ e.node[a].exposed}
    IN [patch |-> e.node[a].open > 0, cut |-> exposure \cup (IF worst = {} THEN {} ELSE {CHOOSE l \in worst : TRUE})]
Hardened(e, a, stored) ==
    LET r == Recommended(e, a, stored)
    IN Cut(IF r.patch THEN Patched(e, a) ELSE e, r.cut)
ReportedFrom == 40 * One

-----------------------------------------------------------------------------
\* What reaches a target from the internet within the hop limit.
ShortPaths(e, t) == {p \in PathsTo(e, t) : Hops(p) <= MaxHops}

Exposure(e, breach) == TotalExposure(AttackPaths(e, breach))
\* The exposure over every path within the hop limit, with no other limit.
FullExposure(e, breach) ==
    MapThenSumSet(LAMBDA t : Max({0} \cup {Impact(e, p, breach) : p \in ShortPaths(e, t)}), FindTargets(e))

\* What one may expect of acting on what the engine reports.  Patching an asset does not
\* raise its own risk, although its share of the betweenness is relative to the others'.
\* It may raise the reported exposure, when a path the limits left out takes the place of one
\* that got heavier (attack_paths.py:152-166), but never beyond the exposure over all the
\* paths there were.  Everything hardening_report recommends for an asset, done at once,
\* raises its risk only if it makes the asset more central than it was: cutting a link may
\* take more from the most central node than from the asset (risk_engine.py:231).
\* Whatever weights the rows hold decides which link is recommended.
FixHelps(e, breach) ==
    LET risk == NodeScores(e)
        central == Centrality(e)
        heaviest(l) == [k \in DOMAIN e.edge |-> IF k = l THEN 1 ELSE 0]
    IN \A a \in Assets(e) :
          /\ e.node[a].open > 0 =>
                /\ NodeScores(Patched(e, a))[a] <= risk[a]
                /\ Exposure(Patched(e, a), breach) <= FullExposure(e, breach)
          /\ risk[a] >= ReportedFrom =>
                \A l \in {k \in DOMAIN e.edge : k[2] = a} :
                   LET h == Hardened(e, a, heaviest(l))
                   IN NodeScores(h)[a] <= risk[a] \/ Centrality(h)[a] > central[a]

\* A stored attack path leads to a target the internet reaches within the hop limit; and
\* every such target has one, also when its lightest paths are longer ones, unless these are
\* as many as are examined, or more paths were kept than the ranking holds.
TargetsCovered(e, breach) ==
    LET stored == AttackPaths(e, breach)
    IN \A t \in Assets(e) :
          /\ (\E p \in stored : p.target = t) => t \in FindTargets(e) /\ ShortPaths(e, t) # {}
          /\ /\ t \in FindTargets(e) /\ ShortPaths(e, t) # {}
             /\ Cardinality(PathsTo(e, t) \ ShortPaths(e, t)) < MaxCandidates
             /\ Cardinality(RawPaths(e)) <= TopK
             => \E p \in stored : p.target = t
=============================================================================
