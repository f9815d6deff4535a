----------------------------- MODULE MCServices -----------------------------
(***************************************************************************)
(* Services for TLC: small instances of the services that share no state,  *)
(* and the inputs of the functions.                                        *)
(***************************************************************************)
EXTENDS Services, TLC

CONSTANTS p1, p2, a1, a2, a3

-----------------------------------------------------------------------------
(* The correlator: two products, the first with an exploited advisory that *)
(* matches and a plain one that does not.                                  *)
MCProducts == {p1, p2}
MCAbout == [a \in Advisories |-> IF a = a3 THEN p2 ELSE p1]

(* The lookup: a service with a CPE, one found by keyword with an advisory *)
(* that does not name it and one without a score, and one without version. *)
MCReturned(s) == IF s = "s1" THEN {"c1", "c2"} ELSE {"c2", "c3"}
MCMentions(s) == {"c3"}
MCCvss(c) == IF c = "c1" THEN 90 ELSE 50
MCScans == {<<"s1", "s3">>, <<"s2">>}

(* The feed: one device, one agent; two observes at once.                  *)
MCIncludes(a, b) == FALSE
MCDevices == {[ip |-> "10.0.0.5", net |-> 1, name |-> None, self |-> FALSE]}
MCPayloads == {[host |-> "10.0.0.5", foreign |-> FALSE, tabs |-> {}, procs |-> FALSE, domains |-> {"d1"}, dns |-> TRUE]}
MCReports == {[host |-> "10.0.0.5", kinds |-> {"dns"}]}

(* The sweep: an interface, a routed network that answers, one that does   *)
(* not, one beyond the size cap and one that is private but not RFC 1918;  *)
(* with and without a wireless adapter and a hardware address.             *)
MCHostCount(n) == IF n = "n3" THEN 9 ELSE 2
World(ifaces, wifi, routes, replies, joined, visible, mac) ==
    [ifaces |-> ifaces, wifi |-> wifi, routes |-> routes, replies |-> replies, joined |-> joined,
     visible |-> visible, mac |-> mac]
MCWorlds == {World({"n1"}, "n1", {"n2"}, {}, "w1", {"w1"}, TRUE),
             World({"n3"}, None, {"n2", "n4"}, {"n2"}, None, {}, FALSE)}

(* The AI tasks: a finding of an asset whose title holds a marker, and one *)
(* of an Android endpoint; the model refuses, answers well, answers badly, *)
(* or leaves the script out.                                               *)
Answer(refused, kind, script, marked) == [refused |-> refused, kind |-> kind, script |-> script, marked |-> marked]
MCAnswers == {Answer(TRUE, None, FALSE, FALSE), Answer(FALSE, "shell", TRUE, FALSE),
              Answer(FALSE, None, TRUE, TRUE), Answer(FALSE, None, FALSE, FALSE)}

(* The limiter: a client, a burst of two, one token a tick, evicted when   *)
(* idle longer than a refill takes.  The accounts: two requests of a user, *)
(* and two who register under the same name.                               *)

-----------------------------------------------------------------------------
(* The inputs of the functions. *)

\* Assets of different value, links among them, some exposed.  Three whose findings
\* make them a little easier; four where the long way in is the easier one; more short
\* paths to a target, and to all targets, than are kept, the heaviest over a link that is
\* easier; as many lighter long paths as are examined; and a hub that loses more by
\* a link that is cut than the asset the link leads to.
Weakness == [sound |-> {}, weak |-> {[vuln |-> 1, exploitability |-> 200, cvss |-> 40]},
              broken |-> {[vuln |-> 1, exploitability |-> 1000, cvss |-> 100]}]
Value == [a |-> 10000, b |-> 20000, c |-> 40000, d |-> 10000, x |-> 10000]
Relation(l) == IF l = <<"a", "b">> THEN "admin" ELSE IF l = <<"d", "c">> THEN "trust" ELSE "network"
Graph(state, exposed, critical, links) ==
    Risk!Engine([a \in DOMAIN state |->
                   [type |-> "server", zone |-> IF a = "c" THEN "crown_jewel" ELSE "internal",
                    crit |-> IF a \in critical THEN "critical" ELSE "medium",
                    value |-> Value[a], exposed |-> a \in exposed, findings |-> Weakness[state[a]]]],
                [l \in links |-> Relation(l)])
Weak(assets, weak) == [a \in assets |-> IF a \in weak THEN "weak" ELSE "sound"]
Broken(assets, broken) == [a \in assets |-> IF a \in broken THEN "broken" ELSE "sound"]
Three == {"a", "b", "c"}
Four == Three \cup {"d"}
Five == Four \cup {"x"}
MCGraphs ==
    {Graph(Weak(Three, weak), exposed, {}, links) :
       exposed \in {{"a"}, {"a", "b"}}, weak \in {{"b"}, {"c"}, {"b", "c"}, {"a", "b", "c"}},
       links \in SUBSET {<<"a", "b">>, <<"b", "c">>, <<"a", "c">>, <<"c", "b">>}}
    \cup {Graph(Broken(Four, {"a", "b"}), {"a", "d"}, {}, links \cup {<<"d", "c">>}) :
            links \in SUBSET {<<"a", "b">>, <<"b", "c">>, <<"b", "d">>}}
    \cup {Graph(Weak(Four, weak), {"a", "b", "d"}, critical, links \cup {<<"a", "c">>, <<"b", "c">>, <<"d", "c">>}) :
            weak \in {{"a", "b"}, {"a", "b", "d"}}, critical \in {{}, {"b", "d"}},
            links \in {{}, {<<"a", "b">>, <<"b", "d">>}}}
    \cup {Graph([Broken(Five, {"a", "b", "d"}) EXCEPT !["x"] = "weak"], {"a", "x"}, {},
                links \cup {<<"a", "b">>, <<"b", "c">>, <<"x", "c">>, <<"a", "d">>, <<"d", "c">>}) :
            links \in {{}, {<<"b", "d">>}}}
    \cup {Graph(Weak(Five, {}), {"a", "d"}, {"c"},
                {<<"a", "b">>, <<"b", "c">>, <<"b", "x">>, <<"d", "c">>, <<"c", "x">>})}

\* Three targets in batches of two, or one; a batch may fail, answer for another's
\* host, or leave one out.
Host(ip) == [addresses |-> <<[type |-> "ipv4", addr |-> ip]>>, status |-> "up",
             ports |-> <<[state |-> "open", id |-> 80, conf |-> 11, cpes |-> <<>>, name |-> {"http"},
                          tunnel |-> "none", extra |-> {}]>>]
NmapReply(hosts, timedOut, printed) ==
    [missing |-> FALSE, timedOut |-> timedOut, printed |-> printed, wellFormed |-> TRUE,
     hosts |-> [i \in DOMAIN hosts |-> Host(hosts[i])]]
BatchReplies == {NmapReply(hs, FALSE, TRUE) : hs \in {<<>>, <<"h1">>, <<"h2", "h3">>, <<"h1", "h9">>}}
                \cup {NmapReply(<<"h1", "h2">>, TRUE, TRUE), NmapReply(<<>>, FALSE, FALSE)}
MCRanges == [discovery : {NmapReply(<<"h1", "h2", "h3">>, FALSE, TRUE), NmapReply(<<>>, FALSE, TRUE)},
           replies : [1..3 -> BatchReplies], size : 1..2, cap : 2..3]

\* Versions of one to three components, and ranges with fixes on two branches.
Num(n) == <<"n", n>>
Versions == {<<>>, <<Num(1)>>, <<Num(1), Num(0)>>, <<Num(1), Num(1)>>, <<Num(2)>>, <<Num(2), Num(1)>>,
             <<Num(1), <<"w", 1>>>>, <<Num(1), Num(0), <<"w", 2>>>>}
Event(introduced, fixed) == [introduced |-> introduced, fixed |-> fixed]
Blocks == {<<Event(<<>>, <<>>), Event(<<>>, <<Num(1), Num(1)>>)>>, <<Event(<<Num(2)>>, <<>>)>>,
           <<Event(<<Num(2)>>, <<Num(2), Num(1)>>)>>, <<>>}
MCUpgrades == [u : Versions, v : Versions, w : Versions, blocks : {<<b>> : b \in Blocks} \cup {<<b, c>> : b, c \in Blocks}]

\* Two assets in the zones that matter, with and without links and open ports.
Site(zone, internet, ports, dmz) ==
    [ip |-> zone, zone |-> zone, crit |-> "high", internet |-> internet, ports |-> ports, dmz |-> dmz]
MCFacts ==
    {[assets |-> [a \in {"x", "y", "z"} |->
                    IF a = "x" THEN Site(zones[1], faces, ports, declared)
                    ELSE IF a = "y" THEN Site(zones[2], FALSE, {}, FALSE) ELSE Site("internal", FALSE, {5432}, FALSE)],
      links |-> links, devices |-> devices, gateway |-> "none", forwards |-> forwards, dhcp |-> <<>>,
      snooping |-> "none"] :
        zones \in {"dmz", "internal", "none"} \X {"crown_jewel", "internal", "none"}, faces \in BOOLEAN,
        ports \in {{}, {80, 22}}, declared \in BOOLEAN, links \in {{}, {<<"x", "z">>}, {<<"z", "y">>}},
        devices \in {<<>>, <<[ip |-> "gw", gateway |-> TRUE, online |-> TRUE]>>},
        forwards \in {{}, {[external |-> 80, ip |-> "internal", port |-> 3306]}}}

\* A plain site, a suspicious one and an address; answers of the network.
Url(scheme, ip, at, brand) ==
    [blank |-> FALSE, scheme |-> scheme, host |-> "h", ip |-> ip, punycode |-> FALSE, at |-> at, user |-> at,
     labels |-> 2, abusedTld |-> FALSE, length |-> 20, lureHost |-> brand, lurePath |-> FALSE, official |-> FALSE,
     brand |-> brand, own |-> FALSE, app |-> FALSE]
Hop(site, dns, redirects) == [site |-> site, dns |-> dns, status |-> 200, redirects |-> redirects, down |-> FALSE]
Chains == {<<Hop("h", d, FALSE)>> : d \in {{"public"}, {"nxdomain"}, {"failed"}}}
          \cup {<<Hop("h", {"public"}, TRUE), Hop(s, d, FALSE)>> : s \in {"h", "o"}, d \in {{"public"}, {"public", "private"}}}
MCUrls == {Url("none", FALSE, a, b) : a \in BOOLEAN, b \in BOOLEAN} \cup {Url("http", i, FALSE, TRUE) : i \in BOOLEAN}
UrlChecked(sb, vt) == [u : MCUrls, hops : Chains, peer : {"trusted", "untrusted", "down"}, age : {-1, 10}, sb : sb, vt : vt]
MCUrlChecks == UrlChecked({"absent", "error", "flagged", "clean"}, {"absent"})
               \cup UrlChecked({"clean"}, {"malicious", "suspicious", "harmless"})

\* A device with a deep scan or none, findings of its agent, a verdict and sessions.
Cve(id, cvss, severity, kevFlag, state) ==
    [id |-> id, cvss |-> cvss, severity |-> severity, product |-> "x", kev |-> kevFlag, state |-> state]
MCEndpointFindings == {Cve("c1", 20, "low", FALSE, "VULNERABLE"), Cve("c2", 70, "high", TRUE, "KNOWN_EXPLOITED"),
                     Cve("c3", 90, "critical", FALSE, "VULNERABLE"), Cve("c4", 90, "critical", FALSE, "POTENTIAL_MATCH"),
                     Cve("c2", 90, "critical", FALSE, "VULNERABLE")}
\* What correlation lists, in an order of its own; c2 is found once more with another score.
MCFound == {<<>>} \cup {<<f>> : f \in MCEndpointFindings} \cup {<<f, g>> : f, g \in MCEndpointFindings}
MCAiVerdicts == {None} \cup [verdict : {"NORMAL", "SUSPICIOUS", "ANOMALOUS"}, confidence : {0, 50, 100}]
DeepScans == {None} \cup
    [ports : {{}, {23}}, services : {{}, {[port |-> 23, product |-> "x", version |-> None, cpe |-> None]},
                                     {[port |-> 80, product |-> "x", version |-> "1", cpe |-> "cpe"]}},
     cves : SUBSET {[id |-> "c1", cvss |-> 20, severity |-> "low", product |-> "x"],
                    [id |-> "c2", cvss |-> 70, severity |-> "high", product |-> "x"]}]
Session(started, seen, current, count) ==
    [started |-> started, seen |-> seen, ended |-> IF current THEN None ELSE seen, current |-> current, count |-> count]
Histories == {<<>>} \cup {<<Session(1, 3, c, n)>> : c \in BOOLEAN, n \in 1..2}
             \cup {<<Session(1, 3, FALSE, 2), Session(s, 6, c, n)>> : s \in 3..6, c \in BOOLEAN, n \in 1..2}
MCRows == [device : [scan : DeepScans, tried : {FALSE}, open : {None}, findings : MCFound, ai : MCAiVerdicts],
         sessions : {<<>>}, online : {TRUE}, now : {6}]
        \cup [device : [scan : {None}, tried : {FALSE}, open : {None}, findings : {<<>>}, ai : {None}],
              sessions : Histories, online : BOOLEAN, now : {6}]

-----------------------------------------------------------------------------
\* A part starts in any of its states in its own behaviours, and in one otherwise.
MCInit ==
    /\ ServicesInit
    /\ subject # "vuln" => reachable
    /\ consent = IF subject = "evidence" THEN TRUE ELSE None
    /\ subject # "sweep" => \A a \in Agents : world[a] = CHOOSE w \in Worlds : TRUE
    /\ subject # "tasks" => clean = {}
MCSpec == MCInit /\ [][ServicesNext]_allVars /\ ServicesFairness
=============================================================================
