------------------------------ MODULE NetConfig ------------------------------
(***************************************************************************)
(* The network-configuration checks as functions of the facts gathered for *)
(* an organisation: netconfig/facts.py, netconfig/detectors.py and what    *)
(* netconfig/integration.py makes of a finding.                            *)
(*                                                                         *)
(* facts: assets (by id: ip, zone, crit, internet, ports, dmz when the     *)
(* user declared it so), links, devices (the swept devices: ip, gateway,   *)
(* online, in order), and the declared configuration: gateway, forwards,   *)
(* dhcp (servers) and snooping ("on", "off" or "none").                    *)
(***************************************************************************)
EXTENDS Naturals, Sequences, FiniteSets

NONE == "none"

DbPorts == {5432, 3306, 1433, 6379, 27017, 9200}
SensitivePorts == {22, 23, 3389, 5900} \cup DbPorts
LanFlagPorts == {23, 3389, 5900} \cup DbPorts

SeverityRank == [none |-> 0, low |-> 1, medium |-> 2, high |-> 3, critical |-> 4]
\* severity_to_engine, in tenths and hundredths.
SeverityModel == [critical |-> <<90, 85>>, high |-> <<75, 65>>, medium |-> <<50, 45>>, low |-> <<30, 25>>]

Finding(check, of, severity, status, source, affected) ==
    [check |-> check, of |-> of, severity |-> severity, status |-> status, source |-> source, affected |-> affected]
Real(check, of, severity, source, affected) == Finding(check, of, severity, "real", source, affected)
Unknown(check) == Finding(check, NONE, NONE, "unknown", "observed", {})
Passed(check, source) == Finding(check, NONE, NONE, "passed", source, {})

(***************************************************************************)
(* gather                                                                  *)
(***************************************************************************)
ObservedGateway(f) ==
    LET gws == SelectSeq(f.devices, LAMBDA d : d.gateway)
        online == SelectSeq(gws, LAMBDA d : d.online)
    IN IF online # <<>> THEN online[1].ip ELSE IF gws # <<>> THEN gws[1].ip ELSE NONE
GatewayIp(f) == IF f.gateway # NONE THEN f.gateway ELSE ObservedGateway(f)
HasInventory(f) == f.devices # <<>>
Inferred(f) == f.dhcp = <<>> /\ ObservedGateway(f) # NONE
DhcpServers(f) == IF Inferred(f) THEN <<ObservedGateway(f)>> ELSE f.dhcp

Ids(f) == DOMAIN f.assets
ZoneKinds(f) == {f.assets[a].zone : a \in Ids(f)} \ {NONE}
DmzAssets(f) == {a \in Ids(f) : f.assets[a].zone = "dmz" \/ f.assets[a].dmz}
Facing(f) == {a \in Ids(f) : f.assets[a].internet}
Inner == {"internal", "crown_jewel"}

\* blast_radius of the engine: what is reachable over links.
Closed(f, s) == \A a \in s, b \in Ids(f) : <<a, b>> \in f.links => b \in s
Reachable(f, a) == {b \in Ids(f) \ {a} : \A s \in SUBSET Ids(f) : a \in s /\ Closed(f, s) => b \in s}

(***************************************************************************)
(* detect_dmz                                                              *)
(***************************************************************************)
HasDmz(f) == DmzAssets(f) # {}

FlatNetwork(f) ==
    IF DmzAssets(f) = {} /\ Facing(f) # {} /\ ZoneKinds(f) \cap Inner # {}
    THEN {Real("flat-network", NONE, "high", "observed", Facing(f))} ELSE {}

Sensitive(f, d) == {r \in Reachable(f, d) : f.assets[r].zone \in Inner}
Segmentation(f) ==
    {Real("segmentation", f.assets[d].ip,
          IF \E r \in Sensitive(f, d) : f.assets[r].zone = "crown_jewel" THEN "critical" ELSE "high",
          IF f.assets[d].dmz /\ f.assets[d].zone # "dmz" THEN "declared" ELSE "observed", {d}) :
       d \in {e \in DmzAssets(f) : Sensitive(f, e) # {}}}

SensitiveInDmz(f) ==
    {Real("sensitive-in-dmz", f.assets[a].ip, f.assets[a].crit, "observed", {a}) :
       a \in {b \in Ids(f) : f.assets[b].zone = "dmz" /\ f.assets[b].crit \in {"high", "critical"}}}

DetectDmz(f) ==
    IF ~HasDmz(f) /\ HasInventory(f) THEN {Real("flat-network-live", NONE, "medium", "observed", {})}
    ELSE IF ~HasDmz(f) /\ ZoneKinds(f) = {} THEN {Unknown("zones-unknown")}
    ELSE FlatNetwork(f) \cup Segmentation(f) \cup SensitiveInDmz(f)

(***************************************************************************)
(* detect_nat                                                              *)
(***************************************************************************)
ExposedInternal(f) ==
    {Real("exposed-internal", f.assets[a].ip,
          IF f.assets[a].crit = "low" THEN "medium" ELSE f.assets[a].crit, "observed", {a}) :
       a \in {b \in Facing(f) : f.assets[b].zone \in Inner}}

PortSeverity(port, internet) ==
    IF internet THEN IF port \in DbPorts THEN "critical" ELSE "high"
    ELSE IF port \in DbPorts THEN "high" ELSE "medium"
Flagged(f, a) == {p \in f.assets[a].ports : p \in (IF f.assets[a].internet THEN SensitivePorts ELSE LanFlagPorts)}
\* Mutant: one finding for an asset, of one of its ports.
ExposedPortsFirst(f) ==
    {Real("exposed-port", <<f.assets[a].ip, CHOOSE p \in Flagged(f, a) : TRUE>>, "high", "observed", {a}) :
       a \in {b \in Ids(f) : Flagged(f, b) # {}}}
ExposedPorts(f) ==
    UNION {{Real("exposed-port", <<f.assets[a].ip, p>>, PortSeverity(p, f.assets[a].internet), "observed", {a}) :
              p \in Flagged(f, a)} : a \in Ids(f)}

\* A forward without an internal port (0) cannot be judged; the address need not
\* be that of a known asset, and of several assets with it the first is blamed.
ByIp(f, ip) ==
    LET there == {a \in Ids(f) : f.assets[a].ip = ip}
    IN IF there = {} THEN {} ELSE {CHOOSE a \in there : TRUE}
Forwards(f) ==
    IF f.forwards = {} THEN {Unknown("port-forwards-unknown")}
    ELSE {Real("forward", <<p.external, p.ip>>, IF p.port \in DbPorts THEN "critical" ELSE "high", "declared", ByIp(f, p.ip)) :
            p \in {q \in f.forwards : q.port \in SensitivePorts}}

DetectNat(f) ==
    ExposedInternal(f) \cup ExposedPorts(f) \cup Forwards(f) \cup
    (IF GatewayIp(f) # NONE /\ HasInventory(f) /\ ExposedInternal(f) = {} /\ ExposedPorts(f) = {}
     THEN {Passed("boundary-ok", "observed")} ELSE {})

(***************************************************************************)
(* detect_dhcp                                                             *)
(***************************************************************************)
Responders(f) ==
    LET servers == DhcpServers(f)
        src == IF Inferred(f) THEN "observed" ELSE "declared"
        gw == GatewayIp(f)
    IN IF Len(servers) > 1 THEN {Real("multiple-responders", NONE, "high", src, {})}
       ELSE IF gw # NONE /\ servers[1] # gw THEN {Real("not-gateway", NONE, "medium", src, {})}
       ELSE {Passed("single-ok", src)}
Snooping(f) ==
    CASE f.snooping = "off" -> {Real("snooping-off", NONE, "medium", "declared", {})}
      [] f.snooping = "on" -> {Passed("snooping-on", "declared")}
      [] OTHER -> {}
DetectDhcp(f) == IF DhcpServers(f) = <<>> THEN {Unknown("servers-unknown")} ELSE Responders(f) \cup Snooping(f)

RunAll(f) == DetectDmz(f) \cup DetectNat(f) \cup DetectDhcp(f)

\* map_findings_to_engine: the pairs of asset and weakness that become findings of
\* the risk engine, with CVSS and exploitability as of the weakness's first report.
Mapping(f) ==
    UNION {{[asset |-> a, weakness |-> <<x.check, x.of>>, score |-> SeverityModel[x.severity]] : a \in x.affected} :
             x \in {y \in RunAll(f) : y.status = "real"}}

\* _risk_summary counts.
Counted(f, status) == Cardinality({x \in RunAll(f) : x.status = status})

-----------------------------------------------------------------------------
\* More exposure never hides a weakness: with one more link or one more open port
\* every real finding is still there, no less severe, and still becomes a finding
\* of the risk engine for each asset it affects.
Reality(f) == {x \in RunAll(f) : x.status = "real"}
StillTold(f, g) ==
    /\ \A x \in Reality(f) : \E y \in Reality(g) :
          /\ x.check = y.check /\ x.of = y.of /\ x.affected \subseteq y.affected
          /\ SeverityRank[x.severity] <= SeverityRank[y.severity]
    /\ \A m \in Mapping(f) : \E n \in Mapping(g) :
          m.asset = n.asset /\ m.weakness = n.weakness /\ m.score[1] <= n.score[1]
ExposureShows(f) ==
    /\ \A a, b \in Ids(f) : StillTold(f, [f EXCEPT !.links = @ \cup {<<a, b>>}])
    /\ \A a \in Ids(f), p \in SensitivePorts : StillTold(f, [f EXCEPT !.assets[a].ports = @ \cup {p}])
=============================================================================
