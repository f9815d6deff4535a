----------------------------- MODULE DeviceView -----------------------------
(***************************************************************************)
(* What list_devices says of one row of the device grid, as functions of   *)
(* what is stored about it: its latest deep scan, the open findings of its *)
(* asset, the findings of its endpoint agent, the host telemetry, the AI   *)
(* tracking session and its presence sessions (second half of              *)
(* server/app/services/live.py and device_security_profile.py).            *)
(*                                                                         *)
(* CVSS is in tenths, the AI confidence in percent and the score in        *)
(* ten-thousandths, which is what the code rounds to.                      *)
(***************************************************************************)
EXTENDS Integers, Sequences, FiniteSets, SequencesExt

CONSTANT None

-----------------------------------------------------------------------------
(***************************************************************************)
(* The deep scan.  A device d has a field scan: the latest available scan  *)
(* [ports, services, cves, os, risk], None without one.                    *)
(***************************************************************************)
SeverityRank == [low |-> 0, medium |-> 1, high |-> 2, critical |-> 3]
Worst(severities) ==
    CHOOSE s \in severities : \A t \in severities : SeverityRank[t] <= SeverityRank[s]

\* _latest_deepscans_by_ip: scans is in the order of their creation.
Latest(scans, ip) ==
    LET available == SelectSeq(scans, LAMBDA s : s.ip = ip /\ s.available)
    IN IF available = <<>> THEN None ELSE Last(available)

\* _scan_status: the open findings of the asset, None when there are none.
OpenOf(rows, ip) ==
    LET open == {v \in rows : v.ip = ip /\ v.status = "open"}
    IN IF open = {} THEN None ELSE [count |-> Cardinality(open), worst |-> Worst({v.severity : v \in open})]

Ports(d) == IF d.scan = None THEN {} ELSE d.scan.ports
Offered(d) == IF d.scan = None THEN {} ELSE d.scan.services

\* The scan's CVEs are rebuilt from its result without in_kev, so all are VULNERABLE.
Scanned(d) == d.scan # None \/ d.tried
ScanCves(d) ==
    IF d.scan = None THEN {}
    ELSE {[id |-> c.id, cvss |-> c.cvss, severity |-> c.severity, product |-> c.product,
           kev |-> FALSE, state |-> "VULNERABLE"] : c \in d.scan.cves}

\* _generate_security_findings
Exposures == (3389 :> "rdp") @@ (445 :> "smb") @@ (23 :> "telnet") @@ (2323 :> "telnet")
             @@ (21 :> "ftp") @@ (5900 :> "vnc") @@ (139 :> "netbios")
SecurityFindings(d) ==
    {Exposures[p] : p \in Ports(d) \cap DOMAIN Exposures}
    \cup {c.id : c \in ScanCves(d)}
    \cup IF ScanCves(d) = {} /\ \E s \in Offered(d) : s.product # None \/ s.version # None
         THEN {"no confirmed vulnerability"} ELSE {}

-----------------------------------------------------------------------------
(***************************************************************************)
(* The endpoint agent of a row: the first that shares its device, MAC,     *)
(* address or name, or any that is ONLINE when the row is the server's own *)
(* host.                                                                   *)
(***************************************************************************)
Paired(a, row) ==
    \/ a.device = row.id
    \/ a.mac = row.mac /\ row.mac # None
    \/ a.ip = row.ip
    \/ a.name = row.name /\ row.name # None
    \/ row.self /\ a.status = "ONLINE"

AgentRow(agents, row) ==
    LET paired == SelectSeq(agents, LAMBDA a : Paired(a, row))
    IN IF paired = <<>> THEN None ELSE Head(paired)

\* Telemetry of the agent's device, or of the row's own id.
EndpointDevice(row, agent, reported) ==
    IF agent # None /\ agent.device \in reported THEN agent.device
    ELSE IF row.id \in reported THEN row.id ELSE None

System(os) == IF os \in {"windows", "macos", "android"} THEN os ELSE "agent"
Capability(hostSeen, tabs, procs, endpointOs, agent) ==
    CASE endpointOs # None /\ tabs -> "full"
      [] endpointOs # None -> System(endpointOs)
      [] endpointOs = None /\ agent # None -> System(agent.os)
      [] OTHER -> IF ~hostSeen THEN "network only"
                  ELSE IF tabs /\ procs THEN "full" ELSE IF tabs THEN "browser" ELSE "agent"

\* The tracking session of the agent's device, when its host sends telemetry.
AiSession(row, agent, hostSeen, sessions) ==
    IF agent = None \/ ~hostSeen THEN None
    ELSE LET own == {s \in sessions : s.device = agent.device}
         IN IF own = {} THEN None ELSE CHOOSE s \in own : TRUE

-----------------------------------------------------------------------------
(***************************************************************************)
(* The CVEs of the row: the scan's, and of those the endpoint agent        *)
(* confirmed (d.findings, in the order they are listed) the first of each  *)
(* identifier that the scan does not have.                                 *)
(***************************************************************************)
Confirmed == {"VULNERABLE", "KNOWN_EXPLOITED"}
EndpointCves(d) ==
    LET F == d.findings
        new == {i \in DOMAIN F : F[i].state \in Confirmed /\ \A c \in ScanCves(d) : c.id # F[i].id}
    IN {F[i] : i \in {k \in new : \A j \in new : j < k => F[j].id # F[k].id}}
AllCves(d) == ScanCves(d) \cup EndpointCves(d)

VulnCount(d) ==
    CASE Scanned(d) /\ d.open # None -> d.open.count
      [] Scanned(d) /\ d.open = None -> Cardinality(ScanCves(d))
      [] OTHER -> IF AllCves(d) = {} THEN None ELSE Cardinality(AllCves(d))
WorstSeverity(d) ==
    LET listed == IF Scanned(d) THEN ScanCves(d) ELSE AllCves(d)
    IN IF Scanned(d) /\ d.open # None THEN d.open.worst
       ELSE IF listed = {} THEN None ELSE Worst({c.severity : c \in listed})

Ladder(d) ==
    CASE \E c \in AllCves(d) : c.kev -> "KNOWN_EXPLOITED"
      [] AllCves(d) # {} /\ \A c \in AllCves(d) : ~c.kev -> "VULNERABLE"
      [] AllCves(d) = {} /\ \E s \in Offered(d) : s.cpe # None -> "POTENTIAL_MATCH"
      [] OTHER -> IF Offered(d) # {} THEN "EXPOSED" ELSE IF Ports(d) # {} THEN "OPEN" ELSE None

-----------------------------------------------------------------------------
(***************************************************************************)
(* build_score_inputs_from_device and compute_device_security_score.       *)
(***************************************************************************)
Clamp(n, low, high) == IF n < low THEN low ELSE IF n > high THEN high ELSE n

MaxCvss(cves) == CHOOSE m \in {0} \cup {c.cvss : c \in cves} : \A c \in cves : c.cvss <= m

\* Mutant: the CVEs without evidence of exploitation are looked at first.
VulnComponentPlain(cves) ==
    LET cvss == Clamp(MaxCvss(cves), 0, 100)
    IN CASE \E c \in cves : c.state = "VULNERABLE" -> 100 * cvss
         [] \A c \in cves : c.state # "VULNERABLE" ->
              IF \E c \in cves : c.state = "KNOWN_EXPLOITED" THEN 8000 + 20 * cvss ELSE 0
VulnComponent(cves) ==
    LET cvss == Clamp(MaxCvss(cves), 0, 100)
        Has(state) == \E c \in cves : c.state = state
    IN CASE Has("KNOWN_EXPLOITED") -> 8000 + 20 * cvss
         [] ~Has("KNOWN_EXPLOITED") /\ Has("VULNERABLE") -> 100 * cvss
         [] OTHER -> IF Has("POTENTIAL_MATCH") THEN 3000 ELSE IF Has("EXPOSED") THEN 1500
                     ELSE IF Has("OPEN") THEN 500 ELSE 0

KevComponent(cves) == IF \E c \in cves : c.kev THEN 1500 ELSE 0

AiComponent(ai) ==
    IF ai = None THEN 0
    ELSE Clamp(ai.confidence, 0, 100) *
         (CASE ai.verdict = "ANOMALOUS" -> 25 [] ai.verdict = "SUSPICIOUS" -> 12 [] OTHER -> 0)

Score(d) ==
    Clamp((VulnComponent(AllCves(d)) * 6) \div 10 + KevComponent(AllCves(d)) + AiComponent(d.ai), 0, 10000)

-----------------------------------------------------------------------------
(***************************************************************************)
(* A destination that was contacted on a port of a vulnerable service is   *)
(* annotated with a CVE: of the service's product, or any of the device.   *)
(***************************************************************************)
Related(d, port) ==
    LET of == {s \in Offered(d) : s.port = port}
        matching == {c \in AllCves(d) : \E s \in of : s.product # None /\ c.product = s.product}
    IN IF matching # {} THEN matching
       ELSE IF of # {} \/ port \in Ports(d) THEN AllCves(d) ELSE {}
Annotations(d, contacted) == {p \in contacted \ {None} : Related(d, p) # {}}

\* How old an event may be before it is shown as stale, in seconds.
StaleAfter == [presence |-> 90, socket |-> 90, traffic |-> 90, dns |-> 1200, tab |-> 20, process |-> 60]
StaleEvent(kind, age) == age > StaleAfter[kind]

\* The presence of a row from its sessions, in the order of their start.
PresenceSession == [started : Nat, seen : Nat, ended : Nat \cup {None}, current : BOOLEAN, count : Nat]
Ended(s) == IF s.ended = None THEN s.seen ELSE s.ended
Durations(sessions, online) ==
    FoldLeft(LAMBDA total, s : IF (~s.current \/ ~online) /\ Ended(s) > s.started
                               THEN total + Ended(s) - s.started ELSE total, 0, sessions)
PresenceView(sessions, online, now) ==
    LET open == SelectLastInSeq(sessions, LAMBDA s : s.current)
        here == online /\ open # 0
        long == here /\ sessions[open].count > 1
        current == IF long /\ now > sessions[open].started THEN now - sessions[open].started ELSE 0
    IN [state |-> CASE ~online -> "offline" [] online /\ long -> "continuous" [] OTHER -> "new",
        since |-> IF here THEN sessions[open].started ELSE None,
        current |-> current,
        total |-> Durations(sessions, online) + current,
        sessions |-> IF sessions = <<>> THEN 1 ELSE Len(sessions)]

-----------------------------------------------------------------------------
(***************************************************************************)
(* Properties of a device d over the findings and verdicts that may come.  *)
(***************************************************************************)
Rank == [x \in {None, "OPEN", "EXPOSED", "POTENTIAL_MATCH", "VULNERABLE", "KNOWN_EXPLOITED"} |->
            CASE x = None -> 0 [] x = "OPEN" -> 1 [] x = "EXPOSED" -> 2 [] x = "POTENTIAL_MATCH" -> 3
              [] x = "VULNERABLE" -> 4 [] OTHER -> 5]

NotBelow(d, e) == Score(e) >= Score(d) /\ Rank[Ladder(e)] >= Rank[Ladder(d)]

\* One more finding of the endpoint agent, listed last, or a stronger verdict of the traffic
\* model, never lowers the risk score of a device or its state on the ladder; the
\* verdict alone never changes the state.
EvidenceRaises(d, findings, verdicts) ==
    /\ \A f \in findings : NotBelow(d, [d EXCEPT !.findings = Append(@, f)])
    /\ \A v \in verdicts :
          LET e == [d EXCEPT !.ai = v]
          IN /\ Ladder(e) = Ladder(d)
             /\ AiComponent(v) >= AiComponent(d.ai) => Score(e) >= Score(d)

\* A row that is online and one of whose sessions is open is never shown longer
\* present than it has been known: its sessions do not count twice.
PresenceAdds(sessions, online, now) ==
    (\A i, j \in DOMAIN sessions : i < j => Ended(sessions[i]) <= sessions[j].started /\ ~sessions[i].current)
    /\ (\A i \in DOMAIN sessions : sessions[i].started <= Ended(sessions[i]) /\ Ended(sessions[i]) <= now)
    /\ sessions # <<>>
    => PresenceView(sessions, online, now).total <= now - Head(sessions).started
=============================================================================
