------------------------------ MODULE Coverage ------------------------------
(***************************************************************************)
(* The device sweep of the edge agent (run_devices in                      *)
(* agent/drishti_watch.py) and the coverage table it fills on the server   *)
(* (report_coverage and _upsert_inventoried_coverage in                    *)
(* server/app/services/live.py): every network an agent knows of is either *)
(* swept or listed with the reason why it was not.                         *)
(*                                                                         *)
(* Networks are values whose address facts are constants.  What the        *)
(* interfaces, routes, pings and beacons say changes between rounds.  The  *)
(* devices of a sweep are left to the presence grid; here a sweep is its   *)
(* POST, which may be lost.                                                *)
(***************************************************************************)
EXTENDS Naturals

CONSTANTS
    Agents,
    Nets,          \* CIDRs
    PrivateV4,     \* IPv4 ranges inside RFC 1918
    ReservedV4,    \* the other IPv4 ranges is_private counts as private (198.18.0.0/15)
    Prefix31,      \* those of /31 and /32
    HostCount(_),  \* _host_count
    MaxHosts,      \* --max-hosts, already capped by _HARD_MAX_HOSTS
    Explicit,      \* the CIDRs of --subnets, {} for auto
    WiFi,          \* --discover-wifi
    Ssids,         \* names of wireless networks
    Worlds,        \* bound: what an agent may find around it
    None

(* A world: the networks of the interfaces (wifi: the wireless one), the    *)
(* routed ones, those that answer a ping, the joined SSID and the visible   *)
(* ones, and whether a hardware address could be read.                      *)
World == [ifaces: SUBSET Nets, wifi: Nets \cup {None}, routes: SUBSET Nets, replies: SUBSET Nets,
          joined: Ssids \cup {None}, visible: SUBSET Ssids, mac: BOOLEAN]

VARIABLES
    world,   \* what each agent finds now
    agent,   \* each agent's run_devices
    row      \* NetworkCoverage: by subnet, or by SSID when it has none

vars == <<world, agent, row>>

Statuses == {"inventoried", "reachable_not_scanned", "seen_not_joined", "unreachable"}
\* swept: its evidence is a sweep; by: the agent that wrote it last (history).
Row == [status: Statuses, ssid: Ssids \cup {None}, swept: BOOLEAN, by: Agents]
Candidate == [net: Nets, link: BOOLEAN, verdict: {"scan", "skipped", "unreachable"}]
\* known: the candidates; mac: a hardware address was read; bound: its stand-in is
\* bound; missed: networks of this round whose POST was lost or named no device.
Agent == [pc: {"start", "resolve", "report", "sweep", "crashed", "stopped"}, known: SUBSET Candidate,
          todo: SUBSET Candidate, mac: BOOLEAN, bound: BOOLEAN, missed: SUBSET Nets]

CoverageAssumption == Worlds \subseteq World /\ Explicit \subseteq Nets /\ None \notin Row

TypeOK ==
    /\ world \in [Agents -> Worlds]
    /\ agent \in [Agents -> Agent]
    /\ row \in [Nets \cup Ssids -> Row \cup {None}]

Init ==
    /\ world \in [Agents -> Worlds]
    /\ agent = [a \in Agents |-> [pc |-> "start", known |-> {}, todo |-> {}, mac |-> FALSE,
                                  bound |-> FALSE, missed |-> {}]]
    /\ row = [k \in Nets \cup Ssids |-> None]

(***************************************************************************)
(* Which networks there are, and which may be swept.                       *)
(***************************************************************************)
\* _cidr_guard: an RFC 1918 range within the size cap.
Allowed(n) == n \in PrivateV4 /\ HostCount(n) <= MaxHosts

\* _list_interfaces and _list_routes keep what is_private calls private, which is
\* more than the guard lets through; an interface's network wins over a route to it.
OnLink(w) == {n \in w.ifaces : n \in (PrivateV4 \cup ReservedV4) \ Prefix31}
Routed(w) == (w.routes \cap (PrivateV4 \cup ReservedV4)) \ OnLink(w)

Judged(n, link, w) ==
    [net |-> n, link |-> link,
     verdict |-> IF ~Allowed(n) THEN "skipped" ELSE IF link \/ n \in w.replies THEN "scan" ELSE "unreachable"]

\* discover_subnets.
Discovered(w) == {Judged(n, TRUE, w) : n \in OnLink(w)} \cup {Judged(n, FALSE, w) : n \in Routed(w)}

\* resolve_subnets: explicit CIDRs pass the same guard.
Resolved(w) == IF Explicit = {} THEN Discovered(w) ELSE {Judged(n, n \in OnLink(w), w) : n \in Explicit}

(***************************************************************************)
(* The server's table: one row for a subnet, or for an SSID without one.   *)
(***************************************************************************)
Reported(a, k, status, ssid, swept) ==
    [status |-> status, ssid |-> IF ssid # None \/ row[k] = None THEN ssid ELSE row[k].ssid,
     swept |-> swept, by |-> a]

\* _wifi_coverage_rows: only the joined network is tied to a subnet.
WifiRows(a) ==
    LET w == world[a]
        tied == w.joined \in w.visible /\ \E c \in Resolved(w) : c.link /\ c.net = w.wifi
    IN [k \in Nets \cup Ssids |->
          IF tied /\ k = w.wifi THEN Reported(a, k, "inventoried", w.joined, FALSE)
          ELSE IF k \in w.visible /\ ~(tied /\ k = w.joined) THEN Reported(a, k, "seen_not_joined", k, FALSE)
          ELSE row[k]]

(***************************************************************************)
(* run_devices.                                                            *)
(***************************************************************************)
\* Without a candidate the agent exits; otherwise the wireless rows are posted.
Start(a) ==
    /\ agent[a].pc = "start"
    /\ IF Resolved(world[a]) = {}
       THEN agent' = [agent EXCEPT ![a].pc = "stopped"] /\ UNCHANGED row
       ELSE /\ agent' = [agent EXCEPT ![a] = [@ EXCEPT !.pc = "resolve", !.known = Resolved(world[a]),
                                                       !.mac = world[a].mac]]
            /\ row' \in {row, IF WiFi THEN WifiRows(a) ELSE row}
    /\ UNCHANGED world

\* Every round looks again; finding nothing keeps the former candidates.
Resolve(a) ==
    /\ agent[a].pc = "resolve"
    /\ LET fresh == Resolved(world[a])
       IN agent' = [agent EXCEPT ![a] = [@ EXCEPT !.pc = "report", !.missed = {},
                                                  !.known = IF fresh = {} THEN agent[a].known ELSE fresh,
                                                  !.mac = IF fresh = {} THEN agent[a].mac ELSE world[a].mac]]
    /\ UNCHANGED <<world, row>>

\* What is not swept is told, in one POST.
NotScanned(a) == {c \in agent[a].known : c.verdict # "scan"}
\* Mutant: a routed network that does not answer is not told.
ToldSkipped(a) ==
    [k \in Nets \cup Ssids |->
        IF \E c \in NotScanned(a) : c.net = k /\ c.verdict = "skipped"
        THEN Reported(a, k, "reachable_not_scanned", None, FALSE) ELSE row[k]]
Told(a) ==
    [k \in Nets \cup Ssids |->
        IF \E c \in NotScanned(a) : c.net = k
        THEN Reported(a, k, IF \E c \in NotScanned(a) : c.net = k /\ c.verdict = "unreachable"
                         THEN "unreachable" ELSE "reachable_not_scanned", None, FALSE)
        ELSE row[k]]

Report(a, arrives) ==
    /\ agent[a].pc = "report"
    /\ agent' = [agent EXCEPT ![a] = [@ EXCEPT !.pc = "sweep", !.todo = agent[a].known \ NotScanned(a),
                                               !.missed = IF arrives THEN {} ELSE {c.net : c \in NotScanned(a)}]]
    /\ row' = IF arrives THEN Told(a) ELSE row
    /\ UNCHANGED world

\* One subnet, an interface's before a route's unless they were named: its responders
\* are posted, and the server marks the subnet of every device it is told of.  The
\* stand-in for a missing hardware address is bound on the on-link path only: a routed
\* subnet before it ends the agent.
InTurn(a, c) == c.link \/ Explicit # {} \/ \A d \in agent[a].todo : ~d.link
Sweep(a, devices) ==
    /\ agent[a].pc = "sweep"
    /\ \E c \in agent[a].todo :
          /\ InTurn(a, c)
          /\ IF ~agent[a].mac /\ ~agent[a].bound /\ ~c.link
             THEN agent' = [agent EXCEPT ![a].pc = "crashed"] /\ UNCHANGED row
             ELSE /\ agent' = [agent EXCEPT ![a] = [@ EXCEPT
                               !.todo = agent[a].todo \ {c}, !.bound = agent[a].bound \/ c.link,
                               !.missed = IF devices THEN agent[a].missed ELSE agent[a].missed \cup {c.net}]]
                  /\ row' = IF devices THEN [row EXCEPT ![c.net] = Reported(a, c.net, "inventoried", None, TRUE)] ELSE row
    /\ UNCHANGED world

\* The round is over.
RoundOver(a) == agent[a].pc = "sweep" /\ agent[a].todo = {}

Sleep(a) ==
    /\ RoundOver(a)
    /\ agent' = [agent EXCEPT ![a].pc = "resolve"]
    /\ UNCHANGED <<world, row>>

\* The host moves, a route comes or goes, a network stops answering.
Move(a, w) ==
    /\ agent[a].pc = "resolve"
    /\ world' = [world EXCEPT ![a] = w]
    /\ UNCHANGED <<agent, row>>

Next ==
    \E a \in Agents :
        \/ Start(a) \/ Resolve(a) \/ Sleep(a)
        \/ \E ok \in BOOLEAN : Report(a, ok) \/ Sweep(a, ok)
        \/ \E w \in Worlds : Move(a, w)

Spec == Init /\ [][Next]_vars

-----------------------------------------------------------------------------
\* The guard holds for every way a network gets into the list: what is swept, and
\* so inventoried by a sweep, is an RFC 1918 network within the size cap, also when
\* an interface or a route has it or the operator named it.
OnlyAllowedSwept ==
    /\ \A a \in Agents : agent[a].pc = "sweep" => \A c \in agent[a].todo : Allowed(c.net)
    /\ \A n \in Nets : row[n] # None /\ row[n].swept => Allowed(n) /\ row[n].status = "inventoried"

\* After a round every network its agent knows of is in the table with the
\* outcome of that round: inventoried if it was swept, otherwise the reason; but
\* for lost reports, subnets without a device and what another agent wrote since.
Outcome(a, c) ==
    \/ c.net \in agent[a].missed
    \/ /\ row[c.net] # None
       /\ \/ row[c.net].by # a
          \/ /\ row[c.net].swept <=> c.verdict = "scan"
             /\ row[c.net].status = CASE c.verdict = "scan" -> "inventoried"
                                      [] c.verdict = "skipped" -> "reachable_not_scanned"
                                      [] c.verdict = "unreachable" -> "unreachable"
CoverageHonest == \A a \in Agents : RoundOver(a) => \A c \in agent[a].known : Outcome(a, c)
=============================================================================
