------------------------------ MODULE LiveFeed ------------------------------
(***************************************************************************)
(* The live network watch on the server: the first half of                 *)
(* server/app/services/live.py behind api/live.py.  Agents report domains  *)
(* (observe) and what runs on their host (sync_active); the dashboard      *)
(* polls list_devices, which joins both to the rows of the device grid of  *)
(* its organisation.  The timelines that both record into are Timelines'.  *)
(*                                                                         *)
(* Telemetry and destinations are dictionaries of the process, lost when   *)
(* it restarts; the observations are rows of the database.  The            *)
(* destinations have the organisation in their key, the telemetry has only *)
(* the host's label, so all organisations and subnets share it.            *)
(*                                                                         *)
(* An observe is three steps, before and after the analysis of the domain  *)
(* and of the row's look-up; what a sync or a poll does to telemetry and   *)
(* destinations is one (each host's tabs are one assignment in the code,   *)
(* so that a poll between a sync's assignments shows an old list or a new  *)
(* one).  Domains are values: what _clean_domain and the host name pattern *)
(* refuse is Malformed.  Devices are the rows a poll shows; syncs and rows *)
(* have no hardware address here, the one key that list_devices tries      *)
(* before the host's label.                                                *)
(***************************************************************************)
EXTENDS Naturals, Sequences, FiniteSets, SequencesExt

CONSTANTS
    Labels,         \* source_host labels: host names and addresses
    Addresses,      \* those that are IP addresses
    Includes(_, _), \* does the first label contain the second, case and .local aside?
    Local,          \* labels that stand for the server's own host: localhost, default, ...
    Devices,        \* rows of the grid: [ip, net, name, self]; networks may share addresses
    Domains,
    Malformed,      \* domains refused by observe
    Sites,          \* what a browser tab shows
    Handlers,       \* observes that are waiting for the analysis
    TelemetryTTL, TabsTTL, DestTTL, RecentTTL,  \* 60, 20, 1800 and 120 seconds
    Observers,      \* bound: labels whose observes are considered
    Payloads,       \* bound: the syncs of agents: [host, foreign, tabs, procs, domains, dns]
    MaxTime,        \* bound
    MaxHits,        \* bound: answered observes of a domain
    None

\* foreign: from an agent of another organisation. dns: the domains come as DNS queries, too.
Payload == [host : Labels, foreign : BOOLEAN, tabs : SUBSET Sites, procs : BOOLEAN, domains : SUBSET Domains,
            dns : BOOLEAN]

ASSUME FeedAssumption ==
    /\ Addresses \subseteq Labels /\ Local \subseteq Labels /\ Malformed \subseteq Domains
    /\ {TelemetryTTL, TabsTTL, DestTTL, RecentTTL, MaxTime, MaxHits} \subseteq Nat
    /\ \A d \in Devices : d.ip \in Addresses /\ d.name \in Labels \cup {None} /\ d.self \in BOOLEAN
    /\ Observers \subseteq Labels /\ Payloads \subseteq Payload

VARIABLES
    time,
    consent,    \* AutoScanConfig.scan_subnet, None without a row
    telemetry,  \* _HOST_TELEMETRY in insertion order: [host, at, tabs, tabsAt, procs]
    dest,       \* _PASSIVE_DESTINATIONS_BY_HOST: last_seen, 0 when absent
    pending,    \* the observe each handler is in: [domain, host, read, gone]
    feed,       \* LiveObservation rows: [hits, host, seen], None without a row
    shown,      \* what the last list_devices showed for each device
    answered    \* history: the observes answered for each domain

feedVars == <<time, consent, telemetry, dest, pending, feed, shown, answered>>

Nothing == [tabs |-> {}, procs |-> FALSE, domains |-> {}]

Telemetry == [host : Labels, at : Nat, tabs : SUBSET Sites, tabsAt : Nat, procs : BOOLEAN]
Observing == [domain : Domains, host : Labels, read : Nat, looked : BOOLEAN, gone : BOOLEAN]
Observation == [hits : Nat, host : Labels, seen : Nat]
Shown == [tabs : SUBSET Sites, procs : BOOLEAN, domains : SUBSET Domains]

\* None is neither a label nor a record.
ASSUME NoneAssumption == None \notin Labels \cup Observing \cup Observation

FeedInit ==
    /\ time = 1
    /\ consent \in {None, TRUE, FALSE}
    /\ telemetry = <<>>
    /\ dest = [h \in Labels |-> [d \in Domains |-> 0]]
    /\ pending = [h \in Handlers |-> None]
    /\ feed = [d \in Domains |-> None]
    /\ shown = [d \in Devices |-> Nothing]
    /\ answered = [d \in Domains |-> 0]

\* is_subnet_consent_granted: an organisation without a configuration consents.
Granted == consent # FALSE

(***************************************************************************)
(* observe: refused, or the destination is recorded and the domain         *)
(* analyzed; then the row is looked up, and inserted or bumped.            *)
(***************************************************************************)
Observe(k, host, domain) ==
    /\ pending[k] = None
    /\ domain \notin Malformed
    /\ dest' = [dest EXCEPT ![host][domain] = time]
    /\ pending' = [pending EXCEPT ![k] = [domain |-> domain, host |-> host, read |-> 0, looked |-> FALSE, gone |-> FALSE]]
    /\ UNCHANGED <<time, consent, telemetry, feed, shown, answered>>

LookUp(k) ==
    /\ pending[k] # None /\ ~pending[k].looked
    /\ pending' = [pending EXCEPT ![k].looked = TRUE,
                      ![k].read = IF feed[pending[k].domain] = None THEN 0 ELSE feed[pending[k].domain].hits]
    /\ UNCHANGED <<time, consent, telemetry, dest, feed, shown, answered>>

\* _bump_observation: the count the session has read, one more.
Bumped(hits, host) == [hits |-> hits + 1, host |-> host, seen |-> time]

\* A row another observe has inserted meanwhile is adopted; one that was deleted
\* meanwhile fails the request.
Upsert(k) ==
    /\ pending[k] # None /\ pending[k].looked
    /\ answered[pending[k].domain] < MaxHits
    /\ LET p == pending[k]
           now == IF feed[p.domain] = None THEN 0 ELSE feed[p.domain].hits
       IN IF p.read # 0 /\ p.gone THEN UNCHANGED <<feed, answered>>
          ELSE /\ feed' = [feed EXCEPT ![p.domain] = Bumped(IF p.read = 0 THEN now ELSE p.read, p.host)]
               /\ answered' = [answered EXCEPT ![p.domain] = @ + 1]
    /\ pending' = [pending EXCEPT ![k] = None]
    /\ UNCHANGED <<time, consent, telemetry, dest, shown>>

\* DELETE /live/threats, or resolve_threat for one of them.
Clear(ds) ==
    /\ feed' = [d \in Domains |-> IF d \in ds THEN None ELSE feed[d]]
    /\ answered' = [d \in Domains |-> IF d \in ds THEN 0 ELSE answered[d]]
    /\ pending' = [k \in Handlers |-> IF pending[k] # None /\ pending[k].domain \in ds
                                      THEN [pending[k] EXCEPT !.gone = @ \/ pending[k].looked] ELSE pending[k]]
    /\ UNCHANGED <<time, consent, telemetry, dest, shown>>

(***************************************************************************)
(* sync_active: the record of the host is made or refreshed with what the  *)
(* request lists; a list the agent leaves out is an empty one              *)
(* (SyncActiveRequest), so it clears what was known.  DNS queries make     *)
(* destinations, with the organisation's consent.  Destinations and rows   *)
(* of another organisation are others.                                     *)
(***************************************************************************)
Refreshed(t, p) == [t EXCEPT !.at = time, !.tabs = p.tabs, !.tabsAt = time, !.procs = p.procs]

Synced(p) ==
    IF \E i \in DOMAIN telemetry : telemetry[i].host = p.host
    THEN [i \in DOMAIN telemetry |-> IF telemetry[i].host = p.host THEN Refreshed(telemetry[i], p)
                                     ELSE telemetry[i]]
    ELSE Append(telemetry, Refreshed([host |-> p.host, at |-> time, tabs |-> {}, tabsAt |-> time,
                                      procs |-> FALSE], p))

SyncActive(p) ==
    /\ telemetry' = Synced(p)
    /\ dest' = IF p.dns /\ Granted /\ ~p.foreign
               THEN [dest EXCEPT ![p.host] = [x \in Domains |-> IF x \in p.domains THEN time ELSE @[x]]]
               ELSE dest
    /\ feed' = [x \in Domains |-> IF x \in p.domains /\ ~p.foreign /\ feed[x] # None
                                  THEN [feed[x] EXCEPT !.seen = time] ELSE feed[x]]
    /\ UNCHANGED <<time, consent, pending, shown, answered>>

(***************************************************************************)
(* list_devices.                                                           *)
(***************************************************************************)
\* _hosts_match: equal, or one name contains the other; addresses must be equal.
\* Mutant: addresses are compared like names.
HostsMatchText(a, b) == a # None /\ b # None /\ (a = b \/ Includes(a, b) \/ Includes(b, a))
HostsMatch(a, b) ==
    /\ a # None /\ b # None
    /\ \/ a = b
       \/ {a, b} \cap Addresses = {} /\ (Includes(a, b) \/ Includes(b, a))

Own(label, d) ==
    HostsMatch(label, d.ip) \/ HostsMatch(label, d.name) \/ (d.self /\ label \in Local)

\* The first fresh telemetry whose host matches the row.
Candidates(d) == {i \in DOMAIN telemetry : time - telemetry[i].at < TelemetryTTL /\ Own(telemetry[i].host, d)}
Matched(d) ==
    IF Candidates(d) = {} THEN None ELSE telemetry[CHOOSE i \in Candidates(d) : \A j \in Candidates(d) : i <= j]

\* Destinations of matching hosts; what is over age is dropped from the dictionary.
Alive(h, x) == dest[h][x] # 0 /\ time - dest[h][x] <= DestTTL
Recent(x) == feed[x] # None /\ time - feed[x].seen < RecentTTL
Destinations(d) ==
    {x \in Domains : \E h \in Labels : Own(h, d) /\ (Alive(h, x) \/ (Recent(x) /\ feed[x].host = h))}

View(d) ==
    LET t == Matched(d)
    IN [tabs |-> IF t # None /\ time - t.tabsAt < TabsTTL THEN t.tabs ELSE {},
        procs |-> t # None /\ t.procs,
        domains |-> Destinations(d)]

\* A poll also writes: old destinations go.
ListDevices ==
    /\ shown' = [d \in Devices |-> View(d)]
    /\ dest' = [h \in Labels |-> [x \in Domains |->
           IF (\E d \in Devices : Own(h, d)) /\ ~Alive(h, x) THEN 0 ELSE dest[h][x]]]
    /\ UNCHANGED <<time, consent, telemetry, pending, feed, answered>>

\* The operator grants or revokes consent.
SetConsent(c) ==
    /\ consent' = c
    /\ UNCHANGED <<time, telemetry, dest, pending, feed, shown, answered>>

\* clear_devices empties the dictionaries, also of other organisations; requests go on.
Forgotten == telemetry' = <<>> /\ dest' = [h \in Labels |-> [d \in Domains |-> 0]]
ClearDevices ==
    /\ Forgotten
    /\ UNCHANGED <<time, consent, pending, feed, shown, answered>>

\* The process restarts: only the database stays.
Restart ==
    /\ Forgotten
    /\ pending' = [k \in Handlers |-> None]
    /\ UNCHANGED <<time, consent, feed, shown, answered>>

Pass ==
    /\ time < MaxTime
    /\ time' = time + 1
    /\ UNCHANGED <<consent, telemetry, dest, pending, feed, shown, answered>>

FeedNext ==
    \/ \E k \in Handlers :
          \/ \E h \in Observers, x \in Domains : Observe(k, h, x)
          \/ LookUp(k)
          \/ Upsert(k)
    \/ \E x \in Domains : Clear({x})
    \/ Clear(Domains)
    \/ \E p \in Payloads : SyncActive(p)
    \/ ListDevices
    \/ \E c \in BOOLEAN : SetConsent(c)
    \/ ClearDevices \/ Restart \/ Pass

FeedSpec == FeedInit /\ [][FeedNext]_feedVars

-----------------------------------------------------------------------------
\* The types of what is compared and counted.
FeedType ==
    /\ time \in Nat /\ consent \in BOOLEAN \cup {None}
    /\ telemetry \in Seq(Telemetry)
    /\ dest \in [Labels -> [Domains -> Nat]]
    /\ pending \in [Handlers -> Observing \cup {None}]
    /\ feed \in [Domains -> Observation \cup {None}]
    /\ shown \in [Devices -> Shown]
    /\ answered \in [Domains -> Nat]

\* A threat that was answered to an agent stands in the list until it is cleared,
\* with at least one hit and never more than there were answers, although two
\* observes may look a domain up before either has stored it.
ThreatsStand ==
    \A d \in Domains :
        IF feed[d] = None THEN answered[d] = 0 ELSE feed[d].hits \in 1..answered[d]

\* What makes it inductive: the count a session has read of a row that still
\* stands is not beyond the answers either.
ReadsStand ==
    \A k \in Handlers :
        pending[k] # None /\ pending[k].read # 0 /\ ~pending[k].gone =>
            /\ pending[k].looked
            /\ feed[pending[k].domain] # None
            /\ pending[k].read <= answered[pending[k].domain]
=============================================================================
