------------------------------- MODULE Estate -------------------------------
(***************************************************************************)
(* The assets of one organisation, the findings on them and the risk that  *)
(* is cached for them: who writes them (server/app/services/ingest.py,     *)
(* deepscan/integration.py, netconfig/integration.py, api/findings.py,     *)
(* api/assets.py, api/dashboard.py) and recompute.py, which every writer   *)
(* calls before it commits.                                                *)
(*                                                                         *)
(* The database is SQLite, the default of app/config.py: a transaction     *)
(* begins with its first write and then excludes other writers, so a       *)
(* request is at most two steps, what it reads before its first write and  *)
(* the rest with its commit.  A row a session has read keeps the           *)
(* attributes it had then (autoflush and expire_on_commit are off in       *)
(* app/db.py), and recompute_org reads the same session.                   *)
(*                                                                         *)
(* A host keeps its address; services, titles and times are left out.      *)
(* What the engine makes of the rows is the constant Assess.               *)
(***************************************************************************)
EXTENDS Naturals, FiniteSets

CONSTANTS
    Hosts,         \* hosts of the organisation
    Gateway,       \* the one the device sweep knows as gateway
    Vulns,         \* the vulnerability catalog
    ConfigVulns,   \* its entries without a CVE that netconfig makes
    Critical,      \* CVEs of severity critical
    High,          \* CVEs of severity high
    Assess(_, _, _),\* scores and attack paths for assets, findings and links
    None,
    Handlers,      \* requests that are between their reads and their writes
    Payloads,      \* bound: what agents send
    Scans,         \* bound: what deep scans find
    Detections,    \* bound: what an analysis finds
    Triage,        \* bound: statuses an operator sets
    PatchLevels    \* bound: criticalities an operator sets

Levels == {"low", "medium", "high", "critical"}
CritRank == [low |-> 0, medium |-> 1, high |-> 2, critical |-> 3]
Statuses == {"open", "remediating", "resolved", "accepted"}

\* What its composition (Inventory) assumes of the constants.
EstateAssumption ==
    /\ Gateway \in Hosts
    /\ ConfigVulns \subseteq Vulns /\ Critical \subseteq Vulns /\ High \subseteq Vulns
    /\ None \notin Hosts \cup Statuses

VARIABLES
    asset,      \* Asset rows, None before the host is known
    finding,    \* status of the AssetVulnerability row of a host and a vulnerability
    links,      \* Connection rows
    risk,       \* what the last recompute_org stored
    request,    \* the request each handler serves and what its session has read
    late        \* another transaction committed between reads and writes of the last one

vars == <<asset, finding, links, risk, request, late>>

Asset == [crit: Levels, exposed: BOOLEAN, jewel: BOOLEAN]
Ops == {"deepscan", "analyze", "patchFinding", "patchAsset", "recompute"}
Idle == [op |-> "idle", host |-> None, assets |-> [h \in Hosts |-> None],
         findings |-> [h \in Hosts |-> [v \in Vulns |-> None]], links |-> {}, overtaken |-> FALSE]

AssetTable == [Hosts -> Asset \cup {None}]
FindingTable == [Hosts -> [Vulns -> Statuses \cup {None}]]
Request == [op: Ops \cup {"idle"}, host: Hosts \cup {None}, assets: AssetTable,
            findings: FindingTable, links: SUBSET (Hosts \X Hosts), overtaken: BOOLEAN]

\* dmz: the agent's zone is "dmz"; jewel: its crown-jewel flag, None when absent;
\* to: the hosts it has connections to.
Payload == [host: Hosts, hint: Levels \cup {None}, dmz: BOOLEAN, jewel: BOOLEAN \cup {None},
            reported: SUBSET Vulns, to: SUBSET Hosts]
ScanResult == [host: Hosts, cves: SUBSET (Vulns \ ConfigVulns), gateway: BOOLEAN]

NoneIsNoRow == None \notin Asset

BoundAssumption ==
    /\ Payloads \subseteq Payload /\ Scans \subseteq ScanResult
    /\ Detections \subseteq SUBSET (Hosts \X ConfigVulns)
    /\ Triage \subseteq Statuses /\ PatchLevels \subseteq Levels

TypeOK ==
    /\ asset \in AssetTable
    /\ finding \in FindingTable
    /\ links \in SUBSET (Hosts \X Hosts)
    /\ request \in [Handlers -> Request]
    /\ late \in BOOLEAN

Known == {h \in Hosts : asset[h] # None}

Init ==
    /\ asset = [h \in Hosts |-> None]
    /\ finding = [h \in Hosts |-> [v \in Vulns |-> None]]
    /\ links = {} /\ late = FALSE
    /\ risk = Assess(asset, finding, links)
    /\ request = [h \in Handlers |-> Idle]

(***************************************************************************)
(* A commit of a request of h, None if it was one step: the engine sees    *)
(* the assets of view and the rest as it is now; every other request that  *)
(* has read before is overtaken.                                           *)
(***************************************************************************)
Overtake(h) ==
    request' = [k \in Handlers |-> IF k = h \/ request[k] = Idle THEN Idle
                                   ELSE [request[k] EXCEPT !.overtaken = TRUE]]

\* Mutant: the risk is recomputed before the writes are flushed.
CommitUnflushed(h, view, overtaken) ==
    /\ risk' = Assess(view, finding, links)
    /\ late' = overtaken
    /\ Overtake(h)
Commit(h, view, overtaken) ==
    /\ risk' = Assess(view, finding', links')
    /\ late' = overtaken
    /\ Overtake(h)

\* What a request reads before its first write, None elsewhere: the asset it is
\* about, or all assets and their findings.
Begin(h, op, host) ==
    LET all == op \in {"analyze", "recompute"}
    IN /\ request[h] = Idle
       /\ request' = [request EXCEPT ![h] =
              [op |-> op, host |-> host,
               assets |-> [k \in Hosts |-> IF all \/ (k = host /\ op # "patchFinding") THEN asset[k] ELSE None],
               findings |-> IF all \/ op = "patchFinding" THEN finding ELSE Idle.findings,
               links |-> IF op = "recompute" THEN links ELSE {}, overtaken |-> FALSE]]
       /\ UNCHANGED <<asset, finding, links, risk, late>>

\* A column is written if the session changed it from what it had read.
Written(row, read, new) == [f \in DOMAIN row |-> IF new[f] = read[f] THEN row[f] ELSE new[f]]

(***************************************************************************)
(* POST /ingest.  The Scan row is written before anything is read, so the  *)
(* request is one step.                                                    *)
(***************************************************************************)
UpsertAsset(host, hint, dmz, jewel) ==
    LET old == IF asset[host] = None
               THEN [crit |-> IF hint = None THEN "medium" ELSE hint, exposed |-> dmz, jewel |-> FALSE]
               ELSE asset[host]
        raised == IF hint # None /\ CritRank[hint] > CritRank[old.crit] THEN hint ELSE old.crit
    IN [crit |-> raised, exposed |-> old.exposed, jewel |-> IF jewel = None THEN old.jewel ELSE jewel]

\* _upsert_findings: reported ones are opened unless resolved or accepted, open
\* ones that are not reported are resolved.
\* Mutant: only an accepted risk stands against a new report.
ReconciledReopens(old, reported) ==
    [v \in Vulns |->
        IF v \in reported
        THEN IF old[v] = "accepted" THEN old[v] ELSE "open"
        ELSE IF old[v] = "open" THEN "resolved" ELSE old[v]]
Reconciled(old, reported) ==
    [v \in Vulns |->
        IF v \in reported
        THEN IF old[v] \in {"resolved", "accepted"} THEN old[v] ELSE "open"
        ELSE IF old[v] = "open" THEN "resolved" ELSE old[v]]

Ingest(p) ==
    /\ asset' = [asset EXCEPT ![p.host] = UpsertAsset(p.host, p.hint, p.dmz, p.jewel)]
    /\ finding' = [finding EXCEPT ![p.host] = Reconciled(@, p.reported)]
    /\ links' = links \cup ({p.host} \X {k \in p.to : asset[k] # None})
    /\ Commit(None, asset', FALSE)

(***************************************************************************)
(* A deep scan whose nmap run succeeded: the asset row is read, and        *)
(* created or changed with services, findings, zone and the gateway's link *)
(* (_persist_host, _shape_and_connect).                                    *)
(***************************************************************************)
Shaped(old, cves) ==
    LET crit == IF cves \cap Critical # {} THEN "critical" ELSE "high"
    IN IF cves \cap (Critical \cup High) = {} THEN old
       ELSE [crit |-> crit, exposed |-> old.exposed, jewel |-> TRUE]

PersistHost(h, cves, gateway) ==
    LET host == request[h].host
        read == request[h].assets[host]
        edge == [crit |-> "high", exposed |-> TRUE, jewel |-> FALSE]
        shaped == IF read = None THEN Shaped([crit |-> "medium", exposed |-> FALSE, jewel |-> FALSE], cves)
                  ELSE Shaped(read, cves)
    IN /\ request[h].op = "deepscan"
       /\ read = None => asset[host] = None   \* else the INSERT fails: ScanFails
       /\ asset' = [k \in Hosts |->
              IF k = host THEN IF read = None THEN shaped ELSE Written(asset[k], read, shaped)
              ELSE IF k = Gateway /\ gateway
                   THEN IF asset[k] = None THEN edge ELSE [asset[k] EXCEPT !.exposed = TRUE]
              ELSE asset[k]]
       /\ finding' = [finding EXCEPT ![host] =
              [v \in Vulns |-> IF v \in cves /\ @[v] = None THEN "open" ELSE @[v]]]
       /\ links' = IF gateway /\ host # Gateway THEN links \cup {<<Gateway, host>>} ELSE links
       /\ Commit(h, [asset' EXCEPT ![host] = shaped], request[h].overtaken)

\* nmap is missing or fails, the CVE source is of no help, or the flush hits a
\* row inserted meanwhile: the estate stays as it is.
ScanFails(h) ==
    /\ request[h].op = "deepscan"
    /\ request' = [request EXCEPT ![h] = Idle]
    /\ UNCHANGED <<asset, finding, links, risk, late>>

(***************************************************************************)
(* Network-config analysis: load_engine reads every asset, the detectors   *)
(* judge them, and the pairs they found are mapped into findings.          *)
(***************************************************************************)
\* A finding row the engine has loaded (an open or remediating one) keeps the
\* status it had then.
Mapped(now, loaded, found) ==
    LET read == IF loaded \in {"open", "remediating"} THEN loaded ELSE now
        new == IF read \in {"resolved", "accepted"} THEN read ELSE "open"
    IN IF found THEN IF new = read THEN now ELSE new
       ELSE IF now = "open" THEN "resolved" ELSE now

MapFindings(h, found) ==
    /\ request[h].op = "analyze"
    /\ \A p \in found : request[h].assets[p[1]] # None
    /\ finding' = [k \in Hosts |-> [v \in Vulns |->
           IF v \in ConfigVulns THEN Mapped(finding[k][v], request[h].findings[k][v], <<k, v>> \in found)
           ELSE finding[k][v]]]
    /\ UNCHANGED <<asset, links>>
    /\ Commit(h, [k \in Hosts |-> IF request[h].assets[k] # None THEN request[h].assets[k] ELSE asset[k]],
              request[h].overtaken)

(***************************************************************************)
(* The operator: PATCH of a finding, PATCH of an asset, POST /recompute.   *)
(* An attribute set to the value the session has read is not written.      *)
(***************************************************************************)
PatchFinding(h, v, status) ==
    LET host == request[h].host
        read == request[h].findings[host][v]
    IN /\ request[h].op = "patchFinding" /\ read # None
       /\ finding' = IF status = read THEN finding ELSE [finding EXCEPT ![host][v] = status]
       /\ UNCHANGED <<asset, links>>
       /\ Commit(h, asset, request[h].overtaken)

PatchAsset(h, crit) ==
    LET host == request[h].host
        read == request[h].assets[host]
        new == [read EXCEPT !.crit = crit]
    IN /\ request[h].op = "patchAsset"
       /\ asset' = [asset EXCEPT ![host] = Written(@, read, new)]
       /\ UNCHANGED <<finding, links>>
       /\ Commit(h, [asset' EXCEPT ![host] = new], request[h].overtaken)

\* Everything is read before the first write.
Recompute(h) ==
    /\ request[h].op = "recompute"
    /\ UNCHANGED <<asset, finding, links>>
    /\ risk' = Assess(request[h].assets, request[h].findings, request[h].links)
    /\ late' = request[h].overtaken
    /\ Overtake(h)

Start(h) ==
    \/ \E host \in Hosts : Begin(h, "deepscan", host)
    \/ Begin(h, "analyze", None)
    \/ \E host \in Known : Begin(h, "patchFinding", host)
    \/ \E host \in Known : Begin(h, "patchAsset", host)
    \/ Begin(h, "recompute", None)

Next ==
    \/ \E p \in Payloads : Ingest(p)
    \/ \E h \in Handlers :
        \/ Start(h)
        \/ \E s \in Scans : s.host = request[h].host /\ PersistHost(h, s.cves, s.gateway)
        \/ ScanFails(h)
        \/ \E found \in Detections : MapFindings(h, found)
        \/ \E v \in Vulns, status \in Triage : PatchFinding(h, v, status)
        \/ \E crit \in PatchLevels : PatchAsset(h, crit)
        \/ Recompute(h)

Spec == Init /\ [][Next]_vars

-----------------------------------------------------------------------------
\* The cached scores and attack paths are those of the assets, findings and
\* links in the database, unless the last transaction to commit had read before
\* another one committed: every writer calls recompute_org after its own writes
\* and before its commit, and only a row read too early can make it wrong.
RiskCurrent == late \/ risk = Assess(asset, finding, links)

\* What an operator (or an earlier scan) has resolved or accepted is not opened
\* again by an ingest, a deep scan or an analysis; only a PATCH of that finding
\* changes it, or an analysis that had loaded it before it was resolved.
TriageStands ==
    [][\A host \in Hosts, v \in Vulns :
          finding[host][v] \in {"resolved", "accepted"} /\ finding'[host][v] # finding[host][v]
          => \E h \in Handlers :
                /\ request'[h] = Idle
                /\ \/ request[h].op = "patchFinding" /\ request[h].host = host
                   \/ request[h].op = "analyze" /\ request[h].overtaken]_vars
=============================================================================
