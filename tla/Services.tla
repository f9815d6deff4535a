------------------------------- MODULE Services -------------------------------
(***************************************************************************)
(* The services that share no state: a behaviour is one of the             *)
(* vulnerability correlator, of the deep scan's CVE lookup, of a           *)
(* provider's memo, of the live feed, of its evidence timelines, of the    *)
(* edge agent's sweep, of the AI tasks, of a rate limit or of the          *)
(* accounts, the others staying as they began; or it stays in one input of *)
(* the functions the other modules define.  subject says which.            *)
(***************************************************************************)
EXTENDS VulnCorrelator, Integers, Sequences

CONSTANTS
    Threads, MaxClock,
    \* CveLookup
    Services, Versioned, Identified, WithCpe, Vulners, Cves, Returned(_), Mentions(_), Scored, Cvss(_),
    Catalog, MaxLookups, MaxCves, FailTTL, KevTTL, Scans,
    \* ProviderCache
    Urls, TTL, MaxEntries,
    \* LiveFeed
    Labels, Addresses, Includes(_, _), Local, Devices, Domains, Malformed, Sites, TelemetryTTL, TabsTTL,
    DestTTL, RecentTTL, Observers, Payloads, MaxTime, MaxHits,
    \* Timelines
    Window, MaxEvents, Reports,
    \* Coverage
    Agents, Nets, PrivateV4, ReservedV4, Prefix31, HostCount(_), MaxHosts, Explicit, WiFi, Ssids, Worlds,
    \* AiTasks
    Findings, Network, Android, Marked, Paths, Workers, Kinds, Scripts, Answers, MaxRows,
    \* TokenBucket
    Keys, Rate, Burst, EvictTTL, Threshold, MaxNow, MaxChecks,
    \* Accounts
    Emails, Passwords, MaxChanges, MaxRegistered,
    \* RiskGraph
    MaxHops, PathsPerTarget, TopK, MaxCandidates,
    \* inputs of the functions
    Graphs, Ranges, Upgrades, Facts, UrlChecks, Rows, EndpointFindings, AiVerdicts

VARIABLES
    subject, input,
    clock, cache, failUntil, kev, kevAt, osv, scan, kevFailedAt,
    order, entry, asking, served,
    time, consent, telemetry, dest, pending, feed, shown, answered,
    seenAt, timeline, listed, toRecord, recording, told,
    world, agent, row,
    clean, stored, cached, narrated, work, reply,
    now, buckets, checking, checks, granted, overlapped, lag, wronged,
    users, orgs, request, tokens, begun, changing

Lookup == INSTANCE CveLookup
Memo == INSTANCE ProviderCache WITH call <- asking
Feed == INSTANCE LiveFeed WITH Handlers <- Threads
Line == INSTANCE Timelines WITH Handlers <- Threads
Sweep == INSTANCE Coverage
Tasks == INSTANCE AiTasks
Bucket == INSTANCE TokenBucket WITH call <- checking
Account == INSTANCE Accounts WITH Handlers <- Threads
Risk == INSTANCE RiskGraph
Nmap == INSTANCE NmapScan
Match == INSTANCE VersionMatch
Config == INSTANCE NetConfig
Trust == INSTANCE UrlTrust
View == INSTANCE DeviceView

ASSUME LookupKnown == Lookup!LookupAssumption
ASSUME MemoKnown == Memo!MemoAssumption
ASSUME CoverageKnown == Sweep!CoverageAssumption
ASSUME TasksKnown == Tasks!TasksAssumption
ASSUME BucketKnown == Bucket!BucketAssumption
ASSUME AccountsKnown == Account!AccountsAssumption

\* What the functions are asked about; a CVSS score is in tenths.
Severities == {"low", "medium", "high", "critical"}
ASSUME UpgradesKnown ==
    LET versions == Match!Version
    IN Upgrades \subseteq [u : versions, v : versions, w : versions,
                           blocks : Seq(Seq([introduced : versions, fixed : versions]))]
ASSUME FactsKnown ==
    \A f \in Facts :
        /\ f = [assets |-> f.assets, links |-> f.links, devices |-> f.devices, gateway |-> f.gateway,
                forwards |-> f.forwards, dhcp |-> f.dhcp, snooping |-> f.snooping]
        /\ f.assets \in [DOMAIN f.assets -> [ip : STRING, zone : STRING, crit : Severities, internet : BOOLEAN,
                                             ports : SUBSET Nat, dmz : BOOLEAN]]
ASSUME RowsKnown ==
    /\ \A c \in EndpointFindings : c.cvss \in 0..100
    /\ \A r \in Rows :
          /\ r.device = [scan |-> r.device.scan, tried |-> r.device.tried, open |-> r.device.open,
                         findings |-> r.device.findings, ai |-> r.device.ai]
          /\ r.device.scan # None => \A c \in r.device.scan.cves : c.cvss \in 0..100
          /\ r.device.findings \in Seq(EndpointFindings) /\ r.device.ai \in AiVerdicts
    /\ \A v \in AiVerdicts : v = None \/ v.confidence \in 0..100
ASSUME FeedKnown == Feed!FeedAssumption /\ Feed!NoneAssumption
ASSUME TimelinesKnown == Line!TimelinesAssumption
ASSUME SessionsKnown ==
    \A r \in Rows : r.sessions \in Seq(View!PresenceSession) /\ r.online \in BOOLEAN /\ r.now \in Nat
\* A range has no more batches than hosts, and so no more replies than its cap.
ASSUME RangesKnown ==
    \A r \in Ranges : /\ r.discovery \in Nmap!Reply /\ r.replies \in Seq(Nmap!Reply)
                      /\ r.size \in Int /\ r.cap \in Nat /\ r.cap <= Len(r.replies)
ASSUME UrlChecksKnown ==
    UrlChecks \subseteq [u : Trust!Url, hops : Seq(Trust!Hop) \ {<<>>}, peer : {"trusted", "untrusted", "down"},
                        age : Int, sb : {"absent", "error", "flagged", "clean"},
                        vt : {"absent", "error", "malicious", "suspicious", "harmless"}]
ASSUME StatesKnown == None \notin {"OPEN", "EXPOSED", "POTENTIAL_MATCH", "VULNERABLE", "KNOWN_EXPLOITED"}

-----------------------------------------------------------------------------
Machines == {"vuln", "lookup", "memo", "threats", "evidence", "sweep", "tasks", "limit", "accounts"}
Inputs == [risk |-> Graphs, nmap |-> Ranges, match |-> Upgrades, config |-> Facts, trust |-> UrlChecks, view |-> Rows]

lookupVars == <<clock, cache, failUntil, kev, kevAt, osv, scan, kevFailedAt>>
memoVars == <<clock, order, entry, asking, served>>
watchVars == <<telemetry, dest, pending, feed, shown, answered>>
lineVars == <<seenAt, timeline, listed, toRecord, recording, told>>
feedVars == <<time, consent, watchVars, lineVars>>
sweepVars == <<world, agent, row>>
taskVars == <<clean, stored, cached, narrated, work, reply>>
limitVars == <<now, buckets, checking, checks, granted, overlapped, lag, wronged>>
accountVars == <<users, orgs, request, tokens, begun, changing>>
restVars == <<feedVars, sweepVars, taskVars, limitVars, accountVars>>
allVars == <<subject, input, vars, lookupVars, memoVars, restVars>>

ServicesInit ==
    /\ subject \in Machines \cup DOMAIN Inputs
    /\ Init /\ Lookup!Init /\ Memo!Init /\ Feed!FeedInit /\ Line!LinesInit /\ Sweep!Init /\ Tasks!AiInit
    /\ Bucket!BucketInit /\ Account!AccountsInit
    /\ IF subject \in Machines THEN input = None ELSE input \in Inputs[subject]

Correlating == subject = "vuln" /\ Next /\ UNCHANGED <<lookupVars, memoVars, restVars>>
LookingUp == subject = "lookup" /\ Lookup!Next /\ UNCHANGED <<vars, order, entry, asking, served, restVars>>
Memoizing == /\ subject = "memo" /\ Memo!Next
             /\ UNCHANGED <<vars, cache, failUntil, kev, kevAt, osv, scan, kevFailedAt, restVars>>
Feeding == /\ \/ subject = "threats" /\ Feed!FeedNext /\ UNCHANGED lineVars
              \/ subject = "evidence" /\ Line!LinesNext /\ UNCHANGED watchVars
           /\ UNCHANGED <<vars, lookupVars, memoVars, sweepVars, taskVars, limitVars, accountVars>>
Sweeping == /\ subject = "sweep" /\ Sweep!Next
            /\ UNCHANGED <<vars, lookupVars, memoVars, feedVars, taskVars, limitVars, accountVars>>
Working == /\ subject = "tasks" /\ Tasks!AiNext
           /\ UNCHANGED <<vars, lookupVars, memoVars, feedVars, sweepVars, limitVars, accountVars>>
Limiting == /\ subject = "limit" /\ Bucket!BucketNext
            /\ UNCHANGED <<vars, lookupVars, memoVars, feedVars, sweepVars, taskVars, accountVars>>
SigningIn == /\ subject = "accounts" /\ Account!AccountsNext
             /\ UNCHANGED <<vars, lookupVars, memoVars, feedVars, sweepVars, taskVars, limitVars>>

ServicesNext ==
    /\ Correlating \/ LookingUp \/ Memoizing \/ Feeding \/ Sweeping \/ Working \/ Limiting \/ SigningIn
    /\ UNCHANGED <<subject, input>>

\* The fairness of the correlator, in its own behaviours.
ServicesFairness ==
    /\ \A p \in Products : SF_allVars(subject = "vuln" /\ (\E h \in Handlers : Begin(h, p)) /\ ServicesNext)
    /\ \A h \in Handlers : /\ WF_allVars(subject = "vuln" /\ LookUp(h) /\ ServicesNext)
                          /\ WF_allVars(subject = "vuln" /\ ReadStatus(h) /\ ServicesNext)
                          /\ WF_allVars(subject = "vuln" /\ (\E k \in BOOLEAN : Judge(h, k)) /\ ServicesNext)

ServicesSpec == ServicesInit /\ [][ServicesNext]_allVars /\ ServicesFairness

-----------------------------------------------------------------------------
(* The properties of the parts, each in its own behaviours. *)

\* CveLookup and ProviderCache: an outage never passes for a clean service, a CVE of
\* CISA's catalog is only left unflagged shortly after a fetch of the catalog failed;
\* and the memo serves what a provider answered, in time, within its bound.
SourcesHonest ==
    /\ subject = "lookup" => Lookup!OutageTold /\ Lookup!ExploitedFlagged
    /\ subject = "memo" => Memo!MemoSound

\* NmapScan and UrlTrust: a failed batch of a range scan costs only its own hosts; a
\* failed check that has a ceiling caps the score, a worse check never raises it, and
\* only public addresses are contacted.
ProbesHonest ==
    /\ subject = "nmap" => Nmap!RangeHonest(input.discovery, input.replies, input.size, input.cap)
    /\ subject = "trust" => Trust!TrustSound(input.u, input.hops, input.peer, input.age, input.sb, input.vt)

\* Timelines, LiveFeed and DeviceView: evidence that no overlapping recording displaced
\* stays in a device's timeline, within its bound; a threat stands until it is cleared,
\* with no more hits than observes; and the sessions of a row do not count twice.
FeedKept ==
    /\ subject = "evidence" => Line!EvidenceKept
    /\ subject = "threats" => Feed!ThreatsStand
    /\ subject = "view" => View!PresenceAdds(input.sessions, input.online, input.now)

\* Coverage: only allowed networks are swept, and the table tells what became of each.
CoverageHonest == subject = "sweep" => Sweep!OnlyAllowedSwept /\ Sweep!CoverageHonest

\* AiTasks: nothing the output guard refuses is stored, cached or answered.
DefensiveOnly == subject = "tasks" => Tasks!DefensiveOnly

\* TokenBucket and Accounts: a client gets what the limit says; an account accepts only
\* tokens that descend from its present password, and an organisation is that of one user.
AccessSound ==
    /\ subject = "limit" => Bucket!RateKept
    /\ subject = "accounts" => Account!AccountsSound

\* RiskGraph: acting on a finding helps, and every target in reach has a path.
RiskSound == subject = "risk" => Risk!FixHelps(input, 500000) /\ Risk!TargetsCovered(input, 500000)

\* VersionMatch: versions are ordered, and an upgrade never unfixes.
UpgradeHelps ==
    subject = "match" => /\ Match!VersionOrder(input.u, input.v, input.w)
                         /\ Match!UpgradeHelps(input.v, input.w, input.blocks)

\* NetConfig: more exposure never hides a weakness.
ExposureShows == subject = "config" => Config!ExposureShows(input)

\* DeviceView: more evidence never lowers what a device shows.
EvidenceRaises == subject = "view" => View!EvidenceRaises(input.device, EndpointFindings, AiVerdicts)
=============================================================================
