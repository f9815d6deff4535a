# Drishti: the TLA+ development

This directory holds a TLA+ model of the Drishti platform (a FastAPI server
under `server/app`, the agents that report to it, and a dashboard), the TLC
configurations that model-check it on small instances, and proofs checked by
TLAPS. Paths below are relative to the root of the repository.

- `tlc -config X.cfg M` checks module `M` under configuration `X`; the pairs are
  listed under *Runs*.
- `tlapm M.tla` checks the proofs of module `M`.
- `PROJECT.json` lists every component, run, mutant (a plausible bug that a
  property catches), source line range, finding, hazard and theorem.

## 1. Inventory

| Component | Source | State it keeps | Operations |
|---|---|---|---|
| Endpoint pairing | `server/app/api/endpoint.py`, `models/endpoint.py`, `core/deps.py` | pairing sessions, agent rows with a token hash | init, pair, status, heartbeat, telemetry authentication |
| Desktop endpoint agent | `endpoint-agent/agent.py`, `storage/state.py`, `transport/client.py` | life-cycle state, session polled, token in memory and in `auth.json` | start, pairing flow, heartbeat loop, telemetry upload, stop |
| Android agent | `android-agent/app/src/main/java/.../pairing`, `services`, `transport`, `storage` | screen, code and token in memory and on disk, polling coroutines, foreground service | initiate, poll, force re-pair, heartbeat, upload, turn on and off |
| Device presence | `server/app/services/live.py`, `models/live.py` | devices, presence sessions | observe, upsert from endpoint, clear |
| Network coverage | `server/app/services/live.py`, `agent/drishti_watch.py` | what became of each network | discover, judge, sweep, report |
| Live observations | `server/app/services/live.py`, `live_threats.py` | domain observations, destinations, timelines, host telemetry, consent | observe, sync, list devices, clear, consent |
| Endpoint telemetry | `server/app/services/endpoint_telemetry.py` | latest telemetry and vulnerability findings by device, caches | record, correlate, purge, clear |
| Traffic tracking | `server/app/services/traffic/*` | tracking sessions, flows, sliding windows, capture thread | start, ingest, slide, stop |
| Telegram alerts | `server/app/services/telegram_alerts.py` | alerted set, scan loop | start, stop, scan, dispatch |
| Autonomous scanner | `server/app/services/autoscan.py`, `services/deepscan/*` | cursor, `last_scanned_at` | loop, run once, store result |
| Estate: ingest, findings, recompute | `server/app/services/ingest.py`, `deepscan/integration.py`, `netconfig/integration.py`, `recompute.py`, `api/assets.py`, `api/findings.py` | assets, findings, links, stored risk | ingest, persist a scan, map weaknesses, edit, triage, recompute |
| Risk engine | `server/app/services/risk_engine.py`, `attack_paths.py`, `impact.py`, `hardening.py` | none (functions of the graph) | score, paths, exposure, recommend |
| Deep scan | `server/app/services/deepscan/*` | CVE cache, outage memory, KEV catalog | scan a host or range, look up CVEs, enrich |
| Vulnerability intelligence | `server/app/services/vuln_intel/*` | NVD cache | normalise, match versions, correlate |
| Network configuration | `server/app/services/netconfig/*` | facts, findings | detect, integrate |
| URL trust | `server/app/services/urltrust/*` | none (a scoring function) | analyse, score |
| AI services | `server/app/services/ai/*` | stored remediations, cached findings' answers, narratives | remediate, explain, predict, block fix |
| Accounts and rate limits | `server/app/services/accounts.py`, `core/deps.py` | users, tokens, buckets | log in, authenticate, limit |
| Scan agents | `agent/drishti_watch.py`, `agent/drishti_agent.py` | last visit, cooldowns, extension tabs | sweep, read history, report, sync |
| Machine learning | `server/ml/*` | model artefacts | train, infer |
| Dashboard, extension | `web/src`, `src`, `extension` | view state | display |

What makes each correct:

- *Pairing*: a code is used once; the token it releases reaches one agent, works
  for that agent only, and survives a restart; an agent that loses it pairs again.
- *Android agent*: whatever is killed, cancelled, lost or refused, a user who goes on
  gets a phone that is paired and heard from.
- *Presence*: at most one current session of a device on a subnet; sessions end when
  the device was last seen; a sweep speaks of its own subnets only; who is gone
  goes offline.
- *Live observations*: what is shown of a device was seen on a host of its name or address;
  evidence that was recorded undisturbed, and threats, stay until they are old or cleared;
  a visit is not lost without a reason.
- *Coverage*: a network is swept if that is allowed, and told as what it is.
- *Endpoint telemetry*: findings are those of the software list stored, of the
  right organisation; triage is undone by nobody else.
- *Tracking*: counters of a stopped session are final and saved; only traffic of
  the chosen device is counted; captures end.
- *Alerts*: each open finding is sent, and not again once a delivery is confirmed.
- *Scanner*: only permitted devices are scanned, and each of them in its turn.
- *Estate*: the stored scores and paths are those of the stored rows, and nobody but an
  operator undoes an operator's triage.
- *Risk engine*: acting on what it reports does not raise the risk beyond what its limits
  and its relative centrality account for; a target that can be reached has a path.
- *Deep scan*: an outage is not a clean result, and a CVE known to be exploited says so.
- *Vulnerability intelligence*: a verdict names matching advisories only, and a
  failed source is not an all-clear.
- *Version matching*: versions are ordered, and an upgrade never unfixes.
- *Network checks*: more exposure never hides a weakness.
- *URL trust*: a failed check that has a ceiling caps the score, and only public addresses are contacted.
- *AI services*: what the output guard refuses is nowhere stored, cached or answered, and a
  stored answer is of the kind that is asked for.
- *Rate limits, accounts*: a client gets what the bucket holds; a token ends with the
  password it comes from.
- *Machine learning, dashboards*: functions of their input.

How they interact: the agents call the server over HTTP; each request is handled
by a synchronous FastAPI function in a worker thread with a database session of
its own, so two handlers interleave at every commit and nothing but the
database's constraints orders them. Module-level dictionaries (telemetry,
timelines, tracking sessions, rate-limit buckets) are shared between those
threads and with background loops (the Telegram loop is a daemon thread, the scanner
an asyncio task that pushes its ticks to threads, a capture session owns a
sniffing thread and a broadcasting task).

Where it is hard: a token handed out once over a connection that may lose the
answer; check-then-act sequences over the database without locks; a presence
session that must be closed by whichever observation comes next; findings
correlated outside the lock that guards them; background loops that are stopped
and started again; capture threads that outlive a stop.

## 2. The modules

| Module | Models | Checked by | Proved in |
|---|---|---|---|
| `EndpointPairing` | the pairing and report handlers, the desktop agent, its credential file | `MCEndpointPairing`, `MCAgents` | `EndpointPairingProofs` |
| `OneTimePairing` | what a pairing session promises (abstract); `EndpointPairing` states the refinement | `MCEndpointPairing` | `EndpointPairingProofs` |
| `AndroidAgent` | the Android agent with its user; the server's sessions are `OneTimePairing` | `MCAgents` | |
| `Presence` | the device grid and its presence sessions | runs `presence`, `presence_moved`; `MCInventory` | `InventoryProofs` |
| `Estate` | assets, findings, links and the risk stored for them | `MCInventory` | `InventoryProofs` |
| `Inventory` | both, as the database of an organisation | `MCInventory` | `InventoryProofs` |
| `EndpointTelemetry` | the telemetry and findings dictionaries | `MCEndpointTelemetry` | `EndpointTelemetryProofs` |
| `TrackingSession` | tracking sessions, their rows and capture threads | `MCTrackingSession` | `TrackingSessionProofs` |
| `AutoScan` | the autonomous deep-scan loop | `MCAutoScan`, `MCJobs` | `JobsProofs` |
| `TelegramAlerts` | the alert loop and its memory | `MCJobs` | `JobsProofs` |
| `Jobs` | both, as the server's background threads | `MCJobs` | `JobsProofs` |
| `LiveFeed` | observed domains, host telemetry, destinations | `MCLive`, `MCServices` | `LiveWatchProofs`, `AnswersProofs` |
| `Timelines` | the evidence timelines, written by overlapping requests | `MCServices` | `AnswersProofs` |
| `WatchAgent` | the edge agent's browser watchers | `MCLive` | `LiveWatchProofs` |
| `LiveWatch` | both together: posts, lost posts, other agents | `MCLive` | `LiveWatchProofs` |
| `VulnCorrelator` | the correlator, its cache and the NVD source | `MCServices` | `ServicesProofs` |
| `Coverage` | the edge agent's discovery and sweep, the coverage table | `MCServices` | `ServicesProofs` |
| `CveLookup` | the deep scan's CVE lookup with its caches | `MCServices` | `ServicesProofs` |
| `ProviderCache` | the memo of a reputation provider | `MCServices` | `ServicesProofs` |
| `VersionMatch`, `NetConfig`, `DeviceView`, `NmapScan`, `UrlTrust` | functions of their input | `MCServices` | `AnswersProofs` |
| `RiskGraph` | the risk engine, a function of its input | `MCServices` | |
| `TokenBucket` | the rate limiter | `MCServices` | `ServicesProofs` |
| `Accounts` | users, organisations, tokens | `MCServices` | `ServicesProofs` |
| `AiTasks` | the AI tasks, what they store and what the guards refuse | `MCServices` | `AnswersProofs` |
| `Services` | the services from `VulnCorrelator` on, each by itself | `MCServices` | `ServicesProofs`, `AnswersProofs` |

Conventions. A step is what no other thread can see in the middle of: a database
transaction, a read whose result a later write uses, a critical section, one
delivery of a packet or a message. Definitions keep the names of the code where
there is one. A definition introduced by a comment `Mutant` is not part of the
specification: it is the code with a plausible bug, and `PROJECT.json` says
which property finds it. `None` is SQL NULL or a missing dictionary entry.

Modules that interact through state are composed: `LiveWatch` extends the edge
agent and the server's feed, `AndroidAgent` takes its server's sessions from
`OneTimePairing`, which `EndpointPairing` is shown to implement. Elsewhere the
callee's effect on the caller is an input of the caller: `EndpointTelemetry`
takes a correlation's result as given (`VulnCorrelator` is about that result),
`Presence` has the scanner's update of a row (`BeginScan`, `EndScan`),
`AutoScan` has the sweeps and clears of `Presence` (`Observe`, `ClearDevices`),
`TelegramAlerts` has findings that appear and vanish, `Estate` leaves what the
engine computes to the constant `Assess` (`RiskGraph` is about that).

`Inventory`, `Jobs` and `Services` put components that share no state into one
specification (and `MCAgents` does so for the two endpoint agents): a variable
(`subject`, `job`) chosen at the start says whose behaviour it is, the variables of the
others keep their initial values, and each property is conditioned on it. Nothing is
interleaved between the subjects, so the states of such a run are the sum, not the
product, of those of its parts, and an invariant of a part is proved from that part's
own steps. The `MC` modules give their constants values.

## 3. EndpointPairing and OneTimePairing

*State.* `sess` is `endpoint_pairing_sessions`, `agentRow` the token hash that
each row of `endpoint_agents` accepts (a hash is as good as the token here),
`online` the rows with a recent `last_heartbeat`, `grid` the owner of the
`network_devices` row with the agent's device id. `phase`, `life`, `cur`,
`token`, `auth` are the agent: the line its worker thread is at, the
`LifecycleManager` state, the session it polls, the token in memory and in
`auth.json`. `req` has one record per handler thread, from the call to the
answer; `live` says whether the client still waits. Tokens and sessions are
numbered in the order they are made, so "a later token" is a larger number.

*Actions.* `FindPriors`, `ExpirePriors`, `InsertSession` are `/pairing/init`;
`RefuseUnknownCode`, `RefuseLateCode`, `RefuseUsedCode`, `AcceptCode`,
`FindAgentRow`, `RegisterConflict`, `RegisterAgent` are `/pairing/pair`, with the
select, the lookup of the agent's row and the commit in separate steps;
`ReadStatus`, `ReadLate`, `ReadPaired`, `ConsumeSession` are `/pairing/status`;
`ExpireLate` is the commit of `EXPIRED` in either of the two, by primary key, into
a session the other may have taken up in between;
`AuthoriseReport`, `RecordBeat`, `UpsertDevice` are a heartbeat or a telemetry
upload. `Call`, `OnInitReply`, `OnStatusReply`, `SaveAuth`, `OnHeartbeatReply`,
`OnTelemetryReply`, `Start` are the agent. `Submit` is an operator who enters
any code at all, `Elapse` the five minutes of a session (an hour for a demo session), `GoStale` the time after
which a row is no longer shown ONLINE. `Timeout` (the client gives up, the
handler goes on), `ServerCrash` and `Crash` (also in the middle of writing
`auth.json`) are the failures.

*`OneTimePairing`* is the promise: a session opens, is taken up by one
organisation, hands over its secret at most once and stays closed.
`ImplementsOneTimePairing` maps statuses to stages and the tokens released to
the sessions they were minted for. `CredentialKept` has both sides of a credential:
`CredentialHonoured` is the server's, `CredentialDurable` the agent's. `OneWaitingDemo`
is the clean-up of demo sessions.

## 4. AndroidAgent

*State.* `stage`, `partner`, `delivered`, `accepts` and `gone` are the server: the
sessions of `OneTimePairing`, the token each organisation's row accepts, the
sessions it knows no more; `heard` says whether the device is shown ONLINE.
`screen` and `code` are `PairingManager`'s state flow, `task` where each attempt's
coroutine is, `job` the one `pollingJob` refers to, `cancelled` those whose job was
cancelled. `stored` is the token in the preferences, `disk` what `apply()` has
written of it. `active` and `running` are the activity's flag and the service,
`beat`, `carried` and `stale` the heartbeat loop, the token its request carries and
requests whose loop is gone. An attempt's number is also its session's and token's.

*Actions.* `Initiate` and `ForceRePair` are the buttons (and the start of the app),
`OpenSession` to `Settle` the coroutine, each suspension point between two steps;
`EndCancelled` is cooperative cancellation, which a coroutine past its last
suspension does not notice. `Beat`, `BeatAnswered`, `StaleAnswered` are
`HeartbeatManager`, whose 401 wipes the stored token; `UploadWithBeat` and `Upload`
are `TelemetryManager`. `StartService`, `StopService`, `TurnOn`, `TurnOff`,
`StopFromNotification`, `Recreate` are the service and the activity. Faults are lost
answers, lapsed sessions, a process killed before or after `Flush`, another server,
and buttons pressed without need.

## 5. Presence

*State.* `rows` is `network_devices` and `sess` `device_sessions`, for one
organisation. Times are ages in ticks of five minutes (`MAX_OBSERVATION_GAP`),
capped just above the largest one compared. A sweep (`observe_devices`) is two
steps because the session has `autoflush=False`: `Load` reads the rows and
sessions of the reported devices, `Store` runs the queries of the rest and
commits. `Left`, `Pruned`, `Aged` and `Doubled` are the four clean-ups: subnets
the agent has left, devices of this subnet not seen, devices nobody refreshed,
and the random MACs of one gateway. `Merge` is what SQLAlchemy writes: only the
columns that differ from what was loaded. `OfflineRow` and `EndScan` move
`last_seen`, because the column has `onupdate=utcnow`. The other writers are
`UpsertHost` (a heartbeat), `ClearDevices` and the scanner; `Break` marks the
sweeps whose loaded rows were deleted under them, whose flush then fails.

*Abstractions.* Of the closed sessions of a device and subnet one at most is
looked at again (the latest), so their slots are reused; `MaxSlots` bounds them.
`SessionsSound` is `OneCurrent` and `ClosedAtLastSeen` together.

## 6. Estate

*State.* `asset`, `finding`, `links` are the rows of `assets`,
`asset_vulnerabilities` and `connections` of one organisation; `risk` is what
`recompute_org` stored last: scores and attack paths, as `Assess` of what it read.
`request` is what each handler's session has read. `late` says that the last commit
was of a request another commit had overtaken.

*Actions.* The database is SQLite, so that a transaction excludes others from its
first write on. `Ingest` writes before it reads anything that it keeps and is one
step; the other operations read first (`Begin`) and write and commit later:
`PersistHost` or `ScanFails` (a deep scan, minutes later), `MapFindings` (the network
analysis), `PatchFinding`, `PatchAsset`, `Recompute`. `Commit` ends each with the
engine's answer over the rows of its own session, `Overtake` marks the others.
`Written` is what SQLAlchemy writes: an attribute that equals what was read is not
written. What reconciliation does to a status is `Reconciled`, `Shaped`, `Mapped`.

## 7. EndpointTelemetry

*State.* The three dictionaries of `endpoint_telemetry.py`: the installed
software of a device, the findings cached for it, and the findings that were
triaged. An item is a package with a finding, a list is a set of items.

*Actions.* `RecordTelemetry` is an upload (a software list, an application list
or neither); `ReadSoftware`, `StoreFindings`, `CorrelationFails` are the
correlation, which reads under the lock, works outside and stores under it;
`View` reads findings and correlates if there are none; `LookUpUnknown` is the
lookup of a finding id that is not cached, which correlates every device of the
organisation anew; `Triage` sets a status; `Restart` loses everything.

## 8. VulnCorrelator

*State.* `records` is the cache by product, `available` the field of the one
`NVDSource` object that every thread writes, `catalog` whether the KEV list has
been fetched, `call` a `correlate_target` in progress and `verdict` what it
found. `published` and `reachable` are NVD.

*Actions.* `Begin` (cache hit or not), `LookUp` (query and `mark_success` or
`mark_failure`), `ReadStatus` (the field is read back, records go into the
cache), `Judge` (KEV enrichment, version match, state). Which version ranges
contain the installed version is the constant `Matching`.

## 9. TrackingSession

*State.* `active` is the manager's dictionary with each session's aggregator and
last verdict, `row` the table, `capture` and `stopping` the sniffing thread and
its stop event, `call` a request in progress.

*Actions.* `StartTracking`, `BuildRow`, `CommitRow`; the thread's `Sniff`,
`SniffFailure`, `Arrive`, `Ingest`, `Filter`; `StopTracking`, `Summarise` (after
`join(timeout=1.5)`), `Save`; `StopHistoric` for a session that only has a row;
`GetResults`, `StoreDetection`; `Restart`.

## 10. AutoScan

*State.* `config` is `AutoScanConfig` by organisation with `due` for an interval
that is over, `queue` the organisations the tick has still to serve, each with its place
in the query's answer and the `scan_subnet` the tick has read (`First` is the next,
`Served` what is left after it), `scan` the device that `deep_scan` works on, one of
`Eligible`. `BeginTick`, `RunOnce`, `ScanEnds` and `ScanBreaksSession` are
`_run_due_orgs` and `run_once`; the rest is the world: configurations, sweeps,
clears and time change while a scan takes its minutes.

## 11. TelegramAlerts

*State.* `open` is what the three queries would return now, `old` the database
findings of more than 15 minutes, `alerted` the set `_alerted`, `phase` and
`todo` the scan. `received`, `lost` and `assumed` are history: the messages chats got
from this process, those among them whose delivery was not confirmed to it, and what
its first scan took for alerted.

*Actions.* `BeginScan`, `NextSource`, `Skip`, `Send`, `EndpointsFail`, `TickFails`;
`Detect`, `Close`, `Age`, `Crash`, `Start`. `Send` makes one `Attempt` for each chat:
curl and, when it does not answer in time or not in JSON, httpx, each of which may have
delivered the message all the same. So a chat may get a message twice in one attempt,
and again from the next tick when no chat's delivery was confirmed. `SentOnce` is what is
left of "sent once": one message more than there are unconfirmed deliveries.
`Fingerprint` is modelled as it is: by hostname for a database finding, by
device id for one from telemetry.

## 12. LiveFeed, Timelines, WatchAgent and LiveWatch

*`LiveFeed`.* `telemetry` and `dest` are dictionaries of `live.py`,
`feed` the `LiveObservation` rows, `consent` the flag of `AutoScanConfig`; `pending`
is an `observe` (`Observe`, `LookUp`, `Upsert`: the analysis of the domain lies between
the first two), `shown` the answer of the last `ListDevices`, which joins all of it
to the rows by `HostsMatch`. `SyncActive` is the agent's report of tabs, processes
and domains, `Clear` the operator's, `ClearDevices` and `Restart` lose the dictionaries.
`answered` is history. Telemetry expires by age, as `View` and `Destinations` read it. Its
key is the host's label, without organisation or subnet: `Payloads` has syncs of another
organisation (`foreign`) and `Devices` rows of several networks with one address. A sync's,
and a poll's, accesses to telemetry and destinations are one step: each list of a host is one
assignment, so what a poll in the middle of a sync shows are older lists next to newer
ones, each of which `TabsExplained` covers. (A poll walks the telemetry dictionary itself,
`live.py:1507`, so a host's first sync in the middle of that makes it raise, and nothing is shown.)

*`Timelines`.* `timeline` and `listed` are `_DEVICE_TIMELINES`: its lists and its keys.
`record_timeline_event` takes no lock, so a recording is four steps, one for each access
to the dictionary: `Check` for the key, `Make` an empty list, `Get` the list, `Store` the
new one, which was filtered, added to, sorted and cut (`Recorded`) on a list of its own.
`toRecord` is what the request of a handler has still to record: a `Sync` its sockets, DNS
queries and traffic (`Withhold` without consent for the last two), a `Poll` the presence of
every row. Of two recordings that overlap, the last to store decides, so events are lost;
`told` is history: those recorded while no other recording for the label had read the
list, or found none, and not yet stored. `ClearDevices`, `Restart`, `Seen` by a sweep and
`SetConsent` come between any two steps.

*`WatchAgent`.* `visits` are the history databases, `loop` the agent's loop with `last`,
the newest visit time it has taken, `tab` what the extension's receiver remembers,
`lastSeen` the cooldowns. `ReadHistory` reads one database, newest rows first and at
most `MaxRows`; `Collect` merges the extension's tabs with recent history; `Skip`,
`Post`, `SendSync` are the reports. `Browse` and `TabReceived` are the browsers.

*`LiveWatch`.* Each `Post` is an `Observe` of the server or lost, each `SendSync` a
`SyncActive` or lost; other agents' syncs come from `Payloads`; both clocks go
together.

## 13. Coverage

`world` is what an agent's host finds around it (interfaces, routes, answers to pings,
wireless networks), `agent` its `run_devices` round, `row` the coverage table. `Start`
and `Resolve` make the list of candidates with their verdicts (`Judged`, after
`_cidr_guard`), `Report` posts what is not swept, `Sweep` one network, whose POST may be
lost or name no device. Lists are sets: each entry is one network, and they are taken
in any order. `Move` changes the world between rounds.

## 14. CveLookup and NmapScan

*`CveLookup`.* `cache` and `failUntil` are the memory of `cve_lookup.py`, `kev` and `kevAt`
the catalog of `intel_correlate.py`, `osv` its aliases; `scan` is where each scan's
thread is. `Lookup` is one section under `_state_lock` (hit, short circuit after an
outage, or a request), `Fetch`, `KevFetch` and `Osv` are the requests, which may fail;
`Parsed` and `Evidenced` say which advisories of an answer are evidence. The services a
scan has still to look up are the places of the parsed result, taken from the first on.

*`NmapScan`.* What a range scan makes of nmap's replies, as functions: which targets are
accepted (`Scannable`), what is kept of a `<host>` (`ParsedHost`), when a reply is an
error (`RunError`), how batches are joined (`ScanRange`).

## 15. ProviderCache, TokenBucket, Accounts, AiTasks

*`ProviderCache`.* The ordered dictionary of `ttl_cache` as `order` and `entry`. `Ask`,
`Hit`, `Expire`, `Fetch`, `Store`, `Move`, `Trim`, `Pop` are one access to the dictionary
each, since nothing holds a lock between two of them: deleting or moving a key that
another thread has removed raises, and so does `popitem` on a dictionary that others
have emptied (`Raise`).

*`TokenBucket`.* `Check`, `Find`, `Fill`, `Store` are the stretches of `check()` between its
calls; `EvictionRaises` is the walk over a dictionary that changes. A thread whose
bucket was evicted under it goes on with an orphan. `granted` (what was granted since each
time), `overlapped`, `lag`, `wronged` are history for the property. `BucketAssumption`
says that an idle bucket is full before it is evicted: the limiters of
`server/app` have bursts of 20, 6 and 60 and refill them within an hour, the age of eviction.

*`Accounts`.* `Register`, `Login`, `PatchMe` read, `Registered`, `LoggedIn`, `Patched` commit
after the password work; `Refresh` is one step. `tokens` holds every token ever
issued with the version it carries and the password it descends from.

*`AiTasks`.* `Remediate` and `Impact` are answered by a guard or from what is stored, or wait
for the model in `work`; `Remediated` and `Explained` take any of `Answers`, or the
template when the model cannot be reached. `Predict` and `BlockFix` store nothing.
Meanwhile findings are correlated anew and paths deleted.

## 16. The functions

*`RiskGraph`* is the engine: `NodeScores`, `AttackPaths`, `TotalExposure`, the hardening
report (`Recommended`). Quantities are integers in thousandths; quotients are cut where
the code rounds. The limits are constants: `Candidates` is what the search for a target
examines (`MaxCandidates`), `TargetPaths` what it keeps (`MaxHops`, `PathsPerTarget`),
`AttackPaths` what the ranking keeps (`TopK`); of paths that come together either is taken.
The link `Recommended` cuts is the one of the largest weight stored in the rows, whatever
those are. `FixHelps` says how far acting on the reports helps: patching an asset never
raises its own score, and the reported exposure only up to that of all the paths within
the hop limit; everything recommended together raises a score only with the asset's centrality. *`VersionMatch`* is comparison, ranges, the verdict and OSV's blocks; ranges and fixes are sets. `UpgradeHelps` has its converse and its upgrades for advisories of one branch.
*`NetConfig`* is the detectors over gathered facts (`RunAll`) and their mapping to findings;
what is reached is the least set closed under the links.
*`UrlTrust`* is the checks as statuses, the redirect probe (`Contacted`) and `Score`.
*`DeviceView`* is what `list_devices` derives for a row: its findings, `Ladder`, `Score`,
annotations and presence; of the agent's findings, in their order, the first of each identifier.

## 17. Runs

| Run | Module and configuration | What it shows |
|---|---|---|
| `pairing_serial` | `MCEndpointPairing`, `MCPairingSerial` | requests one at a time, two agents (one on the demo code), two organisations, one fault: one-time sessions (refinement), one waiting demo session, credentials kept on both sides |
| `pairing_race` | `MCEndpointPairing`, `MCPairingRace` | two handlers, every interleaving of their transactions: credentials stay with their agent, offers are registered |
| `pairing_live` | `MCAgents` | after the last fault a desktop agent ends up paired and keeps being shown ONLINE; so does a phone whose user and operators go on |
| `presence` | `Presence`, `MCPresenceRoaming` | one agent that changes networks, anonymous sweeps, the device's own heartbeats, scanner, clears: one current session, closed ones end when last confirmed, none is stretched over a silence; who is gone goes offline |
| `presence_moved` | `Presence`, `MCPresenceMoved` | **violation**: a device that changes networks with its agent is set offline by the sweep that reports it |
| `telemetry_serial` | `MCEndpointTelemetry`, `MCTelemetrySerial` | two organisations, three devices, one with correlations that raise: findings are those of the stored list, triaged locally, and come in the end |
| `tracking` | `MCTrackingSession`, `MCTracking` | three overlapping requests, failing commits, restarts: the row of a stopped session has its final counters; stops are answered; captures end |
| `scan_wedged` | `MCAutoScan`, `MCScanWedged` | **violation**: one device whose scan fails in a flush starves its neighbours and the organisations after it |
| `jobs` | `MCJobs` | alerts: a finding of each source, a failing query, message or confirmation, a restart: not sent again once it is confirmed, reported in the end. Scanner: two organisations, three devices: a withdrawn permission ends with the tick; every device in scope is scanned again and again |
| `inventory` | `MCInventory` | estate: two hosts, two vulnerabilities, two requests and ingests: stored risk is that of the rows, triage stands. Grid: two agents that stay, one on one subnet and the other on any: offline devices are not present, reported ones are online, a sweep leaves others' devices alone |
| `live` | `MCLive` | the edge agent with two browsers and the server, and a host of another organisation with a row's address: shown tabs come from a host of the row's name or address, a visit is missed for a reason only |
| `services` | `MCServices` | fifteen subjects: correlator, CVE lookup, provider memo, threats, evidence under overlapping requests, coverage, AI tasks, rate limit and accounts as state machines; risk graph, nmap runs, versions, network checks, URL trust and device view over all inputs of a bounded set. `SourcesHonest` is what lookups and memos tell, `ProbesHonest` what scans and URL checks contact and conclude, `AccessSound` limits and accounts |

The longest runs are `services`, `inventory`, `presence`, `jobs` and `pairing_serial`, two and a half to
nearly four minutes each with two workers.

### Bounds

- `MaxSessions`, `MaxTokens`, `MaxFaults` (pairing): three sessions let an agent
  pair, lose its credential and pair again while another one waits; one fault is
  a lost answer *or* a crash *or* an expiry at any moment. `pairing_live` allows
  two faults, and five sessions, as each fault may cost one. A session or token
  beyond the bound is not made, which is why there are enough for the faults.
- `MaxAttempts`, `PhoneFaults` (Android): one fault of any kind, and five attempts, more
  than the fault and its consequences (a wiped token, a dead code) can cost.
- `MaxSlots` (presence): two sessions of a device and subnet are a current one
  and one that ended; only the latest is read by the code. `inventory` has one,
  which is reused when it is closed: its properties are about rows and
  running sessions. `Gap` and `Stale` are 0 in the passing runs: an observation of
  the same tick is within the limit, an older one is not. In `presence_moved`
  they are the 5 and 15 minutes of the code.
- `Payloads`, `Scans`, `Detections`, `Triage`, `PatchLevels` (estate): one finding that is reported or
  not, one critical CVE, one weakness, and one value for what an operator sets: each
  writer can change what each other one has read. `Assess` keeps everything the
  engine can tell apart. Symmetry in handlers, subnets and agents; no liveness.
- `MaxPackets` (tracking): two packets are on their way when a stop arrives; three
  addresses give flows of the device and one that is not.
- `MaxCrashes`, `MaxFailures`, `MaxChanges` (alerts): two findings change, so one
  can come back after it was sent, or after the restart. Once no more findings may
  appear and none is open, with no organisation known, the loop has nothing to look
  at, hence `CHECK_DEADLOCK FALSE` in `jobs`. The limits belong to the run, not the
  code; the theorems hold for all of them.
- `live`: `MCIncludes` makes each address contain the other as text, the worst case of
  `_hosts_match`; one row per query (`MaxRows`) so that a limit cuts; history mode runs to
  time 3, conn mode to 2 (`Bounds`), one more than every time to live. Time ends, hence
  `CHECK_DEADLOCK FALSE`.
- `services`: clocks end at 2 or 3 with times to live of 1 or 2, so everything can expire
  once; the limits are as small as lets them be exceeded (two lookups, two CVEs, one
  memo entry, two timeline events, a bucket of two); two threads each, for the timelines two
  that sync or poll one label. The limits of the risk engine are 2 hops, 2 paths for a target,
  3 in the ranking and 3 candidates (6, 5, 25 and 500 in the code), and `MCGraphs` has graphs
  that exceed each of them: more short paths to a target and to all targets than are kept,
  the heaviest over an easier link, as many lighter long paths as are examined, and an asset
  that becomes more central when a link to it is cut. The inputs of the
  functions are in `MCServices`, each set described where it is defined. Their subjects
  and ended clocks have no next step, hence `CHECK_DEADLOCK FALSE`.
- `scan_wedged` and `telemetry_serial` have no counters: their state
  spaces are finite and complete for the given sets.

### Fairness

- *Pairing*: a handler that took a request finishes it, a reply is taken, an agent
  makes its next call when a handler is free again and again (strong fairness: a
  worker pool with a queue), whoever runs an agent that ended starts it again,
  and an operator who sees a code enters it at some time.
- *Android*: coroutines run and requests are answered; the user presses what the screen
  offers (pair, re-pair after a refusal, turn on), and restarts an app that shows a code
  its session answers no more to, which the code has no way out of; an operator
  enters a code that stays. Needless presses are faults and bounded.
- *Presence*: the agents' sweep loops go on, a handler stores what it loaded, time
  passes, a scan ends.
- *Telemetry, correlator*: a request's own steps are taken. A correlation of a
  key in `Failing` may raise every time; nothing is promised of it. That
  `FirstAdvisoryFound` assumes devices to keep reporting is the agent's loop.
- *Tracking*: threads run. Packets are **not** assumed: `StopAnswered` holds for a
  silent device, `CaptureEnds` has the packets as its premise.
- *AutoScan*: the loop, the end of a scan (nmap runs with a timeout) and the clock.
- *Alerts*: the process is started again and its loop runs; failures are bounded.
- In the composed instances each fairness condition names its subject, so it binds only
  the behaviours of that subject.

## 18. Proofs

| Theorem | Says, for every value of the constants |
|---|---|
| `EndpointPairingProofs!TypeCorrect`, `LedgerCorrect` | types; every copy of a token stays with the agent it was issued for, and rows only move forward |
| `EndpointPairingProofs!Isolation`, `Kept`, `OfferRegistered` | `CredentialIsolation`, `CredentialKept`, `OfferIsRegistered`, under any number of handlers, crashes and lost answers |
| `EndpointPairingProofs!OneTimeSessions`, `SecretReleasedOnce`, `OneDemoWaits` | the refinement of `OneTimePairing`, `ReleasedOnce`, `OneWaitingDemo`, for at most one request at a time (`OneAtATime`) |
| `EndpointTelemetryProofs!TypeCorrect`, `FindingsAreOwn`, `TriageStaysLocal` | types, `OwnFindings`, `TriageIsolated`, for overlapping requests |
| `EndpointTelemetryProofs!SerialFindingsCurrent`, `SerialFindingsComplete` | `FindingsCurrent`, `FindingsComplete`, for at most one request at a time |
| `InventoryProofs!TypeCorrect`, `Untouched` | types of the grid; `OthersUntouched`, whatever sweeps overlap |
| `InventoryProofs!SessionsAreSound`, `NotCarriedOver` | `SessionsSound`, `Unbroken`, while sweeps are stored one at a time (`OneSweep`); the latter with two slots at least, since with one a session that opens would pass for the one it follows |
| `InventoryProofs!AbsentNotPresent`, `ReportedIsOnline` | `OfflineNotPresent`, `SeenIsOnline`, if moreover agents stay on their subnets and name themselves (`Settled`): without that `presence_moved` refutes the second |
| `InventoryProofs!EstateTypeCorrect`, `RiskIsCurrent`, `TriageKept` | types of the estate; `RiskCurrent`, for any engine `Assess`, and `TriageStands`, for any number of overlapping requests |
| `TrackingSessionProofs!TypeCorrect`, `StoppedSaved` | types; `SavedMatches` if ids reach clients with the start answer (`~Eager`) and a packet is handled within 1.5 seconds (`~Slow`) |
| `JobsProofs!TypeCorrect`, `SentOnceHolds`, `RememberedWasSent` | types of the alert loop, `SentOnce`, `AlertedWereSent` |
| `JobsProofs!ScannerTypeCorrect`, `WithdrawnEnds` | types of the scanner; `WithdrawnByNextTick` |
| `LiveWatchProofs!TypeCorrect`, `NothingMissed`, `TabsAreTheDevices`, `HitsCounted` | types, `MissedForAReason`, `TabsExplained` for rows and hosts that share addresses, `ThreatsStand` |
| `ServicesProofs!TypeCorrect`, `BlamesOnlyMatching`, `SerialFailureNotCleared` | types of the correlator and `OnlyMatching`, for overlapping calls; `FailureNotCleared`, for at most one call at a time |
| `ServicesProofs!SourcesAreHonest` | `SourcesHonest`: lookups for any number of scans, the memo for any number of threads |
| `ServicesProofs!RoundsAccountedFor` | `CoverageHonest`, for any agents and networks |
| `ServicesProofs!AccessIsSound` | `AccessSound`: the limit for any clients, rates and overlapping checks; accounts for any requests |
| `AnswersProofs!OutputGuarded` | `DefensiveOnly`, for any findings, models' answers and tasks at once |
| `AnswersProofs!VersionsOrdered`, `UpgradeNeverUnfixes` | versions of any length are totally preordered; `UpgradeHelps` for any advisory, its converse for those of one branch |
| `AnswersProofs!ExposureNeverHides`, `EvidenceNeverLowers` | `ExposureShows`, `EvidenceRaises`, for any inputs |
| `AnswersProofs!FeedIsKept` | `FeedKept`: evidence in a timeline for any hosts, threads, reports and limits, however recordings, clears and restarts overlap; threats for any observes; presence for any number of sessions in a row |
| `AnswersProofs!ProbesAreHonest` | `ProbesHonest`: a range scan for any targets, batch size and replies; the trust score for any checks; the probe for any redirects |

How they go:

- *Compositions.* A step of `Inventory`, `Jobs` or `Services` is a step of the part the
  behaviour is about (`PartSteps`, `InventoryHasEstate`, `JobsHaveScanner`), so each part has an
  invariant of its own. Their `ASSUME`s say that the constants satisfy what the
  instanced modules assume; TLC evaluates them in the runs.
- *Pairing.* None of the credential properties is inductive: what a row accepts depends
  on the session the token was copied from, on the answer that carries it and on
  the agent that stores it. `Ledger` says of each of these places
  (`SessionLedger`, `RowLedger`, `RequestLedger`, `AgentLedger`) for whom its
  token was issued. The rows and grants only grow (`Grows`), so the steps that
  touch one place keep the others by the `...Stable` lemmas, and there is one
  lemma per action. `CredentialDurable` needs `AgentWaits`: an agent has one request
  under way, of the phase it is in, so no late answer changes what it has saved. For
  one request at a time `InFlight` says that what the handler has read still holds when
  it writes, and `SecretLedger` that a token names the session it was issued for, which
  has given it up once it is released; each action then maps to a step of
  `OneTimePairing` or to none. `DemoFlight` follows the clean-up of demo sessions.
- *Telemetry.* `SerialInv` adds `Faithful`: the software a correlation works on is
  still what the store has. With one request at a time nothing else replaces the
  list meanwhile; with two it fails, which is a row of section 19. `TriageIsolated` is a
  fact of each step and needs types only.
- *Presence.* A step stores what was loaded earlier. `SessionsInOrder` says that of the
  sessions of a device in a subnet one runs at most, and it is the latest; `SweepStands`
  that what a sweep has loaded still stands when it is stored, up to the one tick that may
  pass, unless its rows were deleted; `AtHome` that a row names the subnet its agent is
  connected to. Lemmas about `Recorded` (what storing an observation does to a device's
  sessions) carry both session properties.
- *Estate.* `RiskCurrent` alone is not inductive: a commit computes risk from what its
  session has read. `Fresh` says that this is what the database has until another
  transaction commits (`overtaken`), `Holding` that a request's rows exist. After a
  commit every other request is overtaken (`OvertakeEffect`), so `CommitKeeps` restores both
  for all operations at once, and a commit that was not overtaken has assessed the
  present rows. `TriageStands` follows per action from the same facts.
- *Tracking.* `SaveInv`: once the stop event is set and no packet is being handled,
  the counters are frozen (`Frozen`, `FrozenStays`), so what a stop has
  summarised, and what any later stop writes, is final (`Final`).
- *Alerts.* `AlertInv` adds `GotIsAlerted`: whatever a chat got from this process is in
  `_alerted`, so the next scan skips it.
- *Scanner.* Types need that the cursor, an index modulo the number of eligible devices,
  names one of them (`Ranked`). `WithdrawnByNextTick` is a temporal formula of steps and
  states only: a device out of scope is `Barred` from the next tick on, and stays so.
- *Live watch.* `MissedForAReason` rests on `PollsInOrder`: one visit at each point of
  time, nothing in the future, so that what a poll passes over is older than what it took.
  That the merge of several databases keeps the latest of each site is shown from a least
  counterexample, since induction over the recursion is not available. For
  `TabsExplained`, `TabsOnTheirWay` says the same of tabs in the browsers, in the agent's
  round and in the server's telemetry. `ReadsStand`: an observe that read a row that still
  stands has read no more hits than were answered.
- *Correlator.* `InHand` and `CachePublished` say where records come from; `StatusOwn`
  that the status read back is that of the call's own lookup, which is true
  while nobody else looks up.
- *CVE lookup.* `Told` says of a scan under way what its past lookups have told;
  `KevTrue` that a catalog that misses an entry is that of a failed fetch; `CacheTrue` that
  what is cached is what the source would answer.
- *Memo.* `MemoInv`: the order lists each entry once (`Listing`); it exceeds the bound by
  no more than the threads that have stored and not yet moved or trimmed (`Fits`); what a
  thread has in hand is still young enough to serve (`Underway`, `Young`). There is
  one lemma per access to the dictionary, because another thread may run after each.
- *Coverage.* `Listed` (a network once, for scanning only if allowed), `OnRound` (what is
  behind the round has its outcome), `RowsAllowed` (what the table calls swept was allowed).
- *Functions.* Two versions are compared at their first difference (`Precedes`, `Alike`),
  which exists by well-foundedness of the naturals; order and its use in ranges follow.
  For the network checks, what is `MoreExposed` reaches more zones (`ReachMore`), and each
  detector `Covers` its former findings. For the device view, a maximum over more
  findings grows (`MaxGrows`), hence the components of the score and the ladder.
- *Rate limit.* For a key, `Above` and `Below` bound the tokens of its bucket and of the
  copies that checks hold: together with what was granted since any time they are at most
  the burst and the refill (and a token for each overlapping check), and a client whose
  checks did not overlap has no less. `Allows` says of a check at its store that granting
  keeps it. A bucket that is evicted was full (`EvictedSpent`), so a new one gives nothing
  away; this is where `BucketAssumption` is needed.
- *Accounts.* `Counted`: the version of an account that is not being changed twice at once
  is the number of its passwords; `Registered` and `Owned` that requests hold rows that
  exist and organisations have one user.
- *Folds.* The library defines `FoldLeft` and the sums over sets by a `CHOOSE` of a
  function that is recursive on sets, and the models of the feed, the scan and the score are
  built from them. Instead of an induction over the input, each proof looks at one
  input of a known size: that the chosen function exists (`Recursion`, `SumExists`), that
  it takes its positions one after another (`Prefixes`, `Along`), and that a fact carried from
  each prefix to the next holds of the whole, always by the least prefix, or the smallest
  set, for which it would fail (`Least`, `Smaller`). `FlattenSeq` is treated likewise.
- *Evidence.* `EvidenceInv`: a timeline, and the list a recording has made, is sorted by time
  and within its bound; what was `told` is `Covered` (it is there, or `MaxEvents` others
  are and none is older) by the timeline and by every list of its label that is still to be
  stored, and nobody is about to make that label's list anew. `RecordedKeeps` is the heart:
  inserting in order and dropping the oldest keeps both, so no later event, however dated,
  evicts a younger one. There is one lemma per access to the dictionary; `StoreEvidence` is
  where an event comes to be told: the others have not read the list, so they will read this one.
  `ThreatsInv` is the
  argument of `HitsCounted`. For presence, `DurationsPrefixes` follows the sum of the
  sessions along the row: it stays within the time from the first start to the last end
  of sessions that follow one another, the premise of `PresenceAdds`.
- *Range scan.* `Flattened` and `HostsOf` describe what the batches keep after each
  reply: `OnceEach`, and every host was seen by a batch and asked for. The batches cut the
  targets into runs that cover all of them (`BatchIs`), so a target a batch has seen is in
  some prefix and stays (`RangeUnfolds`, `RangeStands`).
- *Trust.* `TotalSums` and `EarnedSums` are the sums over the checks; when one check gets
  worse no term of the earned sum grows and the total of weights stays (`SumGrows`), and
  division and the ceilings are monotone (`Divides`, `CeilingIs`), so `WorseIsLower`.
- *AI tasks.* `AiInv`: a job of a guarded task is allowed when it starts, and what is
  stored, cached or answered has passed the output guard or is the template. `KnownIsSafe`:
  what is answered without the model is of the kind asked for, whatever kinds the rows have.

The hypotheses are those of the modules (`ASSUME`), which runs evaluate, and the ones
named above. `OneAtATime`, `OneSweep` and their likes are satisfied by a server that handles one
such request at a time, and only there do the properties hold: section 19 has what
happens otherwise.

Only model-checked are:

- liveness (`DesktopPaired`, `DesktopReports`, `PhoneReports`, `GoneGoesOffline`,
  `EventuallyCorrelated`, `StopAnswered`, `CaptureEnds`, `AlertsReported`, `EveryDeviceScanned`,
  `FirstAdvisoryFound`): fairness and `ENABLED` are out of the prover's reach;
- `RiskSound`: paths, exposure and betweenness are sums and folds over all simple paths, an asset's
  score depends on its betweenness relative to the others', and `PathsPerTarget`, `TopK` and
  `MaxCandidates` cut paths off, so that no argument short of the search itself would cover
  every graph. It holds of the graphs of `MCServices`;
- `AndroidAgent`, whose properties are all liveness.

## 19. Where code and words part

Two runs show a violation, and `PROJECT.json` has them as findings:
`presence_moved` (`server/app/services/live.py:974` against the comment at 966) and
`scan_wedged` (`server/app/services/autoscan.py:131` against the comment at 125).

The following were met while modelling. The models contain the behaviour; the
properties and runs have the premise, or leave out the case, that the right-hand
column names, so that they state what does hold.

| Code | Against | How the model deals with it |
|---|---|---|
| `api/endpoint.py:253-255`: two overlapping polls both read PAIRED and both answer with the token | "one-time secret release" `:254` | `ReleasedOnce` and the refinement are proved, and the refinement run, for one handler |
| `api/endpoint.py:169`: two submits of one code both see WAITING_FOR_PAIR, two organisations get a row | `models/endpoint.py:60` | as above |
| `api/endpoint.py:156`: the lookup by code has no order, an old demo session may come back | cleanup at `:107` | `AcceptCode` picks any |
| `services/live.py:2122`: a row is looked up by a device id that is global to organisations | `live.py:2111` | `grid` has one owner |
| `storage/state.py:94`: a failing unlink leaves the token for the next start | `agent.py:286` (`--force-pair`) | a fault of `Unauthorised` and `Start` |
| `live.py:808`: two overlapping sweeps each open a current session | `models/live.py:151` | `SessionsSound` is run with one handler and proved for sweeps that do not overlap |
| `autoscan.py:128`, `models/live.py:82`: a scan moves `last_seen`, so a device that left is fresh | `live.py:982-985` | premise of `GoneGoesOffline` |
| `live.py:2149`: a discovery name longer than the column, an error on PostgreSQL only | SQLite in development | not modelled |
| `endpoint_telemetry.py:307`: a slow correlation overwrites the findings of a newer list | docstring of the function | telemetry runs and theorems have one request at a time |
| `vuln_intel/correlator.py:139`: ids are drawn anew, so a triaged finding is open again with the next report | `vuln_intel/models.py:102` ("deterministic") | `TriageIsolated` confines it |
| `endpoint_telemetry.py:321`: the purge is never called | `:22` | left out |
| `vuln_intel/sources/nvd.py:93`: the status read back may be another thread's | `vuln_intel/correlator.py:191` | `FailureNotCleared` is run and proved for one call at a time |
| `vuln_intel/cache.py:86`: the time to live is never read | `vuln_intel/cache.py:18` | `FirstAdvisoryFound` is about first advisories |
| `capture_adapter.py:267`: a capture that fails leaves its session LIVE | `session_manager.py:329` | `SniffFailure` changes no status |
| `session_manager.py:149`: after a restart rows stay LIVE with zero counters | `:281` | `SavedMatches` is about sessions in memory |
| `session_manager.py:173`: a stop that overtakes the start's commit | `api/tracking.py:44` | `Eager` |
| `autoscan.py:109`: a tick under way keeps the permission it has read | `:7` | `WithdrawnByNextTick` |
| `autoscan.py:128`: a device counts as scanned although the scan raised | `:11` | `ScanEnds` |
| `autoscan.py:101`: an index into a changing list may pass over a device for ever | `:2` | premise `Settled` |
| `telegram_alerts.py:64-124`: a message that was delivered without a confirmation is posted again, by httpx or by the next tick | `test_telegram_alerts.py:7`, `:63` | `lost` in `SentOnce` |
| `telegram_alerts.py:36`: what was sent is forgotten with the process | `test_telegram_alerts.py:62` | `SentOnce` is per process |
| `telegram_alerts.py:357`: a finding older than 15 minutes at the start is never sent | `:3` | `assumed` |
| `telegram_alerts.py:368`: two devices of one hostname share a fingerprint | test `:10` | the run has the findings of one device; the theorems have any |
| `telegram_alerts.py:323`: organisations without findings or telemetry are not looked at | `:2` | `known` in `OpenReported` |
| `recompute.py:58`, `api/assets.py`: a request that read before another one committed stores the risk of rows that are gone | — | `late` in `RiskCurrent` |
| `netconfig/integration.py:79`: a resolved weakness is not opened again, unless it was resolved after the analysis had loaded it | the comment there, "a re-detected misconfig re-opens its finding" | exception in `TriageStands` |
| `netconfig/detectors.py:278`: "boundary ok" is given although a declared forward exposes a database port; a known weakness keeps its first severity | comment at `:273` ("a real healthy check") | `ExposureShows` is about links and ports of assets |
| `deepscan/intel_correlate.py:74`: a failing KEV fetch replaces a good catalog by an empty one for its whole lifetime; OSV failures are cached for good | — | `kevFailedAt` in `ExploitedFlagged` |
| `deepscan/cve_lookup.py`: cached answers never expire | — | advisories do not change |
| `vuln_intel/version_matcher.py:133`: with fixes on several branches a version inside an affected range is called fixed | docstring at `:118` | what is called affected must be in a range; the converse is stated of one branch (`OneBranch`) |
| `attack_paths.py:152-166`: a patch makes a path heavier, and one the limits had left out, likelier though heavier, takes its place: the reported exposure rises | — | `FixHelps` bounds it by `FullExposure` |
| `risk_engine.py:231`: centrality is relative to the most central node, so the recommended cut can raise the asset's score | `hardening.py` (`_pct` shows a rise as 0) | excepted in `FixHelps` |
| `hardening.py:154`: the link to firewall is the one of the largest *stored* weight, as of the last recompute, NULL as 0; and a larger weight is a harder link | "strongest inbound lateral link from a risky neighbor" `:150` | `FixHelps` has any stored weights |
| `urltrust/analyzer.py:206`: every host under `.app` is Trusted with full score, unchecked | — | `TrustSound` is about checked sites |
| `urltrust/providers.py:49-51`: two threads that find one entry expired: the second gets a `KeyError`; so does one that moves an entry, or makes room, when others have removed what it found | — | `Raise` |
| `core/deps.py:127`: checks of one client that overlap may be forgotten; a bucket's clock may be later than the check's; eviction walks a dictionary that changes and raises | — | `overlapped`, `lag` in `RateKept`; `EvictionRaises` |
| `accounts.py:85`: two overlapping password changes end at one token version | `core/deps.py:35-38` | `changing` in `AccountsSound` |
| `live.py:1505`: hosts match when one label contains the other as text, for names | "(strict isolation)" | addresses are told apart in `TabsExplained`, names are not |
| `live.py:473`, `:499`, `:1507`: telemetry is kept by the host's label alone, so the tabs and processes of another organisation's, or another subnet's, host with the same private address or name are shown on the row | "(strict isolation)" `:1505` | `TabsExplained` says by a host of which label a tab is explained, not of which organisation |
| `live.py:227-237`: recordings of overlapping syncs and polls read one list, and the last to store loses the others' events; the first recordings of a label can lose each other's by making the list empty; a clear between makes a request fail | — | `told` in `EvidenceKept` |
| `live.py:2204-2208`: clearing one organisation's devices forgets the telemetry, destinations and timelines of all | — | `Forgotten` |
| `schemas/live.py:18`, `live.py:503`: shown tabs may come from the browser's history | "from the extension" | both sources in `TabsExplained` |
| `schemas/live.py`: an absent list in a sync is `[]`, so the tabs are cleared, though `sync_active` keeps them for `None` | `sync_active` | `Payloads` have lists |
| `live.py:189-194`: `observe` stores without consent | docstring there | `Observe` does not look at `consent` |
| `live.py` (`list_devices`): every poll records presence again, so polls push other events out of a timeline | — | `EvidenceKept` counts as recent what polls recorded |
| `live.py`, `_bump_observation`: overlapping observes lose a hit | — | `ThreatsStand` has an upper bound |
| `live.py:1689`: a CVE of the scan hides the endpoint's finding that knows it is exploited | — | `EvidenceRaises` speaks of added findings and verdicts |
| `live.py:1764`: the `is_self` row takes any ONLINE agent of the organisation for its own | "never cross-device" | `Paired` |
| `drishti_watch.py:2165-2190`: one last-visit time for all databases, moved past rows a limit cut off | — | the two reasons of `MissedForAReason` |
| `drishti_watch.py:2076`: without a hardware address a routed network ends the loop with `UnboundLocalError` | — | `crashed` in `Coverage` |
| `live.py:855`: a swept subnet in which nobody answers is not marked; wireless rows are "inventoried" before any sweep; another agent's report overwrites | — | `missed`, `by`, `swept` in `CoverageHonest` |
| `ai/service.py:617`: a path or finding whose own titles hold a marker is refused by the output guard, also in the template | "must always be analyzable" | `Marked` |
| `ai/service.py`: the Android guard looks at the kind that was asked for, not at the kind the model answered, so an endpoint's cached answer may be a script; steps, disclaimers and `block_fix` pass no output guard | — | `DefensiveOnly` is about the texts the guard reads, and about the kind of what is answered from a row |
| `ai/service.py:252-257`: the newest row of another kind hides an older one of the right kind | — | `Known` |
| `android-agent/.../HeartbeatManager.kt:85-88`: a late 401 of an old token wipes the new one, and heartbeats do not resume after a re-pair until the service is toggled | `android-agent/README.md:107` | `StaleAnswered`; `PhoneHeard` counts uploads |
| `SecureStorage.kt`: what `apply()` has not written is lost with the process | — | `disk`, `Flush` |
| `PairingManager.kt:110`: on CONSUMED or 404 the code stays on the screen for ever | — | `Stuck` |
| the notification's Stop leaves `isServiceActive` set | — | `StopFromNotification` |

## 20. What is not modelled

`PROJECT.json` lists every component with its status. Left out for good:

- *Superseded interfaces*: the routers in `server/app/api/v1` import a module
  `app.db.session` that does not exist, and `services/ai/ai_remediate.py` does not
  parse; neither can run.
- *Read services, dashboard, reports, graph layout*: queries without effect on state,
  statistics, coordinates. What the dashboard shows of a device, where evidence of
  several sources meets, is `DeviceView`.
- *Collectors, VPN service, packaging*: they read the operating system or build
  installers; their results are inputs.
- *Traffic classification and machine learning*: numeric features, thresholds, training.
- *Models, schemas, seed*: declarations; constraints and defaults that handlers rely on
  are in the modules of those handlers.
- *Dashboards and the browser extension*: the state is what was last fetched; what the
  extension posts is an input of `WatchAgent`.

Left out of the modelled components are attributes no rule reads (host names,
vendors, traffic bytes), listings, and the wording of messages, prompts and reports;
of the desktop agent its stop path and back-off; of the Android agent its identity and
the contents of a batch; of the correlator the merging of two sources' records and aliases;
of accounts the rotation of an agent token and the expiry of tokens by time.

What would add most next:

1. `LiveFeed` and `Presence` over one grid: rows that move while telemetry is matched to
   them by address.
2. Two organisations in `TelegramAlerts` and `Estate`.
3. For `RiskGraph`, classes of graphs for which the cut-offs provably do not matter.
