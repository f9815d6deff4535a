----------------------------- MODULE CveLookup -----------------------------
(***************************************************************************)
(* The CVE lookup of the deep scan: deepscan/cve_lookup.py and             *)
(* deepscan/intel_correlate.py.  Scans of several hosts run in threads of  *)
(* one process and share the module's cache, the memory of an outage and   *)
(* the cached KEV catalog.                                                 *)
(*                                                                         *)
(* A request to a source is a step of its own, and every section under     *)
(* _state_lock is one: a thread decides on what it saw in an earlier       *)
(* section.  Time passes in ticks; the minimum spacing of calls only       *)
(* delays them and is left out.  Advisories do not change.                 *)
(***************************************************************************)
EXTENDS Naturals, Sequences, FiniteSets

CONSTANTS
    Threads,
    Services,      \* detected services: what a cache key tells apart
    Versioned,     \* those with a version
    Identified,    \* those with a CPE or a product name
    WithCpe,       \* those with a CPE of an application that names a product
    Vulners,       \* is VULNERS_KEY set?
    Cves,          \* ids of advisories
    Returned(_),   \* what the source returns when asked about a service
    Mentions(_),   \* advisories whose text names the product and the version
    Scored,        \* advisories with a CVSS metric
    Cvss(_),
    Catalog,       \* CISA's known exploited vulnerabilities
    MaxLookups,    \* _MAX_LOOKUPS
    MaxCves,       \* _MAX_CVES_PER_SERVICE
    FailTTL,       \* _FAIL_TTL_S
    KevTTL,        \* _KEV_TTL_S
    Scans,         \* bound: the service lists scans find
    MaxClock,      \* bound
    None

VARIABLES
    clock,
    cache,      \* _cache: a set of CVEs for a service, None when there is no entry
    failUntil,  \* _fail_until, 0 when no failure is remembered
    kev,        \* _kev_ids, None before the first fetch
    kevAt,      \* _kev_fetched_at
    osv,        \* CVEs OSV has been asked about, and whether it answered
    scan,       \* what each thread's lookup_for_services is at
    kevFailedAt \* history: when a fetch of the catalog last failed, None if never

vars == <<clock, cache, failUntil, kev, kevAt, osv, scan, kevFailedAt>>

\* A scan: its list of services, the places in it still to be looked up, and what
\* became of the services it asked about.
Scan == [pc: {"idle", "lookup", "fetch", "kev", "kevfetch", "osv", "done"}, services: Seq(Services),
         todo: SUBSET Nat, asked: SUBSET Services, failed: SUBSET Services, reached: SUBSET Services,
         cves: SUBSET Cves, exploited: SUBSET Cves, aliased: SUBSET Cves, available: BOOLEAN, excused: BOOLEAN]
Idle == [pc |-> "idle", services |-> <<>>, todo |-> {}, asked |-> {}, failed |-> {}, reached |-> {}, cves |-> {},
         exploited |-> {}, aliased |-> {}, available |-> FALSE, excused |-> FALSE]

Init ==
    /\ clock = 1
    /\ cache = [s \in Services |-> None]
    /\ failUntil = 0
    /\ kev = None /\ kevAt = 0 /\ kevFailedAt = 0
    /\ osv = [c \in Cves |-> None]
    /\ scan = [t \in Threads |-> Idle]

(***************************************************************************)
(* parse_nvd and parse_vulners: the worst scored advisories of the reply,  *)
(* on the keyword path only those that name product and version.           *)
(***************************************************************************)
Worst(cs) == {c \in cs : Cardinality({d \in cs : Cvss(d) > Cvss(c)}) < MaxCves}
Evidenced(s) == IF Vulners \/ s \in WithCpe THEN Returned(s) ELSE Returned(s) \cap Mentions(s)
Parsed(s) == Worst(Evidenced(s) \cap Scored)

Results == SUBSET Cves
LookupAssumption ==
    /\ Scans \subseteq Seq(Services) /\ Catalog \subseteq Cves /\ \A s \in Services : Returned(s) \subseteq Cves
    /\ FailTTL \in Nat /\ KevTTL \in Nat /\ \A cs \in Results : cs # None

LookupTypeOK ==
    /\ cache \in [Services -> Results \cup {None}] /\ kev \in Results \cup {None}
    /\ {clock, failUntil, kevAt, kevFailedAt} \subseteq Nat
    /\ scan \in [Threads -> Scan] /\ \A t \in Threads : scan[t].todo \subseteq DOMAIN scan[t].services

\* lookup_for_services: the first services with a version and a CPE or a product, by
\* their places in the list.
Candidates(services) ==
    LET fit == {i \in DOMAIN services : services[i] \in Versioned \cap Identified}
    IN {i \in fit : Cardinality({j \in fit : j < i}) < MaxLookups}

Begin(t, services) ==
    /\ scan[t].pc \in {"idle", "done"}
    /\ LET todo == Candidates(services)
       IN scan' = [scan EXCEPT ![t] =
              [Idle EXCEPT !.pc = IF todo = {} THEN "done" ELSE "lookup", !.services = services, !.todo = todo,
                           !.asked = {services[i] : i \in todo}, !.available = todo = {}]]
    /\ UNCHANGED <<clock, cache, failUntil, kev, kevAt, osv, kevFailedAt>>

\* The thread goes on with the next service, its answer for this one known: a
\* set of CVEs, or None when the source could not be reached.
First(w) == CHOOSE i \in w.todo : \A j \in w.todo : i <= j
Service(w) == w.services[First(w)]
Answered(w, cves) ==
    IF cves = None
    THEN [w EXCEPT !.pc = "lookup", !.todo = @ \ {First(w)}, !.failed = @ \cup {Service(w)}]
    ELSE [w EXCEPT !.pc = "lookup", !.todo = @ \ {First(w)}, !.reached = @ \cup {Service(w)}, !.cves = @ \cup cves]

\* _lookup_one up to the request: a cached answer, a remembered outage, or ask.
Remembered(s) == IF cache[s] # None THEN cache[s] ELSE None
ShortCircuit(s) == cache[s] = None /\ failUntil # 0 /\ clock < failUntil

Lookup(t) ==
    /\ scan[t].pc = "lookup" /\ scan[t].todo # {}
    /\ LET s == Service(scan[t])
       IN scan' = [scan EXCEPT ![t] =
              IF Remembered(s) # None \/ ShortCircuit(s) THEN Answered(@, Remembered(s))
              ELSE [@ EXCEPT !.pc = "fetch"]]
    /\ UNCHANGED <<clock, cache, failUntil, kev, kevAt, osv, kevFailedAt>>

\* The request, and what is remembered of its outcome.
\* Mutant: the answer of a request that failed is cached like any other.
StoreFailure(s, up) == [cache EXCEPT ![s] = IF up THEN Parsed(s) ELSE {}]
Store(s, up) == IF up THEN [cache EXCEPT ![s] = Parsed(s)] ELSE cache

Fetch(t, up) ==
    /\ scan[t].pc = "fetch"
    /\ LET s == Service(scan[t])
       IN /\ cache' = Store(s, up)
          /\ scan' = [scan EXCEPT ![t] = Answered(@, IF up THEN Parsed(s) ELSE None)]
    /\ failUntil' = IF up THEN 0 ELSE clock + FailTTL
    /\ UNCHANGED <<clock, kev, kevAt, osv, kevFailedAt>>

\* No service is left.  Without a single answer the lookup is unavailable;
\* without CVEs there is nothing to enrich.
Finish(t) ==
    /\ scan[t].pc = "lookup" /\ scan[t].todo = {}
    /\ scan' = [scan EXCEPT ![t] = [@ EXCEPT !.available = scan[t].reached # {},
                                              !.pc = IF scan[t].cves = {} THEN "done" ELSE "kev"]]
    /\ UNCHANGED <<clock, cache, failUntil, kev, kevAt, osv, kevFailedAt>>

(***************************************************************************)
(* enrich: the catalog is cached for KevTTL, the empty set of a failed     *)
(* fetch like any other; OSV's records are cached for good.                *)
(***************************************************************************)
KevFresh == kev # None /\ clock - kevAt < KevTTL
FailedLately == kevFailedAt # 0 /\ clock - kevFailedAt < KevTTL

Flagged(w, ids, excuse) == [w EXCEPT !.pc = "osv", !.exploited = w.cves \cap ids, !.excused = excuse]

KevCached(t) ==
    /\ scan[t].pc = "kev"
    /\ scan' = [scan EXCEPT ![t] = IF KevFresh THEN Flagged(@, kev, FailedLately) ELSE [@ EXCEPT !.pc = "kevfetch"]]
    /\ UNCHANGED <<clock, cache, failUntil, kev, kevAt, osv, kevFailedAt>>

Fetched(up) == IF up THEN Catalog ELSE {}
KevFetch(t, up) ==
    /\ scan[t].pc = "kevfetch"
    /\ kev' = Fetched(up) /\ kevAt' = clock
    /\ kevFailedAt' = IF up THEN kevFailedAt ELSE clock
    /\ scan' = [scan EXCEPT ![t] = Flagged(@, Fetched(up), FailedLately \/ ~up)]
    /\ UNCHANGED <<clock, cache, failUntil, osv>>

Osv(t, up) ==
    /\ scan[t].pc = "osv"
    /\ osv' = [c \in Cves |-> IF c \in scan[t].cves /\ osv[c] = None THEN up ELSE osv[c]]
    /\ scan' = [scan EXCEPT ![t] = [@ EXCEPT !.pc = "done", !.aliased = {c \in scan[t].cves : osv'[c] = TRUE}]]
    /\ UNCHANGED <<clock, cache, failUntil, kev, kevAt, kevFailedAt>>

Tick ==
    /\ clock < MaxClock
    /\ clock' = clock + 1
    /\ UNCHANGED <<cache, failUntil, kev, kevAt, osv, scan, kevFailedAt>>

Next ==
    \/ \E t \in Threads :
          \/ \E services \in Scans : Begin(t, services)
          \/ Lookup(t)
          \/ \E up \in BOOLEAN : Fetch(t, up) \/ KevFetch(t, up) \/ Osv(t, up)
          \/ Finish(t)
          \/ KevCached(t)
    \/ Tick

Spec == Init /\ [][Next]_vars

-----------------------------------------------------------------------------
\* A result names every advisory that is evidence against a service the source
\* (or the cache) answered for, and only those; it says "unavailable" exactly
\* when services were asked about and none was answered: an outage, of this
\* thread or remembered from another, never passes for a clean service.
OutageTold ==
    \A t \in Threads : scan[t].pc = "done" =>
        /\ scan[t].cves = UNION {Parsed(s) : s \in scan[t].reached}
        /\ scan[t].asked = scan[t].reached \cup scan[t].failed
        /\ scan[t].available <=> (scan[t].asked = {} \/ scan[t].reached # {})

\* A CVE of CISA's catalog is reported as not exploited only within KevTTL of a
\* fetch of the catalog that failed.
ExploitedFlagged ==
    \A t \in Threads : scan[t].pc \in {"osv", "done"} =>
        /\ scan[t].exploited \subseteq Catalog
        /\ scan[t].cves \cap Catalog # scan[t].exploited => scan[t].excused
=============================================================================
