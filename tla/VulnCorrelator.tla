---------------------------- MODULE VulnCorrelator ----------------------------
(***************************************************************************)
(* The vulnerability correlator shared by all requests of the server:      *)
(* correlate_target in server/app/services/vuln_intel/correlator.py with   *)
(* its local cache (cache.py) and the NVD source (sources/nvd.py,          *)
(* sources/base.py).                                                       *)
(*                                                                         *)
(* One NVDSource object serves every thread: whether it is available is a  *)
(* field that each lookup writes and then reads back for its own answer.   *)
(* An installed version is fixed per product; which advisories' ranges     *)
(* contain it is the constant Matching.                                    *)
(***************************************************************************)
EXTENDS Naturals, FiniteSets

CONSTANTS
    Products,    \* products that correlations ask about
    Advisories,  \* advisories NVD may publish
    About,       \* the product of an advisory
    Matching,    \* those whose affected ranges contain the installed version
    Exploited,   \* those listed in the KEV catalog
    None,
    Handlers     \* requests that correlate at once

ASSUME AdvisoryAssumption ==
    /\ About \in [Advisories -> Products]
    /\ Matching \subseteq Advisories /\ Exploited \subseteq Advisories

States == {"KNOWN_EXPLOITED", "VULNERABLE", "EXPOSED", "NO_CONFIRMED_VULNERABILITY"}
ASSUME NoneAssumption == None \notin Products /\ None \notin States

VARIABLES
    published,   \* what NVD returns for a product query
    reachable,   \* whether NVD answers
    catalog,     \* whether the KEV catalog has been fetched
    available,   \* NVDSource._available
    records,     \* LocalVulnerabilityCache._records by product
    call,        \* one correlate_target in progress per request
    verdict      \* what each request found last

vars == <<published, reachable, catalog, available, records, call, verdict>>

Steps == {"idle", "lookup", "status", "judge"}
\* fetched: the answer of NVD; answered: whether there was one; failed: what
\* source.status said when the call read it back.
Call == [step: Steps, product: Products \cup {None}, cached: SUBSET Advisories,
         fetched: SUBSET Advisories, answered: BOOLEAN, failed: BOOLEAN]
NoCall == [step |-> "idle", product |-> None, cached |-> {}, fetched |-> {},
           answered |-> FALSE, failed |-> FALSE]

Verdict == [product: Products \cup {None}, found: [Advisories -> States \cup {None}], state: States \cup {None}]
NoVerdict == [product |-> None, found |-> [a \in Advisories |-> None], state |-> None]

TypeOK ==
    /\ published \subseteq Advisories
    /\ {reachable, catalog, available} \subseteq BOOLEAN
    /\ records \in [Products -> SUBSET Advisories]
    /\ call \in [Handlers -> Call]
    /\ verdict \in [Handlers -> Verdict]
    /\ \A p \in Products : \A a \in records[p] : About[a] = p

Init ==
    /\ published = {} /\ reachable \in BOOLEAN /\ catalog = FALSE
    /\ available = TRUE
    /\ records = [p \in Products |-> {}]
    /\ call = [h \in Handlers |-> NoCall]
    /\ verdict = [h \in Handlers |-> NoVerdict]

-----------------------------------------------------------------------------
(* correlate_target *)

\* query_by_product: any record of the product is a hit, whenever it was put.
\* Mutant: an outage is remembered.
BeginOpenBreaker(h, p) ==
    /\ call[h].step = "idle"
    /\ call' = [call EXCEPT ![h] = [NoCall EXCEPT
                  !.step = IF records[p] # {} \/ ~available THEN "judge" ELSE "lookup",
                  !.product = p, !.cached = records[p]]]
    /\ verdict' = [verdict EXCEPT ![h] = NoVerdict]
    /\ UNCHANGED <<published, reachable, catalog, available, records>>
Begin(h, p) ==
    /\ call[h].step = "idle"
    /\ call' = [call EXCEPT ![h] = [NoCall EXCEPT
                  !.step = IF records[p] # {} THEN "judge" ELSE "lookup",
                  !.product = p, !.cached = records[p]]]
    /\ verdict' = [verdict EXCEPT ![h] = NoVerdict]
    /\ UNCHANGED <<published, reachable, catalog, available, records>>

Of(p) == {a \in published : About[a] = p}

\* NVDSource.lookup: the query and mark_success or mark_failure.
LookUp(h) ==
    /\ call[h].step = "lookup"
    /\ available' = reachable
    /\ call' = [call EXCEPT ![h].step = "status",
                            ![h].fetched = IF reachable THEN Of(call[h].product) ELSE {},
                            ![h].answered = reachable]
    /\ UNCHANGED <<published, reachable, catalog, records, verdict>>

\* "return records, self.status", then the records go into the cache.
ReadStatus(h) ==
    /\ call[h].step = "status"
    /\ call' = [call EXCEPT ![h].step = "judge", ![h].failed = ~available]
    /\ records' = [records EXCEPT ![call[h].product] = @ \cup call[h].fetched]
    /\ UNCHANGED <<published, reachable, catalog, available, verdict>>

\* KEV enrichment fetches the catalog once, kev says whether it can; until then
\* nothing is known to be exploited.
Enriched(kev) == catalog \/ kev

\* VersionMatcher.evaluate_vulnerability on every record at hand.
Affecting(c) == (c.cached \cup c.fetched) \cap Matching

\* Mutant: a failed source with no records clears the product.
StateFailedClears(c, known) ==
    IF Affecting(c) # {} THEN "VULNERABLE" ELSE "NO_CONFIRMED_VULNERABILITY"
State(c, known) ==
    IF Affecting(c) # {} THEN IF known /\ Affecting(c) \cap Exploited # {}
                              THEN "KNOWN_EXPLOITED" ELSE "VULNERABLE"
    ELSE IF c.failed /\ c.cached = {} THEN "EXPOSED"
    ELSE "NO_CONFIRMED_VULNERABILITY"

Judge(h, kev) ==
    LET c == call[h] IN
    /\ c.step = "judge"
    /\ catalog' = IF c.cached \cup c.fetched = {} THEN catalog ELSE Enriched(kev)
    /\ verdict' = [verdict EXCEPT ![h] =
                     [product |-> c.product, state |-> State(c, Enriched(kev)),
                      found |-> [a \in Advisories |->
                                   IF a \notin Affecting(c) THEN None
                                   ELSE IF Enriched(kev) /\ a \in Exploited THEN "KNOWN_EXPLOITED"
                                   ELSE "VULNERABLE"]]]
    /\ call' = [call EXCEPT ![h] = NoCall]
    /\ UNCHANGED <<published, reachable, available, records>>

-----------------------------------------------------------------------------
(* The environment *)

Publish(a) ==
    /\ published' = published \cup {a}
    /\ UNCHANGED <<reachable, catalog, available, records, call, verdict>>

Outage ==
    /\ reachable' = ~reachable
    /\ UNCHANGED <<published, catalog, available, records, call, verdict>>

Next ==
    \/ \E h \in Handlers, p \in Products : Begin(h, p)
    \/ \E h \in Handlers : LookUp(h) \/ ReadStatus(h) \/ \E kev \in BOOLEAN : Judge(h, kev)
    \/ \E a \in Advisories : Publish(a)
    \/ Outage

Spec == Init /\ [][Next]_vars

-----------------------------------------------------------------------------
(* Safety *)

\* "Do not convert source failure into no vulnerability": a product is only
\* cleared on an answer of NVD or on records it gave before.
FailureNotCleared ==
    [][\A h \in Handlers :
         verdict'[h].state = "NO_CONFIRMED_VULNERABILITY" /\ verdict[h].state = None
           => call[h].answered \/ call[h].cached # {}]_vars

\* A verdict never blames an advisory that was not published, is about another
\* product or does not match the version.
OnlyMatching ==
    \A h \in Handlers : \A a \in Advisories : verdict[h].found[a] # None =>
        a \in published \cap Matching /\ About[a] = verdict[h].product

-----------------------------------------------------------------------------
(* Liveness *)

\* Devices keep reporting their software, and a call that began is finished.
Fairness ==
    /\ \A p \in Products : SF_vars(\E h \in Handlers : Begin(h, p))
    /\ \A h \in Handlers : WF_vars(LookUp(h)) /\ WF_vars(ReadStatus(h))
                          /\ WF_vars(\E kev \in BOOLEAN : Judge(h, kev))
LiveSpec == Spec /\ Fairness

\* The first advisory on a product is found once NVD can be reached: an answer
\* without records, or an outage, is not remembered, so the next call asks again.
\* (A later advisory may not be: one cached record of a product is a hit for ever.)
FirstAdvisoryFound ==
    \A a \in Matching :
        <>[](reachable /\ Of(About[a]) = {a})
            => <>(\E h \in Handlers : verdict[h].found[a] # None)

=============================================================================
