-------------------------- MODULE EndpointTelemetry --------------------------
(***************************************************************************)
(* The telemetry store of the server: server/app/services/                 *)
(* endpoint_telemetry.py with the routes that call it (api/endpoint.py,    *)
(* api/findings.py).  Everything is kept in dictionaries guarded by one    *)
(* lock and is lost when the process ends.                                 *)
(*                                                                         *)
(* The vulnerability correlation of a software list runs outside the lock: *)
(* it is read, correlated (seconds of NVD calls) and stored in three       *)
(* steps.  A lookup of a finding that is not cached correlates the whole   *)
(* organisation inside the lock and is one step.                           *)
(*                                                                         *)
(* An item stands for an installed package with a reportable finding.      *)
(* Finding ids are uuid4: each correlation gives every finding a new one,  *)
(* so a triage status filed under the old id is never read again and is    *)
(* kept here with the finding it was given to.                             *)
(***************************************************************************)
EXTENDS Naturals, FiniteSets

CONSTANTS
    Keys,       \* (organisation, device) pairs
    Orgs,       \* organisations
    OrgOf,      \* the organisation of a key
    Items,      \* software with findings
    None,       \* no entry in a dictionary
    Handlers,   \* requests the server can be processing at once
    Failing     \* the keys whose correlation may raise an exception

ASSUME KeyAssumption ==
    OrgOf \in [Keys -> Orgs] /\ None \notin Keys /\ \A S \in SUBSET Items : None # S
ASSUME FailingAssumption == Failing \subseteq Keys

VARIABLES
    store,     \* _DEVICE_TELEMETRY_STORE: the installed_software of each key
    findings,  \* _DEVICE_VULN_FINDINGS: the software found vulnerable ...
    triaged,   \* _ENDPOINT_FINDING_STATUSES: ... and which of it is no longer "open"
    req        \* what each request is doing outside the lock

vars == <<store, findings, triaged, req>>

Software == SUBSET Items
Request  == [step: {"idle", "read", "correlate"}, key: Keys \cup {None}, software: Software]
Free     == [step |-> "idle", key |-> None, software |-> {}]

\* Each dictionary holds what belongs in it, findings only where there is telemetry.
TypeOK ==
    /\ store \in [Keys -> Software \cup {None}]
    /\ findings \in [Keys -> Software \cup {None}]
    /\ triaged \in [Keys -> Software]
    /\ req \in [Handlers -> Request]
    /\ \A k \in Keys : store[k] = None => findings[k] = None

Init ==
    /\ store = [k \in Keys |-> None]
    /\ findings = [k \in Keys |-> None]
    /\ triaged = [k \in Keys |-> {}]
    /\ req = [h \in Handlers |-> Free]

-----------------------------------------------------------------------------
(* POST /endpoint/telemetry *)

Known(k) == IF store[k] = None THEN {} ELSE store[k]

\* installed_software replaces the list, applications replace it when any has
\* a name, and a batch with neither keeps it.
Merged(k, kind, software) ==
    CASE kind = "software" -> software
      [] kind = "applications" /\ software # {} -> software
      [] OTHER -> Known(k)

\* installed_software always leads to a correlation, applications only when
\* the list that results is not empty.
\* Mutant of Correlates: an empty list is not correlated.
CorrelatesNonEmpty(k, kind, software) ==
    kind # "volatile" /\ Merged(k, kind, software) # {}
Correlates(k, kind, software) ==
    \/ kind = "software"
    \/ kind = "applications" /\ Merged(k, kind, software) # {}

RecordTelemetry(h, k, kind, software) ==
    /\ req[h].step = "idle"
    /\ kind = "volatile" => software = {}
    /\ store' = [store EXCEPT ![k] = Merged(k, kind, software)]
    /\ req' = IF Correlates(k, kind, software)
                THEN [req EXCEPT ![h] = [step |-> "read", key |-> k, software |-> {}]]
                ELSE req
    /\ UNCHANGED <<findings, triaged>>

-----------------------------------------------------------------------------
(* correlate_device_software *)

ReadSoftware(h) ==
    LET k == req[h].key IN
    /\ req[h].step = "read"
    /\ req' = [req EXCEPT ![h] = IF store[k] = None THEN Free
                                 ELSE [step |-> "correlate", key |-> k, software |-> store[k]]]
    /\ UNCHANGED <<store, findings, triaged>>

\* Mutants: findings that are cached are kept; the ids of the whole organisation
\* are drawn anew.
StoreFindingsIfAbsent(h) ==
    LET k == req[h].key IN
    /\ req[h].step = "correlate"
    /\ findings' = IF findings[k] = None THEN [findings EXCEPT ![k] = req[h].software] ELSE findings
    /\ req' = [req EXCEPT ![h] = Free]
    /\ UNCHANGED <<store, triaged>>
StoreFindingsReopenOrg(h) ==
    LET k == req[h].key IN
    /\ req[h].step = "correlate"
    /\ findings' = [findings EXCEPT ![k] = req[h].software]
    /\ triaged' = [j \in Keys |-> IF OrgOf[j] = OrgOf[k] THEN {} ELSE triaged[j]]
    /\ req' = [req EXCEPT ![h] = Free]
    /\ UNCHANGED store

\* Every finding of the list is a new one.
StoreFindings(h) ==
    LET k == req[h].key IN
    /\ req[h].step = "correlate"
    /\ findings' = [findings EXCEPT ![k] = req[h].software]
    /\ triaged' = [triaged EXCEPT ![k] = {}]
    /\ req' = [req EXCEPT ![h] = Free]
    /\ UNCHANGED store

\* An exception is logged by record_telemetry; a read answers 500.
CorrelationFails(h) ==
    /\ req[h].step = "correlate" /\ req[h].key \in Failing
    /\ req' = [req EXCEPT ![h] = Free]
    /\ UNCHANGED <<store, findings, triaged>>

\* get_vulnerability_findings_for_device: a read correlates what is not cached.
View(h, k) ==
    /\ req[h].step = "idle" /\ findings[k] = None
    /\ req' = [req EXCEPT ![h] = [step |-> "read", key |-> k, software |-> {}]]
    /\ UNCHANGED <<store, findings, triaged>>

-----------------------------------------------------------------------------
(* GET and PATCH /findings/{id} *)

\* get_endpoint_finding_by_id of an id that is not cached: the devices of the
\* organisation are correlated anew in the hope of finding it, and the fresh ids
\* never match.  A correlation that raises is skipped.
Recorrelated(o) == {k \in Keys : OrgOf[k] = o /\ Known(k) # {}}
LookUpUnknown(o, skipped) ==
    /\ skipped \subseteq Recorrelated(o) \cap Failing
    /\ findings' = [k \in Keys |-> IF k \in Recorrelated(o) \ skipped THEN store[k] ELSE findings[k]]
    /\ triaged' = [k \in Keys |-> IF k \in Recorrelated(o) \ skipped THEN {} ELSE triaged[k]]
    /\ UNCHANGED <<store, req>>

\* update_endpoint_finding_status, "resolved", "ignored" or "open" again.  If a
\* correlation came between the lookup and the update, the status is filed under
\* an id nobody shows any more and this step is a stutter.
Triage(k, i, status) ==
    /\ findings[k] # None /\ i \in findings[k]
    /\ triaged' = [triaged EXCEPT ![k] = IF status = "open" THEN @ \ {i} ELSE @ \cup {i}]
    /\ UNCHANGED <<store, findings, req>>

-----------------------------------------------------------------------------
(* The environment *)

Restart ==
    /\ store' = [k \in Keys |-> None]
    /\ findings' = [k \in Keys |-> None]
    /\ triaged' = [k \in Keys |-> {}]
    /\ req' = [h \in Handlers |-> Free]

Next ==
    \/ \E h \in Handlers, k \in Keys, kind \in {"software", "applications", "volatile"},
          software \in Software : RecordTelemetry(h, k, kind, software)
    \/ \E h \in Handlers : ReadSoftware(h) \/ StoreFindings(h) \/ CorrelationFails(h)
    \/ \E h \in Handlers, k \in Keys : View(h, k)
    \/ \E o \in Orgs, skipped \in SUBSET Failing : LookUpUnknown(o, skipped)
    \/ \E k \in Keys, i \in Items, status \in {"open", "ignored"} : Triage(k, i, status)
    \/ Restart

Spec == Init /\ [][Next]_vars

-----------------------------------------------------------------------------
(* Safety *)

Correlating(k) == \E h \in Handlers : req[h].key = k

\* "Execute vulnerability correlation on a device's genuine installed
\* software": when no correlation of a device is under way, the findings shown
\* for it are those of the software list the server holds, never of an older
\* one. (Where a correlation raises, the older findings stay.)
FindingsCurrent ==
    \A k \in Keys \ Failing : ~Correlating(k) /\ store[k] # None /\ findings[k] # None =>
        findings[k] = store[k]

\* Software is never without a verdict unless a correlation of it is under way.
FindingsComplete ==
    \A k \in Keys \ Failing : ~Correlating(k) /\ Known(k) # {} => findings[k] # None

\* A request that fails part way, or runs into another, still leaves a device
\* with findings only for software that was at some time reported for the same
\* key: a step gives a key the software of its own record or its own request.
OwnFindings ==
    [][\A k \in Keys : findings'[k] \notin {findings[k], None} =>
         \/ findings'[k] = store[k]
         \/ \E h \in Handlers : req[h].key = k /\ req[h].software = findings'[k]]_vars

\* A finding an analyst has dismissed comes back as open only when it is opened
\* again, when its own device is correlated anew, or through a lookup in its own
\* organisation: no report of another device or organisation undoes triage.
TriageIsolated ==
    [][\A k \in Keys : \A i \in triaged[k] \ triaged'[k] :
         findings'[k] # None /\ i \in findings'[k] =>
           \/ Triage(k, i, "open")
           \/ \E h \in Handlers : req[h].key = k /\ StoreFindings(h)
           \/ \E skipped \in SUBSET Failing : LookUpUnknown(OrgOf[k], skipped)]_vars

-----------------------------------------------------------------------------
(* Liveness *)

\* A request that was started is finished, by its own steps.
Fairness == \A h \in Handlers : WF_vars(ReadSoftware(h)) /\ WF_vars(StoreFindings(h))
LiveSpec == Spec /\ Fairness

\* A software list that stays is what the device's findings are about in the end,
\* whatever happens to the correlations of other devices.
EventuallyCorrelated ==
    \A k \in Keys \ Failing, S \in Software \ {{}} :
        <>[](store[k] = S) => <>[](findings[k] = S)

=============================================================================
