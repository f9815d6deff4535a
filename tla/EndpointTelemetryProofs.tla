----------------------- MODULE EndpointTelemetryProofs -----------------------
(***************************************************************************)
(* What holds of EndpointTelemetry for every number of organisations,      *)
(* devices and software items.                                             *)
(***************************************************************************)
EXTENDS EndpointTelemetry, TLAPS

\* A merge of a legal list into a legal store is a legal list.
LEMMA MergedType ==
    ASSUME TypeOK, NEW k \in Keys, NEW kind, NEW software \in Software
    PROVE  Merged(k, kind, software) \in Software /\ Known(k) \in Software
BY DEF TypeOK, Merged, Known, Software

\* A request knows its device exactly while it is doing something outside the
\* lock, and what it correlates is software of a device that has telemetry.
KeyKnown ==
    \A h \in Handlers :
        /\ req[h].step = "idle" <=> req[h].key = None
        /\ req[h].step = "correlate" => store[req[h].key] # None

TypeInv == TypeOK /\ KeyKnown

LEMMA TypeInit == Init => TypeInv
BY KeyAssumption DEF Init, TypeInv, TypeOK, KeyKnown, Free, Request, Software

LEMMA TypeStep == TypeInv /\ [Next]_vars => TypeInv'
<1> SUFFICES ASSUME TypeInv, [Next]_vars PROVE TypeInv'
  OBVIOUS
<1> USE KeyAssumption DEF TypeInv, TypeOK, KeyKnown
<1>1. ASSUME NEW h \in Handlers, NEW k \in Keys, NEW kind, NEW software \in Software,
             RecordTelemetry(h, k, kind, software)
      PROVE TypeInv'
  <2>1. Merged(k, kind, software) \in Software
    BY MergedType
  <2>2. [step |-> "read", key |-> k, software |-> {}] \in Request
    BY DEF Request, Software
  <2>3. store' \in [Keys -> Software \cup {None}]
    BY <1>1, <2>1 DEF RecordTelemetry
  <2>5. req' \in [Handlers -> Request]
    BY <1>1, <2>2 DEF RecordTelemetry
  <2>6. \A j \in Keys : store'[j] = None => store[j] = None
    BY <1>1, <2>1 DEF RecordTelemetry, Software
  <2>7. \A g \in Handlers : req'[g].step = "correlate" => req'[g] = req[g] /\ req[g].key \in Keys
    BY <1>1 DEF RecordTelemetry, Request
  <2>8. \A g \in Handlers : req'[g].step = "idle" <=> req'[g].key = None
    BY <1>1 DEF RecordTelemetry
  <2>9. KeyKnown'
    BY <2>6, <2>7, <2>8
  <2> QED
    BY <1>1, <2>3, <2>5, <2>6, <2>9 DEF RecordTelemetry
<1>2. ASSUME NEW h \in Handlers, ReadSoftware(h) PROVE TypeInv'
  <2>1. req[h].key \in Keys
    BY <1>2 DEF ReadSoftware, Request
  <2> QED
    BY <1>2, <2>1 DEF ReadSoftware, Request, Free, Software
<1>3. ASSUME NEW h \in Handlers, StoreFindings(h) PROVE TypeInv'
  BY <1>3 DEF StoreFindings, Request, Free, Software
<1>4. ASSUME NEW h \in Handlers, CorrelationFails(h) PROVE TypeInv'
  BY <1>4 DEF CorrelationFails, Request, Free, Software
<1>5. ASSUME NEW h \in Handlers, NEW k \in Keys, View(h, k) PROVE TypeInv'
  BY <1>5 DEF View, Request, Software
<1>6. ASSUME NEW o \in Orgs, NEW skipped \in SUBSET Failing, LookUpUnknown(o, skipped)
      PROVE TypeInv'
  BY <1>6 DEF LookUpUnknown, Recorrelated, Known, Software
<1>7. ASSUME NEW k \in Keys, NEW i \in Items, NEW status, Triage(k, i, status)
      PROVE TypeInv'
  BY <1>7 DEF Triage, Software
<1>8. CASE Restart
  BY <1>8 DEF Restart, Free, Request, Software
<1>9. CASE UNCHANGED vars
  BY <1>9 DEF vars
<1> QED
  BY <1>1, <1>2, <1>3, <1>4, <1>5, <1>6, <1>7, <1>8, <1>9 DEF Next

\* Every variable stays in its type whatever requests overlap or fail.
THEOREM TypeCorrect == Spec => []TypeOK
<1>1. TypeInv => TypeOK
  BY DEF TypeInv
<1> QED
  BY <1>1, TypeInit, TypeStep, PTL DEF Spec

-----------------------------------------------------------------------------

\* A list being correlated is still the one the server holds: what makes
\* FindingsCurrent inductive, and what a second request takes away.
Faithful ==
    \A h \in Handlers : req[h].step = "correlate" => req[h].software = store[req[h].key]

SerialInv == TypeInv /\ Faithful /\ FindingsCurrent /\ FindingsComplete

LEMMA SerialInit == Init => SerialInv
BY TypeInit DEF Init, SerialInv, Faithful, FindingsCurrent, FindingsComplete, Known, Free

LEMMA SerialStep ==
    ASSUME \A g, h \in Handlers : g = h
    PROVE  SerialInv /\ [Next]_vars => SerialInv'
<1> SUFFICES ASSUME SerialInv, [Next]_vars PROVE SerialInv'
  OBVIOUS
<1>0. TypeInv'
  BY TypeStep DEF SerialInv
<1> USE KeyAssumption DEF SerialInv, TypeInv, TypeOK, KeyKnown
<1>1. ASSUME NEW h \in Handlers, NEW k \in Keys, NEW kind \in {"software", "applications", "volatile"},
             NEW software \in Software, RecordTelemetry(h, k, kind, software)
      PROVE SerialInv'
  <2>1. Merged(k, kind, software) \in Software
    BY MergedType
  <2>2. \A j \in Keys \ {k} : store'[j] = store[j] /\ findings'[j] = findings[j] /\ ~Correlating(j)
    BY <1>1 DEF RecordTelemetry, Correlating
  <2>3. CASE Correlates(k, kind, software)
    <3>1. Correlating(k)'
      BY <1>1, <2>3 DEF RecordTelemetry, Correlating
    <3> QED
      BY <1>0, <1>1, <2>1, <2>2, <2>3, <3>1
      DEF RecordTelemetry, Faithful, FindingsCurrent, FindingsComplete, Known, Correlating, Software
  <2>4. CASE ~Correlates(k, kind, software)
    <3>1. Merged(k, kind, software) = Known(k)
      BY <2>4 DEF Correlates, Merged, Known
    <3>2. store'[k] = Known(k) /\ findings' = findings /\ req' = req /\ Known(k) # None
      BY <1>1, <2>1, <2>4, <3>1 DEF RecordTelemetry, Software
    <3>3. ~Correlating(k)
      BY <1>1 DEF RecordTelemetry, Correlating
    <3>4. store[k] = None => findings[k] = None
      BY DEF Faithful
    <3>5. Faithful'
      BY <1>1, <2>2, <3>2 DEF RecordTelemetry, Faithful
    <3> QED
      BY <1>0, <1>1, <2>2, <3>2, <3>3, <3>4, <3>5
      DEF FindingsCurrent, FindingsComplete, Known, Correlating
  <2> QED
    BY <2>3, <2>4
<1>2. ASSUME NEW h \in Handlers, ReadSoftware(h) PROVE SerialInv'
  <2>1. req[h].key \in Keys
    BY <1>2 DEF ReadSoftware, Request
  <2>2. CASE store[req[h].key] = None
    BY <1>0, <1>2, <2>1, <2>2
    DEF ReadSoftware, Faithful, FindingsCurrent, FindingsComplete, Known, Correlating, Free
  <2>3. CASE store[req[h].key] # None
    <3>1. \A k \in Keys : Correlating(k)' <=> Correlating(k)
      BY <1>2, <2>1, <2>3 DEF ReadSoftware, Correlating
    <3> QED
      BY <1>0, <1>2, <2>1, <2>3, <3>1
      DEF ReadSoftware, Faithful, FindingsCurrent, FindingsComplete, Known
  <2> QED
    BY <2>2, <2>3
<1>3. ASSUME NEW h \in Handlers, StoreFindings(h) PROVE SerialInv'
  <2>1. req[h].key \in Keys /\ req[h].software = store[req[h].key] /\ store[req[h].key] # None
    BY <1>3 DEF StoreFindings, Request, Faithful
  <2>2. \A k \in Keys \ {req[h].key} : findings'[k] = findings[k] /\ ~Correlating(k)
    BY <1>3 DEF StoreFindings, Correlating
  <2>3. findings'[req[h].key] = store[req[h].key]
    BY <1>3, <2>1 DEF StoreFindings
  <2> QED
    BY <1>0, <1>3, <2>1, <2>2, <2>3
    DEF StoreFindings, Faithful, FindingsCurrent, FindingsComplete, Known, Free
<1>4. ASSUME NEW h \in Handlers, CorrelationFails(h) PROVE SerialInv'
  <2>1. \A k \in Keys \ Failing : ~Correlating(k)
    BY <1>4 DEF CorrelationFails, Correlating
  <2> QED
    BY <1>0, <1>4, <2>1
    DEF CorrelationFails, Faithful, FindingsCurrent, FindingsComplete, Known, Free
<1>5. ASSUME NEW h \in Handlers, NEW k \in Keys, View(h, k) PROVE SerialInv'
  <2>1. Correlating(k)'
    BY <1>5 DEF View, Correlating
  <2>2. \A j \in Keys : ~Correlating(j)
    BY <1>5 DEF View, Correlating
  <2> QED
    BY <1>0, <1>5, <2>1, <2>2
    DEF View, Faithful, FindingsCurrent, FindingsComplete, Known
<1>6. ASSUME NEW o \in Orgs, NEW skipped \in SUBSET Failing, LookUpUnknown(o, skipped)
      PROVE SerialInv'
  <2>1. \A k \in Keys : findings'[k] = findings[k] \/ findings'[k] = store[k]
    BY <1>6 DEF LookUpUnknown
  <2>2. \A k \in Keys : findings'[k] # findings[k] => store[k] # None
    BY <1>6 DEF LookUpUnknown, Recorrelated, Known
  <2>3. \A k \in Keys : Correlating(k)' <=> Correlating(k)
    BY <1>6 DEF LookUpUnknown, Correlating
  <2> QED
    BY <1>0, <1>6, <2>1, <2>2, <2>3
    DEF LookUpUnknown, Faithful, FindingsCurrent, FindingsComplete, Known
<1>7. ASSUME NEW k \in Keys, NEW i \in Items, NEW status, Triage(k, i, status)
      PROVE SerialInv'
  BY <1>0, <1>7 DEF Triage, Faithful, FindingsCurrent, FindingsComplete, Known, Correlating
<1>8. CASE Restart
  BY <1>0, <1>8 DEF Restart, Free, Faithful, FindingsCurrent, FindingsComplete, Known
<1>9. CASE UNCHANGED vars
  BY <1>0, <1>9 DEF vars, Faithful, FindingsCurrent, FindingsComplete, Known, Correlating
<1> QED
  BY <1>1, <1>2, <1>3, <1>4, <1>5, <1>6, <1>7, <1>8, <1>9 DEF Next

\* While requests are processed one at a time, the findings shown for a device
\* whose correlation does not raise are those of the software list the server holds.
THEOREM SerialFindingsCurrent ==
    ASSUME \A g, h \in Handlers : g = h
    PROVE  Spec => []FindingsCurrent
<1>1. SerialInv /\ [Next]_vars => SerialInv'
  BY SerialStep
<1>2. SerialInv => FindingsCurrent
  BY DEF SerialInv
<1> QED
  BY <1>1, <1>2, SerialInit, PTL DEF Spec

\* Under the same conditions no list is left without findings.
THEOREM SerialFindingsComplete ==
    ASSUME \A g, h \in Handlers : g = h
    PROVE  Spec => []FindingsComplete
<1>1. SerialInv /\ [Next]_vars => SerialInv'
  BY SerialStep
<1>2. SerialInv => FindingsComplete
  BY DEF SerialInv
<1> QED
  BY <1>1, <1>2, SerialInit, PTL DEF Spec

-----------------------------------------------------------------------------

\* Even when requests overlap, fail part way or are looked up meanwhile, a
\* device is only given findings of its own record or of a request made for it.
THEOREM FindingsAreOwn == Spec => OwnFindings
<1>1. TypeInv /\ [Next]_vars =>
        [\A k \in Keys : findings'[k] \notin {findings[k], None} =>
           \/ findings'[k] = store[k]
           \/ \E h \in Handlers : req[h].key = k /\ req[h].software = findings'[k]]_vars
  <2> SUFFICES ASSUME TypeInv, Next, NEW k \in Keys, findings'[k] \notin {findings[k], None}
               PROVE \/ findings'[k] = store[k]
                     \/ \E h \in Handlers : req[h].key = k /\ req[h].software = findings'[k]
    BY DEF vars
  <2>1. ASSUME NEW h \in Handlers, StoreFindings(h)
        PROVE req[h].key = k /\ req[h].software = findings'[k]
    BY <2>1 DEF StoreFindings, TypeInv, TypeOK
  <2>2. ASSUME NEW o \in Orgs, NEW skipped \in SUBSET Failing, LookUpUnknown(o, skipped)
        PROVE findings'[k] = store[k]
    BY <2>2 DEF LookUpUnknown
  <2>3. ASSUME Restart PROVE FALSE
    BY <2>3 DEF Restart
  <2> QED
    BY <2>1, <2>2, <2>3
    DEF Next, RecordTelemetry, ReadSoftware, CorrelationFails, View, Triage
<1> QED
  BY <1>1, TypeInit, TypeStep, PTL DEF Spec, OwnFindings

-----------------------------------------------------------------------------

\* However requests overlap, what an analyst has dismissed comes back as open only
\* through the analyst, a correlation of its own device, or a lookup of an unknown
\* finding in its own organisation.
THEOREM TriageStaysLocal == Spec => TriageIsolated
<1>1. TypeInv /\ [Next]_vars =>
        [\A k \in Keys : \A i \in triaged[k] \ triaged'[k] :
           findings'[k] # None /\ i \in findings'[k] =>
             \/ Triage(k, i, "open")
             \/ \E h \in Handlers : req[h].key = k /\ StoreFindings(h)
             \/ \E skipped \in SUBSET Failing : LookUpUnknown(OrgOf[k], skipped)]_vars
  <2> SUFFICES ASSUME TypeInv, Next, NEW k \in Keys, NEW i \in triaged[k] \ triaged'[k],
                      findings'[k] # None, i \in findings'[k]
               PROVE  \/ Triage(k, i, "open")
                      \/ \E h \in Handlers : req[h].key = k /\ StoreFindings(h)
                      \/ \E skipped \in SUBSET Failing : LookUpUnknown(OrgOf[k], skipped)
    BY DEF vars
  <2>1. ASSUME NEW h \in Handlers, StoreFindings(h) PROVE req[h].key = k
    BY <2>1 DEF StoreFindings, TypeInv, TypeOK
  <2>2. ASSUME NEW o \in Orgs, NEW skipped \in SUBSET Failing, LookUpUnknown(o, skipped)
        PROVE  o = OrgOf[k]
    BY <2>2 DEF LookUpUnknown, Recorrelated
  <2>3. ASSUME NEW j \in Keys, NEW x \in Items, NEW status \in {"open", "ignored"}, Triage(j, x, status)
        PROVE  Triage(k, i, "open")
    <3>1. j = k /\ x = i
      BY <2>3 DEF Triage, TypeInv, TypeOK
    <3>2. status = "open"
      BY <2>3, <3>1 DEF Triage, TypeInv, TypeOK
    <3> QED BY <2>3, <3>1, <3>2
  <2>4. ASSUME Restart PROVE FALSE
    BY <2>4 DEF Restart
  <2> QED
    BY <2>1, <2>2, <2>3, <2>4 DEF Next, RecordTelemetry, ReadSoftware, CorrelationFails, View
<1> QED
  BY <1>1, TypeInit, TypeStep, PTL DEF Spec, TriageIsolated

=============================================================================
