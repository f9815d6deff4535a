---------------------------- MODULE ServicesProofs ----------------------------
(***************************************************************************)
(* What holds of Services for all values of its constants: its sources and *)
(* rounds, its limits and accounts (its functions, AI tasks, live feed and *)
(* probes are AnswersProofs').  A step is one of the part the behaviour is *)
(* about, so that an invariant of a part is one of its own behaviours.     *)
(***************************************************************************)
EXTENDS Services, FiniteSetTheorems, SequenceTheorems, WellFoundedInduction, TLAPS

-----------------------------------------------------------------------------
(* Which part takes a step. *)

LEMMA PartSteps ==
  ASSUME [ServicesNext]_allVars
  PROVE  /\ subject' = subject
         /\ subject = "lookup" => [Lookup!Next]_(Lookup!vars)
         /\ subject = "memo" => [Memo!Next]_(Memo!vars)
         /\ subject = "sweep" => [Sweep!Next]_(Sweep!vars)
         /\ subject = "limit" => [Bucket!BucketNext]_(Bucket!bucketVars)
         /\ subject = "accounts" => [Account!AccountsNext]_(Account!accountVars)
<1> USE DEF Lookup!vars, Memo!vars, Sweep!vars, Bucket!bucketVars, Account!accountVars
<1>1. CASE UNCHANGED allVars
  BY <1>1 DEF allVars, lookupVars, memoVars, restVars, sweepVars, limitVars, accountVars
<1>2. CASE ServicesNext
  BY <1>2 DEF ServicesNext, Correlating, LookingUp, Memoizing, Feeding, Sweeping, Working, Limiting, SigningIn
<1> QED BY <1>1, <1>2

-----------------------------------------------------------------------------
(* VulnCorrelator, for every number of products, advisories and, but for   *)
(* the last theorem, of concurrent correlations.                           *)

\* A call knows its product from its first step to its verdict, and everything
\* it has in hand was published for that product.
InHand ==
    \A h \in Handlers :
        /\ call[h].step # "idle" => call[h].product \in Products
        /\ \A a \in call[h].cached \cup call[h].fetched :
             a \in published /\ About[a] = call[h].product
CachePublished == \A p \in Products : records[p] \subseteq published

Inv == TypeOK /\ InHand /\ CachePublished /\ OnlyMatching

LEMMA InvInit == Init => Inv
<1> SUFFICES ASSUME Init PROVE Inv
  OBVIOUS
<1>1. NoCall \in Call /\ NoVerdict \in Verdict
  BY DEF NoCall, Call, Steps, NoVerdict, Verdict
<1>2. TypeOK
  BY <1>1 DEF Init, TypeOK
<1>3. InHand /\ CachePublished
  BY DEF Init, InHand, CachePublished, NoCall
<1>4. OnlyMatching
  BY DEF Init, OnlyMatching, NoVerdict
<1> QED
  BY <1>2, <1>3, <1>4 DEF Inv

LEMMA InvStep == Inv /\ [Next]_vars => Inv'
<1> SUFFICES ASSUME Inv, [Next]_vars PROVE Inv'
  OBVIOUS
<1> USE AdvisoryAssumption, NoneAssumption DEF Inv
<1>1. ASSUME NEW h \in Handlers, NEW p \in Products, Begin(h, p) PROVE Inv'
  <2> DEFINE new == [NoCall EXCEPT !.step = IF records[p] # {} THEN "judge" ELSE "lookup",
                                   !.product = p, !.cached = records[p]]
  <2>a. new.product = p /\ new.cached = records[p] /\ new.fetched = {} /\ new \in Call
    BY DEF NoCall, Call, Steps, TypeOK
  <2>b. call' = [call EXCEPT ![h] = new] /\ verdict' = [verdict EXCEPT ![h] = NoVerdict]
    BY <1>1 DEF Begin
  <2>c. NoVerdict \in Verdict
    BY DEF NoVerdict, Verdict
  <2> HIDE DEF new
  <2>1. TypeOK'
    BY <1>1, <2>a, <2>b, <2>c DEF Begin, TypeOK
  <2>2. InHand'
    <3>1. call'[h] = new /\ published' = published /\ \A g \in Handlers \ {h} : call'[g] = call[g]
      BY <1>1, <2>b DEF Begin, TypeOK
    <3>2. \A a \in new.cached \cup new.fetched : a \in published /\ About[a] = new.product
      BY <2>a DEF TypeOK, CachePublished
    <3> QED
      BY <2>a, <3>1, <3>2 DEF InHand
  <2>3. OnlyMatching' /\ CachePublished'
    BY <1>1 DEF Begin, OnlyMatching, CachePublished, NoVerdict, TypeOK
  <2> QED
    BY <2>1, <2>2, <2>3
<1>2. ASSUME NEW h \in Handlers, LookUp(h) PROVE Inv'
  <2>1. TypeOK'
    <3>1. available' \in BOOLEAN
      BY <1>2 DEF LookUp, TypeOK
    <3>2. Of(call[h].product) \subseteq Advisories
      BY DEF Of, TypeOK
    <3>3. reachable \in BOOLEAN /\ call[h] \in Call
      BY DEF TypeOK
    <3>4. [call[h] EXCEPT !.step = "status",
                          !.fetched = IF reachable THEN Of(call[h].product) ELSE {},
                          !.answered = reachable] \in Call
      BY <3>2, <3>3 DEF Call, Steps
    <3>5. call' \in [Handlers -> Call]
      BY <1>2, <3>4 DEF LookUp, TypeOK
    <3> QED
      BY <1>2, <3>1, <3>5 DEF LookUp, TypeOK
  <2>2. InHand'
    <3>1. published' = published /\ \A g \in Handlers \ {h} : call'[g] = call[g]
      BY <1>2 DEF LookUp, TypeOK
    <3>2. call[h] \in Call
      BY DEF TypeOK
    <3>3. /\ call'[h].product = call[h].product /\ call'[h].cached = call[h].cached
          /\ call'[h].fetched \subseteq Of(call[h].product)
          /\ call[h].step # "idle"
      BY <1>2, <3>2 DEF LookUp, TypeOK, Call
    <3> QED
      BY <3>1, <3>3 DEF InHand, Of
  <2> QED
    BY <1>2, <2>1, <2>2 DEF LookUp, OnlyMatching, CachePublished
<1>3. ASSUME NEW h \in Handlers, ReadStatus(h) PROVE Inv'
  <2>1. call[h].product \in Products
    BY <1>3 DEF ReadStatus, InHand
  <2>2. \A a \in call[h].fetched : a \in published /\ About[a] = call[h].product
    BY DEF InHand
  <2>3. TypeOK'
    <3>1. available \in BOOLEAN /\ call[h] \in Call
      BY DEF TypeOK
    <3>2. [call[h] EXCEPT !.step = "judge", !.failed = ~available] \in Call
      BY <3>1 DEF Call, Steps
    <3>3. call' \in [Handlers -> Call]
      BY <1>3, <3>2 DEF ReadStatus, TypeOK
    <3>4. call[h].fetched \subseteq Advisories
      BY <3>1 DEF Call
    <3>5. /\ records' \in [Products -> SUBSET Advisories]
          /\ \A p \in Products : \A a \in records'[p] : About[a] = p
      BY <1>3, <2>1, <2>2, <3>4 DEF ReadStatus, TypeOK
    <3> QED
      BY <1>3, <3>3, <3>5 DEF ReadStatus, TypeOK
  <2>4. InHand'
    BY <1>3 DEF ReadStatus, TypeOK, InHand, Call
  <2>5. CachePublished'
    BY <1>3, <2>1, <2>2 DEF ReadStatus, TypeOK, CachePublished
  <2> QED
    BY <1>3, <2>3, <2>4, <2>5 DEF ReadStatus, OnlyMatching
<1>4. ASSUME NEW h \in Handlers, NEW known \in BOOLEAN, Judge(h, known) PROVE Inv'
  <2>1. call[h].product \in Products
    BY <1>4 DEF Judge, InHand
  <2>2. State(call[h], Enriched(known)) \in States
    BY DEF State, States
  <2>3. Affecting(call[h]) \subseteq Advisories
    BY DEF Affecting
  <2>4. verdict'[h] \in Verdict
    BY <1>4, <2>1, <2>2 DEF Judge, TypeOK, Verdict, States
  <2>5. TypeOK'
    <3>1. catalog' \in BOOLEAN
      BY <1>4 DEF Judge, Enriched, TypeOK
    <3>2. verdict' \in [Handlers -> Verdict]
      BY <1>4, <2>4 DEF Judge, TypeOK
    <3> QED
      BY <1>4, <3>1, <3>2 DEF Judge, TypeOK, NoCall, Call, Steps
  <2>6. InHand'
    BY <1>4 DEF Judge, TypeOK, InHand, NoCall, Call
  <2>7. OnlyMatching'
    <3>1. \A a \in Affecting(call[h]) : a \in published \cap Matching /\ About[a] = call[h].product
      BY DEF Affecting, InHand
    <3>2. verdict'[h].product = call[h].product
      BY <1>4 DEF Judge, TypeOK
    <3>3. \A a \in Advisories : verdict'[h].found[a] # None => a \in Affecting(call[h])
      BY <1>4 DEF Judge, TypeOK
    <3> QED
      BY <1>4, <3>1, <3>2, <3>3 DEF Judge, OnlyMatching, TypeOK
  <2> QED
    BY <1>4, <2>5, <2>6, <2>7 DEF Judge, CachePublished
<1>5. ASSUME NEW a \in Advisories, Publish(a) PROVE Inv'
  BY <1>5 DEF Publish, TypeOK, InHand, CachePublished, OnlyMatching
<1>6. CASE Outage
  BY <1>6 DEF Outage, TypeOK, InHand, CachePublished, OnlyMatching
<1>7. CASE UNCHANGED vars
  BY <1>7 DEF vars, TypeOK, InHand, CachePublished, OnlyMatching
<1> QED
  BY <1>1, <1>2, <1>3, <1>4, <1>5, <1>6, <1>7 DEF Next

\* Every variable stays in its type and every cached record is about the
\* product it is cached for.
THEOREM TypeCorrect == Spec => []TypeOK
<1>1. Inv => TypeOK
  BY DEF Inv
<1> QED
  BY <1>1, InvInit, InvStep, PTL DEF Spec

\* However many correlations overlap, a verdict names only published advisories
\* on its product that match the version.
THEOREM BlamesOnlyMatching == Spec => []OnlyMatching
<1>1. Inv => OnlyMatching
  BY DEF Inv
<1> QED
  BY <1>1, InvInit, InvStep, PTL DEF Spec

-----------------------------------------------------------------------------

\* With one correlation at a time the field a lookup wrote is the field it reads
\* back, and a call that asked knows whether it was answered.
StatusOwn ==
    \A h \in Handlers :
        /\ call[h].step = "status" => (available <=> call[h].answered)
        /\ call[h].step = "judge" /\ call[h].cached = {} => (call[h].failed <=> ~call[h].answered)

LEMMA SerialStep ==
    ASSUME \A g, h \in Handlers : g = h
    PROVE  Inv /\ StatusOwn /\ [Next]_vars => StatusOwn'
<1> SUFFICES ASSUME Inv, StatusOwn, [Next]_vars PROVE StatusOwn'
  OBVIOUS
<1> USE DEF Inv, StatusOwn, TypeOK
<1>1. ASSUME NEW h \in Handlers, NEW p \in Products, Begin(h, p) PROVE StatusOwn'
  BY <1>1 DEF Begin, NoCall, Call
<1>2. ASSUME NEW h \in Handlers, LookUp(h) PROVE StatusOwn'
  BY <1>2 DEF LookUp, Call
<1>3. ASSUME NEW h \in Handlers, ReadStatus(h) PROVE StatusOwn'
  BY <1>3 DEF ReadStatus, Call
<1>4. ASSUME NEW h \in Handlers, NEW known \in BOOLEAN, Judge(h, known) PROVE StatusOwn'
  BY <1>4 DEF Judge, NoCall, Call
<1> QED
  BY <1>1, <1>2, <1>3, <1>4 DEF Next, Publish, Outage, vars

\* With one correlation at a time a product is never cleared by a source that
\* did not answer.
THEOREM SerialFailureNotCleared ==
    ASSUME \A g, h \in Handlers : g = h
    PROVE  Spec => FailureNotCleared
<1>1. Init => StatusOwn
  BY DEF Init, StatusOwn, NoCall
<1>2. Inv /\ StatusOwn /\ [Next]_vars => StatusOwn'
  BY SerialStep
<1>3. Inv /\ StatusOwn /\ [Next]_vars =>
        [\A h \in Handlers :
           verdict'[h].state = "NO_CONFIRMED_VULNERABILITY" /\ verdict[h].state = None
             => call[h].answered \/ call[h].cached # {}]_vars
  <2> SUFFICES ASSUME Inv, StatusOwn, Next, NEW h \in Handlers,
                      verdict'[h].state = "NO_CONFIRMED_VULNERABILITY", verdict[h].state = None,
                      call[h].cached = {}
               PROVE  call[h].answered
    BY DEF vars
  <2> USE DEF Inv, TypeOK
  <2>1. ASSUME NEW g \in Handlers, NEW p \in Products, Begin(g, p) PROVE FALSE
    <3>1. verdict'[h].state = None
      BY <2>1 DEF Begin, NoVerdict
    <3> QED
      BY <3>1, NoneAssumption DEF States
  <2>2. ASSUME NEW g \in Handlers, NEW known \in BOOLEAN, Judge(g, known) PROVE call[h].answered
    <3>1. g = h
      OBVIOUS
    <3>2. call[h].failed <=> ~call[h].answered
      BY <2>2, <3>1 DEF Judge, StatusOwn
    <3>3. State(call[h], Enriched(known)) = "NO_CONFIRMED_VULNERABILITY"
      BY <2>2, <3>1 DEF Judge
    <3>4. ~call[h].failed
      BY <3>3 DEF State
    <3> QED
      BY <3>2, <3>4
  <2> QED
    BY <2>1, <2>2, NoneAssumption DEF Next, LookUp, ReadStatus, Publish, Outage, States
<1> QED
  BY <1>1, <1>2, <1>3, InvInit, InvStep, PTL DEF Spec, FailureNotCleared

-----------------------------------------------------------------------------
(* CveLookup *)

LEMMA Least ==
  ASSUME NEW T \in SUBSET Nat, T # {}
  PROVE  \E i \in T : \A j \in T : i <= j
<1> DEFINE R == OpToRel(<, Nat)
<1>1. IsWellFoundedOn(R, Nat)
  BY NatLessThanWellFounded
<1> HIDE DEF R
<1>2. PICK i \in T : \A j \in T : <<j, i>> \notin R
  BY <1>1, WFMin
<1>3. \A j \in T : ~(j < i)
  BY <1>2 DEF R, OpToRel
<1> QED BY <1>2, <1>3

\* Every answer that is kept is the source's.
CacheTrue == \A s \in Services : cache[s] # None => cache[s] = Lookup!Parsed(s)

\* What is taken for the catalog is the catalog, or the nothing of a fetch that failed.
KevTrue ==
    /\ clock # 0
    /\ kev # None => kev = Catalog \/ (kev = {} /\ kevFailedAt # 0 /\ kevAt <= kevFailedAt)

\* At every point of a scan the services it asked about are told apart into answered,
\* failed and still to be asked, and its CVEs are those of the answered ones.
Told(w) ==
    /\ w \in Lookup!Scan /\ w.todo \subseteq DOMAIN w.services
    /\ \A c \in Cves : c \in w.cves <=> \E s \in w.reached : c \in Lookup!Parsed(s)
    /\ w.asked = w.reached \cup w.failed \cup {w.services[i] : i \in w.todo}
    /\ w.pc \notin {"lookup", "fetch"} => w.todo = {}
    /\ w.pc = "fetch" => w.todo # {}
    /\ w.pc \in {"lookup", "fetch"} => w.asked # {}
    /\ w.pc \notin {"idle", "lookup", "fetch"} => (w.available <=> (w.asked = {} \/ w.reached # {}))
    /\ w.pc \notin {"osv", "done"} => w.exploited = {}
    /\ w.pc \in {"osv", "done"} => w.exploited \subseteq Catalog /\ (w.cves \cap Catalog # w.exploited => w.excused)

LookupInv == Lookup!LookupTypeOK /\ CacheTrue /\ KevTrue /\ \A t \in Threads : Told(scan[t])

LEMMA ParsedIsKnown ==
  ASSUME Lookup!LookupAssumption, NEW s \in Services
  PROVE  Lookup!Parsed(s) \in Lookup!Results
BY DEF Lookup!Results, Lookup!LookupAssumption, Lookup!Parsed, Lookup!Worst, Lookup!Evidenced

LEMMA IdleTold == Told(Lookup!Idle) /\ Lookup!Idle \in Lookup!Scan
<1>1. PICK w : w = Lookup!Idle
  OBVIOUS
<1>2. /\ w.pc = "idle" /\ w.services = <<>> /\ w.todo = {} /\ w.asked = {} /\ w.failed = {} /\ w.reached = {}
      /\ w.cves = {} /\ w.exploited = {}
  BY <1>1 DEF Lookup!Idle
<1>3. w \in Lookup!Scan
  BY <1>1 DEF Lookup!Idle, Lookup!Scan
<1> QED BY <1>1, <1>2, <1>3 DEF Told

LEMMA LookupInvInit == Lookup!Init => LookupInv
<1> SUFFICES ASSUME Lookup!Init PROVE LookupInv
  OBVIOUS
<1>1. \A t \in Threads : scan[t] = Lookup!Idle
  BY DEF Lookup!Init
<1>2. scan \in [Threads -> Lookup!Scan] /\ \A t \in Threads : Told(scan[t])
  BY <1>1, IdleTold DEF Lookup!Init
<1>3. \A t \in Threads : scan[t].todo \subseteq DOMAIN scan[t].services
  BY <1>2 DEF Told
<1>4. /\ cache = [s \in Services |-> None] /\ kev = None
      /\ clock = 1 /\ failUntil = 0 /\ kevAt = 0 /\ kevFailedAt = 0
  BY DEF Lookup!Init
<1>5. CacheTrue /\ KevTrue
  BY <1>4 DEF CacheTrue, KevTrue
<1>6. Lookup!LookupTypeOK
  <2>1. cache \in [Services -> Lookup!Results \cup {None}] /\ kev \in Lookup!Results \cup {None}
    BY <1>4
  <2>2. {1, 0} \subseteq Nat
    OBVIOUS
  <2>3. {clock, failUntil, kevAt, kevFailedAt} \subseteq Nat
    BY <1>4, <2>2, Zenon
  <2> QED BY <1>2, <1>3, <2>1, <2>3 DEF Lookup!LookupTypeOK
<1> QED BY <1>2, <1>5, <1>6 DEF LookupInv

\* A step of one scan, whose state is told apart again, over true caches.
LEMMA ScanMoves ==
  ASSUME LookupInv, NEW t \in Threads, NEW w, Told(w), scan' = [scan EXCEPT ![t] = w],
         cache' \in [Services -> Lookup!Results \cup {None}], kev' \in Lookup!Results \cup {None},
         {clock', failUntil', kevAt', kevFailedAt'} \subseteq Nat, CacheTrue', KevTrue'
  PROVE  LookupInv'
<1>1. \A u \in Threads : scan'[u] = (IF u = t THEN w ELSE scan[u])
  BY DEF LookupInv, Lookup!LookupTypeOK
<1>2. \A u \in Threads : Told(scan'[u])
  BY <1>1 DEF LookupInv
<1>3. scan' \in [Threads -> Lookup!Scan] /\ \A u \in Threads : scan'[u].todo \subseteq DOMAIN scan'[u].services
  BY <1>2 DEF Told, LookupInv, Lookup!LookupTypeOK
<1> QED BY <1>2, <1>3 DEF LookupInv, Lookup!LookupTypeOK

LEMMA BeginKeeps ==
  ASSUME LookupInv, Lookup!LookupAssumption, NEW t \in Threads, NEW services \in Scans, Lookup!Begin(t, services)
  PROVE  LookupInv'
<1>1. PICK todo : todo = Lookup!Candidates(services)
  OBVIOUS
<1>2. services \in Seq(Services) /\ todo \subseteq DOMAIN services
  BY <1>1 DEF Lookup!LookupAssumption, Lookup!Candidates
<1>3. PICK w : w = [Lookup!Idle EXCEPT !.pc = IF todo = {} THEN "done" ELSE "lookup", !.services = services,
                    !.todo = todo, !.asked = {services[i] : i \in todo}, !.available = todo = {}]
  OBVIOUS
<1>4. w = [pc |-> IF todo = {} THEN "done" ELSE "lookup", services |-> services, todo |-> todo,
           asked |-> {services[i] : i \in todo}, failed |-> {}, reached |-> {}, cves |-> {}, exploited |-> {},
           aliased |-> {}, available |-> todo = {}, excused |-> FALSE]
  BY <1>3 DEF Lookup!Idle
<1>5. {services[i] : i \in todo} \subseteq Services /\ todo \subseteq Nat
  BY <1>2
<1>6. w \in Lookup!Scan
  BY <1>2, <1>4, <1>5 DEF Lookup!Scan
<1>7. Told(w)
  BY <1>2, <1>4, <1>6 DEF Told
<1>8. scan' = [scan EXCEPT ![t] = w] /\ UNCHANGED <<clock, cache, failUntil, kev, kevAt, kevFailedAt>>
  BY <1>1, <1>3 DEF Lookup!Begin
<1>9. /\ cache' \in [Services -> Lookup!Results \cup {None}] /\ kev' \in Lookup!Results \cup {None}
      /\ {clock', failUntil', kevAt', kevFailedAt'} \subseteq Nat /\ CacheTrue' /\ KevTrue'
  BY <1>8 DEF LookupInv, Lookup!LookupTypeOK, CacheTrue, KevTrue
<1> QED BY <1>7, <1>8, <1>9, ScanMoves

\* The service a scan is at: the first of those still to be asked.
LEMMA FirstIsTodo ==
  ASSUME NEW w \in Lookup!Scan, w.todo # {}, w.todo \subseteq DOMAIN w.services
  PROVE  Lookup!First(w) \in w.todo /\ Lookup!Service(w) \in Services
<1>1. PICK todo : todo = w.todo /\ todo \in SUBSET Nat /\ todo # {}
  BY DEF Lookup!Scan
<1>2. \E i \in todo : \A j \in todo : i <= j
  BY <1>1, Least
<1>3. Lookup!First(w) \in todo
  BY <1>1, <1>2 DEF Lookup!First
<1>4. w.services \in Seq(Services)
  BY DEF Lookup!Scan
<1> QED BY <1>1, <1>3, <1>4 DEF Lookup!Service

\* An answer, or none, for that service.
LEMMA AnsweredTold ==
  ASSUME Lookup!LookupAssumption, NEW w, Told(w), w.pc \in {"lookup", "fetch"}, w.todo # {},
         NEW cves, cves \in {None, Lookup!Parsed(Lookup!Service(w))}
  PROVE  Told(Lookup!Answered(w, cves))
<1>1. PICK s, i : s = Lookup!Service(w) /\ i = Lookup!First(w) /\ s = w.services[i]
  BY DEF Lookup!Service
<1>2. i \in w.todo /\ s \in Services /\ w \in Lookup!Scan
  BY <1>1, FirstIsTodo DEF Told
<1>3. Lookup!Parsed(s) \in Lookup!Results /\ Lookup!Parsed(s) # None
  BY <1>2, ParsedIsKnown DEF Lookup!LookupAssumption
<1>4. {w.services[j] : j \in w.todo} = {w.services[j] : j \in w.todo \ {i}} \cup {s}
  BY <1>1, <1>2
<1>5. CASE cves = None
  <2>1. PICK n : n = [w EXCEPT !.pc = "lookup", !.todo = @ \ {i}, !.failed = @ \cup {s}]
    OBVIOUS
  <2>2. n \in Lookup!Scan
    BY <1>2, <2>1 DEF Lookup!Scan
  <2>3. /\ n.pc = "lookup" /\ n.todo = w.todo \ {i} /\ n.failed = w.failed \cup {s} /\ n.services = w.services
        /\ n.cves = w.cves /\ n.reached = w.reached /\ n.asked = w.asked /\ n.exploited = w.exploited
    BY <1>2, <2>1 DEF Lookup!Scan
  <2>4. Lookup!Answered(w, cves) = n
    BY <1>1, <1>5, <2>1 DEF Lookup!Answered
  <2>5. n.asked = n.reached \cup n.failed \cup {n.services[j] : j \in n.todo}
    BY <1>4, <2>3 DEF Told
  <2> QED BY <2>2, <2>3, <2>4, <2>5 DEF Told
<1>6. CASE cves = Lookup!Parsed(s)
  <2>1. PICK n : n = [w EXCEPT !.pc = "lookup", !.todo = @ \ {i}, !.reached = @ \cup {s}, !.cves = @ \cup cves]
    OBVIOUS
  <2>2. n \in Lookup!Scan
    BY <1>2, <1>3, <1>6, <2>1 DEF Lookup!Scan, Lookup!Results
  <2>3. /\ n.pc = "lookup" /\ n.todo = w.todo \ {i} /\ n.failed = w.failed /\ n.services = w.services
        /\ n.cves = w.cves \cup cves /\ n.reached = w.reached \cup {s} /\ n.asked = w.asked
        /\ n.exploited = w.exploited
    BY <1>2, <2>1 DEF Lookup!Scan
  <2>4. Lookup!Answered(w, cves) = n
    BY <1>1, <1>3, <1>6, <2>1 DEF Lookup!Answered
  <2>5. n.asked = n.reached \cup n.failed \cup {n.services[j] : j \in n.todo}
    BY <1>4, <2>3 DEF Told
  <2>6. \A c \in Cves : c \in n.cves <=> \E r \in n.reached : c \in Lookup!Parsed(r)
    BY <1>6, <2>3 DEF Told
  <2> QED BY <2>2, <2>3, <2>4, <2>5, <2>6 DEF Told
<1> QED BY <1>1, <1>5, <1>6

LEMMA LookupKeeps ==
  ASSUME LookupInv, Lookup!LookupAssumption, NEW t \in Threads, Lookup!Lookup(t)
  PROVE  LookupInv'
<1>1. PICK w, s : w = scan[t] /\ s = Lookup!Service(w)
  OBVIOUS
<1>2. Told(w) /\ w \in Lookup!Scan /\ w.pc = "lookup" /\ w.todo # {}
  BY <1>1 DEF LookupInv, Lookup!Lookup, Told
<1>3. s \in Services
  BY <1>1, <1>2, FirstIsTodo DEF Told
<1>4. /\ cache' \in [Services -> Lookup!Results \cup {None}] /\ kev' \in Lookup!Results \cup {None}
      /\ {clock', failUntil', kevAt', kevFailedAt'} \subseteq Nat /\ CacheTrue' /\ KevTrue'
  BY DEF Lookup!Lookup, LookupInv, Lookup!LookupTypeOK, CacheTrue, KevTrue
<1>5. CASE Lookup!Remembered(s) # None \/ Lookup!ShortCircuit(s)
  <2>1. PICK n : n = Lookup!Answered(w, Lookup!Remembered(s))
    OBVIOUS
  <2>2. scan' = [scan EXCEPT ![t] = n]
    BY <1>1, <1>5, <2>1 DEF Lookup!Lookup
  <2>3. Lookup!Remembered(s) \in {None, Lookup!Parsed(s)}
    BY <1>3 DEF Lookup!Remembered, LookupInv, CacheTrue
  <2>4. Told(n)
    BY <1>1, <1>2, <2>1, <2>3, AnsweredTold
  <2> QED BY <1>4, <2>2, <2>4, ScanMoves
<1>6. CASE ~(Lookup!Remembered(s) # None \/ Lookup!ShortCircuit(s))
  <2>1. PICK n : n = [w EXCEPT !.pc = "fetch"]
    OBVIOUS
  <2>2. scan' = [scan EXCEPT ![t] = n]
    BY <1>1, <1>6, <2>1 DEF Lookup!Lookup
  <2>3. /\ n \in Lookup!Scan /\ n.pc = "fetch" /\ n.services = w.services /\ n.todo = w.todo /\ n.asked = w.asked
        /\ n.failed = w.failed /\ n.reached = w.reached /\ n.cves = w.cves /\ n.exploited = w.exploited
    BY <1>2, <2>1 DEF Lookup!Scan
  <2>4. Told(n)
    BY <1>2, <2>3 DEF Told
  <2> QED BY <1>4, <2>2, <2>4, ScanMoves
<1> QED BY <1>5, <1>6

LEMMA FetchKeeps ==
  ASSUME LookupInv, Lookup!LookupAssumption, NEW t \in Threads, NEW up \in BOOLEAN, Lookup!Fetch(t, up)
  PROVE  LookupInv'
<1>1. PICK w, s, n : /\ w = scan[t] /\ s = Lookup!Service(w)
                     /\ n = Lookup!Answered(w, IF up THEN Lookup!Parsed(s) ELSE None)
  OBVIOUS
<1>2. Told(w) /\ w \in Lookup!Scan /\ w.pc = "fetch" /\ w.todo # {}
  BY <1>1 DEF LookupInv, Lookup!Fetch, Told
<1>3. s \in Services
  BY <1>1, <1>2, FirstIsTodo DEF Told
<1>4. Told(n)
  BY <1>1, <1>2, AnsweredTold
<1>5. scan' = [scan EXCEPT ![t] = n]
  BY <1>1 DEF Lookup!Fetch
<1>6. cache' = IF up THEN [cache EXCEPT ![s] = Lookup!Parsed(s)] ELSE cache
  BY <1>1 DEF Lookup!Fetch, Lookup!Store
<1>7. cache' \in [Services -> Lookup!Results \cup {None}] /\ CacheTrue'
  BY <1>3, <1>6, ParsedIsKnown DEF LookupInv, Lookup!LookupTypeOK, CacheTrue
<1>8. /\ kev' \in Lookup!Results \cup {None} /\ KevTrue'
      /\ {clock', failUntil', kevAt', kevFailedAt'} \subseteq Nat
  BY DEF Lookup!Fetch, LookupInv, Lookup!LookupTypeOK, KevTrue, Lookup!LookupAssumption
<1> QED BY <1>4, <1>5, <1>7, <1>8, ScanMoves

LEMMA FinishKeeps ==
  ASSUME LookupInv, NEW t \in Threads, Lookup!Finish(t)
  PROVE  LookupInv'
<1>1. PICK w : w = scan[t]
  OBVIOUS
<1>2. Told(w) /\ w \in Lookup!Scan /\ w.pc = "lookup" /\ w.todo = {}
  BY <1>1 DEF LookupInv, Lookup!Finish, Told
<1>3. PICK n : n = [w EXCEPT !.available = w.reached # {}, !.pc = IF w.cves = {} THEN "done" ELSE "kev"]
  OBVIOUS
<1>4. /\ n \in Lookup!Scan /\ n.pc = (IF w.cves = {} THEN "done" ELSE "kev") /\ n.services = w.services
      /\ n.todo = w.todo /\ n.asked = w.asked /\ n.failed = w.failed /\ n.reached = w.reached /\ n.cves = w.cves
      /\ n.available = (w.reached # {}) /\ n.exploited = w.exploited
  BY <1>2, <1>3 DEF Lookup!Scan
<1>5. n.exploited = {} /\ (w.cves = {} => n.cves \cap Catalog = {})
  BY <1>2, <1>4 DEF Told
<1>6. n.asked = n.reached \cup n.failed \cup {n.services[i] : i \in n.todo}
  BY <1>2, <1>4 DEF Told
<1>7. n.available <=> (n.asked = {} \/ n.reached # {})
  BY <1>2, <1>4 DEF Told
<1>8. Told(n)
  BY <1>2, <1>4, <1>5, <1>6, <1>7 DEF Told
<1>9. scan' = [scan EXCEPT ![t] = n]
  BY <1>1, <1>3 DEF Lookup!Finish
<1>10. /\ cache' \in [Services -> Lookup!Results \cup {None}] /\ kev' \in Lookup!Results \cup {None}
       /\ {clock', failUntil', kevAt', kevFailedAt'} \subseteq Nat /\ CacheTrue' /\ KevTrue'
  BY DEF Lookup!Finish, LookupInv, Lookup!LookupTypeOK, CacheTrue, KevTrue
<1> QED BY <1>8, <1>9, <1>10, ScanMoves

\* Flagging by the catalog, or by nothing and then with an excuse.
LEMMA FlaggedTold ==
  ASSUME NEW w, Told(w), w.pc \in {"kev", "kevfetch"}, NEW ids, NEW excuse \in BOOLEAN,
         ids = Catalog \/ (ids = {} /\ excuse)
  PROVE  Told(Lookup!Flagged(w, ids, excuse))
<1>1. PICK n : n = [w EXCEPT !.pc = "osv", !.exploited = w.cves \cap ids, !.excused = excuse]
  OBVIOUS
<1>2. w \in Lookup!Scan
  BY DEF Told
<1>3. /\ n \in Lookup!Scan /\ n.pc = "osv" /\ n.services = w.services /\ n.todo = w.todo /\ n.asked = w.asked
      /\ n.failed = w.failed /\ n.reached = w.reached /\ n.cves = w.cves /\ n.available = w.available
      /\ n.exploited = w.cves \cap ids /\ n.excused = excuse
  BY <1>1, <1>2 DEF Lookup!Scan
<1>4. n.exploited \subseteq Catalog /\ (n.cves \cap Catalog # n.exploited => n.excused)
  BY <1>3
<1>5. /\ n.asked = n.reached \cup n.failed \cup {n.services[i] : i \in n.todo}
      /\ n.available <=> (n.asked = {} \/ n.reached # {})
  BY <1>3 DEF Told
<1>6. Told(n)
  BY <1>3, <1>4, <1>5 DEF Told
<1> QED BY <1>1, <1>6 DEF Lookup!Flagged

LEMMA KevCachedKeeps ==
  ASSUME LookupInv, Lookup!LookupAssumption, NEW t \in Threads, Lookup!KevCached(t)
  PROVE  LookupInv'
<1>1. PICK w : w = scan[t]
  OBVIOUS
<1>2. Told(w) /\ w \in Lookup!Scan /\ w.pc = "kev"
  BY <1>1 DEF LookupInv, Lookup!KevCached, Told
<1>3. /\ cache' \in [Services -> Lookup!Results \cup {None}] /\ kev' \in Lookup!Results \cup {None}
      /\ {clock', failUntil', kevAt', kevFailedAt'} \subseteq Nat /\ CacheTrue' /\ KevTrue'
  BY DEF Lookup!KevCached, LookupInv, Lookup!LookupTypeOK, CacheTrue, KevTrue
<1>4. CASE Lookup!KevFresh
  <2>1. scan' = [scan EXCEPT ![t] = Lookup!Flagged(w, kev, Lookup!FailedLately)]
    BY <1>1, <1>4 DEF Lookup!KevCached
  <2>2. kev = Catalog \/ (kev = {} /\ kevFailedAt # 0 /\ kevAt <= kevFailedAt)
    BY <1>4 DEF Lookup!KevFresh, LookupInv, KevTrue
  <2>3. kev = Catalog \/ (kev = {} /\ Lookup!FailedLately)
    <3>1. clock \in Nat /\ kevAt \in Nat /\ kevFailedAt \in Nat /\ KevTTL \in Nat /\ clock - kevAt < KevTTL
      BY <1>4 DEF Lookup!KevFresh, LookupInv, Lookup!LookupTypeOK, Lookup!LookupAssumption
    <3> QED BY <2>2, <3>1 DEF Lookup!FailedLately
  <2>4. Lookup!FailedLately \in BOOLEAN
    BY DEF Lookup!FailedLately
  <2>5. Told(Lookup!Flagged(w, kev, Lookup!FailedLately))
    BY <1>2, <2>3, <2>4, FlaggedTold
  <2> QED BY <1>3, <2>1, <2>5, ScanMoves
<1>5. CASE ~Lookup!KevFresh
  <2>1. PICK n : n = [w EXCEPT !.pc = "kevfetch"]
    OBVIOUS
  <2>2. scan' = [scan EXCEPT ![t] = n]
    BY <1>1, <1>5, <2>1 DEF Lookup!KevCached
  <2>3. /\ n \in Lookup!Scan /\ n.pc = "kevfetch" /\ n.services = w.services /\ n.todo = w.todo /\ n.asked = w.asked
        /\ n.failed = w.failed /\ n.reached = w.reached /\ n.cves = w.cves /\ n.available = w.available
        /\ n.exploited = w.exploited
    BY <1>2, <2>1 DEF Lookup!Scan
  <2>4. Told(n)
    BY <1>2, <2>3 DEF Told
  <2> QED BY <1>3, <2>2, <2>4, ScanMoves
<1> QED BY <1>4, <1>5

LEMMA KevFetchKeeps ==
  ASSUME LookupInv, Lookup!LookupAssumption, NEW t \in Threads, NEW up \in BOOLEAN, Lookup!KevFetch(t, up)
  PROVE  LookupInv'
<1>1. PICK w, ids, excuse : w = scan[t] /\ ids = Lookup!Fetched(up) /\ excuse = (Lookup!FailedLately \/ ~up)
  OBVIOUS
<1>2. Told(w) /\ w.pc = "kevfetch"
  BY <1>1 DEF LookupInv, Lookup!KevFetch
<1>3. scan' = [scan EXCEPT ![t] = Lookup!Flagged(w, ids, excuse)]
  BY <1>1 DEF Lookup!KevFetch
<1>4. excuse \in BOOLEAN /\ (ids = Catalog \/ (ids = {} /\ excuse))
  BY <1>1 DEF Lookup!Fetched
<1>5. Told(Lookup!Flagged(w, ids, excuse))
  BY <1>2, <1>4, FlaggedTold
<1>6. clock \in Nat /\ kevAt \in Nat /\ kevFailedAt \in Nat /\ failUntil \in Nat
  BY DEF LookupInv, Lookup!LookupTypeOK
<1>7. KevTrue'
  BY <1>6 DEF LookupInv, Lookup!KevFetch, Lookup!Fetched, KevTrue
<1>8. /\ cache' \in [Services -> Lookup!Results \cup {None}] /\ CacheTrue'
      /\ {clock', failUntil', kevAt', kevFailedAt'} \subseteq Nat
  BY <1>6 DEF Lookup!KevFetch, LookupInv, Lookup!LookupTypeOK, CacheTrue
<1>9. kev' \in Lookup!Results \cup {None}
  BY DEF Lookup!KevFetch, Lookup!Fetched, Lookup!LookupAssumption, Lookup!Results
<1> QED BY <1>3, <1>5, <1>7, <1>8, <1>9, ScanMoves

LEMMA OsvKeeps ==
  ASSUME LookupInv, NEW t \in Threads, NEW up \in BOOLEAN, Lookup!Osv(t, up)
  PROVE  LookupInv'
<1>1. PICK w, aliased : w = scan[t] /\ aliased = {c \in scan[t].cves : osv'[c] = TRUE}
  OBVIOUS
<1>2. Told(w) /\ w \in Lookup!Scan /\ w.pc = "osv"
  BY <1>1 DEF LookupInv, Lookup!Osv, Told
<1>3. PICK n : n = [w EXCEPT !.pc = "done", !.aliased = aliased]
  OBVIOUS
<1>4. scan' = [scan EXCEPT ![t] = n]
  BY <1>1, <1>3 DEF Lookup!Osv
<1>5. aliased \subseteq Cves
  BY <1>1, <1>2 DEF Lookup!Scan
<1>6. /\ n \in Lookup!Scan /\ n.pc = "done" /\ n.services = w.services /\ n.todo = w.todo /\ n.asked = w.asked
      /\ n.failed = w.failed /\ n.reached = w.reached /\ n.cves = w.cves /\ n.available = w.available
      /\ n.exploited = w.exploited /\ n.excused = w.excused
  BY <1>2, <1>3, <1>5 DEF Lookup!Scan
<1>7. Told(n)
  BY <1>2, <1>6 DEF Told
<1>8. /\ cache' \in [Services -> Lookup!Results \cup {None}] /\ kev' \in Lookup!Results \cup {None}
      /\ {clock', failUntil', kevAt', kevFailedAt'} \subseteq Nat /\ CacheTrue' /\ KevTrue'
  BY DEF Lookup!Osv, LookupInv, Lookup!LookupTypeOK, CacheTrue, KevTrue
<1> QED BY <1>4, <1>7, <1>8, ScanMoves

LEMMA ClockKeeps ==
  ASSUME LookupInv, clock' \in {clock, clock + 1}, UNCHANGED <<cache, failUntil, kev, kevAt, scan, kevFailedAt>>
  PROVE  LookupInv'
<1>1. clock \in Nat /\ clock' \in Nat /\ clock' # 0
  BY DEF LookupInv, Lookup!LookupTypeOK, KevTrue
<1>2. Lookup!LookupTypeOK'
  BY <1>1 DEF LookupInv, Lookup!LookupTypeOK
<1>3. CacheTrue' /\ KevTrue'
  BY <1>1 DEF LookupInv, CacheTrue, KevTrue
<1> QED BY <1>2, <1>3 DEF LookupInv

LEMMA LookupInvStep ==
  ASSUME Lookup!LookupAssumption, LookupInv, [Lookup!Next]_(Lookup!vars)
  PROVE  LookupInv'
<1>1. CASE Lookup!Next
  BY <1>1, BeginKeeps, LookupKeeps, FetchKeeps, FinishKeeps, KevCachedKeeps, KevFetchKeeps, OsvKeeps, ClockKeeps
     DEF Lookup!Next, Lookup!Tick
<1>2. CASE UNCHANGED Lookup!vars
  BY <1>2, ClockKeeps DEF Lookup!vars
<1> QED BY <1>1, <1>2

LEMMA LookupInvTells ==
  ASSUME LookupInv, Lookup!LookupAssumption
  PROVE  Lookup!OutageTold /\ Lookup!ExploitedFlagged
<1>1. ASSUME NEW t \in Threads, scan[t].pc = "done"
      PROVE  /\ scan[t].cves = UNION {Lookup!Parsed(s) : s \in scan[t].reached}
             /\ scan[t].asked = scan[t].reached \cup scan[t].failed
             /\ scan[t].available <=> (scan[t].asked = {} \/ scan[t].reached # {})
  <2>1. PICK w : w = scan[t]
    OBVIOUS
  <2>2. Told(w) /\ w \in Lookup!Scan /\ w.todo = {}
    BY <1>1, <2>1 DEF LookupInv, Told
  <2>3. w.cves \subseteq Cves /\ w.reached \subseteq Services
    BY <2>2 DEF Lookup!Scan
  <2>4. \A s \in w.reached : Lookup!Parsed(s) \subseteq Cves
    BY <2>3, ParsedIsKnown DEF Lookup!Results
  <2>5. w.cves = UNION {Lookup!Parsed(s) : s \in w.reached}
    BY <2>2, <2>3, <2>4 DEF Told
  <2>6. w.asked = w.reached \cup w.failed
    BY <2>2 DEF Told
  <2> QED BY <1>1, <2>1, <2>2, <2>5, <2>6 DEF Told
<1>2. ASSUME NEW t \in Threads, scan[t].pc \in {"osv", "done"}
      PROVE  scan[t].exploited \subseteq Catalog /\ (scan[t].cves \cap Catalog # scan[t].exploited => scan[t].excused)
  BY <1>2 DEF LookupInv, Told
<1> QED BY <1>1, <1>2 DEF Lookup!OutageTold, Lookup!ExploitedFlagged

\* An outage of the source, met by this scan or remembered from another, never passes for
\* a clean service, and a CVE of the catalog is only left unflagged within KevTTL of a
\* fetch that failed, for any scans at once, services, advisories and times to live
\* (deepscan/cve_lookup.py, intel_correlate.py).
LEMMA OutagesTold == ServicesSpec => [](subject = "lookup" => Lookup!OutageTold /\ Lookup!ExploitedFlagged)
<1> DEFINE I == subject = "lookup" => LookupInv
<1>1. ServicesInit => I
  BY LookupInvInit DEF ServicesInit
<1>2. I /\ [ServicesNext]_allVars => I'
  BY PartSteps, LookupInvStep, LookupKnown
<1>3. I => (subject = "lookup" => Lookup!OutageTold /\ Lookup!ExploitedFlagged)
  BY LookupInvTells, LookupKnown
<1> HIDE DEF I
<1> QED BY <1>1, <1>2, <1>3, PTL DEF ServicesSpec

-----------------------------------------------------------------------------
(* Coverage *)

\* An agent lists a network once, and for scanning only if it may.
Listed(known) ==
    /\ \A c, d \in known : c.net = d.net => c = d
    /\ \A c \in known : c.verdict = "scan" => Sweep!Allowed(c.net)

\* In the course of a round, of an agent in state g: what is past has its outcome.
OnRound(a, g) ==
    g.pc = "sweep" => /\ g.todo \subseteq {c \in g.known : c.verdict = "scan"}
                      /\ \A c \in g.known \ g.todo : Sweep!Outcome(a, c)

RowsAllowed ==
    \A n \in Nets : row[n] # None /\ row[n].swept => Sweep!Allowed(n) /\ row[n].status = "inventoried"

SweepInv ==
    /\ Sweep!TypeOK /\ RowsAllowed
    /\ \A a \in Agents : Listed(agent[a].known) /\ OnRound(a, agent[a])

LEMMA SweepInvInit == Sweep!Init => SweepInv
<1> SUFFICES ASSUME Sweep!Init PROVE SweepInv
  OBVIOUS
<1>1. PICK g : g = [pc |-> "start", known |-> {}, todo |-> {}, mac |-> FALSE, bound |-> FALSE, missed |-> {}]
  OBVIOUS
<1>2. g \in Sweep!Agent /\ g.pc = "start" /\ g.known = {}
  BY <1>1 DEF Sweep!Agent
<1>3. agent = [a \in Agents |-> g] /\ row = [k \in Nets \cup Ssids |-> None] /\ world \in [Agents -> Worlds]
  BY <1>1 DEF Sweep!Init
<1>4. Sweep!TypeOK
  BY <1>2, <1>3 DEF Sweep!TypeOK
<1>5. \A a \in Agents : Listed(agent[a].known) /\ OnRound(a, agent[a])
  BY <1>2, <1>3 DEF Listed, OnRound
<1> QED BY <1>3, <1>4, <1>5 DEF SweepInv, RowsAllowed

LEMMA ResolvedListed ==
  ASSUME Sweep!CoverageAssumption, NEW w \in Worlds
  PROVE  Sweep!Resolved(w) \subseteq Sweep!Candidate /\ Listed(Sweep!Resolved(w))
<1>1. w.ifaces \in SUBSET Nets /\ w.routes \in SUBSET Nets
  BY DEF Sweep!CoverageAssumption, Sweep!World
<1>2. \A n, link : LET c == Sweep!Judged(n, link, w)
                   IN c.net = n /\ c.link = link /\ (c.verdict = "scan" => Sweep!Allowed(n))
  BY DEF Sweep!Judged
<1>3. \A n \in Nets, link \in BOOLEAN : Sweep!Judged(n, link, w) \in Sweep!Candidate
  BY DEF Sweep!Judged, Sweep!Candidate
<1>4. PICK net : net = IF Explicit = {} THEN Sweep!OnLink(w) \cup Sweep!Routed(w) ELSE Explicit
  OBVIOUS
<1>5. net \subseteq Nets
  BY <1>1, <1>4 DEF Sweep!OnLink, Sweep!Routed, Sweep!CoverageAssumption
<1>6. ASSUME NEW c \in Sweep!Resolved(w)
      PROVE  \E n \in net, link \in BOOLEAN : c = Sweep!Judged(n, link, w) /\ (link <=> n \in Sweep!OnLink(w))
  <2>1. CASE Explicit = {}
    <3>1. c \in Sweep!Discovered(w) /\ net = Sweep!OnLink(w) \cup Sweep!Routed(w)
      BY <2>1, <1>4 DEF Sweep!Resolved
    <3>2. CASE \E n \in Sweep!OnLink(w) : c = Sweep!Judged(n, TRUE, w)
      BY <3>1, <3>2
    <3>3. CASE \E n \in Sweep!Routed(w) : c = Sweep!Judged(n, FALSE, w)
      <4>1. \A n \in Sweep!Routed(w) : n \notin Sweep!OnLink(w)
        BY DEF Sweep!Routed
      <4> QED BY <3>1, <3>3, <4>1
    <3> QED BY <3>1, <3>2, <3>3 DEF Sweep!Discovered
  <2>2. CASE Explicit # {}
    <3>1. PICK n \in net : c = Sweep!Judged(n, n \in Sweep!OnLink(w), w)
      BY <2>2, <1>4 DEF Sweep!Resolved
    <3>2. PICK link \in BOOLEAN : link <=> n \in Sweep!OnLink(w)
      OBVIOUS
    <3>3. link = (n \in Sweep!OnLink(w))
      BY <3>2
    <3> QED BY <3>1, <3>2, <3>3
  <2> QED BY <2>1, <2>2
<1>7. ASSUME NEW c \in Sweep!Resolved(w) PROVE c \in Sweep!Candidate
  <2>1. PICK n \in net, link \in BOOLEAN : c = Sweep!Judged(n, link, w)
    BY <1>6
  <2> QED BY <2>1, <1>3, <1>5
<1>8. ASSUME NEW c \in Sweep!Resolved(w), NEW d \in Sweep!Resolved(w), c.net = d.net PROVE c = d
  <2>1. PICK n \in net, link \in BOOLEAN : c = Sweep!Judged(n, link, w) /\ (link <=> n \in Sweep!OnLink(w))
    BY <1>6
  <2>2. PICK m \in net, also \in BOOLEAN : d = Sweep!Judged(m, also, w) /\ (also <=> m \in Sweep!OnLink(w))
    BY <1>6
  <2>3. n = m
    BY <2>1, <2>2, <1>2, <1>8
  <2>4. link = also
    BY <2>1, <2>2, <2>3
  <2> QED BY <2>1, <2>2, <2>3, <2>4
<1>9. ASSUME NEW c \in Sweep!Resolved(w), c.verdict = "scan" PROVE Sweep!Allowed(c.net)
  BY <1>2, <1>6, <1>9
<1> QED BY <1>7, <1>8, <1>9 DEF Listed

\* A step of agent a to state g that writes the table only in its own name.
LEMMA AgentMoves ==
  ASSUME SweepInv, NEW a \in Agents, NEW g \in Sweep!Agent, agent' = [agent EXCEPT ![a] = g],
         Listed(g.known), OnRound(a, g)',
         row' \in [Nets \cup Ssids -> Sweep!Row \cup {None}], RowsAllowed', world' \in [Agents -> Worlds],
         \A k \in Nets : row'[k] = row[k] \/ (row'[k] # None /\ row'[k].by = a)
  PROVE  SweepInv'
<1>1. \A b \in Agents : agent'[b] = IF b = a THEN g ELSE agent[b]
  BY DEF SweepInv, Sweep!TypeOK
<1>2. Sweep!TypeOK'
  BY DEF SweepInv, Sweep!TypeOK
<1>3. ASSUME NEW b \in Agents
      PROVE  Listed(agent'[b].known) /\ OnRound(b, agent[b])'
  <2>1. CASE b = a
    BY <1>1, <2>1 DEF OnRound
  <2>2. CASE b # a
    <3>1. agent'[b] = agent[b] /\ agent[b] \in Sweep!Agent /\ Listed(agent[b].known) /\ OnRound(b, agent[b])
      BY <1>1, <2>2 DEF SweepInv, Sweep!TypeOK
    <3>2. ASSUME NEW c \in agent[b].known, Sweep!Outcome(b, c)
          PROVE  Sweep!Outcome(b, c)'
      <4>1. c.net \in Nets
        BY <3>1 DEF Sweep!Agent, Sweep!Candidate
      <4> QED BY <2>2, <3>1, <3>2, <4>1 DEF Sweep!Outcome
    <3> QED BY <3>1, <3>2 DEF OnRound
  <2> QED BY <2>1, <2>2
<1> QED BY <1>2, <1>3 DEF SweepInv

\* The SSID of a row that is written with another, or with none.
Named(k, ssid) == IF ssid # None \/ row[k] = None THEN ssid ELSE row[k].ssid

LEMMA NamedIsSsid ==
  ASSUME SweepInv, NEW k \in Nets \cup Ssids, NEW ssid \in Ssids \cup {None}
  PROVE  Named(k, ssid) \in Ssids \cup {None}
<1>1. row[k] \in Sweep!Row \cup {None}
  BY DEF SweepInv, Sweep!TypeOK
<1> QED BY <1>1 DEF Named, Sweep!Row

\* The wireless rows are the agent's own, and none comes from a sweep.
LEMMA WirelessOwned ==
  ASSUME Sweep!CoverageAssumption, SweepInv, NEW a \in Agents, NEW k \in Nets \cup Ssids
  PROVE  \/ Sweep!WifiRows(a)[k] = row[k]
         \/ Sweep!WifiRows(a)[k] \in Sweep!Row /\ ~Sweep!WifiRows(a)[k].swept /\ Sweep!WifiRows(a)[k].by = a
<1>1. world[a].joined \in Ssids \cup {None} /\ world[a].visible \in SUBSET Ssids
  BY DEF SweepInv, Sweep!TypeOK, Sweep!CoverageAssumption, Sweep!World
<1>2. PICK tied \in BOOLEAN : tied = (world[a].joined \in world[a].visible
                             /\ \E c \in Sweep!Resolved(world[a]) : c.link /\ c.net = world[a].wifi)
  OBVIOUS
<1>3. Sweep!WifiRows(a)[k] = IF tied /\ k = world[a].wifi THEN Sweep!Reported(a, k, "inventoried", world[a].joined, FALSE)
                             ELSE IF k \in world[a].visible /\ ~(tied /\ k = world[a].joined)
                             THEN Sweep!Reported(a, k, "seen_not_joined", k, FALSE) ELSE row[k]
  BY <1>2 DEF Sweep!WifiRows
<1>4. CASE tied /\ k = world[a].wifi
  <2>1. Sweep!WifiRows(a)[k] = Sweep!Reported(a, k, "inventoried", world[a].joined, FALSE)
    BY <1>3, <1>4
  <2>2. PICK named \in Ssids \cup {None} : named = Named(k, world[a].joined)
    BY <1>1, NamedIsSsid
  <2>3. Sweep!WifiRows(a)[k] = [status |-> "inventoried", ssid |-> named, swept |-> FALSE, by |-> a]
    BY <2>1, <2>2 DEF Sweep!Reported, Named
  <2> QED BY <2>3 DEF Sweep!Row, Sweep!Statuses
<1>5. CASE ~(tied /\ k = world[a].wifi) /\ k \in world[a].visible /\ ~(tied /\ k = world[a].joined)
  <2>1. Sweep!WifiRows(a)[k] = Sweep!Reported(a, k, "seen_not_joined", k, FALSE)
    BY <1>3, <1>5
  <2>2. k \in Ssids
    BY <1>1, <1>5
  <2>3. PICK named \in Ssids \cup {None} : named = Named(k, k)
    BY <2>2, NamedIsSsid
  <2>4. Sweep!WifiRows(a)[k] = [status |-> "seen_not_joined", ssid |-> named, swept |-> FALSE, by |-> a]
    BY <2>1, <2>3 DEF Sweep!Reported, Named
  <2> QED BY <2>4 DEF Sweep!Row, Sweep!Statuses
<1>6. CASE ~(tied /\ k = world[a].wifi) /\ ~(k \in world[a].visible /\ ~(tied /\ k = world[a].joined))
  BY <1>3, <1>6
<1> QED BY <1>4, <1>5, <1>6

LEMMA StartSweep ==
  ASSUME Sweep!CoverageAssumption, SweepInv, NEW a \in Agents, Sweep!Start(a)
  PROVE  SweepInv'
<1>0. agent[a] \in Sweep!Agent /\ world[a] \in Worlds /\ agent[a].pc = "start" /\ world' = world
  BY DEF SweepInv, Sweep!TypeOK, Sweep!Start
<1>1. CASE Sweep!Resolved(world[a]) = {}
  <2>1. PICK g : g = [agent[a] EXCEPT !.pc = "stopped"]
    OBVIOUS
  <2>2. g \in Sweep!Agent /\ g.known = agent[a].known /\ g.pc = "stopped"
    BY <1>0, <2>1 DEF Sweep!Agent
  <2>3. agent' = [agent EXCEPT ![a] = g] /\ row' = row
    BY <1>1, <2>1 DEF Sweep!Start
  <2>4. Listed(g.known) /\ OnRound(a, g)'
    BY <2>2 DEF SweepInv, OnRound
  <2> QED BY <1>0, <2>2, <2>3, <2>4, AgentMoves DEF SweepInv, RowsAllowed, Sweep!TypeOK
<1>2. CASE Sweep!Resolved(world[a]) # {}
  <2>1. PICK g : g = [agent[a] EXCEPT !.pc = "resolve", !.known = Sweep!Resolved(world[a]), !.mac = world[a].mac]
    OBVIOUS
  <2>2. world[a].mac \in BOOLEAN
    BY <1>0 DEF Sweep!CoverageAssumption, Sweep!World
  <2>3. Sweep!Resolved(world[a]) \in SUBSET Sweep!Candidate /\ Listed(Sweep!Resolved(world[a]))
    BY <1>0, ResolvedListed
  <2>4. g \in Sweep!Agent /\ g.known = Sweep!Resolved(world[a]) /\ g.pc = "resolve"
    BY <1>0, <2>1, <2>2, <2>3 DEF Sweep!Agent
  <2>5. agent' = [agent EXCEPT ![a] = g] /\ row' \in {row, IF WiFi THEN Sweep!WifiRows(a) ELSE row}
    BY <1>2, <2>1 DEF Sweep!Start
  <2>6. Listed(g.known) /\ OnRound(a, g)'
    BY <2>3, <2>4 DEF OnRound
  <2>7. ASSUME NEW k \in Nets \cup Ssids
        PROVE  row'[k] = row[k] \/ (row'[k] \in Sweep!Row /\ ~row'[k].swept /\ row'[k].by = a)
    BY <2>5, WirelessOwned
  <2>8. DOMAIN row' = Nets \cup Ssids /\ row' = [k \in Nets \cup Ssids |-> row'[k]]
    BY <2>5 DEF SweepInv, Sweep!TypeOK, Sweep!WifiRows
  <2>9. row' \in [Nets \cup Ssids -> Sweep!Row \cup {None}]
    BY <2>7, <2>8 DEF SweepInv, Sweep!TypeOK
  <2>10. \A k \in Nets : row'[k] = row[k] \/ (row'[k] # None /\ row'[k].by = a)
    BY <2>7 DEF Sweep!CoverageAssumption
  <2>11. RowsAllowed'
    BY <2>7 DEF SweepInv, RowsAllowed
  <2> QED BY <1>0, <2>4, <2>5, <2>6, <2>9, <2>10, <2>11, AgentMoves DEF SweepInv, Sweep!TypeOK
<1> QED BY <1>1, <1>2

LEMMA ResolveSweep ==
  ASSUME Sweep!CoverageAssumption, SweepInv, NEW a \in Agents, Sweep!Resolve(a)
  PROVE  SweepInv'
<1>0. agent[a] \in Sweep!Agent /\ world[a] \in Worlds /\ world' = world /\ row' = row
  BY DEF SweepInv, Sweep!TypeOK, Sweep!Resolve
<1>1. PICK known : known = IF Sweep!Resolved(world[a]) = {} THEN agent[a].known ELSE Sweep!Resolved(world[a])
  OBVIOUS
<1>2. PICK mac : mac = IF Sweep!Resolved(world[a]) = {} THEN agent[a].mac ELSE world[a].mac
  OBVIOUS
<1>3. PICK g : g = [agent[a] EXCEPT !.pc = "report", !.missed = {}, !.known = known, !.mac = mac]
  OBVIOUS
<1>4. known \in SUBSET Sweep!Candidate /\ Listed(known)
  BY <1>0, <1>1, ResolvedListed DEF SweepInv, Sweep!Agent
<1>5. mac \in BOOLEAN
  BY <1>0, <1>2 DEF Sweep!CoverageAssumption, Sweep!World, Sweep!Agent
<1>6. g \in Sweep!Agent /\ g.known = known /\ g.pc = "report"
  BY <1>0, <1>3, <1>4, <1>5 DEF Sweep!Agent
<1>7. agent' = [agent EXCEPT ![a] = g]
  <2>1. CASE Sweep!Resolved(world[a]) = {}
    BY <1>1, <1>2, <1>3, <2>1 DEF Sweep!Resolve
  <2>2. CASE Sweep!Resolved(world[a]) # {}
    BY <1>1, <1>2, <1>3, <2>2 DEF Sweep!Resolve
  <2> QED BY <2>1, <2>2
<1>8. Listed(g.known) /\ OnRound(a, g)'
  BY <1>4, <1>6 DEF OnRound
<1> QED BY <1>0, <1>6, <1>7, <1>8, AgentMoves DEF SweepInv, RowsAllowed, Sweep!TypeOK

\* The report tells of each network that is not swept, and of no other.
LEMMA ToldRows ==
  ASSUME Sweep!CoverageAssumption, SweepInv, NEW a \in Agents, NEW k \in Nets \cup Ssids
  PROVE  /\ (~\E c \in Sweep!NotScanned(a) : c.net = k) => Sweep!Told(a)[k] = row[k]
         /\ \A c \in Sweep!NotScanned(a) : c.net = k =>
               LET r == Sweep!Told(a)[k]
               IN /\ r \in Sweep!Row /\ r.by = a /\ ~r.swept
                  /\ r.status = IF c.verdict = "unreachable" THEN "unreachable" ELSE "reachable_not_scanned"
<1>1. (~\E c \in Sweep!NotScanned(a) : c.net = k) => Sweep!Told(a)[k] = row[k]
  BY DEF Sweep!Told
<1>2. ASSUME NEW c \in Sweep!NotScanned(a), c.net = k
      PROVE  LET r == Sweep!Told(a)[k]
             IN /\ r \in Sweep!Row /\ r.by = a /\ ~r.swept
                /\ r.status = IF c.verdict = "unreachable" THEN "unreachable" ELSE "reachable_not_scanned"
  <2>1. \A d \in Sweep!NotScanned(a) : d.net = k => d = c
    BY <1>2 DEF SweepInv, Listed, Sweep!NotScanned
  <2>2. PICK status : status = IF c.verdict = "unreachable" THEN "unreachable" ELSE "reachable_not_scanned"
    OBVIOUS
  <2>3. status \in Sweep!Statuses
    BY <2>2 DEF Sweep!Statuses
  <2>4. (\E d \in Sweep!NotScanned(a) : d.net = k /\ d.verdict = "unreachable") <=> c.verdict = "unreachable"
    BY <1>2, <2>1
  <2>5. Sweep!Told(a)[k] = Sweep!Reported(a, k, status, None, FALSE)
    BY <1>2, <2>2, <2>4 DEF Sweep!Told
  <2>6. PICK named \in Ssids \cup {None} : named = Named(k, None)
    BY NamedIsSsid
  <2>7. Sweep!Told(a)[k] = [status |-> status, ssid |-> named, swept |-> FALSE, by |-> a]
    BY <2>5, <2>6 DEF Sweep!Reported, Named
  <2> QED BY <2>2, <2>3, <2>7 DEF Sweep!Row
<1> QED BY <1>1, <1>2

LEMMA ReportSweep ==
  ASSUME Sweep!CoverageAssumption, SweepInv, NEW a \in Agents, NEW ok \in BOOLEAN, Sweep!Report(a, ok)
  PROVE  SweepInv'
<1>0. agent[a] \in Sweep!Agent /\ Listed(agent[a].known) /\ world' = world
  BY DEF SweepInv, Sweep!TypeOK, Sweep!Report
<1>1. PICK missed : missed = IF ok THEN {} ELSE {c.net : c \in Sweep!NotScanned(a)}
  OBVIOUS
<1>2. PICK todo : todo = agent[a].known \ Sweep!NotScanned(a)
  OBVIOUS
<1>3. PICK g : g = [agent[a] EXCEPT !.pc = "sweep", !.todo = todo, !.missed = missed]
  OBVIOUS
<1>4. todo \in SUBSET Sweep!Candidate /\ missed \in SUBSET Nets
  BY <1>0, <1>1, <1>2 DEF Sweep!Agent, Sweep!NotScanned, Sweep!Candidate
<1>5. g \in Sweep!Agent /\ g.known = agent[a].known /\ g.todo = todo /\ g.missed = missed
  BY <1>0, <1>3, <1>4 DEF Sweep!Agent
<1>6. agent' = [agent EXCEPT ![a] = g] /\ row' = IF ok THEN Sweep!Told(a) ELSE row
  BY <1>1, <1>2, <1>3 DEF Sweep!Report
<1>7. \A k \in Nets \cup Ssids : row'[k] = row[k] \/ (row'[k] \in Sweep!Row /\ ~row'[k].swept /\ row'[k].by = a)
  BY <1>6, ToldRows
<1>8. DOMAIN row' = Nets \cup Ssids /\ row' = [k \in Nets \cup Ssids |-> row'[k]]
  BY <1>6 DEF SweepInv, Sweep!TypeOK, Sweep!Told
<1>9. row' \in [Nets \cup Ssids -> Sweep!Row \cup {None}]
  BY <1>7, <1>8 DEF SweepInv, Sweep!TypeOK
<1>10. ASSUME NEW c \in g.known \ g.todo PROVE Sweep!Outcome(a, c)'
  <2>1. c \in Sweep!NotScanned(a) /\ c.net \in Nets /\ c.verdict \in {"skipped", "unreachable"}
    BY <1>0, <1>2, <1>5, <1>10 DEF Sweep!NotScanned, Sweep!Agent, Sweep!Candidate
  <2>2. agent'[a].missed = missed
    BY <1>5, <1>6 DEF SweepInv, Sweep!TypeOK
  <2>3. CASE ~ok
    BY <1>1, <2>1, <2>2, <2>3 DEF Sweep!Outcome
  <2>4. CASE ok
    <3>1. /\ row'[c.net] \in Sweep!Row /\ row'[c.net].by = a /\ ~row'[c.net].swept
          /\ row'[c.net].status = IF c.verdict = "unreachable" THEN "unreachable" ELSE "reachable_not_scanned"
      BY <1>6, <2>1, <2>4, ToldRows
    <3> QED BY <2>1, <3>1 DEF Sweep!Outcome, Sweep!CoverageAssumption
  <2> QED BY <2>3, <2>4
<1>11. Listed(g.known) /\ OnRound(a, g)'
  <2>1. g.todo \subseteq {c \in g.known : c.verdict = "scan"}
    BY <1>2, <1>5 DEF Sweep!NotScanned
  <2> QED BY <1>0, <1>5, <1>10, <2>1 DEF OnRound
<1>12. RowsAllowed'
  BY <1>7 DEF SweepInv, RowsAllowed
<1>13. \A k \in Nets : row'[k] = row[k] \/ (row'[k] # None /\ row'[k].by = a)
  BY <1>7 DEF Sweep!CoverageAssumption
<1> QED BY <1>0, <1>5, <1>6, <1>9, <1>11, <1>12, <1>13, AgentMoves DEF SweepInv, Sweep!TypeOK

LEMMA SubnetSweep ==
  ASSUME Sweep!CoverageAssumption, SweepInv, NEW a \in Agents, NEW ok \in BOOLEAN, Sweep!Sweep(a, ok)
  PROVE  SweepInv'
<1>0. agent[a] \in Sweep!Agent /\ Listed(agent[a].known) /\ OnRound(a, agent[a]) /\ agent[a].pc = "sweep" /\ world' = world
  BY DEF SweepInv, Sweep!TypeOK, Sweep!Sweep
<1>1. PICK c \in agent[a].todo :
         IF ~agent[a].mac /\ ~agent[a].bound /\ ~c.link
         THEN agent' = [agent EXCEPT ![a].pc = "crashed"] /\ UNCHANGED row
         ELSE /\ agent' = [agent EXCEPT ![a] = [@ EXCEPT
                                         !.todo = agent[a].todo \ {c}, !.bound = agent[a].bound \/ c.link,
                                         !.missed = IF ok THEN agent[a].missed ELSE agent[a].missed \cup {c.net}]]
              /\ row' = IF ok THEN [row EXCEPT ![c.net] = Sweep!Reported(a, c.net, "inventoried", None, TRUE)] ELSE row
  BY DEF Sweep!Sweep
<1>2. c \in Sweep!Candidate /\ c \in agent[a].known /\ c.verdict = "scan" /\ Sweep!Allowed(c.net)
  BY <1>0 DEF OnRound, Listed, Sweep!Agent
<1>3. CASE ~agent[a].mac /\ ~agent[a].bound /\ ~c.link
  <2>1. PICK g : g = [agent[a] EXCEPT !.pc = "crashed"]
    OBVIOUS
  <2>2. g \in Sweep!Agent /\ g.known = agent[a].known /\ g.pc = "crashed"
    BY <1>0, <2>1 DEF Sweep!Agent
  <2>3. agent' = [agent EXCEPT ![a] = g] /\ row' = row
    BY <1>1, <1>3, <2>1
  <2>4. Listed(g.known) /\ OnRound(a, g)'
    BY <1>0, <2>2 DEF OnRound
  <2> QED BY <1>0, <2>2, <2>3, <2>4, AgentMoves DEF SweepInv, RowsAllowed, Sweep!TypeOK
<1>4. CASE ~(~agent[a].mac /\ ~agent[a].bound /\ ~c.link)
  <2>1. PICK missed : missed = IF ok THEN agent[a].missed ELSE agent[a].missed \cup {c.net}
    OBVIOUS
  <2>2. PICK bound \in BOOLEAN : bound = (agent[a].bound \/ c.link)
    OBVIOUS
  <2>3. PICK todo : todo = agent[a].todo \ {c}
    OBVIOUS
  <2>4. PICK g : g = [agent[a] EXCEPT !.todo = todo, !.bound = bound, !.missed = missed]
    OBVIOUS
  <2>5. todo \in SUBSET Sweep!Candidate /\ missed \in SUBSET Nets /\ c.net \in Nets
    BY <1>0, <1>2, <2>1, <2>3 DEF Sweep!Agent, Sweep!Candidate
  <2>6. g \in Sweep!Agent /\ g.known = agent[a].known /\ g.todo = todo /\ g.missed = missed /\ g.pc = "sweep"
    BY <1>0, <2>4, <2>5 DEF Sweep!Agent
  <2>7. agent' = [agent EXCEPT ![a] = g]
    <3>1. agent' = [agent EXCEPT ![a] = [@ EXCEPT !.todo = todo, !.bound = agent[a].bound \/ c.link, !.missed = missed]]
      BY <1>1, <1>4, <2>1, <2>3
    <3>2. agent' = [agent EXCEPT ![a] = [@ EXCEPT !.todo = todo, !.bound = bound, !.missed = missed]]
      BY <2>2, <3>1
    <3> QED BY <2>4, <3>2
  <2>8. PICK r : r = Sweep!Reported(a, c.net, "inventoried", None, TRUE)
    OBVIOUS
  <2>9. r \in Sweep!Row /\ r # None /\ r.by = a /\ r.swept /\ r.status = "inventoried"
    <3>1. PICK named \in Ssids \cup {None} : named = Named(c.net, None)
      BY <2>5, NamedIsSsid
    <3>2. r = [status |-> "inventoried", ssid |-> named, swept |-> TRUE, by |-> a]
      BY <2>8, <3>1 DEF Sweep!Reported, Named
    <3>3. r \in Sweep!Row /\ r.by = a /\ r.swept /\ r.status = "inventoried"
      BY <3>2 DEF Sweep!Row, Sweep!Statuses
    <3> QED BY <3>3 DEF Sweep!CoverageAssumption
  <2>10. row' = IF ok THEN [row EXCEPT ![c.net] = r] ELSE row
    BY <1>1, <1>4, <2>8
  <2>11. row' \in [Nets \cup Ssids -> Sweep!Row \cup {None}]
    BY <2>5, <2>9, <2>10 DEF SweepInv, Sweep!TypeOK
  <2>12. \A k \in Nets : row'[k] = IF ok /\ k = c.net THEN r ELSE row[k]
    BY <2>10 DEF SweepInv, Sweep!TypeOK
  <2>13. RowsAllowed'
    BY <1>2, <2>9, <2>12 DEF SweepInv, RowsAllowed, Sweep!Allowed
  <2>14. agent'[a].missed = missed
    BY <2>6, <2>7 DEF SweepInv, Sweep!TypeOK
  <2>15. ASSUME NEW d \in g.known \ g.todo PROVE Sweep!Outcome(a, d)'
    <3>1. CASE d = c
      BY <1>2, <2>1, <2>5, <2>9, <2>12, <2>14, <3>1 DEF Sweep!Outcome
    <3>2. CASE d # c
      <4>1. d \in agent[a].known \ agent[a].todo /\ d.net \in Nets /\ d.net # c.net
        BY <1>0, <1>2, <2>3, <2>6, <2>15, <3>2 DEF Listed, Sweep!Agent, Sweep!Candidate
      <4>2. Sweep!Outcome(a, d) /\ row'[d.net] = row[d.net] /\ agent[a].missed \subseteq agent'[a].missed
        BY <1>0, <2>1, <2>12, <2>14, <4>1 DEF OnRound
      <4> QED BY <4>2 DEF Sweep!Outcome
    <3> QED BY <3>1, <3>2
  <2>16. Listed(g.known) /\ OnRound(a, g)'
    BY <1>0, <2>3, <2>6, <2>15 DEF OnRound
  <2>17. \A k \in Nets : row'[k] = row[k] \/ (row'[k] # None /\ row'[k].by = a)
    BY <2>9, <2>12
  <2>18. world' \in [Agents -> Worlds]
    BY <1>0 DEF SweepInv, Sweep!TypeOK
  <2> QED BY <2>6, <2>7, <2>11, <2>13, <2>16, <2>17, <2>18, AgentMoves
<1> QED BY <1>3, <1>4

LEMMA SweepInvStep == ASSUME Sweep!CoverageAssumption PROVE SweepInv /\ [Sweep!Next]_(Sweep!vars) => SweepInv'
<1> SUFFICES ASSUME SweepInv, [Sweep!Next]_(Sweep!vars) PROVE SweepInv'
  OBVIOUS
<1>0. ASSUME UNCHANGED <<agent, row>>, world' \in [Agents -> Worlds] PROVE SweepInv'
  <2>1. Sweep!TypeOK' /\ RowsAllowed'
    BY <1>0 DEF SweepInv, Sweep!TypeOK, RowsAllowed
  <2>2. ASSUME NEW a \in Agents PROVE Listed(agent'[a].known) /\ OnRound(a, agent[a])'
    <3>1. PICK g : g = agent[a]
      OBVIOUS
    <3>2. Listed(g.known) /\ OnRound(a, g)
      BY <3>1 DEF SweepInv
    <3>3. OnRound(a, g)'
      BY <1>0, <3>1, <3>2 DEF OnRound, Sweep!Outcome
    <3>4. agent'[a] = g
      BY <1>0, <3>1
    <3> QED BY <3>2, <3>3, <3>4 DEF OnRound
  <2> QED BY <1>0, <2>1, <2>2 DEF SweepInv, Listed
<1>1. CASE UNCHANGED Sweep!vars
  BY <1>0, <1>1 DEF SweepInv, Sweep!vars, Sweep!TypeOK
<1>2. ASSUME NEW a \in Agents, Sweep!Sleep(a) PROVE SweepInv'
  <2>0. agent[a] \in Sweep!Agent
    BY DEF SweepInv, Sweep!TypeOK
  <2>1. PICK g : g = [agent[a] EXCEPT !.pc = "resolve"]
    OBVIOUS
  <2>2. g \in Sweep!Agent /\ g.known = agent[a].known /\ g.pc = "resolve"
    BY <2>0, <2>1 DEF Sweep!Agent
  <2>3. agent' = [agent EXCEPT ![a] = g] /\ row' = row /\ world' = world
    BY <1>2, <2>1 DEF Sweep!Sleep
  <2>4. Listed(g.known) /\ OnRound(a, g)'
    BY <2>2 DEF SweepInv, OnRound
  <2> QED BY <2>2, <2>3, <2>4, AgentMoves DEF SweepInv, RowsAllowed, Sweep!TypeOK
<1>3. ASSUME NEW a \in Agents, NEW w \in Worlds, Sweep!Move(a, w) PROVE SweepInv'
  BY <1>0, <1>3 DEF SweepInv, Sweep!Move, Sweep!TypeOK
<1> QED BY <1>1, <1>2, <1>3, StartSweep, ResolveSweep, ReportSweep, SubnetSweep DEF Sweep!Next

\* Whatever an agent finds around it and whichever POSTs are lost, a subnet is swept
\* only if the guard allows it, and after a round the table has an outcome or a reason
\* for every network the agent knows of, for any agents and networks
\* (run_devices in agent/drishti_watch.py, report_coverage in services/live.py).
THEOREM RoundsAccountedFor == ServicesSpec => []CoverageHonest
<1> DEFINE I == subject = "sweep" => SweepInv
<1>1. ServicesInit => I
  BY SweepInvInit DEF ServicesInit
<1>2. I /\ [ServicesNext]_allVars => I'
  BY PartSteps, SweepInvStep, CoverageKnown
<1>3. SweepInv => Sweep!OnlyAllowedSwept /\ Sweep!CoverageHonest
  <2> SUFFICES ASSUME SweepInv PROVE Sweep!OnlyAllowedSwept /\ Sweep!CoverageHonest
    OBVIOUS
  <2>1. Sweep!OnlyAllowedSwept
    BY DEF SweepInv, RowsAllowed, OnRound, Listed, Sweep!OnlyAllowedSwept
  <2>2. Sweep!CoverageHonest
    BY DEF SweepInv, OnRound, Sweep!CoverageHonest, Sweep!RoundOver
  <2> QED BY <2>1, <2>2
<1>4. I => CoverageHonest
  BY <1>3 DEF CoverageHonest
<1> HIDE DEF I
<1> QED BY <1>1, <1>2, <1>4, PTL DEF ServicesSpec

-----------------------------------------------------------------------------
(* ProviderCache *)

LEMMA SameSets ==
  ASSUME NEW S
  PROVE  (Memo!IsFiniteSet(S) <=> IsFiniteSet(S)) /\ Memo!Cardinality(S) = Cardinality(S)
<1>1. Memo!IsFiniteSet(S) <=> IsFiniteSet(S)
  BY DEF Memo!IsFiniteSet, IsFiniteSet
<1>2. Memo!Cardinality(S) = Cardinality(S)
  BY DEF Memo!Cardinality, Cardinality
<1> QED BY <1>1, <1>2

LEMMA Removed ==
  ASSUME NEW S, NEW s \in Seq(S), NEW i \in 1..Len(s), NEW r, r = Memo!RemoveAt(s, i)
  PROVE  /\ r \in Seq(S) /\ Len(r) = Len(s) - 1
         /\ \A j \in 1..(Len(s) - 1) : r[j] = IF j < i THEN s[j] ELSE s[j + 1]
<1>1. Len(s) \in Nat /\ \A j \in 1..Len(s) : s[j] \in S
  BY LenProperties, ElementOfSeq
<1>2. PICK a : a = SubSeq(s, 1, i - 1)
  OBVIOUS
<1>3. PICK b : b = SubSeq(s, i + 1, Len(s))
  OBVIOUS
<1>4. a \in Seq(S) /\ Len(a) = i - 1 /\ \A j \in 1..(i - 1) : a[j] = s[j]
  <2>1. \A j \in 1..(i - 1) : s[j] \in S
    BY <1>1
  <2>2. /\ SubSeq(s, 1, i - 1) \in Seq(S)
        /\ Len(SubSeq(s, 1, i - 1)) = IF 1 <= i - 1 THEN i - 1 - 1 + 1 ELSE 0
        /\ \A j \in 1..(i - 1 - 1 + 1) : SubSeq(s, 1, i - 1)[j] = s[1 + j - 1]
    BY <2>1, SubSeqProperties
  <2>3. \A j \in 1..(i - 1) : 1 + j - 1 = j
    OBVIOUS
  <2> QED BY <1>1, <1>2, <2>2, <2>3
<1>5. b \in Seq(S) /\ Len(b) = Len(s) - i /\ \A j \in 1..(Len(s) - i) : b[j] = s[i + j]
  <2>1. \A j \in (i + 1)..Len(s) : s[j] \in S
    BY <1>1
  <2>2. /\ SubSeq(s, i + 1, Len(s)) \in Seq(S)
        /\ Len(SubSeq(s, i + 1, Len(s))) = IF i + 1 <= Len(s) THEN Len(s) - (i + 1) + 1 ELSE 0
        /\ \A j \in 1..(Len(s) - (i + 1) + 1) : SubSeq(s, i + 1, Len(s))[j] = s[i + 1 + j - 1]
    BY <1>1, <2>1, SubSeqProperties
  <2>3. \A j \in 1..(Len(s) - i) : i + 1 + j - 1 = i + j
    BY <1>1
  <2> QED BY <1>1, <1>3, <2>2, <2>3
<1>6. r = a \o b
  BY <1>2, <1>3 DEF Memo!RemoveAt
<1>7. /\ r \in Seq(S) /\ Len(r) = Len(a) + Len(b)
      /\ \A j \in 1..(Len(a) + Len(b)) : r[j] = IF j <= Len(a) THEN a[j] ELSE b[j - Len(a)]
  <2>1. a \in Seq(S) /\ b \in Seq(S)
    BY <1>4, <1>5
  <2>2. /\ a \o b \in Seq(S) /\ Len(a \o b) = Len(a) + Len(b)
        /\ \A j \in 1..(Len(a) + Len(b)) : (a \o b)[j] = IF j <= Len(a) THEN a[j] ELSE b[j - Len(a)]
    BY <2>1, ConcatProperties
  <2> QED BY <1>6, <2>2
<1>8. ASSUME NEW j \in 1..(Len(s) - 1) PROVE r[j] = IF j < i THEN s[j] ELSE s[j + 1]
  <2>a. Len(a) = i - 1 /\ Len(b) = Len(s) - i /\ i \in Int /\ Len(s) \in Int
    BY <1>1, <1>4, <1>5
  <2>b. Len(a) + Len(b) = Len(s) - 1
    BY <2>a
  <2>c. r[j] = IF j <= i - 1 THEN a[j] ELSE b[j - (i - 1)]
    BY <1>7, <2>a, <2>b
  <2>1. CASE j < i
    <3>1. j \in 1..(i - 1) /\ j <= i - 1
      BY <2>a, <2>1
    <3>2. a[j] = s[j]
      BY <1>4, <3>1
    <3> QED BY <2>c, <2>1, <3>1, <3>2
  <2>2. CASE ~(j < i)
    <3>1. j - (i - 1) \in 1..(Len(s) - i) /\ i + (j - (i - 1)) = j + 1 /\ ~(j <= i - 1)
      BY <2>a, <2>2
    <3>2. r[j] = b[j - (i - 1)]
      BY <2>c, <3>1
    <3>3. b[j - (i - 1)] = s[i + (j - (i - 1))]
      BY <1>5, <3>1
    <3> QED BY <2>2, <3>1, <3>2, <3>3
  <2> QED BY <2>1, <2>2
<1> QED BY <1>1, <1>4, <1>5, <1>7, <1>8

\* s lists every one of the keys, once.
Listing(s, keys) ==
    /\ s \in Seq(Urls)
    /\ \A i, j \in 1..Len(s) : s[i] = s[j] => i = j
    /\ keys = {s[i] : i \in 1..Len(s)}

LEMMA ListingDrops ==
  ASSUME NEW s, NEW keys, Listing(s, keys), NEW i \in 1..Len(s), NEW r, r = Memo!RemoveAt(s, i)
  PROVE  Listing(r, keys \ {s[i]}) /\ Len(r) = Len(s) - 1
<1>1. s \in Seq(Urls) /\ Len(s) \in Nat
  BY LenProperties DEF Listing
<1>2. /\ r \in Seq(Urls) /\ Len(r) = Len(s) - 1
      /\ \A j \in 1..(Len(s) - 1) : r[j] = IF j < i THEN s[j] ELSE s[j + 1]
  BY <1>1, Removed, SMTT(30)
<1>3. ASSUME NEW j \in 1..Len(r) PROVE \E h \in 1..Len(s) : h # i /\ h = (IF j < i THEN j ELSE j + 1) /\ r[j] = s[h]
  BY <1>1, <1>2
<1>4. ASSUME NEW j \in 1..Len(r), NEW k \in 1..Len(r), r[j] = r[k] PROVE j = k
  <2>1. PICK h \in 1..Len(s) : h = (IF j < i THEN j ELSE j + 1) /\ r[j] = s[h]
    BY <1>3
  <2>2. PICK g \in 1..Len(s) : g = (IF k < i THEN k ELSE k + 1) /\ r[k] = s[g]
    BY <1>3
  <2>3. h = g
    BY <1>4, <2>1, <2>2 DEF Listing
  <2> QED BY <1>1, <1>2, <2>1, <2>2, <2>3
<1>5. ASSUME NEW h \in 1..Len(s), h # i PROVE \E j \in 1..Len(r) : r[j] = s[h]
  <2>1. CASE h < i
    BY <1>1, <1>2, <2>1
  <2>2. CASE h > i
    <3>1. h - 1 \in 1..Len(r) /\ ~(h - 1 < i) /\ h - 1 + 1 = h
      BY <1>1, <1>2, <2>2
    <3> QED BY <1>2, <3>1
  <2> QED BY <1>1, <1>5, <2>1, <2>2
<1>6. keys \ {s[i]} = {r[j] : j \in 1..Len(r)}
  <2>1. keys = {s[j] : j \in 1..Len(s)} /\ \A h, j \in 1..Len(s) : s[h] = s[j] => h = j
    BY DEF Listing
  <2>2. ASSUME NEW x \in keys \ {s[i]} PROVE x \in {r[j] : j \in 1..Len(r)}
    BY <1>5, <2>1
  <2>3. ASSUME NEW j \in 1..Len(r) PROVE r[j] \in keys \ {s[i]}
    <3>1. PICK h \in 1..Len(s) : h # i /\ r[j] = s[h]
      BY <1>3
    <3> QED BY <2>1, <3>1
  <2> QED BY <2>2, <2>3
<1> QED BY <1>2, <1>4, <1>6 DEF Listing

LEMMA ListingGains ==
  ASSUME NEW s, NEW keys, Listing(s, keys), NEW u \in Urls, u \notin keys, NEW r, r = Append(s, u)
  PROVE  Listing(r, keys \cup {u}) /\ Len(r) = Len(s) + 1
<1>1. s \in Seq(Urls) /\ Len(s) \in Nat /\ keys = {s[i] : i \in 1..Len(s)} /\ \A h, j \in 1..Len(s) : s[h] = s[j] => h = j
  BY LenProperties DEF Listing
<1>2. /\ r \in Seq(Urls) /\ Len(r) = Len(s) + 1 /\ r[Len(s) + 1] = u
      /\ \A j \in 1..Len(s) : r[j] = s[j]
  BY <1>1, AppendProperties
<1>3. \A j \in 1..Len(r) : (j = Len(s) + 1 /\ r[j] = u) \/ (j \in 1..Len(s) /\ r[j] = s[j])
  BY <1>1, <1>2
<1>4. \A h, j \in 1..Len(r) : r[h] = r[j] => h = j
  BY <1>1, <1>3
<1>5. keys \cup {u} = {r[j] : j \in 1..Len(r)}
  <2>1. \A x \in keys \cup {u} : \E j \in 1..Len(r) : x = r[j]
    BY <1>1, <1>2
  <2>2. \A j \in 1..Len(r) : r[j] \in keys \cup {u}
    BY <1>1, <1>3
  <2> QED BY <2>1, <2>2
<1> QED BY <1>2, <1>4, <1>5 DEF Listing

LEMMA ListingMoves ==
  ASSUME NEW keys, Listing(order, keys), NEW u \in Urls, Memo!Moved(u)
  PROVE  Listing(order', keys) /\ Len(order') = Len(order)
<1>1. Len(order) \in Nat /\ DOMAIN order = 1..Len(order)
  BY LenProperties DEF Listing
<1>2. PICK i \in 1..Len(order) : order[i] = u /\ order' = Append(Memo!RemoveAt(order, i), u)
  BY <1>1 DEF Memo!Moved, Memo!Places
<1>3. PICK r : r = Memo!RemoveAt(order, i)
  OBVIOUS
<1>4. Listing(r, keys \ {u}) /\ Len(r) = Len(order) - 1
  BY <1>2, <1>3, ListingDrops
<1>5. Listing(order', (keys \ {u}) \cup {u}) /\ Len(order') = Len(r) + 1
  <2>1. u \notin keys \ {u}
    BY <1>2
  <2>2. order' = Append(r, u)
    BY <1>2, <1>3
  <2>3. Listing(r, keys \ {u})
    BY <1>4
  <2> QED BY <2>1, <2>2, <2>3, ListingGains
<1>6. u \in keys
  BY <1>2 DEF Listing
<1>7. (keys \ {u}) \cup {u} = keys
  BY <1>6
<1>8. Listing(order', keys) /\ Len(order') = Len(order) - 1 + 1
  BY <1>4, <1>5, <1>7
<1> QED BY <1>1, <1>8

\* Of the dictionary e and the calls a: the keys, those whose thread is about to move
\* them, and the threads that make room.
Keyed(e) == {u \in Urls : e[u] # None}
Movers(e, a) == {u \in Keyed(e) : \E t \in Threads : a[t].pc = "move" /\ a[t].url = u}
Trimmers(a) == {t \in Threads : a[t].pc \in {"trim", "pop"}}
Fits(n, e, a) == n <= MaxEntries + Cardinality(Movers(e, a)) + Cardinality(Trimmers(a))

LEMMA FewStoring ==
  ASSUME Memo!MemoAssumption, NEW e, NEW a
  PROVE  /\ IsFiniteSet(Movers(e, a)) /\ IsFiniteSet(Trimmers(a))
         /\ Cardinality(Movers(e, a)) \in Nat /\ Cardinality(Trimmers(a)) \in Nat
         /\ \A S : S = {t \in Threads : a[t].pc \in {"move", "trim", "pop"}} =>
               Cardinality(S) \in Nat /\ Cardinality(Movers(e, a)) + Cardinality(Trimmers(a)) <= Cardinality(S)
<1>1. IsFiniteSet(Threads)
  BY SameSets, Zenon DEF Memo!MemoAssumption
<1>2. PICK M : M = {t \in Threads : a[t].pc = "move" /\ a[t].url \in Keyed(e)}
  OBVIOUS
<1>3. PICK f : f = [t \in M |-> a[t].url]
  OBVIOUS
<1>4. f \in Surjection(M, Movers(e, a))
  <2>1. f \in [M -> Movers(e, a)]
    BY <1>2, <1>3 DEF Movers
  <2>2. \A u \in Movers(e, a) : \E t \in M : f[t] = u
    BY <1>2, <1>3 DEF Movers
  <2> QED BY <2>1, <2>2 DEF Surjection
<1>5. IsFiniteSet(M) /\ IsFiniteSet(Trimmers(a))
  BY <1>1, <1>2, FS_Subset DEF Trimmers
<1>6. IsFiniteSet(Movers(e, a)) /\ Cardinality(Movers(e, a)) <= Cardinality(M)
  BY <1>4, <1>5, FS_Surjection
<1>7. Cardinality(M) \in Nat /\ Cardinality(Trimmers(a)) \in Nat /\ Cardinality(Movers(e, a)) \in Nat
  BY <1>5, <1>6, FS_CardinalityType
<1>8. ASSUME NEW S, S = {t \in Threads : a[t].pc \in {"move", "trim", "pop"}}
      PROVE  Cardinality(S) \in Nat /\ Cardinality(Movers(e, a)) + Cardinality(Trimmers(a)) <= Cardinality(S)
  <2>1. IsFiniteSet(S)
    BY <1>1, <1>8, FS_Subset
  <2>2. M \cup Trimmers(a) \in SUBSET S /\ M \cap Trimmers(a) = {}
    BY <1>2, <1>8 DEF Trimmers
  <2>3. Cardinality(M \cup Trimmers(a)) = Cardinality(M) + Cardinality(Trimmers(a)) - Cardinality({})
    BY <1>5, <2>2, FS_Union
  <2>4. Cardinality({}) = 0
    BY FS_EmptySet
  <2>5. Cardinality(M \cup Trimmers(a)) <= Cardinality(S) /\ Cardinality(S) \in Nat
    BY <2>1, <2>2, FS_Subset, FS_CardinalityType
  <2> QED BY <1>6, <1>7, <2>3, <2>4, <2>5
<1> QED BY <1>5, <1>6, <1>7, <1>8

\* Every answered verdict was young when it was asked for.
Young(a) == a # None /\ a.answer \in Memo!Verdicts => a.asked < a.at + TTL

\* A call past its question has a URL, and one past the network an entry as old as it.
Underway(c) ==
    /\ c.pc # "idle" => c.url \in Urls
    /\ c.pc \in {"store", "move", "trim", "pop"} => c.held # None /\ c.held.at = c.now

MemoInv ==
    /\ Memo!MemoType
    /\ Listing(order, Keyed(entry))
    /\ Fits(Len(order), entry, asking)
    /\ \A t \in Threads : Underway(asking[t])
    /\ Young(served)

LEMMA Apart ==
  ASSUME Memo!MemoAssumption
  PROVE  /\ TTL \in Nat \ {0} /\ MaxEntries \in Nat /\ None \notin Urls
         /\ \A x \in Memo!Entry : x # None /\ x.at \in Nat /\ x.verdict \in Memo!Verdicts
         /\ Memo!Idle \in Memo!Call
<1>1. None \notin Memo!Entry /\ None \notin Urls /\ {TTL, MaxEntries} \subseteq Nat \ {0}
  BY Zenon DEF Memo!MemoAssumption
<1>2. Memo!Idle \in Memo!Call
  BY DEF Memo!Idle, Memo!Call
<1>3. \A x \in Memo!Entry : x.at \in Nat /\ x.verdict \in Memo!Verdicts
  BY DEF Memo!Entry
<1> QED BY <1>1, <1>2, <1>3

\* What a step of t leaves of the other calls.
Others(t) == \A s \in Threads \ {t} : asking'[s] = asking[s]

LEMMA Goes ==
  ASSUME asking \in [Threads -> Memo!Call], NEW t \in Threads,
         NEW p \in {"idle", "got", "fetch", "store", "move", "trim", "pop"}, Memo!Goes(t, p)
  PROVE  /\ asking' \in [Threads -> Memo!Call] /\ Others(t) /\ served' = served
         /\ asking'[t].pc = p /\ asking'[t].url = asking[t].url
         /\ asking'[t].now = asking[t].now /\ asking'[t].held = asking[t].held
<1>1. PICK c \in Memo!Call : c = asking[t]
  OBVIOUS
<1>2. PICK d : d = [c EXCEPT !.pc = p]
  OBVIOUS
<1>3. d \in Memo!Call /\ d.pc = p /\ d.url = c.url /\ d.now = c.now /\ d.held = c.held
  BY <1>1, <1>2 DEF Memo!Call
<1>4. asking' = [asking EXCEPT ![t] = d] /\ served' = served
  BY <1>1, <1>2 DEF Memo!Goes
<1>5. asking' \in [Threads -> Memo!Call] /\ Others(t) /\ asking'[t] = d
  BY <1>3, <1>4 DEF Others
<1> QED BY <1>1, <1>3, <1>4, <1>5

LEMMA Returns ==
  ASSUME Memo!MemoAssumption, asking \in [Threads -> Memo!Call], NEW t \in Threads,
         NEW answer, NEW at, Memo!Return(t, answer, at)
  PROVE  /\ asking' \in [Threads -> Memo!Call] /\ Others(t) /\ asking'[t] = Memo!Idle
         /\ served' = [answer |-> answer, at |-> at, asked |-> asking[t].now]
<1>1. asking' = [asking EXCEPT ![t] = Memo!Idle] /\ served' = [answer |-> answer, at |-> at, asked |-> asking[t].now]
  BY DEF Memo!Return
<1>2. asking' \in [Threads -> Memo!Call] /\ Others(t) /\ asking'[t] = Memo!Idle
  BY <1>1, Apart DEF Others
<1> QED BY <1>1, <1>2

\* A raised error is no verdict.
LEMMA Raises ==
  ASSUME Memo!MemoAssumption, asking \in [Threads -> Memo!Call], NEW t \in Threads, Memo!Raise(t)
  PROVE  /\ asking' \in [Threads -> Memo!Call] /\ Others(t) /\ asking'[t] = Memo!Idle
         /\ Young(served')
<1>1. Memo!Return(t, "raised", 0)
  BY DEF Memo!Raise
<1>2. /\ asking' \in [Threads -> Memo!Call] /\ Others(t) /\ asking'[t] = Memo!Idle
      /\ served' = [answer |-> "raised", at |-> 0, asked |-> asking[t].now]
  BY <1>1, Returns
<1>3. served'.answer = "raised" /\ "raised" \notin Memo!Verdicts
  BY <1>2 DEF Memo!Verdicts
<1> QED BY <1>2, <1>3 DEF Young

LEMMA StillUnderway ==
  ASSUME \A s \in Threads : Underway(asking[s]), NEW t \in Threads, Others(t), Underway(asking'[t])
  PROVE  \A s \in Threads : Underway(asking'[s])
BY DEF Others

LEMMA IdleUnderway ==
  Underway(Memo!Idle)
BY DEF Underway, Memo!Idle

\* A call that neither moves nor makes room, before or after its step, counts for nothing.
LEMMA Uncounted ==
  ASSUME NEW e, NEW t \in Threads, Others(t),
         asking[t].pc \notin {"move", "trim", "pop"}, asking'[t].pc \notin {"move", "trim", "pop"}
  PROVE  Movers(e, asking') = Movers(e, asking) /\ Trimmers(asking') = Trimmers(asking)
<1>1. \A s \in Threads : /\ asking'[s].pc = "move" <=> asking[s].pc = "move"
                         /\ asking'[s].pc \in {"trim", "pop"} <=> asking[s].pc \in {"trim", "pop"}
                         /\ asking[s].pc = "move" => asking'[s].url = asking[s].url
  BY DEF Others
<1>2. Trimmers(asking') = Trimmers(asking)
  BY <1>1 DEF Trimmers
<1>3. Movers(e, asking') = Movers(e, asking)
  BY <1>1 DEF Movers
<1> QED BY <1>2, <1>3

\* A key that is deleted takes one from both counts.
LEMMA Deleted ==
  ASSUME Memo!MemoAssumption, entry \in [Urls -> Memo!Entry \cup {None}], NEW u \in Urls, NEW a,
         NEW e, e = [entry EXCEPT ![u] = None]
  PROVE  /\ e \in [Urls -> Memo!Entry \cup {None}] /\ Keyed(e) = Keyed(entry) \ {u}
         /\ Cardinality(Movers(e, a)) \in Nat /\ Cardinality(Movers(entry, a)) \in Nat
         /\ Cardinality(Movers(entry, a)) - 1 <= Cardinality(Movers(e, a))
<1>1. e \in [Urls -> Memo!Entry \cup {None}] /\ Keyed(e) = Keyed(entry) \ {u}
  BY DEF Keyed
<1>2. Movers(e, a) = Movers(entry, a) \ {u}
  BY <1>1 DEF Movers
<1>3. IsFiniteSet(Movers(entry, a)) /\ Cardinality(Movers(entry, a)) \in Nat /\ Cardinality(Movers(e, a)) \in Nat
  BY FewStoring
<1>4. Cardinality(Movers(e, a)) = IF u \in Movers(entry, a) THEN Cardinality(Movers(entry, a)) - 1 ELSE Cardinality(Movers(entry, a))
  BY <1>2, <1>3, FS_RemoveElement
<1>5. Cardinality(Movers(entry, a)) - 1 <= Cardinality(Movers(e, a))
  BY <1>3, <1>4
<1> QED BY <1>1, <1>3, <1>5

LEMMA MemoInvImplies ==
  ASSUME Memo!MemoAssumption, MemoInv
  PROVE  Memo!MemoSound
<1>1. /\ order \in Seq(Urls) /\ Keyed(entry) = {order[i] : i \in 1..Len(order)}
      /\ \A i, j \in 1..Len(order) : order[i] = order[j] => i = j
  BY DEF MemoInv, Listing
<1>2. Len(order) \in Nat /\ DOMAIN order = 1..Len(order)
  BY <1>1, LenProperties
<1>3. Memo!IsInjective(order)
  BY <1>1, <1>2 DEF Memo!IsInjective
<1>4. Memo!ToSet(order) = {u \in Urls : entry[u] # None}
  BY <1>1, <1>2 DEF Memo!ToSet, Keyed
<1>5. Len(order) <= MaxEntries + Memo!Cardinality(Memo!Storing)
  <2>1. Memo!Storing = {t \in Threads : asking[t].pc \in {"move", "trim", "pop"}}
    BY DEF Memo!Storing
  <2>2. /\ Cardinality(Movers(entry, asking)) \in Nat /\ Cardinality(Trimmers(asking)) \in Nat /\ Cardinality(Memo!Storing) \in Nat
        /\ Cardinality(Movers(entry, asking)) + Cardinality(Trimmers(asking)) <= Cardinality(Memo!Storing)
    BY <2>1, FewStoring
  <2>3. Memo!Cardinality(Memo!Storing) = Cardinality(Memo!Storing)
    BY SameSets
  <2>4. Len(order) <= MaxEntries + Cardinality(Movers(entry, asking)) + Cardinality(Trimmers(asking))
    BY DEF MemoInv, Fits
  <2> QED BY <1>2, <2>2, <2>3, <2>4, Apart
<1>6. \A u \in Urls : entry[u] # None => entry[u].verdict \in Memo!Verdicts
  BY Apart DEF MemoInv, Memo!MemoType
<1>7. served # None /\ served.answer \in Memo!Verdicts => served.asked < served.at + TTL
  BY DEF MemoInv, Young
<1> QED BY <1>3, <1>4, <1>5, <1>6, <1>7 DEF Memo!MemoSound

LEMMA MemoFacts ==
  ASSUME Memo!MemoAssumption, MemoInv
  PROVE  /\ clock \in Nat /\ order \in Seq(Urls) /\ Len(order) \in Nat
         /\ entry \in [Urls -> Memo!Entry \cup {None}]
         /\ asking \in [Threads -> Memo!Call] /\ (\A s \in Threads : Underway(asking[s]))
         /\ Listing(order, Keyed(entry)) /\ Fits(Len(order), entry, asking)
         /\ Cardinality(Movers(entry, asking)) \in Nat /\ Cardinality(Trimmers(asking)) \in Nat
BY FewStoring, LenProperties DEF MemoInv, Memo!MemoType

LEMMA AskStep ==
  ASSUME Memo!MemoAssumption, MemoInv, NEW t \in Threads, NEW u \in Urls, Memo!Ask(t, u)
  PROVE  MemoInv'
<1>1. PICK c : c = [pc |-> "got", url |-> u, now |-> clock, held |-> entry[u]]
  OBVIOUS
<1>2. c \in Memo!Call /\ c.pc = "got" /\ c.url = u
  BY <1>1, MemoFacts DEF Memo!Call
<1>3. asking' = [asking EXCEPT ![t] = c] /\ asking[t].pc = "idle" /\ UNCHANGED <<clock, order, entry, served>>
  BY <1>1 DEF Memo!Ask
<1>4. asking' \in [Threads -> Memo!Call] /\ Others(t) /\ asking'[t] = c
  BY <1>2, <1>3, MemoFacts DEF Others
<1>5. Underway(c)
  BY <1>2 DEF Underway
<1>6. \A s \in Threads : Underway(asking'[s])
  BY <1>4, <1>5, MemoFacts, StillUnderway
<1>7. Movers(entry, asking') = Movers(entry, asking) /\ Trimmers(asking') = Trimmers(asking)
  BY <1>2, <1>3, <1>4, Uncounted
<1> QED BY <1>3, <1>4, <1>6, <1>7 DEF MemoInv, Memo!MemoType, Fits

LEMMA HitStep ==
  ASSUME Memo!MemoAssumption, MemoInv, NEW t \in Threads, Memo!Hit(t)
  PROVE  MemoInv'
<1>1. PICK c \in Memo!Call : c = asking[t]
  BY MemoFacts
<1>2. c.pc = "got" /\ c.url \in Urls /\ c.held # None /\ c.now - c.held.at < TTL /\ UNCHANGED <<clock, entry>>
  BY <1>1, MemoFacts DEF Memo!Hit, Memo!Fresh, Underway
<1>3. c.held \in Memo!Entry /\ c.held.at \in Nat /\ c.now \in Nat
  BY <1>1, <1>2, Apart DEF Memo!Call
<1>4. /\ asking' \in [Threads -> Memo!Call] /\ Others(t) /\ asking'[t] = Memo!Idle /\ Young(served')
      /\ order' \in Seq(Urls) /\ Listing(order', Keyed(entry)) /\ Len(order') = Len(order)
  <2>1. CASE entry[c.url] = None
    <3>1. Memo!Raise(t) /\ order' = order
      BY <1>1, <2>1 DEF Memo!Hit
    <3> QED BY <3>1, MemoFacts, Raises
  <2>2. CASE entry[c.url] # None
    <3>1. Memo!Return(t, c.held.verdict, c.held.at) /\ Memo!Moved(c.url)
      BY <1>1, <2>2 DEF Memo!Hit
    <3>2. Listing(order', Keyed(entry)) /\ Len(order') = Len(order)
      BY <1>2, <3>1, MemoFacts, ListingMoves
    <3>3. /\ asking' \in [Threads -> Memo!Call] /\ Others(t) /\ asking'[t] = Memo!Idle
          /\ served' = [answer |-> c.held.verdict, at |-> c.held.at, asked |-> c.now]
      BY <1>1, <3>1, MemoFacts, Returns
    <3>4. c.now < c.held.at + TTL
      BY <1>2, <1>3, Apart
    <3>5. Young(served')
      BY <3>3, <3>4 DEF Young
    <3> QED BY <3>2, <3>3, <3>5 DEF Listing
  <2> QED BY <2>1, <2>2
<1>5. \A s \in Threads : Underway(asking'[s])
  BY <1>4, MemoFacts, StillUnderway, IdleUnderway
<1>6. Movers(entry, asking') = Movers(entry, asking) /\ Trimmers(asking') = Trimmers(asking)
  <2>1. asking'[t].pc = "idle"
    BY <1>4 DEF Memo!Idle
  <2>2. asking[t].pc = "got" /\ Others(t)
    BY <1>1, <1>2, <1>4
  <2> QED BY <2>1, <2>2, Uncounted
<1> QED BY <1>2, <1>4, <1>5, <1>6 DEF MemoInv, Memo!MemoType, Fits

LEMMA ExpireStep ==
  ASSUME Memo!MemoAssumption, MemoInv, NEW t \in Threads, Memo!Expire(t)
  PROVE  MemoInv'
<1>1. PICK c \in Memo!Call : c = asking[t]
  BY MemoFacts
<1>2. c.pc = "got" /\ c.url \in Urls /\ clock' = clock
  BY <1>1, MemoFacts DEF Memo!Expire, Underway
<1>3. CASE c.held # None /\ entry[c.url] = None
  <2>1. Memo!Raise(t) /\ order' = order /\ entry' = entry
    BY <1>1, <1>3 DEF Memo!Expire
  <2>2. /\ asking' \in [Threads -> Memo!Call] /\ Others(t) /\ asking'[t] = Memo!Idle /\ Young(served')
    BY <2>1, MemoFacts, Raises
  <2>3. \A s \in Threads : Underway(asking'[s])
    BY <2>2, MemoFacts, StillUnderway, IdleUnderway
  <2>4. Movers(entry, asking') = Movers(entry, asking) /\ Trimmers(asking') = Trimmers(asking)
    BY <1>1, <1>2, <2>2, Uncounted DEF Memo!Idle
  <2> QED BY <1>2, <2>1, <2>2, <2>3, <2>4 DEF MemoInv, Memo!MemoType, Fits
<1>4. CASE ~(c.held # None /\ entry[c.url] = None)
  <2>1. Memo!Goes(t, "fetch")
    BY <1>1, <1>4 DEF Memo!Expire
  <2>2. /\ asking' \in [Threads -> Memo!Call] /\ Others(t) /\ served' = served
        /\ asking'[t].pc = "fetch" /\ asking'[t].url = c.url
    BY <1>1, <2>1, MemoFacts, Goes
  <2>3. Underway(asking'[t])
    BY <1>2, <2>2 DEF Underway
  <2>4. \A s \in Threads : Underway(asking'[s])
    BY <2>2, <2>3, MemoFacts, StillUnderway
  <2>5. \A e : Movers(e, asking') = Movers(e, asking) /\ Trimmers(asking') = Trimmers(asking)
    BY <1>1, <1>2, <2>2, Uncounted
  <2>6. Young(served')
    BY <2>2 DEF MemoInv
  <2>7. CASE c.held = None
    <3>1. order' = order /\ entry' = entry
      BY <1>1, <2>7 DEF Memo!Expire
    <3> QED BY <1>2, <2>2, <2>4, <2>5, <2>6, <3>1 DEF MemoInv, Memo!MemoType, Fits
  <2>8. CASE c.held # None
    <3>1. PICK i \in Memo!Places(c.url) : order' = Memo!RemoveAt(order, i)
      BY <1>1, <1>4, <2>8 DEF Memo!Expire
    <3>2. entry' = [entry EXCEPT ![c.url] = None]
      BY <1>1, <1>4, <2>8 DEF Memo!Expire
    <3>3. i \in 1..Len(order) /\ order[i] = c.url
      BY <3>1, MemoFacts, LenProperties DEF Memo!Places
    <3>4. Listing(order', Keyed(entry) \ {c.url}) /\ Len(order') = Len(order) - 1
      BY <3>1, <3>3, MemoFacts, ListingDrops
    <3>5. /\ entry' \in [Urls -> Memo!Entry \cup {None}] /\ Keyed(entry') = Keyed(entry) \ {c.url}
          /\ Cardinality(Movers(entry', asking)) \in Nat
          /\ Cardinality(Movers(entry, asking)) - 1 <= Cardinality(Movers(entry', asking))
      BY <1>2, <3>2, MemoFacts, Deleted
    <3>6. Fits(Len(order'), entry', asking')
      <4>1. Fits(Len(order'), entry', asking)
        BY <3>4, <3>5, MemoFacts, Apart DEF Fits
      <4> QED BY <2>5, <4>1 DEF Fits
    <3>7. order' \in Seq(Urls)
      BY <3>4 DEF Listing
    <3> QED BY <1>2, <2>2, <2>4, <2>6, <3>4, <3>5, <3>6, <3>7 DEF MemoInv, Memo!MemoType
  <2> QED BY <2>7, <2>8
<1> QED BY <1>3, <1>4

LEMMA FetchStep ==
  ASSUME Memo!MemoAssumption, MemoInv, NEW t \in Threads, NEW answer \in Memo!Replies, Memo!Fetch(t, answer)
  PROVE  MemoInv'
<1>1. PICK c \in Memo!Call : c = asking[t]
  BY MemoFacts
<1>2. c.pc = "fetch" /\ c.url \in Urls /\ UNCHANGED <<clock, order, entry>>
  BY <1>1, MemoFacts DEF Memo!Fetch, Underway
<1>3. /\ asking' \in [Threads -> Memo!Call] /\ Others(t) /\ Young(served')
      /\ Underway(asking'[t]) /\ asking'[t].pc \notin {"move", "trim", "pop"}
  <2>1. CASE answer \in Memo!Verdicts
    <3>1. PICK x : x = [at |-> c.now, verdict |-> answer]
      OBVIOUS
    <3>2. x \in Memo!Entry /\ x.at = c.now
      BY <1>1, <2>1, <3>1 DEF Memo!Entry, Memo!Call
    <3>3. PICK d : d = [c EXCEPT !.pc = "store", !.held = x]
      OBVIOUS
    <3>4. d \in Memo!Call /\ d.pc = "store" /\ d.url = c.url /\ d.now = c.now /\ d.held = x
      BY <1>1, <3>2, <3>3 DEF Memo!Call
    <3>5. asking' = [asking EXCEPT ![t] = d] /\ served' = served
      BY <1>1, <2>1, <3>1, <3>3 DEF Memo!Fetch
    <3>6. asking' \in [Threads -> Memo!Call] /\ Others(t) /\ asking'[t] = d
      BY <3>4, <3>5, MemoFacts DEF Others
    <3>7. Underway(d)
      BY <1>2, <3>2, <3>4, Apart DEF Underway
    <3> QED BY <3>4, <3>5, <3>6, <3>7 DEF MemoInv
  <2>2. CASE answer \notin Memo!Verdicts
    <3>1. Memo!Return(t, answer, c.now)
      BY <1>1, <2>2 DEF Memo!Fetch
    <3>2. /\ asking' \in [Threads -> Memo!Call] /\ Others(t) /\ asking'[t] = Memo!Idle
          /\ served' = [answer |-> answer, at |-> c.now, asked |-> asking[t].now]
      BY <3>1, MemoFacts, Returns
    <3>3. Young(served')
      BY <2>2, <3>2 DEF Young
    <3>4. Memo!Idle.pc = "idle"
      BY DEF Memo!Idle
    <3> QED BY <3>2, <3>3, <3>4, IdleUnderway
  <2> QED BY <2>1, <2>2
<1>4. \A s \in Threads : Underway(asking'[s])
  BY <1>3, MemoFacts, StillUnderway
<1>5. Movers(entry, asking') = Movers(entry, asking) /\ Trimmers(asking') = Trimmers(asking)
  BY <1>1, <1>2, <1>3, Uncounted
<1> QED BY <1>2, <1>3, <1>4, <1>5 DEF MemoInv, Memo!MemoType, Fits

\* Who stores a new key lengthens the order, and is about to move the key.
LEMMA StoreStep ==
  ASSUME Memo!MemoAssumption, MemoInv, NEW t \in Threads, Memo!Store(t)
  PROVE  MemoInv'
<1>1. PICK c \in Memo!Call : c = asking[t]
  BY MemoFacts
<1>2. /\ c.pc = "store" /\ c.url \in Urls /\ c.held # None /\ c.held.at = c.now /\ clock' = clock
      /\ Memo!Goes(t, "move") /\ entry' = [entry EXCEPT ![c.url] = c.held]
      /\ order' = IF entry[c.url] = None THEN Append(order, c.url) ELSE order
  BY <1>1, MemoFacts DEF Memo!Store, Underway
<1>3. c.held \in Memo!Entry
  BY <1>1, <1>2 DEF Memo!Call
<1>4. /\ asking' \in [Threads -> Memo!Call] /\ Others(t) /\ served' = served
      /\ asking'[t].pc = "move" /\ asking'[t].url = c.url
      /\ asking'[t].now = c.now /\ asking'[t].held = c.held
  BY <1>1, <1>2, MemoFacts, Goes
<1>5. \A s \in Threads : Underway(asking'[s])
  <2>1. Underway(asking'[t])
    BY <1>2, <1>4 DEF Underway
  <2> QED BY <1>4, <2>1, MemoFacts, StillUnderway
<1>6. entry' \in [Urls -> Memo!Entry \cup {None}] /\ Keyed(entry') = Keyed(entry) \cup {c.url}
  BY <1>2, <1>3, MemoFacts, Apart DEF Keyed
<1>7. Trimmers(asking') = Trimmers(asking)
  BY <1>1, <1>2, <1>4 DEF Trimmers, Others
<1>8. Movers(entry', asking') = Movers(entry, asking) \cup {c.url}
  <2>1. \A s \in Threads : asking'[s].pc = "move" <=> s = t \/ asking[s].pc = "move"
    BY <1>4 DEF Others
  <2>2. \A s \in Threads : asking[s].pc = "move" => asking'[s].url = asking[s].url
    BY <1>1, <1>2, <1>4 DEF Others
  <2>3. ASSUME NEW u \in Movers(entry', asking') PROVE u \in Movers(entry, asking) \cup {c.url}
    BY <1>4, <1>6, <2>1, <2>2 DEF Movers
  <2>4. ASSUME NEW u \in Movers(entry, asking) \cup {c.url} PROVE u \in Movers(entry', asking')
    BY <1>4, <1>6, <2>1, <2>2 DEF Movers
  <2> QED BY <2>3, <2>4
<1>9. /\ IsFiniteSet(Movers(entry, asking)) /\ Cardinality(Movers(entry', asking')) \in Nat
      /\ Cardinality(Movers(entry', asking')) = IF c.url \in Movers(entry, asking) THEN Cardinality(Movers(entry, asking))
                                                ELSE Cardinality(Movers(entry, asking)) + 1
  BY <1>8, FewStoring, FS_AddElement
<1>10. /\ Listing(order', Keyed(entry')) /\ Fits(Len(order'), entry', asking')
  <2>1. CASE entry[c.url] = None
    <3>1. c.url \notin Keyed(entry) /\ c.url \notin Movers(entry, asking)
      BY <2>1 DEF Keyed, Movers
    <3>2. order' = Append(order, c.url)
      BY <1>2, <2>1
    <3>3. Listing(order', Keyed(entry')) /\ Len(order') = Len(order) + 1
      <4>1. Listing(order', Keyed(entry) \cup {c.url}) /\ Len(order') = Len(order) + 1
        <5>1. Listing(order, Keyed(entry)) /\ c.url \in Urls
          BY <1>2, MemoFacts, Zenon
        <5> QED BY <5>1, <3>1, <3>2, ListingGains, Zenon
      <4> QED BY <1>6, <4>1
    <3> QED BY <1>7, <1>9, <3>1, <3>3, MemoFacts, Apart DEF Fits
  <2>2. CASE entry[c.url] # None
    <3>1. order' = order /\ Keyed(entry') = Keyed(entry)
      BY <1>2, <1>6, <2>2 DEF Keyed
    <3> QED BY <1>7, <1>9, <3>1, MemoFacts, Apart DEF Fits
  <2> QED BY <2>1, <2>2
<1> QED BY <1>2, <1>4, <1>5, <1>6, <1>10 DEF MemoInv, Memo!MemoType, Listing

\* Who has moved a key makes room.
LEMMA MoveStep ==
  ASSUME Memo!MemoAssumption, MemoInv, NEW t \in Threads, Memo!Move(t)
  PROVE  MemoInv'
<1>1. PICK c \in Memo!Call : c = asking[t]
  BY MemoFacts
<1>2. c.pc = "move" /\ c.url \in Urls /\ c.held # None /\ c.held.at = c.now /\ UNCHANGED <<clock, entry>>
  BY <1>1, MemoFacts DEF Memo!Move, Underway
<1>3. CASE entry[c.url] = None
  <2>1. Memo!Raise(t) /\ order' = order
    BY <1>1, <1>3 DEF Memo!Move
  <2>2. asking' \in [Threads -> Memo!Call] /\ Others(t) /\ asking'[t] = Memo!Idle /\ Young(served')
    BY <2>1, MemoFacts, Raises
  <2>3. \A s \in Threads : Underway(asking'[s])
    BY <2>2, MemoFacts, StillUnderway, IdleUnderway
  <2>4. asking'[t].pc = "idle"
    BY <2>2 DEF Memo!Idle
  <2>5. Trimmers(asking') = Trimmers(asking)
    BY <1>1, <1>2, <2>2, <2>4 DEF Trimmers, Others
  <2>6. Movers(entry, asking') = Movers(entry, asking)
    <3>1. c.url \notin Keyed(entry)
      BY <1>3 DEF Keyed
    <3>2. \A s \in Threads : s # t => asking'[s] = asking[s]
      BY <2>2 DEF Others
    <3> QED BY <1>1, <2>4, <3>1, <3>2 DEF Movers
  <2> QED BY <1>2, <2>1, <2>2, <2>3, <2>5, <2>6 DEF MemoInv, Memo!MemoType, Fits
<1>4. CASE entry[c.url] # None
  <2>1. Memo!Goes(t, "trim") /\ Memo!Moved(c.url)
    BY <1>1, <1>4 DEF Memo!Move
  <2>2. Listing(order', Keyed(entry)) /\ Len(order') = Len(order)
    BY <1>2, <2>1, MemoFacts, ListingMoves
  <2>3. /\ asking' \in [Threads -> Memo!Call] /\ Others(t) /\ served' = served
        /\ asking'[t].pc = "trim" /\ asking'[t].url = c.url
        /\ asking'[t].now = c.now /\ asking'[t].held = c.held
    BY <1>1, <2>1, MemoFacts, Goes
  <2>4. \A s \in Threads : Underway(asking'[s])
    <3>1. Underway(asking'[t])
      BY <1>2, <2>3 DEF Underway
    <3> QED BY <2>3, <3>1, MemoFacts, StillUnderway
  <2>5. Trimmers(asking') = Trimmers(asking) \cup {t} /\ t \notin Trimmers(asking)
    BY <1>1, <1>2, <2>3 DEF Trimmers, Others
  <2>6. Movers(entry, asking) \ {c.url} \subseteq Movers(entry, asking')
    <3>1. \A s \in Threads : s # t => asking'[s] = asking[s]
      BY <2>3 DEF Others
    <3> QED BY <1>1, <3>1 DEF Movers
  <2>7. /\ IsFiniteSet(Movers(entry, asking)) /\ IsFiniteSet(Movers(entry, asking')) /\ IsFiniteSet(Trimmers(asking))
        /\ Cardinality(Movers(entry, asking')) \in Nat
    BY FewStoring
  <2>8. Cardinality(Trimmers(asking')) = Cardinality(Trimmers(asking)) + 1
    BY <2>5, <2>7, FS_AddElement
  <2>9. Cardinality(Movers(entry, asking)) - 1 <= Cardinality(Movers(entry, asking'))
    <3>1. /\ IsFiniteSet(Movers(entry, asking) \ {c.url})
          /\ \/ Cardinality(Movers(entry, asking) \ {c.url}) = Cardinality(Movers(entry, asking))
             \/ Cardinality(Movers(entry, asking) \ {c.url}) = Cardinality(Movers(entry, asking)) - 1
      BY <2>7, FS_RemoveElement
    <3>2. Cardinality(Movers(entry, asking) \ {c.url}) <= Cardinality(Movers(entry, asking'))
      BY <2>6, <2>7, FS_Subset
    <3> QED BY <2>7, <3>1, <3>2, MemoFacts
  <2>10. Fits(Len(order'), entry, asking')
    BY <2>2, <2>7, <2>8, <2>9, MemoFacts, Apart DEF Fits
  <2>11. Young(served') /\ order' \in Seq(Urls)
    BY <2>2, <2>3 DEF MemoInv, Listing
  <2> QED BY <1>2, <2>2, <2>3, <2>4, <2>10, <2>11 DEF MemoInv, Memo!MemoType
<1> QED BY <1>3, <1>4

LEMMA TrimStep ==
  ASSUME Memo!MemoAssumption, MemoInv, NEW t \in Threads, Memo!Trim(t)
  PROVE  MemoInv'
<1>1. PICK c \in Memo!Call : c = asking[t]
  BY MemoFacts
<1>2. c.pc = "trim" /\ c.url \in Urls /\ c.held # None /\ c.held.at = c.now /\ UNCHANGED <<clock, order, entry>>
  BY <1>1, MemoFacts DEF Memo!Trim, Underway
<1>3. CASE Len(order) > MaxEntries
  <2>1. Memo!Goes(t, "pop")
    BY <1>3 DEF Memo!Trim
  <2>2. /\ asking' \in [Threads -> Memo!Call] /\ Others(t) /\ served' = served
        /\ asking'[t].pc = "pop" /\ asking'[t].url = c.url
        /\ asking'[t].now = c.now /\ asking'[t].held = c.held
    BY <1>1, <2>1, MemoFacts, Goes
  <2>3. \A s \in Threads : Underway(asking'[s])
    <3>1. Underway(asking'[t])
      BY <1>2, <2>2 DEF Underway
    <3> QED BY <2>2, <3>1, MemoFacts, StillUnderway
  <2>4. Trimmers(asking') = Trimmers(asking) /\ Movers(entry, asking') = Movers(entry, asking)
    <3>1. \A s \in Threads : /\ asking'[s].pc \in {"trim", "pop"} <=> asking[s].pc \in {"trim", "pop"}
                             /\ asking'[s].pc = "move" <=> asking[s].pc = "move"
                             /\ asking'[s].url = asking[s].url
      BY <1>1, <1>2, <2>2 DEF Others
    <3> QED BY <3>1 DEF Trimmers, Movers
  <2> QED BY <1>2, <2>2, <2>3, <2>4 DEF MemoInv, Memo!MemoType, Fits
<1>4. CASE ~(Len(order) > MaxEntries)
  <2>1. Memo!Return(t, c.held.verdict, c.held.at)
    BY <1>1, <1>4 DEF Memo!Trim
  <2>2. /\ asking' \in [Threads -> Memo!Call] /\ Others(t) /\ asking'[t] = Memo!Idle
        /\ served' = [answer |-> c.held.verdict, at |-> c.held.at, asked |-> c.now]
    BY <1>1, <2>1, MemoFacts, Returns
  <2>3. c.now \in Nat /\ c.now < c.now + TTL
    BY <1>1, Apart DEF Memo!Call
  <2>4. Young(served')
    BY <1>2, <2>2, <2>3 DEF Young
  <2>5. \A s \in Threads : Underway(asking'[s])
    BY <2>2, MemoFacts, StillUnderway, IdleUnderway
  <2>6. Cardinality(Movers(entry, asking')) \in Nat /\ Cardinality(Trimmers(asking')) \in Nat
    BY FewStoring
  <2>7. Fits(Len(order), entry, asking')
    BY <1>4, <2>6, MemoFacts, Apart DEF Fits
  <2> QED BY <1>2, <2>2, <2>4, <2>5, <2>7 DEF MemoInv, Memo!MemoType
<1> QED BY <1>3, <1>4

LEMMA PopStep ==
  ASSUME Memo!MemoAssumption, MemoInv, NEW t \in Threads, Memo!Pop(t)
  PROVE  MemoInv'
<1>1. PICK c \in Memo!Call : c = asking[t]
  BY MemoFacts
<1>2. c.pc = "pop" /\ c.url \in Urls /\ c.held # None /\ c.held.at = c.now /\ clock' = clock
  BY <1>1, MemoFacts DEF Memo!Pop, Underway
<1>3. CASE order = <<>>
  <2>1. Memo!Raise(t) /\ order' = order /\ entry' = entry
    BY <1>3 DEF Memo!Pop
  <2>2. asking' \in [Threads -> Memo!Call] /\ Others(t) /\ asking'[t] = Memo!Idle /\ Young(served')
    BY <2>1, MemoFacts, Raises
  <2>3. \A s \in Threads : Underway(asking'[s])
    BY <2>2, MemoFacts, StillUnderway, IdleUnderway
  <2>4. Cardinality(Movers(entry, asking')) \in Nat /\ Cardinality(Trimmers(asking')) \in Nat
    BY FewStoring
  <2>5. Len(order) = 0
    BY <1>3, EmptySeq
  <2>6. Fits(Len(order), entry, asking')
    BY <2>4, <2>5, Apart DEF Fits
  <2> QED BY <1>2, <2>1, <2>2, <2>3, <2>6 DEF MemoInv, Memo!MemoType
<1>4. CASE order # <<>>
  <2>1. Memo!Goes(t, "trim") /\ entry' = [entry EXCEPT ![order[1]] = None] /\ order' = Memo!RemoveAt(order, 1)
    BY <1>4 DEF Memo!Pop
  <2>2. /\ asking' \in [Threads -> Memo!Call] /\ Others(t) /\ served' = served
        /\ asking'[t].pc = "trim" /\ asking'[t].url = c.url
        /\ asking'[t].now = c.now /\ asking'[t].held = c.held
    BY <1>1, <2>1, MemoFacts, Goes
  <2>3. \A s \in Threads : Underway(asking'[s])
    <3>1. Underway(asking'[t])
      BY <1>2, <2>2 DEF Underway
    <3> QED BY <2>2, <3>1, MemoFacts, StillUnderway
  <2>4. \A e : Trimmers(asking') = Trimmers(asking) /\ Movers(e, asking') = Movers(e, asking)
    <3>1. \A s \in Threads : /\ asking'[s].pc \in {"trim", "pop"} <=> asking[s].pc \in {"trim", "pop"}
                             /\ asking'[s].pc = "move" <=> asking[s].pc = "move"
                             /\ asking'[s].url = asking[s].url
      BY <1>1, <1>2, <2>2 DEF Others
    <3> QED BY <3>1 DEF Trimmers, Movers
  <2>5. 1 \in 1..Len(order) /\ order[1] \in Urls
    <3>1. Len(order) # 0
      BY <1>4, MemoFacts, EmptySeq
    <3> QED BY <3>1, MemoFacts, ElementOfSeq
  <2>6. Listing(order', Keyed(entry) \ {order[1]}) /\ Len(order') = Len(order) - 1
    BY <2>1, <2>5, MemoFacts, ListingDrops
  <2>7. /\ entry' \in [Urls -> Memo!Entry \cup {None}] /\ Keyed(entry') = Keyed(entry) \ {order[1]}
        /\ Cardinality(Movers(entry', asking)) \in Nat
        /\ Cardinality(Movers(entry, asking)) - 1 <= Cardinality(Movers(entry', asking))
    BY <2>1, <2>5, MemoFacts, Deleted
  <2>8. Fits(Len(order'), entry', asking')
    <3>1. Fits(Len(order'), entry', asking)
      BY <2>6, <2>7, MemoFacts, Apart DEF Fits
    <3> QED BY <2>4, <3>1 DEF Fits
  <2>9. Young(served') /\ order' \in Seq(Urls)
    BY <2>2, <2>6 DEF MemoInv, Listing
  <2> QED BY <1>2, <2>2, <2>3, <2>6, <2>7, <2>8, <2>9 DEF MemoInv, Memo!MemoType
<1> QED BY <1>3, <1>4

LEMMA MemoStarts ==
  ASSUME Memo!MemoAssumption, Memo!Init
  PROVE  MemoInv
<1>1. /\ clock = 1 /\ order = <<>> /\ served = None
      /\ entry = [u \in Urls |-> None] /\ asking = [t \in Threads |-> Memo!Idle]
  BY DEF Memo!Init
<1>2. Memo!MemoType
  BY <1>1, Apart, EmptySeq DEF Memo!MemoType
<1>3. Keyed(entry) = {}
  BY <1>1 DEF Keyed
<1>4. Len(order) = 0 /\ order \in Seq(Urls)
  BY <1>1, EmptySeq
<1>5. Listing(order, Keyed(entry))
  BY <1>3, <1>4 DEF Listing
<1>6. Cardinality(Movers(entry, asking)) \in Nat /\ Cardinality(Trimmers(asking)) \in Nat
  BY FewStoring
<1>7. Fits(Len(order), entry, asking)
  BY <1>4, <1>6, Apart DEF Fits
<1>8. \A t \in Threads : Underway(asking[t])
  BY <1>1, IdleUnderway
<1> QED BY <1>1, <1>2, <1>5, <1>7, <1>8 DEF MemoInv, Young

LEMMA MemoStep ==
  ASSUME Memo!MemoAssumption, MemoInv, [Memo!Next]_(Memo!vars)
  PROVE  MemoInv'
<1>1. ASSUME NEW t \in Threads, NEW u \in Urls, Memo!Ask(t, u) PROVE MemoInv'
  BY <1>1, AskStep
<1>2. ASSUME NEW t \in Threads, NEW a \in Memo!Replies, Memo!Fetch(t, a) PROVE MemoInv'
  BY <1>2, FetchStep
<1>3. ASSUME NEW t \in Threads, Memo!Hit(t) PROVE MemoInv'
  BY <1>3, HitStep
<1>4. ASSUME NEW t \in Threads, Memo!Expire(t) PROVE MemoInv'
  BY <1>4, ExpireStep
<1>5. ASSUME NEW t \in Threads, Memo!Store(t) PROVE MemoInv'
  BY <1>5, StoreStep
<1>6. ASSUME NEW t \in Threads, Memo!Move(t) PROVE MemoInv'
  BY <1>6, MoveStep
<1>7. ASSUME NEW t \in Threads, Memo!Trim(t) PROVE MemoInv'
  BY <1>7, TrimStep
<1>8. ASSUME NEW t \in Threads, Memo!Pop(t) PROVE MemoInv'
  BY <1>8, PopStep
<1>9. CASE Memo!Tick
  BY <1>9, MemoFacts DEF Memo!Tick, MemoInv, Memo!MemoType
<1>10. CASE UNCHANGED Memo!vars
  BY <1>10 DEF Memo!vars, MemoInv, Memo!MemoType
<1> QED BY <1>1, <1>2, <1>3, <1>4, <1>5, <1>6, <1>7, <1>8, <1>9, <1>10 DEF Memo!Next

\* The memo of a reputation provider (ttl_cache) under any number of threads that have
\* no lock: the dictionary and its order agree, exceed max_entries by at most one entry
\* for each thread that has stored and not made room, and no verdict is served that is
\* ttl_seconds old or that no provider gave.
LEMMA MemoKeeps == ServicesSpec => [](subject = "memo" => Memo!MemoSound)
<1> DEFINE I == subject = "memo" => MemoInv
<1>1. ServicesInit => I
  BY MemoStarts, MemoKnown DEF ServicesInit
<1>2. I /\ [ServicesNext]_allVars => I'
  BY PartSteps, MemoStep, MemoKnown
<1>3. I => (subject = "memo" => Memo!MemoSound)
  BY MemoInvImplies, MemoKnown
<1> HIDE DEF I
<1> QED BY <1>1, <1>2, <1>3, PTL DEF ServicesSpec

\* What the services say of the sources they ask: an outage is told, a verdict is one
\* that a provider gave, in time, however many threads ask at once.
THEOREM SourcesAreHonest == ServicesSpec => []SourcesHonest
<1>1. /\ subject = "lookup" => Lookup!OutageTold /\ Lookup!ExploitedFlagged
      /\ subject = "memo" => Memo!MemoSound
      => SourcesHonest
  BY DEF SourcesHonest
<1> QED BY <1>1, OutagesTold, MemoKeeps, PTL

-----------------------------------------------------------------------------
(* Accounts *)

\* A request past its reading: it holds the row it found.
HasRow(h) == request[h] # None /\ request[h].op # "register"

\* The version of an account counts its password changes, in the row, in the rows
\* requests hold and in the tokens, until two changes overlap.
Counts(e) ==
    /\ users[e] # None => users[e].version = users[e].changes
    /\ \A t \in tokens : t.email = e => t.version = t.born
    /\ \A h \in Threads : HasRow(h) /\ request[h].email = e => request[h].row.version = request[h].row.changes

Counted == \A e \in Emails \ changing : Counts(e)

\* Accounts are never removed.
Registered == \A h \in Threads : HasRow(h) => users[request[h].email] # None

\* An organisation and its user are made in one commit.
Owned ==
    /\ \A s \in orgs : \E e \in Emails : \A f \in Emails : Account!Owner(f, s) <=> f = e
    /\ \A e \in Emails : users[e] # None => users[e].slug \in orgs

AccountsInv == Account!AccountsTypeOK /\ Counted /\ Registered /\ Owned

LEMMA AccountsInvInit == Account!AccountsInit => AccountsInv
BY DEF Account!AccountsInit, AccountsInv, Account!AccountsTypeOK, Counted, Counts, HasRow, Registered, Owned,
       Account!Owner

LEMMA AccountsInvSound == AccountsInv => Account!AccountsSound
<1> SUFFICES ASSUME AccountsInv PROVE Account!AccountsSound
  OBVIOUS
<1>1. ASSUME NEW t \in tokens, Account!Accepted(t, t.type), t.email \notin changing
      PROVE  t.born = users[t.email].changes
  <2>1. t.email \in Emails \ changing
    BY <1>1 DEF AccountsInv, Account!AccountsTypeOK, Account!Token
  <2>2. t.version = users[t.email].version /\ users[t.email] # None
    BY <1>1 DEF Account!Accepted
  <2> QED BY <2>1, <2>2 DEF AccountsInv, Counted, Counts
<1> QED BY <1>1 DEF AccountsInv, Owned, Account!AccountsSound

\* A step that leaves users and organisations alone, makes only tokens of the version
\* they are born with and only opens requests that hold a row of the present.
LEMMA ReadOnly ==
  ASSUME AccountsInv, UNCHANGED <<users, orgs, changing>>, tokens' \subseteq Account!Token,
         request' \in [Threads -> Account!Request \cup {None}],
         \A t \in tokens' \ tokens : t.email \notin changing => t.version = t.born,
         \A h \in Threads : \/ request'[h] \in {request[h], None}
                            \/ request'[h] # None /\ request'[h].op = "register"
                            \/ users[request'[h].email] # None /\ request'[h].row = users[request'[h].email]
  PROVE  AccountsInv'
<1>1. Account!AccountsTypeOK'
  BY DEF AccountsInv, Account!AccountsTypeOK
<1>2. ASSUME NEW e \in Emails \ changing
      PROVE  Counts(e)'
  <2>1. Counts(e)
    BY DEF AccountsInv, Counted
  <2>2. \A t \in tokens' : t.email = e => t.version = t.born
    BY <2>1 DEF Counts
  <2>3. ASSUME NEW h \in Threads, HasRow(h)', request'[h].email = e
        PROVE  request'[h].row.version = request'[h].row.changes
    BY <2>1, <2>3 DEF Counts, HasRow
  <2> QED BY <2>1, <2>2, <2>3 DEF Counts
<1>3. Registered'
  BY DEF AccountsInv, Registered, HasRow
<1>4. Owned'
  BY DEF AccountsInv, Owned, Account!Owner
<1> QED BY <1>1, <1>2, <1>3, <1>4 DEF AccountsInv, Counted

LEMMA PairIsOfToday ==
  ASSUME NEW e \in Emails, NEW version \in Nat, NEW born \in Nat
  PROVE  /\ Account!Pair(e, version, born) \subseteq Account!Token
         /\ \A t \in Account!Pair(e, version, born) : t.email = e /\ t.version = version /\ t.born = born
BY DEF Account!Pair, Account!Token

\* Opening a request, answering one that changes no row, and a refresh.
LEMMA RegisterKeeps ==
  ASSUME AccountsInv, Account!AccountsAssumption, NEW h \in Threads, NEW e \in Emails, NEW p \in Passwords,
         Account!Register(h, e, p)
  PROVE  AccountsInv'
<1>1. PICK n \in Account!Slugs :
        request' = [request EXCEPT ![h] = [op |-> "register", email |-> e, password |-> p, slug |-> n]]
  BY DEF Account!Register, Account!Open
<1>2. [op |-> "register", email |-> e, password |-> p, slug |-> n] \in Account!Request
  BY DEF Account!Request
<1>3. request' \in [Threads -> Account!Request \cup {None}]
  BY <1>1, <1>2 DEF AccountsInv, Account!AccountsTypeOK
<1>4. \A k \in Threads : request'[k] = request[k] \/ (request'[k] # None /\ request'[k].op = "register")
  BY <1>1, <1>2 DEF AccountsInv, Account!AccountsTypeOK, Account!AccountsAssumption
<1>5. UNCHANGED <<users, orgs, tokens, changing>> /\ tokens \subseteq Account!Token
  BY DEF Account!Register, AccountsInv, Account!AccountsTypeOK
<1> QED BY <1>3, <1>4, <1>5, ReadOnly

\* Login and patch_me hold the row they read.
LEMMA OpenKeeps ==
  ASSUME AccountsInv, NEW h \in Threads, NEW e \in Emails, users[e] # None, NEW r,
         r \in Account!Request, r.email = e, r.row = users[e], Account!Open(h, r),
         UNCHANGED <<users, orgs, tokens, changing>>
  PROVE  AccountsInv'
<1>1. request' \in [Threads -> Account!Request \cup {None}]
  BY DEF AccountsInv, Account!AccountsTypeOK, Account!Open
<1>2. \A k \in Threads : request'[k] = request[k] \/ request'[k] = r
  BY DEF AccountsInv, Account!AccountsTypeOK, Account!Open
<1>3. tokens' \subseteq Account!Token
  BY DEF AccountsInv, Account!AccountsTypeOK
<1> QED BY <1>1, <1>2, <1>3, ReadOnly

LEMMA LoginKeeps ==
  ASSUME AccountsInv, NEW h \in Threads, NEW e \in Emails, NEW p \in Passwords, Account!Login(h, e, p)
  PROVE  AccountsInv'
<1>1. PICK r : r = [op |-> "login", email |-> e, password |-> p, row |-> users[e]]
  OBVIOUS
<1>2. users[e] # None /\ users[e] \in Account!User
  BY DEF Account!Login, AccountsInv, Account!AccountsTypeOK
<1>3. r \in Account!Request /\ r.email = e /\ r.row = users[e]
  BY <1>1, <1>2 DEF Account!Request
<1>4. Account!Open(h, r) /\ UNCHANGED <<users, orgs, tokens, changing>>
  BY <1>1 DEF Account!Login
<1> QED BY <1>2, <1>3, <1>4, OpenKeeps

LEMMA PatchMeKeeps ==
  ASSUME AccountsInv, NEW h \in Threads, NEW t \in tokens, NEW p \in Passwords, NEW q \in Passwords,
         Account!PatchMe(h, t, p, q)
  PROVE  AccountsInv'
<1>1. PICK r : r = [op |-> "patch", email |-> t.email, password |-> p, new |-> q, row |-> users[t.email]]
  OBVIOUS
<1>2. t.email \in Emails
  BY DEF AccountsInv, Account!AccountsTypeOK, Account!Token
<1>3. users[t.email] # None /\ users[t.email] \in Account!User
  BY <1>2 DEF Account!PatchMe, Account!Accepted, AccountsInv, Account!AccountsTypeOK
<1>4. r \in Account!Request /\ r.email = t.email /\ r.row = users[t.email]
  BY <1>1, <1>2, <1>3 DEF Account!Request
<1>5. Account!Open(h, r) /\ UNCHANGED <<users, orgs, tokens, changing>>
  BY <1>1 DEF Account!PatchMe
<1> QED BY <1>2, <1>3, <1>4, <1>5, OpenKeeps

LEMMA LoggedInKeeps ==
  ASSUME AccountsInv, NEW h \in Threads, Account!LoggedIn(h)
  PROVE  AccountsInv'
<1>1. PICK r : r = request[h]
  OBVIOUS
<1>2. r # None /\ r.op = "login" /\ r \in Account!Request
  BY <1>1 DEF Account!LoggedIn, AccountsInv, Account!AccountsTypeOK
<1>3. r.email \in Emails /\ r.row.version \in Nat /\ r.row.changes \in Nat
  BY <1>2 DEF Account!Request, Account!User
<1>4. r.email \notin changing => r.row.version = r.row.changes
  BY <1>1, <1>2, <1>3 DEF AccountsInv, Counted, Counts, HasRow
<1>5. tokens' = tokens \/ tokens' = tokens \cup Account!Pair(r.email, r.row.version, r.row.changes)
  BY <1>1 DEF Account!LoggedIn
<1>6. tokens' \subseteq Account!Token
  BY <1>3, <1>5, PairIsOfToday DEF AccountsInv, Account!AccountsTypeOK
<1>7. \A t \in tokens' \ tokens : t.email \notin changing => t.version = t.born
  BY <1>3, <1>4, <1>5, PairIsOfToday
<1>8. /\ UNCHANGED <<users, orgs, changing>> /\ request' \in [Threads -> Account!Request \cup {None}]
      /\ \A k \in Threads : request'[k] \in {request[k], None}
  BY DEF Account!LoggedIn, Account!Close, AccountsInv, Account!AccountsTypeOK
<1> QED BY <1>6, <1>7, <1>8, ReadOnly

LEMMA RefreshKeeps ==
  ASSUME AccountsInv, NEW t \in tokens, Account!Refresh(t)
  PROVE  AccountsInv'
<1>1. t.email \in Emails /\ t.born \in Nat
  BY DEF AccountsInv, Account!AccountsTypeOK, Account!Token
<1>2. users[t.email] # None /\ users[t.email].version = t.version /\ users[t.email].version \in Nat
  BY <1>1 DEF Account!Refresh, Account!Accepted, AccountsInv, Account!AccountsTypeOK, Account!User
<1>3. t.email \notin changing => t.version = t.born
  BY <1>1 DEF AccountsInv, Counted, Counts
<1>4. tokens' = tokens \cup Account!Pair(t.email, t.version, t.born)
  BY <1>2 DEF Account!Refresh
<1>5. tokens' \subseteq Account!Token
  BY <1>1, <1>2, <1>4, PairIsOfToday DEF AccountsInv, Account!AccountsTypeOK
<1>6. \A s \in tokens' \ tokens : s.email \notin changing => s.version = s.born
  BY <1>1, <1>2, <1>3, <1>4, PairIsOfToday
<1>7. /\ UNCHANGED <<users, orgs, changing>> /\ request' \in [Threads -> Account!Request \cup {None}]
      /\ \A k \in Threads : request'[k] = request[k]
  BY DEF Account!Refresh, AccountsInv, Account!AccountsTypeOK
<1> QED BY <1>5, <1>6, <1>7, ReadOnly

\* The commit of a registration: user, organisation and first tokens, or nothing.
LEMMA RegisteredKeeps ==
  ASSUME AccountsInv, Account!AccountsAssumption, NEW h \in Threads, Account!Registered(h)
  PROVE  AccountsInv'
<1>1. PICK r : r = request[h]
  OBVIOUS
<1>2. r # None /\ r.op = "register" /\ r \in Account!Request
  BY <1>1 DEF Account!Registered, AccountsInv, Account!AccountsTypeOK
<1>3. r.email \in Emails /\ r.password \in Passwords /\ r.slug \in Account!Slugs
  BY <1>2 DEF Account!Request
<1>4. /\ request' \in [Threads -> Account!Request \cup {None}]
      /\ \A k \in Threads : request'[k] \in {request[k], None}
      /\ changing' = changing
  BY DEF Account!Registered, Account!Close, AccountsInv, Account!AccountsTypeOK
<1>5. CASE Account!Taken(r)
  <2>1. UNCHANGED <<users, orgs, tokens>>
    BY <1>1, <1>5 DEF Account!Registered
  <2>2. tokens' \subseteq Account!Token
    BY <2>1 DEF AccountsInv, Account!AccountsTypeOK
  <2> QED BY <1>4, <2>1, <2>2, ReadOnly
<1>6. CASE ~Account!Taken(r)
  <2>1. PICK u : u = [password |-> r.password, version |-> 0, changes |-> 0, slug |-> r.slug]
    OBVIOUS
  <2>2. u \in Account!User /\ u # None /\ u.version = 0 /\ u.changes = 0 /\ u.slug = r.slug
    BY <1>3, <2>1 DEF Account!User, Account!AccountsAssumption
  <2>3. /\ orgs' = orgs \cup {r.slug} /\ users' = [users EXCEPT ![r.email] = u]
        /\ tokens' = tokens \cup Account!Pair(r.email, 0, 0)
        /\ users[r.email] = None /\ r.slug \notin orgs
    BY <1>1, <1>6, <2>1 DEF Account!Registered, Account!Taken
  <2>4. users' \in [Emails -> Account!User \cup {None}] /\ users'[r.email] = u
    BY <1>3, <2>2, <2>3 DEF AccountsInv, Account!AccountsTypeOK
  <2>5. \A e \in Emails : e # r.email => users'[e] = users[e]
    BY <2>3 DEF AccountsInv, Account!AccountsTypeOK
  <2>6. Account!AccountsTypeOK'
    BY <1>3, <1>4, <2>3, <2>4, PairIsOfToday DEF AccountsInv, Account!AccountsTypeOK
  <2>7. ASSUME NEW e \in Emails \ changing'
        PROVE  Counts(e)'
    <3>1. Counts(e)
      BY <1>4 DEF AccountsInv, Counted
    <3>2. users'[e] # None => users'[e].version = users'[e].changes
      BY <2>2, <2>4, <2>5, <3>1 DEF Counts
    <3>3. \A t \in tokens' : t.email = e => t.version = t.born
      BY <1>3, <2>3, <3>1, PairIsOfToday DEF Counts
    <3>4. \A k \in Threads : HasRow(k)' /\ request'[k].email = e => request'[k].row.version = request'[k].row.changes
      BY <1>4, <3>1 DEF Counts, HasRow
    <3> QED BY <3>2, <3>3, <3>4 DEF Counts
  <2>8. Registered'
    <3> SUFFICES ASSUME NEW k \in Threads, HasRow(k)' PROVE users'[request'[k].email] # None
      BY DEF Registered
    <3>1. request'[k] = request[k] /\ HasRow(k)
      BY <1>4 DEF HasRow
    <3>2. users[request[k].email] # None /\ request[k].email \in Emails
      BY <3>1 DEF AccountsInv, Registered, Account!AccountsTypeOK, Account!Request, HasRow
    <3> QED BY <2>2, <2>4, <2>5, <3>1, <3>2
  <2>9. Owned'
    <3>1. \A f \in Emails : f # r.email => (Account!Owner(f, r.slug)' <=> FALSE)
      BY <2>3, <2>5 DEF AccountsInv, Owned, Account!Owner
    <3>2. Account!Owner(r.email, r.slug)'
      BY <2>2, <2>4 DEF Account!Owner
    <3>3. \A s \in orgs, f \in Emails : Account!Owner(f, s)' <=> Account!Owner(f, s)
      BY <2>2, <2>3, <2>4, <2>5 DEF Account!Owner
    <3>4. \A s \in orgs' : \E e \in Emails : \A f \in Emails : Account!Owner(f, s)' <=> f = e
      BY <1>3, <2>3, <3>1, <3>2, <3>3 DEF AccountsInv, Owned
    <3>5. \A e \in Emails : users'[e] # None => users'[e].slug \in orgs'
      BY <2>2, <2>3, <2>4, <2>5 DEF AccountsInv, Owned
    <3> QED BY <3>4, <3>5 DEF Owned
  <2> QED BY <2>6, <2>7, <2>8, <2>9 DEF AccountsInv, Counted
<1> QED BY <1>5, <1>6

\* The write of a password change counts one more; from a row that is no longer the
\* account's it marks the account.
LEMMA PatchedKeeps ==
  ASSUME AccountsInv, Account!AccountsAssumption, NEW h \in Threads, Account!Patched(h)
  PROVE  AccountsInv'
<1>1. PICK r : r = request[h]
  OBVIOUS
<1>2. r # None /\ r.op = "patch" /\ r \in Account!Request
  BY <1>1 DEF Account!Patched, AccountsInv, Account!AccountsTypeOK
<1>3. r.email \in Emails /\ r.new \in Passwords /\ r.row \in Account!User
  BY <1>2 DEF Account!Request
<1>4. /\ request' \in [Threads -> Account!Request \cup {None}]
      /\ \A k \in Threads : request'[k] \in {request[k], None}
      /\ UNCHANGED <<orgs, tokens>> /\ tokens \subseteq Account!Token
  BY DEF Account!Patched, Account!Close, AccountsInv, Account!AccountsTypeOK
<1>5. CASE r.password # r.row.password
  <2>1. UNCHANGED <<users, changing>>
    BY <1>1, <1>5 DEF Account!Patched
  <2> QED BY <1>4, <2>1, ReadOnly
<1>6. CASE r.password = r.row.password
  <2>1. PICK old : old = users[r.email]
    OBVIOUS
  <2>2. old # None /\ old \in Account!User
    BY <1>1, <1>2, <1>3, <2>1 DEF AccountsInv, Registered, HasRow, Account!AccountsTypeOK
  <2>3. PICK u : u = [password |-> r.new, version |-> Account!NextVersion(r.row),
                      changes |-> old.changes + 1, slug |-> old.slug]
    OBVIOUS
  <2>4. r.row.version \in Nat /\ Account!NextVersion(r.row) = r.row.version + 1
    BY <1>3 DEF Account!User, Account!NextVersion
  <2>5. u \in Account!User /\ u.version = r.row.version + 1 /\ u.changes = old.changes + 1 /\ u.slug = old.slug
    BY <1>3, <2>2, <2>3, <2>4 DEF Account!User
  <2>6. u # None
    BY <2>5 DEF Account!AccountsAssumption
  <2>7. users' = [users EXCEPT ![r.email] = u]
    <3>1. users' = [users EXCEPT ![r.email] = [password |-> r.new, version |-> Account!NextVersion(r.row),
                                               changes |-> users[r.email].changes + 1, slug |-> users[r.email].slug]]
      BY <1>1, <1>3, <1>6 DEF Account!Patched, AccountsInv, Account!AccountsTypeOK
    <3> QED BY <2>1, <2>3, <3>1
  <2>8. changing' = IF old = r.row THEN changing ELSE changing \cup {r.email}
    BY <1>1, <1>6, <2>1 DEF Account!Patched
  <2>9. users' \in [Emails -> Account!User \cup {None}] /\ users'[r.email] = u
        /\ \A e \in Emails : e # r.email => users'[e] = users[e]
    BY <1>3, <2>5, <2>7 DEF AccountsInv, Account!AccountsTypeOK
  <2>10. Account!AccountsTypeOK'
    BY <1>3, <1>4, <2>8, <2>9 DEF AccountsInv, Account!AccountsTypeOK
  <2>11. ASSUME NEW e \in Emails \ changing'
         PROVE  Counts(e)'
    <3>1. Counts(e) /\ (e = r.email => old = r.row)
      BY <2>8 DEF AccountsInv, Counted
    <3>2. users'[e] # None => users'[e].version = users'[e].changes
      <4>1. CASE e = r.email
        <5>1. old.version = old.changes /\ old.version \in Nat
          BY <2>1, <2>2, <3>1, <4>1 DEF Counts, Account!User
        <5> QED BY <2>5, <2>9, <3>1, <4>1, <5>1
      <4>2. CASE e # r.email
        BY <2>9, <3>1, <4>2 DEF Counts
      <4> QED BY <4>1, <4>2
    <3>3. \A t \in tokens' : t.email = e => t.version = t.born
      BY <1>4, <3>1 DEF Counts
    <3>4. \A k \in Threads : HasRow(k)' /\ request'[k].email = e => request'[k].row.version = request'[k].row.changes
      BY <1>4, <3>1 DEF Counts, HasRow
    <3> QED BY <3>2, <3>3, <3>4 DEF Counts
  <2>12. Registered'
    <3> SUFFICES ASSUME NEW k \in Threads, HasRow(k)' PROVE users'[request'[k].email] # None
      BY DEF Registered
    <3>1. request'[k] = request[k] /\ HasRow(k)
      BY <1>4 DEF HasRow
    <3>2. users[request[k].email] # None /\ request[k].email \in Emails
      BY <3>1 DEF AccountsInv, Registered, Account!AccountsTypeOK, Account!Request, HasRow
    <3> QED BY <2>6, <2>9, <3>1, <3>2
  <2>13. \A e \in Emails : (users'[e] # None <=> users[e] # None) /\ users'[e].slug = users[e].slug
    BY <2>1, <2>2, <2>5, <2>6, <2>9
  <2>14. Owned'
    BY <1>4, <2>13 DEF AccountsInv, Owned, Account!Owner
  <2> QED BY <2>10, <2>11, <2>12, <2>14 DEF AccountsInv, Counted
<1> QED BY <1>5, <1>6

LEMMA AccountsInvStep ==
  ASSUME Account!AccountsAssumption, AccountsInv, [Account!AccountsNext]_(Account!accountVars)
  PROVE  AccountsInv'
<1>1. CASE Account!AccountsNext
  BY <1>1, RegisterKeeps, LoginKeeps, RegisteredKeeps, LoggedInKeeps, PatchedKeeps, RefreshKeeps, PatchMeKeeps
     DEF Account!AccountsNext
<1>2. CASE UNCHANGED Account!accountVars
  <2>1. /\ UNCHANGED <<users, orgs, changing>> /\ tokens' \subseteq Account!Token /\ tokens' = tokens
        /\ request' \in [Threads -> Account!Request \cup {None}] /\ request' = request
    BY <1>2 DEF Account!accountVars, AccountsInv, Account!AccountsTypeOK
  <2> QED BY <2>1, ReadOnly
<1> QED BY <1>1, <1>2

\* An account accepts only tokens that descend from its present password, unless two of
\* its password changes overlapped, and every organisation is that of exactly one user,
\* for any accounts, requests at once and numbers of changes
\* (server/app/services/accounts.py, api/auth.py).
LEMMA TokensDescend == ServicesSpec => [](subject = "accounts" => Account!AccountsSound)
<1> DEFINE I == subject = "accounts" => AccountsInv
<1>1. ServicesInit => I
  BY AccountsInvInit DEF ServicesInit
<1>2. I /\ [ServicesNext]_allVars => I'
  BY PartSteps, AccountsInvStep, AccountsKnown
<1>3. I => (subject = "accounts" => Account!AccountsSound)
  BY AccountsInvSound
<1> HIDE DEF I
<1> QED BY <1>1, <1>2, <1>3, PTL DEF ServicesSpec

-----------------------------------------------------------------------------
(* TokenBucket, for every number of threads and keys, every rate and every  *)
(* threshold of eviction.                                                  *)

\* The tokens of bucket b and the checks of its key since any time are together
\* within the limit, overlaps forgiven, up to the last use of the bucket.
Above(k, b) ==
    /\ b.tokens <= Burst
    /\ \A i \in 0..MaxNow :
          IF i > b.last THEN granted[k][i] <= overlapped[k]
          ELSE /\ granted[k][i] <= Burst + Rate * (b.last - i) + overlapped[k]
               /\ granted[k][i] + b.tokens <= Burst + Rate * (b.last - i) + overlapped[k]

\* Without an overlap they were once all that the limit gives: when it was full.
Below(k, b, top) ==
    overlapped[k] = 0 => \E i \in 0..top : granted[k][i] + b.tokens >= Burst + Rate * (b.last - i - lag[k])

\* A key without a bucket has spent nothing that the limit would not have given back.
KeySound(k) ==
    /\ \A i \in (now + 1)..(MaxNow + 1) : granted[k][i] = 0
    /\ \A j \in 0..now : \A i \in 0..j : Bucket!GrantedIn(k, i, j) <= Burst + Rate * (j - i) + overlapped[k]
    /\ buckets[k] = None => \A i \in 0..now : granted[k][i] <= Rate * (now - i) + overlapped[k]
    /\ buckets[k] # None => buckets[k].last <= now /\ Above(k, buckets[k]) /\ Below(k, buckets[k], now)

\* What a check found bounds what it may store, whatever others stored meanwhile.
Holds(c) == [tokens |-> c.filled, last |-> c.now]
Allows(c) ==
    \A i \in 0..MaxNow : IF i > c.now THEN granted[c.key][i] <= overlapped[c.key]
                         ELSE granted[c.key][i] <= Burst + Rate * (c.now - i) + overlapped[c.key]
CallSound(c) ==
    /\ c.now <= now /\ Allows(c)
    /\ c.step = "find" => c.orphan = None
    /\ c.step # "find" /\ c.orphan = None => buckets[c.key] # None
    /\ c.orphan # None => ~c.alone /\ Above(c.key, c.orphan)
    /\ c.step = "store" => /\ Above(c.key, Holds(c))
                           /\ c.orphan = None => Below(c.key, Holds(c), IF c.alone THEN c.now ELSE now)
    /\ c.step # "store" /\ c.alone /\ buckets[c.key] # None => Below(c.key, buckets[c.key], c.now)

LimitInv ==
    /\ Bucket!BucketTypeOK /\ wronged = {}
    /\ \A k \in Keys : KeySound(k)
    /\ \A t \in Bucket!Busy : CallSound(checking[t]) /\ (checking[t].alone => Bucket!Busy = {t})

LEMMA RateGrows ==
  ASSUME Bucket!BucketAssumption, NEW x \in Int, NEW y \in Int, x <= y
  PROVE  Rate * x \in Int /\ Rate * y \in Int /\ Rate * x <= Rate * y
<1>1. Rate \in Nat
  BY DEF Bucket!BucketAssumption
<1>2. PICK d \in Nat : y = x + d
  OBVIOUS
<1>3. Rate * y = Rate * x + Rate * d
  BY <1>1, <1>2
<1>4. Rate * d \in Nat /\ Rate * x \in Int
  BY <1>1
<1> QED BY <1>3, <1>4

LEMMA LimitInvInit == ASSUME Bucket!BucketAssumption PROVE Bucket!BucketInit => LimitInv
<1> SUFFICES ASSUME Bucket!BucketInit PROVE LimitInv
  OBVIOUS
<1> USE DEF Bucket!BucketInit, Bucket!BucketAssumption
<1>1. Bucket!Busy = {}
  BY DEF Bucket!Busy
<1>2. Bucket!BucketTypeOK
  BY DEF Bucket!BucketTypeOK
<1>3. ASSUME NEW k \in Keys PROVE KeySound(k)
  <2>1. \A i \in 0..(MaxNow + 1) : granted[k][i] = 0
    OBVIOUS
  <2>2. overlapped[k] = 0 /\ buckets[k] = None /\ now = 0
    OBVIOUS
  <2>3. \A i \in 0..now : Rate * (now - i) = 0
    BY <2>2
  <2> QED BY <2>1, <2>2, <2>3 DEF KeySound, Bucket!GrantedIn
<1> QED BY <1>1, <1>2, <1>3 DEF LimitInv

\* What is read of the state in the lemmas below.
LEMMA LimitTypes ==
  ASSUME Bucket!BucketAssumption, LimitInv
  PROVE  /\ Rate \in Nat /\ Burst \in Nat /\ EvictTTL \in Nat /\ MaxNow \in Nat /\ now \in 0..MaxNow
         /\ \A k \in Keys : /\ granted[k] \in [0..(MaxNow + 1) -> Nat] /\ overlapped[k] \in Nat /\ lag[k] \in Nat
                            /\ buckets[k] \in Bucket!Tokens \cup {None}
         /\ \A t \in Bucket!Busy : checking[t] \in Bucket!Call
BY DEF LimitInv, Bucket!BucketTypeOK, Bucket!BucketAssumption, Bucket!Busy

LEMMA FillAbove ==
  ASSUME Bucket!BucketAssumption, LimitInv, NEW c \in Bucket!Call, c.key \in Keys, Allows(c),
         NEW b \in Bucket!Tokens, Above(c.key, b)
  PROVE  Above(c.key, [tokens |-> Bucket!Filled(b, c.now), last |-> c.now])
<1> DEFINE k == c.key
           n == c.now
<1>1. k \in Keys /\ n \in 0..MaxNow /\ b.tokens \in Int /\ b.last \in 0..MaxNow
  BY DEF Bucket!Call, Bucket!Tokens
<1>2. PICK f : f = Bucket!Filled(b, n)
  OBVIOUS
<1>3. f \in Int /\ f <= Burst /\ f <= b.tokens + (n - b.last) * Rate
  BY <1>1, <1>2, LimitTypes, SMTT(30) DEF Bucket!Filled
<1>4. ASSUME NEW i \in 0..MaxNow, i <= n
      PROVE  granted[k][i] + f <= Burst + Rate * (n - i) + overlapped[k]
  <2>1. granted[k][i] \in Nat /\ overlapped[k] \in Nat /\ Rate \in Nat /\ Burst \in Nat
    <3>1. granted[k] \in [0..(MaxNow + 1) -> Nat] /\ i \in 0..(MaxNow + 1)
      BY <1>1, LimitTypes
    <3>2. granted[k][i] \in Nat
      BY <3>1
    <3> QED BY <1>1, <3>2, LimitTypes
  <2>2. CASE i > b.last
    <3>1. granted[k][i] <= overlapped[k]
      BY <2>2 DEF Above
    <3>2. Rate * (n - i) \in Nat
      BY <1>1, <1>4, <2>1
    <3> QED BY <1>3, <2>1, <3>1, <3>2
  <2>3. CASE i <= b.last
    <3>1. granted[k][i] + b.tokens <= Burst + Rate * (b.last - i) + overlapped[k]
      BY <1>1, <2>3 DEF Above
    <3>2. Rate * (n - i) = Rate * (b.last - i) + (n - b.last) * Rate
      BY <1>1, <2>1
    <3>3. Rate * (b.last - i) \in Int /\ (n - b.last) * Rate \in Int
      BY <1>1, <2>1
    <3> QED BY <1>1, <1>3, <2>1, <3>1, <3>2, <3>3
  <2> QED BY <1>1, <2>2, <2>3
<1>5. PICK h : h = [tokens |-> f, last |-> n]
  OBVIOUS
<1>6. h.tokens = f /\ h.last = n
  BY <1>5
<1>7. Above(k, h)
  BY <1>1, <1>3, <1>4, <1>6 DEF Above, Allows
<1> QED BY <1>2, <1>5, <1>7

LEMMA FillBelow ==
  ASSUME Bucket!BucketAssumption, LimitInv, NEW k \in Keys, NEW b \in Bucket!Tokens, NEW top \in 0..MaxNow,
         NEW n \in 0..top, Below(k, b, top)
  PROVE  Below(k, [tokens |-> Bucket!Filled(b, n), last |-> n], top)
<1>1. n \in 0..MaxNow /\ b.tokens \in Int /\ b.last \in 0..MaxNow
  BY LimitTypes DEF Bucket!Tokens
<1>2. PICK f : f = Bucket!Filled(b, n)
  OBVIOUS
<1>3. f \in Int /\ (f = Burst \/ f = b.tokens + (n - b.last) * Rate)
  BY <1>1, <1>2, LimitTypes DEF Bucket!Filled
<1>4. PICK h : h = [tokens |-> f, last |-> n]
  OBVIOUS
<1>5. h.tokens = f /\ h.last = n
  BY <1>4
<1>6. ASSUME overlapped[k] = 0
      PROVE  \E i \in 0..top : granted[k][i] + f >= Burst + Rate * (n - i - lag[k])
  <2>1. Rate \in Nat /\ Burst \in Nat /\ lag[k] \in Nat /\ \A i \in 0..top : granted[k][i] \in Nat
    BY LimitTypes
  <2>2. CASE f = Burst
    <3>1. n - n - lag[k] <= 0 /\ n - n - lag[k] \in Int
      BY <1>1, <2>1
    <3>2. Rate * (n - n - lag[k]) <= Rate * 0 /\ Rate * (n - n - lag[k]) \in Int /\ Rate * 0 = 0
      BY <2>1, <3>1, RateGrows
    <3>3. granted[k][n] + f >= Burst + Rate * (n - n - lag[k])
      BY <2>1, <2>2, <3>2
    <3> QED BY <3>3
  <2>3. CASE f = b.tokens + (n - b.last) * Rate
    <3>1. PICK i \in 0..top : granted[k][i] + b.tokens >= Burst + Rate * (b.last - i - lag[k])
      BY <1>6 DEF Below
    <3>2. Rate * (n - i - lag[k]) = Rate * (b.last - i - lag[k]) + (n - b.last) * Rate
      BY <1>1, <2>1
    <3>3. Rate * (b.last - i - lag[k]) \in Int /\ (n - b.last) * Rate \in Int
      BY <1>1, <2>1
    <3>4. granted[k][i] + f >= Burst + Rate * (n - i - lag[k])
      BY <1>1, <2>1, <2>3, <3>1, <3>2, <3>3
    <3> QED BY <3>4
  <2> QED BY <1>3, <2>2, <2>3
<1> QED BY <1>2, <1>4, <1>5, <1>6 DEF Below

LEMMA Widened ==
  ASSUME LimitInv, NEW k, NEW b, NEW top \in Int, NEW more \in Int, top <= more, Below(k, b, top)
  PROVE  Below(k, b, more)
BY DEF Below

\* While only the calls change, what is true of a call and of a key stays true.
LEMMA Steady ==
  ASSUME UNCHANGED <<now, buckets, granted, overlapped, lag>>, NEW c
  PROVE  /\ CallSound(c)' <=> CallSound(c)
         /\ \A k \in Keys : KeySound(k)' <=> KeySound(k)
BY DEF CallSound, KeySound, Above, Below, Allows, Bucket!GrantedIn

LEMMA CallsMove ==
  ASSUME LimitInv, UNCHANGED <<now, buckets, granted, overlapped, lag, wronged>>, checks' \in 0..MaxChecks,
         checking' \in [Threads -> Bucket!Call \cup {None}],
         \A t \in Threads : checking'[t] # None =>
            \E c \in Bucket!Call : c = checking'[t] /\ CallSound(c) /\ (c.alone => \A u \in Threads \ {t} : checking'[u] = None)
  PROVE  LimitInv'
<1>1. Bucket!BucketTypeOK' /\ wronged' = {}
  BY DEF LimitInv, Bucket!BucketTypeOK
<1>2. \A k \in Keys : KeySound(k)'
  BY Steady DEF LimitInv
<1>3. ASSUME NEW t \in Threads, checking'[t] # None
      PROVE  CallSound(checking[t])' /\ (checking'[t].alone => \A u \in Threads \ {t} : checking'[u] = None)
  <2>1. PICK c \in Bucket!Call : c = checking'[t] /\ CallSound(c) /\ (c.alone => \A u \in Threads \ {t} : checking'[u] = None)
    BY <1>3
  <2>2. CallSound(c)'
    BY <2>1, Steady
  <2>3. CallSound(checking[t])'
    BY <2>1, <2>2
  <2> QED BY <2>1, <2>3
<1> QED BY <1>1, <1>2, <1>3 DEF LimitInv, Bucket!Busy

LEMMA CheckKeeps ==
  ASSUME Bucket!BucketAssumption, LimitInv, NEW t \in Threads, NEW k \in Keys, Bucket!Check(t, k)
  PROVE  LimitInv'
<1>1. /\ UNCHANGED <<now, buckets, granted, overlapped, lag, wronged>> /\ checks' = checks + 1 /\ checks < MaxChecks
      /\ checking[t] = None
  BY DEF Bucket!Check, Bucket!Busy
<1>2. PICK free \in BOOLEAN : free <=> Bucket!Busy = {}
  OBVIOUS
<1>3. PICK new : new = [key |-> k, now |-> now, step |-> "find", alone |-> free, orphan |-> None, filled |-> 0]
  OBVIOUS
<1>4. checking' = [u \in Threads |-> IF u = t THEN new
                                     ELSE IF u \in Bucket!Busy THEN [checking[u] EXCEPT !.alone = FALSE] ELSE None]
  BY <1>2, <1>3 DEF Bucket!Check
<1>5. new \in Bucket!Call
  BY <1>3, LimitTypes DEF Bucket!Call
<1>6. CallSound(new)
  <2>1. KeySound(k)
    BY DEF LimitInv
  <2>2. /\ \A i \in (now + 1)..(MaxNow + 1) : granted[k][i] = 0
        /\ \A j \in 0..now : \A i \in 0..j : Bucket!GrantedIn(k, i, j) <= Burst + Rate * (j - i) + overlapped[k]
    BY <2>1 DEF KeySound
  <2>3. granted[k][now + 1] = 0 /\ now \in 0..now /\ now \in 0..MaxNow
    <3>1. now \in 0..MaxNow /\ MaxNow \in Nat
      BY LimitTypes
    <3>2. now + 1 \in (now + 1)..(MaxNow + 1)
      BY <3>1
    <3> QED BY <2>2, <3>1, <3>2
  <2>4. \A i \in 0..now : granted[k][i] <= Burst + Rate * (now - i) + overlapped[k]
    <3> SUFFICES ASSUME NEW i \in 0..now PROVE granted[k][i] <= Burst + Rate * (now - i) + overlapped[k]
      OBVIOUS
    <3>1. Bucket!GrantedIn(k, i, now) <= Burst + Rate * (now - i) + overlapped[k]
      BY <2>2, <2>3
    <3>2. granted[k] \in [0..(MaxNow + 1) -> Nat] /\ i \in 0..(MaxNow + 1)
      BY <2>3, LimitTypes
    <3>3. granted[k][i] \in Nat
      BY <3>2
    <3>4. Bucket!GrantedIn(k, i, now) = granted[k][i]
      BY <2>3, <3>3 DEF Bucket!GrantedIn
    <3> QED BY <3>1, <3>4
  <2>5. \A i \in 0..MaxNow : i > now => granted[k][i] <= overlapped[k]
    <3> SUFFICES ASSUME NEW i \in 0..MaxNow, i > now PROVE granted[k][i] <= overlapped[k]
      OBVIOUS
    <3>1. i \in (now + 1)..(MaxNow + 1)
      BY <2>3, LimitTypes
    <3>2. granted[k][i] = 0 /\ overlapped[k] \in Nat
      BY <2>2, <3>1, LimitTypes
    <3> QED BY <3>2
  <2>6. new.key = k /\ new.now = now
    BY <1>3
  <2>7. Allows(new)
    BY <2>4, <2>5, <2>3, <2>6 DEF Allows
  <2>8. buckets[k] # None => Below(k, buckets[k], now)
    BY <2>1 DEF KeySound
  <2> QED BY <1>3, <2>7, <2>8, LimitTypes DEF CallSound
<1>7. ASSUME NEW u \in Threads, u # t, checking'[u] # None
      PROVE  \E c \in Bucket!Call : c = checking'[u] /\ CallSound(c) /\ ~c.alone
  <2>1. PICK c : c = checking[u]
    OBVIOUS
  <2>2. c \in Bucket!Call /\ CallSound(c) /\ u \in Bucket!Busy
    BY <1>4, <1>7, <2>1, LimitTypes DEF LimitInv, Bucket!Busy
  <2>3. PICK d : d = [c EXCEPT !.alone = FALSE]
    OBVIOUS
  <2>4. d = checking'[u]
    BY <1>4, <1>7, <2>1, <2>2, <2>3
  <2>5. /\ d \in Bucket!Call /\ ~d.alone /\ d.key = c.key /\ d.now = c.now /\ d.step = c.step
        /\ d.orphan = c.orphan /\ d.filled = c.filled
    BY <2>2, <2>3 DEF Bucket!Call
  <2>6. Holds(d) = Holds(c)
    BY <2>5 DEF Holds
  <2>7. d.step = "store" /\ d.orphan = None => Below(d.key, Holds(d), now)
    BY <2>2, <2>5, <2>6, Widened, LimitTypes DEF CallSound, Bucket!Call
  <2>8. CallSound(d)
    BY <2>2, <2>5, <2>6, <2>7 DEF CallSound, Allows
  <2> QED BY <2>4, <2>5, <2>8
<1>8. ASSUME NEW u \in Threads, checking'[u] # None
      PROVE  \E c \in Bucket!Call : c = checking'[u] /\ CallSound(c) /\ (c.alone => \A v \in Threads \ {u} : checking'[v] = None)
  <2>1. CASE u = t
    <3>1. checking'[u] = new /\ (new.alone => Bucket!Busy = {})
      BY <1>2, <1>3, <1>4, <2>1
    <3> QED BY <1>4, <1>5, <1>6, <2>1, <3>1
  <2>2. CASE u # t
    BY <1>7, <1>8, <2>2
  <2> QED BY <2>1, <2>2
<1>9. checking' \in [Threads -> Bucket!Call \cup {None}]
  <2>1. \A u \in Threads : checking'[u] \in Bucket!Call \cup {None}
    BY <1>8
  <2> QED BY <1>4, <2>1
<1>10. checks' \in 0..MaxChecks
  BY <1>1 DEF LimitInv, Bucket!BucketTypeOK, Bucket!BucketAssumption
<1> QED BY <1>1, <1>8, <1>9, <1>10, CallsMove

LEMMA RaiseKeeps ==
  ASSUME LimitInv, NEW t \in Threads, Bucket!EvictionRaises(t)
  PROVE  LimitInv'
<1>1. checking' = [checking EXCEPT ![t] = None] /\ UNCHANGED <<now, buckets, checks, granted, overlapped, lag, wronged>>
  BY DEF Bucket!EvictionRaises
<1>2. \A u \in Threads : checking'[u] # None =>
          checking'[u] = checking[u] /\ checking[u] \in Bucket!Call /\ CallSound(checking[u]) /\ (checking[u].alone => Bucket!Busy = {u})
  BY <1>1 DEF LimitInv, Bucket!BucketTypeOK, Bucket!Busy
<1>3. checking' \in [Threads -> Bucket!Call \cup {None}] /\ checks' \in 0..MaxChecks
  BY <1>1 DEF LimitInv, Bucket!BucketTypeOK
<1>4. \A u \in Threads : checking'[u] # None =>
          \E c \in Bucket!Call : c = checking'[u] /\ CallSound(c) /\ (c.alone => \A v \in Threads \ {u} : checking'[v] = None)
  <2> SUFFICES ASSUME NEW u \in Threads, checking'[u] # None
               PROVE  \E c \in Bucket!Call : c = checking'[u] /\ CallSound(c) /\ (c.alone => \A v \in Threads \ {u} : checking'[v] = None)
    OBVIOUS
  <2>1. PICK c : c = checking[u]
    OBVIOUS
  <2>2. c \in Bucket!Call /\ CallSound(c) /\ c = checking'[u] /\ (c.alone => Bucket!Busy = {u})
    BY <1>2, <2>1
  <2>3. c.alone => \A v \in Threads \ {u} : checking'[v] = None
    BY <1>1, <2>2 DEF Bucket!Busy, LimitInv, Bucket!BucketTypeOK
  <2> QED BY <2>2, <2>3
<1> QED BY <1>1, <1>3, <1>4, CallsMove

LEMMA FillKeeps ==
  ASSUME Bucket!BucketAssumption, LimitInv, NEW t \in Threads, Bucket!Fill(t)
  PROVE  LimitInv'
<1>1. PICK c : c = checking[t]
  OBVIOUS
<1>2. /\ c \in Bucket!Call /\ c.step = "fill" /\ CallSound(c) /\ (c.alone => Bucket!Busy = {t}) /\ t \in Bucket!Busy
      /\ UNCHANGED <<now, buckets, checks, granted, overlapped, lag, wronged>>
  BY <1>1, LimitTypes DEF Bucket!Fill, LimitInv
<1>3. PICK b : b = IF c.orphan = None THEN buckets[c.key] ELSE c.orphan
  OBVIOUS
<1>4. c.key \in Keys /\ c.now \in 0..now /\ b \in Bucket!Tokens /\ Above(c.key, b)
  BY <1>2, <1>3, LimitTypes DEF Bucket!Call, CallSound, KeySound, LimitInv
<1>5. PICK d : d = [c EXCEPT !.step = "store", !.filled = Bucket!Filled(b, c.now)]
  OBVIOUS
<1>6. checking' = [checking EXCEPT ![t] = d]
  BY <1>1, <1>3, <1>5 DEF Bucket!Fill
<1>7. Bucket!Filled(b, c.now) \in Int
  BY <1>4, LimitTypes DEF Bucket!Filled, Bucket!Tokens
<1>8. /\ d \in Bucket!Call /\ d.key = c.key /\ d.now = c.now /\ d.step = "store" /\ d.alone = c.alone
      /\ d.orphan = c.orphan /\ d.filled = Bucket!Filled(b, c.now)
  BY <1>2, <1>5, <1>7 DEF Bucket!Call
<1>9. Above(d.key, Holds(d))
  BY <1>2, <1>4, <1>8, FillAbove DEF Holds, CallSound
<1>10. d.orphan = None => Below(d.key, Holds(d), IF d.alone THEN d.now ELSE now)
  <2> SUFFICES ASSUME c.orphan = None PROVE Below(d.key, Holds(d), IF d.alone THEN d.now ELSE now)
    BY <1>8
  <2>1. b = buckets[c.key] /\ b # None
    BY <1>2, <1>3 DEF CallSound
  <2>2. PICK top \in 0..MaxNow : top = IF c.alone THEN c.now ELSE now
    BY <1>4, LimitTypes
  <2>3. c.now \in 0..top
    BY <1>4, <2>2, LimitTypes
  <2>4. Below(c.key, b, top)
    BY <1>2, <1>4, <2>1, <2>2 DEF CallSound, KeySound, LimitInv
  <2>5. Below(c.key, [tokens |-> Bucket!Filled(b, c.now), last |-> c.now], top)
    BY <1>4, <2>3, <2>4, FillBelow
  <2> QED BY <1>8, <2>2, <2>5 DEF Holds
<1>11. CallSound(d)
  BY <1>2, <1>8, <1>9, <1>10 DEF CallSound, Allows
<1>12. ASSUME NEW u \in Threads, checking'[u] # None
       PROVE  \E e \in Bucket!Call : e = checking'[u] /\ CallSound(e) /\ (e.alone => \A v \in Threads \ {u} : checking'[v] = None)
  <2>1. CASE u = t
    <3>1. checking'[u] = d /\ (d.alone => \A v \in Threads \ {u} : checking'[v] = None)
      BY <1>2, <1>6, <1>8, <2>1 DEF LimitInv, Bucket!BucketTypeOK, Bucket!Busy
    <3> QED BY <1>8, <1>11, <3>1
  <2>2. CASE u # t
    <3>1. PICK e : e = checking[u]
      OBVIOUS
    <3>2. e = checking'[u] /\ e \in Bucket!Call /\ CallSound(e) /\ u \in Bucket!Busy /\ (e.alone => Bucket!Busy = {u})
      BY <1>6, <1>12, <2>2, <3>1 DEF LimitInv, Bucket!BucketTypeOK, Bucket!Busy
    <3>3. ~e.alone
      BY <1>2, <2>2, <3>2
    <3> QED BY <3>2, <3>3
  <2> QED BY <2>1, <2>2
<1>13. checking' \in [Threads -> Bucket!Call \cup {None}]
  BY <1>6, <1>8 DEF LimitInv, Bucket!BucketTypeOK
<1> QED BY <1>2, <1>12, <1>13, CallsMove DEF LimitInv, Bucket!BucketTypeOK

\* The clock of a new bucket being ahead of its first check only excuses more.
LEMMA LagGrows ==
  ASSUME Bucket!BucketAssumption, LimitInv, NEW k \in Keys, NEW b \in Bucket!Tokens, NEW top \in 0..MaxNow,
         granted' = granted, overlapped' = overlapped, lag'[k] \in Nat, lag[k] <= lag'[k], Below(k, b, top)
  PROVE  Below(k, b, top)'
<1>1. b.tokens \in Int /\ b.last \in Int
  BY DEF Bucket!Tokens
<1>2. ASSUME overlapped[k] = 0
      PROVE  \E i \in 0..top : granted[k][i] + b.tokens >= Burst + Rate * (b.last - i - lag'[k])
  <2>1. PICK i \in 0..top : granted[k][i] + b.tokens >= Burst + Rate * (b.last - i - lag[k])
    BY <1>2 DEF Below
  <2>2. lag[k] \in Nat /\ granted[k][i] \in Nat /\ Burst \in Nat
    BY LimitTypes
  <2>3. b.last - i - lag'[k] \in Int /\ b.last - i - lag[k] \in Int /\ b.last - i - lag'[k] <= b.last - i - lag[k]
    BY <1>1, <2>2
  <2>4. /\ Rate * (b.last - i - lag'[k]) <= Rate * (b.last - i - lag[k])
        /\ Rate * (b.last - i - lag'[k]) \in Int /\ Rate * (b.last - i - lag[k]) \in Int
    BY <2>3, RateGrows
  <2>5. granted[k][i] + b.tokens >= Burst + Rate * (b.last - i - lag'[k])
    BY <1>1, <2>1, <2>2, <2>4
  <2> QED BY <2>5
<1> QED BY <1>2 DEF Below

\* A bucket idle for longer than EvictTTL is full again: nothing is lost with it.
LEMMA EvictedSpent ==
  ASSUME Bucket!BucketAssumption, LimitInv, NEW k \in Keys, NEW at \in 0..now, k \in Bucket!Evicted(at)
  PROVE  /\ buckets[k] # None
         /\ \A i \in 0..now : granted[k][i] <= Rate * (now - i) + overlapped[k]
<1>1. buckets[k] # None /\ at - buckets[k].last > EvictTTL
  BY DEF Bucket!Evicted
<1>2. PICK b : b = buckets[k]
  OBVIOUS
<1>3. b \in Bucket!Tokens /\ b.last \in 0..MaxNow /\ Above(k, b)
  BY <1>1, <1>2, LimitTypes DEF Bucket!Tokens, LimitInv, KeySound
<1>4. Rate \in Nat /\ Burst \in Nat /\ EvictTTL \in Nat /\ MaxNow \in Nat /\ now \in 0..MaxNow /\ overlapped[k] \in Nat
  BY LimitTypes
<1>5. ASSUME NEW i \in 0..now PROVE granted[k][i] <= Rate * (now - i) + overlapped[k]
  <2>1. granted[k][i] \in Nat /\ i \in 0..MaxNow /\ Rate * (now - i) \in Nat
    <3>1. i \in 0..MaxNow /\ i \in 0..(MaxNow + 1) /\ now - i \in Nat
      BY <1>4
    <3>2. granted[k] \in [0..(MaxNow + 1) -> Nat]
      BY LimitTypes
    <3>3. granted[k][i] \in Nat
      BY <3>1, <3>2
    <3>4. Rate * (now - i) \in Nat
      BY <1>4, <3>1
    <3> QED BY <3>1, <3>3, <3>4
  <2>2. CASE i > b.last
    <3>1. granted[k][i] <= overlapped[k]
      BY <1>3, <2>1, <2>2 DEF Above
    <3> QED BY <1>4, <2>1, <3>1
  <2>3. CASE i <= b.last
    <3>1. granted[k][i] <= Burst + Rate * (b.last - i) + overlapped[k]
      BY <1>3, <2>1, <2>3 DEF Above
    <3>2. Burst <= Rate * EvictTTL
      BY DEF Bucket!BucketAssumption
    <3>3. EvictTTL <= now - b.last /\ now - b.last \in Int
      BY <1>1, <1>2, <1>3, <1>4
    <3>4. Rate * EvictTTL <= Rate * (now - b.last) /\ Rate * EvictTTL \in Int /\ Rate * (now - b.last) \in Int
      BY <1>4, <3>3, RateGrows
    <3>5. Rate * (now - i) = Rate * (now - b.last) + Rate * (b.last - i) /\ Rate * (b.last - i) \in Int
      BY <1>3, <1>4
    <3> QED BY <1>4, <2>1, <3>1, <3>2, <3>4, <3>5
  <2> QED BY <1>3, <2>2, <2>3
<1> QED BY <1>1, <1>5

\* A new bucket is full.
LEMMA NewBucket ==
  ASSUME Bucket!BucketAssumption, LimitInv, NEW k \in Keys,
         \A i \in 0..now : granted[k][i] <= Rate * (now - i) + overlapped[k],
         NEW b, b = [tokens |-> Burst, last |-> now]
  PROVE  b \in Bucket!Tokens /\ Above(k, b)
<1>1. Burst \in Nat /\ now \in 0..MaxNow /\ MaxNow \in Nat /\ Rate \in Nat /\ overlapped[k] \in Nat
  BY LimitTypes
<1>2. b.tokens = Burst /\ b.last = now /\ b \in Bucket!Tokens
  BY <1>1 DEF Bucket!Tokens
<1>3. ASSUME NEW i \in 0..MaxNow, i > now PROVE granted[k][i] <= overlapped[k]
  <2>1. \A m \in (now + 1)..(MaxNow + 1) : granted[k][m] = 0
    BY DEF LimitInv, KeySound
  <2> QED BY <1>1, <1>3, <2>1
<1>4. ASSUME NEW i \in 0..now
      PROVE  /\ granted[k][i] <= Burst + Rate * (now - i) + overlapped[k]
             /\ granted[k][i] + Burst <= Burst + Rate * (now - i) + overlapped[k]
  <2>1. granted[k][i] \in Nat /\ Rate * (now - i) \in Nat
    BY <1>1, LimitTypes
  <2> QED BY <1>1, <2>1
<1> QED BY <1>1, <1>2, <1>3, <1>4 DEF Above

LEMMA FindKeeps ==
  ASSUME Bucket!BucketAssumption, LimitInv, NEW t \in Threads, Bucket!Find(t)
  PROVE  LimitInv'
<1>1. PICK c : c = checking[t]
  OBVIOUS
<1>2. PICK k : k = c.key
  OBVIOUS
<1>3. PICK old : old = Bucket!Evicted(c.now)
  OBVIOUS
<1>4. PICK new \in BOOLEAN : new <=> k \in old \/ buckets[k] = None
  OBVIOUS
<1>5. PICK fresh : fresh = [tokens |-> Burst, last |-> now]
  OBVIOUS
<1>6. /\ t \in Bucket!Busy /\ c.step = "find"
      /\ UNCHANGED <<now, checks, granted, overlapped, wronged>>
      /\ lag' = [lag EXCEPT ![k] = IF new THEN @ + now - c.now ELSE @]
      /\ buckets' = [j \in Keys |-> IF j = k /\ new THEN fresh ELSE IF j \in old THEN None ELSE buckets[j]]
      /\ checking' = [u \in Threads |->
                        IF u = t THEN [c EXCEPT !.step = "fill"]
                        ELSE IF u \in Bucket!Busy /\ checking[u].step # "find" /\ checking[u].orphan = None /\ checking[u].key \in old
                             THEN [checking[u] EXCEPT !.orphan = buckets[checking[u].key]] ELSE checking[u]]
  BY <1>1, <1>2, <1>3, <1>4, <1>5 DEF Bucket!Find
<1>7. /\ c \in Bucket!Call /\ k \in Keys /\ c.now \in 0..now /\ c.orphan = None /\ CallSound(c)
      /\ (c.alone => Bucket!Busy = {t})
  BY <1>1, <1>2, <1>6, LimitTypes DEF LimitInv, CallSound, Bucket!Call
<1>8. \A j \in Keys : j \in old => buckets[j] # None /\ \A i \in 0..now : granted[j][i] <= Rate * (now - i) + overlapped[j]
  BY <1>3, <1>7, EvictedSpent
<1>9. new => fresh \in Bucket!Tokens /\ Above(k, fresh)
  <2>1. new => \A i \in 0..now : granted[k][i] <= Rate * (now - i) + overlapped[k]
    BY <1>4, <1>7, <1>8 DEF LimitInv, KeySound
  <2> QED BY <1>5, <1>7, <2>1, NewBucket
<1>10. ASSUME NEW j \in Keys PROVE lag'[j] \in Nat /\ lag[j] <= lag'[j]
  <2>1. lag[j] \in Nat /\ now \in Nat /\ c.now \in Nat /\ c.now <= now /\ lag \in [Keys -> Nat]
    BY <1>7, LimitTypes DEF LimitInv, Bucket!BucketTypeOK
  <2>2. lag'[j] = IF j = k /\ new THEN lag[j] + now - c.now ELSE lag[j]
    BY <1>6, <2>1
  <2> QED BY <2>1, <2>2
<1>11. ASSUME new, NEW top \in 0..now, c.now <= top PROVE Below(k, fresh, top)'
  <2>1. lag'[k] = lag[k] + now - c.now
    BY <1>6, <1>7, <1>11 DEF LimitInv, Bucket!BucketTypeOK
  <2>2. lag[k] \in Nat /\ now \in Nat /\ c.now \in Nat /\ Burst \in Nat /\ granted[k][c.now] \in Nat /\ Rate \in Nat
    BY <1>7, LimitTypes
  <2>3. now - c.now - lag'[k] <= 0 /\ now - c.now - lag'[k] \in Int
    BY <2>1, <2>2
  <2>4. Rate * (now - c.now - lag'[k]) <= Rate * 0 /\ Rate * 0 = 0 /\ Rate * (now - c.now - lag'[k]) \in Int
    BY <2>2, <2>3, RateGrows
  <2>5. fresh.tokens = Burst /\ fresh.last = now
    BY <1>5
  <2>6. granted[k][c.now] + fresh.tokens >= Burst + Rate * (fresh.last - c.now - lag'[k])
    BY <2>2, <2>4, <2>5
  <2>7. c.now \in 0..top
    BY <1>7, <1>11
  <2> QED BY <1>6, <2>6, <2>7 DEF Below
<1>12. ASSUME NEW j \in Keys PROVE KeySound(j)'
  <2>1. KeySound(j) /\ (buckets[j] # None => buckets[j] \in Bucket!Tokens)
    BY LimitTypes DEF LimitInv
  <2>2. PICK b : b = buckets'[j]
    OBVIOUS
  <2>3. /\ \A i \in (now + 1)..(MaxNow + 1) : granted[j][i] = 0
        /\ \A m \in 0..now : \A i \in 0..m : Bucket!GrantedIn(j, i, m) <= Burst + Rate * (m - i) + overlapped[j]
    BY <2>1 DEF KeySound
  <2>4. b = None => \A i \in 0..now : granted[j][i] <= Rate * (now - i) + overlapped[j]
    <3>1. CASE j \in old
      BY <1>8, <3>1
    <3>2. CASE j \notin old
      <4>1. b = None => buckets[j] = None \/ (j = k /\ new)
        BY <1>6, <2>2, <3>2
      <4> QED BY <1>4, <1>8, <2>1, <4>1 DEF KeySound
    <3> QED BY <3>1, <3>2
  <2>5. b # None => b.last <= now /\ Above(j, b)
    <3>1. CASE j = k /\ new
      <4>1. b = fresh /\ fresh.last = now
        BY <1>5, <1>6, <2>2, <3>1
      <4> QED BY <1>9, <3>1, <4>1, LimitTypes
    <3>2. CASE ~(j = k /\ new)
      <4>1. b # None => b = buckets[j]
        BY <1>6, <2>2, <3>2
      <4> QED BY <2>1, <4>1 DEF KeySound
    <3> QED BY <3>1, <3>2
  <2>6. b # None => Below(j, b, now)'
    <3>1. PICK top : top = now
      OBVIOUS
    <3>2. top \in 0..now /\ c.now <= top /\ top \in 0..MaxNow
      BY <1>7, <3>1, LimitTypes
    <3>3. CASE j = k /\ new
      <4>1. b = fresh
        BY <1>6, <2>2, <3>3
      <4>2. Below(k, fresh, top)'
        BY <1>11, <3>2, <3>3
      <4> QED BY <1>6, <3>1, <3>3, <4>1, <4>2
    <3>4. CASE ~(j = k /\ new)
      <4>1. b # None => b = buckets[j]
        BY <1>6, <2>2, <3>4
      <4>2. b # None => Below(j, b, top) /\ b \in Bucket!Tokens
        BY <2>1, <3>1, <4>1 DEF KeySound
      <4>3. b # None => Below(j, b, top)'
        BY <1>6, <1>10, <3>2, <4>2, LagGrows
      <4> QED BY <1>6, <3>1, <4>3
    <3> QED BY <3>3, <3>4
  <2>7. b # None => Above(j, b)'
    BY <1>6, <2>5 DEF Above
  <2> QED BY <1>6, <2>2, <2>3, <2>4, <2>5, <2>6, <2>7 DEF KeySound, Bucket!GrantedIn
<1>13. buckets' \in [Keys -> Bucket!Tokens \cup {None}]
  BY <1>6, <1>9, LimitTypes
<1>14. buckets'[k] # None
  BY <1>4, <1>6, <1>7, <1>9 DEF Bucket!BucketAssumption
<1>15. ASSUME NEW d, d = checking'[t]
       PROVE  d \in Bucket!Call /\ CallSound(d)' /\ d.alone = c.alone
  <2>1. d = [c EXCEPT !.step = "fill"]
    BY <1>6, <1>15
  <2>2. d \in Bucket!Call /\ d.key = k /\ d.now = c.now /\ d.step = "fill" /\ d.alone = c.alone /\ d.orphan = None
    BY <1>2, <1>7, <2>1 DEF Bucket!Call
  <2>3. PICK b : b = buckets'[k]
    OBVIOUS
  <2>4. d.alone => Below(k, b, c.now)'
    <3>1. CASE new
      <4>1. b = fresh
        BY <1>6, <1>7, <2>3, <3>1
      <4> QED BY <1>7, <1>11, <3>1, <4>1
    <3>2. CASE ~new
      <4>1. b = buckets[k] /\ b # None /\ b \in Bucket!Tokens
        BY <1>4, <1>6, <1>7, <2>3, <3>2, LimitTypes
      <4>2. d.alone => Below(k, b, c.now)
        BY <1>2, <1>6, <1>7, <2>2, <4>1 DEF CallSound
      <4> QED BY <1>6, <1>7, <1>10, <4>1, <4>2, LagGrows, LimitTypes
    <3> QED BY <3>1, <3>2
  <2>5. Allows(d)' /\ d.now <= now
    BY <1>2, <1>6, <1>7, <2>2 DEF Allows, CallSound
  <2> QED BY <1>6, <1>14, <2>2, <2>3, <2>4, <2>5 DEF CallSound
<1>16. ASSUME NEW u \in Bucket!Busy, u # t, NEW e, e = checking'[u]
       PROVE  e \in Bucket!Call /\ CallSound(e)' /\ ~e.alone
  <2>1. PICK d : d = checking[u]
    OBVIOUS
  <2>2. d \in Bucket!Call /\ CallSound(d) /\ ~d.alone /\ d.key \in Keys /\ u \in Threads
    BY <1>6, <1>16, <2>1, LimitTypes DEF LimitInv, Bucket!Busy, Bucket!Call
  <2>3. PICK lost \in BOOLEAN : lost <=> d.step # "find" /\ d.orphan = None /\ d.key \in old
    OBVIOUS
  <2>4. e = IF lost THEN [d EXCEPT !.orphan = buckets[d.key]] ELSE d
    BY <1>6, <1>16, <2>1, <2>2, <2>3
  <2>5. buckets[d.key] \in Bucket!Tokens \cup {None} /\ (d.key \in old => buckets[d.key] # None)
    BY <1>8, <2>2, LimitTypes
  <2>6. /\ e \in Bucket!Call /\ e.key = d.key /\ e.now = d.now /\ e.step = d.step /\ e.alone = d.alone
        /\ e.filled = d.filled /\ e.orphan = IF lost THEN buckets[d.key] ELSE d.orphan
    BY <2>2, <2>3, <2>4, <2>5 DEF Bucket!Call
  <2>7. Holds(e) = Holds(d) /\ Holds(d) \in Bucket!Tokens
    BY <2>2, <2>6 DEF Holds, Bucket!Call, Bucket!Tokens
  <2>8. e.orphan # None => Above(e.key, e.orphan)
    BY <2>2, <2>5, <2>6 DEF CallSound, LimitInv, KeySound
  <2>9. e.step # "find" /\ e.orphan = None => buckets'[e.key] # None
    <3> SUFFICES ASSUME e.step # "find", e.orphan = None PROVE buckets'[e.key] # None
      OBVIOUS
    <3>1. ~lost /\ d.orphan = None /\ d.key \notin old
      BY <2>3, <2>5, <2>6
    <3>2. buckets[d.key] # None
      BY <2>2, <2>6, <3>1 DEF CallSound
    <3> QED BY <1>6, <1>14, <2>2, <2>6, <3>1, <3>2
  <2>10. e.step = "store" => Above(e.key, Holds(e))
    BY <2>2, <2>6, <2>7 DEF CallSound
  <2>11. e.step = "store" /\ e.orphan = None => Below(e.key, Holds(e), now)'
    <3> SUFFICES ASSUME e.step = "store", e.orphan = None PROVE Below(e.key, Holds(e), now)'
      OBVIOUS
    <3>1. PICK top : top = now
      OBVIOUS
    <3>2. top \in 0..MaxNow
      BY <3>1, LimitTypes
    <3>3. d.orphan = None
      BY <2>5, <2>6, <2>3
    <3>4. Below(d.key, Holds(d), top)
      BY <2>2, <2>6, <3>1, <3>3 DEF CallSound
    <3>5. PICK h : h = Holds(d)
      OBVIOUS
    <3>6. Below(d.key, h, top)'
      BY <1>6, <1>10, <2>2, <2>7, <3>2, <3>4, <3>5, LagGrows
    <3> QED BY <1>6, <2>6, <2>7, <3>1, <3>5, <3>6 DEF Holds
  <2>12. Allows(e)' /\ e.now <= now
    BY <1>6, <2>2, <2>6 DEF Allows, CallSound
  <2>13. (e.orphan # None => Above(e.key, e.orphan)') /\ (e.step = "store" => Above(e.key, Holds(e))')
    BY <1>6, <2>8, <2>10 DEF Above, Holds
  <2>14. e.step = "find" => e.orphan = None
    BY <2>2, <2>3, <2>6 DEF CallSound
  <2> QED BY <1>6, <2>2, <2>6, <2>9, <2>11, <2>12, <2>13, <2>14 DEF CallSound
<1>17. ASSUME NEW u \in Threads, u \notin Bucket!Busy PROVE checking'[u] = None
  BY <1>6, <1>17 DEF Bucket!Busy
<1>18. ASSUME NEW u \in Threads, checking'[u] # None
       PROVE  checking'[u] \in Bucket!Call /\ CallSound(checking[u])' /\ (checking'[u].alone => Bucket!Busy' = {u})
  <2>1. PICK e : e = checking'[u]
    OBVIOUS
  <2>2. CASE u = t
    <3>1. e \in Bucket!Call /\ CallSound(e)' /\ e.alone = c.alone
      BY <1>15, <2>1, <2>2
    <3>2. e.alone => Bucket!Busy' = {u}
      BY <1>7, <1>17, <1>18, <2>2, <3>1 DEF Bucket!Busy
    <3> QED BY <2>1, <3>1, <3>2
  <2>3. CASE u # t
    <3>1. u \in Bucket!Busy
      BY <1>17, <1>18
    <3> QED BY <1>16, <2>1, <2>3, <3>1
  <2> QED BY <2>2, <2>3
<1>19. checking' \in [Threads -> Bucket!Call \cup {None}]
  <2>1. \A u \in Threads : checking'[u] \in Bucket!Call \cup {None}
    BY <1>18
  <2> QED BY <1>6, <2>1
<1>20. lag' \in [Keys -> Nat]
  BY <1>6, <1>10 DEF LimitInv, Bucket!BucketTypeOK
<1> QED BY <1>6, <1>12, <1>13, <1>18, <1>19, <1>20 DEF LimitInv, Bucket!BucketTypeOK, Bucket!Busy

\* A refused check has no room left in the limit.
LEMMA RefusedFull ==
  ASSUME Bucket!BucketAssumption, LimitInv, NEW c \in Bucket!Call, c.key \in Keys, c.filled < 1,
         overlapped[c.key] = 0, c.now = now, Below(c.key, Holds(c), now)
  PROVE  ~Bucket!Room(c.key, now)
<1> DEFINE k == c.key
<1>1. c.filled \in Int /\ Holds(c).tokens = c.filled /\ Holds(c).last = now
  BY DEF Holds, Bucket!Call
<1>2. PICK i \in 0..now : granted[k][i] + c.filled >= Burst + Rate * (now - i - lag[k])
  BY <1>1 DEF Below
<1>3. now \in 0..MaxNow /\ MaxNow \in Nat /\ Burst \in Nat /\ Rate \in Nat /\ lag[k] \in Nat
  BY LimitTypes
<1>4. granted[k][i] \in Nat
  <2>1. granted[k] \in [0..(MaxNow + 1) -> Nat] /\ i \in 0..(MaxNow + 1)
    BY <1>3, LimitTypes
  <2> QED BY <2>1
<1>5. granted[k][now + 1] = 0
  <2>1. \A m \in (now + 1)..(MaxNow + 1) : granted[k][m] = 0
    BY DEF LimitInv, KeySound
  <2> QED BY <1>3, <2>1
<1>6. Bucket!GrantedIn(k, i, now) = granted[k][i]
  BY <1>4, <1>5 DEF Bucket!GrantedIn
<1>7. Rate * (now - i - lag[k]) \in Int
  BY <1>3
<1>8. ~(Bucket!GrantedIn(k, i, now) < Burst + Rate * (now - i - lag[k]))
  BY <1>1, <1>2, <1>3, <1>4, <1>6, <1>7
<1> QED BY <1>8 DEF Bucket!Room

LEMMA RefuseKeeps ==
  ASSUME Bucket!BucketAssumption, LimitInv, NEW t \in Threads, Bucket!Store(t), checking[t].filled < 1
  PROVE  LimitInv'
<1>1. PICK c : c = checking[t]
  OBVIOUS
<1>2. /\ c \in Bucket!Call /\ c.step = "store" /\ CallSound(c) /\ (c.alone => Bucket!Busy = {t}) /\ t \in Bucket!Busy
      /\ c.filled \in Int /\ c.filled < 1 /\ c.key \in Keys /\ c.now \in 0..now
  BY <1>1, LimitTypes DEF Bucket!Store, LimitInv, Bucket!Call, CallSound
<1>3. PICK h : h = Holds(c)
  OBVIOUS
<1>4. h = [tokens |-> c.filled, last |-> c.now] /\ h.tokens = c.filled /\ h.last = c.now /\ h \in Bucket!Tokens
  BY <1>2, <1>3 DEF Holds, Bucket!Call, Bucket!Tokens
<1>5. /\ buckets' = IF c.orphan = None THEN [buckets EXCEPT ![c.key] = h] ELSE buckets
      /\ checking' = [checking EXCEPT ![t] = None]
      /\ UNCHANGED <<now, checks, granted, overlapped, lag>>
  BY <1>1, <1>2, <1>4 DEF Bucket!Store, Bucket!Stored
<1>6. wronged' = {}
  <2>1. c.alone => c.orphan = None
    BY <1>2 DEF CallSound
  <2>2. ~(c.alone /\ overlapped[c.key] = 0 /\ c.now = now /\ Bucket!Room(c.key, now))
    BY <1>2, <2>1, RefusedFull DEF CallSound
  <2> QED BY <1>1, <1>2, <2>2 DEF Bucket!Store, LimitInv
<1>7. c.orphan = None => Below(c.key, h, now)
  BY <1>2, <1>3, Widened, LimitTypes DEF CallSound
<1>8. ASSUME NEW j \in Keys PROVE KeySound(j)'
  <2>1. KeySound(j)
    BY DEF LimitInv
  <2>2. PICK b : b = buckets'[j]
    OBVIOUS
  <2>3. b = IF j = c.key /\ c.orphan = None THEN h ELSE buckets[j]
    BY <1>2, <1>5, <2>2 DEF LimitInv, Bucket!BucketTypeOK
  <2>4. b # None => b.last <= now /\ Above(j, b) /\ Below(j, b, now)
    <3>1. CASE j = c.key /\ c.orphan = None
      BY <1>2, <1>3, <1>4, <1>7, <2>3, <3>1 DEF CallSound
    <3>2. CASE ~(j = c.key /\ c.orphan = None)
      BY <2>1, <2>3, <3>2 DEF KeySound
    <3> QED BY <3>1, <3>2
  <2>5. b = None => buckets[j] = None
    BY <1>4, <2>3 DEF Bucket!BucketAssumption
  <2>6. b # None => (Above(j, b) /\ Below(j, b, now))'
    BY <1>5, <2>2, <2>4 DEF Above, Below
  <2> QED BY <1>5, <2>1, <2>2, <2>4, <2>5, <2>6 DEF KeySound, Bucket!GrantedIn
<1>9. buckets' \in [Keys -> Bucket!Tokens \cup {None}]
  BY <1>2, <1>4, <1>5 DEF LimitInv, Bucket!BucketTypeOK
<1>10. \A j \in Keys : buckets[j] # None => buckets'[j] # None
  BY <1>2, <1>4, <1>5 DEF Bucket!BucketAssumption, LimitInv, Bucket!BucketTypeOK
<1>11. ASSUME NEW u \in Threads, checking'[u] # None
       PROVE  CallSound(checking[u])' /\ ~checking'[u].alone
  <2>1. PICK d : d = checking[u]
    OBVIOUS
  <2>2. u # t /\ u \in Bucket!Busy /\ d = checking'[u]
    BY <1>5, <1>11, <2>1 DEF LimitInv, Bucket!BucketTypeOK, Bucket!Busy
  <2>3. d \in Bucket!Call /\ CallSound(d) /\ d.key \in Keys /\ ~d.alone
    <3>1. d \in Bucket!Call /\ CallSound(d) /\ (d.alone => Bucket!Busy = {u})
      BY <2>1, <2>2, LimitTypes DEF LimitInv
    <3>2. d.key \in Keys
      BY <3>1 DEF Bucket!Call
    <3> QED BY <1>2, <2>2, <3>1, <3>2
  <2>4. CallSound(d)'
    BY <1>5, <1>10, <2>3 DEF CallSound, Above, Below, Allows
  <2> QED BY <2>2, <2>3, <2>4
<1>12. checking' \in [Threads -> Bucket!Call \cup {None}]
  BY <1>5 DEF LimitInv, Bucket!BucketTypeOK
<1> QED BY <1>5, <1>6, <1>8, <1>9, <1>11, <1>12 DEF LimitInv, Bucket!BucketTypeOK, Bucket!Busy

LEMMA TickKeeps == ASSUME Bucket!BucketAssumption, LimitInv, Bucket!Tick PROVE LimitInv'
<1>1. now < MaxNow /\ now' = now + 1 /\ UNCHANGED <<buckets, checking, checks, granted, overlapped, lag, wronged>>
  BY DEF Bucket!Tick
<1>2. MaxNow \in Nat /\ now \in 0..MaxNow /\ now + 1 \in 0..MaxNow /\ Rate \in Nat /\ Burst \in Nat
  BY <1>1, LimitTypes
<1>3. ASSUME NEW k \in Keys PROVE KeySound(k)'
  <2>1. /\ \A i \in (now + 1)..(MaxNow + 1) : granted[k][i] = 0
        /\ \A j \in 0..now : \A i \in 0..j : Bucket!GrantedIn(k, i, j) <= Burst + Rate * (j - i) + overlapped[k]
        /\ buckets[k] = None => \A i \in 0..now : granted[k][i] <= Rate * (now - i) + overlapped[k]
        /\ buckets[k] # None => buckets[k].last <= now /\ Above(k, buckets[k]) /\ Below(k, buckets[k], now)
    BY DEF LimitInv, KeySound
  <2>2. overlapped[k] \in Nat /\ granted[k] \in [0..(MaxNow + 1) -> Nat]
    BY LimitTypes
  <2>3. granted[k][now + 1] = 0 /\ granted[k][now + 2] = 0
    <3>1. now + 1 \in (now + 1)..(MaxNow + 1) /\ now + 2 \in (now + 1)..(MaxNow + 1)
      BY <1>1, <1>2
    <3> QED BY <2>1, <3>1
  <2>4. ASSUME NEW i \in 0..(now + 1), NEW j \in 0..(now + 1), i <= j
        PROVE  Bucket!GrantedIn(k, i, j) <= Burst + Rate * (j - i) + overlapped[k]
    <3>1. CASE j <= now
      BY <1>2, <2>1, <2>4, <3>1
    <3>2. CASE j = now + 1 /\ i <= now
      <4>1. Bucket!GrantedIn(k, i, now) <= Burst + Rate * (now - i) + overlapped[k]
        BY <1>2, <2>1, <3>2
      <4>2. granted[k][i] \in Nat
        BY <1>2, <2>2
      <4>3. Bucket!GrantedIn(k, i, now) = granted[k][i] /\ Bucket!GrantedIn(k, i, j) = granted[k][i]
        BY <1>2, <2>3, <3>2, <4>2 DEF Bucket!GrantedIn
      <4>4. PICK x \in Int : x = Rate * (now - i)
        BY <1>2, <3>2
      <4>5. Rate * (j - i) = x + Rate
        BY <1>2, <3>2, <4>4
      <4>6. granted[k][i] <= Burst + x + overlapped[k]
        BY <4>1, <4>3, <4>4
      <4>7. granted[k][i] <= Burst + (x + Rate) + overlapped[k]
        BY <1>2, <2>2, <4>2, <4>4, <4>6
      <4> QED BY <4>3, <4>5, <4>7
    <3>3. CASE i = now + 1
      <4>1. Bucket!GrantedIn(k, i, j) = 0 /\ Rate * (j - i) = 0
        BY <1>2, <2>3, <2>4, <3>3 DEF Bucket!GrantedIn
      <4>2. 0 <= Burst + 0 + overlapped[k]
        BY <1>2, <2>2
      <4> QED BY <4>1, <4>2
    <3> QED BY <1>2, <2>4, <3>1, <3>2, <3>3
  <2>5. ASSUME buckets[k] = None, NEW i \in 0..(now + 1)
        PROVE  granted[k][i] <= Rate * (now + 1 - i) + overlapped[k]
    <3>1. CASE i <= now
      <4>1. granted[k][i] <= Rate * (now - i) + overlapped[k] /\ granted[k][i] \in Nat
        BY <1>2, <2>1, <2>2, <2>5, <3>1
      <4>2. Rate * (now + 1 - i) = Rate * (now - i) + Rate /\ Rate * (now - i) \in Int
        BY <1>2
      <4> QED BY <1>2, <2>2, <4>1, <4>2
    <3>2. CASE i = now + 1
      <4>1. Rate * (now + 1 - i) = 0
        BY <1>2, <3>2
      <4> QED BY <2>2, <2>3, <3>2, <4>1
    <3> QED BY <1>2, <3>1, <3>2
  <2>6. \A i \in (now + 1 + 1)..(MaxNow + 1) : granted[k][i] = 0
    BY <1>2, <2>1
  <2>7. buckets[k] # None => buckets[k].last <= now + 1 /\ Above(k, buckets[k]) /\ Below(k, buckets[k], now + 1)
    <3>1. buckets[k] # None => buckets[k].last \in Int
      BY LimitTypes DEF Bucket!Tokens
    <3>2. buckets[k] # None => Below(k, buckets[k], now + 1)
      BY <1>2, <2>1, Widened
    <3> QED BY <1>2, <2>1, <3>1, <3>2
  <2>8. buckets[k] # None => (Above(k, buckets[k]) /\ Below(k, buckets[k], now))'
    BY <1>1, <2>7 DEF Above, Below
  <2>9. \A j \in 0..(now + 1) : \A i \in 0..j : Bucket!GrantedIn(k, i, j) <= Burst + Rate * (j - i) + overlapped[k]
    BY <1>2, <2>4
  <2>10. (\A j \in 0..now : \A i \in 0..j : Bucket!GrantedIn(k, i, j) <= Burst + Rate * (j - i) + overlapped[k])'
    BY <1>1, <2>9 DEF Bucket!GrantedIn
  <2>11. (\A i \in (now + 1)..(MaxNow + 1) : granted[k][i] = 0)'
    BY <1>1, <2>6
  <2>12. (buckets[k] = None => \A i \in 0..now : granted[k][i] <= Rate * (now - i) + overlapped[k])'
    <3>1. PICK m \in Nat : m = now + 1
      BY <1>2
    <3>2. ASSUME buckets[k] = None, NEW i \in 0..m PROVE granted[k][i] <= Rate * (m - i) + overlapped[k]
      <4>1. i \in 0..(now + 1) /\ now + 1 - i = m - i
        BY <1>2, <3>1, <3>2
      <4>2. granted[k][i] <= Rate * (now + 1 - i) + overlapped[k]
        BY <2>5, <3>2, <4>1
      <4> QED BY <4>1, <4>2
    <3>3. now' = m
      BY <1>1, <3>1
    <3> QED BY <1>1, <3>2, <3>3
  <2>13. (buckets[k] # None => buckets[k].last <= now)'
    BY <1>1, <2>7
  <2> QED BY <1>1, <2>8, <2>10, <2>11, <2>12, <2>13 DEF KeySound
<1>4. ASSUME NEW t \in Bucket!Busy PROVE CallSound(checking[t])'
  <2>1. PICK c : c = checking[t]
    OBVIOUS
  <2>2. c \in Bucket!Call /\ CallSound(c) /\ c.now \in Int
    BY <2>1, LimitTypes DEF LimitInv, Bucket!Call
  <2>3. PICK top : top = IF c.alone THEN c.now ELSE now + 1
    OBVIOUS
  <2>4. c.step = "store" /\ c.orphan = None => Below(c.key, Holds(c), top)
    BY <1>2, <2>2, <2>3, Widened DEF CallSound
  <2>5. CallSound(c)'
    BY <1>1, <1>2, <2>2, <2>3, <2>4 DEF CallSound, Above, Below, Allows
  <2> QED BY <1>1, <2>1, <2>5
<1>5. Bucket!BucketTypeOK' /\ wronged' = {} /\ Bucket!Busy' = Bucket!Busy
  BY <1>1, <1>2 DEF LimitInv, Bucket!BucketTypeOK, Bucket!Busy
<1> QED BY <1>1, <1>3, <1>4, <1>5 DEF LimitInv

\* A check that ran beside another is forgiven everywhere, so what bounds a bucket or a call still does.
LEMMA Forgiven ==
  ASSUME Bucket!BucketAssumption, LimitInv, NEW j \in Keys, NEW w \in Nat, overlapped'[j] = overlapped[j] + w,
         \A i \in 0..(MaxNow + 1) : granted'[j][i] \in Nat /\ granted'[j][i] <= granted[j][i] + w
  PROVE  /\ \A b \in Bucket!Tokens : Above(j, b) => Above(j, b)'
         /\ \A c \in Bucket!Call : c.key = j /\ Allows(c) => Allows(c)'
<1>1. MaxNow \in Nat /\ Rate \in Nat /\ Burst \in Nat /\ overlapped[j] \in Nat
  BY LimitTypes
<1>2. \A i \in 0..MaxNow : granted[j][i] \in Nat
  BY <1>1, LimitTypes
<1>3. \A i \in 0..MaxNow : granted'[j][i] \in Nat /\ granted'[j][i] <= granted[j][i] + w
  BY <1>1
<1>4. ASSUME NEW b \in Bucket!Tokens, Above(j, b) PROVE Above(j, b)'
  <2>1. b.tokens \in Int /\ b.last \in 0..MaxNow /\ b.tokens <= Burst
    BY <1>4 DEF Bucket!Tokens, Above
  <2>2. ASSUME NEW i \in 0..MaxNow, i > b.last PROVE granted'[j][i] <= overlapped'[j]
    <3>1. granted[j][i] <= overlapped[j]
      BY <1>4, <2>2 DEF Above
    <3> QED BY <1>1, <1>2, <1>3, <3>1
  <2>3. ASSUME NEW i \in 0..MaxNow, ~(i > b.last)
        PROVE  /\ granted'[j][i] <= Burst + Rate * (b.last - i) + overlapped'[j]
               /\ granted'[j][i] + b.tokens <= Burst + Rate * (b.last - i) + overlapped'[j]
    <3>1. PICK x \in Int : x = Rate * (b.last - i)
      BY <1>1, <2>1
    <3>2. granted[j][i] <= Burst + x + overlapped[j] /\ granted[j][i] + b.tokens <= Burst + x + overlapped[j]
      BY <1>4, <2>3, <3>1 DEF Above
    <3>3. granted'[j][i] <= Burst + x + overlapped'[j] /\ granted'[j][i] + b.tokens <= Burst + x + overlapped'[j]
      BY <1>1, <1>2, <1>3, <2>1, <3>1, <3>2
    <3> QED BY <3>1, <3>3
  <2>4. /\ b.tokens <= Burst
        /\ \A i \in 0..MaxNow :
              IF i > b.last THEN granted'[j][i] <= overlapped'[j]
              ELSE /\ granted'[j][i] <= Burst + Rate * (b.last - i) + overlapped'[j]
                   /\ granted'[j][i] + b.tokens <= Burst + Rate * (b.last - i) + overlapped'[j]
    BY <2>1, <2>2, <2>3
  <2> QED BY <2>4 DEF Above
<1>5. ASSUME NEW c \in Bucket!Call, c.key = j, Allows(c) PROVE Allows(c)'
  <2>1. c.now \in 0..MaxNow
    BY DEF Bucket!Call
  <2>2. ASSUME NEW i \in 0..MaxNow, i > c.now PROVE granted'[j][i] <= overlapped'[j]
    <3>1. granted[j][i] <= overlapped[j]
      BY <1>5, <2>2 DEF Allows
    <3> QED BY <1>1, <1>2, <1>3, <3>1
  <2>3. ASSUME NEW i \in 0..MaxNow, ~(i > c.now)
        PROVE  granted'[j][i] <= Burst + Rate * (c.now - i) + overlapped'[j]
    <3>1. PICK x \in Int : x = Rate * (c.now - i)
      BY <1>1, <2>1
    <3>2. granted[j][i] <= Burst + x + overlapped[j]
      BY <1>5, <2>3, <3>1 DEF Allows
    <3>3. granted'[j][i] <= Burst + x + overlapped'[j]
      BY <1>1, <1>2, <1>3, <3>1, <3>2
    <3> QED BY <3>1, <3>3
  <2>4. \A i \in 0..MaxNow : IF i > c.now THEN granted'[c.key][i] <= overlapped'[c.key]
                             ELSE granted'[c.key][i] <= Burst + Rate * (c.now - i) + overlapped'[c.key]
    BY <1>5, <2>2, <2>3
  <2> QED BY <2>4 DEF Allows
<1> QED BY <1>4, <1>5

LEMMA AcceptKeeps ==
  ASSUME Bucket!BucketAssumption, LimitInv, NEW t \in Threads, Bucket!Store(t), ~(checking[t].filled < 1)
  PROVE  LimitInv'
<1>1. PICK c : c = checking[t]
  OBVIOUS
<1>2. PICK k : k = c.key
  OBVIOUS
<1>3. PICK n : n = c.now
  OBVIOUS
<1>4. PICK f : f = c.filled
  OBVIOUS
<1>5. /\ c \in Bucket!Call /\ c.step = "store" /\ CallSound(c) /\ (c.alone => Bucket!Busy = {t}) /\ t \in Bucket!Busy
      /\ f \in Int /\ f >= 1 /\ k \in Keys /\ n \in 0..now /\ Above(k, Holds(c))
  BY <1>1, <1>2, <1>3, <1>4, LimitTypes DEF Bucket!Store, LimitInv, Bucket!Call, CallSound
<1>6. now \in 0..MaxNow /\ MaxNow \in Nat /\ Rate \in Nat /\ Burst \in Nat /\ overlapped[k] \in Nat /\ lag[k] \in Nat
  BY <1>5, LimitTypes
<1>7. PICK g : g = granted[k]
  OBVIOUS
<1>8. PICK G : G = [i \in 0..(MaxNow + 1) |-> granted[k][i] + IF i <= c.now THEN 1 ELSE 0]
  OBVIOUS
<1>9. PICK w \in {0, 1} : w = IF c.alone THEN 0 ELSE 1
  OBVIOUS
<1>10. g \in [0..(MaxNow + 1) -> Nat] /\ \A i \in 0..(MaxNow + 1) : g[i] \in Nat
  BY <1>5, <1>7, LimitTypes
<1>11. /\ G \in [0..(MaxNow + 1) -> Nat]
       /\ \A i \in 0..(MaxNow + 1) : G[i] \in Nat /\ G[i] = IF i <= n THEN g[i] + 1 ELSE g[i]
  BY <1>3, <1>6, <1>7, <1>8, <1>10
<1>12. PICK spent : spent = [last |-> n, tokens |-> f - 1]
  OBVIOUS
<1>13. spent.last = n /\ spent.tokens = f - 1 /\ spent \in Bucket!Tokens /\ spent # None
  BY <1>5, <1>6, <1>12 DEF Bucket!Tokens, Bucket!BucketAssumption
<1>14. /\ buckets' = IF c.orphan = None THEN [buckets EXCEPT ![k] = spent] ELSE buckets
       /\ checking' = [checking EXCEPT ![t] = None]
       /\ granted' = [granted EXCEPT ![k] = G]
       /\ UNCHANGED <<now, checks, lag, wronged>>
  BY <1>1, <1>2, <1>3, <1>4, <1>8, <1>12 DEF Bucket!Store, Bucket!Stored
<1>15. overlapped' = [overlapped EXCEPT ![k] = overlapped[k] + w]
  <2>1. overlapped' = [overlapped EXCEPT ![k] = IF c.alone THEN overlapped[k] ELSE overlapped[k] + 1]
    BY <1>1, <1>2, <1>4 DEF Bucket!Store
  <2>2. (IF c.alone THEN overlapped[k] ELSE overlapped[k] + 1) = overlapped[k] + w
    BY <1>6, <1>9
  <2> QED BY <2>1, <2>2
<1>16. /\ granted'[k] = G /\ overlapped'[k] = overlapped[k] + w
       /\ \A j \in Keys \ {k} : granted'[j] = granted[j] /\ overlapped'[j] = overlapped[j] + 0
  <2>1. \A j \in Keys : overlapped[j] \in Nat
    BY LimitTypes
  <2> QED BY <1>5, <1>14, <1>15, <2>1 DEF LimitInv, Bucket!BucketTypeOK
<1>17. ASSUME NEW i \in 0..n
       PROVE  /\ g[i] \in Nat /\ g[i] + f <= Burst + Rate * (n - i) + overlapped[k]
  <2>1. i \in 0..MaxNow /\ i \in 0..(MaxNow + 1) /\ ~(i > n)
    BY <1>5, <1>6
  <2>2. Holds(c).tokens = f /\ Holds(c).last = n
    BY <1>3, <1>4 DEF Holds
  <2>3. granted[k][i] + f <= Burst + Rate * (n - i) + overlapped[k]
    BY <1>5, <2>1, <2>2 DEF Above
  <2> QED BY <1>7, <1>10, <2>1, <2>3
<1>18. Above(k, spent)'
  <2>1. f <= Burst
    BY <1>4, <1>5 DEF Above, Holds
  <2>2. ASSUME NEW i \in 0..MaxNow, i > n PROVE G[i] <= overlapped[k] + w
    <3>1. granted[k][i] <= overlapped[k]
      BY <1>2, <1>3, <1>5, <2>2 DEF CallSound, Allows
    <3>2. G[i] = g[i]
      BY <1>5, <1>6, <1>11, <2>2
    <3> QED BY <1>6, <1>7, <1>10, <3>1, <3>2
  <2>3. ASSUME NEW i \in 0..MaxNow, ~(i > n)
        PROVE  /\ G[i] <= Burst + Rate * (n - i) + (overlapped[k] + w)
               /\ G[i] + (f - 1) <= Burst + Rate * (n - i) + (overlapped[k] + w)
    <3>1. i \in 0..n
      BY <1>5, <1>6, <2>3
    <3>2. PICK x \in Int : x = Rate * (n - i)
      BY <1>5, <1>6
    <3>3. g[i] \in Nat /\ g[i] + f <= Burst + x + overlapped[k]
      BY <1>17, <3>1, <3>2
    <3>4. G[i] = g[i] + 1
      BY <1>5, <1>6, <1>11, <3>1
    <3>5. G[i] <= Burst + x + (overlapped[k] + w) /\ G[i] + (f - 1) <= Burst + x + (overlapped[k] + w)
      BY <1>5, <1>6, <3>2, <3>3, <3>4
    <3> QED BY <3>2, <3>5
  <2>4. /\ f - 1 <= Burst
        /\ \A i \in 0..MaxNow :
              IF i > n THEN G[i] <= overlapped[k] + w
              ELSE /\ G[i] <= Burst + Rate * (n - i) + (overlapped[k] + w)
                   /\ G[i] + (f - 1) <= Burst + Rate * (n - i) + (overlapped[k] + w)
    BY <1>5, <1>6, <2>1, <2>2, <2>3
  <2> QED BY <1>13, <1>16, <2>4 DEF Above
<1>19. c.orphan = None => Below(k, spent, now)'
  <2> SUFFICES ASSUME c.orphan = None, overlapped[k] + w = 0
               PROVE  \E i \in 0..now : G[i] + spent.tokens >= Burst + Rate * (spent.last - i - lag[k])
    BY <1>14, <1>16 DEF Below
  <2>1. c.alone /\ overlapped[k] = 0
    BY <1>6, <1>9
  <2>2. Holds(c).tokens = f /\ Holds(c).last = n
    BY <1>3, <1>4 DEF Holds
  <2>3. PICK i \in 0..n : granted[k][i] + f >= Burst + Rate * (n - i - lag[k])
    BY <1>2, <1>3, <1>5, <2>1, <2>2 DEF CallSound, Below
  <2>4. G[i] = g[i] + 1 /\ g[i] \in Nat /\ i \in 0..now
    <3>1. n \in Int /\ now \in Int /\ MaxNow \in Int /\ n <= now /\ now <= MaxNow
      BY <1>5, <1>6
    <3>2. i \in 0..(MaxNow + 1) /\ i <= n /\ i \in 0..now
      BY <3>1
    <3> QED BY <1>10, <1>11, <3>2
  <2>5. PICK x \in Int : x = Rate * (n - i - lag[k])
    BY <1>5, <1>6
  <2>6. G[i] + (f - 1) >= Burst + x
    BY <1>5, <1>6, <1>7, <2>3, <2>4, <2>5
  <2> QED BY <1>13, <2>4, <2>5, <2>6
<1>20. ASSUME NEW j \in 0..now, NEW i \in 0..j
       PROVE  G[i] - G[j + 1] <= Burst + Rate * (j - i) + (overlapped[k] + w)
  <2>1. i \in 0..(MaxNow + 1) /\ j + 1 \in 0..(MaxNow + 1) /\ j \in Nat /\ i \in Nat /\ n \in Nat
    BY <1>5, <1>6
  <2>2. /\ g[i] \in Nat /\ g[j + 1] \in Nat /\ G[i] = IF i <= n THEN g[i] + 1 ELSE g[i]
        /\ G[j + 1] = IF j + 1 <= n THEN g[j + 1] + 1 ELSE g[j + 1]
    BY <1>10, <1>11, <2>1
  <2>3. PICK x \in Int : x = Rate * (j - i)
    BY <1>6, <2>1
  <2>4. g[i] - g[j + 1] <= Burst + x + overlapped[k]
    BY <1>5, <1>7, <2>3 DEF LimitInv, KeySound, Bucket!GrantedIn
  <2>5. CASE i > n
    <3>1. G[i] = g[i] /\ G[j + 1] = g[j + 1]
      BY <2>1, <2>2, <2>5
    <3>2. G[i] - G[j + 1] <= Burst + x + (overlapped[k] + w)
      BY <1>6, <2>2, <2>3, <2>4, <3>1
    <3> QED BY <2>3, <3>2
  <2>6. CASE i <= n /\ j + 1 <= n
    <3>1. G[i] - G[j + 1] <= Burst + x + (overlapped[k] + w)
      BY <1>6, <2>2, <2>3, <2>4, <2>6
    <3> QED BY <2>3, <3>1
  <2>7. CASE i <= n /\ n <= j
    <3>1. PICK y \in Int : y = Rate * (n - i)
      BY <1>6, <2>1
    <3>2. n - i \in Int /\ j - i \in Int /\ n - i <= j - i
      BY <2>1, <2>7
    <3>3. y <= x
      BY <2>3, <3>1, <3>2, RateGrows
    <3>4. g[i] + f <= Burst + y + overlapped[k]
      BY <1>17, <2>1, <2>7, <3>1
    <3>5. G[i] = g[i] + 1 /\ G[j + 1] = g[j + 1]
      BY <2>1, <2>2, <2>7
    <3>6. G[i] - G[j + 1] <= Burst + x + (overlapped[k] + w)
      BY <1>5, <1>6, <2>2, <2>3, <3>1, <3>3, <3>4, <3>5
    <3> QED BY <2>3, <3>6
  <2> QED BY <2>1, <2>5, <2>6, <2>7
<1>21. \A i \in (now + 1)..(MaxNow + 1) : G[i] = 0
  <2>1. \A i \in (now + 1)..(MaxNow + 1) : g[i] = 0
    BY <1>5, <1>7 DEF LimitInv, KeySound
  <2>2. ASSUME NEW i \in (now + 1)..(MaxNow + 1) PROVE i \in 0..(MaxNow + 1) /\ ~(i <= n)
    BY <1>5, <1>6
  <2> QED BY <1>11, <2>1, <2>2
<1>22. ASSUME NEW j \in Keys, j # k \/ ~c.alone, NEW v \in {0, 1}, v = IF j = k THEN 1 ELSE 0
       PROVE  /\ overlapped'[j] = overlapped[j] + v
              /\ \A i \in 0..(MaxNow + 1) : granted'[j][i] \in Nat /\ granted'[j][i] <= granted[j][i] + v
  <2>1. CASE j = k
    <3>1. v = w
      BY <1>9, <1>22, <2>1
    <3>2. ASSUME NEW i \in 0..(MaxNow + 1) PROVE granted'[j][i] \in Nat /\ granted'[j][i] <= granted[j][i] + v
      <4>1. g[i] \in Nat /\ G[i] \in Nat /\ (G[i] = g[i] \/ G[i] = g[i] + 1) /\ v = 1
        BY <1>10, <1>11, <1>22, <2>1
      <4> QED BY <1>7, <1>16, <2>1, <4>1
    <3> QED BY <1>16, <2>1, <3>1, <3>2
  <2>2. CASE j # k
    <3>1. v = 0 /\ granted'[j] = granted[j] /\ overlapped'[j] = overlapped[j] + 0
      BY <1>16, <1>22, <2>2
    <3>2. granted[j] \in [0..(MaxNow + 1) -> Nat]
      BY LimitTypes
    <3>3. ASSUME NEW i \in 0..(MaxNow + 1) PROVE granted[j][i] \in Nat /\ granted[j][i] <= granted[j][i] + 0
      <4>1. granted[j][i] \in Nat
        BY <3>2
      <4> QED BY <4>1
    <3> QED BY <3>1, <3>3
  <2> QED BY <2>1, <2>2
<1>23. ASSUME NEW j \in Keys, j # k \/ ~c.alone
       PROVE  /\ \A b \in Bucket!Tokens : Above(j, b) => Above(j, b)'
              /\ \A d \in Bucket!Call : d.key = j /\ Allows(d) => Allows(d)'
  <2>1. PICK v \in {0, 1} : v = IF j = k THEN 1 ELSE 0
    OBVIOUS
  <2>2. v \in Nat
    BY <2>1
  <2> QED BY <1>22, <1>23, <2>1, <2>2, Forgiven
<1>24. ASSUME NEW j \in Keys, j # k \/ ~c.alone, NEW b, NEW top, Below(j, b, top)
       PROVE  Below(j, b, top)'
  <2>1. CASE j = k
    <3>1. overlapped'[j] = overlapped[j] + 1 /\ overlapped[j] \in Nat
      BY <1>6, <1>9, <1>16, <1>24, <2>1
    <3>2. overlapped'[j] # 0
      BY <3>1
    <3> QED BY <3>2 DEF Below
  <2>2. CASE j # k
    <3>1. granted'[j] = granted[j] /\ overlapped'[j] = overlapped[j] /\ lag' = lag
      <4>1. overlapped[j] \in Nat
        BY LimitTypes
      <4> QED BY <1>14, <1>16, <2>2, <4>1
    <3> QED BY <1>24, <3>1 DEF Below
  <2> QED BY <2>1, <2>2
<1>25. ASSUME NEW j \in Keys PROVE buckets'[j] = IF j = k /\ c.orphan = None THEN spent ELSE buckets[j]
  BY <1>5, <1>14 DEF LimitInv, Bucket!BucketTypeOK
<1>26. ASSUME NEW j \in Keys PROVE KeySound(j)'
  <2>1. KeySound(j)
    BY DEF LimitInv
  <2>2. PICK b : b = buckets'[j]
    OBVIOUS
  <2>3. CASE j = k
    <3>1. (\A i \in (now + 1)..(MaxNow + 1) : granted[j][i] = 0)'
      BY <1>14, <1>16, <1>21, <2>3
    <3>2. (\A m \in 0..now : \A i \in 0..m : Bucket!GrantedIn(j, i, m) <= Burst + Rate * (m - i) + overlapped[j])'
      BY <1>14, <1>16, <1>20, <2>3 DEF Bucket!GrantedIn
    <3>3. b = None => ~c.alone /\ buckets[j] = None
      BY <1>5, <1>13, <1>25, <2>2, <2>3 DEF CallSound
    <3>4. (buckets[j] = None => \A i \in 0..now : granted[j][i] <= Rate * (now - i) + overlapped[j])'
      <4> SUFFICES ASSUME b = None, NEW i \in 0..now PROVE G[i] <= Rate * (now - i) + (overlapped[k] + w)
        BY <1>14, <1>16, <2>2, <2>3
      <4>1. PICK x \in Int : x = Rate * (now - i)
        BY <1>6
      <4>2. g[i] <= x + overlapped[k] /\ w = 1
        BY <1>7, <1>9, <2>1, <2>3, <3>3, <4>1 DEF KeySound
      <4>3. g[i] \in Nat /\ (G[i] = g[i] \/ G[i] = g[i] + 1)
        BY <1>6, <1>10, <1>11
      <4>4. G[i] <= x + (overlapped[k] + w)
        BY <1>6, <4>1, <4>2, <4>3
      <4> QED BY <4>1, <4>4
    <3>5. b # None => b.last <= now /\ Above(j, b)' /\ Below(j, b, now)'
      <4>1. CASE c.orphan = None
        BY <1>5, <1>6, <1>13, <1>18, <1>19, <1>25, <2>2, <2>3, <4>1
      <4>2. CASE c.orphan # None
        <5>1. b = buckets[j] /\ ~c.alone
          BY <1>5, <1>25, <2>2, <4>2 DEF CallSound
        <5>2. b # None => b \in Bucket!Tokens /\ b.last <= now /\ Above(j, b) /\ Below(j, b, now)
          BY <2>1, <5>1, LimitTypes DEF KeySound
        <5>3. PICK top : top = now
          OBVIOUS
        <5>4. b # None => Above(j, b)' /\ Below(j, b, top)'
          BY <1>23, <1>24, <5>1, <5>2, <5>3
        <5> QED BY <1>14, <5>2, <5>3, <5>4
      <4> QED BY <4>1, <4>2
    <3>6. (buckets[j] # None => buckets[j].last <= now /\ Above(j, buckets[j]) /\ Below(j, buckets[j], now))'
      BY <1>14, <2>2, <3>5
    <3> QED BY <3>1, <3>2, <3>4, <3>6 DEF KeySound
  <2>4. CASE j # k
    <3>1. buckets'[j] = buckets[j] /\ granted'[j] = granted[j] /\ overlapped'[j] = overlapped[j]
      <4>1. overlapped[j] \in Nat
        BY LimitTypes
      <4> QED BY <1>16, <1>25, <2>4, <4>1
    <3> QED BY <1>14, <2>1, <3>1 DEF KeySound, Above, Below, Bucket!GrantedIn
  <2> QED BY <2>3, <2>4
<1>27. ASSUME NEW u \in Threads, checking'[u] # None
       PROVE  CallSound(checking[u])' /\ ~checking'[u].alone
  <2>1. PICK d : d = checking[u]
    OBVIOUS
  <2>2. u # t /\ u \in Bucket!Busy /\ d = checking'[u]
    BY <1>14, <1>27, <2>1 DEF LimitInv, Bucket!BucketTypeOK, Bucket!Busy
  <2>3. PICK j : j = d.key
    OBVIOUS
  <2>4. /\ d \in Bucket!Call /\ CallSound(d) /\ j \in Keys /\ ~d.alone /\ ~c.alone
        /\ d.orphan \in Bucket!Tokens \cup {None}
    <3>1. d \in Bucket!Call /\ CallSound(d) /\ (d.alone => Bucket!Busy = {u})
      BY <2>1, <2>2, LimitTypes DEF LimitInv
    <3>2. ~d.alone /\ ~c.alone
      BY <1>5, <2>2, <3>1
    <3>3. d.key \in Keys /\ d.orphan \in Bucket!Tokens \cup {None}
      BY <3>1 DEF Bucket!Call
    <3> QED BY <2>3, <3>1, <3>2, <3>3
  <2>5. PICK h : h = Holds(d)
    OBVIOUS
  <2>6. h \in Bucket!Tokens
    BY <2>4, <2>5 DEF Holds, Bucket!Call, Bucket!Tokens
  <2>7. Allows(d)' /\ d.now <= now
    BY <1>23, <2>3, <2>4 DEF CallSound
  <2>8. d.orphan # None => Above(j, d.orphan)'
    BY <1>23, <2>3, <2>4 DEF CallSound
  <2>9. d.step = "store" => Above(j, h)'
    BY <1>23, <2>3, <2>4, <2>5, <2>6 DEF CallSound
  <2>10. d.step = "store" /\ d.orphan = None => Below(j, h, now)'
    <3>1. PICK top : top = now
      OBVIOUS
    <3>2. d.step = "store" /\ d.orphan = None => Below(j, h, top)
      BY <2>3, <2>4, <2>5, <3>1 DEF CallSound
    <3>3. d.step = "store" /\ d.orphan = None => Below(j, h, top)'
      BY <1>24, <2>4, <3>2
    <3> QED BY <1>14, <3>1, <3>3
  <2>11. d.step # "find" /\ d.orphan = None => buckets'[j] # None
    BY <1>13, <1>25, <2>3, <2>4 DEF CallSound
  <2>12. Holds(d)' = h
    BY <2>5 DEF Holds
  <2>13. CallSound(d)'
    BY <1>14, <2>3, <2>4, <2>5, <2>7, <2>8, <2>9, <2>10, <2>11 DEF CallSound, Holds
  <2> QED BY <2>2, <2>4, <2>13
<1>28. buckets' \in [Keys -> Bucket!Tokens \cup {None}] /\ checking' \in [Threads -> Bucket!Call \cup {None}]
  BY <1>5, <1>13, <1>14 DEF LimitInv, Bucket!BucketTypeOK
<1>29. granted' \in [Keys -> [0..(MaxNow + 1) -> Nat]] /\ overlapped' \in [Keys -> Nat]
  <2>1. overlapped[k] + w \in Nat
    BY <1>6, <1>9
  <2> QED BY <1>5, <1>11, <1>14, <1>15, <2>1 DEF LimitInv, Bucket!BucketTypeOK
<1> QED BY <1>14, <1>26, <1>27, <1>28, <1>29 DEF LimitInv, Bucket!BucketTypeOK, Bucket!Busy

LEMMA LimitInvStep ==
  ASSUME Bucket!BucketAssumption, LimitInv, [Bucket!BucketNext]_(Bucket!bucketVars)
  PROVE  LimitInv'
<1>1. ASSUME NEW t \in Threads, Bucket!Store(t) PROVE LimitInv'
  BY <1>1, AcceptKeeps, RefuseKeeps
<1>2. CASE UNCHANGED Bucket!bucketVars
  <2>1. UNCHANGED <<now, buckets, checking, checks, granted, overlapped, lag, wronged>>
    BY <1>2 DEF Bucket!bucketVars
  <2>2. ASSUME NEW k \in Keys PROVE KeySound(k)'
    BY <2>1, <2>2 DEF LimitInv, KeySound, Above, Below, Bucket!GrantedIn
  <2>3. Bucket!Busy' = Bucket!Busy /\ Bucket!BucketTypeOK' = Bucket!BucketTypeOK
    BY <2>1 DEF Bucket!Busy, Bucket!BucketTypeOK
  <2>4. ASSUME NEW t \in Bucket!Busy PROVE CallSound(checking[t])' /\ checking'[t] = checking[t]
    <3>1. CallSound(checking[t])
      BY DEF LimitInv
    <3> QED BY <2>1, <3>1 DEF CallSound, Above, Below, Allows, Holds
  <2> QED BY <2>1, <2>2, <2>3, <2>4 DEF LimitInv
<1> QED BY <1>1, <1>2, CheckKeeps, FindKeeps, RaiseKeeps, FillKeeps, TickKeeps DEF Bucket!BucketNext

\* TokenBucket.check of core/deps.py holds its limit without a lock: in every span
\* of time a client is granted no more than the burst and what the span refills,
\* except that each check that ran beside another may be forgotten once, whatever
\* _evict_stale throws away meanwhile; and a client whose checks never overlapped
\* is not refused while the limit has room.
LEMMA LimitHolds == ServicesSpec => [](subject = "limit" => Bucket!RateKept)
<1> DEFINE I == subject = "limit" => LimitInv
<1>1. ServicesInit => I
  BY LimitInvInit, BucketKnown DEF ServicesInit
<1>2. I /\ [ServicesNext]_allVars => I'
  BY PartSteps, LimitInvStep, BucketKnown
<1>3. I => (subject = "limit" => Bucket!RateKept)
  BY DEF LimitInv, KeySound, Bucket!RateKept
<1> HIDE DEF I
<1> QED BY <1>1, <1>2, <1>3, PTL DEF ServicesSpec

\* The limits and the accounts behind every request: a client gets what its limit says,
\* and what an account accepts descends from its present password.
THEOREM AccessIsSound == ServicesSpec => []AccessSound
<1>1. (subject = "limit" => Bucket!RateKept) /\ (subject = "accounts" => Account!AccountsSound) => AccessSound
  BY DEF AccessSound
<1> QED BY <1>1, LimitHolds, TokensDescend, PTL
===============================================================================
