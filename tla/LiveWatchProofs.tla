-------------------------- MODULE LiveWatchProofs --------------------------
(***************************************************************************)
(* What holds of the live watch for all browsers, pages, hosts and limits: *)
(* the types; that the history poll passes a visit over only for a newer   *)
(* one of another browser, or for as many of its own as a query returns;   *)
(* that a tab is shown only on the device it was known on; and that the    *)
(* threat list counts every answered observe at most once.                 *)
(***************************************************************************)
EXTENDS LiveWatch, FiniteSetTheorems, SequenceTheorems, WellFoundedInduction, TLAPS

-----------------------------------------------------------------------------
(* Naturals: a set of them has a least member, a bounded one a greatest.   *)

LEMMA Least ==
  ASSUME NEW T \in SUBSET Nat, T # {}
  PROVE  \E i \in T : \A j \in T : i <= j
<1> DEFINE R == OpToRel(<, Nat)
<1>1. IsWellFoundedOn(R, Nat)
  BY NatLessThanWellFounded
<1> HIDE DEF R
<1>2. PICK i \in T : \A j \in T : <<j, i>> \notin R
  BY <1>1, WFMin
<1>3. \A j \in T : ~(j < i)
  BY <1>2 DEF R, OpToRel
<1> QED BY <1>2, <1>3

LEMMA Greatest ==
  ASSUME NEW T \in SUBSET Nat, T # {}, NEW n \in Nat, \A i \in T : i <= n
  PROVE  \E i \in T : \A j \in T : j <= i
<1>1. PICK U : U = {u \in Nat : n - u \in T}
  OBVIOUS
<1>2. ASSUME NEW i \in T PROVE n - i \in U
  <2>1. i \in Nat /\ n - i \in Nat /\ n - (n - i) = i
    OBVIOUS
  <2> QED BY <1>1, <2>1
<1>3. PICK u \in U : \A j \in U : u <= j
  BY <1>1, <1>2, Least
<1>4. PICK i \in T : u = n - i
  BY <1>1
<1>5. ASSUME NEW j \in T PROVE j <= i
  <2>1. u <= n - j /\ i \in Nat /\ j \in Nat
    BY <1>2, <1>3
  <2> QED BY <1>4, <2>1
<1> QED BY <1>5

-----------------------------------------------------------------------------
(* The newest rows of a query, and the mark that a poll leaves             *)

\* A row that a query leaves out has as many newer ones among what it returns as
\* it may return.
LEMMA NewestCover ==
  ASSUME NEW vs, IsFiniteSet(vs), NEW n \in Nat, \A w \in vs : w.at \in Nat /\ w.at <= n,
         NEW k \in Nat, NEW v \in vs, v \notin Newest(vs, k)
  PROVE  Cardinality({w \in Newest(vs, k) : w.at > v.at}) >= k
<1>1. PICK out : out = vs \ Newest(vs, k)
  OBVIOUS
<1>2. PICK ats : ats = {w.at : w \in out}
  OBVIOUS
<1>3. ats \in SUBSET Nat /\ ats # {} /\ \A i \in ats : i <= n
  BY <1>1, <1>2
<1>4. PICK last \in ats : \A j \in ats : j <= last
  BY <1>3, Greatest
<1>5. PICK u \in out : u.at = last
  BY <1>2
<1>6. \A w \in out : w.at <= u.at
  BY <1>2, <1>4, <1>5
<1>7. PICK newer : newer = {w \in vs : w.at > u.at}
  OBVIOUS
<1>8. IsFiniteSet(newer) /\ Cardinality(newer) \in Nat
  BY <1>7, FS_Subset, FS_CardinalityType
<1>9. Cardinality(newer) >= k
  <2>1. u \in vs /\ ~(Cardinality(newer) < k)
    BY <1>1, <1>5, <1>7 DEF Newest
  <2> QED BY <1>8, <2>1
<1>10. PICK found : found = {w \in Newest(vs, k) : w.at > v.at}
  OBVIOUS
<1>11. Newest(vs, k) \subseteq vs /\ IsFiniteSet(found) /\ Cardinality(found) \in Nat
  <2>1. Newest(vs, k) \subseteq vs
    BY DEF Newest
  <2>2. found \subseteq vs
    BY <1>10, <2>1
  <2> QED BY <2>1, <2>2, FS_Subset, FS_CardinalityType
<1>12. newer \subseteq found
  <2>1. v.at <= u.at /\ v.at \in Nat /\ u.at \in Nat
    BY <1>1, <1>5, <1>6
  <2>2. ASSUME NEW w \in newer PROVE w \in found
    <3>1. w \in vs /\ w.at > u.at /\ w.at \in Nat
      BY <1>7
    <3>2. w \notin out
      BY <1>6, <2>1, <3>1
    <3>3. w \in Newest(vs, k)
      BY <1>1, <3>1, <3>2
    <3>4. w.at > v.at
      BY <2>1, <3>1
    <3> QED BY <1>10, <3>3, <3>4
  <2> QED BY <2>2
<1>13. Cardinality(newer) <= Cardinality(found)
  BY <1>11, <1>12, FS_Subset
<1> QED BY <1>8, <1>9, <1>10, <1>11, <1>13

LEMMA LatestMark ==
  ASSUME NEW vs, NEW n \in Nat, NEW last \in Nat, last <= n, \A v \in vs : v.at \in Nat /\ v.at <= n
  PROVE  /\ Latest(vs, last) \in {last} \cup {v.at : v \in vs}
         /\ Latest(vs, last) \in Nat /\ last <= Latest(vs, last) /\ Latest(vs, last) <= n
         /\ \A v \in vs : v.at <= Latest(vs, last)
<1>1. PICK ats : ats = {last} \cup {v.at : v \in vs}
  OBVIOUS
<1>2. ats \in SUBSET Nat /\ ats # {} /\ \A i \in ats : i <= n
  BY <1>1
<1>3. \E m \in ats : \A i \in ats : i <= m
  BY <1>2, Greatest
<1>4. Latest(vs, last) = CHOOSE m \in ats : \A i \in ats : i <= m
  BY <1>1 DEF Latest
<1>5. Latest(vs, last) \in ats /\ \A i \in ats : i <= Latest(vs, last)
  BY <1>3, <1>4
<1> QED BY <1>1, <1>2, <1>5

-----------------------------------------------------------------------------
(* The pages found in the history: of as many databases as there are       *)

\* The databases that are merged into nothing yet, then one after the other.
Merges(f, n) == f = [i \in 0..n |-> IF i = 0 THEN {} ELSE Merged(f[i - 1], Dbs[i])]

LEMMA MergesExist ==
  ASSUME NEW n \in Nat
  PROVE  \E f : Merges(f, n)
<1> SUFFICES ASSUME \A f : ~Merges(f, n) PROVE FALSE
  OBVIOUS
<1>1. PICK T : T = {m \in Nat : \A f : ~Merges(f, m)}
  OBVIOUS
<1>2. T \in SUBSET Nat /\ n \in T
  BY <1>1
<1>3. PICK m \in T : \A j \in T : m <= j
  BY <1>2, Least
<1>4. m # 0
  <2>1. PICK f : f = [i \in 0..0 |-> {}]
    OBVIOUS
  <2>2. Merges(f, 0)
    BY <2>1 DEF Merges
  <2> QED BY <1>1, <2>2
<1>5. m \in Nat /\ m - 1 \in Nat /\ m - 1 \notin T
  BY <1>2, <1>3, <1>4
<1>6. PICK f : Merges(f, m - 1)
  BY <1>1, <1>5
<1>7. PICK g : g = [i \in 0..m |-> IF i = m THEN Merged(f[m - 1], Dbs[m]) ELSE f[i]]
  OBVIOUS
<1>8. ASSUME NEW i \in 0..m
      PROVE  g[i] = IF i = 0 THEN {} ELSE Merged(g[i - 1], Dbs[i])
  <2>1. CASE i = 0
    BY <1>4, <1>5, <1>6, <1>7, <2>1 DEF Merges
  <2>2. CASE i = m
    BY <1>4, <1>5, <1>7, <2>2
  <2>3. CASE i # 0 /\ i # m
    <3>1. i \in 0..(m - 1) /\ i - 1 \in 0..(m - 1) /\ i - 1 \in 0..m /\ i - 1 # m
      BY <1>5, <2>3
    <3>2. f[i] = Merged(f[i - 1], Dbs[i])
      BY <1>6, <2>3, <3>1 DEF Merges
    <3>3. g[i] = f[i] /\ g[i - 1] = f[i - 1]
      BY <1>7, <2>3, <3>1
    <3> QED BY <2>3, <3>2, <3>3
  <2> QED BY <2>1, <2>2, <2>3
<1>9. Merges(g, m)
  <2>1. g = [i \in 0..m |-> g[i]]
    BY <1>7
  <2>2. g = [i \in 0..m |-> IF i = 0 THEN {} ELSE Merged(g[i - 1], Dbs[i])]
    BY <1>8, <2>1
  <2> QED BY <2>2 DEF Merges
<1> QED BY <1>1, <1>9

\* Whatever is merged was visited.
LEMMA HistoryVisited == HistoryTabs \subseteq {v.page : v \in visits}
<1> DEFINE pages == {v.page : v \in visits}
<1>1. Len(Dbs) \in Nat
  BY WatchAssumption
<1>2. MergedOf = CHOOSE f : Merges(f, Len(Dbs))
  BY DEF MergedOf, Merges
<1>3. Merges(MergedOf, Len(Dbs))
  BY <1>1, <1>2, MergesExist
<1>4. PICK T : T = {n \in 0..Len(Dbs) : ~(MergedOf[n] \subseteq pages)}
  OBVIOUS
<1>5. ASSUME T # {} PROVE FALSE
  <2>1. T \in SUBSET Nat
    BY <1>4
  <2>2. PICK m \in T : \A j \in T : m <= j
    BY <1>5, <2>1, Least
  <2>3. m \in 0..Len(Dbs)
    BY <1>4
  <2>4. CASE m = 0
    BY <1>3, <1>4, <2>3, <2>4 DEF Merges
  <2>5. CASE m # 0
    <3>1. m - 1 \in 0..Len(Dbs) /\ m - 1 \notin T
      BY <1>1, <2>2, <2>3, <2>5
    <3>2. MergedOf[m] = Merged(MergedOf[m - 1], Dbs[m])
      BY <1>3, <2>3, <2>5 DEF Merges
    <3>3. MergedOf[m - 1] \subseteq pages
      BY <1>4, <3>1
    <3>4. Merged(MergedOf[m - 1], Dbs[m]) \subseteq pages
      BY <3>3 DEF Merged, Newest, NewSites
    <3> QED BY <1>4, <3>2, <3>4
  <2> QED BY <2>4, <2>5
<1> QED BY <1>1, <1>4, <1>5 DEF HistoryTabs

-----------------------------------------------------------------------------
(* Types of the server's half                                              *)

LEMMA FeedStarts == FeedInit => FeedType
<1> SUFFICES ASSUME FeedInit PROVE FeedType
  OBVIOUS
<1>1. telemetry \in Seq(Telemetry)
  BY EmptySeq DEF FeedInit
<1>2. shown \in [Devices -> Shown]
  BY DEF FeedInit, Nothing, Shown
<1> QED BY <1>1, <1>2 DEF FeedInit, FeedType

LEMMA ObserveType ==
  ASSUME FeedType, NEW k \in Handlers, NEW host \in Labels, NEW domain \in Domains, Observe(k, host, domain)
  PROVE  FeedType'
<1>1. [domain |-> domain, host |-> host, read |-> 0, looked |-> FALSE, gone |-> FALSE] \in Observing
  BY DEF Observing
<1>2. pending' \in [Handlers -> Observing \cup {None}]
  BY <1>1 DEF Observe, FeedType
<1>3. dest' \in [Labels -> [Domains -> Nat]]
  BY DEF Observe, FeedType
<1> QED BY <1>2, <1>3 DEF Observe, FeedType

LEMMA LookUpType ==
  ASSUME FeedType, NEW k \in Handlers, LookUp(k)
  PROVE  FeedType'
<1>1. PICK p : p = pending[k]
  OBVIOUS
<1>2. p \in Observing
  BY <1>1 DEF FeedType, LookUp
<1>3. PICK n : n = IF feed[p.domain] = None THEN 0 ELSE feed[p.domain].hits
  OBVIOUS
<1>4. n \in Nat
  BY <1>2, <1>3 DEF FeedType, Observing, Observation
<1>5. pending' = [pending EXCEPT ![k] = [p EXCEPT !.looked = TRUE, !.read = n]]
  BY <1>1, <1>3 DEF LookUp, FeedType
<1>6. [p EXCEPT !.looked = TRUE, !.read = n] \in Observing
  BY <1>2, <1>4 DEF Observing
<1>7. pending' \in [Handlers -> Observing \cup {None}]
  BY <1>5, <1>6 DEF FeedType
<1> QED BY <1>7 DEF FeedType, LookUp

LEMMA UpsertType ==
  ASSUME FeedType, NEW k \in Handlers, Upsert(k)
  PROVE  FeedType'
<1>1. PICK p : p = pending[k]
  OBVIOUS
<1>2. p \in Observing
  BY <1>1 DEF FeedType, Upsert
<1>3. PICK now : now = IF feed[p.domain] = None THEN 0 ELSE feed[p.domain].hits
  OBVIOUS
<1>4. now \in Nat
  BY <1>2, <1>3 DEF FeedType, Observing, Observation
<1>5. PICK n : n = IF p.read = 0 THEN now ELSE p.read
  OBVIOUS
<1>6. n \in Nat
  BY <1>2, <1>4, <1>5 DEF Observing
<1>7. Bumped(n, p.host) \in Observation
  BY <1>2, <1>6 DEF Bumped, Observation, Observing, FeedType
<1>8. pending' \in [Handlers -> Observing \cup {None}]
  BY DEF FeedType, Upsert
<1>9. CASE UNCHANGED <<feed, answered>>
  BY <1>8, <1>9 DEF FeedType, Upsert
<1>10. CASE /\ feed' = [feed EXCEPT ![p.domain] = Bumped(n, p.host)]
            /\ answered' = [answered EXCEPT ![p.domain] = @ + 1]
  <2>1. feed' \in [Domains -> Observation \cup {None}]
    BY <1>7, <1>10 DEF FeedType
  <2>2. answered' \in [Domains -> Nat]
    BY <1>2, <1>10 DEF FeedType, Observing
  <2> QED BY <1>8, <2>1, <2>2 DEF FeedType, Upsert
<1> QED BY <1>1, <1>3, <1>5, <1>9, <1>10 DEF Upsert

LEMMA ClearType ==
  ASSUME FeedType, NEW ds, Clear(ds)
  PROVE  FeedType'
<1>1. feed' \in [Domains -> Observation \cup {None}]
  BY DEF FeedType, Clear
<1>2. answered' \in [Domains -> Nat]
  BY DEF FeedType, Clear
<1>3. ASSUME NEW k \in Handlers PROVE pending'[k] \in Observing \cup {None}
  <2>1. PICK p : p = pending[k]
    OBVIOUS
  <2>2. p \in Observing \cup {None}
    BY <2>1 DEF FeedType
  <2>3. p # None => [p EXCEPT !.gone = @ \/ p.looked] \in Observing
    BY <2>2 DEF Observing
  <2> QED BY <2>1, <2>2, <2>3 DEF Clear
<1>4. pending' \in [Handlers -> Observing \cup {None}]
  BY <1>3 DEF Clear
<1> QED BY <1>1, <1>2, <1>4 DEF FeedType, Clear

LEMMA RefreshedType ==
  ASSUME FeedType, NEW t \in Telemetry, NEW p \in Payload
  PROVE  /\ Refreshed(t, p) \in Telemetry
         /\ Refreshed(t, p).host = t.host /\ Refreshed(t, p).tabs = p.tabs
BY DEF FeedType, Refreshed, Telemetry, Payload

\* A sync refreshes the records of its host, or adds one.
LEMMA SyncedType ==
  ASSUME FeedType, NEW p \in Payload
  PROVE  /\ Synced(p) \in Seq(Telemetry)
         /\ \A i \in DOMAIN Synced(p) :
               \/ Synced(p)[i].host = p.host /\ Synced(p)[i].tabs = p.tabs
               \/ i \in DOMAIN telemetry /\ Synced(p)[i] = telemetry[i]
<1> DEFINE fresh == [host |-> p.host, at |-> time, tabs |-> {}, tabsAt |-> time, procs |-> FALSE]
<1>1. telemetry \in Seq(Telemetry)
  BY DEF FeedType
<1>2. CASE \E i \in DOMAIN telemetry : telemetry[i].host = p.host
  <2>1. Synced(p) = [i \in DOMAIN telemetry |-> IF telemetry[i].host = p.host THEN Refreshed(telemetry[i], p)
                                                ELSE telemetry[i]]
    BY <1>2 DEF Synced
  <2>2. ASSUME NEW i \in DOMAIN telemetry
        PROVE  /\ Synced(p)[i] \in Telemetry
               /\ \/ Synced(p)[i].host = p.host /\ Synced(p)[i].tabs = p.tabs
                  \/ i \in DOMAIN telemetry /\ Synced(p)[i] = telemetry[i]
    <3>1. telemetry[i] \in Telemetry
      BY <1>1, ElementOfSeq
    <3> QED BY <2>1, <3>1, RefreshedType
  <2>3. DOMAIN Synced(p) = DOMAIN telemetry /\ DOMAIN telemetry = 1..Len(telemetry) /\ Len(telemetry) \in Nat
    BY <1>1, <2>1
  <2>4. Synced(p) = [i \in 1..Len(telemetry) |-> Synced(p)[i]]
    BY <2>1, <2>3
  <2>5. Synced(p) \in Seq(Telemetry)
    BY <2>2, <2>3, <2>4, IsASeq
  <2> QED BY <2>2, <2>3, <2>5
<1>3. CASE ~\E i \in DOMAIN telemetry : telemetry[i].host = p.host
  <2>1. Synced(p) = Append(telemetry, Refreshed(fresh, p))
    BY <1>3 DEF Synced
  <2>2. fresh \in Telemetry
    BY DEF FeedType, Telemetry, Payload
  <2>3. /\ Refreshed(fresh, p) \in Telemetry
        /\ Refreshed(fresh, p).host = p.host /\ Refreshed(fresh, p).tabs = p.tabs
    BY <2>2, RefreshedType
  <2>4. PICK r \in Telemetry : r = Refreshed(fresh, p)
    BY <2>3
  <2>5. /\ Synced(p) \in Seq(Telemetry)
        /\ Len(Synced(p)) = Len(telemetry) + 1
        /\ \A i \in 1..Len(telemetry) : Synced(p)[i] = telemetry[i]
        /\ Synced(p)[Len(telemetry) + 1] = r
    BY <1>1, <2>1, <2>4, AppendProperties
  <2>6. /\ DOMAIN telemetry = 1..Len(telemetry) /\ Len(telemetry) \in Nat
        /\ DOMAIN Synced(p) = 1..(Len(telemetry) + 1)
    BY <1>1, <2>5, LenProperties
  <2>7. ASSUME NEW i \in DOMAIN Synced(p)
        PROVE  \/ Synced(p)[i].host = p.host /\ Synced(p)[i].tabs = p.tabs
               \/ i \in DOMAIN telemetry /\ Synced(p)[i] = telemetry[i]
    <3>1. i \in 1..Len(telemetry) \/ i = Len(telemetry) + 1
      BY <2>6
    <3> QED BY <2>3, <2>4, <2>5, <2>6, <3>1
  <2> QED BY <2>5, <2>7
<1> QED BY <1>2, <1>3

LEMMA SyncType ==
  ASSUME FeedType, NEW p \in Payload, SyncActive(p)
  PROVE  FeedType'
<1>1. telemetry' \in Seq(Telemetry)
  BY SyncedType DEF SyncActive
<1>3. dest' \in [Labels -> [Domains -> Nat]]
  BY DEF FeedType, SyncActive, Payload
<1>4. ASSUME NEW x \in Domains PROVE feed'[x] \in Observation \cup {None}
  <2>1. PICK f \in Observation \cup {None} : f = feed[x]
    BY DEF FeedType
  <2>2. f # None => [f EXCEPT !.seen = time] \in Observation
    BY <2>1 DEF FeedType, Observation
  <2>3. feed'[x] = IF x \in p.domains /\ ~p.foreign /\ f # None THEN [f EXCEPT !.seen = time] ELSE f
    BY <2>1 DEF SyncActive
  <2> QED BY <2>1, <2>2, <2>3
<1>5. feed' \in [Domains -> Observation \cup {None}]
  BY <1>4 DEF SyncActive
<1> QED BY <1>1, <1>3, <1>5 DEF FeedType, SyncActive

\* The telemetry matched to a row is the first fresh record that is its own.
LEMMA MatchedType ==
  ASSUME FeedType, NEW d \in Devices
  PROVE  \/ Matched(d) = None
         \/ \E i \in DOMAIN telemetry : /\ Own(telemetry[i].host, d) /\ Matched(d) = telemetry[i]
                                        /\ telemetry[i] \in Telemetry
<1>1. telemetry \in Seq(Telemetry)
  BY DEF FeedType
<1>2. CASE Candidates(d) = {}
  BY <1>2 DEF Matched
<1>3. CASE Candidates(d) # {}
  <2>1. Candidates(d) \in SUBSET Nat
    BY <1>1 DEF Candidates
  <2>2. \E i \in Candidates(d) : \A j \in Candidates(d) : i <= j
    BY <1>3, <2>1, Least
  <2>3. PICK first : first = CHOOSE i \in Candidates(d) : \A j \in Candidates(d) : i <= j
    OBVIOUS
  <2>4. first \in Candidates(d)
    BY <2>2, <2>3
  <2>5. Matched(d) = telemetry[first]
    BY <1>3, <2>3 DEF Matched
  <2>6. first \in DOMAIN telemetry /\ Own(telemetry[first].host, d)
    BY <2>4 DEF Candidates
  <2>7. telemetry[first] \in Telemetry
    BY <1>1, <2>6, ElementOfSeq
  <2> QED BY <2>5, <2>6, <2>7
<1> QED BY <1>2, <1>3

LEMMA ViewType ==
  ASSUME FeedType, NEW d \in Devices
  PROVE  View(d) \in Shown
<1>1. PICK t : t = Matched(d)
  OBVIOUS
<1>2. t = None \/ t \in Telemetry
  BY <1>1, MatchedType
<1>3. Destinations(d) \in SUBSET Domains
  BY DEF Destinations
<1>4. PICK tabs : tabs = IF t # None /\ time - t.tabsAt < TabsTTL THEN t.tabs ELSE {}
  OBVIOUS
<1>5. tabs \in SUBSET Sites
  BY <1>2, <1>4 DEF Telemetry
<1>6. View(d) = [tabs |-> tabs, procs |-> t # None /\ t.procs, domains |-> Destinations(d)]
  BY <1>1, <1>4 DEF View
<1>7. (t # None /\ t.procs) \in BOOLEAN
  BY <1>2 DEF Telemetry
<1> QED BY <1>3, <1>5, <1>6, <1>7 DEF Shown

LEMMA ListType ==
  ASSUME FeedType, ListDevices
  PROVE  FeedType'
<1>1. shown' \in [Devices -> Shown]
  BY ViewType DEF ListDevices
<1>2. dest' \in [Labels -> [Domains -> Nat]]
  BY DEF FeedType, ListDevices
<1> QED BY <1>1, <1>2 DEF FeedType, ListDevices

LEMMA RestartType ==
  ASSUME FeedType, Restart \/ ClearDevices
  PROVE  FeedType'
<1>1. telemetry' \in Seq(Telemetry)
  BY EmptySeq DEF Restart, ClearDevices, Forgotten
<1> QED BY <1>1 DEF FeedType, Restart, ClearDevices, Forgotten

LEMMA OtherFeedTypes ==
  ASSUME FeedType, \/ \E c \in BOOLEAN : SetConsent(c)
                   \/ Pass
                   \/ UNCHANGED feedVars
  PROVE  FeedType'
<1>1. ASSUME NEW c \in BOOLEAN, SetConsent(c) PROVE FeedType'
  BY <1>1 DEF FeedType, SetConsent
<1>2. CASE Pass
  BY <1>2 DEF FeedType, Pass
<1>3. CASE UNCHANGED feedVars
  BY <1>3 DEF FeedType, feedVars
<1> QED BY <1>1, <1>2, <1>3

-----------------------------------------------------------------------------
(* The agent's half: types, and what a poll passes over                    *)

WatchInv == WatchType /\ PollsInOrder /\ MissedForAReason

\* A step that reads nothing and finds the visits as they were.
LEMMA PollKept ==
  ASSUME PollsInOrder, MissedForAReason, clock \in Nat, clock' \in Nat, clock <= clock',
         visits \subseteq Visit, UNCHANGED visits, seen'.read = seen.read,
         loop'.last = loop.last, loop.last \in Nat, loop'.mode = loop.mode
  PROVE  PollsInOrder' /\ MissedForAReason'
<1>1. \A v \in visits : v.at <= clock'
  BY DEF PollsInOrder, Visit
<1>2. loop'.last <= clock'
  BY DEF PollsInOrder
<1>3. PollsInOrder'
  BY <1>1, <1>2 DEF PollsInOrder
<1>4. Missed' = Missed
  BY DEF Missed
<1> QED BY <1>3, <1>4 DEF MissedForAReason

LEMMA BrowseStep ==
  ASSUME WatchInv, NEW b \in Browsers, NEW p \in Pages, Browse(b, p)
  PROVE  WatchInv'
<1>1. PICK new : new = [browser |-> b, page |-> p, at |-> clock + 1]
  OBVIOUS
<1>2. clock' = clock + 1 /\ visits' = visits \cup {new} /\ UNCHANGED <<tab, loop, lastSeen, seen>>
  BY <1>1 DEF Browse
<1>3. clock \in Nat /\ clock' \in Nat /\ new \in Visit /\ new.at = clock + 1
  BY <1>1, <1>2 DEF WatchInv, WatchType, Visit
<1>4. visits \subseteq Visit /\ IsFiniteSet(visits)
  BY DEF WatchInv, WatchType
<1>5. WatchType'
  <2>1. visits' \subseteq Visit /\ IsFiniteSet(visits')
    BY <1>2, <1>3, <1>4, FS_AddElement
  <2> QED BY <1>2, <1>3, <2>1 DEF WatchInv, WatchType
<1>6. \A v \in visits : v.at \in Nat /\ v.at <= clock
  BY <1>4 DEF WatchInv, PollsInOrder, Visit
<1>7. loop.last \in Nat /\ loop.last <= clock
  BY DEF WatchInv, WatchType, PollsInOrder
<1>8. PollsInOrder'
  <2>1. \A v, w \in visits' : v.at = w.at => v = w
    BY <1>2, <1>3, <1>6 DEF WatchInv, PollsInOrder
  <2>2. \A v \in visits' : v.at <= clock'
    BY <1>2, <1>3, <1>6
  <2> QED BY <1>2, <1>3, <1>7, <2>1, <2>2 DEF WatchInv, PollsInOrder
<1>9. Missed' = Missed
  <2>1. ~(new.at <= loop.last)
    BY <1>3, <1>7
  <2> QED BY <1>2, <2>1 DEF Missed
<1>10. MissedForAReason'
  BY <1>2, <1>9 DEF WatchInv, MissedForAReason
<1> QED BY <1>5, <1>8, <1>10 DEF WatchInv

LEMMA ReadStep ==
  ASSUME WatchInv, NEW ok \in BOOLEAN, ReadHistory(ok)
  PROVE  WatchInv'
<1>1. PICK b : b = Head(loop.dbs)
  OBVIOUS
<1>2. PICK rows : rows = IF ok THEN Rows(b) ELSE {}
  OBVIOUS
<1>3. PICK mark : mark = Latest(rows, loop.last)
  OBVIOUS
<1>4. PICK todo : todo = {v.page : v \in {w \in rows : Registrable(w.page) # Nil}}
  OBVIOUS
<1>5. /\ loop' = [loop EXCEPT !.pc = "report", !.dbs = Tail(@), !.last = mark, !.todo = todo]
      /\ seen' = [seen EXCEPT !.read = @ \cup rows]
      /\ UNCHANGED <<clock, visits, tab, lastSeen>>
      /\ loop.mode = "history" /\ loop.dbs # <<>>
  BY <1>1, <1>2, <1>3, <1>4 DEF ReadHistory
<1>6. /\ clock \in Nat /\ visits \subseteq Visit /\ IsFiniteSet(visits)
      /\ loop \in [mode : {"history", "conn"}, pc : {"poll", "report", "sync"}, dbs : Seq(Browsers), last : Nat,
                   todo : SUBSET Pages, tabs : SUBSET Pages]
      /\ seen \in [read : SUBSET Visit, told : SUBSET Pages]
  BY DEF WatchInv, WatchType
<1>7. rows \subseteq visits
  BY <1>2 DEF Rows, Newest
<1>8. \A v \in visits : v.at \in Nat /\ v.at <= clock
  BY <1>6 DEF WatchInv, PollsInOrder, Visit
<1>9. loop.last \in Nat /\ loop.last <= clock
  BY <1>6 DEF WatchInv, PollsInOrder
<1>10. /\ mark \in {loop.last} \cup {v.at : v \in rows}
       /\ mark \in Nat /\ loop.last <= mark /\ mark <= clock
  BY <1>3, <1>6, <1>7, <1>8, <1>9, LatestMark
<1>11. todo \in SUBSET Pages
  BY <1>4, <1>6, <1>7 DEF Visit
<1>12. Tail(loop.dbs) \in Seq(Browsers)
  BY <1>5, <1>6, HeadTailProperties
<1>13. loop' \in [mode : {"history", "conn"}, pc : {"poll", "report", "sync"}, dbs : Seq(Browsers), last : Nat,
                  todo : SUBSET Pages, tabs : SUBSET Pages]
       /\ loop'.last = mark /\ loop'.mode = loop.mode
  BY <1>5, <1>6, <1>10, <1>11, <1>12
<1>14. seen' \in [read : SUBSET Visit, told : SUBSET Pages] /\ seen'.read = seen.read \cup rows
  BY <1>5, <1>6, <1>7
<1>15. WatchType'
  BY <1>5, <1>13, <1>14 DEF WatchInv, WatchType
<1>16. seen'.read \subseteq visits
  BY <1>7, <1>14 DEF WatchInv, PollsInOrder
<1>17. PollsInOrder'
  BY <1>5, <1>10, <1>13, <1>16 DEF WatchInv, PollsInOrder
<1>18. ASSUME NEW v \in visits, v.at <= mark, v \notin seen'.read
       PROVE  \/ \E w \in seen'.read : w.browser # v.browser /\ w.at > v.at
              \/ Cardinality({w \in seen'.read : w.browser = v.browser /\ w.at > v.at}) >= MaxRows
  <2>1. PICK newer : newer = {w \in seen'.read : w.browser = v.browser /\ w.at > v.at}
    OBVIOUS
  <2>2. IsFiniteSet(newer) /\ Cardinality(newer) \in Nat
    <3>1. newer \subseteq visits
      BY <1>16, <2>1
    <3> QED BY <1>6, <3>1, FS_Subset, FS_CardinalityType
  <2>3. MaxRows \in Nat
    BY WatchAssumption
  <2>4. v.at \in Nat /\ v.at <= clock
    BY <1>8
  <2>5. CASE v.at <= loop.last
    <3>1. v \in Missed
      BY <1>14, <1>18, <2>5 DEF Missed
    <3>2. CASE \E w \in seen.read : w.browser # v.browser /\ w.at > v.at
      BY <1>14, <3>2
    <3>3. CASE Cardinality({w \in seen.read : w.browser = v.browser /\ w.at > v.at}) >= MaxRows
      <4>1. PICK old : old = {w \in seen.read : w.browser = v.browser /\ w.at > v.at}
        OBVIOUS
      <4>2. old \subseteq newer
        BY <1>14, <2>1, <4>1
      <4>3. Cardinality(old) \in Nat /\ Cardinality(old) <= Cardinality(newer)
        BY <2>2, <4>2, FS_Subset, FS_CardinalityType
      <4>4. Cardinality(newer) >= MaxRows
        BY <2>2, <2>3, <3>3, <4>1, <4>3
      <4> QED BY <2>1, <4>4
    <3> QED BY <1>5, <3>1, <3>2, <3>3 DEF WatchInv, MissedForAReason
  <2>6. CASE ~(v.at <= loop.last)
    <3>1. PICK w \in rows : w.at = mark
      BY <1>10, <1>18, <2>6
    <3>2. w \in visits /\ w \in seen'.read /\ w # v /\ w.at > v.at
      <4>1. w \in visits /\ w \in seen'.read
        BY <1>7, <1>14
      <4>2. w # v
        BY <1>18, <4>1
      <4>3. w.at # v.at
        BY <4>1, <4>2 DEF WatchInv, PollsInOrder
      <4>4. w.at > v.at
        BY <1>10, <1>18, <2>4, <3>1, <4>3
      <4> QED BY <4>1, <4>2, <4>4
    <3>3. CASE v.browser # w.browser
      BY <3>2, <3>3
    <3>4. CASE v.browser = w.browser
      <4>1. PICK asked : asked = {x \in visits : x.browser = b /\ x.at > loop.last}
        OBVIOUS
      <4>2. ok /\ rows = Newest(asked, MaxRows)
        BY <1>2, <4>1 DEF Rows
      <4>3. w \in asked
        BY <4>2 DEF Newest
      <4>4. v.at > loop.last
        BY <1>9, <2>4, <2>6
      <4>5. v \in asked
        BY <3>4, <4>1, <4>3, <4>4
      <4>6. asked \subseteq visits /\ IsFiniteSet(asked)
        <5>1. asked \subseteq visits
          BY <4>1
        <5> QED BY <1>6, <5>1, FS_Subset
      <4>7. \A x \in asked : x.at \in Nat /\ x.at <= clock
        BY <1>8, <4>6
      <4>8. v \notin rows
        BY <1>14, <1>18
      <4>9. Cardinality({x \in rows : x.at > v.at}) >= MaxRows
        BY <1>6, <2>3, <4>2, <4>5, <4>6, <4>7, <4>8, NewestCover
      <4>10. PICK found : found = {x \in rows : x.at > v.at}
        OBVIOUS
      <4>11. found \subseteq newer
        <5>1. \A x \in rows : x.browser = v.browser
          BY <3>4, <4>1, <4>2, <4>3 DEF Newest
        <5> QED BY <1>14, <2>1, <4>10, <5>1
      <4>12. Cardinality(found) \in Nat /\ Cardinality(found) <= Cardinality(newer)
        BY <2>2, <4>11, FS_Subset, FS_CardinalityType
      <4>13. Cardinality(newer) >= MaxRows
        BY <2>2, <2>3, <4>9, <4>10, <4>12
      <4> QED BY <2>1, <4>13
    <3> QED BY <3>3, <3>4
  <2> QED BY <2>5, <2>6
<1>19. MissedForAReason'
  <2>1. \A v \in Missed' : v \in visits /\ v.at <= mark /\ v \notin seen'.read
    BY <1>5, <1>13 DEF Missed
  <2> QED BY <1>18, <2>1 DEF MissedForAReason
<1> QED BY <1>15, <1>17, <1>19 DEF WatchInv

\* The pages a collection takes were told or visited.
LEMMA TabsKnown ==
  ASSUME WatchType, \A b \in Browsers : tab[b] # Nil => tab[b].page \in seen.told
  PROVE  \A p \in ActiveTabs : Known(p)
<1>1. ExtensionTabs \subseteq seen.told
  BY DEF ExtensionTabs, Fresh
<1>2. \A p \in HistoryTabs : \E v \in visits : v.page = p
  BY HistoryVisited
<1> QED BY <1>1, <1>2 DEF ActiveTabs, Known

LEMMA ActiveTabsType ==
  ASSUME WatchType
  PROVE  ActiveTabs \in SUBSET Pages
<1>1. ExtensionTabs \subseteq Pages
  BY DEF WatchType, ExtensionTabs, Fresh
<1>2. HistoryTabs \subseteq Pages
  BY HistoryVisited DEF WatchType, Visit
<1> QED BY <1>1, <1>2 DEF ActiveTabs

\* What the agent's other steps leave alone.
LEMMA AgentStep ==
  ASSUME WatchInv,
         \/ EndOfReports \/ Collect \/ SendSync
         \/ \E p \in Pages : Skip(p) \/ Post(p)
         \/ \E b \in Browsers, p \in Pages : TabReceived(b, p)
         \/ UNCHANGED watchVars
  PROVE  WatchInv'
<1> DEFINE Loops == [mode : {"history", "conn"}, pc : {"poll", "report", "sync"}, dbs : Seq(Browsers), last : Nat,
                     todo : SUBSET Pages, tabs : SUBSET Pages]
           Kept == /\ UNCHANGED <<clock, visits>> /\ seen'.read = seen.read
                   /\ loop' \in Loops /\ loop'.last = loop.last /\ loop'.mode = loop.mode
                   /\ tab' \in [Browsers -> [page : Pages, at : Nat] \cup {Nil}]
                   /\ lastSeen' \in [Pages -> Nat]
                   /\ seen' \in [read : SUBSET Visit, told : SUBSET Pages]
<1>1. /\ clock \in Nat /\ visits \subseteq Visit /\ loop \in Loops
      /\ tab \in [Browsers -> [page : Pages, at : Nat] \cup {Nil}]
      /\ lastSeen \in [Pages -> Nat]
      /\ seen \in [read : SUBSET Visit, told : SUBSET Pages]
  BY DEF WatchInv, WatchType
<1>2. ASSUME Kept PROVE WatchInv'
  <2>1. clock' \in Nat /\ clock <= clock' /\ loop.last \in Nat
    BY <1>1, <1>2
  <2>2. PollsInOrder' /\ MissedForAReason'
    BY <1>1, <1>2, <2>1, PollKept DEF WatchInv
  <2>3. WatchType'
    BY <1>2 DEF WatchInv, WatchType
  <2> QED BY <2>2, <2>3 DEF WatchInv
<1>3. CASE EndOfReports
  <2>1. loop' \in {[loop EXCEPT !.pc = "sync"], [loop EXCEPT !.pc = "poll"],
                   [loop EXCEPT !.pc = "poll", !.dbs = Dbs]}
    BY <1>3 DEF EndOfReports
  <2>2. loop' \in Loops /\ loop'.last = loop.last /\ loop'.mode = loop.mode
    BY <1>1, <2>1, WatchAssumption
  <2>3. Kept
    BY <1>1, <1>3, <2>2 DEF EndOfReports
  <2> QED BY <1>2, <2>3
<1>4. CASE Collect
  <2>1. PICK tabs \in SUBSET Pages : tabs = ActiveTabs
    BY ActiveTabsType DEF WatchInv
  <2>2. loop' = [loop EXCEPT !.pc = "report", !.tabs = tabs, !.todo = tabs]
    BY <1>4, <2>1 DEF Collect
  <2>3. loop' \in Loops /\ loop'.last = loop.last /\ loop'.mode = loop.mode
    BY <1>1, <2>1, <2>2
  <2>4. tab' \in [Browsers -> [page : Pages, at : Nat] \cup {Nil}]
    BY <1>1, <1>4 DEF Collect
  <2>5. Kept
    BY <1>1, <1>4, <2>3, <2>4 DEF Collect
  <2> QED BY <1>2, <2>5
<1>5. CASE SendSync
  <2>1. loop' \in Loops /\ loop'.last = loop.last /\ loop'.mode = loop.mode
    BY <1>1, <1>5 DEF SendSync
  <2>2. Kept
    BY <1>1, <1>5, <2>1 DEF SendSync
  <2> QED BY <1>2, <2>2
<1>6. ASSUME NEW p \in Pages, Skip(p) PROVE WatchInv'
  <2>1. loop' \in Loops /\ loop'.last = loop.last /\ loop'.mode = loop.mode
    BY <1>1, <1>6 DEF Skip
  <2>2. Kept
    BY <1>1, <1>6, <2>1 DEF Skip
  <2> QED BY <1>2, <2>2
<1>7. ASSUME NEW p \in Pages, Post(p) PROVE WatchInv'
  <2>1. loop' \in Loops /\ loop'.last = loop.last /\ loop'.mode = loop.mode
    BY <1>1, <1>7 DEF Post
  <2>2. lastSeen' \in [Pages -> Nat]
    BY <1>1, <1>7 DEF Post
  <2>3. Kept
    BY <1>1, <1>7, <2>1, <2>2 DEF Post
  <2> QED BY <1>2, <2>3
<1>8. ASSUME NEW b \in Browsers, NEW p \in Pages, TabReceived(b, p) PROVE WatchInv'
  <2>1. tab' \in [Browsers -> [page : Pages, at : Nat] \cup {Nil}]
    BY <1>1, <1>8 DEF TabReceived
  <2>2. seen' \in [read : SUBSET Visit, told : SUBSET Pages] /\ seen'.read = seen.read
    BY <1>1, <1>8 DEF TabReceived
  <2>3. Kept
    BY <1>1, <1>8, <2>1, <2>2 DEF TabReceived
  <2> QED BY <1>2, <2>3
<1>9. CASE UNCHANGED watchVars
  <2>1. Kept
    BY <1>1, <1>9 DEF watchVars
  <2> QED BY <1>2, <2>1
<1> HIDE DEF Kept
<1> QED BY <1>3, <1>4, <1>5, <1>6, <1>7, <1>8, <1>9

LEMMA ElapseStep ==
  ASSUME WatchInv, Elapse
  PROVE  WatchInv'
<1>1. /\ clock \in Nat /\ clock' \in Nat /\ clock <= clock' /\ visits \subseteq Visit /\ loop.last \in Nat
      /\ UNCHANGED <<visits, tab, loop, lastSeen, seen>>
  BY DEF WatchInv, WatchType, Elapse
<1>2. PollsInOrder' /\ MissedForAReason'
  BY <1>1, PollKept DEF WatchInv
<1>3. WatchType'
  BY <1>1 DEF WatchInv, WatchType
<1> QED BY <1>2, <1>3 DEF WatchInv

LEMMA WatchStarts == WatchInit => WatchInv
<1> SUFFICES ASSUME WatchInit PROVE WatchInv
  OBVIOUS
<1>1. clock = 1 /\ seen = [read |-> visits, told |-> {}]
  BY DEF WatchInit
<1>2. visits = {} \/ \E v \in Visit : v.at = 1 /\ visits = {v}
  BY DEF WatchInit, Visit
<1>3. visits \subseteq Visit /\ IsFiniteSet(visits)
  BY <1>2, FS_EmptySet, FS_Singleton
<1>4. PICK mode \in {"history", "conn"} :
        loop = [mode |-> mode, pc |-> "poll", dbs |-> Dbs, last |-> IF visits = {} THEN 0 ELSE 1,
                todo |-> {}, tabs |-> {}]
  BY SMTT(30) DEF WatchInit
<1>5. WatchType
  BY <1>1, <1>3, <1>4, WatchAssumption DEF WatchInit, WatchType
<1>6. \A v, w \in visits : v.at = 1 /\ v = w
  BY <1>2
<1>7. loop.last \in Nat /\ loop.last <= 1
  BY <1>4
<1>8. PollsInOrder
  BY <1>1, <1>6, <1>7 DEF PollsInOrder
<1>9. Missed = {}
  BY <1>1 DEF Missed
<1> QED BY <1>5, <1>8, <1>9 DEF WatchInv, MissedForAReason

LEMMA WatchStep == WatchInv /\ [Next]_<<feedVars, watchVars>> => WatchInv'
<1> SUFFICES ASSUME WatchInv, [Next]_<<feedVars, watchVars>> PROVE WatchInv'
  OBVIOUS
<1>1. CASE Agent
  BY <1>1, ReadStep, AgentStep DEF Agent
<1>2. CASE Around
  BY <1>2, BrowseStep, AgentStep, ElapseStep DEF Around
<1>3. CASE Server
  BY <1>3, AgentStep DEF Server
<1>4. CASE UNCHANGED <<feedVars, watchVars>>
  BY <1>4, AgentStep
<1> QED BY <1>1, <1>2, <1>3, <1>4 DEF Next

\* The history poll misses nothing without a reason (watch_history).
THEOREM NothingMissed == Spec => []MissedForAReason
<1>1. Init => WatchInv
  BY WatchStarts DEF Init
<1>2. WatchInv => MissedForAReason
  BY DEF WatchInv
<1> QED BY <1>1, <1>2, WatchStep, PTL DEF Spec

-----------------------------------------------------------------------------
(* Both halves together: the types                                         *)

\* What the agent syncs is a payload like another agent's.
LEMMA SyncPayload ==
  ASSUME WatchType
  PROVE  Sync \in Payload /\ Sync.host = Host /\ Sync.tabs = loop.tabs
<1>1. loop.tabs \in SUBSET Pages
  BY DEF WatchType
<1>2. {Site(p) : p \in loop.tabs} \in SUBSET Domains
  BY <1>1, LiveAssumption
<1>3. Host \in Labels /\ loop.tabs \in SUBSET Sites
  BY <1>1, LiveAssumption
<1> QED BY <1>2, <1>3 DEF Sync, Payload

LEMMA LiveFeedType == WatchInv /\ FeedType /\ [Next]_<<feedVars, watchVars>> => FeedType'
<1> SUFFICES ASSUME WatchInv, FeedType, [Next]_<<feedVars, watchVars>> PROVE FeedType'
  OBVIOUS
<1>1. CASE Agent
  <2>1. ASSUME NEW p \in Pages, NEW k \in Handlers, Observe(k, Host, Site(p)) PROVE FeedType'
    BY <2>1, ObserveType, LiveAssumption
  <2>2. ASSUME SyncActive(Sync) PROVE FeedType'
    BY <2>2, SyncType, SyncPayload DEF WatchInv
  <2>3. ASSUME UNCHANGED feedVars PROVE FeedType'
    BY <2>3, OtherFeedTypes
  <2> QED BY <1>1, <2>1, <2>2, <2>3 DEF Agent
<1>2. CASE Around
  BY <1>2, OtherFeedTypes DEF Around
<1>3. CASE Server
  <2>1. ASSUME NEW q \in Payloads, SyncActive(q) PROVE FeedType'
    BY <2>1, SyncType, FeedAssumption
  <2> QED BY <1>3, <2>1, LookUpType, UpsertType, ListType, RestartType DEF Server
<1>4. CASE UNCHANGED <<feedVars, watchVars>>
  BY <1>4, OtherFeedTypes
<1> QED BY <1>1, <1>2, <1>3, <1>4 DEF Next

\* Type correctness of the live watch.
THEOREM TypeCorrect == Spec => [](FeedType /\ WatchType)
<1>1. Init => WatchInv /\ FeedType
  BY WatchStarts, FeedStarts DEF Init
<1>2. WatchInv /\ FeedType => FeedType /\ WatchType
  BY DEF WatchInv
<1> QED BY <1>1, <1>2, WatchStep, LiveFeedType, PTL DEF Spec

-----------------------------------------------------------------------------
(* Where the tabs of a row come from                                       *)

TabsInv == TabsOnTheirWay /\ TabsExplained

SyncsExplained == \A i \in DOMAIN telemetry : \A p \in telemetry[i].tabs : Explained(telemetry[i].host, p)

\* What was known stays known, and what was explained stays so.
LEMMA KnownKept ==
  ASSUME visits \subseteq visits', seen.told \subseteq seen'.told
  PROVE  \A p : /\ Known(p) => Known(p)'
                /\ \A host : Explained(host, p) => Explained(host, p)'
<1>1. ASSUME NEW p, Known(p) PROVE Known(p)'
  BY <1>1 DEF Known
<1> QED BY <1>1 DEF Explained

\* Nothing is forgotten by the agent and its browsers.
LEMMA MemoryGrows ==
  ASSUME WatchType, [Next]_<<feedVars, watchVars>>
  PROVE  visits \subseteq visits' /\ seen.told \subseteq seen'.told
<1>1. seen \in [read : SUBSET Visit, told : SUBSET Pages]
  BY DEF WatchType
<1>2. ASSUME NEW ok \in BOOLEAN, ReadHistory(ok)
      PROVE  visits \subseteq visits' /\ seen.told \subseteq seen'.told
  <2>1. PICK rows : seen' = [seen EXCEPT !.read = @ \cup rows]
    BY <1>2 DEF ReadHistory
  <2> QED BY <1>1, <1>2, <2>1 DEF ReadHistory
<1>3. ASSUME NEW b \in Browsers, NEW p \in Pages, TabReceived(b, p)
      PROVE  visits \subseteq visits' /\ seen.told \subseteq seen'.told
  BY <1>1, <1>3 DEF TabReceived
<1>4. ASSUME NEW b \in Browsers, NEW p \in Pages, Browse(b, p)
      PROVE  visits \subseteq visits' /\ seen.told \subseteq seen'.told
  BY <1>4 DEF Browse
<1>5. ASSUME UNCHANGED <<visits, seen>>
      PROVE  visits \subseteq visits' /\ seen.told \subseteq seen'.told
  BY <1>5
<1> QED BY <1>2, <1>3, <1>4, <1>5
        DEF Next, Agent, Around, Server, EndOfReports, Collect, Skip, Post, SendSync, Elapse, watchVars

\* In the browsers and in the agent's round.
LEMMA AgentTabs ==
  ASSUME WatchType, TabsInv, [Next]_<<feedVars, watchVars>>,
         \A p : Known(p) => Known(p)', seen.told \subseteq seen'.told
  PROVE  /\ \A b \in Browsers : tab'[b] # Nil => tab'[b].page \in seen'.told
         /\ \A p \in loop'.tabs : Known(p)'
<1>1. /\ tab \in [Browsers -> [page : Pages, at : Nat] \cup {Nil}]
      /\ loop \in [mode : {"history", "conn"}, pc : {"poll", "report", "sync"}, dbs : Seq(Browsers), last : Nat,
                   todo : SUBSET Pages, tabs : SUBSET Pages]
      /\ seen \in [read : SUBSET Visit, told : SUBSET Pages]
  BY DEF WatchType
<1>2. /\ \A b \in Browsers : tab[b] # Nil => tab[b].page \in seen.told
      /\ \A p \in loop.tabs : Known(p)
  BY DEF TabsInv, TabsOnTheirWay
<1>3. ASSUME UNCHANGED tab, loop'.tabs = loop.tabs
      PROVE  /\ \A b \in Browsers : tab'[b] # Nil => tab'[b].page \in seen'.told
             /\ \A p \in loop'.tabs : Known(p)'
  BY <1>2, <1>3
<1>4. ASSUME NEW b \in Browsers, NEW p \in Pages, TabReceived(b, p)
      PROVE  /\ \A c \in Browsers : tab'[c] # Nil => tab'[c].page \in seen'.told
             /\ \A q \in loop'.tabs : Known(q)'
  <2>1. p \in seen'.told
    BY <1>1, <1>4 DEF TabReceived
  <2>2. ASSUME NEW c \in Browsers, tab'[c] # Nil PROVE tab'[c].page \in seen'.told
    BY <1>1, <1>2, <1>4, <2>1, <2>2 DEF TabReceived
  <2> QED BY <1>2, <1>4, <2>2 DEF TabReceived
<1>5. CASE Collect
  <2>1. PICK tabs : tabs = ActiveTabs
    OBVIOUS
  <2>2. \A p \in tabs : Known(p)
    BY <1>2, <2>1, TabsKnown
  <2>3. loop' = [loop EXCEPT !.pc = "report", !.tabs = tabs, !.todo = tabs]
    BY <1>5, <2>1 DEF Collect
  <2>4. loop'.tabs = tabs
    BY <1>1, <2>3
  <2>5. \A b \in Browsers : tab'[b] = tab[b] \/ tab'[b] = Nil
    BY <1>1, <1>5 DEF Collect
  <2>6. \A p \in loop'.tabs : Known(p)'
    BY <2>2, <2>4
  <2> QED BY <1>2, <2>5, <2>6
<1>6. ASSUME NEW ok \in BOOLEAN, ReadHistory(ok) PROVE UNCHANGED tab /\ loop'.tabs = loop.tabs
  <2>1. PICK ds, last, todo : loop' = [loop EXCEPT !.pc = "report", !.dbs = ds, !.last = last, !.todo = todo]
    BY <1>6 DEF ReadHistory
  <2> QED BY <1>1, <1>6, <2>1 DEF ReadHistory
<1>7. ASSUME EndOfReports PROVE UNCHANGED tab /\ loop'.tabs = loop.tabs
  BY <1>1, <1>7 DEF EndOfReports
<1>8. ASSUME NEW p \in Pages, Skip(p) \/ Post(p) PROVE UNCHANGED tab /\ loop'.tabs = loop.tabs
  BY <1>1, <1>8 DEF Skip, Post
<1>9. ASSUME SendSync PROVE UNCHANGED tab /\ loop'.tabs = loop.tabs
  BY <1>1, <1>9 DEF SendSync
<1>10. ASSUME NEW b \in Browsers, NEW p \in Pages, Browse(b, p) PROVE UNCHANGED tab /\ loop'.tabs = loop.tabs
  BY <1>10 DEF Browse
<1>11. ASSUME Elapse \/ UNCHANGED watchVars PROVE UNCHANGED tab /\ loop'.tabs = loop.tabs
  BY <1>11 DEF Elapse, watchVars
<1>12. CASE UNCHANGED <<feedVars, watchVars>>
  BY <1>3, <1>11, <1>12
<1> QED BY <1>3, <1>4, <1>5, <1>6, <1>7, <1>8, <1>9, <1>10, <1>11, <1>12 DEF Next, Agent, Around, Server

\* A poll shows a row the tabs of a record whose label is the row's own.
LEMMA ViewExplained ==
  ASSUME FeedType, TabsOnTheirWay, NEW d \in Devices, NEW p \in View(d).tabs
  PROVE  \E host \in Labels :
            /\ Explained(host, p)
            /\ host \in Addresses => host \in {d.ip, d.name} \/ (d.self /\ host \in Local)
<1>1. PICK t : t = Matched(d)
  OBVIOUS
<1>2. PICK tabs : tabs = IF t # None /\ time - t.tabsAt < TabsTTL THEN t.tabs ELSE {}
  OBVIOUS
<1>3. p \in tabs
  BY <1>1, <1>2 DEF View
<1>4. t # None /\ p \in t.tabs
  BY <1>2, <1>3
<1>5. PICK i \in DOMAIN telemetry : Own(telemetry[i].host, d) /\ t = telemetry[i] /\ t \in Telemetry
  BY <1>1, <1>4, MatchedType
<1>6. PICK host \in Labels : host = t.host
  BY <1>5 DEF Telemetry
<1>7. Explained(host, p)
  BY <1>4, <1>5, <1>6 DEF TabsOnTheirWay
<1>8. Own(host, d)
  BY <1>5, <1>6
<1>9. host \in Addresses => host \in {d.ip, d.name} \/ (d.self /\ host \in Local)
  BY <1>8, FeedAssumption DEF Own, HostsMatch
<1> QED BY <1>7, <1>9

\* In the server's telemetry and on the dashboard.
LEMMA ServerTabs ==
  ASSUME WatchType, FeedType, TabsInv, [Next]_<<feedVars, watchVars>>,
         \A p : \A host : Explained(host, p) => Explained(host, p)'
  PROVE  /\ SyncsExplained'
         /\ TabsExplained'
<1>1. SyncsExplained /\ TabsExplained
  BY DEF TabsInv, TabsOnTheirWay, SyncsExplained
<1>2. ASSUME UNCHANGED telemetry
      PROVE  SyncsExplained'
  BY <1>1, <1>2 DEF SyncsExplained
<1>3. ASSUME UNCHANGED shown PROVE TabsExplained'
  BY <1>1, <1>3 DEF TabsExplained
<1>4. ASSUME NEW q \in Payload, SyncActive(q), \A p \in q.tabs : Explained(q.host, p)
      PROVE  /\ SyncsExplained'
             /\ TabsExplained'
  <2>1. telemetry' = Synced(q) /\ UNCHANGED shown
    BY <1>4 DEF SyncActive
  <2>2. ASSUME NEW i \in DOMAIN telemetry', NEW p \in telemetry'[i].tabs
        PROVE  Explained(telemetry'[i].host, p)
    BY <1>1, <1>4, <2>1, <2>2, SyncedType DEF SyncsExplained
  <2>3. SyncsExplained'
    BY <2>2 DEF SyncsExplained
  <2> QED BY <1>3, <2>1, <2>3
<1>5. ASSUME SyncActive(Sync)
      PROVE  /\ SyncsExplained'
             /\ TabsExplained'
  <2>1. Sync \in Payload /\ \A p \in Sync.tabs : Explained(Sync.host, p)
    BY SyncPayload DEF TabsInv, TabsOnTheirWay, Explained
  <2> QED BY <1>4, <1>5, <2>1
<1>6. ASSUME NEW q \in Payloads, SyncActive(q)
      PROVE  /\ SyncsExplained'
             /\ TabsExplained'
  <2>1. q \in Payload /\ \A p \in q.tabs : Explained(q.host, p)
    BY FeedAssumption DEF Explained
  <2> QED BY <1>4, <1>6, <2>1
<1>7. ASSUME ListDevices
      PROVE  /\ SyncsExplained'
             /\ TabsExplained'
  <2>1. UNCHANGED telemetry /\ \A d \in Devices : shown'[d] = View(d)
    BY <1>7 DEF ListDevices
  <2>2. TabsExplained'
    BY <2>1, ViewExplained DEF TabsExplained, TabsInv
  <2> QED BY <1>2, <2>1, <2>2
<1>8. ASSUME Restart \/ ClearDevices
      PROVE  /\ SyncsExplained'
             /\ TabsExplained'
  <2>1. telemetry' = <<>> /\ UNCHANGED shown
    BY <1>8 DEF Restart, ClearDevices, Forgotten
  <2> QED BY <1>3, <2>1 DEF SyncsExplained
<1>9. CASE UNCHANGED <<telemetry, shown>>
  BY <1>2, <1>3, <1>9
<1> QED BY <1>5, <1>6, <1>7, <1>8, <1>9
        DEF Next, Agent, Around, Server, Observe, LookUp, Upsert, Pass, feedVars

LEMMA TabsStart == Init => TabsInv
<1> SUFFICES ASSUME Init PROVE TabsInv
  OBVIOUS
<1>1. telemetry = <<>> /\ \A d \in Devices : shown[d] = [tabs |-> {}, procs |-> FALSE, domains |-> {}]
  BY DEF Init, FeedInit, Nothing
<1>2. TabsExplained
  BY <1>1 DEF TabsExplained
<1>3. TabsOnTheirWay
  BY <1>1 DEF Init, WatchInit, TabsOnTheirWay
<1> QED BY <1>2, <1>3 DEF TabsInv

LEMMA TabsStep == WatchInv /\ FeedType /\ TabsInv /\ [Next]_<<feedVars, watchVars>> => TabsInv'
<1> SUFFICES ASSUME WatchInv, FeedType, TabsInv, [Next]_<<feedVars, watchVars>> PROVE TabsInv'
  OBVIOUS
<1>1. WatchType
  BY DEF WatchInv
<1>2. visits \subseteq visits' /\ seen.told \subseteq seen'.told
  BY <1>1, MemoryGrows
<1>3. \A p : /\ Known(p) => Known(p)'
             /\ \A host : Explained(host, p) => Explained(host, p)'
  BY <1>2, KnownKept
<1> QED BY <1>1, <1>2, <1>3, AgentTabs, ServerTabs DEF TabsInv, TabsOnTheirWay, SyncsExplained

\* A row's tabs are pages of a host with the row's address or name (sync_active and
\* list_devices).
THEOREM TabsAreTheDevices == Spec => []TabsExplained
<1>1. Init => WatchInv /\ FeedType
  BY WatchStarts, FeedStarts DEF Init
<1>2. TabsInv => TabsExplained
  BY DEF TabsInv
<1> QED BY <1>1, <1>2, TabsStart, WatchStep, LiveFeedType, TabsStep, PTL DEF Spec

-----------------------------------------------------------------------------
(* The threat list, with the operator clearing it at any time              *)

HitsInv == ThreatsStand /\ ReadsStand

LEMMA FeedTypeStep == FeedType /\ [FeedNext]_feedVars => FeedType'
<1> SUFFICES ASSUME FeedType, [FeedNext]_feedVars PROVE FeedType'
  OBVIOUS
<1>1. ASSUME NEW k \in Handlers, NEW h \in Observers, NEW x \in Domains, Observe(k, h, x) PROVE FeedType'
  BY <1>1, ObserveType, FeedAssumption
<1>2. ASSUME NEW q \in Payloads, SyncActive(q) PROVE FeedType'
  BY <1>2, SyncType, FeedAssumption
<1> QED BY <1>1, <1>2, LookUpType, UpsertType, ClearType, ListType, RestartType, OtherFeedTypes DEF FeedNext

\* Neither the rows nor the observes are touched.
LEMMA HitsKept ==
  ASSUME HitsInv, UNCHANGED <<feed, pending, answered>>
  PROVE  HitsInv'
BY DEF HitsInv, ThreatsStand, ReadsStand

LEMMA ObserveHits ==
  ASSUME FeedType, HitsInv, NEW k \in Handlers, NEW host \in Labels, NEW domain \in Domains,
         Observe(k, host, domain)
  PROVE  HitsInv'
<1>1. PICK p : p = [domain |-> domain, host |-> host, read |-> 0, looked |-> FALSE, gone |-> FALSE]
  OBVIOUS
<1>2. \A j \in Handlers : pending'[j] = IF j = k THEN p ELSE pending[j]
  BY <1>1 DEF Observe, FeedType
<1>3. UNCHANGED <<feed, answered>> /\ p.read = 0
  BY <1>1 DEF Observe
<1> QED BY <1>2, <1>3 DEF HitsInv, ThreatsStand, ReadsStand

LEMMA LookUpHits ==
  ASSUME FeedType, HitsInv, NEW k \in Handlers, LookUp(k)
  PROVE  HitsInv'
<1>1. PICK p \in Observing : p = pending[k]
  BY DEF FeedType, LookUp
<1>2. PICK n : n = IF feed[p.domain] = None THEN 0 ELSE feed[p.domain].hits
  OBVIOUS
<1>3. PICK q : q = [p EXCEPT !.looked = TRUE, !.read = n]
  OBVIOUS
<1>4. \A j \in Handlers : pending'[j] = IF j = k THEN q ELSE pending[j]
  BY <1>1, <1>2, <1>3 DEF LookUp, FeedType
<1>5. UNCHANGED <<feed, answered>>
  BY DEF LookUp
<1>6. q.looked /\ q.read = n /\ q.domain = p.domain /\ p.domain \in Domains
  BY <1>1, <1>3 DEF Observing
<1>7. n # 0 => feed[p.domain] # None /\ n <= answered[p.domain]
  <2>1. CASE feed[p.domain] = None
    BY <1>2, <2>1
  <2>2. CASE feed[p.domain] # None
    <3>1. n \in 1..answered[p.domain] /\ answered[p.domain] \in Nat
      BY <1>2, <1>6, <2>2 DEF HitsInv, ThreatsStand, FeedType
    <3> QED BY <2>2, <3>1
  <2> QED BY <2>1, <2>2
<1>8. ReadsStand'
  BY <1>4, <1>5, <1>6, <1>7 DEF HitsInv, ReadsStand
<1> QED BY <1>5, <1>8 DEF HitsInv, ThreatsStand

LEMMA UpsertHits ==
  ASSUME FeedType, HitsInv, NEW k \in Handlers, Upsert(k)
  PROVE  HitsInv'
<1>1. PICK p \in Observing : p = pending[k]
  BY DEF FeedType, Upsert
<1>2. PICK now : now = IF feed[p.domain] = None THEN 0 ELSE feed[p.domain].hits
  OBVIOUS
<1>3. PICK n : n = IF p.read = 0 THEN now ELSE p.read
  OBVIOUS
<1>4. \A j \in Handlers : pending'[j] = IF j = k THEN None ELSE pending[j]
  BY DEF Upsert, FeedType
<1>5. p.domain \in Domains /\ p.read \in Nat /\ p.host \in Labels
  BY <1>1 DEF Observing
<1>6. PICK a \in [Domains -> Nat] : a = answered
  BY DEF FeedType
<1>7. now \in Nat /\ now <= a[p.domain]
  <2>1. CASE feed[p.domain] = None
    BY <1>2, <1>5, <1>6, <2>1
  <2>2. CASE feed[p.domain] # None
    BY <1>2, <1>5, <1>6, <2>2 DEF HitsInv, ThreatsStand, FeedType
  <2> QED BY <2>1, <2>2
<1>8. CASE UNCHANGED <<feed, answered>>
  BY <1>4, <1>8 DEF HitsInv, ThreatsStand, ReadsStand
<1>9. CASE /\ ~(p.read # 0 /\ p.gone)
           /\ feed' = [feed EXCEPT ![p.domain] = Bumped(n, p.host)]
           /\ answered' = [answered EXCEPT ![p.domain] = @ + 1]
  <2>1. n \in Nat /\ n <= a[p.domain]
    <3>1. CASE p.read = 0
      BY <1>3, <1>7, <3>1
    <3>2. CASE p.read # 0
      <4>1. p # None
        BY NoneAssumption, <1>1
      <4>2. p.read <= a[p.domain]
        BY <1>1, <1>6, <1>9, <3>2, <4>1 DEF HitsInv, ReadsStand
      <4> QED BY <1>3, <1>5, <3>2, <4>2
    <3> QED BY <3>1, <3>2
  <2>2. PICK b : b = [a EXCEPT ![p.domain] = @ + 1]
    OBVIOUS
  <2>3. answered' = b
    BY <1>6, <1>9, <2>2
  <2>4. PICK f \in Observation : f = Bumped(n, p.host)
    <3>1. n + 1 \in Nat /\ time \in Nat
      BY <2>1 DEF FeedType
    <3>2. Bumped(n, p.host) \in Observation
      BY <1>5, <3>1 DEF Bumped, Observation
    <3> QED BY <3>2
  <2>5. f.hits = n + 1 /\ f # None
    BY <2>4, NoneAssumption DEF Bumped
  <2>6. \A x \in Domains : feed'[x] = IF x = p.domain THEN f ELSE feed[x]
    BY <1>9, <2>4 DEF FeedType
  <2>7. \A x \in Domains : /\ b[x] = IF x = p.domain THEN a[x] + 1 ELSE a[x]
                           /\ a[x] \in Nat
    BY <1>6, <2>2
  <2>8. ThreatsStand'
    <3>1. ASSUME NEW x \in Domains
          PROVE  IF feed'[x] = None THEN b[x] = 0 ELSE feed'[x].hits \in 1..b[x]
      <4>1. CASE x = p.domain
        <5>1. feed'[x] = f /\ b[x] = a[x] + 1 /\ a[x] \in Nat /\ n <= a[x]
          BY <2>1, <2>6, <2>7, <4>1
        <5> QED BY <2>1, <2>5, <5>1
      <4>2. CASE x # p.domain
        BY <1>6, <2>6, <2>7, <4>2 DEF HitsInv, ThreatsStand
      <4> QED BY <4>1, <4>2
    <3> QED BY <2>3, <3>1 DEF ThreatsStand
  <2>9. ReadsStand'
    <3>1. ASSUME NEW j \in Handlers, pending'[j] # None, pending'[j].read # 0, ~pending'[j].gone
          PROVE  /\ pending'[j].looked
                 /\ feed'[pending'[j].domain] # None
                 /\ pending'[j].read <= b[pending'[j].domain]
      <4>1. PICK q : q = pending[j]
        OBVIOUS
      <4>2. pending'[j] = q /\ q \in Observing /\ q # None
        BY <1>4, <3>1, <4>1 DEF FeedType
      <4>3. q.looked /\ feed[q.domain] # None /\ q.read <= a[q.domain]
        BY <1>6, <3>1, <4>1, <4>2 DEF HitsInv, ReadsStand
      <4>4. q.domain \in Domains /\ q.read \in Nat
        BY <4>2 DEF Observing
      <4>5. q.read <= b[q.domain]
        BY <2>7, <4>3, <4>4
      <4>6. feed'[q.domain] # None
        BY <2>5, <2>6, <4>3, <4>4
      <4> QED BY <4>2, <4>3, <4>5, <4>6
    <3> QED BY <2>3, <3>1 DEF ReadsStand
  <2> QED BY <2>8, <2>9 DEF HitsInv
<1> QED BY <1>1, <1>2, <1>3, <1>8, <1>9 DEF Upsert

\* A row that is cleared takes its answers with it, and what a session has read
\* of it no longer counts.
LEMMA ClearHits ==
  ASSUME FeedType, HitsInv, NEW ds, Clear(ds)
  PROVE  HitsInv'
<1>1. PICK a \in [Domains -> Nat] : a = answered
  BY DEF FeedType
<1>2. PICK b : b = [d \in Domains |-> IF d \in ds THEN 0 ELSE a[d]]
  OBVIOUS
<1>3. answered' = b
  BY <1>1, <1>2 DEF Clear, FeedType
<1>4. \A d \in Domains : feed'[d] = IF d \in ds THEN None ELSE feed[d]
  BY DEF Clear
<1>5. ThreatsStand'
  BY <1>1, <1>2, <1>3, <1>4 DEF HitsInv, ThreatsStand
<1>6. ASSUME NEW k \in Handlers, pending'[k] # None, pending'[k].read # 0, ~pending'[k].gone
      PROVE  /\ pending'[k].looked
             /\ feed'[pending'[k].domain] # None
             /\ pending'[k].read <= b[pending'[k].domain]
  <2>1. PICK p : p = pending[k]
    OBVIOUS
  <2>2. pending'[k] = IF p # None /\ p.domain \in ds THEN [p EXCEPT !.gone = @ \/ p.looked] ELSE p
    BY <2>1 DEF Clear
  <2>3. p # None /\ p \in Observing
    BY <1>6, <2>1, <2>2 DEF FeedType
  <2>4. CASE p.domain \in ds
    <3>1. PICK q : q = [p EXCEPT !.gone = @ \/ p.looked]
      OBVIOUS
    <3>2. pending'[k] = q /\ q.read = p.read /\ q.gone = (p.gone \/ p.looked)
      BY <2>2, <2>3, <2>4, <3>1 DEF Observing
    <3>3. ~p.gone /\ ~p.looked /\ p.read # 0
      BY <1>6, <3>2
    <3> QED BY <2>1, <2>3, <3>3 DEF HitsInv, ReadsStand
  <2>5. CASE p.domain \notin ds
    <3>1. pending'[k] = p /\ p.domain \in Domains
      BY <2>2, <2>3, <2>5 DEF Observing
    <3>2. p.looked /\ feed[p.domain] # None /\ p.read <= a[p.domain]
      BY <1>1, <1>6, <2>1, <2>3, <3>1 DEF HitsInv, ReadsStand
    <3> QED BY <1>2, <1>4, <2>5, <3>1, <3>2
  <2> QED BY <2>4, <2>5
<1>7. ReadsStand'
  BY <1>3, <1>6 DEF ReadsStand
<1> QED BY <1>5, <1>7 DEF HitsInv

\* A sync refreshes rows, and a restart forgets the observes.
LEMMA SyncHits ==
  ASSUME FeedType, HitsInv, NEW p \in Payload, SyncActive(p)
  PROVE  HitsInv'
<1>1. UNCHANGED <<answered, pending>>
  BY DEF SyncActive, FeedType
<1>2. ASSUME NEW x \in Domains PROVE (feed'[x] = None) = (feed[x] = None) /\ (feed[x] # None => feed'[x].hits = feed[x].hits)
  <2>1. PICK f \in Observation \cup {None} : f = feed[x]
    BY DEF FeedType
  <2>2. f # None => [f EXCEPT !.seen = time] \in Observation /\ [f EXCEPT !.seen = time].hits = f.hits
    BY <2>1 DEF FeedType, Observation
  <2>3. feed'[x] = IF x \in p.domains /\ ~p.foreign /\ f # None THEN [f EXCEPT !.seen = time] ELSE f
    BY <2>1 DEF SyncActive
  <2> QED BY <2>1, <2>2, <2>3, NoneAssumption
<1>3. ThreatsStand'
  BY <1>1, <1>2 DEF HitsInv, ThreatsStand
<1>4. ReadsStand'
  <2>1. ASSUME NEW k \in Handlers, pending[k] # None PROVE pending[k].domain \in Domains
    BY <2>1 DEF FeedType, Observing
  <2> QED BY <1>1, <1>2, <2>1 DEF HitsInv, ReadsStand
<1> QED BY <1>3, <1>4 DEF HitsInv

LEMMA RestartHits ==
  ASSUME FeedType, HitsInv, Restart
  PROVE  HitsInv'
<1>1. UNCHANGED <<answered, feed>> /\ \A k \in Handlers : pending'[k] = None
  BY DEF Restart, FeedType
<1> QED BY <1>1 DEF HitsInv, ThreatsStand, ReadsStand

LEMMA HitsStep == FeedType /\ HitsInv /\ [FeedNext]_feedVars => HitsInv'
<1> SUFFICES ASSUME FeedType, HitsInv, [FeedNext]_feedVars PROVE HitsInv'
  OBVIOUS
<1>1. ASSUME NEW k \in Handlers, NEW h \in Observers, NEW x \in Domains, Observe(k, h, x) PROVE HitsInv'
  BY <1>1, ObserveHits, FeedAssumption
<1>2. ASSUME NEW q \in Payloads, SyncActive(q) PROVE HitsInv'
  BY <1>2, SyncHits, FeedAssumption
<1>3. ASSUME UNCHANGED <<feed, pending, answered>> PROVE HitsInv'
  BY <1>3, HitsKept
<1> QED BY <1>1, <1>2, <1>3, LookUpHits, UpsertHits, ClearHits, RestartHits
        DEF FeedNext, ListDevices, ClearDevices, SetConsent, Pass, feedVars

LEMMA HitsStart == FeedInit => HitsInv
BY DEF FeedInit, HitsInv, ThreatsStand, ReadsStand

\* A threat stands until it is cleared, with no more hits than answers (observe,
\* _bump_observation).
THEOREM HitsCounted == FeedSpec => []ThreatsStand
<1>1. HitsInv => ThreatsStand
  BY DEF HitsInv
<1> QED BY <1>1, FeedStarts, HitsStart, FeedTypeStep, HitsStep, PTL DEF FeedSpec

=============================================================================
