--------------------------- MODULE InventoryProofs ---------------------------
(***************************************************************************)
(* What holds of the two inventories. Presence, for all devices, subnets,  *)
(* agents and time limits: type correctness, and that a sweep leaves alone *)
(* what another agent keeps fresh, for any number of sweeps at once; and,  *)
(* while sweeps are stored one at a time, that a subnet has one current    *)
(* session of a device, that sessions end when they were last seen and are *)
(* not carried over a gap, and what a device is shown as. Estate, for all  *)
(* machines, vulnerabilities, requests and risk engines: type correctness, *)
(* that the cached risk is that of the database and that triage stands.    *)
(***************************************************************************)
EXTENDS Inventory, FiniteSetTheorems, WellFoundedInduction, TLAPS

USE SetAssumption, TimeAssumption DEF Slots, Ages, Cap

-----------------------------------------------------------------------------
(* The least member of a set of naturals *)

LEMMA Least ==
  ASSUME NEW T \in SUBSET Nat, T # {}
  PROVE  \E i \in T : \A j \in T : i <= j
<1> DEFINE R == OpToRel(<, Nat)
<1>1. IsWellFoundedOn(R, Nat)
  BY NatLessThanWellFounded
<1> HIDE DEF R
<1>2. PICK i \in T : \A j \in T : <<j, i>> \notin R
  BY <1>1, WFMin
<1>3. \A j \in T : ~(j < i)
  BY <1>2 DEF R, OpToRel
<1> QED BY <1>2, <1>3

LEMMA LowestIn ==
  ASSUME NEW T \in SUBSET Slots, T # {}
  PROVE  Lowest(T) \in T /\ Lowest(T) \in Slots
<1>1. T \in SUBSET Nat
  OBVIOUS
<1>2. \E i \in T : \A j \in T : i <= j
  BY <1>1, Least
<1> QED BY <1>2 DEF Lowest

LEMMA OlderType ==
  ASSUME NEW x \in Ages, NEW y \in Nat
  PROVE  Older(x, y) \in Ages
BY DEF Older

-----------------------------------------------------------------------------
(* Sessions *)

Sessions == [Slots -> Session]

LEMMA LatestType ==
  ASSUME NEW S \in Sessions
  PROVE  Latest(S) \in 0..MaxSlots /\ (Latest(S) # 0 => Latest(S) \in Slots)
<1> DEFINE newest == {i \in Used(S) : \A j \in Used(S) : S[i].age <= S[j].age}
           open == newest \cap Currents(S)
<1>1. newest \in SUBSET Slots /\ open \in SUBSET Slots
  BY DEF Used
<1>2. Latest(S) = IF newest = {} THEN 0 ELSE IF open # {} THEN Lowest(open) ELSE Lowest(newest)
  BY DEF Latest
<1> HIDE DEF newest, open
<1> QED BY <1>1, <1>2, LowestIn

LEMMA LatestUsed ==
  ASSUME NEW S, Latest(S) # 0
  PROVE  Latest(S) \in Used(S)
<1> DEFINE newest == {i \in Used(S) : \A j \in Used(S) : S[i].age <= S[j].age}
           open == newest \cap Currents(S)
<1>1. newest \in SUBSET Slots /\ open \in SUBSET Slots /\ newest \subseteq Used(S) /\ open \subseteq Used(S)
  BY DEF Used
<1>2. Latest(S) = IF newest = {} THEN 0 ELSE IF open # {} THEN Lowest(open) ELSE Lowest(newest)
  BY DEF Latest
<1> HIDE DEF newest, open
<1> QED BY <1>1, <1>2, LowestIn

LEMMA LatestAge ==
  ASSUME NEW S \in Sessions
  PROVE  (IF Latest(S) = 0 THEN 0 ELSE S[Latest(S)].age) \in Ages
<1>1. CASE Latest(S) = 0
  BY <1>1
<1>2. CASE Latest(S) # 0
  <2>1. S[Latest(S)] \in Session
    BY <1>2, LatestType DEF Sessions
  <2> QED BY <1>2, <2>1 DEF Session
<1> QED BY <1>1, <1>2

LEMMA CloseType ==
  ASSUME NEW S \in Sessions, NEW found \in SUBSET Slots
  PROVE  Close(S, found) \in Sessions
<1>1. CASE found = {}
  BY <1>1 DEF Close
<1>2. CASE found # {}
  <2> DEFINE i == Lowest(found)
  <2>1. i \in Slots /\ S[i] \in Session
    BY <1>2, LowestIn DEF Sessions
  <2>2. Close(S, found) = [S EXCEPT ![i] = [S[i] EXCEPT !.state = "closed", !.ended = S[i].age]]
    BY <1>2, <2>1 DEF Close, Sessions
  <2> HIDE DEF i
  <2>3. [S[i] EXCEPT !.state = "closed", !.ended = S[i].age] \in Session
    BY <2>1 DEF Session
  <2> QED BY <2>1, <2>2, <2>3 DEF Sessions
<1> QED BY <1>1, <1>2

LEMMA PutType ==
  ASSUME NEW S \in Sessions, NEW i, i \in Slots => S[i] \in Session, NEW r,
         i \in Slots => r \in Session
  PROVE  [S EXCEPT ![i] = r] \in Sessions
BY DEF Sessions

LEMMA RecordedType ==
  ASSUME NEW S \in Sessions, NEW l \in Loaded, NEW held, NEW a \in Ages
  PROVE  Recorded(S, l, held, a) \in Sessions
<1>1. ASSUME NEW T \in Sessions, NEW k PROVE Opened(T, k, a) \in Sessions
  BY <1>1, PutType DEF Opened, Sessions, Session
<1>2. Ended(S, l, a) \in Sessions
  <2> DEFINE r == [S[l.slot] EXCEPT !.state = "closed", !.ended = Older(l.gap, a)]
  <2>1. Ended(S, l, a) = [S EXCEPT ![l.slot] = r]
    BY DEF Ended, Sessions
  <2>2. l.slot \in Slots => r \in Session
    <3>1. Older(l.gap, a) \in Ages
      BY OlderType DEF Loaded
    <3> QED BY <3>1 DEF Sessions, Session
  <2> HIDE DEF r
  <2> QED BY <2>1, <2>2 DEF Sessions
<1>3. [S EXCEPT ![l.slot].age = a] \in Sessions
  <2> DEFINE r == [S[l.slot] EXCEPT !.age = a]
  <2>1. [S EXCEPT ![l.slot].age = a] = [S EXCEPT ![l.slot] = r]
    BY DEF Sessions
  <2>2. l.slot \in Slots => r \in Session
    BY DEF Sessions, Session
  <2> HIDE DEF r
  <2> QED BY <2>1, <2>2 DEF Sessions
<1> QED BY <1>1, <1>2, <1>3 DEF Recorded

\* What a sweep has loaded of a device, at once or when it stores.
LEMMA LoadedType ==
  ASSUME NEW row \in Row \cup {None}, NEW S \in Sessions, NEW gap \in Ages
  PROVE  [row |-> row, slot |-> Latest(S), verdict |-> Verdict(S, gap), gap |-> gap] \in Loaded
BY LatestType DEF Loaded, Verdict

LEMMA UnreadType == Unread \in Loaded
BY DEF Unread, Loaded

LEMMA IdleType == Idle \in Sweep /\ ~Idle.busy /\ Idle.age = 0
BY UnreadType DEF Idle, Sweep

LEMMA TypeFacts ==
  ASSUME TypeOK
  PROVE  /\ \A d \in Devices : rows[d] \in Row \cup {None}
         /\ \A d \in Devices : sess[d] \in [Nets -> Sessions]
         /\ \A d \in Devices, n \in Nets : sess[d][n] \in Sessions
         /\ \A h \in Handlers : req[h] \in Sweep
         /\ \A h \in Handlers, d \in Devices : req[h].got[d] \in Loaded
BY DEF TypeOK, Sessions, Sweep

LEMMA ReadType ==
  ASSUME TypeOK, NEW d \in Devices, NEW n \in Nets
  PROVE  Read(d, n) \in Loaded
<1> DEFINE S   == sess[d][n]
           gap == IF Latest(S) = 0 THEN 0 ELSE S[Latest(S)].age
<1>1. S \in Sessions
  BY TypeFacts
<1>2. gap \in Ages
  BY <1>1, LatestAge
<1>3. [row |-> rows[d], slot |-> Latest(S), verdict |-> Verdict(S, gap), gap |-> gap] \in Loaded
  BY <1>1, <1>2, LoadedType, TypeFacts
<1> QED BY <1>3, UnreadType DEF Read

LEMMA GotType ==
  ASSUME TypeOK, NEW h \in Handlers, NEW d \in Devices, req[h].net \in Nets
  PROVE  Got(req[h], d) \in Loaded
<1> DEFINE r   == req[h]
           S   == sess[d][r.net]
           age == IF Latest(S) = 0 THEN 0 ELSE S[Latest(S)].age
           gap == IF age > r.age THEN age - r.age ELSE 0
<1>1. S \in Sessions /\ r.age \in Ages
  BY TypeFacts DEF Sweep
<1>2. age \in Ages
  BY <1>1, LatestAge
<1>3. gap \in Ages
  <2> HIDE DEF age
  <2> QED BY <1>1, <1>2
<1>4. [row |-> rows[d], slot |-> Latest(S), verdict |-> Verdict(S, gap), gap |-> gap] \in Loaded
  BY <1>1, <1>3, LoadedType, TypeFacts
<1> QED BY <1>4, TypeFacts DEF Got

-----------------------------------------------------------------------------
(* Type correctness *)

\* A sweep that is being stored is of a subnet, and the rows it has loaded exist
\* unless it is going to fail.
SweepOK(h) ==
    req[h].busy =>
        /\ req[h].net \in Nets
        /\ ~req[h].broken => \A d \in Devices : req[h].got[d].row # None => rows[d] # None
\* The scanner works on a device that exists.
ScanOK == scan # None => rows[scan] # None
TypeInv == TypeOK /\ ScanOK /\ \A h \in Handlers : SweepOK(h)

LEMMA BreakType ==
  ASSUME NEW R \in [Handlers -> Sweep], NEW gone
  PROVE  /\ Break(R, gone) \in [Handlers -> Sweep]
         /\ \A g \in Handlers :
              LET b == Break(R, gone)[g] IN
              /\ b.busy = R[g].busy /\ b.net = R[g].net /\ b.got = R[g].got
              /\ b.agent = R[g].agent /\ b.active = R[g].active
              /\ b.seen = R[g].seen /\ b.age = R[g].age
              /\ ~b.broken => ~R[g].broken /\ \A d \in gone : R[g].got[d].row = None
<1>1. ASSUME NEW g \in Handlers
      PROVE  LET b == Break(R, gone)[g] IN
             /\ b \in Sweep
             /\ b.busy = R[g].busy /\ b.net = R[g].net /\ b.got = R[g].got
             /\ b.agent = R[g].agent /\ b.active = R[g].active
             /\ b.seen = R[g].seen /\ b.age = R[g].age
             /\ ~b.broken => ~R[g].broken /\ \A d \in gone : R[g].got[d].row = None
  <2>1. R[g] \in Sweep
    OBVIOUS
  <2>2. PICK b : b = Break(R, gone)[g]
    OBVIOUS
  <2>3. CASE \E d \in gone : R[g].got[d].row # None
    <3>1. b = [R[g] EXCEPT !.broken = TRUE]
      BY <2>2, <2>3 DEF Break
    <3>2. /\ b \in Sweep /\ b.broken
          /\ b.busy = R[g].busy /\ b.net = R[g].net /\ b.got = R[g].got
          /\ b.agent = R[g].agent /\ b.active = R[g].active
          /\ b.seen = R[g].seen /\ b.age = R[g].age
      BY <2>1, <3>1 DEF Sweep
    <3> QED BY <2>2, <3>2
  <2>4. CASE ~\E d \in gone : R[g].got[d].row # None
    <3>1. b = R[g]
      BY <2>2, <2>4 DEF Break
    <3> QED BY <2>1, <2>2, <2>4, <3>1
  <2> QED BY <2>3, <2>4
<1> QED BY <1>1 DEF Break

LEMMA LoadType ==
  ASSUME TypeInv, NEW h \in Handlers, NEW a \in Agents \cup {None}, NEW n \in Nets,
         NEW seen \in SUBSET Devices, Load(h, a, n, seen)
  PROVE  TypeInv'
<1> DEFINE r == [busy |-> TRUE, agent |-> a, net |-> n, seen |-> seen,
                 active |-> IF a = None THEN {} ELSE joined[a], age |-> 0,
                 got |-> [d \in Devices |-> IF d \in seen THEN Read(d, n) ELSE Unread],
                 broken |-> FALSE]
<1>1. req' = [req EXCEPT ![h] = r] /\ UNCHANGED <<rows, sess, joined, scan>>
  BY DEF Load
<1>2. [d \in Devices |-> IF d \in seen THEN Read(d, n) ELSE Unread] \in [Devices -> Loaded]
  BY ReadType, UnreadType DEF TypeInv
<1>3. (IF a = None THEN {} ELSE joined[a]) \in SUBSET Nets
  BY DEF TypeInv, TypeOK
<1>4. r \in Sweep /\ r.net \in Nets
  BY <1>2, <1>3 DEF Sweep
<1>5. \A d \in Devices : r.got[d].row # None => rows[d] # None
  BY DEF Read, Unread
<1> HIDE DEF r
<1> QED BY <1>1, <1>4, <1>5 DEF TypeInv, ScanOK, SweepOK, TypeOK

LEMMA SeenRowType ==
  ASSUME TypeInv, NEW h \in Handlers, req[h].busy, ~req[h].broken, NEW d \in Devices, NEW left
  PROVE  SeenRow(req[h], d, left) \in Row
<1> DEFINE old   == Got(req[h], d).row
           agent == IF req[h].agent = None THEN old.agent ELSE req[h].agent
<1>1. /\ req[h] \in Sweep /\ req[h].net \in Nets
      /\ old \in Row \cup {None} /\ rows[d] \in Row \cup {None}
  BY GotType, TypeFacts DEF Loaded, TypeInv, SweepOK
<1>2. CASE old = None
  BY <1>1, <1>2 DEF SeenRow, Sweep, Row
<1>3. CASE old # None
  <2>1. agent \in Agents \cup {None} /\ old \in Row
    BY <1>1, <1>3 DEF Sweep, Row
  <2>2. rows[d] \in Row
    BY <1>1, <1>3 DEF TypeInv, SweepOK, Got
  <2> QED BY <1>1, <1>3, <2>1, <2>2 DEF SeenRow, Sweep, Row, Merge
<1> QED BY <1>2, <1>3

LEMMA OfflineRowType ==
  ASSUME TypeOK, NEW d \in Devices, rows[d] # None
  PROVE  OfflineRow(d) \in Row
<1>1. rows[d] \in Row /\ 0 \in Ages
  BY TypeFacts
<1>2. [rows[d] EXCEPT !.online = FALSE, !.age = 0] \in Row
  BY <1>1 DEF Row
<1> QED BY <1>1, <1>2 DEF OfflineRow

LEMMA ClosedSessionsType ==
  ASSUME TypeOK, NEW d \in Devices
  PROVE  ClosedSessions(d) \in [Nets -> Sessions]
<1>1. sess[d] \in [Nets -> Sessions]
  BY TypeFacts
<1>2. \A n \in Nets : Close(sess[d][n], Currents(sess[d][n])) \in Sessions
  BY <1>1, CloseType DEF Currents
<1> QED BY <1>1, <1>2 DEF ClosedSessions

LEMMA SeenSessionsType ==
  ASSUME TypeInv, NEW h \in Handlers, req[h].busy, NEW d \in Devices, NEW left
  PROVE  SeenSessions(h, d, left) \in [Nets -> Sessions]
<1> DEFINE S == sess[d][req[h].net]
           T == Recorded(S, Got(req[h], d), Held(h, d, req[h].net), req[h].age)
<1>1. /\ sess[d] \in [Nets -> Sessions] /\ S \in Sessions
      /\ req[h].net \in Nets /\ req[h].age \in Ages /\ Got(req[h], d) \in Loaded
  BY TypeFacts, GotType DEF TypeInv, SweepOK, Sweep
<1>2. T \in Sessions
  BY <1>1, RecordedType
<1>3. Close(T, Currents(S)) \in Sessions
  BY <1>2, CloseType DEF Currents
<1> QED BY <1>1, <1>2, <1>3 DEF SeenSessions

\* What a sweep stores.
Off(r, left) == left \cup Pruned(r) \cup Aged(r)
Stores(h, left) ==
    LET r == req[h] IN
    /\ r.busy /\ ~r.broken /\ left \in SUBSET Left(r, {})
    /\ rows' = [d \in Devices |->
                  CASE d \in r.seen      -> SeenRow(r, d, left)
                    [] d \in Doubled(r)  -> None
                    [] d \in Off(r, left) \ (r.seen \cup Doubled(r)) -> OfflineRow(d)
                    [] OTHER             -> rows[d]]
    /\ sess' = [d \in Devices |->
                  CASE d \in r.seen                -> SeenSessions(h, d, left)
                    [] d \in Off(r, left) \ r.seen -> ClosedSessions(d)
                    [] OTHER                       -> sess[d]]
    /\ req' = Break([req EXCEPT ![h] = Idle], Doubled(r))
    /\ UNCHANGED joined

LEMMA StoreStores ==
  ASSUME NEW h \in Handlers, Store(h)
  PROVE  \E left : Stores(h, left)
<1> DEFINE r == req[h]
<1>1. PICK flushed \in IF \E d \in r.seen : r.got[d].row = None THEN SUBSET r.seen ELSE {{}} :
         LET left == Left(r, flushed)
             off  == left \cup Pruned(r) \cup Aged(r)
         IN /\ rows' = [d \in Devices |->
                          CASE d \in r.seen      -> SeenRow(r, d, left)
                            [] d \in Doubled(r)  -> None
                            [] d \in off \ (r.seen \cup Doubled(r)) -> OfflineRow(d)
                            [] OTHER             -> rows[d]]
            /\ sess' = [d \in Devices |->
                          CASE d \in r.seen       -> SeenSessions(h, d, left)
                            [] d \in off \ r.seen -> ClosedSessions(d)
                            [] OTHER              -> sess[d]]
  BY DEF Store
<1>2. Left(r, flushed) \in SUBSET Left(r, {})
  BY DEF Left
<1>3. Stores(h, Left(r, flushed))
  BY <1>1, <1>2 DEF Store, Stores, Off
<1> QED BY <1>3

LEMMA OffRows ==
  ASSUME NEW h \in Handlers, NEW left \in SUBSET Left(req[h], {}),
         NEW d \in Off(req[h], left)
  PROVE  d \in Devices /\ rows[d] # None
BY DEF Off, Left, Pruned, Aged

LEMMA StoreType ==
  ASSUME TypeInv, NEW h \in Handlers, Store(h)
  PROVE  TypeInv'
<1> DEFINE r == req[h]
<1>1. PICK left : Stores(h, left)
  BY StoreStores
<1>2. rows' \in [Devices -> Row \cup {None}]
  <2>1. ASSUME NEW d \in Devices PROVE rows'[d] \in Row \cup {None}
    <3>1. SeenRow(r, d, left) \in Row
      BY <1>1, SeenRowType DEF Stores
    <3>2. d \in Off(r, left) => OfflineRow(d) \in Row
      BY <1>1, OffRows, OfflineRowType DEF Stores, TypeInv
    <3>3. rows[d] \in Row \cup {None}
      BY TypeFacts DEF TypeInv
    <3> QED BY <1>1, <3>1, <3>2, <3>3 DEF Stores
  <2> QED BY <1>1, <2>1 DEF Stores
<1>3. sess' \in [Devices -> [Nets -> [Slots -> Session]]]
  <2>1. ASSUME NEW d \in Devices PROVE sess'[d] \in [Nets -> Sessions]
    <3>1. /\ SeenSessions(h, d, left) \in [Nets -> Sessions]
          /\ ClosedSessions(d) \in [Nets -> Sessions] /\ sess[d] \in [Nets -> Sessions]
      BY <1>1, SeenSessionsType, ClosedSessionsType, TypeFacts DEF Stores, TypeInv
    <3> QED BY <1>1, <3>1 DEF Stores
  <2> QED BY <1>1, <2>1 DEF Stores, Sessions
<1>4. [req EXCEPT ![h] = Idle] \in [Handlers -> Sweep]
  BY IdleType DEF TypeInv, TypeOK
<1>5. req' \in [Handlers -> Sweep]
  BY <1>1, <1>4, BreakType DEF Stores
<1>6. ASSUME NEW d \in Devices, rows[d] # None, d \notin Doubled(r)
      PROVE  rows'[d] # None
  <2>1. SeenRow(r, d, left) # None
    BY <1>1, SeenRowType, RowAssumption DEF Stores
  <2>2. OfflineRow(d) # None
    BY <1>6, OfflineRowType, RowAssumption DEF TypeInv
  <2> QED BY <1>1, <1>6, <2>1, <2>2 DEF Stores
<1>7. ASSUME NEW g \in Handlers PROVE SweepOK(g)'
  <2> SUFFICES ASSUME req'[g].busy
               PROVE  /\ req'[g].net \in Nets
                      /\ ~req'[g].broken => \A d \in Devices : req'[g].got[d].row # None => rows'[d] # None
    BY DEF SweepOK
  <2>1. PICK R : R = [req EXCEPT ![h] = Idle]
    OBVIOUS
  <2>2. PICK gone : gone = Doubled(r)
    OBVIOUS
  <2>3. R \in [Handlers -> Sweep] /\ req' = Break(R, gone)
    BY <1>1, <1>4, <2>1, <2>2 DEF Stores
  <2>4. /\ req'[g].busy = R[g].busy /\ req'[g].net = R[g].net /\ req'[g].got = R[g].got
        /\ ~req'[g].broken => ~R[g].broken /\ \A d \in gone : R[g].got[d].row = None
    <3>1. LET b == Break(R, gone)[g] IN
          /\ b.busy = R[g].busy /\ b.net = R[g].net /\ b.got = R[g].got
          /\ ~b.broken => ~R[g].broken /\ \A d \in gone : R[g].got[d].row = None
      BY <2>3, BreakType
    <3> QED BY <2>3, <3>1
  <2>5. g # h /\ R[g] = req[g]
    BY <2>1, <2>4, IdleType DEF TypeInv, TypeOK
  <2> QED BY <1>6, <2>2, <2>4, <2>5 DEF TypeInv, SweepOK
<1>8. scan' \in Devices \cup {None} /\ joined' \in [Agents -> SUBSET Nets] /\ ScanOK'
  BY <1>6 DEF Store, TypeInv, ScanOK, TypeOK
<1> QED BY <1>2, <1>3, <1>5, <1>7, <1>8 DEF TypeInv, TypeOK

LEMMA ClearType == ASSUME TypeInv, ClearDevices PROVE TypeInv'
<1>1. req \in [Handlers -> Sweep] /\ req' = Break(req, Devices)
  BY DEF TypeInv, TypeOK, ClearDevices
<1>2. req' \in [Handlers -> Sweep]
  BY <1>1, BreakType
<1>3. ASSUME NEW g \in Handlers
      PROVE  /\ req'[g].busy = req[g].busy /\ req'[g].net = req[g].net /\ req'[g].got = req[g].got
             /\ ~req'[g].broken => \A d \in Devices : req[g].got[d].row = None
  BY <1>1, BreakType
<1>4. \A g \in Handlers : SweepOK(g)'
  BY <1>3 DEF TypeInv, SweepOK
<1>5. NoSession \in Session
  BY DEF NoSession, Session
<1> QED BY <1>2, <1>4, <1>5 DEF TypeInv, ScanOK, TypeOK, ClearDevices

\* The steps of the other writers leave the sweeps alone.
LEMMA RowsKept ==
  ASSUME TypeInv, UNCHANGED <<sess, req>>, joined' \in [Agents -> SUBSET Nets],
         scan' = scan \/ scan' = None, rows' \in [Devices -> Row \cup {None}],
         \A d \in Devices : rows[d] # None => rows'[d] # None
  PROVE  TypeInv'
BY DEF TypeInv, ScanOK, SweepOK, TypeOK

LEMMA UpsertHostType == ASSUME TypeInv, NEW d \in Devices, UpsertHost(d) PROVE TypeInv'
<1> DEFINE r == IF rows[d] = None
                  THEN [net |-> None, agent |-> None, online |-> TRUE, age |-> 0]
                  ELSE [rows[d] EXCEPT !.online = TRUE, !.age = 0]
<1>1. r \in Row
  <2>1. rows[d] \in Row \cup {None} /\ 0 \in Ages
    BY TypeFacts DEF TypeInv
  <2> QED BY <2>1 DEF Row
<1>2. rows' = [rows EXCEPT ![d] = r] /\ UNCHANGED <<sess, joined, req, scan>>
  BY DEF UpsertHost
<1> HIDE DEF r
<1>3. rows' \in [Devices -> Row \cup {None}] /\ \A e \in Devices : rows[e] # None => rows'[e] # None
  BY <1>1, <1>2, RowAssumption DEF TypeInv, TypeOK
<1> QED BY <1>2, <1>3, RowsKept DEF TypeInv, TypeOK

LEMMA EndScanType == ASSUME TypeInv, EndScan PROVE TypeInv'
<1>1. scan \in Devices /\ UNCHANGED <<sess, joined, req>> /\ scan' = None
  BY DEF EndScan, TypeInv, TypeOK
<1>2. PICK r : r = [rows[scan] EXCEPT !.age = 0]
  OBVIOUS
<1>3. rows' = [rows EXCEPT ![scan] = r]
  BY <1>1, <1>2 DEF EndScan, TypeInv, TypeOK
<1>4. rows[scan] \in Row /\ 0 \in Ages
  BY <1>1, TypeFacts DEF EndScan, TypeInv, ScanOK
<1>5. r \in Row
  BY <1>2, <1>4 DEF Row
<1>6. rows' \in [Devices -> Row \cup {None}] /\ \A e \in Devices : rows[e] # None => rows'[e] # None
  BY <1>3, <1>5, RowAssumption DEF TypeInv, TypeOK
<1> QED BY <1>1, <1>6, RowsKept DEF TypeInv, TypeOK

LEMMA RoamType ==
  ASSUME TypeInv, NEW a \in Agents, NEW N \in SUBSET Nets, Roam(a, N)
  PROVE  TypeInv'
BY DEF Roam, TypeInv, ScanOK, SweepOK, TypeOK

LEMMA BeginScanType ==
  ASSUME TypeInv, NEW d \in Devices, BeginScan(d)
  PROVE  TypeInv'
BY DEF BeginScan, TypeInv, ScanOK, SweepOK, TypeOK

LEMMA StoreFailsType == ASSUME TypeInv, NEW h \in Handlers, StoreFails(h) PROVE TypeInv'
BY IdleType DEF StoreFails, TypeInv, ScanOK, SweepOK, TypeOK

\* A tick ages rows and sessions alike.
LEMMA TickSession ==
  ASSUME TypeOK, Tick, NEW d \in Devices, NEW n \in Nets, NEW i \in Slots
  PROVE  LET s == sess[d][n][i]
             t == sess'[d][n][i]
         IN /\ s \in Session /\ t \in Session /\ t.state = s.state
            /\ t.age = IF s.state = "none" THEN s.age ELSE Older(s.age, 1)
            /\ t.ended = IF s.state = "closed" THEN Older(s.ended, 1) ELSE s.ended
<1>1. PICK s : s = sess[d][n][i]
  OBVIOUS
<1>2. PICK t : t = sess'[d][n][i]
  OBVIOUS
<1>3. s \in Session
  BY <1>1 DEF TypeOK
<1>4. t = CASE s.state = "none"    -> s
            [] s.state = "current" -> [s EXCEPT !.age = Older(@, 1)]
            [] OTHER -> [s EXCEPT !.age = Older(@, 1), !.ended = Older(@, 1)]
  BY <1>1, <1>2 DEF Tick
<1>5. Older(s.age, 1) \in Ages /\ Older(s.ended, 1) \in Ages
  BY <1>3, OlderType DEF Session
<1>6. CASE s.state = "none"
  BY <1>1, <1>2, <1>3, <1>4, <1>6
<1>7. CASE s.state = "current"
  <2>1. t = [s EXCEPT !.age = Older(s.age, 1)]
    BY <1>3, <1>4, <1>7 DEF Session
  <2>2. /\ t \in Session /\ t.state = "current" /\ t.age = Older(s.age, 1) /\ t.ended = s.ended
    BY <1>3, <1>5, <1>7, <2>1 DEF Session
  <2> QED BY <1>1, <1>2, <1>3, <1>7, <2>2
<1>8. CASE s.state = "closed"
  <2>1. t = [s EXCEPT !.age = Older(s.age, 1), !.ended = Older(s.ended, 1)]
    BY <1>3, <1>4, <1>8 DEF Session
  <2>2. t \in Session /\ t.state = "closed" /\ t.age = Older(s.age, 1) /\ t.ended = Older(s.ended, 1)
    BY <1>3, <1>5, <1>8, <2>1 DEF Session
  <2> QED BY <1>1, <1>2, <1>3, <1>8, <2>2
<1> QED BY <1>3, <1>6, <1>7, <1>8 DEF Session

LEMMA TickSweep ==
  ASSUME TypeOK, Tick, NEW h \in Handlers
  PROVE  /\ req[h].age = 0 /\ req'[h] \in Sweep
         /\ req'[h].age = IF req[h].busy THEN 1 ELSE 0
         /\ req'[h].busy = req[h].busy /\ req'[h].agent = req[h].agent /\ req'[h].net = req[h].net
         /\ req'[h].seen = req[h].seen /\ req'[h].active = req[h].active
         /\ req'[h].got = req[h].got /\ req'[h].broken = req[h].broken
<1>1. req[h] \in Sweep /\ req[h].age = 0 /\ 1 \in Ages
  <2>1. req[h] \in Sweep
    BY TypeFacts
  <2>2. req[h].age = 0
    BY DEF Tick
  <2> QED BY <2>1, <2>2
<1>2. CASE req[h].busy
  <2>1. req'[h] = [req[h] EXCEPT !.age = 1]
    BY <1>2 DEF Tick
  <2>2. req'[h] \in Sweep
    BY <1>1, <2>1 DEF Sweep
  <2>3. /\ req'[h].age = 1 /\ req'[h].busy = req[h].busy /\ req'[h].agent = req[h].agent
        /\ req'[h].net = req[h].net /\ req'[h].seen = req[h].seen
        /\ req'[h].active = req[h].active
        /\ req'[h].got = req[h].got /\ req'[h].broken = req[h].broken
    BY <1>1, <2>1 DEF Sweep
  <2> QED BY <1>1, <1>2, <2>2, <2>3
<1>3. CASE ~req[h].busy
  <2>1. req'[h] = req[h]
    BY <1>3 DEF Tick
  <2> QED BY <1>1, <1>3, <2>1
<1> QED BY <1>2, <1>3

LEMMA TickRow ==
  ASSUME TypeOK, Tick, NEW d \in Devices
  PROVE  /\ rows'[d] \in Row \cup {None} /\ (rows'[d] = None <=> rows[d] = None)
         /\ rows[d] # None => /\ rows'[d].net = rows[d].net /\ rows'[d].agent = rows[d].agent
                              /\ rows'[d].online = rows[d].online
<1>1. CASE rows[d] = None
  BY <1>1 DEF Tick
<1>2. CASE rows[d] # None
  <2>1. rows[d] \in Row
    BY <1>2, TypeFacts
  <2>2. rows'[d] = [rows[d] EXCEPT !.age = Older(rows[d].age, 1)]
    BY <1>2, <2>1 DEF Tick, Row
  <2>3. Older(rows[d].age, 1) \in Ages
    BY <2>1, OlderType DEF Row
  <2>4. /\ rows'[d] \in Row /\ rows'[d].net = rows[d].net /\ rows'[d].agent = rows[d].agent
        /\ rows'[d].online = rows[d].online
    BY <2>1, <2>2, <2>3 DEF Row
  <2> QED BY <1>2, <2>4, RowAssumption
<1> QED BY <1>1, <1>2

LEMMA TickType == ASSUME TypeInv, Tick PROVE TypeInv'
<1>1. rows' \in [Devices -> Row \cup {None}]
  <2>1. rows' = [d \in Devices |-> rows'[d]]
    BY DEF Tick
  <2> QED BY <2>1, TickRow DEF TypeInv
<1>2. sess' \in [Devices -> [Nets -> [Slots -> Session]]]
  <2>1. ASSUME NEW d \in Devices, NEW n \in Nets PROVE sess'[d][n] \in [Slots -> Session]
    <3>1. sess'[d][n] = [i \in Slots |-> sess'[d][n][i]]
      BY DEF Tick
    <3> QED BY <3>1, TickSession DEF TypeInv
  <2>2. sess' = [d \in Devices |-> [n \in Nets |-> sess'[d][n]]]
    BY DEF Tick
  <2> QED BY <2>1, <2>2
<1>3. req' \in [Handlers -> Sweep]
  <2>1. req' = [h \in Handlers |-> req'[h]]
    BY DEF Tick
  <2> QED BY <2>1, TickSweep DEF TypeInv
<1>4. ASSUME NEW h \in Handlers PROVE SweepOK(h)'
  BY TickSweep, TickRow DEF TypeInv, SweepOK
<1>5. ScanOK' /\ scan' \in Devices \cup {None} /\ joined' \in [Agents -> SUBSET Nets]
  BY TickRow DEF TypeInv, TypeOK, ScanOK, Tick
<1> QED BY <1>1, <1>2, <1>3, <1>4, <1>5 DEF TypeInv, TypeOK

LEMMA TypeStep == TypeInv /\ [Next]_vars => TypeInv'
<1> SUFFICES ASSUME TypeInv, [Next]_vars PROVE TypeInv'
  OBVIOUS
<1>1. CASE UNCHANGED vars
  BY <1>1 DEF vars, TypeInv, ScanOK, SweepOK, TypeOK
<1> QED BY <1>1, LoadType, StoreType, StoreFailsType, UpsertHostType, BeginScanType, ClearType,
           EndScanType, TickType, RoamType DEF Next

LEMMA TypeStart == Init => TypeInv
<1>1. NoSession \in Session
  BY DEF NoSession, Session
<1> QED BY <1>1, IdleType DEF Init, TypeInv, ScanOK, SweepOK, TypeOK

\* Every column of a row and a session, and every sweep, has its type (models.py,
\* observe_devices).
THEOREM TypeCorrect == Spec => []TypeOK
<1>1. TypeInv => TypeOK
  BY DEF TypeInv
<1> QED BY <1>1, TypeStart, TypeStep, PTL DEF Spec

\* Only the step that stores a sweep ends it without an error.
LEMMA StoredStores ==
  ASSUME TypeInv, [Next]_vars, NEW h \in Handlers, Stored(h)
  PROVE  Store(h)
<1>1. ASSUME NEW g \in Handlers, NEW a \in Agents \cup {None}, NEW n \in Nets,
             NEW seen \in SUBSET Devices, Load(g, a, n, seen)
      PROVE  req'[h].busy
  BY <1>1 DEF Stored, Load, TypeInv, TypeOK
<1>2. ASSUME NEW g \in Handlers, StoreFails(g) PROVE FALSE
  BY <1>2 DEF StoreFails, Stored, TypeInv, TypeOK
<1>3. ASSUME NEW g \in Handlers, Store(g) PROVE g = h
  <2> SUFFICES ASSUME g # h PROVE FALSE
    OBVIOUS
  <2>1. PICK R : R = [req EXCEPT ![g] = Idle]
    OBVIOUS
  <2>2. R \in [Handlers -> Sweep] /\ R[h] = req[h]
    BY <2>1, IdleType DEF TypeInv, TypeOK
  <2>3. req' = Break(R, Doubled(req[g]))
    BY <1>3, <2>1 DEF Store
  <2>4. req'[h].busy
    BY <2>2, <2>3, BreakType DEF Stored
  <2> QED BY <2>4 DEF Stored
<1>4. CASE ClearDevices
  <2>1. req \in [Handlers -> Sweep] /\ req' = Break(req, Devices)
    BY <1>4 DEF ClearDevices, TypeInv, TypeOK
  <2>2. req'[h].busy
    BY <2>1, BreakType DEF Stored
  <2> QED BY <2>2 DEF Stored
<1>5. CASE Tick
  <2>1. req'[h].busy
    BY <1>5, TickSweep DEF Stored, TypeInv
  <2> QED BY <2>1 DEF Stored
<1>6. ASSUME UNCHANGED req PROVE FALSE
  BY <1>6 DEF Stored
<1> QED BY <1>1, <1>2, <1>3, <1>4, <1>5, <1>6
        DEF Stored, Next, UpsertHost, BeginScan, EndScan, Roam, vars

\* "K agents on K subnets never delete each other's data" (observe_devices): a
\* device that is not reported, was refreshed lately, and is another agent's on
\* another subnet keeps its row and its sessions, however many sweeps overlap.
THEOREM Untouched == Spec => OthersUntouched
<1>1. TypeInv /\ [Next]_vars =>
        \A h \in Handlers : Stored(h) =>
          \A d \in Devices \ req[h].seen :
            /\ rows[d] # None /\ rows[d].age <= Stale
            /\ rows[d].net # req[h].net
            /\ req[h].agent = None \/ rows[d].agent # req[h].agent
            => rows'[d] = rows[d] /\ sess'[d] = sess[d]
  <2> SUFFICES ASSUME TypeInv, [Next]_vars, NEW h \in Handlers, Stored(h),
                      NEW d \in Devices \ req[h].seen,
                      rows[d] # None, rows[d].age <= Stale, rows[d].net # req[h].net,
                      req[h].agent = None \/ rows[d].agent # req[h].agent
               PROVE  rows'[d] = rows[d] /\ sess'[d] = sess[d]
    OBVIOUS
  <2>1. Store(h)
    BY StoredStores
  <2>2. PICK left : Stores(h, left)
    BY <2>1, StoreStores
  <2>3. d \notin Left(req[h], {}) /\ d \notin Pruned(req[h])
    BY DEF Left, Pruned
  <2>4. d \notin Aged(req[h])
    <3>1. req[h].age \in Nat /\ rows[d].age \in Nat
      BY TypeFacts DEF TypeInv, Sweep, Row
    <3> QED BY <3>1 DEF Aged
  <2>5. d \notin Off(req[h], left) /\ d \notin Doubled(req[h])
    BY <2>2, <2>3, <2>4 DEF Off, Doubled, Stores
  <2> QED BY <2>2, <2>5 DEF Stores
<1>2. Init => TypeInv
  BY TypeStart
<1> QED BY <1>1, <1>2, TypeStep, PTL DEF Spec, OthersUntouched

-----------------------------------------------------------------------------
(* What storing an observation does to the sessions of a device *)

\* The server stores one sweep at a time.
OneSweep == \A g, h \in Handlers : g = h

\* Sessions are in order once the only current one is the newest ...
LEMMA OneCurrentOrder ==
  ASSUME NEW S \in Sessions, NEW k \in Slots, Currents(S) = {k},
         \A j \in Used(S) : S[k].age <= S[j].age,
         \A i \in Slots : S[i].state = "closed" => S[i].ended = S[i].age
  PROVE  InOrder(S)
BY DEF InOrder

\* ... or when there is none.
LEMMA NoCurrentOrder ==
  ASSUME NEW S \in Sessions, Currents(S) = {},
         \A i \in Slots : S[i].state = "closed" => S[i].ended = S[i].age
  PROVE  InOrder(S)
BY DEF InOrder

\* Looking only at the session found latest misses no current one.
LEMMA LatestCurrent ==
  ASSUME NEW S \in Sessions, InOrder(S), NEW c \in Currents(S)
  PROVE  Latest(S) = c
<1> DEFINE newest == {i \in Used(S) : \A j \in Used(S) : S[i].age <= S[j].age}
           open == newest \cap Currents(S)
<1>1. c \in Slots /\ c \in Used(S)
  BY DEF Currents, Used
<1>2. c \in newest /\ open = {c}
  BY <1>1 DEF InOrder
<1>3. Latest(S) = Lowest(open)
  BY <1>2 DEF Latest
<1> HIDE DEF newest, open
<1>4. Lowest(open) \in open
  BY <1>1, <1>2, LowestIn
<1> QED BY <1>2, <1>3, <1>4

\* The decision a sweep takes stands when it is taken.
LEMMA DecisionStands ==
  ASSUME NEW S \in Sessions, InOrder(S), NEW row, NEW gap \in Ages, NEW a \in Nat,
         Latest(S) # 0 => S[Latest(S)].age = Older(gap, a)
  PROVE  Stands([row |-> row, slot |-> Latest(S), verdict |-> Verdict(S, gap), gap |-> gap], S, a)
<1>1. CASE Currents(S) = {}
  BY <1>1 DEF Stands, Verdict
<1>2. CASE Currents(S) # {}
  <2>1. Latest(S) \in Currents(S) /\ Latest(S) # 0
    BY <1>2, LatestCurrent DEF Currents
  <2> QED BY <2>1 DEF Stands, Verdict
<1> QED BY <1>1, <1>2

\* Closing sessions that exist keeps the order, and leaves none current when there was one.
LEMMA CloseOrder ==
  ASSUME NEW S \in Sessions, InOrder(S), NEW found \in SUBSET Used(S)
  PROVE  /\ InOrder(Close(S, found))
         /\ Currents(Close(S, found)) \subseteq Currents(S)
         /\ \A i \in Slots : Close(S, found)[i].age = S[i].age
         /\ found = Currents(S) => Currents(Close(S, found)) = {}
<1>1. CASE found = {}
  BY <1>1 DEF Close
<1>2. CASE found # {}
  <2>1. PICK i : i = Lowest(found)
    OBVIOUS
  <2>2. i \in Slots /\ i \in found /\ i \in Used(S)
    BY <1>2, <2>1, LowestIn DEF Used
  <2>3. PICK r : r = [S[i] EXCEPT !.state = "closed", !.ended = S[i].age]
    OBVIOUS
  <2>4. PICK T : T = Close(S, found)
    OBVIOUS
  <2>5. T = [S EXCEPT ![i] = r]
    BY <1>2, <2>1, <2>2, <2>3, <2>4 DEF Close, Sessions
  <2>6. r \in Session /\ r.state = "closed" /\ r.ended = S[i].age /\ r.age = S[i].age
    BY <2>2, <2>3 DEF Sessions, Session
  <2>7. T \in Sessions /\ T[i] = r /\ \A j \in Slots \ {i} : T[j] = S[j]
    BY <2>2, <2>5, <2>6 DEF Sessions
  <2>8. Currents(T) = Currents(S) \ {i} /\ Used(T) = Used(S) /\ \A j \in Slots : T[j].age = S[j].age
    BY <2>2, <2>6, <2>7 DEF Currents, Used
  <2>9. InOrder(T)
    <3>1. ASSUME NEW j \in Slots, T[j].state = "closed" PROVE T[j].ended = T[j].age
      BY <2>6, <2>7, <3>1 DEF InOrder
    <3>2. ASSUME NEW j \in Currents(T)
          PROVE  /\ \A k \in Currents(T) : j = k
                 /\ \A k \in Used(T) : T[j].age <= T[k].age
      <4>1. j \in Currents(S) /\ j \in Slots
        BY <2>8, <3>2 DEF Currents
      <4>2. \A k \in Used(S) : k \in Slots
        BY DEF Used
      <4> QED BY <2>8, <4>1, <4>2 DEF InOrder
    <3> QED BY <3>1, <3>2 DEF InOrder
  <2>10. found = Currents(S) => Currents(T) = {}
    BY <2>2, <2>8 DEF InOrder
  <2> QED BY <2>4, <2>8, <2>9, <2>10
<1> QED BY <1>1, <1>2

LEMMA EndedOrder ==
  ASSUME NEW S \in Sessions, InOrder(S), NEW l \in Loaded, NEW a \in Ages,
         l.slot \in Currents(S), S[l.slot].age = Older(l.gap, a)
  PROVE  LET T == Ended(S, l, a) IN
         /\ T \in Sessions /\ InOrder(T) /\ Currents(T) = {} /\ Used(T) = Used(S)
         /\ \A i \in Slots : T[i].age = S[i].age
         /\ T[l.slot].state = "closed"
<1>1. PICK i : i = l.slot
  OBVIOUS
<1>2. PICK r : r = [S[i] EXCEPT !.state = "closed", !.ended = Older(l.gap, a)]
  OBVIOUS
<1>3. PICK T : T = Ended(S, l, a)
  OBVIOUS
<1>4. i \in Slots /\ i \in Currents(S) /\ i \in Used(S)
  BY <1>1 DEF Currents, Used
<1>5. S[i] \in Session /\ Older(l.gap, a) \in Ages
  <2>1. l.gap \in Ages /\ a \in Nat
    BY DEF Loaded
  <2>2. Older(l.gap, a) \in Ages
    BY <2>1, OlderType
  <2> QED BY <1>4, <2>2 DEF Sessions
<1>6. r \in Session /\ r.state = "closed" /\ r.ended = S[i].age /\ r.age = S[i].age
  BY <1>1, <1>2, <1>5 DEF Session
<1>7. T = [S EXCEPT ![i] = r]
  BY <1>1, <1>2, <1>3, <1>4 DEF Ended, Sessions
<1>8. T \in Sessions /\ T[i] = r /\ \A j \in Slots \ {i} : T[j] = S[j]
  BY <1>4, <1>6, <1>7 DEF Sessions
<1>9. Currents(T) = {}
  BY <1>4, <1>6, <1>8 DEF Currents, InOrder
<1>10. Used(T) = Used(S) /\ \A j \in Slots : T[j].age = S[j].age
  BY <1>4, <1>6, <1>8 DEF Used
<1>11. \A j \in Slots : T[j].state = "closed" => T[j].ended = T[j].age
  BY <1>6, <1>8 DEF InOrder
<1>12. InOrder(T)
  BY <1>8, <1>9, <1>11, NoCurrentOrder
<1> QED BY <1>1, <1>3, <1>6, <1>8, <1>9, <1>10, <1>12

\* A session opened at an age no used slot is below.
LEMMA OpenedOrder ==
  ASSUME NEW S \in Sessions, InOrder(S), Currents(S) = {}, NEW held, NEW a \in Ages,
         Unused(S) \ held # {}, \A j \in Used(S) : a <= S[j].age
  PROVE  LET T == Opened(S, held, a)
             k == Lowest(Unused(S) \ held)
         IN /\ T \in Sessions /\ InOrder(T) /\ k \in Unused(S) \ held /\ k \in Slots
            /\ Currents(T) = {k} /\ Used(S) \subseteq Used(T)
            /\ T[k].age = a /\ \A i \in Slots \ {k} : T[i] = S[i]
<1>1. PICK k : k = Lowest(Unused(S) \ held)
  OBVIOUS
<1>2. PICK r : r = [state |-> "current", age |-> a, ended |-> 0]
  OBVIOUS
<1>3. PICK T : T = Opened(S, held, a)
  OBVIOUS
<1>4. k \in Unused(S) \ held /\ k \in Slots
  <2>1. Unused(S) \ held \in SUBSET Slots
    BY DEF Unused
  <2> QED BY <1>1, <2>1, LowestIn
<1>5. r \in Session /\ r.state = "current" /\ r.age = a
  BY <1>2 DEF Session
<1>6. T = [S EXCEPT ![k] = r]
  BY <1>1, <1>2, <1>3 DEF Opened
<1>7. T \in Sessions /\ T[k] = r /\ \A i \in Slots \ {k} : T[i] = S[i]
  BY <1>4, <1>5, <1>6 DEF Sessions
<1>8. Currents(T) = {k} /\ Used(T) = Used(S) \cup {k}
  BY <1>4, <1>5, <1>7 DEF Currents, Used
<1>9. \A j \in Used(T) : T[k].age <= T[j].age
  <2> SUFFICES ASSUME NEW j \in Used(T) PROVE T[k].age <= T[j].age
    OBVIOUS
  <2>1. CASE j = k
    BY <1>5, <1>7, <2>1
  <2>2. CASE j # k
    <3>1. j \in Used(S) /\ T[j] = S[j]
      BY <1>7, <1>8, <2>2 DEF Used
    <3> QED BY <1>5, <1>7, <3>1
  <2> QED BY <2>1, <2>2
<1>10. \A j \in Slots : T[j].state = "closed" => T[j].ended = T[j].age
  BY <1>5, <1>7 DEF InOrder
<1>11. InOrder(T)
  BY <1>4, <1>7, <1>8, <1>9, <1>10, OneCurrentOrder
<1> QED BY <1>1, <1>3, <1>4, <1>5, <1>7, <1>8, <1>11

\* The sessions of a device after an observation at age a, made by a sweep that is
\* alone: in order, and nothing current is carried over a gap.
LEMMA RecordedOrder ==
  ASSUME NEW S \in Sessions, InOrder(S), NEW l \in Loaded, NEW a \in Ages, Stands(l, S, a),
         \A j \in Used(S) : a <= S[j].age,
         l.verdict = "new" => Unused(S) # {}
  PROVE  LET T == Recorded(S, l, {}, a) IN
         /\ T \in Sessions /\ InOrder(T) /\ Used(S) \subseteq Used(T)
         /\ MaxSlots >= 2 =>
              \A i \in Currents(S) : i \in Currents(T) /\ T[i].age < S[i].age => S[i].age <= Gap + a
<1>1. CASE l.verdict = "new"
  <2>1. Currents(S) = {} /\ Recorded(S, l, {}, a) = Opened(S, {}, a)
    BY <1>1 DEF Stands, Recorded
  <2>2. Unused(S) \ {} # {}
    BY <1>1
  <2>3. LET T == Opened(S, {}, a) IN T \in Sessions /\ InOrder(T) /\ Used(S) \subseteq Used(T)
    BY <2>1, <2>2, OpenedOrder
  <2> QED BY <2>1, <2>3
<1>2. CASE l.verdict = "extend"
  <2>1. PICK i : i = l.slot
    OBVIOUS
  <2>2. i \in Currents(S) /\ i \in Slots /\ S[i].age = Older(l.gap, a) /\ l.gap <= Gap
    BY <1>2, <2>1 DEF Stands, Currents
  <2>3. PICK r : r = [S[i] EXCEPT !.age = a]
    OBVIOUS
  <2>4. PICK T : T = Recorded(S, l, {}, a)
    OBVIOUS
  <2>5. T = [S EXCEPT ![i] = r]
    BY <1>2, <2>1, <2>2, <2>3, <2>4 DEF Recorded, Sessions
  <2>6. r \in Session /\ r.state = "current" /\ r.age = a
    BY <2>2, <2>3 DEF Sessions, Session, Currents
  <2>7. T \in Sessions /\ T[i] = r /\ \A j \in Slots \ {i} : T[j] = S[j]
    BY <2>2, <2>5, <2>6 DEF Sessions
  <2>8. Currents(T) = {i} /\ Used(T) = Used(S)
    BY <2>2, <2>6, <2>7 DEF Currents, Used, InOrder
  <2>9. ASSUME NEW j \in Used(T) PROVE T[i].age <= T[j].age
    <3>1. j \in Used(S) /\ j \in Slots
      BY <2>8, <2>9 DEF Used
    <3> QED BY <2>6, <2>7, <3>1
  <2>10. \A j \in Slots : T[j].state = "closed" => T[j].ended = T[j].age
    BY <2>6, <2>7 DEF InOrder
  <2>11. InOrder(T)
    BY <2>2, <2>7, <2>8, <2>9, <2>10, OneCurrentOrder
  <2>12. \A j \in Currents(S) : j \in Currents(T) => S[j].age <= Gap + a
    BY <2>2, <2>8 DEF Older, Loaded
  <2> QED BY <2>4, <2>7, <2>8, <2>11, <2>12
<1>3. CASE l.verdict = "renew"
  <2>1. l.slot \in Currents(S) /\ l.slot \in Slots /\ S[l.slot].age = Older(l.gap, a)
    BY <1>3 DEF Stands, Currents
  <2>2. PICK E : E = Ended(S, l, a)
    OBVIOUS
  <2>3. /\ E \in Sessions /\ InOrder(E) /\ Currents(E) = {} /\ Used(E) = Used(S)
        /\ \A i \in Slots : E[i].age = S[i].age
        /\ E[l.slot].state = "closed"
    BY <2>1, <2>2, EndedOrder
  <2>4. PICK held : held = {} \cup Kept(S, l, {})
    OBVIOUS
  <2>5. \A j \in Slots \ {l.slot} : E[j] = S[j]
    BY <2>2 DEF Ended, Sessions
  <2>6. Unused(E) \ held # {}
    <3>1. CASE \E j \in Slots : S[j].state = "none"
      <4>1. PICK j \in Slots : S[j].state = "none"
        BY <3>1
      <4>2. j # l.slot /\ E[j].state = "none"
        BY <2>1, <2>5, <4>1 DEF Currents
      <4> QED BY <2>4, <4>2 DEF Unused, Kept
    <3>2. CASE ~\E j \in Slots : S[j].state = "none"
      <4>1. \A j \in Slots : E[j].state # "none"
        BY <2>3, <2>5, <3>2
      <4>2. Unused(E) = {j \in Slots : E[j].state = "closed"} /\ Unused(S) = {j \in Slots : S[j].state = "closed"}
        BY <3>2, <4>1 DEF Unused
      <4>3. l.slot \in Unused(E)
        BY <2>1, <2>3, <4>2
      <4>4. \A j \in Unused(S) : j # l.slot => j \in Unused(E)
        BY <2>5, <4>2
      <4> QED BY <2>4, <4>3, <4>4 DEF Kept
    <3> QED BY <3>1, <3>2
  <2>7. PICK T : T = Recorded(S, l, {}, a)
    OBVIOUS
  <2>8. PICK k : k = Lowest(Unused(E) \ held)
    OBVIOUS
  <2>9. T = Opened(E, held, a)
    BY <1>3, <2>2, <2>4, <2>7 DEF Recorded
  <2>10. \A j \in Used(E) : a <= E[j].age
    BY <2>3 DEF Used
  <2>11. /\ T \in Sessions /\ InOrder(T) /\ k \in Unused(E) \ held /\ k \in Slots
         /\ Currents(T) = {k} /\ Used(E) \subseteq Used(T)
    BY <2>3, <2>6, <2>8, <2>9, <2>10, OpenedOrder
  <2>12. ASSUME MaxSlots >= 2, k \in Currents(S) PROVE FALSE
    <3>1. k = l.slot
      BY <2>1, <2>12 DEF InOrder
    <3>2. Kept(S, l, {}) = {}
      BY <2>4, <2>11, <3>1 DEF Kept
    <3>3. Unused(S) = {}
      BY <2>1, <3>2 DEF Kept, Unused, Currents
    <3>4. \A j \in Slots : S[j].state = "current"
      BY <3>3 DEF Unused, Sessions, Session
    <3>5. 1 \in Slots /\ 2 \in Slots
      BY <2>12
    <3> QED BY <3>4, <3>5 DEF InOrder, Currents
  <2> QED BY <2>3, <2>7, <2>11, <2>12
<1> QED BY <1>1, <1>2, <1>3 DEF Loaded

-----------------------------------------------------------------------------
(* Sweeps that are stored one at a time *)

AloneInv == SessionsInOrder /\ SweepStands

\* What a sweep stores of a device, loaded before or read now, stands.
LEMMA GotStands ==
  ASSUME TypeInv, AloneInv, NEW h \in Handlers, req[h].busy, ~req[h].broken, NEW d \in req[h].seen
  PROVE  Stands(Got(req[h], d), sess[d][req[h].net], req[h].age)
<1>1. d \in Devices /\ req[h].net \in Nets /\ req[h].age \in 0..1
  <2>1. req[h] \in Sweep
    BY TypeFacts DEF TypeInv
  <2> QED BY <2>1 DEF Sweep, TypeInv, SweepOK, AloneInv, SweepStands
<1>2. CASE req[h].got[d].row # None
  BY <1>1, <1>2 DEF Got, AloneInv, SweepStands
<1>3. CASE req[h].got[d].row = None
  <2>1. PICK S : S = sess[d][req[h].net]
    OBVIOUS
  <2>2. PICK a : a = req[h].age
    OBVIOUS
  <2>3. PICK age : age = IF Latest(S) = 0 THEN 0 ELSE S[Latest(S)].age
    OBVIOUS
  <2>4. PICK gap : gap = IF age > a THEN age - a ELSE 0
    OBVIOUS
  <2>5. S \in Sessions /\ InOrder(S) /\ \A i \in Used(S) : a <= S[i].age
    BY <1>1, <2>1, <2>2, TypeFacts DEF TypeInv, AloneInv, SessionsInOrder, SweepStands
  <2>6. age \in Ages /\ a \in 0..1
    BY <1>1, <2>2, <2>3, <2>5, LatestAge
  <2>7. gap \in Ages
    BY <2>4, <2>6
  <2>8. Latest(S) # 0 => S[Latest(S)].age = Older(gap, a)
    <3> SUFFICES ASSUME Latest(S) # 0 PROVE S[Latest(S)].age = Older(gap, a)
      OBVIOUS
    <3>1. Latest(S) \in Used(S)
      BY <2>5, LatestUsed
    <3>2. a <= age
      BY <2>3, <2>5, <3>1
    <3> QED BY <2>3, <2>4, <2>6, <3>2 DEF Older
  <2>9. Stands([row |-> rows[d], slot |-> Latest(S), verdict |-> Verdict(S, gap), gap |-> gap], S, a)
    BY <2>5, <2>6, <2>7, <2>8, DecisionStands
  <2>10. Got(req[h], d) = [row |-> rows[d], slot |-> Latest(S), verdict |-> Verdict(S, gap), gap |-> gap]
    BY <1>3, <2>1, <2>2, <2>3, <2>4 DEF Got
  <2> QED BY <2>1, <2>2, <2>9, <2>10
<1> QED BY <1>2, <1>3

\* So the sessions of the devices it has seen stay in order, and none is carried over a gap.
LEMMA SeenOrder ==
  ASSUME TypeInv, AloneInv, OneSweep, NEW h \in Handlers, Store(h), NEW d \in req[h].seen,
         NEW left, NEW n \in Nets
  PROVE  /\ InOrder(SeenSessions(h, d, left)[n])
         /\ MaxSlots >= 2 =>
              \A i \in Currents(sess[d][n]) :
                 /\ i \in Currents(SeenSessions(h, d, left)[n])
                 /\ SeenSessions(h, d, left)[n][i].age < sess[d][n][i].age
                 => sess[d][n][i].age <= Gap + req[h].age
<1>1. /\ d \in Devices /\ req[h].net \in Nets /\ req[h].busy /\ ~req[h].broken
      /\ req[h].age \in Ages /\ Got(req[h], d) \in Loaded
  <2>1. req[h] \in Sweep /\ req[h].busy /\ ~req[h].broken
    BY TypeFacts DEF TypeInv, Store
  <2> QED BY <2>1, GotType DEF Sweep, TypeInv, SweepOK
<1>2. Held(h, d, req[h].net) = {}
  BY DEF Held, OneSweep
<1>3. PICK S : S = sess[d][req[h].net]
  OBVIOUS
<1>4. PICK l : l = Got(req[h], d)
  OBVIOUS
<1>5. PICK a : a = req[h].age
  OBVIOUS
<1>6. PICK T : T = Recorded(S, l, {}, a)
  OBVIOUS
<1>7. S \in Sessions /\ InOrder(S) /\ \A i \in Used(S) : a <= S[i].age
  BY <1>1, <1>3, <1>5, TypeFacts DEF TypeInv, AloneInv, SessionsInOrder, SweepStands
<1>8. l \in Loaded /\ a \in Ages /\ Stands(l, S, a) /\ (l.verdict = "new" => Unused(S) # {})
  <2>1. Got(req[h], d).verdict = "new" => Unused(sess[d][req[h].net]) \ Held(h, d, req[h].net) # {}
    BY DEF Store
  <2> QED BY <1>1, <1>2, <1>3, <1>4, <1>5, <2>1, GotStands
<1>9. /\ T \in Sessions /\ InOrder(T) /\ Used(S) \subseteq Used(T)
      /\ MaxSlots >= 2 =>
           \A i \in Currents(S) : i \in Currents(T) /\ T[i].age < S[i].age => S[i].age <= Gap + a
  BY <1>6, <1>7, <1>8, RecordedOrder
<1>10. Currents(S) \in SUBSET Used(T)
  BY <1>9 DEF Currents, Used
<1>11. PICK C : C = Close(T, Currents(S))
  OBVIOUS
<1>12. InOrder(C) /\ Currents(C) \subseteq Currents(T) /\ \A i \in Slots : C[i].age = T[i].age
  BY <1>9, <1>10, <1>11, CloseOrder
<1>13. CASE n = req[h].net
  <2>1. SeenSessions(h, d, left)[n] \in {T, C}
    <3>1. sess[d] \in [Nets -> Sessions]
      BY <1>1, TypeFacts DEF TypeInv
    <3> QED BY <1>1, <1>2, <1>3, <1>4, <1>5, <1>6, <1>11, <1>13, <3>1 DEF SeenSessions
  <2>2. \A i \in Currents(S) : i \in Slots
    BY DEF Currents
  <2> QED BY <1>3, <1>5, <1>9, <1>12, <1>13, <2>1, <2>2
<1>14. CASE n # req[h].net
  <2>1. sess[d] \in [Nets -> Sessions]
    BY <1>1, TypeFacts DEF TypeInv
  <2>2. SeenSessions(h, d, left)[n] = sess[d][n]
    BY <1>1, <1>14, <2>1 DEF SeenSessions
  <2>3. InOrder(sess[d][n]) /\ \A i \in Currents(sess[d][n]) : sess[d][n][i].age \in Nat
    BY <1>1, TypeFacts DEF TypeInv, AloneInv, SessionsInOrder, Currents, Sessions, Session
  <2> QED BY <2>2, <2>3
<1> QED BY <1>13, <1>14

\* Every device keeps its sessions in order when a sweep is stored.
LEMMA StoreOrder ==
  ASSUME TypeInv, AloneInv, OneSweep, NEW h \in Handlers, Store(h)
  PROVE  /\ AloneInv'
         /\ MaxSlots >= 2 => \A d \in Devices, n \in Nets : \A i \in Currents(sess[d][n]) :
              i \in Currents(sess'[d][n]) /\ sess'[d][n][i].age < sess[d][n][i].age
                => sess[d][n][i].age <= Gap + req[h].age
<1>1. PICK left : Stores(h, left)
  BY StoreStores
<1>2. ASSUME NEW d \in Devices, NEW n \in Nets
      PROVE  /\ InOrder(sess[d][n]) /\ sess[d] \in [Nets -> Sessions]
             /\ \A i \in Currents(sess[d][n]) : sess[d][n][i].age \in Nat /\ i \in Slots
  BY TypeFacts DEF TypeInv, AloneInv, SessionsInOrder, Currents, Sessions, Session
<1>3. ASSUME NEW d \in Devices, NEW n \in Nets
      PROVE  /\ InOrder(ClosedSessions(d)[n])
             /\ \A i \in Slots : ClosedSessions(d)[n][i].age = sess[d][n][i].age
  <2>1. PICK C : C = Close(sess[d][n], Currents(sess[d][n]))
    OBVIOUS
  <2>2. Currents(sess[d][n]) \in SUBSET Used(sess[d][n])
    BY DEF Currents, Used
  <2>3. InOrder(C) /\ \A i \in Slots : C[i].age = sess[d][n][i].age
    BY <1>2, <2>1, <2>2, CloseOrder
  <2>4. ClosedSessions(d)[n] \in {C, sess[d][n]}
    BY <1>2, <2>1 DEF ClosedSessions
  <2> QED BY <1>2, <2>3, <2>4
<1>4. ASSUME NEW d \in Devices
      PROVE  \/ d \in req[h].seen /\ sess'[d] = SeenSessions(h, d, left)
             \/ sess'[d] = ClosedSessions(d)
             \/ sess'[d] = sess[d]
  BY <1>1 DEF Stores
<1>5. ASSUME NEW d \in Devices, NEW n \in Nets
      PROVE  /\ InOrder(sess'[d][n])
             /\ MaxSlots >= 2 => \A i \in Currents(sess[d][n]) :
                  i \in Currents(sess'[d][n]) /\ sess'[d][n][i].age < sess[d][n][i].age
                    => sess[d][n][i].age <= Gap + req[h].age
  <2>1. CASE d \in req[h].seen /\ sess'[d] = SeenSessions(h, d, left)
    BY <2>1, SeenOrder
  <2>2. CASE sess'[d] = ClosedSessions(d) \/ sess'[d] = sess[d]
    BY <1>2, <1>3, <2>2
  <2> QED BY <1>4, <2>1, <2>2
<1>6. \A g \in Handlers : ~req'[g].busy
  <2>1. PICK R : R = [req EXCEPT ![h] = Idle]
    OBVIOUS
  <2>2. R \in [Handlers -> Sweep] /\ req' = Break(R, Doubled(req[h]))
    BY <1>1, <2>1, IdleType DEF Stores, TypeInv, TypeOK
  <2>3. \A g \in Handlers : ~R[g].busy
    BY <2>1, IdleType DEF OneSweep, TypeInv, TypeOK
  <2> QED BY <2>2, <2>3, BreakType
<1> QED BY <1>5, <1>6 DEF AloneInv, SessionsInOrder, SweepStands

LEMMA LoadAlone ==
  ASSUME TypeInv, AloneInv, OneSweep, NEW h \in Handlers, NEW a \in Agents \cup {None}, NEW n \in Nets,
         NEW seen \in SUBSET Devices, Load(h, a, n, seen)
  PROVE  AloneInv'
<1>1. PICK r : r = [busy |-> TRUE, agent |-> a, net |-> n, seen |-> seen,
                    active |-> IF a = None THEN {} ELSE joined[a], age |-> 0,
                    got |-> [d \in Devices |-> IF d \in seen THEN Read(d, n) ELSE Unread],
                    broken |-> FALSE]
  OBVIOUS
<1>2. req' = [req EXCEPT ![h] = r] /\ UNCHANGED <<rows, sess, joined, scan>>
  BY <1>1 DEF Load
<1>3. \A g \in Handlers : req'[g] = r
  BY <1>2 DEF OneSweep, TypeInv, TypeOK
<1>4. ASSUME NEW d \in seen, Read(d, n).row # None
      PROVE  Stands(Read(d, n), sess[d][n], 0) /\ RowStands(Read(d, n).row, rows[d])
  <2>1. PICK S : S = sess[d][n]
    OBVIOUS
  <2>2. PICK gap : gap = IF Latest(S) = 0 THEN 0 ELSE S[Latest(S)].age
    OBVIOUS
  <2>3. S \in Sessions /\ InOrder(S)
    BY <2>1, TypeFacts DEF TypeInv, AloneInv, SessionsInOrder
  <2>4. gap \in Ages
    BY <2>2, <2>3, LatestAge
  <2>5. Older(gap, 0) = gap
    BY <2>4 DEF Older
  <2>6. Stands([row |-> rows[d], slot |-> Latest(S), verdict |-> Verdict(S, gap), gap |-> gap], S, 0)
    BY <2>2, <2>3, <2>4, <2>5, DecisionStands
  <2>7. Read(d, n) = [row |-> rows[d], slot |-> Latest(S), verdict |-> Verdict(S, gap), gap |-> gap]
    BY <1>4, <2>1, <2>2 DEF Read, Unread
  <2> QED BY <1>4, <2>1, <2>6, <2>7 DEF RowStands
<1>5. \A d \in Devices, m \in Nets : \A i \in Used(sess[d][m]) : 0 <= sess[d][m][i].age
  BY TypeFacts DEF TypeInv, Used, Sessions, Session
<1>6. /\ r.age = 0 /\ r.net = n /\ ~r.broken /\ r.seen = seen
      /\ \A d \in seen : r.got[d] = Read(d, n)
  BY <1>1
<1>7. SweepStands'
  BY <1>2, <1>3, <1>4, <1>5, <1>6 DEF SweepStands
<1> QED BY <1>2, <1>7 DEF AloneInv, SessionsInOrder

LEMMA ClearAlone ==
  ASSUME TypeInv, AloneInv, ClearDevices
  PROVE  AloneInv'
<1>1. req \in [Handlers -> Sweep] /\ req' = Break(req, Devices)
  BY DEF TypeInv, TypeOK, ClearDevices
<1>2. ASSUME NEW g \in Handlers
      PROVE  /\ req'[g].busy = req[g].busy /\ req'[g].net = req[g].net /\ req'[g].got = req[g].got
             /\ req'[g].age = req[g].age /\ req'[g].seen = req[g].seen
             /\ ~req'[g].broken => \A d \in Devices : req[g].got[d].row = None
  BY <1>1, BreakType
<1>3. \A d \in Devices, n \in Nets : Used(sess'[d][n]) = {} /\ Currents(sess'[d][n]) = {}
                                       /\ \A i \in Slots : sess'[d][n][i].state = "none"
  BY DEF ClearDevices, Used, Currents, NoSession
<1>4. SessionsInOrder'
  BY <1>3 DEF SessionsInOrder, InOrder
<1>5. \A g \in Handlers : req[g].seen \subseteq Devices
  BY TypeFacts DEF TypeInv, Sweep
<1>6. SweepStands'
  BY <1>2, <1>3, <1>5 DEF AloneInv, SweepStands
<1> QED BY <1>4, <1>6 DEF AloneInv

\* A writer of the rows that leaves subnet and agent alone, and takes none offline.
LEMMA RowsAlone ==
  ASSUME TypeInv, AloneInv, UNCHANGED <<sess, req>>,
         \A d \in Devices : rows[d] # None =>
            /\ rows'[d] # None /\ rows'[d].net = rows[d].net /\ rows'[d].agent = rows[d].agent
            /\ rows[d].online => rows'[d].online
  PROVE  AloneInv'
<1>1. \A g \in Handlers : req[g].seen \subseteq Devices
  BY TypeFacts DEF TypeInv, Sweep
<1>2. SweepStands'
  BY <1>1 DEF AloneInv, SweepStands, RowStands
<1> QED BY <1>2 DEF AloneInv, SessionsInOrder

LEMMA UpsertHostAlone ==
  ASSUME TypeInv, NEW e \in Devices, UpsertHost(e)
  PROVE  /\ UNCHANGED <<sess, req, joined>>
         /\ \A d \in Devices \ {e} : rows'[d] = rows[d]
         /\ rows'[e] # None /\ rows'[e].online
         /\ rows[e] # None => rows'[e].net = rows[e].net /\ rows'[e].agent = rows[e].agent
         /\ rows[e] = None => rows'[e].net = None /\ rows'[e].agent = None
<1>1. PICK r : r = IF rows[e] = None
                     THEN [net |-> None, agent |-> None, online |-> TRUE, age |-> 0]
                     ELSE [rows[e] EXCEPT !.online = TRUE, !.age = 0]
  OBVIOUS
<1>2. rows[e] \in Row \cup {None} /\ 0 \in Ages
  BY TypeFacts DEF TypeInv
<1>3. /\ r \in Row /\ r.online
      /\ rows[e] # None => r.net = rows[e].net /\ r.agent = rows[e].agent
      /\ rows[e] = None => r.net = None /\ r.agent = None
  BY <1>1, <1>2 DEF Row
<1>4. rows'[e] = r /\ (\A d \in Devices \ {e} : rows'[d] = rows[d]) /\ UNCHANGED <<sess, req, joined>>
  BY <1>1 DEF UpsertHost, TypeInv, TypeOK
<1> QED BY <1>3, <1>4, RowAssumption

LEMMA EndScanAlone ==
  ASSUME TypeInv, EndScan
  PROVE  /\ UNCHANGED <<sess, req, joined>>
         /\ \A d \in Devices : rows[d] # None =>
              /\ rows'[d] # None /\ rows'[d].net = rows[d].net /\ rows'[d].agent = rows[d].agent
              /\ rows'[d].online = rows[d].online
         /\ \A d \in Devices : rows[d] = None => rows'[d] = None
<1>1. scan \in Devices /\ rows[scan] \in Row /\ 0 \in Ages
  BY TypeFacts DEF EndScan, TypeInv, ScanOK, TypeOK
<1>2. PICK r : r = [rows[scan] EXCEPT !.age = 0]
  OBVIOUS
<1>3. /\ r \in Row /\ r.net = rows[scan].net /\ r.agent = rows[scan].agent
      /\ r.online = rows[scan].online
  BY <1>1, <1>2 DEF Row
<1>4. /\ UNCHANGED <<sess, req, joined>> /\ rows'[scan] = r
      /\ \A d \in Devices \ {scan} : rows'[d] = rows[d]
  BY <1>1, <1>2 DEF EndScan, TypeInv, TypeOK
<1> QED BY <1>1, <1>3, <1>4, RowAssumption

LEMMA TickAlone ==
  ASSUME TypeInv, AloneInv, Tick
  PROVE  AloneInv'
<1>1. ASSUME NEW d \in Devices, NEW n \in Nets
      PROVE  /\ Used(sess'[d][n]) = Used(sess[d][n]) /\ Currents(sess'[d][n]) = Currents(sess[d][n])
             /\ \A i \in Used(sess[d][n]) : /\ i \in Slots /\ sess[d][n][i].age \in Ages
                                           /\ sess'[d][n][i].age = Older(sess[d][n][i].age, 1)
  <2>1. \A i \in Slots : sess'[d][n][i].state = sess[d][n][i].state
    BY <1>1, TickSession DEF TypeInv
  <2>2. ASSUME NEW i \in Slots, sess[d][n][i].state # "none"
        PROVE  sess[d][n][i].age \in Ages /\ sess'[d][n][i].age = Older(sess[d][n][i].age, 1)
    BY <1>1, <2>2, TickSession DEF TypeInv, Session
  <2> QED BY <2>1, <2>2 DEF Used, Currents
<1>2. \A x, y \in Ages : x <= y => Older(x, 1) <= Older(y, 1)
  BY DEF Older
<1>3. \A x \in Ages : 1 <= Older(x, 1)
  BY DEF Older
<1>4. ASSUME NEW d \in Devices, NEW n \in Nets PROVE InOrder(sess'[d][n])
  <2>1. InOrder(sess[d][n])
    BY DEF AloneInv, SessionsInOrder
  <2>2. ASSUME NEW i \in Currents(sess'[d][n])
        PROVE  /\ \A j \in Currents(sess'[d][n]) : i = j
               /\ \A j \in Used(sess'[d][n]) : sess'[d][n][i].age <= sess'[d][n][j].age
    <3>1. i \in Currents(sess[d][n]) /\ i \in Used(sess[d][n])
      BY <1>1, <2>2 DEF Currents, Used
    <3>2. \A j \in Used(sess[d][n]) : sess[d][n][i].age <= sess[d][n][j].age
      BY <2>1, <3>1 DEF InOrder
    <3>3. \A j \in Currents(sess[d][n]) : i = j
      BY <2>1, <3>1 DEF InOrder
    <3> QED BY <1>1, <1>2, <3>1, <3>2, <3>3
  <2>3. ASSUME NEW i \in Slots, sess'[d][n][i].state = "closed"
        PROVE  sess'[d][n][i].ended = sess'[d][n][i].age
    <3>1. /\ sess[d][n][i].state = "closed"
          /\ sess'[d][n][i].age = Older(sess[d][n][i].age, 1)
          /\ sess'[d][n][i].ended = Older(sess[d][n][i].ended, 1)
      BY <2>3, TickSession DEF TypeInv
    <3> QED BY <2>1, <3>1 DEF InOrder
  <2> QED BY <2>2, <2>3 DEF InOrder
<1>5. ASSUME NEW h \in Handlers, req'[h].busy
      PROVE  /\ req'[h].age = 1 /\ req[h].busy /\ req[h].age = 0 /\ req'[h].net = req[h].net
             /\ req[h].net \in Nets /\ req[h].seen \subseteq Devices
             /\ req'[h].seen = req[h].seen /\ req'[h].got = req[h].got /\ req'[h].broken = req[h].broken
             /\ \A d \in Devices : req[h].got[d] \in Loaded
  <2>1. req[h] \in Sweep
    BY TypeFacts DEF TypeInv
  <2> QED BY <1>5, <2>1, TickSweep, TypeFacts DEF TypeInv, SweepOK, Sweep
<1>6. ASSUME NEW h \in Handlers, req'[h].busy, ~req'[h].broken, NEW d \in req[h].seen,
             req[h].got[d].row # None
      PROVE  /\ Stands(req[h].got[d], sess'[d][req[h].net], 1)
             /\ RowStands(req[h].got[d].row, rows'[d])
  <2>1. /\ Stands(req[h].got[d], sess[d][req[h].net], 0)
        /\ RowStands(req[h].got[d].row, rows[d])
    BY <1>5, <1>6 DEF AloneInv, SweepStands
  <2>2. PICK l : l = req[h].got[d]
    OBVIOUS
  <2>3. PICK n : n = req[h].net
    OBVIOUS
  <2>4. d \in Devices /\ n \in Nets /\ l.gap \in Ages
    BY <1>5, <1>6, <2>2, <2>3 DEF Loaded
  <2>5. RowStands(req[h].got[d].row, rows'[d])
    BY <2>1, <2>4, TickRow DEF RowStands, TypeInv
  <2>6. CASE l.verdict = "new"
    BY <1>1, <2>1, <2>2, <2>3, <2>4, <2>5, <2>6 DEF Stands
  <2>7. CASE l.verdict # "new"
    <3>1. /\ l.slot \in Currents(sess[d][n]) /\ l.slot \in Used(sess[d][n])
          /\ sess[d][n][l.slot].age = Older(l.gap, 0)
          /\ l.verdict = "extend" => l.gap <= Gap
      BY <2>1, <2>2, <2>3, <2>7 DEF Stands, Currents, Used
    <3>2. Older(l.gap, 0) = l.gap
      BY <2>4 DEF Older
    <3>3. l.slot \in Currents(sess'[d][n]) /\ sess'[d][n][l.slot].age = Older(l.gap, 1)
      BY <1>1, <2>4, <3>1, <3>2
    <3> QED BY <2>2, <2>3, <2>5, <2>7, <3>1, <3>3 DEF Stands
  <2> QED BY <2>6, <2>7
<1>7. ASSUME NEW h \in Handlers, req'[h].busy, NEW d \in Devices, NEW n \in Nets,
             NEW i \in Used(sess'[d][n])
      PROVE  1 <= sess'[d][n][i].age
  BY <1>1, <1>3
<1>8. SweepStands'
  BY <1>5, <1>6, <1>7 DEF SweepStands
<1> QED BY <1>4, <1>8 DEF AloneInv, SessionsInOrder

LEMMA AloneStep ==
  ASSUME OneSweep
  PROVE  TypeInv /\ AloneInv /\ [Next]_vars => AloneInv'
<1> SUFFICES ASSUME TypeInv, AloneInv, [Next]_vars PROVE AloneInv'
  OBVIOUS
<1>1. ASSUME NEW h \in Handlers, StoreFails(h) PROVE AloneInv'
  <2>1. \A g \in Handlers : ~req'[g].busy
    BY <1>1, IdleType DEF StoreFails, OneSweep, TypeInv, TypeOK
  <2> QED BY <1>1, <2>1 DEF StoreFails, AloneInv, SessionsInOrder, SweepStands
<1>2. ASSUME NEW d \in Devices, UpsertHost(d) PROVE AloneInv'
  BY <1>2, UpsertHostAlone, RowsAlone
<1>3. CASE EndScan
  BY <1>3, EndScanAlone, RowsAlone
<1>4. ASSUME UNCHANGED <<rows, sess, req>> PROVE AloneInv'
  BY <1>4, RowsAlone
<1>5. ASSUME NEW h \in Handlers, Store(h) PROVE AloneInv'
  BY <1>5, StoreOrder
<1> QED BY <1>1, <1>2, <1>3, <1>4, <1>5, LoadAlone, ClearAlone, TickAlone
        DEF Next, BeginScan, Roam, vars

LEMMA AloneStart == Init => AloneInv
<1> SUFFICES ASSUME Init PROVE AloneInv
  OBVIOUS
<1>1. \A d \in Devices, n \in Nets : \A i \in Slots : sess[d][n][i].state = "none"
  BY DEF Init, NoSession
<1>2. \A h \in Handlers : ~req[h].busy
  BY IdleType DEF Init
<1> QED BY <1>1, <1>2 DEF AloneInv, SessionsInOrder, InOrder, SweepStands, Currents

\* "Maintains append/update-safe presence sessions" (_record_device_observation):
\* as long as sweeps do not overlap a device has one current session in a subnet.
LEMMA OneCurrentSession ==
    ASSUME OneSweep
    PROVE  Spec => []OneCurrent
<1>1. AloneInv => OneCurrent
  <2> SUFFICES ASSUME AloneInv, NEW d \in Devices, NEW n \in Nets
               PROVE  Cardinality(Currents(sess[d][n])) <= 1
    BY DEF OneCurrent
  <2>1. \A i, j \in Currents(sess[d][n]) : i = j
    BY DEF AloneInv, SessionsInOrder, InOrder
  <2>2. CASE Currents(sess[d][n]) = {}
    BY <2>2, FS_EmptySet
  <2>3. CASE Currents(sess[d][n]) # {}
    <3>1. PICK i : Currents(sess[d][n]) = {i}
      BY <2>1, <2>3
    <3>2. Cardinality({i}) = 1
      BY FS_Singleton
    <3> QED BY <3>1, <3>2
  <2> QED BY <2>2, <2>3
<1> QED BY <1>1, TypeStart, AloneStart, TypeStep, AloneStep, PTL DEF Spec

\* "Close active session at the last confirmed observation time"
\* (_close_device_session): so it ends, and so it stays.
LEMMA ClosedWhenLastSeen ==
    ASSUME OneSweep
    PROVE  Spec => []ClosedAtLastSeen
<1>1. AloneInv => ClosedAtLastSeen
  BY DEF AloneInv, SessionsInOrder, InOrder, ClosedAtLastSeen
<1> QED BY <1>1, TypeStart, AloneStart, TypeStep, AloneStep, PTL DEF Spec

\* As long as sweeps do not overlap the sessions of a device in a subnet say when it
\* was there: one is running at most, the others end where it was last seen.
THEOREM SessionsAreSound ==
    ASSUME OneSweep
    PROVE  Spec => []SessionsSound
<1>1. OneCurrent /\ ClosedAtLastSeen => SessionsSound
  BY DEF SessionsSound
<1> QED BY <1>1, OneCurrentSession, ClosedWhenLastSeen, PTL

\* "consecutive hits arrive within MAX_OBSERVATION_GAP": no session is carried over
\* a longer silence. (With one slot a session that is opened would be taken for the
\* one it follows, hence two of them.)
THEOREM NotCarriedOver ==
    ASSUME OneSweep, MaxSlots >= 2
    PROVE  Spec => Unbroken
<1>1. TypeInv /\ AloneInv /\ [Next]_vars =>
        \A h \in Handlers : Stored(h) =>
          \A d \in Devices, n \in Nets, i \in Slots :
            LET s == sess[d][n][i]
                t == sess'[d][n][i]
            IN s.state = "current" /\ t.state = "current" /\ t.age < s.age
                 => s.age <= Gap + req[h].age
  <2> SUFFICES ASSUME TypeInv, AloneInv, [Next]_vars, NEW h \in Handlers, Stored(h),
                      NEW d \in Devices, NEW n \in Nets, NEW i \in Slots,
                      sess[d][n][i].state = "current", sess'[d][n][i].state = "current",
                      sess'[d][n][i].age < sess[d][n][i].age
               PROVE  sess[d][n][i].age <= Gap + req[h].age
    OBVIOUS
  <2>1. Store(h)
    BY StoredStores
  <2>2. i \in Currents(sess[d][n]) /\ i \in Currents(sess'[d][n])
    BY DEF Currents
  <2> QED BY <2>1, <2>2, StoreOrder
<1> QED BY <1>1, TypeStart, AloneStart, TypeStep, AloneStep, PTL DEF Spec, Unbroken

-----------------------------------------------------------------------------
(* What a device is shown as, where agents stay and sign their sweeps *)

\* Agents stay on their subnets and every sweep names its agent.
Settled == OneSweep /\ ~Roaming /\ ~Anonymous

HomeInv == AtHome /\ OfflineNotPresent

\* Then no sweep finds that its agent has left a subnet, and what it reports is
\* online, on its subnet and its agent's.
LEMMA HomeStore ==
  ASSUME TypeInv, AloneInv, AtHome, NEW h \in Handlers, NEW left, Stores(h, left)
  PROVE  /\ left = {} /\ req[h].agent \in Agents /\ req[h].net \in joined[req[h].agent]
         /\ \A d \in req[h].seen : /\ d \in Devices /\ rows'[d] # None /\ rows'[d].online
                                   /\ rows'[d].net = req[h].net /\ rows'[d].agent = req[h].agent
<1>1. /\ req[h] \in Sweep /\ req[h].agent \in Agents /\ req[h].agent # None
      /\ req[h].net \in req[h].active /\ req[h].active = joined[req[h].agent]
      /\ req[h].busy /\ ~req[h].broken
  BY TypeFacts DEF TypeInv, AtHome, Stores
<1>2. Left(req[h], {}) = {}
  BY <1>1 DEF Left, AtHome
<1>3. left = {}
  BY <1>2 DEF Stores
<1>4. ASSUME NEW d \in req[h].seen
      PROVE  /\ d \in Devices /\ rows'[d] # None /\ rows'[d].online
             /\ rows'[d].net = req[h].net /\ rows'[d].agent = req[h].agent
  <2>1. d \in Devices
    BY <1>1 DEF Sweep
  <2>2. rows'[d] = SeenRow(req[h], d, left)
    <3>1. d \notin Doubled(req[h])
      BY <1>4 DEF Doubled, Pruned
    <3> QED BY <1>4, <2>1, <3>1 DEF Stores
  <2>3. rows'[d] \in Row
    BY <1>1, <2>1, <2>2, SeenRowType
  <2>4. PICK old : old = Got(req[h], d).row
    OBVIOUS
  <2>5. old = None \/ RowStands(old, rows[d])
    <3>1. CASE req[h].got[d].row # None
      BY <1>1, <2>4, <3>1 DEF Got, AloneInv, SweepStands
    <3>2. CASE req[h].got[d].row = None
      BY <2>4, <3>2 DEF Got, RowStands
    <3> QED BY <3>1, <3>2
  <2>6. CASE old = None
    <3>1. rows'[d] = [net |-> req[h].net, agent |-> req[h].agent, online |-> TRUE, age |-> req[h].age]
      BY <2>2, <2>4, <2>6 DEF SeenRow
    <3>2. rows'[d].online = TRUE /\ rows'[d].net = req[h].net /\ rows'[d].agent = req[h].agent
      BY <3>1
    <3> QED BY <2>1, <2>3, <3>2, RowAssumption
  <2>7. CASE old # None
    <3>1. rows[d] \in Row /\ old \in Row
      BY <1>1, <2>1, <2>4, <2>5, <2>7, GotType, TypeFacts DEF RowStands, TypeInv, SweepOK, Loaded
    <3>2. rows'[d] = [net    |-> Merge(old.net, req[h].net, rows[d].net),
                      agent  |-> Merge(old.agent, req[h].agent, rows[d].agent),
                      online |-> Merge(old.online, d \notin left, rows[d].online),
                      age    |-> req[h].age]
      BY <1>1, <2>2, <2>4, <2>7 DEF SeenRow
    <3>3. /\ rows'[d].net = Merge(old.net, req[h].net, rows[d].net)
          /\ rows'[d].agent = Merge(old.agent, req[h].agent, rows[d].agent)
      BY <3>2
    <3>4. rows'[d].online
      <4>1. old.online \in BOOLEAN /\ rows[d].online \in BOOLEAN
        BY <3>1 DEF Row
      <4>2. rows'[d].online = IF (d \notin left) # old.online THEN d \notin left ELSE rows[d].online
        BY <3>2 DEF Merge
      <4> QED BY <1>3, <2>5, <2>7, <4>1, <4>2 DEF RowStands
    <3> QED BY <2>1, <2>3, <2>5, <2>7, <3>3, <3>4, RowAssumption DEF Merge, RowStands
  <2> QED BY <2>6, <2>7
<1> QED BY <1>1, <1>3, <1>4

LEMMA StoreHome ==
  ASSUME TypeInv, AloneInv, OneSweep, HomeInv, NEW h \in Handlers, Store(h)
  PROVE  HomeInv'
<1>1. PICK left : Stores(h, left)
  BY StoreStores
<1>2. /\ left = {} /\ req[h].agent \in Agents /\ req[h].net \in joined[req[h].agent]
      /\ \A d \in req[h].seen : /\ d \in Devices /\ rows'[d] # None /\ rows'[d].online
                                /\ rows'[d].net = req[h].net /\ rows'[d].agent = req[h].agent
  BY <1>1, HomeStore DEF HomeInv
<1>3. ASSUME NEW d \in Devices, rows[d] # None
      PROVE  OfflineRow(d).net = rows[d].net /\ OfflineRow(d).agent = rows[d].agent
  <2>1. rows[d] \in Row
    BY <1>3, TypeFacts DEF TypeInv
  <2> QED BY <2>1 DEF OfflineRow, Row
<1>4. ASSUME NEW d \in Devices \ req[h].seen, rows'[d] # None
      PROVE  /\ rows[d] # None /\ rows'[d].net = rows[d].net /\ rows'[d].agent = rows[d].agent
             /\ \/ sess'[d] = ClosedSessions(d)
                \/ rows'[d] = rows[d] /\ sess'[d] = sess[d]
  <2>1. d \notin Doubled(req[h])
    BY <1>1, <1>4 DEF Stores
  <2>2. CASE d \in Off(req[h], left)
    <3>1. rows[d] # None /\ rows'[d] = OfflineRow(d) /\ sess'[d] = ClosedSessions(d)
      BY <1>1, <2>1, <2>2, OffRows DEF Stores
    <3> QED BY <1>3, <3>1
  <2>3. CASE d \notin Off(req[h], left)
    BY <1>1, <1>4, <2>1, <2>3 DEF Stores
  <2> QED BY <2>2, <2>3
<1>5. \A g \in Handlers : ~req'[g].busy
  <2>1. PICK R : R = [req EXCEPT ![h] = Idle]
    OBVIOUS
  <2>2. R \in [Handlers -> Sweep] /\ req' = Break(R, Doubled(req[h]))
    BY <1>1, <2>1, IdleType DEF Stores, TypeInv, TypeOK
  <2>3. \A g \in Handlers : ~R[g].busy
    BY <2>1, IdleType DEF OneSweep, TypeInv, TypeOK
  <2> QED BY <2>2, <2>3, BreakType
<1>6. AtHome'
  <2>1. ASSUME NEW d \in Devices, rows'[d] # None, rows'[d].agent # None
        PROVE  rows'[d].net \in joined[rows'[d].agent] \cup {None}
    BY <1>2, <1>4, <2>1 DEF HomeInv, AtHome
  <2> QED BY <1>1, <1>5, <2>1 DEF AtHome, Stores
<1>7. OfflineNotPresent'
  <2> SUFFICES ASSUME NEW d \in Devices, rows'[d] # None, ~rows'[d].online, rows'[d].net # None
               PROVE  Currents(sess'[d][rows'[d].net]) = {}
    BY DEF OfflineNotPresent
  <2>1. d \notin req[h].seen
    BY <1>2
  <2>2. rows[d] # None /\ rows'[d].net = rows[d].net
    BY <1>4, <2>1
  <2>3. CASE sess'[d] = ClosedSessions(d)
    <3>1. PICK n : n = rows[d].net
      OBVIOUS
    <3>2. n \in Nets /\ sess[d] \in [Nets -> Sessions] /\ InOrder(sess[d][n])
      BY <2>2, <3>1, TypeFacts DEF TypeInv, Row, AloneInv, SessionsInOrder
    <3>3. sess'[d][n] = Close(sess[d][n], Currents(sess[d][n]))
      BY <2>2, <2>3, <3>1, <3>2 DEF ClosedSessions
    <3>4. Currents(sess[d][n]) \in SUBSET Used(sess[d][n])
      BY DEF Currents, Used
    <3> QED BY <2>2, <3>1, <3>2, <3>3, <3>4, CloseOrder
  <2>4. CASE rows'[d] = rows[d] /\ sess'[d] = sess[d]
    BY <2>4 DEF HomeInv, OfflineNotPresent
  <2> QED BY <1>4, <2>1, <2>3, <2>4
<1> QED BY <1>6, <1>7 DEF HomeInv

\* The other writers: sweeps keep what they have of their agents, rows their place.
LEMMA HomeKept ==
  ASSUME TypeInv, HomeInv, UNCHANGED joined,
         \A g \in Handlers : req'[g].busy => /\ req[g].busy /\ req'[g].agent = req[g].agent
                                             /\ req'[g].net = req[g].net /\ req'[g].active = req[g].active,
         \A d \in Devices : rows'[d] # None =>
            \/ rows[d] # None /\ rows'[d].net = rows[d].net /\ rows'[d].agent = rows[d].agent
                 /\ (rows[d].online => rows'[d].online)
            \/ rows'[d].net = None /\ rows'[d].agent = None,
         \A d \in Devices, n \in Nets : Currents(sess'[d][n]) \subseteq Currents(sess[d][n])
  PROVE  HomeInv'
<1>1. AtHome'
  BY DEF HomeInv, AtHome
<1>2. ASSUME NEW d \in Devices, rows'[d] # None, ~rows'[d].online, rows'[d].net # None
      PROVE  Currents(sess'[d][rows'[d].net]) = {}
  <2>1. rows[d] # None /\ rows'[d].net = rows[d].net /\ ~rows[d].online
    BY <1>2
  <2>2. rows[d].net \in Nets
    BY <1>2, <2>1, TypeFacts DEF TypeInv, Row
  <2> QED BY <1>2, <2>1, <2>2 DEF HomeInv, OfflineNotPresent
<1> QED BY <1>1, <1>2 DEF HomeInv, OfflineNotPresent

LEMMA LoadHome ==
  ASSUME TypeInv, HomeInv, ~Anonymous, NEW h \in Handlers, NEW a \in Agents \cup {None}, NEW n \in Nets,
         NEW seen \in SUBSET Devices, Load(h, a, n, seen)
  PROVE  HomeInv'
<1>1. a \in Agents /\ a # None /\ n \in joined[a]
  BY DEF Load
<1>2. PICK r : r = [busy |-> TRUE, agent |-> a, net |-> n, seen |-> seen,
                    active |-> IF a = None THEN {} ELSE joined[a], age |-> 0,
                    got |-> [d \in Devices |-> IF d \in seen THEN Read(d, n) ELSE Unread],
                    broken |-> FALSE]
  OBVIOUS
<1>3. req' = [req EXCEPT ![h] = r] /\ UNCHANGED <<rows, sess, joined, scan>>
  BY <1>2 DEF Load
<1>4. r.agent = a /\ r.net = n /\ r.active = joined[a]
  BY <1>1, <1>2
<1>5. \A g \in Handlers : req'[g] \in {r, req[g]}
  BY <1>3 DEF TypeInv, TypeOK
<1>6. AtHome'
  BY <1>1, <1>3, <1>4, <1>5 DEF HomeInv, AtHome
<1> QED BY <1>3, <1>6 DEF HomeInv, OfflineNotPresent

LEMMA HomeStep ==
  ASSUME Settled
  PROVE  TypeInv /\ AloneInv /\ HomeInv /\ [Next]_vars => HomeInv'
<1> SUFFICES ASSUME TypeInv, AloneInv, HomeInv, [Next]_vars PROVE HomeInv'
  OBVIOUS
<1>1. ASSUME NEW h \in Handlers, StoreFails(h) PROVE HomeInv'
  <2>1. \A g \in Handlers : req'[g] \in {Idle, req[g]}
    BY <1>1 DEF StoreFails, TypeInv, TypeOK
  <2>2. \A g \in Handlers : req'[g].busy => req'[g] = req[g]
    BY <2>1, IdleType
  <2>3. UNCHANGED <<rows, sess, joined>>
    BY <1>1 DEF StoreFails
  <2> QED BY <2>2, <2>3, HomeKept
<1>2. ASSUME NEW d \in Devices, UpsertHost(d) PROVE HomeInv'
  <2>1. \A e \in Devices : rows'[e] # None =>
            \/ rows[e] # None /\ rows'[e].net = rows[e].net /\ rows'[e].agent = rows[e].agent
                 /\ (rows[e].online => rows'[e].online)
            \/ rows'[e].net = None /\ rows'[e].agent = None
    BY <1>2, UpsertHostAlone
  <2>2. UNCHANGED <<sess, req, joined>>
    BY <1>2, UpsertHostAlone
  <2> QED BY <2>1, <2>2, HomeKept
<1>3. CASE EndScan
  <2>1. \A e \in Devices : rows'[e] # None =>
            rows[e] # None /\ rows'[e].net = rows[e].net /\ rows'[e].agent = rows[e].agent
              /\ (rows[e].online => rows'[e].online)
    BY <1>3, EndScanAlone
  <2>2. UNCHANGED <<sess, req, joined>>
    BY <1>3, EndScanAlone
  <2> QED BY <2>1, <2>2, HomeKept
<1>4. CASE ClearDevices
  <2>1. req \in [Handlers -> Sweep] /\ req' = Break(req, Devices)
    BY <1>4 DEF TypeInv, TypeOK, ClearDevices
  <2>2. \A g \in Handlers : /\ req'[g].busy = req[g].busy /\ req'[g].agent = req[g].agent
                            /\ req'[g].net = req[g].net /\ req'[g].active = req[g].active
    BY <2>1, BreakType
  <2>3. \A d \in Devices, n \in Nets : Currents(sess'[d][n]) = {}
    BY <1>4 DEF ClearDevices, Currents, NoSession
  <2>4. \A d \in Devices : rows'[d] = None
    BY <1>4 DEF ClearDevices
  <2>5. UNCHANGED joined
    BY <1>4 DEF ClearDevices
  <2> QED BY <2>2, <2>3, <2>4, <2>5, HomeKept
<1>5. CASE Tick
  <2>1. ASSUME NEW d \in Devices, NEW n \in Nets PROVE Currents(sess'[d][n]) = Currents(sess[d][n])
    BY <1>5, TickSession DEF TypeInv, Currents
  <2>2. \A d \in Devices : rows'[d] # None =>
            rows[d] # None /\ rows'[d].net = rows[d].net /\ rows'[d].agent = rows[d].agent
              /\ (rows[d].online => rows'[d].online)
    BY <1>5, TickRow DEF TypeInv
  <2>3. \A g \in Handlers : /\ req'[g].busy = req[g].busy /\ req'[g].agent = req[g].agent
                            /\ req'[g].net = req[g].net /\ req'[g].active = req[g].active
    BY <1>5, TickSweep DEF TypeInv
  <2>4. UNCHANGED joined
    BY <1>5 DEF Tick
  <2> QED BY <2>1, <2>2, <2>3, <2>4, HomeKept
<1>6. ASSUME UNCHANGED <<rows, sess, req, joined>> PROVE HomeInv'
  BY <1>6, HomeKept
<1>7. ASSUME NEW h \in Handlers, Store(h) PROVE HomeInv'
  BY <1>7, StoreHome DEF Settled
<1> QED BY <1>1, <1>2, <1>3, <1>4, <1>5, <1>6, <1>7, LoadHome
        DEF Next, BeginScan, Roam, vars, Settled

LEMMA HomeStart == Init => HomeInv
BY IdleType DEF Init, HomeInv, AtHome, OfflineNotPresent

LEMMA SettledAlone == Settled => OneSweep
BY DEF Settled

\* An absence is never counted as presence once it was noticed (observe_devices
\* closes the sessions of what it takes offline).
THEOREM AbsentNotPresent ==
    ASSUME Settled
    PROVE  Spec => []OfflineNotPresent
<1>1. HomeInv => OfflineNotPresent
  BY DEF HomeInv
<1>2. TypeInv /\ AloneInv /\ [Next]_vars => AloneInv'
  BY AloneStep, SettledAlone
<1> QED BY <1>1, <1>2, TypeStart, AloneStart, HomeStart, TypeStep, HomeStep, PTL DEF Spec

\* A device an agent has just reported is online once the report is stored.
THEOREM ReportedIsOnline ==
    ASSUME Settled
    PROVE  Spec => SeenIsOnline
<1>1. TypeInv /\ AloneInv /\ [Next]_vars => AloneInv'
  BY AloneStep, SettledAlone
<1>2. TypeInv /\ AloneInv /\ HomeInv /\ [Next]_vars =>
        \A h \in Handlers : Stored(h) => \A d \in req[h].seen : rows'[d] # None /\ rows'[d].online
  <2> SUFFICES ASSUME TypeInv, AloneInv, HomeInv, [Next]_vars, NEW h \in Handlers, Stored(h),
                      NEW d \in req[h].seen
               PROVE  rows'[d] # None /\ rows'[d].online
    OBVIOUS
  <2>1. Store(h)
    BY StoredStores
  <2>2. PICK left : Stores(h, left)
    BY <2>1, StoreStores
  <2> QED BY <2>2, HomeStore DEF HomeInv
<1> QED BY <1>1, <1>2, TypeStart, AloneStart, HomeStart, TypeStep, HomeStep, PTL DEF Spec, SeenIsOnline

-----------------------------------------------------------------------------
(* Estate. What a request has read is right until another transaction      *)
(* commits; that is the strengthening the proofs need.                      *)


LEMMA EstateAssumption == Gateway \in Machines /\ None \notin Assets!Statuses
BY AssetsKnown DEF Assets!EstateAssumption

LEMMA NoneIsNoRow == None \notin Assets!Asset
BY AssetsKnown DEF Assets!NoneIsNoRow

LEMMA BoundAssumption ==
    /\ Payloads \subseteq Assets!Payload /\ Scans \subseteq Assets!ScanResult
    /\ Triage \subseteq Assets!Statuses /\ PatchLevels \subseteq Assets!Levels
BY AssetsKnown DEF Assets!BoundAssumption

\* What a request holds: its host, and rows that exist; assets are never deleted.
Holding(h) ==
    /\ request[h].op \in {"deepscan", "patchAsset", "patchFinding"} => request[h].host \in Machines
    /\ \A k \in Machines : request[h].assets[k] # None => asset[k] # None
    /\ request[h].op = "patchAsset" => request[h].assets[request[h].host] # None

\* What a request has read is what the database has, until it is overtaken.
Fresh(h) ==
    ~request[h].overtaken =>
        /\ request[h].op \in {"analyze", "recompute"} => request[h].assets = asset
        /\ request[h].op \in {"deepscan", "patchAsset"} =>
              request[h].assets[request[h].host] = asset[request[h].host]
        /\ request[h].op \in {"analyze", "recompute", "patchFinding"} => request[h].findings = finding
        /\ request[h].op = "recompute" => request[h].links = links

Inv == Assets!TypeOK /\ Assets!RiskCurrent /\ \A h \in Requests : Holding(h) /\ Fresh(h)

-----------------------------------------------------------------------------
LEMMA IdleIsRequest ==
    Assets!Idle \in Assets!Request /\ Assets!Idle.op = "idle" /\ Assets!Idle.assets \in [Machines -> {None}]
BY DEF Assets!Idle, Assets!Request, Assets!AssetTable, Assets!FindingTable

\* After a commit every request is idle or overtaken, and as it was otherwise.
LEMMA OvertakeEffect ==
    ASSUME request \in [Requests -> Assets!Request], NEW h, Assets!Overtake(h)
    PROVE /\ request' \in [Requests -> Assets!Request]
          /\ \A k \in Requests :
                \/ request'[k] = Assets!Idle
                \/ request'[k] = [request[k] EXCEPT !.overtaken = TRUE]
<1>1. \A k \in Requests : [request[k] EXCEPT !.overtaken = TRUE] \in Assets!Request
  BY DEF Assets!Request
<1> QED
  BY <1>1, IdleIsRequest DEF Assets!Overtake

\* Hence what is held stays held if assets stay, and nothing is left to be fresh.
LEMMA CommitKeeps ==
    ASSUME Assets!TypeOK, NEW h, Assets!Overtake(h), \A k \in Requests : Holding(k),
           \A k \in Machines : asset[k] # None => asset'[k] # None
    PROVE request' \in [Requests -> Assets!Request] /\ \A k \in Requests : (Holding(k) /\ Fresh(k))'
<1>1. request' \in [Requests -> Assets!Request]
  BY OvertakeEffect DEF Assets!TypeOK
<1>2. SUFFICES ASSUME NEW k \in Requests PROVE (Holding(k) /\ Fresh(k))'
  BY <1>1
<1>3. CASE request'[k] = Assets!Idle
  <2>1. request'[k].op = "idle" /\ request'[k].assets \in [Machines -> {None}]
    BY <1>3, IdleIsRequest
  <2> QED
    BY <2>1 DEF Holding, Fresh
<1>4. CASE request'[k] = [request[k] EXCEPT !.overtaken = TRUE]
  <2>1. request[k] \in Assets!Request
    BY DEF Assets!TypeOK
  <2>2. /\ request'[k].overtaken = TRUE /\ request'[k].op = request[k].op
        /\ request'[k].host = request[k].host /\ request'[k].assets = request[k].assets
    BY <1>4, <2>1 DEF Assets!Request
  <2> QED
    BY <2>2 DEF Holding, Fresh
<1> QED
  BY <1>3, <1>4, OvertakeEffect DEF Assets!TypeOK

\* A row of the database after a session has written what it changed.
LEMMA WrittenType ==
    ASSUME NEW row \in Assets!Asset, NEW read, NEW new \in Assets!Asset
    PROVE /\ Assets!Written(row, read, new) \in Assets!Asset
          /\ row = read => Assets!Written(row, read, new) = new
<1>1. DOMAIN row = {"crit", "exposed", "jewel"}
  BY DEF Assets!Asset
<1>2. Assets!Written(row, read, new) = [crit |-> IF new.crit = read.crit THEN row.crit ELSE new.crit,
                                 exposed |-> IF new.exposed = read.exposed THEN row.exposed ELSE new.exposed,
                                 jewel |-> IF new.jewel = read.jewel THEN row.jewel ELSE new.jewel]
  BY <1>1 DEF Assets!Written
<1>3. Assets!Written(row, read, new) \in Assets!Asset
  BY <1>2 DEF Assets!Asset
<1>4. ASSUME row = read PROVE Assets!Written(row, read, new) = new
  <2>1. new = [crit |-> new.crit, exposed |-> new.exposed, jewel |-> new.jewel]
    BY DEF Assets!Asset
  <2> QED
    BY <1>2, <1>4, <2>1
<1> QED
  BY <1>3, <1>4

LEMMA UpsertType ==
    ASSUME Assets!TypeOK, NEW p \in Assets!Payload
    PROVE Assets!UpsertAsset(p.host, p.hint, p.dmz, p.jewel) \in Assets!Asset
<1> DEFINE new == [crit |-> IF p.hint = None THEN "medium" ELSE p.hint, exposed |-> p.dmz, jewel |-> FALSE]
<1> DEFINE old == IF asset[p.host] = None THEN new ELSE asset[p.host]
<1>1. /\ p.host \in Machines /\ p.hint \in Assets!Levels \cup {None}
      /\ p.dmz \in BOOLEAN /\ p.jewel \in BOOLEAN \cup {None}
  BY DEF Assets!Payload
<1>2. new \in Assets!Asset
  BY <1>1 DEF Assets!Asset, Assets!Levels
<1>3. old \in Assets!Asset
  BY <1>1, <1>2 DEF Assets!TypeOK, Assets!AssetTable
<1> HIDE DEF new, old
<1>4. old.crit \in Assets!Levels /\ old.exposed \in BOOLEAN /\ old.jewel \in BOOLEAN
  BY <1>3 DEF Assets!Asset
<1> DEFINE raised == IF p.hint # None /\ Assets!CritRank[p.hint] > Assets!CritRank[old.crit]
                     THEN p.hint ELSE old.crit
<1>5. raised \in Assets!Levels
  BY <1>1, <1>4
<1> HIDE DEF raised
<1>6. [crit |-> raised, exposed |-> old.exposed, jewel |-> IF p.jewel = None THEN old.jewel ELSE p.jewel]
        \in Assets!Asset
  BY <1>1, <1>4, <1>5 DEF Assets!Asset
<1> QED
  BY <1>6 DEF Assets!UpsertAsset, old, new, raised

LEMMA ShapedType ==
    ASSUME NEW old \in Assets!Asset, NEW cves
    PROVE Assets!Shaped(old, cves) \in Assets!Asset
BY DEF Assets!Shaped, Assets!Asset, Assets!Levels

-----------------------------------------------------------------------------
LEMMA InvInit == Assets!Init => Inv
<1> SUFFICES ASSUME Assets!Init PROVE Inv
  OBVIOUS
<1>1. request \in [Requests -> Assets!Request] /\ \A h \in Requests : request[h] = Assets!Idle
  BY IdleIsRequest DEF Assets!Init
<1>2. Assets!TypeOK
  BY <1>1 DEF Assets!Init, Assets!TypeOK, Assets!AssetTable, Assets!FindingTable
<1>3. \A h \in Requests : Holding(h) /\ Fresh(h)
  BY <1>1, IdleIsRequest DEF Holding, Fresh
<1> QED
  BY <1>2, <1>3 DEF Inv, Assets!Init, Assets!RiskCurrent

-----------------------------------------------------------------------------
(* Requests that only read, and the commits, one lemma each. *)
LEMMA BeginStep ==
    ASSUME Inv, NEW h \in Requests, NEW op \in Assets!Ops, NEW host \in Machines \cup {None},
           Assets!Begin(h, op, host),
           op \in {"deepscan", "patchAsset", "patchFinding"} => host \in Machines,
           op = "patchAsset" => asset[host] # None
    PROVE Inv'
<1> DEFINE all == op \in {"analyze", "recompute"}
<1> DEFINE assets == [k \in Machines |-> IF all \/ (k = host /\ op # "patchFinding") THEN asset[k] ELSE None]
<1> DEFINE findings == IF all \/ op = "patchFinding" THEN finding ELSE Assets!Idle.findings
<1> DEFINE read == [op |-> op, host |-> host, assets |-> assets, findings |-> findings,
                    links |-> IF op = "recompute" THEN links ELSE {}, overtaken |-> FALSE]
<1>1. UNCHANGED <<asset, finding, links, risk, late>> /\ request' = [request EXCEPT ![h] = read]
  BY DEF Assets!Begin
<1>2. assets \in Assets!AssetTable /\ findings \in Assets!FindingTable
  BY DEF Inv, Assets!TypeOK, Assets!AssetTable, Assets!FindingTable, Assets!Idle
<1>3. read \in Assets!Request
  BY <1>2 DEF Assets!Request, Inv, Assets!TypeOK
<1>4. Assets!TypeOK'
  BY <1>1, <1>3 DEF Inv, Assets!TypeOK
<1>5. request'[h] = read
  BY <1>1 DEF Inv, Assets!TypeOK
<1>6. all => assets = asset
  BY DEF Inv, Assets!TypeOK, Assets!AssetTable
<1>7. \A k \in Machines : (all \/ (k = host /\ op # "patchFinding")) => assets[k] = asset[k]
  OBVIOUS
<1>8. \A k \in Machines : assets[k] # None => asset[k] # None
  OBVIOUS
<1> HIDE DEF assets, findings
<1>9. Holding(h)'
  BY <1>1, <1>5, <1>7, <1>8 DEF Holding
<1>10. Fresh(h)'
  <2>1. op \in {"analyze", "recompute", "patchFinding"} => findings = finding
    BY DEF findings
  <2> QED
    BY <1>1, <1>5, <1>6, <1>7, <2>1 DEF Fresh
<1>11. ASSUME NEW k \in Requests, k # h PROVE (Holding(k) /\ Fresh(k))'
  <2>1. request'[k] = request[k]
    BY <1>1, <1>11 DEF Inv, Assets!TypeOK
  <2> QED
    BY <1>1, <2>1 DEF Inv, Holding, Fresh
<1> QED
  BY <1>1, <1>4, <1>9, <1>10, <1>11 DEF Inv, Assets!RiskCurrent

LEMMA ScanFailsStep ==
    ASSUME Inv, NEW h \in Requests, Assets!ScanFails(h)
    PROVE Inv'
<1>1. UNCHANGED <<asset, finding, links, risk, late>> /\ request' = [request EXCEPT ![h] = Assets!Idle]
  BY DEF Assets!ScanFails
<1>2. Assets!TypeOK'
  BY <1>1, IdleIsRequest DEF Inv, Assets!TypeOK
<1>3. ASSUME NEW k \in Requests PROVE (Holding(k) /\ Fresh(k))'
  <2>1. request'[k] = IF k = h THEN Assets!Idle ELSE request[k]
    BY <1>1 DEF Inv, Assets!TypeOK
  <2>2. CASE k = h
    BY <1>1, <2>1, <2>2, IdleIsRequest DEF Holding, Fresh
  <2>3. CASE k # h
    BY <1>1, <2>1, <2>3 DEF Inv, Holding, Fresh
  <2> QED
    BY <2>2, <2>3
<1> QED
  BY <1>1, <1>2, <1>3 DEF Inv, Assets!RiskCurrent

\* A commit keeps Inv if the tables keep their types, no asset disappears, and what
\* the engine saw is the database unless the request was overtaken.
LEMMA CommitStep ==
    ASSUME Inv, NEW h, NEW view, NEW overtaken \in BOOLEAN, Assets!Commit(h, view, overtaken),
           asset' \in Assets!AssetTable, finding' \in Assets!FindingTable,
           links' \in SUBSET (Machines \X Machines),
           \A k \in Machines : asset[k] # None => asset'[k] # None,
           ~overtaken => view = asset'
    PROVE Inv'
<1>1. Assets!Overtake(h) /\ late' = overtaken /\ risk' = Assess(view, finding', links')
  BY DEF Assets!Commit
<1>2. request' \in [Requests -> Assets!Request] /\ \A k \in Requests : (Holding(k) /\ Fresh(k))'
  BY <1>1, CommitKeeps DEF Inv
<1>3. Assets!TypeOK'
  BY <1>1, <1>2 DEF Assets!TypeOK
<1>4. Assets!RiskCurrent'
  BY <1>1 DEF Assets!RiskCurrent
<1> QED
  BY <1>2, <1>3, <1>4 DEF Inv

LEMMA IngestStep ==
    ASSUME Inv, NEW p \in Payloads, Assets!Ingest(p)
    PROVE Inv'
<1>1. p \in Assets!Payload /\ p.host \in Machines /\ p.to \subseteq Machines
  BY BoundAssumption DEF Assets!Payload
<1>2. asset' = [asset EXCEPT ![p.host] = Assets!UpsertAsset(p.host, p.hint, p.dmz, p.jewel)]
  BY DEF Assets!Ingest
<1>3. asset' \in Assets!AssetTable
  BY <1>1, <1>2, UpsertType DEF Inv, Assets!TypeOK, Assets!AssetTable
<1>4. finding' \in Assets!FindingTable
  <2>1. \A old \in [Vulns -> Assets!Statuses \cup {None}] :
            Assets!Reconciled(old, p.reported) \in [Vulns -> Assets!Statuses \cup {None}]
    BY DEF Assets!Reconciled, Assets!Statuses
  <2> QED
    BY <1>1, <2>1 DEF Assets!Ingest, Inv, Assets!TypeOK, Assets!FindingTable
<1>5. links' \in SUBSET (Machines \X Machines)
  BY <1>1 DEF Assets!Ingest, Inv, Assets!TypeOK
<1>6. \A k \in Machines : asset[k] # None => asset'[k] # None
  <2>1. asset[p.host] # None => asset'[p.host] # None
    BY <1>1, <1>2, UpsertType, NoneIsNoRow DEF Inv, Assets!TypeOK, Assets!AssetTable
  <2> QED
    BY <1>1, <1>2, <2>1 DEF Inv, Assets!TypeOK, Assets!AssetTable
<1>7. Assets!Commit(None, asset', FALSE)
  BY DEF Assets!Ingest
<1> QED
  BY <1>3, <1>4, <1>5, <1>6, <1>7, CommitStep

LEMMA PersistHostStep ==
    ASSUME Inv, NEW h \in Requests, NEW s \in Scans, s.host = request[h].host,
           Assets!PersistHost(h, s.cves, s.gateway)
    PROVE Inv'
<1> DEFINE host == request[h].host
<1> DEFINE read == request[h].assets[host]
<1> DEFINE shaped == IF read = None
                     THEN Assets!Shaped([crit |-> "medium", exposed |-> FALSE, jewel |-> FALSE], s.cves)
                     ELSE Assets!Shaped(read, s.cves)
<1> DEFINE edge == [crit |-> "high", exposed |-> TRUE, jewel |-> FALSE]
<1>1. request[h] \in Assets!Request /\ request[h].op = "deepscan" /\ s \in Assets!ScanResult
  BY BoundAssumption DEF Inv, Assets!TypeOK, Assets!PersistHost
<1>2. host \in Machines /\ read \in Assets!Asset \cup {None} /\ s.cves \subseteq Vulns /\ s.gateway \in BOOLEAN
  BY <1>1 DEF Inv, Holding, Assets!Request, Assets!AssetTable, Assets!ScanResult
<1>3. shaped \in Assets!Asset
  <2>1. [crit |-> "medium", exposed |-> FALSE, jewel |-> FALSE] \in Assets!Asset
    BY DEF Assets!Asset, Assets!Levels
  <2> QED
    BY <1>2, <2>1, ShapedType
<1>4. edge \in Assets!Asset /\ \A row \in Assets!Asset : [row EXCEPT !.exposed = TRUE] \in Assets!Asset
  BY DEF Assets!Asset, Assets!Levels
<1>5. /\ read = None => asset[host] = None
      /\ read # None => asset[host] \in Assets!Asset
  BY <1>1, <1>2 DEF Assets!PersistHost, Inv, Holding, Assets!TypeOK, Assets!AssetTable
<1> DEFINE stored == IF read = None THEN shaped ELSE Assets!Written(asset[host], read, shaped)
<1>6. stored \in Assets!Asset
  BY <1>3, <1>5, WrittenType
<1>7. asset' = [k \in Machines |->
                  IF k = host THEN stored
                  ELSE IF k = Gateway /\ s.gateway
                       THEN IF asset[k] = None THEN edge ELSE [asset[k] EXCEPT !.exposed = TRUE]
                  ELSE asset[k]]
  BY DEF Assets!PersistHost
<1>8. ~request[h].overtaken => stored = shaped
  <2>1. ~request[h].overtaken => read = asset[host]
    BY <1>1 DEF Inv, Fresh
  <2> QED
    BY <2>1, <1>3, <1>5, WrittenType
<1>9. Assets!Commit(h, [asset' EXCEPT ![host] = shaped], request[h].overtaken)
  BY DEF Assets!PersistHost
<1>10. finding' \in Assets!FindingTable
  <2>1. finding' = [finding EXCEPT ![host] =
                       [v \in Vulns |-> IF v \in s.cves /\ finding[host][v] = None THEN "open" ELSE finding[host][v]]]
    BY DEF Assets!PersistHost
  <2>2. [v \in Vulns |-> IF v \in s.cves /\ finding[host][v] = None THEN "open" ELSE finding[host][v]]
            \in [Vulns -> Assets!Statuses \cup {None}]
    BY <1>2 DEF Inv, Assets!TypeOK, Assets!FindingTable, Assets!Statuses
  <2> QED
    BY <1>2, <2>1, <2>2 DEF Inv, Assets!TypeOK, Assets!FindingTable
<1>11. links' \in SUBSET (Machines \X Machines)
  <2>1. links' = links \/ links' = links \cup {<<Gateway, request[h].host>>}
    BY DEF Assets!PersistHost
  <2>2. <<Gateway, request[h].host>> \in Machines \X Machines
    BY <1>2, EstateAssumption
  <2>3. links \in SUBSET (Machines \X Machines)
    BY DEF Inv, Assets!TypeOK
  <2> HIDE DEF stored, shaped, edge, read, host
  <2> QED
    BY <2>1, <2>2, <2>3
<1> HIDE DEF stored, shaped, edge, read
<1>12. \A k \in Machines : asset'[k] \in Assets!Asset \/ (asset[k] = None /\ asset'[k] = None)
  <2>1. \A k \in Machines : asset[k] \in Assets!Asset \/ asset[k] = None
    BY DEF Inv, Assets!TypeOK, Assets!AssetTable
  <2> QED
    BY <1>4, <1>6, <1>7, <2>1
<1>13. asset' \in Assets!AssetTable
  BY <1>7, <1>12 DEF Assets!AssetTable
<1>14. \A k \in Machines : asset[k] # None => asset'[k] # None
  BY <1>12, NoneIsNoRow
<1>15. ~request[h].overtaken => [asset' EXCEPT ![host] = shaped] = asset'
  <2>1. asset'[host] = stored
    BY <1>2, <1>7
  <2> QED
    BY <1>8, <1>13, <2>1 DEF Assets!AssetTable
<1>16. request[h].overtaken \in BOOLEAN
  BY <1>1 DEF Assets!Request
<1> QED
  BY <1>9, <1>10, <1>11, <1>13, <1>14, <1>15, <1>16, CommitStep

LEMMA MappedType ==
    ASSUME NEW now \in Assets!Statuses \cup {None}, NEW loaded, NEW found
    PROVE Assets!Mapped(now, loaded, found) \in Assets!Statuses \cup {None}
BY DEF Assets!Mapped, Assets!Statuses

LEMMA MapFindingsStep ==
    ASSUME Inv, NEW h \in Requests, NEW found, Assets!MapFindings(h, found)
    PROVE Inv'
<1> DEFINE view == [k \in Machines |-> IF request[h].assets[k] # None THEN request[h].assets[k] ELSE asset[k]]
<1>1. request[h] \in Assets!Request /\ request[h].op = "analyze" /\ UNCHANGED <<asset, links>>
  BY DEF Inv, Assets!TypeOK, Assets!MapFindings
<1>2. finding' \in Assets!FindingTable
  <2>1. \A k \in Machines, v \in Vulns : finding[k][v] \in Assets!Statuses \cup {None}
    BY DEF Inv, Assets!TypeOK, Assets!FindingTable
  <2>2. finding' = [k \in Machines |-> [v \in Vulns |->
           IF v \in ConfigVulns THEN Assets!Mapped(finding[k][v], request[h].findings[k][v], <<k, v>> \in found)
           ELSE finding[k][v]]]
    BY DEF Assets!MapFindings
  <2>3. ASSUME NEW k \in Machines, NEW v \in Vulns
        PROVE Assets!Mapped(finding[k][v], request[h].findings[k][v], <<k, v>> \in found)
                \in Assets!Statuses \cup {None}
    BY <2>1, MappedType
  <2> QED
    BY <2>1, <2>2, <2>3 DEF Assets!FindingTable
<1>3. ~request[h].overtaken => view = asset
  BY <1>1 DEF Inv, Fresh, Assets!TypeOK, Assets!AssetTable
<1>4. Assets!Commit(h, view, request[h].overtaken)
  BY DEF Assets!MapFindings
<1> HIDE DEF view
<1> QED
  BY <1>1, <1>2, <1>3, <1>4, CommitStep DEF Inv, Assets!TypeOK, Assets!Request

LEMMA PatchFindingStep ==
    ASSUME Inv, NEW h \in Requests, NEW v \in Vulns, NEW status \in Triage, Assets!PatchFinding(h, v, status)
    PROVE Inv'
<1> DEFINE host == request[h].host
<1>1. request[h] \in Assets!Request /\ request[h].op = "patchFinding" /\ UNCHANGED <<asset, links>>
  BY DEF Inv, Assets!TypeOK, Assets!PatchFinding
<1>2. host \in Machines /\ status \in Assets!Statuses
  BY <1>1, BoundAssumption DEF Inv, Holding
<1>3. finding' \in Assets!FindingTable
  BY <1>2 DEF Assets!PatchFinding, Inv, Assets!TypeOK, Assets!FindingTable
<1>4. Assets!Commit(h, asset, request[h].overtaken)
  BY DEF Assets!PatchFinding
<1> QED
  BY <1>1, <1>3, <1>4, CommitStep DEF Inv, Assets!TypeOK, Assets!Request

LEMMA PatchAssetStep ==
    ASSUME Inv, NEW h \in Requests, NEW crit \in PatchLevels, Assets!PatchAsset(h, crit)
    PROVE Inv'
<1> DEFINE host == request[h].host
<1> DEFINE read == request[h].assets[host]
<1> DEFINE new == [read EXCEPT !.crit = crit]
<1>1. request[h] \in Assets!Request /\ request[h].op = "patchAsset" /\ UNCHANGED <<finding, links>>
  BY DEF Inv, Assets!TypeOK, Assets!PatchAsset
<1>2. host \in Machines /\ read \in Assets!Asset /\ asset[host] \in Assets!Asset /\ crit \in Assets!Levels
  BY <1>1, BoundAssumption DEF Inv, Holding, Assets!TypeOK, Assets!Request, Assets!AssetTable
<1>3. new \in Assets!Asset
  BY <1>2 DEF Assets!Asset
<1>4. asset' = [asset EXCEPT ![host] = Assets!Written(asset[host], read, new)]
  BY DEF Assets!PatchAsset
<1>5. /\ Assets!Written(asset[host], read, new) \in Assets!Asset
      /\ asset[host] = read => Assets!Written(asset[host], read, new) = new
  BY <1>2, <1>3, WrittenType
<1>6. Assets!Commit(h, [asset' EXCEPT ![host] = new], request[h].overtaken)
  BY DEF Assets!PatchAsset
<1>7. ~request[h].overtaken => asset[host] = read
  BY <1>1 DEF Inv, Fresh
<1> HIDE DEF new, read
<1>8. asset' \in Assets!AssetTable
  BY <1>2, <1>4, <1>5 DEF Inv, Assets!TypeOK, Assets!AssetTable
<1>9. \A k \in Machines : asset[k] # None => asset'[k] # None
  BY <1>2, <1>4, <1>5, NoneIsNoRow DEF Inv, Assets!TypeOK, Assets!AssetTable
<1>10. ~request[h].overtaken => [asset' EXCEPT ![host] = new] = asset'
  BY <1>2, <1>4, <1>5, <1>7, <1>8 DEF Inv, Assets!TypeOK, Assets!AssetTable
<1> QED
  BY <1>1, <1>6, <1>8, <1>9, <1>10, CommitStep DEF Inv, Assets!TypeOK, Assets!Request

LEMMA RecomputeStep ==
    ASSUME Inv, NEW h \in Requests, Assets!Recompute(h)
    PROVE Inv'
<1>1. request[h] \in Assets!Request /\ request[h].op = "recompute" /\ UNCHANGED <<asset, finding, links>>
  BY DEF Inv, Assets!TypeOK, Assets!Recompute
<1>2. Assets!Overtake(h) /\ late' = request[h].overtaken
      /\ risk' = Assess(request[h].assets, request[h].findings, request[h].links)
  BY DEF Assets!Recompute
<1>3. request' \in [Requests -> Assets!Request] /\ \A k \in Requests : (Holding(k) /\ Fresh(k))'
  BY <1>1, <1>2, CommitKeeps DEF Inv
<1>4. Assets!TypeOK'
  BY <1>1, <1>2, <1>3 DEF Inv, Assets!TypeOK, Assets!Request
<1>5. Assets!RiskCurrent'
  BY <1>1, <1>2 DEF Inv, Fresh, Assets!RiskCurrent
<1> QED
  BY <1>3, <1>4, <1>5 DEF Inv

LEMMA InvStep == Inv /\ [Assets!Next]_(Assets!vars) => Inv'
<1> SUFFICES ASSUME Inv, [Assets!Next]_(Assets!vars) PROVE Inv'
  OBVIOUS
<1>1. ASSUME NEW p \in Payloads, Assets!Ingest(p) PROVE Inv'
  BY <1>1, IngestStep
<1>2. ASSUME NEW h \in Requests, Assets!Start(h) PROVE Inv'
  <2>1. Assets!Known \subseteq Machines /\ \A k \in Assets!Known : asset[k] # None
    BY DEF Assets!Known
  <2>2. CASE \E host \in Machines : Assets!Begin(h, "deepscan", host)
    BY <2>2, BeginStep DEF Assets!Ops
  <2>3. CASE Assets!Begin(h, "analyze", None)
    BY <2>3, BeginStep DEF Assets!Ops
  <2>4. CASE \E host \in Assets!Known : Assets!Begin(h, "patchFinding", host)
    BY <2>1, <2>4, BeginStep DEF Assets!Ops
  <2>5. CASE \E host \in Assets!Known : Assets!Begin(h, "patchAsset", host)
    BY <2>1, <2>5, BeginStep DEF Assets!Ops
  <2>6. CASE Assets!Begin(h, "recompute", None)
    BY <2>6, BeginStep DEF Assets!Ops
  <2> QED
    BY <1>2, <2>2, <2>3, <2>4, <2>5, <2>6 DEF Assets!Start
<1>3. ASSUME NEW h \in Requests, NEW s \in Scans, s.host = request[h].host,
             Assets!PersistHost(h, s.cves, s.gateway)
      PROVE Inv'
  BY <1>3, PersistHostStep
<1>4. ASSUME NEW h \in Requests, Assets!ScanFails(h) PROVE Inv'
  BY <1>4, ScanFailsStep
<1>5. ASSUME NEW h \in Requests, NEW found \in Detections, Assets!MapFindings(h, found) PROVE Inv'
  BY <1>5, MapFindingsStep
<1>6. ASSUME NEW h \in Requests, NEW v \in Vulns, NEW status \in Triage, Assets!PatchFinding(h, v, status)
      PROVE Inv'
  BY <1>6, PatchFindingStep
<1>7. ASSUME NEW h \in Requests, NEW crit \in PatchLevels, Assets!PatchAsset(h, crit) PROVE Inv'
  BY <1>7, PatchAssetStep
<1>8. ASSUME NEW h \in Requests, Assets!Recompute(h) PROVE Inv'
  BY <1>8, RecomputeStep
<1>9. CASE UNCHANGED Assets!vars
  BY <1>9 DEF Assets!vars, Inv, Assets!TypeOK, Assets!RiskCurrent, Holding, Fresh
<1> QED
  BY <1>1, <1>2, <1>3, <1>4, <1>5, <1>6, <1>7, <1>8, <1>9 DEF Assets!Next

THEOREM InvHolds == Assets!Spec => []Inv
BY InvInit, InvStep, PTL DEF Assets!Spec

\* A behaviour of the inventory is one of its estate: the grid shares no row with it.
LEMMA InventoryHasEstate == InventorySpec => Assets!Spec
<1>1. InventoryInit => Assets!Init
  BY DEF InventoryInit
<1>2. [InventoryNext]_inventoryVars => [Assets!Next]_(Assets!vars)
  BY DEF InventoryNext, inventoryVars, estateVars, Assets!vars
<1> QED
  BY <1>1, <1>2, PTL DEF InventorySpec, Assets!Spec

\* Type correctness of the estate's tables and of what requests have read.
THEOREM EstateTypeCorrect == Assets!Spec => []Assets!TypeOK
<1>1. Inv => Assets!TypeOK
  BY DEF Inv
<1> QED
  BY <1>1, InvHolds, PTL

\* Whatever the engine computes and however requests interleave, the cached risk is
\* that of the database, unless the last commit was of a request that read too early.
THEOREM RiskIsCurrent == InventorySpec => []RiskCurrent
<1>1. Inv => RiskCurrent
  BY DEF Inv, RiskCurrent
<1> QED
  BY <1>1, InvHolds, InventoryHasEstate, PTL

-----------------------------------------------------------------------------
\* The statuses that stand.
Triaged == {"resolved", "accepted"}

LEMMA ReconciledKeeps ==
    ASSUME NEW old, NEW reported, NEW v \in Vulns, old[v] \in Triaged
    PROVE Assets!Reconciled(old, reported)[v] = old[v]
BY DEF Assets!Reconciled, Triaged

LEMMA MappedKeeps ==
    ASSUME NEW now \in Triaged, NEW found
    PROVE Assets!Mapped(now, now, found) = now
BY DEF Assets!Mapped, Triaged

\* The one request of an action is idle afterwards.
LEMMA CommitEnds ==
    ASSUME Inv, NEW h \in Requests, Assets!Overtake(h)
    PROVE request'[h] = Assets!Idle
BY DEF Assets!Overtake

\* Which step may change a settled status.
Excused(host) ==
    \E h \in Requests :
        /\ request'[h] = Assets!Idle
        /\ \/ request[h].op = "patchFinding" /\ request[h].host = host
           \/ request[h].op = "analyze" /\ request[h].overtaken

LEMMA TriageStep ==
    ASSUME Inv, [Assets!Next]_(Assets!vars), NEW host \in Machines, NEW v \in Vulns,
           finding[host][v] \in Triaged, finding'[host][v] # finding[host][v]
    PROVE Excused(host)
<1>1. ASSUME NEW p \in Payloads, Assets!Ingest(p) PROVE FALSE
  <2>1. finding' = [finding EXCEPT ![p.host] = Assets!Reconciled(finding[p.host], p.reported)]
    BY <1>1 DEF Assets!Ingest
  <2>2. Assets!Reconciled(finding[host], p.reported)[v] = finding[host][v]
    BY ReconciledKeeps
  <2> QED
    BY <2>1, <2>2 DEF Inv, Assets!TypeOK, Assets!FindingTable
<1>2. ASSUME NEW h \in Requests, Assets!Start(h) PROVE FALSE
  BY <1>2 DEF Assets!Start, Assets!Begin
<1>3. ASSUME NEW h \in Requests, NEW s \in Scans, Assets!PersistHost(h, s.cves, s.gateway) PROVE FALSE
  <2>1. finding[host][v] # None
    BY EstateAssumption DEF Triaged, Assets!Statuses
  <2>2. finding' = [finding EXCEPT ![request[h].host] =
                       [w \in Vulns |-> IF w \in s.cves /\ finding[request[h].host][w] = None THEN "open"
                                        ELSE finding[request[h].host][w]]]
    BY <1>3 DEF Assets!PersistHost
  <2> QED
    BY <2>1, <2>2 DEF Inv, Assets!TypeOK, Assets!FindingTable
<1>4. ASSUME NEW h \in Requests, Assets!ScanFails(h) PROVE FALSE
  BY <1>4 DEF Assets!ScanFails
<1>5. ASSUME NEW h \in Requests, NEW found, Assets!MapFindings(h, found) PROVE Excused(host)
  <2>1. request[h].op = "analyze" /\ request'[h] = Assets!Idle
    BY <1>5, CommitEnds DEF Assets!MapFindings, Assets!Commit
  <2>2. request[h].overtaken
    <3>1. SUFFICES ASSUME ~request[h].overtaken PROVE FALSE
      OBVIOUS
    <3>2. request[h].findings[host][v] = finding[host][v]
      BY <2>1, <3>1 DEF Inv, Fresh
    <3>3. finding'[host][v] = IF v \in ConfigVulns
                              THEN Assets!Mapped(finding[host][v], request[h].findings[host][v],
                                                 <<host, v>> \in found)
                              ELSE finding[host][v]
      BY <1>5 DEF Assets!MapFindings
    <3> QED
      BY <3>2, <3>3, MappedKeeps
  <2> QED
    BY <2>1, <2>2 DEF Excused
<1>6. ASSUME NEW h \in Requests, NEW w \in Vulns, NEW status \in Triage, Assets!PatchFinding(h, w, status)
      PROVE Excused(host)
  <2>1. request[h].op = "patchFinding" /\ request'[h] = Assets!Idle
    BY <1>6, CommitEnds DEF Assets!PatchFinding, Assets!Commit
  <2>2. request[h].host = host
    BY <1>6 DEF Assets!PatchFinding, Inv, Assets!TypeOK, Assets!FindingTable
  <2> QED
    BY <2>1, <2>2 DEF Excused
<1>7. ASSUME NEW h \in Requests, NEW crit \in PatchLevels, Assets!PatchAsset(h, crit) PROVE FALSE
  BY <1>7 DEF Assets!PatchAsset
<1>8. ASSUME NEW h \in Requests, Assets!Recompute(h) PROVE FALSE
  BY <1>8 DEF Assets!Recompute
<1>9. CASE UNCHANGED Assets!vars
  BY <1>9 DEF Assets!vars
<1> QED
  BY <1>1, <1>2, <1>3, <1>4, <1>5, <1>6, <1>7, <1>8, <1>9 DEF Assets!Next

\* Whatever agents, scans and analyses report, a finding that was resolved or
\* accepted is only reopened by a PATCH of it, or by an analysis that had loaded it
\* before another request committed.
THEOREM TriageKept == InventorySpec => TriageStands
<1>1. Inv /\ [Assets!Next]_(Assets!vars) =>
        [\A host \in Machines, v \in Vulns :
           finding[host][v] \in {"resolved", "accepted"} /\ finding'[host][v] # finding[host][v]
           => \E h \in Requests :
                 /\ request'[h] = Assets!Idle
                 /\ \/ request[h].op = "patchFinding" /\ request[h].host = host
                    \/ request[h].op = "analyze" /\ request[h].overtaken]_(Assets!vars)
  BY TriageStep DEF Triaged, Excused
<1> QED
  BY <1>1, InvHolds, InventoryHasEstate, PTL DEF Assets!Spec, Assets!TriageStands, TriageStands
=============================================================================
