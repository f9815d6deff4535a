------------------------------ MODULE Presence ------------------------------
(***************************************************************************)
(* The device grid and its presence sessions: observe_devices in           *)
(* server/app/services/live.py with the other writers of network_devices   *)
(* and device_sessions (heartbeat upsert, the autonomous scanner's         *)
(* last_scanned_at, clear_devices), for one organisation.                  *)
(*                                                                         *)
(* The database session is opened with autoflush=False: a query sees what  *)
(* the transaction has flushed, an object already loaded keeps the values  *)
(* it was loaded with, and the commit writes only the columns whose value  *)
(* differs from the one loaded.  A sweep is therefore two steps: Load      *)
(* reads the rows and sessions of the devices it reports, Store reads the  *)
(* rest and commits.                                                       *)
(*                                                                         *)
(* Times are ages in ticks of five minutes, capped just above the largest  *)
(* age the code compares.  A device is a MAC; a routed host without one is *)
(* a device seen in one subnet only.                                       *)
(***************************************************************************)
EXTENDS Naturals, FiniteSets

CONSTANTS
    Devices,    \* MAC addresses
    Doubles,    \* those that answer under one and the same IP (a gateway's random MACs)
    Hosts,      \* those that run a paired endpoint agent
    Nets,       \* subnets
    Agents,     \* sweeping agents (agent_id of a batch)
    None,       \* SQL NULL
    Handlers,   \* sweeps the server can be storing at once
    MaxSlots,   \* bound: sessions kept for one device in one subnet
    Gap,        \* MAX_OBSERVATION_GAP
    Stale,      \* the age limit of the safety net and of list_devices
    Roaming,    \* whether agents change networks
    Anonymous,  \* whether sweeps without agent_id and active_subnets arrive as well
    Scanning    \* whether the autonomous scanner runs

ASSUME SetAssumption ==
    /\ Doubles \subseteq Devices /\ Hosts \subseteq Devices
    /\ None \notin Devices /\ None \notin Nets /\ None \notin Agents
ASSUME TimeAssumption ==
    MaxSlots \in Nat /\ Gap \in Nat /\ Stale \in Nat /\ Gap <= Stale
ASSUME ModeAssumption == {Roaming, Anonymous, Scanning} \subseteq BOOLEAN

Slots == 1..MaxSlots
Cap   == Stale + 2      \* a sweep's own age is at most one tick
Ages  == 0..Cap
Older(x, y) == IF x + y > Cap THEN Cap ELSE x + y

VARIABLES
    rows,    \* network_devices by MAC: subnet, source_agent_id, online, age of last_seen
    sess,    \* device_sessions by device_key and network_key
    joined,  \* the subnets each agent is connected to
    req,     \* the sweep each handler slot is storing
    scan     \* the device the autonomous scanner is working on

vars == <<rows, sess, joined, req, scan>>

Row       == [net: Nets \cup {None}, agent: Agents \cup {None}, online: BOOLEAN, age: Ages]
Session   == [state: {"none", "current", "closed"}, age: Ages, ended: Ages]
ASSUME RowAssumption == None \notin Row
NoSession == [state |-> "none", age |-> 0, ended |-> 0]

\* What a sweep has loaded of one device: its row, the session it found latest,
\* what it decided to do with it and the age that session had.
Loaded == [row: Row \cup {None}, slot: 0..MaxSlots,
           verdict: {"new", "extend", "renew"}, gap: Ages]
Unread == [row |-> None, slot |-> 0, verdict |-> "new", gap |-> 0]

Sweep == [busy: BOOLEAN, agent: Agents \cup {None}, net: Nets \cup {None},
          seen: SUBSET Devices, active: SUBSET Nets, age: Ages,
          got: [Devices -> Loaded], broken: BOOLEAN]
Idle  == [busy |-> FALSE, agent |-> None, net |-> None, seen |-> {}, active |-> {},
          age |-> 0, got |-> [d \in Devices |-> Unread], broken |-> FALSE]

TypeOK ==
    /\ rows \in [Devices -> Row \cup {None}]
    /\ sess \in [Devices -> [Nets -> [Slots -> Session]]]
    /\ joined \in [Agents -> SUBSET Nets]
    /\ req \in [Handlers -> Sweep]
    /\ scan \in Devices \cup {None}

Init ==
    /\ rows = [d \in Devices |-> None]
    /\ sess = [d \in Devices |-> [n \in Nets |-> [i \in Slots |-> NoSession]]]
    /\ joined \in [Agents -> {N \in SUBSET Nets : N # {}}]
    /\ req = [h \in Handlers |-> Idle]
    /\ scan = None

-----------------------------------------------------------------------------
(* Sessions *)

Used(S)     == {i \in Slots : S[i].state # "none"}
Currents(S) == {i \in Slots : S[i].state = "current"}
Lowest(T)   == CHOOSE i \in T : \A j \in T : i <= j

\* ORDER BY last_seen DESC LIMIT 1; within a tick a current session is the later one.
Latest(S) ==
    LET newest == {i \in Used(S) : \A j \in Used(S) : S[i].age <= S[j].age}
        open   == newest \cap Currents(S)
    IN IF newest = {} THEN 0 ELSE IF open # {} THEN Lowest(open) ELSE Lowest(newest)

\* Mutant: any silence extends the current session.
VerdictNoGap(S, gap) ==
    IF Latest(S) = 0 \/ Latest(S) \notin Currents(S) THEN "new" ELSE "extend"
Verdict(S, gap) ==
    IF Latest(S) = 0 \/ Latest(S) \notin Currents(S) THEN "new"
    ELSE IF gap <= Gap THEN "extend" ELSE "renew"

\* Only the latest session matters to the next observation: the slot of a closed
\* one may be reused when a new session opens.
Unused(S) == LET none == {i \in Slots : S[i].state = "none"}
             IN IF none # {} THEN none ELSE {i \in Slots : S[i].state = "closed"}

\* _close_device_session: the session found current ends when it was last seen.
Close(S, found) ==
    IF found = {} THEN S
    ELSE LET i == Lowest(found)
         IN [S EXCEPT ![i].state = "closed", ![i].ended = S[i].age]

\* _record_device_observation at an age a, from what was loaded; held are slots
\* other sweeps still refer to.
Opened(S, held, a) ==
    [S EXCEPT ![Lowest(Unused(S) \ held)] = [state |-> "current", age |-> a, ended |-> 0]]
Ended(S, l, a) == [S EXCEPT ![l.slot].state = "closed", ![l.slot].ended = Older(l.gap, a)]
\* The new session does not take the slot of the one it follows if there is another.
Kept(S, l, held) == IF Unused(S) \ held \subseteq {l.slot} THEN {} ELSE {l.slot}
\* Mutant: a gap opens a new session and leaves the old one current.
RecordedLeaveOld(S, l, held, a) ==
    CASE l.verdict = "extend" -> [S EXCEPT ![l.slot].age = a]
      [] OTHER -> Opened(S, held, a)
Recorded(S, l, held, a) ==
    CASE l.verdict = "extend" -> [S EXCEPT ![l.slot].age = a]
      [] l.verdict = "renew"  -> Opened(Ended(S, l, a), held \cup Kept(S, l, held), a)
      [] OTHER -> Opened(S, held, a)

-----------------------------------------------------------------------------
(* observe_devices *)

\* Load: the row of every reported device, and the latest session of those known.
\* An agent also posts the sweep of a routed subnet where nothing answered.
Read(d, n) ==
    LET S   == sess[d][n]
        gap == IF Latest(S) = 0 THEN 0 ELSE S[Latest(S)].age
    IN IF rows[d] = None THEN Unread
       ELSE [row |-> rows[d], slot |-> Latest(S), verdict |-> Verdict(S, gap), gap |-> gap]

Load(h, a, n, seen) ==
    /\ ~req[h].busy
    /\ IF a = None THEN Anonymous /\ seen # {} ELSE n \in joined[a]
    /\ req' = [req EXCEPT ![h] =
                 [busy |-> TRUE, agent |-> a, net |-> n, seen |-> seen,
                  active |-> IF a = None THEN {} ELSE joined[a], age |-> 0,
                  got |-> [d \in Devices |-> IF d \in seen THEN Read(d, n) ELSE Unread],
                  broken |-> FALSE]]
    /\ UNCHANGED <<rows, sess, joined, scan>>

\* A device not found at Load is inserted now, or its row adopted if another
\* sweep inserted it first; its session is read after that.
Got(r, d) ==
    IF r.got[d].row # None THEN r.got[d]
    ELSE LET S   == sess[d][r.net]
             age == IF Latest(S) = 0 THEN 0 ELSE S[Latest(S)].age
             gap == IF age > r.age THEN age - r.age ELSE 0
         IN [row |-> rows[d], slot |-> Latest(S), verdict |-> Verdict(S, gap), gap |-> gap]

\* The rows this agent reported on a subnet it is no longer connected to, as the
\* database has them: a reported device whose update is not flushed is among them.
Left(r, flushed) ==
    IF r.agent = None THEN {}
    ELSE {d \in Devices \ flushed :
            /\ rows[d] # None
            /\ rows[d].agent = r.agent /\ rows[d].online
            /\ rows[d].net \notin r.active \cup {None}}

\* Mutant: a sweep prunes every subnet of the organisation.
PrunedEverywhere(r) == {d \in Devices \ r.seen : rows[d] # None}
\* A sweep that found nothing has observed no subnet and prunes none.
Pruned(r) == IF r.seen = {} THEN {}
             ELSE {d \in Devices \ r.seen : rows[d] # None /\ rows[d].net = r.net}
\* Mutant: no safety net.
AgedNever(r) == {}
Aged(r)   == {d \in Devices \ r.seen :
                rows[d] # None /\ rows[d].online /\ rows[d].age > Stale + r.age}
Doubled(r) == IF r.seen \cap Doubles = {} THEN {} ELSE Pruned(r) \cap Doubles

\* Only the columns that changed since the load are written.
Merge(loaded, new, current) == IF new # loaded THEN new ELSE current

\* Mutant: a device that comes back is refreshed and stays offline.
SeenRowStayOffline(r, d, left) ==
    LET old == Got(r, d).row
        agent == IF r.agent = None THEN old.agent ELSE r.agent
    IN IF old = None
         THEN [net |-> r.net, agent |-> r.agent, online |-> TRUE, age |-> r.age]
         ELSE [net    |-> Merge(old.net, r.net, rows[d].net),
               agent  |-> Merge(old.agent, agent, rows[d].agent),
               online |-> rows[d].online,
               age    |-> r.age]
SeenRow(r, d, left) ==
    LET old == Got(r, d).row
        agent == IF r.agent = None THEN old.agent ELSE r.agent
    IN IF old = None
         THEN [net |-> r.net, agent |-> r.agent, online |-> TRUE, age |-> r.age]
         ELSE [net    |-> Merge(old.net, r.net, rows[d].net),
               agent  |-> Merge(old.agent, agent, rows[d].agent),
               online |-> Merge(old.online, d \notin left, rows[d].online),
               age    |-> r.age]
\* last_seen has onupdate=utcnow: taking a row offline moves it to the present.
OfflineRow(d) == IF rows[d].online THEN [rows[d] EXCEPT !.online = FALSE, !.age = 0] ELSE rows[d]

Held(h, d, n) == {req[g].got[d].slot : g \in {k \in Handlers \ {h} : req[k].net = n}}

SeenSessions(h, d, left) ==
    LET r == req[h]
        S == sess[d][r.net]
        T == Recorded(S, Got(r, d), Held(h, d, r.net), r.age)
    IN [sess[d] EXCEPT ![r.net] = IF d \in left THEN Close(T, Currents(S)) ELSE T]
\* Mutant: a device that goes offline keeps its session.
ClosedSessionsNot(d) == sess[d]
ClosedSessions(d) ==
    IF rows[d].net = None THEN sess[d]
    ELSE [sess[d] EXCEPT ![rows[d].net] = Close(@, Currents(@))]

\* Deleted rows are missing when another sweep, or the scanner, updates them.
Break(R, gone) ==
    [g \in Handlers |->
       IF \E d \in gone : R[g].got[d].row # None THEN [R[g] EXCEPT !.broken = TRUE] ELSE R[g]]

\* Every INSERT flushes what came before it, so any of the rows already handled
\* may be flushed when the sweep inserts a device, and none when it does not.
Store(h) ==
    LET r == req[h] IN
    /\ r.busy /\ ~r.broken
    /\ \A d \in r.seen : Got(r, d).verdict = "new" =>
         Unused(sess[d][r.net]) \ Held(h, d, r.net) # {}
    /\ \A d \in r.seen : Got(r, d).verdict = "renew" =>
         Unused(Ended(sess[d][r.net], Got(r, d), r.age)) \ Held(h, d, r.net) # {}
    /\ \E flushed \in IF \E d \in r.seen : r.got[d].row = None THEN SUBSET r.seen ELSE {{}} :
         LET left == Left(r, flushed)
             off  == left \cup Pruned(r) \cup Aged(r)
         IN /\ rows' = [d \in Devices |->
                          CASE d \in r.seen      -> SeenRow(r, d, left)
                            [] d \in Doubled(r)  -> None
                            [] d \in off \ (r.seen \cup Doubled(r)) -> OfflineRow(d)
                            [] OTHER             -> rows[d]]
            /\ sess' = [d \in Devices |->
                          CASE d \in r.seen       -> SeenSessions(h, d, left)
                            [] d \in off \ r.seen -> ClosedSessions(d)
                            [] OTHER              -> sess[d]]
    /\ req' = Break([req EXCEPT ![h] = Idle], Doubled(r))
    /\ scan' = IF scan \in Doubled(r) THEN None ELSE scan
    /\ UNCHANGED joined

\* StaleDataError: the transaction is rolled back, the agent gets a 500.
StoreFails(h) ==
    /\ req[h].busy /\ req[h].broken
    /\ req' = [req EXCEPT ![h] = Idle]
    /\ UNCHANGED <<rows, sess, joined, scan>>

-----------------------------------------------------------------------------
(* The other writers of the two tables *)

\* upsert_device_from_endpoint_agent: online and fresh, without any session.
UpsertHost(d) ==
    /\ d \in Hosts
    /\ rows' = [rows EXCEPT ![d] =
                  IF rows[d] = None
                    THEN [net |-> None, agent |-> None, online |-> TRUE, age |-> 0]
                    ELSE [rows[d] EXCEPT !.online = TRUE, !.age = 0]]
    /\ UNCHANGED <<sess, joined, req, scan>>

ClearDevices ==
    /\ rows' = [d \in Devices |-> None]
    /\ sess' = [d \in Devices |-> [n \in Nets |-> [i \in Slots |-> NoSession]]]
    /\ req' = Break(req, Devices)
    /\ scan' = None
    /\ UNCHANGED joined

\* autoscan.run_once picks an online device, and after the scan sets
\* last_scanned_at: an UPDATE, so last_seen moves to the present as well.
BeginScan(d) ==
    /\ Scanning /\ scan = None
    /\ rows[d] # None /\ rows[d].online
    /\ scan' = d
    /\ UNCHANGED <<rows, sess, joined, req>>
EndScan ==
    /\ scan # None
    /\ rows' = [rows EXCEPT ![scan].age = 0]
    /\ scan' = None
    /\ UNCHANGED <<sess, joined, req>>

-----------------------------------------------------------------------------
(* The environment *)

Roam(a, N) ==
    /\ Roaming /\ N # {} /\ N # joined[a]
    /\ joined' = [joined EXCEPT ![a] = N]
    /\ UNCHANGED <<rows, sess, req, scan>>

\* Five minutes pass; no sweep takes longer than that.
Tick ==
    /\ \A h \in Handlers : req[h].age = 0
    /\ rows' = [d \in Devices |->
                  IF rows[d] = None THEN None ELSE [rows[d] EXCEPT !.age = Older(@, 1)]]
    /\ sess' = [d \in Devices |-> [n \in Nets |-> [i \in Slots |->
                  LET s == sess[d][n][i] IN
                  CASE s.state = "none"    -> s
                    [] s.state = "current" -> [s EXCEPT !.age = Older(@, 1)]
                    [] OTHER -> [s EXCEPT !.age = Older(@, 1), !.ended = Older(@, 1)]]]]
    /\ req' = [h \in Handlers |-> IF req[h].busy THEN [req[h] EXCEPT !.age = 1] ELSE req[h]]
    /\ UNCHANGED <<joined, scan>>

Next ==
    \/ \E h \in Handlers, a \in Agents \cup {None}, n \in Nets, seen \in SUBSET Devices :
         Load(h, a, n, seen)
    \/ \E h \in Handlers : Store(h) \/ StoreFails(h)
    \/ \E d \in Devices : UpsertHost(d) \/ BeginScan(d)
    \/ ClearDevices \/ EndScan \/ Tick
    \/ \E a \in Agents, N \in SUBSET Nets : Roam(a, N)

Spec == Init /\ [][Next]_vars

-----------------------------------------------------------------------------
(* Safety *)

\* "Maintains append/update-safe presence sessions scoped to (org, network,
\* device)": a device has at most one current session in a subnet.
OneCurrent ==
    \A d \in Devices, n \in Nets : Cardinality(Currents(sess[d][n])) <= 1

\* "Close active session at the last confirmed observation time": whoever
\* closes a session, its end is its last observation and stays so.
ClosedAtLastSeen ==
    \A d \in Devices, n \in Nets, i \in Slots :
        sess[d][n][i].state = "closed" => sess[d][n][i].ended = sess[d][n][i].age

\* The history of a device in a subnet says when it was present: one stretch
\* goes on at most, and the others end where it was last seen.
SessionsSound == OneCurrent /\ ClosedAtLastSeen

\* No device that is offline has a session still running on its subnet: an
\* absence is never counted as presence once it was noticed.
OfflineNotPresent ==
    \A d \in Devices : rows[d] # None /\ ~rows[d].online /\ rows[d].net # None =>
        Currents(sess[d][rows[d].net]) = {}

Stored(h) == req[h].busy /\ ~req'[h].busy /\ ~req[h].broken

\* "consecutive hits arrive within MAX_OBSERVATION_GAP": a session that goes on
\* is never carried over a longer silence.
Unbroken ==
    [][\A h \in Handlers : Stored(h) =>
         \A d \in Devices, n \in Nets, i \in Slots :
            LET s == sess[d][n][i]
                t == sess'[d][n][i]
            IN s.state = "current" /\ t.state = "current" /\ t.age < s.age
                 => s.age <= Gap + req[h].age]_vars

\* A device the agent has just reported is online once the report is stored.
SeenIsOnline ==
    [][\A h \in Handlers : Stored(h) =>
         \A d \in req[h].seen : rows'[d] # None /\ rows'[d].online]_vars

\* "K agents on K subnets never delete each other's data": a sweep leaves alone
\* what another agent reported on another subnet and keeps fresh, even when
\* that device was loaded, moved or adopted while the sweep was being stored.
OthersUntouched ==
    [][\A h \in Handlers : Stored(h) =>
         \A d \in Devices \ req[h].seen :
            /\ rows[d] # None /\ rows[d].age <= Stale
            /\ rows[d].net # req[h].net
            /\ req[h].agent = None \/ rows[d].agent # req[h].agent
            => rows'[d] = rows[d] /\ sess'[d] = sess[d]]_vars

-----------------------------------------------------------------------------
(* The inductive invariants behind these properties *)

\* A subnet has one current session of a device, none is seen more recently, and
\* one that is over ended when it was last seen.
InOrder(S) ==
    /\ \A i \in Currents(S) : /\ \A j \in Currents(S) : i = j
                             /\ \A j \in Used(S) : S[i].age <= S[j].age
    /\ \A i \in Slots : S[i].state = "closed" => S[i].ended = S[i].age
SessionsInOrder == \A d \in Devices, n \in Nets : InOrder(sess[d][n])

\* What a sweep decided of the sessions S is still what they ask for, a ticks later.
Stands(l, S, a) ==
    IF l.verdict = "new" THEN Currents(S) = {}
    ELSE /\ l.slot \in Currents(S) /\ S[l.slot].age = Older(l.gap, a)
         /\ l.verdict = "extend" => l.gap <= Gap

\* The row of a device a sweep has loaded is still there, on the same subnet, from
\* the same agent, and went online at most.
RowStands(old, row) ==
    /\ row # None
    /\ row.net = old.net /\ row.agent = old.agent
    /\ old.online => row.online

\* While a sweep is stored time passes once at most, nothing is seen meanwhile and
\* what it has loaded stands, unless the rows were deleted: so if it is alone.
SweepStands ==
    \A h \in Handlers : req[h].busy =>
        /\ req[h].age <= 1 /\ req[h].net \in Nets
        /\ \A d \in Devices, n \in Nets : \A i \in Used(sess[d][n]) :
              req[h].age <= sess[d][n][i].age
        /\ ~req[h].broken => \A d \in req[h].seen : req[h].got[d].row # None =>
              /\ Stands(req[h].got[d], sess[d][req[h].net], req[h].age)
              /\ RowStands(req[h].got[d].row, rows[d])

\* A row names the subnet its agent is connected to: so if agents stay where they
\* are and every sweep says who it is from.
AtHome ==
    /\ \A d \in Devices : rows[d] # None /\ rows[d].agent # None =>
          rows[d].net \in joined[rows[d].agent] \cup {None}
    /\ \A h \in Handlers : req[h].busy =>
          req[h].agent \in Agents /\ req[h].net \in req[h].active
          /\ req[h].active = joined[req[h].agent]

-----------------------------------------------------------------------------
(* Liveness *)

\* A sweeping agent loops for ever, a sweep that started is stored or fails,
\* time passes, the scanner finishes a device.
Fairness ==
    /\ WF_vars(\E h \in Handlers, a \in Agents \cup {None}, n \in Nets,
                  seen \in SUBSET Devices : Load(h, a, n, seen))
    /\ \A h \in Handlers : WF_vars(Store(h) \/ StoreFails(h))
    /\ WF_vars(Tick) /\ WF_vars(EndScan)

LiveSpec == Spec /\ Fairness

\* "age out any online row nobody has refreshed in a while": a device that at some
\* time no sweep and no heartbeat reports any more, and the scanner has done with,
\* ends up offline and stays so. (A scan counts as a refresh: storing
\* last_scanned_at moves last_seen.)
GoneGoesOffline ==
    \A d \in Devices :
        /\ <>[](scan # d /\ \A h \in Handlers : d \notin req[h].seen)
        /\ <>[][~UpsertHost(d)]_vars
        => <>[](rows[d] = None \/ ~rows[d].online)

=============================================================================
