------------------------ MODULE TrackingSessionProofs ------------------------
(***************************************************************************)
(* What holds of TrackingSession for every number of sessions, devices,    *)
(* requests and packets.                                                   *)
(***************************************************************************)
EXTENDS TrackingSession, FiniteSetTheorems, TLAPS

\* A request that is doing something does it to a session in memory, a capture
\* thread belongs to one, and a packet being handled was within the bound.
Bound ==
    /\ \A h \in Handlers : call[h].step # "idle" =>
         call[h].session \in Sessions /\ active[call[h].session] # None
    /\ \A h \in Handlers : call[h].step = "commit" => call[h].status \in Statuses
    /\ \A s \in Sessions : capture[s] # "none" => active[s] # None
    /\ \A s \in Sessions : capture[s] = "handling" => active[s].packets < MaxPackets
    /\ \A s \in Sessions : active[s] # None => IsFiniteSet(active[s].flows)

TypeInv == TypeOK /\ Bound

LEMMA TypeInit == Init => TypeInv
BY PacketAssumption DEF Init, TypeInv, TypeOK, Bound, Free, Doing, Call, Steps, Phases

\* Counting a packet keeps a session's type, isolation and finite flow table.
LEMMA CountedType ==
    ASSUME NEW a \in Session, a.packets < MaxPackets, IsFiniteSet(a.flows),
           \A e \in a.flows : a.device \in e, NEW ends \in Flows
    PROVE  /\ Counted(a, ends) \in Session
           /\ IsFiniteSet(Counted(a, ends).flows)
           /\ \A e \in Counted(a, ends).flows : Counted(a, ends).device \in e
<1>1. CASE Accepts(a.device, ends)
  <2>1. a.packets + 1 \in 0..MaxPackets
    BY PacketAssumption DEF Session
  <2>2. IsFiniteSet(a.flows \cup {ends})
    BY FS_AddElement
  <2>3. Counted(a, ends) \in Session /\ Counted(a, ends).flows = a.flows \cup {ends}
        /\ Counted(a, ends).device = a.device
    BY <1>1, <2>1 DEF Counted, Session
  <2> QED
    BY <1>1, <2>2, <2>3 DEF Accepts
<1>2. CASE ~Accepts(a.device, ends)
  BY <1>2 DEF Counted
<1> QED
  BY <1>1, <1>2

LEMMA TypeStep == TypeInv /\ [Next]_vars => TypeInv'
<1> SUFFICES ASSUME TypeInv, [Next]_vars PROVE TypeInv'
  OBVIOUS
<1> USE NoneAssumption, PacketAssumption DEF TypeInv, TypeOK, Bound
<1>1. ASSUME NEW h \in Handlers, NEW s \in Sessions, NEW d \in Devices, NEW scapy \in BOOLEAN,
             StartTracking(h, s, d, scapy)
      PROVE TypeInv'
  <2> DEFINE new == [device |-> d, status |-> IF scapy THEN "LIVE" ELSE "UNAVAILABLE",
                     packets |-> 0, flows |-> {}, detection |-> None]
             c == Doing("row", s, None, 0, 0)
  <2>1. new \in Session /\ new # None /\ IsFiniteSet(new.flows) /\ new.flows = {}
    BY FS_EmptySet DEF Session, Statuses
  <2>2. c \in Call /\ c.step = "row" /\ c.session = s
    BY DEF Free, Doing, Call, Steps
  <2>3. active' = [active EXCEPT ![s] = new] /\ call' = [call EXCEPT ![h] = c]
    BY <1>1 DEF StartTracking, Continue, Doing
  <2>4. capture' \in [Sessions -> Phases] /\ capture'[s] # "handling"
        /\ \A t \in Sessions \ {s} : capture'[t] = capture[t]
    BY <1>1 DEF StartTracking, Phases
  <2>6. UNCHANGED <<stopping, row>>
    BY <1>1 DEF StartTracking
  <2> HIDE DEF new, c
  <2>7. \A t \in Sessions : active'[t] = IF t = s THEN new ELSE active[t]
    BY <2>3
  <2>8. \A g \in Handlers : call'[g] = IF g = h THEN c ELSE call[g]
    BY <2>3
  <2>9. \A t \in Sessions : active'[t] # None =>
          /\ \A ends \in active'[t].flows : active'[t].device \in ends
          /\ IsFiniteSet(active'[t].flows)
    BY <2>1, <2>7
  <2>10. active' \in [Sessions -> Session \cup {None}] /\ call' \in [Handlers -> Call]
    BY <2>1, <2>2, <2>3
  <2>11. TypeOK'
    BY <2>4, <2>6, <2>9, <2>10
  <2>12. Bound'
    <3>1. \A g \in Handlers : call'[g].step # "idle" =>
            call'[g].session \in Sessions /\ active'[call'[g].session] # None
      BY <2>1, <2>2, <2>7, <2>8
    <3>2. \A g \in Handlers : call'[g].step = "commit" => call'[g].status \in Statuses
      BY <2>2, <2>8
    <3>3. \A t \in Sessions : capture'[t] # "none" => active'[t] # None
      BY <2>1, <2>4, <2>7
    <3>4. \A t \in Sessions : capture'[t] = "handling" => active'[t].packets < MaxPackets
      BY <2>4, <2>7
    <3> QED
      BY <2>9, <3>1, <3>2, <3>3, <3>4
  <2> QED
    BY <2>11, <2>12
<1>2. ASSUME NEW h \in Handlers, BuildRow(h) PROVE TypeInv'
  <2>1. call[h].session \in Sessions /\ active[call[h].session] \in Session
    BY <1>2 DEF BuildRow
  <2>2. active[call[h].session].status \in Statuses
    BY <2>1 DEF Session
  <2> QED
    BY <1>2, <2>1, <2>2 DEF BuildRow, Continue, Doing, Call, Steps
<1>3. ASSUME NEW h \in Handlers, CommitRow(h) PROVE TypeInv'
  <2>1. call[h].session \in Sessions /\ call[h].status \in Statuses
    BY <1>3 DEF CommitRow
  <2>2. row' \in [Sessions -> Row \cup {None}]
    BY <1>3, <2>1 DEF CommitRow, Row
  <2> QED
    BY <1>3, <2>2 DEF CommitRow, Continue, Free, Doing, Call, Steps
<1>4. ASSUME NEW h \in Handlers, Summarise(h) PROVE TypeInv'
  <2>1. call[h].session \in Sessions /\ active[call[h].session] \in Session
    BY <1>4 DEF Summarise
  <2>2. Cardinality(active[call[h].session].flows) \in Nat /\ active[call[h].session].packets \in 0..MaxPackets
    BY <2>1, FS_CardinalityType DEF Session
  <2> QED
    BY <1>4, <2>1, <2>2 DEF Summarise, Continue, Doing, Call, Steps
<1>5. ASSUME NEW h \in Handlers, Save(h) PROVE TypeInv'
  <2>1. call[h].session \in Sessions
    BY <1>5 DEF Save
  <2>2. Saved(call[h]) \in Row
    BY DEF Saved, Row, Statuses, Call
  <2>3. row' \in [Sessions -> Row \cup {None}]
    BY <1>5, <2>1, <2>2 DEF Save
  <2> QED
    BY <1>5, <2>3 DEF Save, Continue, Free, Doing, Call, Steps
<1>6. ASSUME NEW h \in Handlers, StoreDetection(h) PROVE TypeInv'
  <2> DEFINE s == call[h].session
  <2>1. s \in Sessions /\ active[s] \in Session /\ call[h].packets \in 0..MaxPackets
    BY <1>6 DEF StoreDetection, Call
  <2>2. active'[s] \in Session /\ active'[s].flows = active[s].flows /\ active'[s].device = active[s].device
        /\ active'[s].packets = active[s].packets
    BY <1>6, <2>1 DEF StoreDetection, Session
  <2>3. active' \in [Sessions -> Session \cup {None}] /\ \A t \in Sessions \ {s} : active'[t] = active[t]
    BY <1>6, <2>1, <2>2 DEF StoreDetection
  <2>4. call' \in [Handlers -> Call] /\ call' = [call EXCEPT ![h] = Free] /\ Free.step = "idle"
    BY <1>6 DEF StoreDetection, Continue, Free, Doing, Call, Steps
  <2> HIDE DEF s
  <2>5. UNCHANGED <<capture, stopping, row>>
    BY <1>6 DEF StoreDetection
  <2>6. TypeOK'
    BY <2>1, <2>2, <2>3, <2>4, <2>5
  <2>7. Bound'
    BY <2>1, <2>2, <2>3, <2>4, <2>5
  <2> QED
    BY <2>6, <2>7
<1>7. ASSUME NEW h \in Handlers, NEW s \in Sessions, StopTracking(h, s) PROVE TypeInv'
  <2> DEFINE c == Doing("join", s, None, 0, 0)
             stopped == [active[s] EXCEPT !.status = "STOPPED"]
  <2>0. active[s] \in Session /\ active' = [active EXCEPT ![s] = stopped]
    BY <1>7 DEF StopTracking
  <2>1. stopped \in Session /\ stopped.flows = active[s].flows
        /\ stopped.device = active[s].device /\ stopped.packets = active[s].packets
    BY <2>0 DEF Session, Statuses
  <2> HIDE DEF stopped
  <2>2. active' \in [Sessions -> Session \cup {None}] /\ active'[s] = stopped
        /\ \A t \in Sessions \ {s} : active'[t] = active[t]
    BY <2>0, <2>1
  <2>3. c \in Call /\ c.step = "join" /\ c.session = s
    BY DEF Free, Doing, Call, Steps
  <2>4. call' = [call EXCEPT ![h] = c]
    BY <1>7 DEF StopTracking, Continue, Doing
  <2>5. UNCHANGED <<capture, row>> /\ stopping' \in [Sessions -> BOOLEAN]
    BY <1>7 DEF StopTracking
  <2> HIDE DEF c
  <2>6. TypeOK'
    BY <2>0, <2>1, <2>2, <2>3, <2>4, <2>5
  <2>7. Bound'
    BY <2>0, <2>1, <2>2, <2>3, <2>4, <2>5
  <2> QED
    BY <2>6, <2>7
<1>8. ASSUME NEW h \in Handlers, NEW s \in Sessions, GetResults(h, s) PROVE TypeInv'
  <2>1. active[s] \in Session /\ active[s].packets \in 0..MaxPackets
    BY <1>8 DEF GetResults, Session
  <2> QED
    BY <1>8, <2>1 DEF GetResults, Continue, Free, Doing, Call, Steps
<1>9. ASSUME NEW s \in Sessions, Sniff(s) \/ SniffFailure(s) \/ Arrive(s) \/ Filter(s)
      PROVE TypeInv'
  <2>1. capture' \in [Sessions -> Phases] /\ capture[s] # "none"
        /\ \A t \in Sessions \ {s} : capture'[t] = capture[t]
    BY <1>9 DEF Sniff, SniffFailure, Arrive, Filter, Phases
  <2>2. capture'[s] = "handling" => active[s].packets < MaxPackets
    BY <1>9 DEF Sniff, SniffFailure, Arrive, Filter
  <2>3. UNCHANGED <<active, stopping, row, call>>
    BY <1>9 DEF Sniff, SniffFailure, Arrive, Filter
  <2> QED
    BY <2>1, <2>2, <2>3
<1>10. ASSUME NEW s \in Sessions, StopHistoric(s) PROVE TypeInv'
  <2>1. row'[s] \in Row
    BY <1>10 DEF StopHistoric, Row, Statuses
  <2> QED
    BY <1>10, <2>1 DEF StopHistoric
<1>11. ASSUME NEW s \in Sessions, NEW ends \in Flows, Ingest(s, ends) PROVE TypeInv'
  <2> DEFINE new == Counted(active[s], ends)
  <2>1. active[s] \in Session
    BY <1>11 DEF Ingest
  <2>2. /\ new \in Session /\ IsFiniteSet(new.flows)
        /\ \A e \in new.flows : new.device \in e
    BY <1>11, <2>1, CountedType DEF Ingest
  <2>3. active' = [active EXCEPT ![s] = new] /\ new # None
    BY <1>11, <2>2 DEF Ingest
  <2>4. capture' \in [Sessions -> Phases] /\ capture'[s] = "filtering"
        /\ \A t \in Sessions \ {s} : capture'[t] = capture[t]
    BY <1>11 DEF Ingest, Phases
  <2>5. UNCHANGED <<stopping, row, call>>
    BY <1>11 DEF Ingest
  <2> HIDE DEF new
  <2>6. TypeOK'
    BY <2>1, <2>2, <2>3, <2>4, <2>5
  <2>7. Bound'
    BY <2>1, <2>2, <2>3, <2>4, <2>5
  <2> QED
    BY <2>6, <2>7
<1>12. CASE Restart
  BY <1>12 DEF Restart, Free, Doing, Call, Steps, Phases
<1>13. CASE UNCHANGED vars
  BY <1>13 DEF vars
<1> QED
  BY <1>1, <1>2, <1>3, <1>4, <1>5, <1>6, <1>7, <1>8, <1>9, <1>10, <1>11, <1>12, <1>13 DEF Next

\* Types, and the isolation of every session's flows, whatever is captured.
THEOREM TypeCorrect == Spec => []TypeOK
<1>1. TypeInv => TypeOK
  BY DEF TypeInv
<1> QED
  BY <1>1, TypeInit, TypeStep, PTL DEF Spec

-----------------------------------------------------------------------------

\* Nothing counts packets of the session any more.
Frozen(s) == stopping[s] /\ capture[s] \notin {"handling", "filtering"}
Final(s, packets, flows) ==
    /\ Frozen(s)
    /\ packets = active[s].packets /\ flows = Cardinality(active[s].flows)

\* What makes SavedMatches inductive: a summary is read when nothing counts any
\* more, and no session is stopped before its row is there.
SaveInv ==
    /\ TypeInv
    /\ \A s \in Sessions : active[s] # None /\ row[s] # None /\ row[s].status = "STOPPED" =>
         Final(s, row[s].packets, row[s].flows)
    /\ \A h \in Handlers : call[h].step = "save" =>
         Final(call[h].session, call[h].packets, call[h].flows)
    /\ \A h \in Handlers : call[h].step = "join" => stopping[call[h].session]
    /\ \A h \in Handlers : call[h].step \in {"row", "commit"} =>
         row[call[h].session] = None /\ active[call[h].session].status # "STOPPED"
    /\ \A h \in Handlers : call[h].step = "commit" => call[h].status # "STOPPED"
    /\ \A g, h \in Handlers :
         call[g].step \in {"row", "commit"} /\ call[h].step \in {"row", "commit"}
           /\ call[g].session = call[h].session => g = h

\* A session that is frozen stays so, with its counters, until a restart.
LEMMA FrozenStays ==
    ASSUME TypeInv, [Next]_vars, NEW s \in Sessions, Frozen(s), active[s] # None, active'[s] # None
    PROVE  /\ Frozen(s)'
           /\ active'[s].packets = active[s].packets /\ active'[s].flows = active[s].flows
<1> USE NoneAssumption DEF TypeInv, TypeOK, Bound, Frozen
<1>0. active[s] \in Session
  OBVIOUS
<1>1. ASSUME NEW h \in Handlers, NEW t \in Sessions, NEW d \in Devices, NEW scapy \in BOOLEAN,
             StartTracking(h, t, d, scapy)
      PROVE  active'[s] = active[s] /\ capture'[s] = capture[s] /\ stopping' = stopping
  BY <1>1 DEF StartTracking
<1>2. ASSUME NEW h \in Handlers,
             BuildRow(h) \/ CommitRow(h) \/ Summarise(h) \/ Save(h)
      PROVE  UNCHANGED <<active, capture, stopping>>
  BY <1>2 DEF BuildRow, CommitRow, Summarise, Save
<1>3. ASSUME NEW h \in Handlers, StoreDetection(h)
      PROVE  UNCHANGED <<capture, stopping>> /\ active'[s].packets = active[s].packets
             /\ active'[s].flows = active[s].flows
  <2>1. active' = [active EXCEPT ![call[h].session] =
                     [active[call[h].session] EXCEPT !.detection = call[h].packets]]
    BY <1>3 DEF StoreDetection
  <2> QED
    BY <1>0, <1>3, <2>1 DEF StoreDetection, Session
<1>4. ASSUME NEW h \in Handlers, NEW t \in Sessions, StopTracking(h, t)
      PROVE  UNCHANGED capture /\ stopping'[s] /\ active'[s].packets = active[s].packets
             /\ active'[s].flows = active[s].flows
  <2>1. active' = [active EXCEPT ![t] = [active[t] EXCEPT !.status = "STOPPED"]]
    BY <1>4 DEF StopTracking
  <2> QED
    BY <1>0, <1>4, <2>1 DEF StopTracking, Session
<1>5. ASSUME NEW h \in Handlers, NEW t \in Sessions, GetResults(h, t)
      PROVE  UNCHANGED <<active, capture, stopping>>
  BY <1>5 DEF GetResults
<1>6. ASSUME NEW t \in Sessions, Sniff(t) \/ SniffFailure(t) \/ Arrive(t) \/ Filter(t)
      PROVE  UNCHANGED <<active, stopping>> /\ capture'[s] \notin {"handling", "filtering"}
  BY <1>6 DEF Sniff, SniffFailure, Arrive, Filter
<1>7. ASSUME NEW t \in Sessions, StopHistoric(t)
      PROVE  UNCHANGED <<active, capture, stopping>>
  BY <1>7 DEF StopHistoric
<1>8. ASSUME NEW t \in Sessions, NEW ends \in Flows, Ingest(t, ends)
      PROVE  active'[s] = active[s] /\ capture'[s] = capture[s] /\ stopping' = stopping
  BY <1>8 DEF Ingest
<1>9. ~Restart
  BY DEF Restart
<1>10. UNCHANGED vars => UNCHANGED <<active, capture, stopping>>
  BY DEF vars
<1> QED
  BY <1>1, <1>2, <1>3, <1>4, <1>5, <1>6, <1>7, <1>8, <1>9, <1>10 DEF Next

LEMMA FinalStays ==
    ASSUME TypeInv, [Next]_vars, NEW s \in Sessions, NEW p, NEW f, Final(s, p, f),
           active[s] # None, active'[s] # None
    PROVE  Final(s, p, f)'
<1>1. /\ Frozen(s)'
      /\ active'[s].packets = active[s].packets /\ active'[s].flows = active[s].flows
  BY FrozenStays DEF Final
<1> QED
  BY <1>1 DEF Final

LEMMA SaveInit == Init => SaveInv
BY TypeInit DEF Init, SaveInv, Free, Doing

LEMMA SaveStep ==
    ASSUME ~Eager, ~Slow
    PROVE  SaveInv /\ [Next]_vars => SaveInv'
<1> SUFFICES ASSUME SaveInv, [Next]_vars PROVE SaveInv'
  OBVIOUS
<1>0. TypeInv /\ TypeInv'
  BY TypeStep DEF SaveInv
<1> USE <1>0, NoneAssumption
<1> USE DEF SaveInv
<1>f. \A s \in Sessions : \A p, f : Final(s, p, f) /\ active[s] # None /\ active'[s] # None
        => Final(s, p, f)'
  BY FinalStays
<1>1. ASSUME NEW h \in Handlers, NEW s \in Sessions, NEW d \in Devices, NEW scapy \in BOOLEAN,
             StartTracking(h, s, d, scapy)
      PROVE SaveInv'
  <2> DEFINE c == Doing("row", s, None, 0, 0)
  <2>1. active[s] = None /\ row[s] = None /\ row' = row /\ stopping' = stopping
        /\ active'[s] # None /\ active'[s].status # "STOPPED"
    <3> DEFINE new == [device |-> d, status |-> IF scapy THEN "LIVE" ELSE "UNAVAILABLE",
                       packets |-> 0, flows |-> {}, detection |-> None]
    <3>1. new \in Session /\ new.status # "STOPPED"
      BY PacketAssumption DEF Session, Statuses
    <3>2. active' = [active EXCEPT ![s] = new]
      BY <1>1 DEF StartTracking
    <3> HIDE DEF new
    <3>3. active'[s] = new
      BY <3>2 DEF TypeInv, TypeOK
    <3> QED
      BY <1>1, <3>1, <3>3 DEF StartTracking
  <2>2. \A t \in Sessions \ {s} : active'[t] = active[t]
    BY <1>1, <1>0 DEF StartTracking, TypeInv, TypeOK
  <2>3. \A g \in Handlers : call'[g] = IF g = h THEN c ELSE call[g]
    BY <1>1, <1>0 DEF StartTracking, Continue, TypeInv, TypeOK
  <2>4. c.step = "row" /\ c.session = s
    BY DEF Doing
  <2>5. \A g \in Handlers : call[g].step # "idle" =>
          call[g].session \in Sessions /\ active[call[g].session] # None
    BY <1>0 DEF TypeInv, Bound
  <2> HIDE DEF c
  <2>6. \A g \in Handlers : g # h /\ call[g].step # "idle" => call[g].session # s
    BY <2>1, <2>5
  <2>7. \A t \in Sessions : active'[t] # None /\ row'[t] # None /\ row'[t].status = "STOPPED" =>
          Final(t, row[t].packets, row[t].flows)'
    BY <1>f, <2>1, <2>2
  <2>8. \A g \in Handlers : call'[g].step = "save" =>
          Final(call[g].session, call[g].packets, call[g].flows)' /\ call'[g] = call[g]
    BY <1>f, <2>2, <2>3, <2>4, <2>5, <2>6
  <2> QED
    BY <2>1, <2>2, <2>3, <2>4, <2>5, <2>6, <2>7, <2>8
<1>2. ASSUME NEW h \in Handlers, BuildRow(h) PROVE SaveInv'
  <2> DEFINE c == Doing("commit", call[h].session, active[call[h].session].status, 0, 0)
  <2>1. UNCHANGED <<active, capture, stopping, row>> /\ call[h].step = "row"
    BY <1>2 DEF BuildRow
  <2>2. \A g \in Handlers : call'[g] = IF g = h THEN c ELSE call[g]
    BY <1>2 DEF BuildRow, Continue, TypeInv, TypeOK
  <2>3. c.step = "commit" /\ c.session = call[h].session /\ c.status # "STOPPED"
    BY <2>1 DEF Doing
  <2> HIDE DEF c
  <2> QED
    BY <2>1, <2>2, <2>3 DEF Final, Frozen
<1>3. ASSUME NEW h \in Handlers, CommitRow(h) PROVE SaveInv'
  <2> DEFINE s == call[h].session
  <2>1. UNCHANGED <<active, capture, stopping>> /\ call[h].step = "commit"
    BY <1>3 DEF CommitRow
  <2>2. \A g \in Handlers : call'[g] = IF g = h THEN Free ELSE call[g]
    BY <1>3 DEF CommitRow, Continue, TypeInv, TypeOK
  <2>3. \A t \in Sessions : row'[t] = row[t] \/ (t = s /\ row'[t].status # "STOPPED")
    <3> DEFINE r == [status |-> call[h].status, packets |-> 0, flows |-> 0]
    <3>1. r.status # "STOPPED"
      BY <2>1
    <3>2. row' = [row EXCEPT ![s] = r] \/ row' = row
      BY <1>3 DEF CommitRow
    <3> HIDE DEF r
    <3> QED
      BY <3>1, <3>2 DEF TypeInv, TypeOK
  <2>4. \A t \in Sessions : row'[t] # row[t] => t = s
    BY <2>3
  <2>5. Free.step = "idle"
    BY DEF Free, Doing
  <2>6. \A g \in Handlers : g # h /\ call[g].step \in {"row", "commit"} =>
          call[g].session \in Sessions /\ call[g].session # s
    BY <2>1 DEF TypeInv, Bound
  <2> HIDE DEF s
  <2> QED
    BY <2>1, <2>2, <2>3, <2>4, <2>5, <2>6 DEF Final, Frozen
<1>4. ASSUME NEW h \in Handlers, Summarise(h) PROVE SaveInv'
  <2> DEFINE s == call[h].session
             c == Doing("save", s, None, active[s].packets, Cardinality(active[s].flows))
  <2>1. UNCHANGED <<active, capture, stopping, row>> /\ call[h].step = "join" /\ Joined(s)
    BY <1>4 DEF Summarise
  <2>2. \A g \in Handlers : call'[g] = IF g = h THEN c ELSE call[g]
    BY <1>4 DEF Summarise, Continue, TypeInv, TypeOK
  <2>3. c.step = "save" /\ Final(c.session, c.packets, c.flows)
    BY <2>1 DEF Doing, Final, Frozen, Joined
  <2> HIDE DEF c, s
  <2> QED
    BY <2>1, <2>2, <2>3 DEF Final, Frozen
<1>5. ASSUME NEW h \in Handlers, Save(h) PROVE SaveInv'
  <2> DEFINE s == call[h].session
  <2>1. UNCHANGED <<active, capture, stopping>> /\ call[h].step = "save"
    BY <1>5 DEF Save
  <2>2. \A g \in Handlers : call'[g] = IF g = h THEN Free ELSE call[g]
    BY <1>5 DEF Save, Continue, TypeInv, TypeOK
  <2>3. \A t \in Sessions : row'[t] = row[t]
          \/ (t = s /\ row[t] # None /\ row'[t] = Saved(call[h]))
    <3> DEFINE r == Saved(call[h])
    <3>1. row' = row \/ (row[s] # None /\ row' = [row EXCEPT ![s] = r])
      BY <1>5 DEF Save
    <3> HIDE DEF r
    <3>2. \A t \in Sessions : row'[t] = row[t] \/ (t = s /\ row[t] # None /\ row'[t] = r)
      BY <3>1 DEF TypeInv, TypeOK
    <3> QED
      BY <3>2 DEF r
  <2>4. Saved(call[h]).packets = call[h].packets /\ Saved(call[h]).flows = call[h].flows
    BY DEF Saved
  <2>5. Final(s, call[h].packets, call[h].flows)
    BY <2>1
  <2>6. Free.step = "idle"
    BY DEF Free, Doing
  <2>7. \A g \in Handlers : call[g].step \in {"row", "commit"} => call[g].session \in Sessions
    BY DEF TypeInv, Bound
  <2> HIDE DEF s
  <2> QED
    BY <2>1, <2>2, <2>3, <2>4, <2>5, <2>6, <2>7 DEF Final, Frozen
<1>6. ASSUME NEW h \in Handlers, StoreDetection(h) PROVE SaveInv'
  <2> DEFINE s == call[h].session
  <2>1. UNCHANGED <<capture, stopping, row>> /\ call[h].step = "detect" /\ s \in Sessions
        /\ active[s] \in Session
    BY <1>6 DEF StoreDetection, TypeInv, TypeOK, Bound
  <2>2. active' = [active EXCEPT ![s] = [active[s] EXCEPT !.detection = call[h].packets]]
    BY <1>6 DEF StoreDetection
  <2>3. \A t \in Sessions : (active'[t] = None <=> active[t] = None)
          /\ (active[t] # None => active'[t].status = active[t].status)
    <3> DEFINE new == [active[s] EXCEPT !.detection = call[h].packets]
    <3>1. call[h].packets \in 0..MaxPackets /\ active[s] # None
      BY <2>1 DEF TypeInv, TypeOK, Call
    <3>2. new \in Session /\ new.status = active[s].status
      BY <2>1, <3>1 DEF Session
    <3> HIDE DEF new
    <3>3. \A t \in Sessions : active'[t] = IF t = s THEN new ELSE active[t]
      BY <2>2 DEF new, TypeInv, TypeOK
    <3> QED
      BY <3>1, <3>2, <3>3
  <2>4. \A g \in Handlers : call'[g] = IF g = h THEN Free ELSE call[g]
    BY <1>6 DEF StoreDetection, Continue, TypeInv, TypeOK
  <2>5. Free.step = "idle"
    BY DEF Free, Doing
  <2>6. \A g \in Handlers : call[g].step # "idle" =>
          call[g].session \in Sessions /\ active[call[g].session] # None
    BY DEF TypeInv, Bound
  <2> HIDE DEF s
  <2> QED
    BY <1>f, <2>1, <2>3, <2>4, <2>5, <2>6
<1>7. ASSUME NEW h \in Handlers, NEW s \in Sessions, StopTracking(h, s) PROVE SaveInv'
  <2> DEFINE c == Doing("join", s, None, 0, 0)
  <2>1. UNCHANGED <<capture, row>> /\ active[s] \in Session /\ row[s] # None
        /\ stopping' = [stopping EXCEPT ![s] = TRUE]
    BY <1>7 DEF StopTracking, Announced, TypeInv, TypeOK
  <2>2. active' = [active EXCEPT ![s] = [active[s] EXCEPT !.status = "STOPPED"]]
    BY <1>7 DEF StopTracking
  <2>3. \A t \in Sessions : (active'[t] = None <=> active[t] = None)
          /\ (t # s => active'[t] = active[t])
    <3> DEFINE new == [active[s] EXCEPT !.status = "STOPPED"]
    <3>1. new \in Session /\ active[s] # None
      BY <2>1 DEF Session, Statuses
    <3> HIDE DEF new
    <3>2. \A t \in Sessions : active'[t] = IF t = s THEN new ELSE active[t]
      BY <2>2 DEF new, TypeInv, TypeOK
    <3> QED
      BY <3>1, <3>2
  <2>4. \A g \in Handlers : call'[g] = IF g = h THEN c ELSE call[g]
    BY <1>7 DEF StopTracking, Continue, TypeInv, TypeOK
  <2>5. c.step = "join" /\ c.session = s
    BY DEF Doing
  <2>6. \A g \in Handlers : call[g].step # "idle" =>
          call[g].session \in Sessions /\ active[call[g].session] # None
    BY DEF TypeInv, Bound
  <2>7. stopping'[s] /\ \A t \in Sessions : stopping[t] => stopping'[t]
    BY <2>1 DEF TypeInv, TypeOK
  <2> HIDE DEF c
  <2> QED
    BY <1>f, <2>1, <2>3, <2>4, <2>5, <2>6, <2>7
<1>8. ASSUME NEW h \in Handlers, NEW s \in Sessions, GetResults(h, s) PROVE SaveInv'
  <2> DEFINE c == Doing("detect", s, None, active[s].packets, 0)
  <2>1. UNCHANGED <<active, capture, stopping, row>>
    BY <1>8 DEF GetResults
  <2>2. \A g \in Handlers : call'[g] = IF g = h THEN c ELSE call[g]
    BY <1>8 DEF GetResults, Continue, TypeInv, TypeOK
  <2>3. c.step = "detect"
    BY DEF Doing
  <2> HIDE DEF c
  <2> QED
    BY <2>1, <2>2, <2>3 DEF Final, Frozen
<1>9. ASSUME NEW s \in Sessions,
             Sniff(s) \/ SniffFailure(s) \/ Arrive(s) \/ Filter(s)
      PROVE SaveInv'
  <2>1. UNCHANGED <<active, stopping, row, call>>
    BY <1>9 DEF Sniff, SniffFailure, Arrive, Filter
  <2>2. \A g \in Handlers : call[g].step # "idle" =>
          call[g].session \in Sessions /\ active[call[g].session] # None
    BY DEF TypeInv, Bound
  <2> QED
    BY <1>f, <2>1, <2>2
<1>10. ASSUME NEW s \in Sessions, StopHistoric(s) PROVE SaveInv'
  <2>1. UNCHANGED <<active, capture, stopping, call>> /\ active[s] = None
        /\ \A t \in Sessions \ {s} : row'[t] = row[t]
    BY <1>10 DEF StopHistoric, TypeInv, TypeOK
  <2>2. \A g \in Handlers : call[g].step # "idle" =>
          call[g].session \in Sessions /\ active[call[g].session] # None
    BY DEF TypeInv, Bound
  <2> QED
    BY <2>1, <2>2 DEF Final, Frozen
<1>11. ASSUME NEW s \in Sessions, NEW ends \in Flows, Ingest(s, ends) PROVE SaveInv'
  <2>1. UNCHANGED <<stopping, row, call>> /\ active[s] \in Session
        /\ active' = [active EXCEPT ![s] = Counted(active[s], ends)]
    BY <1>11 DEF Ingest, TypeInv, TypeOK, Bound
  <2>2. Counted(active[s], ends).status = active[s].status
    BY DEF Counted
  <2>3. \A t \in Sessions : (active'[t] # None => active[t] # None)
          /\ active'[t].status = active[t].status
    BY <2>1, <2>2 DEF TypeInv, TypeOK
  <2>4. \A g \in Handlers : call[g].step # "idle" =>
          call[g].session \in Sessions /\ active[call[g].session] # None
    BY DEF TypeInv, Bound
  <2>5. \A g \in Handlers : call[g].step # "idle" => active'[call[g].session] # None
    BY <2>1 DEF TypeInv, Bound
  <2> QED
    BY <1>f, <2>1, <2>3, <2>4, <2>5
<1>12. CASE Restart
  BY <1>12 DEF Restart, Free, Doing
<1>13. CASE UNCHANGED vars
  BY <1>13 DEF vars, Final, Frozen
<1> QED
  BY <1>1, <1>2, <1>3, <1>4, <1>5, <1>6, <1>7, <1>8, <1>9, <1>10, <1>11, <1>12, <1>13 DEF Next

\* If ids reach clients with the answer of start_tracking and a packet is handled
\* within join's timeout, the row of a stopped session has its final counters.
THEOREM StoppedSaved ==
    ASSUME ~Eager, ~Slow
    PROVE  Spec => []SavedMatches
<1>1. SaveInv => SavedMatches
  BY DEF SaveInv, SavedMatches, Final
<1> QED
  BY <1>1, SaveInit, SaveStep, PTL DEF Spec
=============================================================================
