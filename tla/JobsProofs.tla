------------------------------ MODULE JobsProofs ------------------------------
(***************************************************************************)
(* What holds of the server's background jobs. TelegramAlerts, for all     *)
(* findings, devices, chats and bounds: type correctness, that one process *)
(* sends no chat what it was confirmed to have, that it remembers only what*)
(* it sent or found old. AutoScan, for all organisations and devices: type *)
(* correctness, and that what is withdrawn is scanned no more.             *)
(***************************************************************************)
EXTENDS Jobs, Sequences, FiniteSetTheorems, WellFoundedInduction, TLAPS

LEMMA TypeInit == Init => TypeOK
<1> SUFFICES ASSUME Init PROVE TypeOK
  OBVIOUS
<1>1. {received, lost} \subseteq [Findings -> [Chats -> Nat]] /\ assumed \subseteq Of("db")
  BY DEF Init, NoMessages
<1>2. crashes \in 0..MaxCrashes /\ failures \in 0..MaxFailures /\ changes \in 0..MaxChanges
  <2>1. MaxCrashes \in Nat /\ MaxFailures \in Nat /\ MaxChanges \in Nat
    BY AlertsAssumption
  <2> QED
    BY <2>1 DEF Init
<1>3. known \subseteq {"db", "endpoint"}
  BY DEF Init
<1> QED
  BY <1>1, <1>2, <1>3 DEF Init, TypeOK, Sources

\* Of one attempt, at most one copy is not unconfirmed, and that one is remembered.
LEMMA Copies ==
    ASSUME NEW sent \in [Chats -> Attempt], NEW c \in Chats
    PROVE  /\ sent[c].copies \in Nat /\ Unconfirmed(sent[c]) \in Nat /\ sent[c].ok \in BOOLEAN
           /\ sent[c].copies = Unconfirmed(sent[c]) + (IF sent[c].ok THEN 1 ELSE 0)
<1>1. PICK a \in Attempt : a = sent[c]
  OBVIOUS
<1>2. a.copies \in 0..2 /\ a.ok \in BOOLEAN /\ (a.ok => a.copies > 0)
  BY DEF Attempt
<1>3. a.copies \in Nat /\ Unconfirmed(a) \in Nat /\ a.copies = Unconfirmed(a) + (IF a.ok THEN 1 ELSE 0)
  BY <1>2 DEF Unconfirmed
<1> QED
  BY <1>1, <1>2, <1>3

\* Each step keeps the types. The two that touch _alerted or the counts of a
\* chat have steps of their own; the others only move between sets.
LEMMA TypeStep == TypeOK /\ [Next]_vars => TypeOK'
<1> SUFFICES ASSUME TypeOK, [Next]_vars PROVE TypeOK'
  OBVIOUS
<1> USE AlertsAssumption DEF TypeOK, Sources
<1>1. CASE BeginScan
  <2>1. {Fingerprint(f) : f \in Acknowledged} \subseteq {Fingerprint(f) : f \in Findings}
    BY DEF Acknowledged
  <2>0. assumed' \subseteq Of("db")
    BY <1>1 DEF BeginScan, Acknowledged, Of
  <2>2. alerted' \subseteq {Fingerprint(f) : f \in Findings}
    BY <1>1, <2>1 DEF BeginScan
  <2>3. phase' = "db" /\ todo' \subseteq Of("db")
    BY <1>1 DEF BeginScan, Query
  <2>4. up' = up /\ up /\ UNCHANGED <<open, old, known, initialDone, received, lost, bounds>>
    BY <1>1 DEF BeginScan
  <2> QED
    BY <2>0, <2>2, <2>3, <2>4 DEF bounds
<1>2. CASE NextSource
  <2>1. phase' \in Sources \cup {"sleep"} /\ todo' \subseteq Of(phase') /\ up
    BY <1>2 DEF NextSource, Query
  <2> QED
    BY <1>2, <2>1 DEF NextSource, history, bounds
<1>3. CASE EndpointsFail
  BY <1>3 DEF EndpointsFail, history
<1>12. CASE TickFails
  BY <1>12 DEF TickFails, history
<1>4. ASSUME NEW f \in Findings, Skip(f)
      PROVE TypeOK'
  <2>1. phase # "sleep"
    BY <1>4 DEF Skip, Of
  <2> QED
    BY <1>4, <2>1 DEF Skip, history, bounds
<1>5. ASSUME NEW f \in Findings, NEW sent \in [Chats -> Attempt], Send(f, sent)
      PROVE TypeOK'
  <2>1. phase # "sleep" /\ up
    BY <1>5 DEF Send, Of
  <2>2. {received', lost'} \subseteq [Findings -> [Chats -> Nat]]
    <3>1. /\ [c \in Chats |-> received[f][c] + sent[c].copies] \in [Chats -> Nat]
          /\ [c \in Chats |-> lost[f][c] + Unconfirmed(sent[c])] \in [Chats -> Nat]
      <4>1. \A c \in Chats : received[f][c] \in Nat /\ lost[f][c] \in Nat
        OBVIOUS
      <4> QED
        BY <4>1, Copies
    <3> QED
      BY <1>5, <3>1 DEF Send
  <2>3. alerted' \subseteq {Fingerprint(g) : g \in Findings}
    BY <1>5 DEF Send, Remember
  <2>4. failures' \in 0..MaxFailures
    BY <1>5 DEF Send
  <2> QED
    BY <1>5, <2>1, <2>2, <2>3, <2>4 DEF Send
<1>6. CASE Crash
  <2>1. crashes' \in 0..MaxCrashes
    BY <1>6 DEF Crash
  <2>2. open' \subseteq Findings /\ known' \subseteq {"db", "endpoint"}
    BY <1>6 DEF Crash
  <2>3. /\ up' = FALSE /\ initialDone' = FALSE /\ alerted' = {} /\ phase' = "sleep" /\ todo' = {}
        /\ UNCHANGED <<old, failures, changes>>
    BY <1>6 DEF Crash
  <2>4. {received', lost'} \subseteq [Findings -> [Chats -> Nat]] /\ assumed' \subseteq Of("db")
    BY <1>6 DEF Crash, NoMessages
  <2> HIDE AlertsAssumption
  <2> QED
    BY <2>1, <2>2, <2>3, <2>4
<1>7. CASE Start
  BY <1>7 DEF Start, memory, history, bounds
<1>8. ASSUME NEW f \in Findings, Detect(f)
      PROVE TypeOK'
  <2>1. known' \subseteq {"db", "endpoint"}
    BY <1>8 DEF Detect
  <2> QED
    BY <1>8, <2>1 DEF Detect, memory, history
<1>9. ASSUME NEW f \in Findings, Close(f)
      PROVE TypeOK'
  BY <1>9 DEF Close, memory, history, bounds
<1>10. ASSUME NEW f \in Findings, Age(f)
       PROVE TypeOK'
  BY <1>10 DEF Age, memory, history, bounds
<1>11. CASE UNCHANGED vars
  BY <1>11 DEF vars, memory, history, bounds
<1> QED
  BY <1>1, <1>2, <1>3, <1>4, <1>5, <1>6, <1>7, <1>8, <1>9, <1>10, <1>11, <1>12 DEF Next, ScanStep

\* Type correctness: every set stays within its universe, a scan that sleeps has
\* nothing to do, and a process that is down remembers nothing.
THEOREM TypeCorrect == Spec => []TypeOK
BY TypeInit, TypeStep, PTL DEF Spec

-----------------------------------------------------------------------------

\* What a chat got and was confirmed is remembered: a message about it is not sent again.
GotIsAlerted ==
    \A f \in Findings, c \in Chats : received[f][c] > lost[f][c] => Fingerprint(f) \in alerted

AlertInv == TypeOK /\ SentOnce /\ GotIsAlerted /\ AlertedWereSent

LEMMA AlertInit == Init => AlertInv
<1> SUFFICES ASSUME Init PROVE AlertInv
  OBVIOUS
<1>1. TypeOK
  BY TypeInit
<1>2. SentOnce /\ GotIsAlerted /\ AlertedWereSent
  BY DEF Init, NoMessages, SentOnce, GotIsAlerted, AlertedWereSent
<1> QED
  BY <1>1, <1>2 DEF AlertInv

\* A step that sends nothing and keeps _alerted keeps what the two say of each other.
LEMMA NothingSent ==
    ASSUME AlertInv, TypeOK', UNCHANGED <<alerted, history>>
    PROVE  AlertInv'
BY DEF AlertInv, SentOnce, GotIsAlerted, AlertedWereSent, history

LEMMA AlertStep == AlertInv /\ [Next]_vars => AlertInv'
<1> SUFFICES ASSUME AlertInv, [Next]_vars PROVE AlertInv'
  OBVIOUS
<1>t. TypeOK /\ TypeOK'
  BY TypeStep DEF AlertInv
<1>1. CASE BeginScan
  <2>1. received' = received /\ lost' = lost /\ assumed' = assumed \cup Acknowledged
        /\ alerted' = alerted \cup {Fingerprint(f) : f \in Acknowledged}
    BY <1>1 DEF BeginScan
  <2>2. Acknowledged \subseteq Findings
    BY <1>t DEF Acknowledged, TypeOK
  <2>3. SentOnce' /\ GotIsAlerted'
    BY <2>1 DEF AlertInv, SentOnce, GotIsAlerted
  <2>4. AlertedWereSent'
    BY <2>1, <2>2 DEF AlertInv, AlertedWereSent
  <2> QED
    BY <2>3, <2>4, <1>t DEF AlertInv
<1>2. CASE NextSource
  BY <1>2, <1>t, NothingSent DEF NextSource
<1>3. CASE EndpointsFail
  BY <1>3, <1>t, NothingSent DEF EndpointsFail
<1>12. CASE TickFails
  BY <1>12, <1>t, NothingSent DEF TickFails
<1>4. ASSUME NEW f \in Findings, Skip(f)
      PROVE AlertInv'
  BY <1>4, <1>t, NothingSent DEF Skip
<1>5. ASSUME NEW f \in Findings, NEW sent \in [Chats -> Attempt], Send(f, sent)
      PROVE AlertInv'
  <2>1. \A c \in Chats : received[f][c] \in Nat /\ lost[f][c] \in Nat /\ received[f][c] <= lost[f][c]
    BY <1>5, <1>t DEF AlertInv, GotIsAlerted, Send, TypeOK
  <2>2. \A g \in Findings : g # f => received'[g] = received[g] /\ lost'[g] = lost[g]
    BY <1>5, <1>t DEF Send, TypeOK
  <2>3. \A c \in Chats : /\ received'[f][c] = received[f][c] + sent[c].copies
                         /\ lost'[f][c] = lost[f][c] + Unconfirmed(sent[c])
    BY <1>5, <1>t DEF Send, TypeOK
  <2>4. alerted' = alerted \cup Remember(f, sent) /\ assumed' = assumed
    BY <1>5 DEF Send
  <2>8. \A c \in Chats : sent[c].ok => Remember(f, sent) = {Fingerprint(f)}
    BY DEF Remember
  <2>5. SentOnce'
    <3>1. \A c \in Chats : received'[f][c] <= 1 + lost'[f][c]
      BY <2>1, <2>3, Copies
    <3> QED
      BY <2>2, <3>1 DEF AlertInv, SentOnce
  <2>6. GotIsAlerted'
    <3>1. ASSUME NEW c \in Chats, received'[f][c] > lost'[f][c]
          PROVE  Fingerprint(f) \in alerted'
      <4>1. sent[c].ok
        BY <2>1, <2>3, <3>1, Copies
      <4> QED
        BY <2>4, <2>8, <4>1
    <3> QED
      BY <2>2, <2>4, <3>1 DEF AlertInv, GotIsAlerted
  <2>7. AlertedWereSent'
    <3>1. ASSUME NEW g \in Findings, NEW c \in Chats, received[g][c] > 0
          PROVE  received'[g][c] > 0
      <4>1. CASE g = f
        BY <2>1, <2>3, <3>1, <4>1, Copies
      <4> QED
        BY <2>2, <3>1, <4>1
    <3>2. ASSUME NEW k \in alerted
          PROVE \E g \in Findings :
                  Fingerprint(g) = k /\ (g \in assumed' \/ \E c \in Chats : received'[g][c] > 0)
      BY <2>4, <3>1 DEF AlertInv, AlertedWereSent
    <3>3. ASSUME NEW k \in Remember(f, sent)
          PROVE  k = Fingerprint(f) /\ \E c \in Chats : received'[f][c] > 0
      <4>1. PICK c \in Chats : sent[c].ok
        BY DEF Remember
      <4>2. received'[f][c] > 0
        BY <2>1, <2>3, <4>1, Copies
      <4> QED
        BY <4>1, <4>2 DEF Remember
    <3> QED
      BY <2>4, <3>2, <3>3 DEF AlertedWereSent
  <2> QED
    BY <1>t, <2>5, <2>6, <2>7 DEF AlertInv
<1>6. CASE Crash
  <2>1. alerted' = {} /\ \A f \in Findings, c \in Chats : received'[f][c] = 0 /\ lost'[f][c] = 0
    BY <1>6 DEF Crash, NoMessages
  <2> QED
    BY <2>1, <1>t DEF AlertInv, SentOnce, GotIsAlerted, AlertedWereSent
<1>7. CASE Start
  BY <1>7, <1>t, NothingSent DEF Start, memory
<1>8. ASSUME NEW f \in Findings, Detect(f)
      PROVE AlertInv'
  BY <1>8, <1>t, NothingSent DEF Detect, memory
<1>9. ASSUME NEW f \in Findings, Close(f)
      PROVE AlertInv'
  BY <1>9, <1>t, NothingSent DEF Close, memory
<1>10. ASSUME NEW f \in Findings, Age(f)
       PROVE AlertInv'
  BY <1>10, <1>t, NothingSent DEF Age, memory
<1>11. CASE UNCHANGED vars
  BY <1>11, <1>t, NothingSent DEF vars, memory
<1> QED
  BY <1>1, <1>2, <1>3, <1>4, <1>5, <1>6, <1>7, <1>8, <1>9, <1>10, <1>11, <1>12 DEF Next, ScanStep

\* A chat gets one message about a finding from one process, and one more for each
\* delivery of it that was not confirmed, whatever fails and however often the
\* finding goes and comes back.
THEOREM SentOnceHolds == Spec => []SentOnce
<1>1. AlertInv => SentOnce
  BY DEF AlertInv
<1> QED
  BY <1>1, AlertInit, AlertStep, PTL DEF Spec

\* A finding that will not be sent again, because its fingerprint is remembered,
\* has one with that fingerprint that a chat got or that was old at the start.
THEOREM RememberedWasSent == Spec => []AlertedWereSent
<1>1. AlertInv => AlertedWereSent
  BY DEF AlertInv
<1> QED
  BY <1>1, AlertInit, AlertStep, PTL DEF Spec

-----------------------------------------------------------------------------
(* AutoScan *)

\* The instance's operator on finite sets is the library's.
LEMMA SameCardinality ==
  ASSUME NEW S
  PROVE  Scanner!Cardinality(S) = Cardinality(S)
BY DEF Scanner!Cardinality, Cardinality

\* A set of numbers that has any has a least one.
LEMMA Least ==
  ASSUME NEW T \in SUBSET Nat, T # {}
  PROVE  \E i \in T : \A j \in T : i <= j
<1> DEFINE R == OpToRel(<, Nat)
<1>1. IsWellFoundedOn(R, Nat)
  BY NatLessThanWellFounded
<1> HIDE DEF R
<1>2. PICK i \in T : \A j \in T : <<j, i>> \notin R
  BY <1>1, WFMin
<1>3. \A j \in T : ~(j < i)
  BY <1>2 DEF R, OpToRel
<1> QED BY <1>2, <1>3

\* Any n smaller than the number of places is the rank of one of them.
LEMMA Ranked ==
  ASSUME NEW top \in Nat, NEW places \in SUBSET (1..top), NEW n \in Nat, n < Cardinality(places)
  PROVE  \E i \in places : Cardinality({j \in places : j < i}) = n
<1>1. PICK Before : Before = [m \in Nat |-> {j \in places : j < m}]
  OBVIOUS
<1>2. IsFiniteSet(1..top)
  BY FS_Interval
<1>3. ASSUME NEW m \in Nat
      PROVE  IsFiniteSet(Before[m]) /\ Cardinality(Before[m]) \in Nat
  <2>1. Before[m] \in SUBSET (1..top)
    BY <1>1
  <2>2. IsFiniteSet(Before[m])
    BY <1>2, <2>1, FS_Subset
  <2> QED BY <2>2, FS_CardinalityType
<1>4. PICK T : T = {m \in Nat : n < Cardinality(Before[m])}
  OBVIOUS
<1>5. top + 1 \in T
  <2>2. top + 1 \in Nat
    OBVIOUS
  <2>3. \A j \in places : j < top + 1
    OBVIOUS
  <2>4. Before[top + 1] = {j \in places : j < top + 1}
    BY <1>1, <2>2
  <2>1. Before[top + 1] = places
    BY <2>3, <2>4
  <2> QED BY <1>4, <2>1, <2>2
<1>6. PICK m \in T : \A k \in T : m <= k
  <2>1. T \in SUBSET Nat /\ T # {}
    BY <1>4, <1>5
  <2> QED BY <2>1, Least
<1>7. m # 0
  <2>1. Before[0] = {}
    <3>1. \A j \in places : ~(j < 0)
      OBVIOUS
    <3>2. Before[0] = {j \in places : j < 0}
      BY <1>1
    <3> QED BY <3>1, <3>2
  <2>2. Cardinality(Before[0]) = 0
    BY <2>1, FS_EmptySet
  <2> QED BY <1>4, <1>6, <2>2
<1>8. m \in Nat /\ m - 1 \in Nat /\ m - 1 \notin T
  BY <1>4, <1>6, <1>7
<1>9. Before[m] = IF m - 1 \in places THEN Before[m - 1] \cup {m - 1} ELSE Before[m - 1]
  <2>1. Before[m] = {j \in places : j < m} /\ Before[m - 1] = {j \in places : j < m - 1}
    BY <1>1, <1>8
  <2>2. \A j \in places : j < m <=> j < m - 1 \/ j = m - 1
    BY <1>8
  <2> QED BY <2>1, <2>2
<1>10. m - 1 \notin Before[m - 1]
  BY <1>1, <1>8
<1>11. Cardinality(Before[m - 1]) <= n /\ n < Cardinality(Before[m])
  BY <1>3, <1>4, <1>6, <1>8
<1>12. m - 1 \in places
  <2>1. CASE m - 1 \notin places
    <3>1. Before[m] = Before[m - 1]
      BY <1>9, <2>1
    <3> QED BY <1>3, <1>8, <1>11, <3>1
  <2> QED BY <2>1
<1>13. Cardinality(Before[m]) = Cardinality(Before[m - 1]) + 1
  BY <1>3, <1>8, <1>9, <1>10, <1>12, FS_AddElement
<1>14. Cardinality(Before[m - 1]) = n
  BY <1>3, <1>8, <1>11, <1>13
<1> QED BY <1>1, <1>8, <1>12, <1>14

\* pick_next returns one of the devices it is given.
LEMMA PickedIsGiven ==
  ASSUME NEW top \in Nat, NEW places \in SUBSET (1..top), places # {}, NEW cursor \in Nat
  PROVE  \E i \in places, n \in 1..top :
            Scanner!Pick(places, cursor) = [device |-> ByIp[i], cursor |-> n, lost |-> FALSE]
<1>1. PICK size : size = Cardinality(places)
  OBVIOUS
<1>2. IsFiniteSet(1..top) /\ Cardinality(1..top) = top
  <2>1. Cardinality(1..top) = IF 1 > top THEN 0 ELSE top - 1 + 1
    BY FS_Interval
  <2> QED BY <2>1, FS_Interval
<1>3. IsFiniteSet(places) /\ size <= top
  BY <1>1, <1>2, FS_Subset
<1>4. size \in Nat /\ size # 0
  BY <1>1, <1>3, FS_EmptySet, FS_CardinalityType
<1>5. PICK n : n = cursor % size
  OBVIOUS
<1>6. n \in Nat /\ n < size
  BY <1>4, <1>5
<1>7. \E i \in places : Cardinality({j \in places : j < i}) = n
  <2>1. places \in SUBSET (1..top) /\ n < Cardinality(places)
    BY <1>1, <1>6
  <2> QED BY <1>6, <2>1, Ranked, ZenonT(40)
<1>8. PICK i : i = Scanner!Nth(places, n)
  OBVIOUS
<1>9. i \in places
  BY <1>7, <1>8, SameCardinality DEF Scanner!Nth
<1>10. Scanner!Pick(places, cursor) = [device |-> ByIp[i], cursor |-> n + 1, lost |-> FALSE]
  BY <1>1, <1>5, <1>8, SameCardinality DEF Scanner!Pick
<1>11. n + 1 \in 1..top
  BY <1>3, <1>4, <1>6
<1> QED BY <1>9, <1>10, <1>11

\* The organisation that is served is one of the queue.
LEMMA FirstIsQueued ==
  ASSUME Scanner!Roster, queue \in SUBSET Scanner!Due, queue # {}
  PROVE  Scanner!First \in queue
<1>1. PICK T : T = {due.place : due \in queue}
  OBVIOUS
<1>2. T \in SUBSET Nat /\ T # {}
  BY <1>1 DEF Scanner!Due, Scanner!Roster
<1>3. PICK i \in T : \A j \in T : i <= j
  BY <1>2, Least
<1>4. \E due \in queue : \A other \in queue : due.place <= other.place
  BY <1>1, <1>3
<1> QED BY <1>4 DEF Scanner!First

\* The scope a device is picked from.
LEMMA PickedInScope ==
  ASSUME Scanner!Roster, NEW o, NEW subnet, NEW cursor \in Nat, Scanner!Eligible(o, subnet) # {}
  PROVE  LET s == Scanner!Pick(Scanner!Eligible(o, subnet), cursor)
         IN  /\ s \in Scanner!Scan /\ Owner[s.device] = o
             /\ subnet \/ s.device \in Self
<1>1. PICK places : places = Scanner!Eligible(o, subnet)
  OBVIOUS
<1>2. PICK top : top = Len(ByIp)
  OBVIOUS
<1>3. top \in Nat /\ places \in SUBSET (1..top)
  BY <1>1, <1>2 DEF Scanner!Roster, Scanner!Eligible
<1>4. PICK i \in places, n \in 1..top :
         Scanner!Pick(places, cursor) = [device |-> ByIp[i], cursor |-> n, lost |-> FALSE]
  BY <1>1, <1>3, PickedIsGiven
<1>5. Owner[ByIp[i]] = o /\ (subnet \/ ByIp[i] \in Self)
  BY <1>1 DEF Scanner!Eligible
<1>6. ByIp[i] \in Scanner!Hosts
  BY <1>2, <1>3 DEF Scanner!Hosts
<1>7. n \in 0..Len(ByIp)
  BY <1>2, <1>3
<1> QED BY <1>1, <1>4, <1>5, <1>6, <1>7 DEF Scanner!Scan

LEMMA ScannerTypeInit == Scanner!Roster /\ Scanner!Init => Scanner!TypeOK
<1> SUFFICES ASSUME Scanner!Roster, Scanner!Init PROVE Scanner!TypeOK
  OBVIOUS
<1>1. 0 \in 0..Len(ByIp)
  BY DEF Scanner!Roster
<1> QED BY <1>1 DEF Scanner!Init, Scanner!TypeOK, Scanner!Config

LEMMA ScannerTypeStep ==
  ASSUME Scanner!Roster, Scanner!TypeOK, [Scanner!Next]_Scanner!vars
  PROVE  Scanner!TypeOK'
<1> USE DEF Scanner!TypeOK
<1>1. ASSUME NEW o \in Scanner!Orgs, NEW enabled \in BOOLEAN, NEW subnet \in BOOLEAN,
             Scanner!UpdateConfig(o, enabled, subnet)
      PROVE  Scanner!TypeOK'
  <2>1. config' \in [Scanner!Orgs -> Scanner!Config]
    BY <1>1 DEF Scanner!UpdateConfig, Scanner!Config
  <2> QED BY <1>1, <2>1 DEF Scanner!UpdateConfig, Scanner!Served, Scanner!First
<1>2. ASSUME NEW o \in Scanner!Orgs, Scanner!ClearDevices(o)
      PROVE  Scanner!TypeOK'
  <2>1. PICK own \in SUBSET Scanner!Hosts :
           scan' = IF scan.device \in own THEN [scan EXCEPT !.lost = TRUE] ELSE scan
    BY <1>2 DEF Scanner!ClearDevices
  <2>2. CASE scan = Scanner!NoScan
    <3>1. scan' = scan
      BY <2>1, <2>2 DEF Scanner!NoScan, Scanner!Roster
    <3> QED BY <1>2, <2>2, <3>1 DEF Scanner!ClearDevices
  <2>3. CASE scan \in Scanner!Scan /\ scan # Scanner!NoScan
    <3>1. scan' \in Scanner!Scan /\ scan'.device = scan.device
      BY <2>1, <2>3 DEF Scanner!Scan
    <3> QED BY <1>2, <2>3, <3>1 DEF Scanner!ClearDevices, Scanner!Served, Scanner!First
  <2> QED BY <2>2, <2>3 DEF Scanner!ClearDevices, Scanner!Served, Scanner!First
<1>3. ASSUME NEW o \in Scanner!Orgs, Scanner!Elapse(o)
      PROVE  Scanner!TypeOK'
  <2>1. config' \in [Scanner!Orgs -> Scanner!Config]
    BY <1>3 DEF Scanner!Elapse, Scanner!Config
  <2> QED BY <1>3, <2>1 DEF Scanner!Elapse, Scanner!Served, Scanner!First
<1>4. ASSUME NEW d \in Scanner!Hosts, Scanner!Observe(d)
      PROVE  Scanner!TypeOK'
  BY <1>4 DEF Scanner!Observe, Scanner!Served, Scanner!First
<1>5. CASE Scanner!BeginTick
  BY <1>5 DEF Scanner!BeginTick
<1>6. CASE Scanner!RunOnce
  <2>1. Scanner!First \in queue
    BY <1>6, FirstIsQueued DEF Scanner!RunOnce
  <2>2. Scanner!Served \in Scanner!Orgs
    BY <2>1 DEF Scanner!Served, Scanner!Due, Scanner!Orgs
  <2>3. PICK devices : devices = Scanner!Eligible(Scanner!Served, Scanner!First.subnet)
    OBVIOUS
  <2>4. CASE devices = {}
    <3>1. queue' = queue \ {Scanner!First} /\ scan' = scan /\ scan = Scanner!NoScan
      BY <1>6, <2>3, <2>4 DEF Scanner!RunOnce
    <3> QED BY <1>6, <3>1 DEF Scanner!RunOnce
  <2>5. CASE devices # {}
    <3>1. PICK cursor : cursor = config[Scanner!Served].cursor
      OBVIOUS
    <3>2. cursor \in Nat
      BY <2>2, <3>1 DEF Scanner!Config
    <3>3. queue' = queue /\ queue # {} /\ scan' = Scanner!Pick(devices, cursor)
      BY <1>6, <2>3, <2>5, <3>1 DEF Scanner!RunOnce
    <3>4. scan' \in Scanner!Scan /\ Owner[scan'.device] = Scanner!Served
      BY <2>3, <2>5, <3>2, <3>3, PickedInScope
    <3>5. Scanner!Served' = Scanner!Served
      BY <3>3 DEF Scanner!Served, Scanner!First
    <3> QED BY <1>6, <3>3, <3>4, <3>5 DEF Scanner!RunOnce
  <2> QED BY <2>4, <2>5
<1>7. CASE Scanner!ScanEnds
  <2>1. scan \in Scanner!Scan /\ Owner[scan.device] \in Scanner!Orgs
    BY <1>7 DEF Scanner!ScanEnds, Scanner!Scan, Scanner!Roster
  <2>2. config' \in [Scanner!Orgs -> Scanner!Config]
    BY <1>7, <2>1 DEF Scanner!ScanEnds, Scanner!Scan, Scanner!Config
  <2> QED BY <1>7, <2>2 DEF Scanner!ScanEnds
<1>8. CASE Scanner!ScanBreaksSession
  BY <1>8 DEF Scanner!ScanBreaksSession
<1>9. CASE UNCHANGED Scanner!vars
  BY <1>9 DEF Scanner!vars, Scanner!Served, Scanner!First
<1> QED
  BY <1>1, <1>2, <1>3, <1>4, <1>5, <1>6, <1>7, <1>8, <1>9 DEF Scanner!Next

\* Every reachable state of the scanner is well typed: what it scans is a device
\* of the organisation the tick has come to.
THEOREM ScannerTypeCorrect == Scanner!Spec => []Scanner!TypeOK
<1>1. Scanner!Init => Scanner!TypeOK
  BY ScannerRoster, ScannerTypeInit
<1>2. Scanner!TypeOK /\ [Scanner!Next]_Scanner!vars => Scanner!TypeOK'
  BY ScannerRoster, ScannerTypeStep
<1> QED BY <1>1, <1>2, PTL DEF Scanner!Spec

\* A device is neither scanned nor in the scope of an organisation of this tick.
Barred(d) ==
  /\ scan.device # d
  /\ \A due \in queue : OrgOrder[due.place] = Owner[d] => ~due.subnet /\ d \notin Self

\* Between two ticks every device is barred.
LEMMA IdleBars ==
  ASSUME Scanner!Roster, Scanner!TypeOK, queue = {}, NEW d \in Scanner!Hosts
  PROVE  Barred(d)
<1>1. scan = Scanner!NoScan
  BY DEF Scanner!TypeOK
<1> QED BY <1>1 DEF Barred, Scanner!NoScan, Scanner!Roster

\* What is not allowed stays barred, whatever the tick under way has read.
LEMMA BarredStep ==
  ASSUME Scanner!Roster, Scanner!TypeOK, NEW d \in Scanner!Hosts, Barred(d), ~Scanner!Allowed(d),
         [Scanner!Next]_Scanner!vars
  PROVE  Barred(d)'
<1>1. scan.device # d
  BY DEF Barred
<1>2. CASE Scanner!RunOnce
  <2>1. Scanner!First \in queue
    BY <1>2, FirstIsQueued DEF Scanner!RunOnce, Scanner!TypeOK
  <2>2. Scanner!Served \in Scanner!Orgs
    BY <2>1 DEF Scanner!Served, Scanner!Due, Scanner!Orgs, Scanner!TypeOK
  <2>3. PICK devices : devices = Scanner!Eligible(Scanner!Served, Scanner!First.subnet)
    OBVIOUS
  <2>4. queue' \in SUBSET queue
    BY <1>2, <2>3 DEF Scanner!RunOnce
  <2>5. CASE devices = {}
    <3>1. scan' = scan
      BY <1>2, <2>3, <2>5 DEF Scanner!RunOnce
    <3> QED BY <2>4, <3>1 DEF Barred
  <2>6. CASE devices # {}
    <3>1. PICK cursor : cursor = config[Scanner!Served].cursor
      OBVIOUS
    <3>2. cursor \in Nat
      BY <2>2, <3>1 DEF Scanner!Config, Scanner!TypeOK
    <3>3. scan' = Scanner!Pick(devices, cursor)
      BY <1>2, <2>3, <2>6, <3>1 DEF Scanner!RunOnce
    <3>4. /\ Owner[scan'.device] = Scanner!Served
          /\ Scanner!First.subnet \/ scan'.device \in Self
      BY <2>3, <2>6, <3>2, <3>3, PickedInScope
    <3>5. scan'.device # d
      BY <2>1, <3>4 DEF Barred, Scanner!Served
    <3> QED BY <2>4, <3>5 DEF Barred
  <2> QED BY <2>5, <2>6
<1>3. CASE Scanner!BeginTick
  BY <1>1, <1>3 DEF Scanner!BeginTick, Barred, Scanner!Allowed
<1>4. ASSUME NEW o \in Scanner!Orgs, Scanner!ClearDevices(o)
      PROVE  Barred(d)'
  <2>1. scan'.device = scan.device
    <3>1. CASE scan \in Scanner!Scan
      BY <1>4, <3>1 DEF Scanner!ClearDevices, Scanner!Scan
    <3>2. CASE scan = Scanner!NoScan
      BY <1>4, <3>2 DEF Scanner!ClearDevices, Scanner!NoScan
    <3> QED BY <3>1, <3>2 DEF Scanner!TypeOK
  <2> QED BY <1>4, <2>1 DEF Scanner!ClearDevices, Barred
<1>5. CASE Scanner!ScanEnds \/ Scanner!ScanBreaksSession
  <2>1. scan' = Scanner!NoScan /\ queue' \in SUBSET queue
    BY <1>5 DEF Scanner!ScanEnds, Scanner!ScanBreaksSession
  <2> QED BY <2>1 DEF Barred, Scanner!NoScan, Scanner!Roster
<1>6. CASE UNCHANGED <<queue, scan>>
  BY <1>6 DEF Barred
<1>7. ASSUME NEW o \in Scanner!Orgs,
             \/ \E enabled, subnet \in BOOLEAN : Scanner!UpdateConfig(o, enabled, subnet)
             \/ Scanner!Elapse(o)
      PROVE  UNCHANGED <<queue, scan>>
  BY <1>7 DEF Scanner!UpdateConfig, Scanner!Elapse
<1>8. ASSUME NEW x \in Scanner!Hosts, Scanner!Observe(x)
      PROVE  UNCHANGED <<queue, scan>>
  BY <1>8 DEF Scanner!Observe
<1>9. CASE UNCHANGED Scanner!vars
  BY <1>6, <1>9 DEF Scanner!vars
<1> QED
  BY <1>2, <1>3, <1>4, <1>5, <1>6, <1>7, <1>8, <1>9 DEF Scanner!Next

LEMMA ScannerWithdraws == Scanner!Spec => Scanner!WithdrawnByNextTick
<1>1. ASSUME NEW d \in Scanner!Hosts
      PROVE  Scanner!Spec => [](queue = {} /\ []~Scanner!Allowed(d) => [](scan.device # d))
  <2>1. Scanner!TypeOK /\ queue = {} => Barred(d)
    BY <1>1, ScannerRoster, IdleBars
  <2>2. Scanner!TypeOK /\ ~Scanner!Allowed(d) /\ Barred(d) /\ [Scanner!Next]_Scanner!vars => Barred(d)'
    BY <1>1, ScannerRoster, BarredStep
  <2>3. Barred(d) => scan.device # d
    BY DEF Barred
  <2>4. Scanner!Spec => []Scanner!TypeOK
    BY ScannerTypeCorrect
  <2> QED BY <2>1, <2>2, <2>3, <2>4, PTL DEF Scanner!Spec
<1> QED BY <1>1 DEF Scanner!WithdrawnByNextTick

\* A behaviour of the jobs is one of the scanner: the alert loop shares nothing with it.
LEMMA JobsHaveScanner == JobsSpec => Scanner!Spec
<1>1. JobsInit => Scanner!Init
  BY DEF JobsInit
<1>2. [JobsNext]_allVars => [Scanner!Next]_Scanner!vars
  BY DEF JobsNext, Alerting, Scanning, allVars, scanVars, Scanner!vars
<1>3. JobsSpec => JobsInit /\ [][JobsNext]_allVars
  BY DEF JobsSpec
<1> QED
  BY <1>1, <1>2, <1>3, PTL DEF Scanner!Spec

\* "ONLY when `scan_subnet` is enabled": once the scope of a device, or the whole
\* autoscan of its organisation, is withdrawn for good, it is scanned no more
\* from the end of the tick under way on.
THEOREM WithdrawnEnds == JobsSpec => WithdrawnByNextTick
BY JobsHaveScanner, ScannerWithdraws DEF WithdrawnByNextTick

=============================================================================
