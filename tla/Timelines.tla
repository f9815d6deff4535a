------------------------------ MODULE Timelines ------------------------------
(***************************************************************************)
(* The evidence timelines of server/app/services/live.py, one list for     *)
(* each host label, kept in the dictionary _DEVICE_TIMELINES: what         *)
(* sync_active, record_dns_query, record_network_traffic and list_devices  *)
(* write there.  The rest of these requests is in LiveFeed; the two        *)
(* share the consent and the time.                                         *)
(*                                                                         *)
(* record_timeline_event takes no lock, and requests are threads. What is  *)
(* atomic here is one access to the dictionary: the test for the key, the  *)
(* store of an empty list, the read, the store of the new list (filtering, *)
(* adding, sorting and trimming work on a list of the thread's own).       *)
(***************************************************************************)
EXTENDS Naturals, Sequences, FiniteSets, SequencesExt

CONSTANTS
    Labels,     \* host labels: names and addresses
    Devices,    \* rows of the grid, with an ip
    Handlers,   \* threads that serve a sync or a poll
    Window,     \* MAX_TIMELINE_WINDOW
    MaxEvents,  \* MAX_TIMELINE_EVENTS_PER_DEVICE
    Reports,    \* bound: the evidence in the syncs of agents: [host, kinds]
    MaxTime,    \* bound
    None

Reported == {"socket", "dns", "traffic"}
Evidence == [kind : Reported \cup {"presence"}, at : Nat]

\* What the constants are; Services, which instantiates this module, assumes it.
TimelinesAssumption ==
    /\ {Window, MaxEvents, MaxTime} \subseteq Nat
    /\ \A d \in Devices : d.ip \in Labels
    /\ Reports \subseteq [host : Labels, kinds : SUBSET Reported]

VARIABLES
    time,
    consent,    \* AutoScanConfig.scan_subnet, None without a row
    seenAt,     \* last_seen of the grid rows
    timeline,   \* _DEVICE_TIMELINES: sequences of [kind, at]
    listed,     \* its keys
    toRecord,   \* what each handler has still to record: pairs of a label and an event
    recording,  \* the recordings under way: [by, host, event, step, made]
    told        \* history: what was recorded while nothing else was for its label

lineVars == <<time, consent, seenAt, timeline, listed, toRecord, recording, told>>

Recording == [by : Handlers, host : Labels, event : Evidence, step : {"make", "get", "store"}, made : Seq(Evidence)]

LinesInit ==
    /\ time = 1
    /\ consent \in {None, TRUE, FALSE}
    /\ seenAt = [d \in Devices |-> 1]
    /\ timeline = [h \in Labels |-> <<>>] /\ listed = {}
    /\ toRecord = [k \in Handlers |-> {}] /\ recording = {}
    /\ told = {}

(***************************************************************************)
(* What record_timeline_event makes of a list: what is older than the      *)
(* window goes, the event is added in order of its time, and the newest    *)
(* MaxEvents stay.  A timeline is in the order of time, so what is older   *)
(* than something is a beginning of it.                                    *)
(***************************************************************************)
Expired(events) == Cardinality({i \in DOMAIN events : events[i].at + Window < time})
UpTo(events, e) == Cardinality({i \in DOMAIN events : events[i].at <= e.at})
InOrder(events, e) ==
    LET old == Expired(events)
        place == UpTo(events, e)
    IN SubSeq(events, old + 1, place) \o <<e>>
       \o SubSeq(events, (IF old < place THEN place ELSE old) + 1, Len(events))

\* Mutant: the oldest MaxEvents stay.
RecordedOldest(events, e) ==
    LET all == InOrder(events, e)
    IN SubSeq(all, 1, IF Len(all) > MaxEvents THEN MaxEvents ELSE Len(all))
Recorded(events, e) ==
    LET all == InOrder(events, e)
    IN SubSeq(all, IF Len(all) > MaxEvents THEN Len(all) - MaxEvents + 1 ELSE 1, Len(all))

\* get_device_timeline
Timeline(h) == SubSeq(timeline[h], Expired(timeline[h]) + 1, Len(timeline[h]))

(***************************************************************************)
(* The requests: what each has to record, one after the other.             *)
(***************************************************************************)
Idle(k) == toRecord[k] = {}
Free(k) == \A r \in recording : r.by # k

\* is_subnet_consent_granted: an organisation without a configuration consents.
\* Sockets are recorded without consent, DNS queries and traffic are not.
Granted(kind) == kind \in {"socket", "presence"} \/ consent # FALSE

\* sync_active
Sync(k, p) ==
    /\ Idle(k)
    /\ toRecord' = [toRecord EXCEPT ![k] = {<<p.host, [kind |-> c, at |-> time]>> : c \in p.kinds}]
    /\ UNCHANGED <<time, consent, seenAt, timeline, listed, recording, told>>

\* list_devices records every row's presence again, for the row's address.
Presence(d) == [kind |-> "presence", at |-> seenAt[d]]
Poll(k) ==
    /\ Idle(k)
    /\ toRecord' = [toRecord EXCEPT ![k] = {<<d.ip, Presence(d)>> : d \in Devices}]
    /\ UNCHANGED <<time, consent, seenAt, timeline, listed, recording, told>>

\* record_dns_query, record_network_traffic: nothing without consent.
Withhold(k, x) ==
    /\ Free(k) /\ x \in toRecord[k] /\ ~Granted(x[2].kind)
    /\ toRecord' = [toRecord EXCEPT ![k] = @ \ {x}]
    /\ UNCHANGED <<time, consent, seenAt, timeline, listed, recording, told>>

\* "if key not in _DEVICE_TIMELINES"
Check(k, x) ==
    /\ Free(k) /\ x \in toRecord[k] /\ Granted(x[2].kind)
    /\ recording' = recording \cup
          {[by |-> k, host |-> x[1], event |-> x[2], step |-> IF x[1] \in listed THEN "get" ELSE "make", made |-> <<>>]}
    /\ UNCHANGED <<time, consent, seenAt, timeline, listed, toRecord, told>>

Moved(r, s) == recording' = (recording \ {r}) \cup {s}

\* "_DEVICE_TIMELINES[key] = []", also over what came since the test
Make(r) ==
    /\ r \in recording /\ r.step = "make"
    /\ timeline' = [timeline EXCEPT ![r.host] = <<>>] /\ listed' = listed \cup {r.host}
    /\ Moved(r, [r EXCEPT !.step = "get"])
    /\ UNCHANGED <<time, consent, seenAt, toRecord, told>>

\* "events = _DEVICE_TIMELINES[key]". Without the key, which a clear may have taken
\* since, the request fails.
Get(r) ==
    /\ r \in recording /\ r.step = "get"
    /\ IF r.host \in listed
       THEN /\ Moved(r, [r EXCEPT !.step = "store", !.made = Recorded(timeline[r.host], r.event)])
            /\ UNCHANGED toRecord
       ELSE recording' = recording \ {r} /\ toRecord' = [toRecord EXCEPT ![r.by] = {}]
    /\ UNCHANGED <<time, consent, seenAt, timeline, listed, told>>

\* Another recording for the label has tested for the key in vain, or has read the list.
Overlapped(r) == \E s \in recording : s # r /\ s.host = r.host /\ s.step # "get"

\* "_DEVICE_TIMELINES[key] = events"
Store(r) ==
    /\ r \in recording /\ r.step = "store"
    /\ timeline' = [timeline EXCEPT ![r.host] = r.made] /\ listed' = listed \cup {r.host}
    /\ recording' = recording \ {r}
    /\ toRecord' = [toRecord EXCEPT ![r.by] = @ \ {<<r.host, r.event>>}]
    /\ told' = IF Overlapped(r) THEN told ELSE told \cup {<<r.host, r.event>>}
    /\ UNCHANGED <<time, consent, seenAt>>

(***************************************************************************)
(* The world                                                               *)
(***************************************************************************)
\* A sweep sees the device again; the operator grants or revokes consent.
Seen(d) ==
    /\ seenAt' = [seenAt EXCEPT ![d] = time]
    /\ UNCHANGED <<time, consent, timeline, listed, toRecord, recording, told>>

SetConsent(c) ==
    /\ consent' = c
    /\ UNCHANGED <<time, seenAt, timeline, listed, toRecord, recording, told>>

\* clear_devices forgets the timelines, of every organisation; the requests go on.
ClearDevices ==
    /\ timeline' = [h \in Labels |-> <<>>] /\ listed' = {} /\ told' = {}
    /\ UNCHANGED <<time, consent, seenAt, toRecord, recording>>

\* The process restarts: only the database stays.
Restart ==
    /\ timeline' = [h \in Labels |-> <<>>] /\ listed' = {} /\ told' = {}
    /\ toRecord' = [k \in Handlers |-> {}] /\ recording' = {}
    /\ UNCHANGED <<time, consent, seenAt>>

Pass ==
    /\ time < MaxTime /\ time' = time + 1
    /\ UNCHANGED <<consent, seenAt, timeline, listed, toRecord, recording, told>>

LinesNext ==
    \/ \E k \in Handlers :
          \/ \E p \in Reports : Sync(k, p)
          \/ Poll(k)
          \/ \E x \in toRecord[k] : Withhold(k, x) \/ Check(k, x)
    \/ \E r \in recording : Make(r) \/ Get(r) \/ Store(r)
    \/ \E d \in Devices : Seen(d)
    \/ \E c \in BOOLEAN : SetConsent(c)
    \/ ClearDevices \/ Restart \/ Pass

LinesSpec == LinesInit /\ [][LinesNext]_lineVars

-----------------------------------------------------------------------------
\* An event that is recorded while no other recording for its label has read the
\* list, or found none, and not stored its own, stays in the label's timeline for
\* the length of the window, whatever is recorded later and however that overlaps,
\* unless MaxEvents others that are as recent have taken its place; the timeline is
\* in the order of time and within its bound. (Of recordings that overlap, only the
\* last store is sure to stay.)
EvidenceKept ==
    \A h \in Labels :
        /\ Len(timeline[h]) <= MaxEvents
        /\ \A i, j \in DOMAIN timeline[h] : i < j => timeline[h][i].at <= timeline[h][j].at
        /\ \A x \in told : x[1] = h /\ x[2].at + Window >= time =>
              \/ x[2] \in ToSet(Timeline(h))
              \/ Cardinality({i \in DOMAIN timeline[h] : timeline[h][i].at >= x[2].at}) = MaxEvents
=============================================================================
