--------------------------- MODULE TrackingSession ---------------------------
(***************************************************************************)
(* Live traffic tracking of one organisation: SessionManager in            *)
(* server/app/services/traffic/session_manager.py, the capture thread of   *)
(* each session (capture_adapter.py) and what it counts                    *)
(* (flow_aggregator.py).                                                   *)
(*                                                                         *)
(* A session lives in the memory of the server, with a row of              *)
(* live_tracking_sessions beside it that is written when tracking starts   *)
(* and when it is stopped. Requests run in threads of their own, and so    *)
(* does the capture: stopping a session sets an event that the capture     *)
(* only reads when a packet arrives. Times are left out.                   *)
(***************************************************************************)
EXTENDS Naturals, FiniteSets

CONSTANTS
    Sessions,     \* session ids, each drawn fresh (uuid4)
    Devices,      \* devices to track, a device standing for its address too
    Addresses,    \* every address on the wire
    None,
    Handlers,     \* requests served at once
    MaxPackets,   \* bound: packets that arrive for one session
    Eager,        \* a client may use an id it saw before start_tracking answered
    SniffFails,   \* the capture thread may lack Npcap or the permission
    Slow,         \* handling one packet may take longer than join's 1.5 seconds
    DbFails       \* a commit may fail

ASSUME DeviceAssumption == Devices \subseteq Addresses
ASSUME PacketAssumption == MaxPackets \in Nat

VARIABLES
    active,    \* SessionManager._active_sessions, with aggregator and verdict
    capture,   \* where the capture thread of each session is
    stopping,  \* ScapyCaptureAdapter._stop_event
    row,       \* live_tracking_sessions
    call       \* one request in progress per handler

vars == <<active, capture, stopping, row, call>>

\* Both ends of a packet; a flow's key forgets the direction.
Flows == {ends \in SUBSET Addresses : Cardinality(ends) = 2}
\* start() never gives "ERROR": capture is unavailable whenever it returns False.
Statuses == {"LIVE", "UNAVAILABLE", "STOPPED"}
Session == [device: Devices, status: Statuses, packets: 0..MaxPackets,
            flows: SUBSET Flows, detection: 0..MaxPackets \cup {None}]
Row == [status: Statuses, packets: 0..MaxPackets, flows: Nat]
ASSUME NoneAssumption == None \notin Session /\ None \notin Row /\ None \notin Sessions
Steps == {"idle", "row", "commit", "join", "save", "detect"}
Call == [step: Steps, session: Sessions \cup {None}, status: Statuses \cup {None},
         packets: 0..MaxPackets, flows: Nat]
Doing(step, s, status, packets, flows) ==
    [step |-> step, session |-> s, status |-> status, packets |-> packets, flows |-> flows]
Free == Doing("idle", None, None, 0, 0)
Phases == {"none", "starting", "sniffing", "handling", "filtering", "done", "failed"}

Init ==
    /\ active = [s \in Sessions |-> None]
    /\ capture = [s \in Sessions |-> "none"]
    /\ stopping = [s \in Sessions |-> FALSE]
    /\ row = [s \in Sessions |-> None]
    /\ call = [h \in Handlers |-> Free]

Continue(h, c) == call' = [call EXCEPT ![h] = c]

-----------------------------------------------------------------------------
(* start_tracking *)

\* ActiveTrackingSession.start and the entry in memory. Without scapy (import
\* fails) there is no thread; a thread that fails later changes no status.
StartTracking(h, s, d, scapy) ==
    /\ call[h].step = "idle" /\ active[s] = None /\ row[s] = None
    /\ active' = [active EXCEPT ![s] =
                    [device |-> d, status |-> IF scapy THEN "LIVE" ELSE "UNAVAILABLE",
                     packets |-> 0, flows |-> {}, detection |-> None]]
    /\ capture' = [capture EXCEPT ![s] = IF scapy THEN "starting" ELSE "none"]
    /\ Continue(h, Doing("row", s, None, 0, 0))
    /\ UNCHANGED <<stopping, row>>

\* The row takes the status the session has now ...
BuildRow(h) ==
    /\ call[h].step = "row"
    /\ Continue(h, Doing("commit", call[h].session, active[call[h].session].status, 0, 0))
    /\ UNCHANGED <<active, capture, stopping, row>>

\* ... and others see it, with default counters, once it is committed. If the
\* commit fails the session stays in memory, captures on and has no row.
CommitRow(h) ==
    /\ call[h].step = "commit"
    /\ \/ row' = [row EXCEPT ![call[h].session] =
                    [status |-> call[h].status, packets |-> 0, flows |-> 0]]
       \/ DbFails /\ row' = row
    /\ Continue(h, Free)
    /\ UNCHANGED <<active, capture, stopping>>

-----------------------------------------------------------------------------
(* The capture thread *)

\* The worker enters sniff(), or the interface, Npcap or a permission is missing.
Sniff(s) ==
    /\ capture[s] = "starting"
    /\ capture' = [capture EXCEPT ![s] = "sniffing"]
    /\ UNCHANGED <<active, stopping, row, call>>

SniffFailure(s) ==
    /\ SniffFails /\ capture[s] \in {"starting", "sniffing"}
    /\ capture' = [capture EXCEPT ![s] = "failed"]
    /\ UNCHANGED <<active, stopping, row, call>>

\* A packet passes "ip host target_ip". _handle_pkt drops it if the stop event
\* is set, and stop_filter then ends sniff(). Mutant: there is no stop_filter.
ArriveNoFilter(s) ==
    /\ capture[s] = "sniffing"
    /\ stopping[s] \/ active[s].packets < MaxPackets
    /\ capture' = [capture EXCEPT ![s] = IF stopping[s] THEN @ ELSE "handling"]
    /\ UNCHANGED <<active, stopping, row, call>>
Arrive(s) ==
    /\ capture[s] = "sniffing"
    /\ stopping[s] \/ active[s].packets < MaxPackets
    /\ capture' = [capture EXCEPT ![s] = IF stopping[s] THEN "done" ELSE "handling"]
    /\ UNCHANGED <<active, stopping, row, call>>

\* The isolation filter of FlowAggregator.
Accepts(d, ends) == d \in ends

\* _on_packet_ingest and ingest_packet: one packet more, on a flow known or new.
\* The capture filter is wider than it says where libpcap ignores it.
Counted(a, ends) ==
    IF ~Accepts(a.device, ends) THEN a
    ELSE [device |-> a.device, status |-> a.status, packets |-> a.packets + 1,
          flows |-> a.flows \cup {ends}, detection |-> a.detection]
Ingest(s, ends) ==
    /\ capture[s] = "handling"
    /\ active' = [active EXCEPT ![s] = Counted(@, ends)]
    /\ capture' = [capture EXCEPT ![s] = "filtering"]
    /\ UNCHANGED <<stopping, row, call>>

\* stop_filter after the packet.
Filter(s) ==
    /\ capture[s] = "filtering"
    /\ capture' = [capture EXCEPT ![s] = IF stopping[s] THEN "done" ELSE "sniffing"]
    /\ UNCHANGED <<active, stopping, row, call>>

-----------------------------------------------------------------------------
(* stop_tracking *)

\* A client has the id of a session from the answer of start_tracking, so with
\* the row committed, or from the profile of the device.
Announced(s) == row[s] # None \/ Eager

\* ActiveTrackingSession.stop up to the join; stopping twice does it again.
StopTracking(h, s) ==
    /\ call[h].step = "idle" /\ active[s] # None /\ Announced(s)
    /\ active' = [active EXCEPT ![s].status = "STOPPED"]
    /\ stopping' = [stopping EXCEPT ![s] = TRUE]
    /\ Continue(h, Doing("join", s, None, 0, 0))
    /\ UNCHANGED <<capture, row>>

\* join(timeout=1.5): the thread ended, or the time is up. A thread that waits
\* for a packet keeps join waiting; one that handles a packet is faster.
\* Mutants: join without a timeout, and no join at all.
JoinedNoTimeout(s) == capture[s] \in {"none", "done", "failed"}
JoinedAtOnce(s) == TRUE
Joined(s) ==
    capture[s] \notin {"handling", "filtering"} \/ Slow

\* get_summary_metrics, once join has returned.
Summarise(h) ==
    LET s == call[h].session IN
    /\ call[h].step = "join" /\ Joined(s)
    /\ Continue(h, Doing("save", s, None, active[s].packets, Cardinality(active[s].flows)))
    /\ UNCHANGED <<active, capture, stopping, row>>

\* The row, if it is there, gets status and counters and is committed.
Saved(c) == [status |-> "STOPPED", packets |-> c.packets, flows |-> c.flows]
Save(h) ==
    LET s == call[h].session IN
    /\ call[h].step = "save"
    /\ \/ row' = IF row[s] = None THEN row ELSE [row EXCEPT ![s] = Saved(call[h])]
       \/ DbFails /\ row' = row
    /\ Continue(h, Free)
    /\ UNCHANGED <<active, capture, stopping>>

\* A session that is not in memory, after a restart: only the row changes.
StopHistoric(s) ==
    /\ active[s] = None /\ row[s] # None
    /\ row' = [row EXCEPT ![s].status = "STOPPED"]
    /\ UNCHANGED <<active, capture, stopping, call>>

-----------------------------------------------------------------------------
(* get_results *)

\* The counters and features are read, the models run on them ...
GetResults(h, s) ==
    /\ call[h].step = "idle" /\ active[s] # None /\ Announced(s)
    /\ Continue(h, Doing("detect", s, None, active[s].packets, 0))
    /\ UNCHANGED <<active, capture, stopping, row>>

\* ... and the verdict, known by the packets it saw, is kept for the device profile.
StoreDetection(h) ==
    /\ call[h].step = "detect"
    /\ active' = [active EXCEPT ![call[h].session].detection = call[h].packets]
    /\ Continue(h, Free)
    /\ UNCHANGED <<capture, stopping, row>>

-----------------------------------------------------------------------------

\* The server process ends: rows stay, everything else is lost.
Restart ==
    /\ active' = [s \in Sessions |-> None]
    /\ capture' = [s \in Sessions |-> "none"]
    /\ stopping' = [s \in Sessions |-> FALSE]
    /\ call' = [h \in Handlers |-> Free]
    /\ UNCHANGED row

Next ==
    \/ \E h \in Handlers, s \in Sessions, d \in Devices, scapy \in BOOLEAN :
         StartTracking(h, s, d, scapy)
    \/ \E h \in Handlers : BuildRow(h) \/ CommitRow(h) \/ Summarise(h) \/ Save(h) \/ StoreDetection(h)
    \/ \E h \in Handlers, s \in Sessions : StopTracking(h, s) \/ GetResults(h, s)
    \/ \E s \in Sessions : Sniff(s) \/ SniffFailure(s) \/ Arrive(s) \/ Filter(s) \/ StopHistoric(s)
    \/ \E s \in Sessions, ends \in Flows : Ingest(s, ends)
    \/ Restart

Spec == Init /\ [][Next]_vars

-----------------------------------------------------------------------------
(* Safety *)

\* Types, and "strict device isolation": no flow of a session is of others only.
TypeOK ==
    /\ active \in [Sessions -> Session \cup {None}]
    /\ capture \in [Sessions -> Phases]
    /\ stopping \in [Sessions -> BOOLEAN]
    /\ row \in [Sessions -> Row \cup {None}]
    /\ call \in [Handlers -> Call]
    /\ \A s \in Sessions : active[s] # None =>
         \A ends \in active[s].flows : active[s].device \in ends

\* "preserve historical results": while the server remembers a session whose row
\* says STOPPED, the row has its final counters, whatever packets were on their
\* way, however many times it was stopped and whichever commit failed.
SavedMatches ==
    \A s \in Sessions :
        active[s] # None /\ row[s] # None /\ row[s].status = "STOPPED" =>
            /\ row[s].packets = active[s].packets
            /\ row[s].flows = Cardinality(active[s].flows)

-----------------------------------------------------------------------------
(* Liveness *)

\* Threads run; whether packets arrive is up to the network.
Fairness ==
    /\ \A h \in Handlers : WF_vars(BuildRow(h)) /\ WF_vars(CommitRow(h)) /\ WF_vars(Summarise(h))
                          /\ WF_vars(Save(h)) /\ WF_vars(StoreDetection(h))
    /\ \A s \in Sessions : WF_vars(Sniff(s)) /\ WF_vars(Filter(s))
                          /\ WF_vars(\E ends \in Flows : Ingest(s, ends))
LiveSpec == Spec /\ Fairness

\* A stop is answered although the capture only ends on a packet, which a silent
\* device never sends.
StopAnswered ==
    \A h \in Handlers : call[h].step = "join" ~> call[h].step = "idle"

\* If the device keeps talking the capture of a stopped session ends and does not
\* listen on for ever.
CaptureEnds ==
    \A s \in Sessions : WF_vars(Arrive(s)) => (stopping[s] ~> capture[s] \in {"none", "done", "failed"})

=============================================================================
