---------------------------- MODULE TelegramAlerts ----------------------------
(***************************************************************************)
(* The alert loop, server/app/services/telegram_alerts.py: one thread scans*)
(* the findings of the database, the findings of endpoint telemetry and    *)
(* the active network threats every 30 seconds, and sends a message for    *)
(* each whose fingerprint is not in the set _alerted, which lives in       *)
(* memory. Findings come and go while a scan sends; the process may end    *)
(* at any moment and start again.                                          *)
(***************************************************************************)
EXTENDS Naturals

CONSTANTS
    Devices,      \* devices that have findings
    Findings,     \* records of a source, a device and an observed version
    Name,         \* the hostname of a device (its address when it has none)
    Chats,        \* configured chat ids
    MaxCrashes,   \* bound: ends of the process
    MaxFailures,  \* bound: queries that fail, and messages that no chat confirms
                  \* or whose delivery is not all confirmed
    MaxChanges    \* bound: findings that appear

Sources == {"db", "endpoint", "threat"}
Of(source) == {f \in Findings : f.source = source}

ASSUME AlertsAssumption ==
    /\ Findings \subseteq [source: Sources, device: Devices, version: Nat]
    /\ Name \in [Devices -> STRING]
    /\ {MaxCrashes, MaxFailures, MaxChanges} \subseteq Nat

VARIABLES
    open,         \* findings a query returns now: open, and high or critical
    old,          \* database findings detected more than 15 minutes ago
    known,        \* where _scan finds the organisation: "db", "endpoint"
    up,           \* the process runs
    initialDone,  \* _initial_scan_done
    alerted,      \* _alerted
    phase,        \* what the scan looks at: a source, or "sleep"
    todo,         \* findings its query returned that are not handled yet
    received,     \* history: messages each chat got from this process about a finding
    lost,         \* history: those among them that were not confirmed to it
    assumed,      \* history: findings its first scan took for alerted
    crashes, failures, changes

memory == <<initialDone, alerted, phase, todo>>
history == <<received, lost, assumed>>
bounds == <<crashes, failures, changes>>
vars == <<open, old, known, up, memory, history, bounds>>

\* make_finding_fingerprint, and the key of a threat. A database finding goes by
\* the hostname, an endpoint finding by the device id.
Fingerprint(f) ==
    CASE f.source = "db" -> <<"asset", Name[f.device], f.version>>
      [] f.source = "endpoint" -> <<"device", f.device, f.version>>
      [] f.source = "threat" -> <<"threat", f.device>>

TypeOK ==
    /\ open \subseteq Findings /\ old \subseteq Of("db")
    /\ known \subseteq {"db", "endpoint"}
    /\ up \in BOOLEAN /\ initialDone \in BOOLEAN
    /\ alerted \subseteq {Fingerprint(f) : f \in Findings}
    /\ phase \in Sources \cup {"sleep"}
    /\ todo \subseteq Of(phase)
    /\ ~up => phase = "sleep" /\ alerted = {} /\ ~initialDone
    /\ {received, lost} \subseteq [Findings -> [Chats -> Nat]] /\ assumed \subseteq Of("db")
    /\ crashes \in 0..MaxCrashes /\ failures \in 0..MaxFailures /\ changes \in 0..MaxChanges

\* A process has sent nothing yet.
NoMessages == [f \in Findings |-> [c \in Chats |-> 0]]

Init ==
    /\ open = {} /\ old = {} /\ known = {} /\ up = TRUE
    /\ initialDone = FALSE /\ alerted = {} /\ phase = "sleep" /\ todo = {}
    /\ received = NoMessages /\ lost = NoMessages /\ assumed = {}
    /\ crashes = 0 /\ failures = 0 /\ changes = 0

-----------------------------------------------------------------------------
(* Findings and the process *)

\* A scan, an upload or a device sweep of the running server finds something.
Detect(f) ==
    /\ up /\ f \notin open /\ changes < MaxChanges /\ changes' = changes + 1
    /\ open' = open \cup {f} /\ old' = old \ {f}
    /\ known' = known \cup ({f.source} \ {"threat"})
    /\ UNCHANGED <<up, memory, history, crashes, failures>>

\* It is fixed or triaged, or a threat is over.
Close(f) ==
    /\ up /\ f \in open /\ open' = open \ {f} /\ old' = old \ {f}
    /\ UNCHANGED <<known, up, memory, history, bounds>>

\* 15 minutes pass. They are many ticks: the first scan of a process is over by then.
Age(f) ==
    /\ ~up \/ initialDone
    /\ f \in open \cap Of("db") /\ old' = old \cup {f}
    /\ UNCHANGED <<open, known, up, memory, history, bounds>>

\* The process ends, and with it _alerted and the telemetry of the endpoints.
Crash ==
    /\ up /\ crashes < MaxCrashes /\ crashes' = crashes + 1
    /\ up' = FALSE /\ open' = open \ Of("endpoint") /\ known' = known \ {"endpoint"}
    /\ initialDone' = FALSE /\ alerted' = {} /\ phase' = "sleep" /\ todo' = {}
    /\ received' = NoMessages /\ lost' = NoMessages /\ assumed' = {}
    /\ UNCHANGED <<old, failures, changes>>

\* start, called once when the server starts
Start == ~up /\ up' = TRUE /\ UNCHANGED <<open, old, known, memory, history, bounds>>

-----------------------------------------------------------------------------
(* _scan *)

\* What a query returns.
Query(source) == open \cap Of(source)

\* On the first scan the old findings count as alerted.
Acknowledged == IF initialDone THEN {} ELSE open \cap old

\* A tick. An organisation without findings or telemetry is not looked at.
BeginScan ==
    /\ up /\ phase = "sleep" /\ known # {}
    /\ phase' = "db" /\ todo' = Query("db")
    /\ alerted' = alerted \cup {Fingerprint(f) : f \in Acknowledged}
    /\ assumed' = assumed \cup Acknowledged
    /\ UNCHANGED <<open, old, known, up, initialDone, received, lost, bounds>>

\* The queries of the three sources run one after the other.
NextSource ==
    /\ phase # "sleep" /\ todo = {}
    /\ phase' = CASE phase = "db" -> "endpoint"
                  [] phase = "endpoint" -> "threat"
                  [] phase = "threat" -> "sleep"
    /\ todo' = Query(phase')
    /\ initialDone' = (initialDone \/ phase = "threat")
    /\ UNCHANGED <<open, old, known, up, alerted, history, bounds>>

\* Nothing to send: alerted already, or an endpoint finding triaged meanwhile.
Skip(f) ==
    /\ f \in todo
    /\ Fingerprint(f) \in alerted \/ (f.source = "endpoint" /\ f \notin open)
    /\ todo' = todo \ {f}
    /\ UNCHANGED <<open, old, known, up, initialDone, alerted, phase, history, bounds>>

\* What _send_telegram makes of one chat: curl posts the message, and when it does
\* not answer in time, or not in JSON, httpx posts it again. Either may have been
\* delivered all the same. It answers TRUE for a delivery that was confirmed. (The
\* plain text is only sent after a refusal, so it adds no copy.)
Attempt == {a \in [copies: 0..2, ok: BOOLEAN] : a.ok => a.copies > 0}
Unconfirmed(a) == IF a.ok THEN a.copies - 1 ELSE a.copies

\* _dispatch_alert answers whether any chat's delivery was confirmed, and only then
\* is the message remembered. Mutants: it always is, and it never is.
RememberAlways(f, sent) == {Fingerprint(f)}
RememberNever(f, sent) == {}
Remember(f, sent) == IF \E c \in Chats : sent[c].ok THEN {Fingerprint(f)} ELSE {}

\* Every chat is tried once. A message that no chat confirms is sent to all again by
\* the next tick, to those as well that did get it.
Send(f, sent) ==
    /\ f \in todo /\ Fingerprint(f) \notin alerted
    /\ f.source = "endpoint" => f \in open
    /\ IF (\E c \in Chats : sent[c].ok) /\ \A c \in Chats : Unconfirmed(sent[c]) = 0
       THEN failures' = failures
       ELSE failures < MaxFailures /\ failures' = failures + 1
    /\ received' = [received EXCEPT ![f] = [c \in Chats |-> @[c] + sent[c].copies]]
    /\ lost' = [lost EXCEPT ![f] = [c \in Chats |-> @[c] + Unconfirmed(sent[c])]]
    /\ alerted' = alerted \cup Remember(f, sent)
    /\ todo' = todo \ {f}
    /\ UNCHANGED <<open, old, known, up, initialDone, phase, assumed, crashes, changes>>

\* The query of the endpoints fails, or something about one of their findings: the
\* rest of them wait for the next tick, and this one goes on to the threats.
EndpointsFail ==
    /\ phase = "endpoint" /\ todo # {} /\ failures < MaxFailures /\ failures' = failures + 1
    /\ todo' = {}
    /\ UNCHANGED <<open, old, known, up, initialDone, alerted, phase, history, crashes, changes>>

\* The session fails, while a database finding is looked up or in the query of the
\* threats: the exception ends the tick.
TickFails ==
    /\ phase = "db" \/ (phase = "endpoint" /\ todo = {})
    /\ failures < MaxFailures /\ failures' = failures + 1
    /\ phase' = "sleep" /\ todo' = {}
    /\ UNCHANGED <<open, old, known, up, initialDone, alerted, history, crashes, changes>>

ScanStep ==
    \/ BeginScan \/ NextSource \/ EndpointsFail \/ TickFails
    \/ \E f \in Findings : Skip(f) \/ \E sent \in [Chats -> Attempt] : Send(f, sent)

Next ==
    \/ ScanStep \/ Crash \/ Start
    \/ \E f \in Findings : Detect(f) \/ Close(f) \/ Age(f)

Spec == Init /\ [][Next]_vars

-----------------------------------------------------------------------------
(* Properties *)

\* "Unchanged finding alerts are sent once and deduplicated on subsequent polls",
\* as far as the process can know: whatever fails, and however often a finding goes
\* and comes back, a chat gets one message about it more than there are deliveries
\* that were not confirmed. With every delivery confirmed that is one message, also
\* when another chat's failed. (The next process starts over.)
SentOnce == \A f \in Findings, c \in Chats : received[f][c] <= 1 + lost[f][c]

\* What is remembered, and will not be sent again, is what some chat got, or what
\* was old when the process started. (A chat whose message failed while another's
\* was confirmed is not sent it again.)
AlertedWereSent ==
    \A k \in alerted : \E f \in Findings :
        Fingerprint(f) = k /\ (f \in assumed \/ \E c \in Chats : received[f][c] > 0)

\* The server is started again, and its loop goes on. Failures are bounded.
LiveSpec == Spec /\ WF_vars(Start) /\ WF_vars(ScanStep)

\* "fire a Telegram message for each new one": a finding that stays open, in an
\* organisation that _scan finds, in the end is one the process has sent or has
\* found old when it started.
OpenReported ==
    \A f \in Findings : <>[](f \in open /\ known # {}) =>
        <>[](f \in assumed \/ \E c \in Chats : received[f][c] > 0)

=============================================================================
