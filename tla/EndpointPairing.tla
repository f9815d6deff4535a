--------------------------- MODULE EndpointPairing ---------------------------
(***************************************************************************)
(* Pairing an endpoint agent with an organisation, and the authenticated   *)
(* reports that follow: the router server/app/api/endpoint.py with its     *)
(* tables (models/endpoint.py) on one side, the agent process              *)
(* endpoint-agent/agent.py with its credential file (storage/state.py) on  *)
(* the other, and between them an HTTP exchange that can time out after    *)
(* the server has already committed.                                       *)
(*                                                                         *)
(* A FastAPI handler runs in a worker thread with a database session of    *)
(* its own; a slot of Handlers is one such thread.  Each database          *)
(* transaction, and each read whose result is used by a later write, is a  *)
(* step, so two slots interleave exactly where two requests can.           *)
(*                                                                         *)
(* Tokens are numbered in the order the server issues them; 0 is "no       *)
(* token".  Session ids are numbered likewise.  A generated pairing code   *)
(* is the number of its session, the fixed demo code is DemoCode.          *)
(***************************************************************************)
EXTENDS Naturals, FiniteSets

CONSTANTS
    Agents,       \* endpoint agents (agent_id = device_id = one machine)
    DemoAgents,   \* those that ask for the fixed demo code (is_demo: the Android client)
    Orgs,         \* organisations whose operators enter codes
    Handlers,     \* requests the server can be working on at once
    None,         \* SQL NULL, and "no agent" / "no organisation"
    MaxSessions,  \* bound: pairing sessions ever inserted
    MaxTokens,    \* bound: tokens ever issued
    MaxFaults     \* bound: timeouts, crashes, expiries and failed unlinks

ASSUME DemoAssumption  == DemoAgents \subseteq Agents
ASSUME NoneAssumption  == None \notin Agents /\ None \notin Orgs
ASSUME BoundAssumption == MaxSessions \in Nat /\ MaxTokens \in Nat /\ MaxFaults \in Nat

DemoCode == 0
Sessions == 1..MaxSessions
Codes    == 0..MaxSessions
Tokens   == 1..MaxTokens
Status   == {"none", "WAITING_FOR_PAIR", "PAIRED", "CONSUMED", "EXPIRED"}
Life     == {"STARTING", "WAITING_FOR_PAIRING", "CONNECTED", "RECONNECTING"}
Phase    == {"off", "probe", "init", "poll", "save", "report", "loop"}
Steps    == {"idle", "read", "expire", "insert", "lookup", "commit",
             "auth", "beat", "grid", "reply"}
Answers  == {"none", "OK", "WAITING_FOR_PAIR", "PAIRED", "CONSUMED", "EXPIRED",
             "refused", "unauthorized", "error"}

VARIABLES
    sess,      \* endpoint_pairing_sessions, by id
    inserted,  \* how many of them exist
    agentRow,  \* endpoint_agents: the token a row accepts, 0 where there is no row
    online,    \* the rows whose last_heartbeat is recent enough for ONLINE
    grid,      \* network_devices: the organisation whose row has the agent's device_id
    minted,    \* how many tokens were issued
    grant,     \* history: for whom each token was issued
    released,  \* history: the tokens a status answer has carried
    req,       \* what each handler slot is doing
    phase,     \* agent: where its worker thread is
    life,      \* agent: LifecycleManager state
    cur,       \* agent: the session it polls
    token,     \* agent: the token in memory
    auth,      \* agent: the token in auth.json
    faults     \* how many of the bounded faults have happened

dbVars    == <<sess, inserted, agentRow, online, grid>>
history   == <<minted, grant, released>>
agentVars == <<phase, life, cur, token, auth>>
vars      == <<dbVars, history, req, agentVars, faults>>

Session == [status: Status, agent: Agents \cup {None}, code: Codes,
            org: Orgs \cup {None}, token: 0..MaxTokens, late: BOOLEAN]
NoSession == [status |-> "none", agent |-> None, code |-> 0,
              org |-> None, token |-> 0, late |-> FALSE]

Grant == [org: Orgs, agent: Agents, sid: Sessions]

\* A request: its client still listens iff live; agent is None for an operator.
Request == [op: {"idle", "init", "pair", "status", "heartbeat", "telemetry"},
            step: Steps, agent: Agents \cup {None}, org: Orgs \cup {None},
            code: Codes, sid: 0..MaxSessions, token: 0..MaxTokens,
            priors: SUBSET Sessions, known: BOOLEAN, live: BOOLEAN,
            answer: Answers]
Idle == [op |-> "idle", step |-> "idle", agent |-> None, org |-> None,
         code |-> 0, sid |-> 0, token |-> 0, priors |-> {}, known |-> FALSE,
         live |-> FALSE, answer |-> "none"]

TypeOK ==
    /\ sess \in [Sessions -> Session]
    /\ inserted \in 0..MaxSessions
    /\ agentRow \in [Orgs -> [Agents -> 0..MaxTokens]]
    /\ online \subseteq Orgs \X Agents
    /\ grid \in [Agents -> Orgs \cup {None}]
    /\ minted \in 0..MaxTokens
    /\ grant \in [Tokens -> Grant \cup {None}]
    /\ released \subseteq Tokens
    /\ req \in [Handlers -> Request]
    /\ phase \in [Agents -> Phase]
    /\ life \in [Agents -> Life]
    /\ cur \in [Agents -> 0..MaxSessions]
    /\ token \in [Agents -> 0..MaxTokens]
    /\ auth \in [Agents -> 0..MaxTokens]
    /\ faults \in 0..MaxFaults

Init ==
    /\ sess = [s \in Sessions |-> NoSession]
    /\ inserted = 0
    /\ agentRow = [o \in Orgs |-> [a \in Agents |-> 0]]
    /\ online = {}
    /\ grid = [a \in Agents |-> None]
    /\ minted = 0
    /\ grant = [t \in Tokens |-> None]
    /\ released = {}
    /\ req = [h \in Handlers |-> Idle]
    /\ phase = [a \in Agents |-> "off"]
    /\ life = [a \in Agents |-> "STARTING"]
    /\ cur = [a \in Agents |-> 0]
    /\ token = [a \in Agents |-> 0]
    /\ auth = [a \in Agents |-> 0]
    /\ faults = 0

At(h, op, step)  == req[h].op = op /\ req[h].step = step
Becomes(h, r)    == req' = [req EXCEPT ![h] = r]
GoTo(h, step)    == Becomes(h, [req[h] EXCEPT !.step = step])
Answer(h, reply) == Becomes(h, [req[h] EXCEPT !.step = "reply", !.answer = reply])
Free(h)          == Becomes(h, Idle)
Fault            == faults < MaxFaults /\ faults' = faults + 1
Waiting(a)       == \E h \in Handlers : req[h].live /\ req[h].agent = a

-----------------------------------------------------------------------------
(* POST /pairing/init *)

\* A demo request first loads the sessions that still wait under the shared code ...
FindPriors(h) ==
    /\ At(h, "init", "read")
    /\ LET priors == {s \in Sessions : /\ sess[s].code = DemoCode
                                       /\ sess[s].status = "WAITING_FOR_PAIR"}
       IN Becomes(h, [req[h] EXCEPT !.step = "expire", !.priors = priors])
    /\ UNCHANGED <<dbVars, history, agentVars, faults>>

\* Mutant: the loop over what was loaded changes nothing.
ExpireNone(h) ==
    /\ At(h, "init", "expire")
    /\ GoTo(h, "insert")
    /\ UNCHANGED <<dbVars, history, agentVars, faults>>

\* ... and then writes EXPIRED into each by primary key, whatever it holds by now.
ExpirePriors(h) ==
    /\ At(h, "init", "expire")
    /\ sess' = [s \in Sessions |-> IF s \in req[h].priors
                                     THEN [sess[s] EXCEPT !.status = "EXPIRED"]
                                     ELSE sess[s]]
    /\ GoTo(h, "insert")
    /\ UNCHANGED <<inserted, agentRow, online, grid, history, agentVars, faults>>

InsertSession(h) ==
    /\ At(h, "init", "insert")
    /\ inserted < MaxSessions
    /\ LET s == inserted + 1 IN
       /\ inserted' = s
       /\ sess' = [sess EXCEPT ![s] =
                     [NoSession EXCEPT !.status = "WAITING_FOR_PAIR",
                                       !.agent = req[h].agent,
                                       !.code = IF req[h].agent \in DemoAgents
                                                  THEN DemoCode ELSE s]]
       /\ Becomes(h, [req[h] EXCEPT !.step = "reply", !.answer = "OK", !.sid = s])
    /\ UNCHANGED <<agentRow, online, grid, history, agentVars, faults>>

-----------------------------------------------------------------------------
(* POST /pairing/pair *)

WithCode(c) == {s \in Sessions : sess[s].status # "none" /\ sess[s].code = c}

\* The SELECT has no ORDER BY: any session of that code may come back.
RefuseUnknownCode(h) ==
    /\ At(h, "pair", "read")
    /\ WithCode(req[h].code) = {}
    /\ Answer(h, "refused")
    /\ UNCHANGED <<dbVars, history, agentVars, faults>>

RefuseLateCode(h) ==
    /\ At(h, "pair", "read")
    /\ \E s \in WithCode(req[h].code) :
         /\ sess[s].late
         /\ IF sess[s].status = "EXPIRED"
              THEN Answer(h, "refused")
              ELSE Becomes(h, [req[h] EXCEPT !.step = "expire", !.sid = s])
    /\ UNCHANGED <<dbVars, history, agentVars, faults>>

RefuseUsedCode(h) ==
    /\ At(h, "pair", "read")
    /\ \E s \in WithCode(req[h].code) :
         ~sess[s].late /\ sess[s].status # "WAITING_FOR_PAIR"
    /\ Answer(h, "refused")
    /\ UNCHANGED <<dbVars, history, agentVars, faults>>

\* Mutant of AcceptCode: the status is not looked at.
AcceptAnyStatus(h) ==
    /\ At(h, "pair", "read")
    /\ \E s \in WithCode(req[h].code) :
         /\ ~sess[s].late
         /\ Becomes(h, [req[h] EXCEPT !.step = "lookup", !.sid = s])
    /\ UNCHANGED <<dbVars, history, agentVars, faults>>

AcceptCode(h) ==
    /\ At(h, "pair", "read")
    /\ \E s \in WithCode(req[h].code) :
         /\ ~sess[s].late /\ sess[s].status = "WAITING_FOR_PAIR"
         /\ Becomes(h, [req[h] EXCEPT !.step = "lookup", !.sid = s])
    /\ UNCHANGED <<dbVars, history, agentVars, faults>>

FindAgentRow(h) ==
    /\ At(h, "pair", "lookup")
    /\ LET known == agentRow[req[h].org][sess[req[h].sid].agent] # 0
       IN Becomes(h, [req[h] EXCEPT !.step = "commit", !.known = known])
    /\ UNCHANGED <<dbVars, history, agentVars, faults>>

\* uq_endpoint_agent_org_agent rejects the INSERT of a row another request
\* inserted since the lookup: the transaction is rolled back, the answer is 500.
RegisterConflict(h) ==
    /\ At(h, "pair", "commit")
    /\ ~req[h].known /\ agentRow[req[h].org][sess[req[h].sid].agent] # 0
    /\ Answer(h, "error")
    /\ UNCHANGED <<dbVars, history, agentVars, faults>>

\* Mutants of RegisterAgent: an existing row keeps its old token; the lookup of
\* the row forgets the agent_id, so another agent's row may be overwritten.
RegisterRows(h, Rows(_, _, _)) ==
    /\ At(h, "pair", "commit") /\ minted < MaxTokens
    /\ LET s == req[h].sid
           o == req[h].org
           a == sess[s].agent
           t == minted + 1
       IN /\ agentRow' \in Rows(o, a, t)
          /\ online' = online \cup {<<o, a>>}
          /\ sess' = [sess EXCEPT ![s] = [@ EXCEPT !.status = "PAIRED", !.org = o, !.token = t]]
          /\ minted' = t
          /\ grant' = [grant EXCEPT ![t] = [org |-> o, agent |-> a, sid |-> s]]
    /\ GoTo(h, "grid")
    /\ UNCHANGED <<inserted, grid, released, agentVars, faults>>
RegisterKeepToken(h) ==
    LET Rows(o, a, t) == {[agentRow EXCEPT ![o][a] = IF req[h].known THEN @ ELSE t]}
    IN RegisterRows(h, Rows)
RegisterAnyRow(h) ==
    LET Rows(o, a, t) == {[agentRow EXCEPT ![o][b] = t] :
                            b \in {a} \cup {c \in Agents : agentRow[o][c] # 0}}
    IN RegisterRows(h, Rows)

\* One transaction: a new token into the agent's row, the same into the session.
RegisterAgent(h) ==
    /\ At(h, "pair", "commit")
    /\ minted < MaxTokens
    /\ LET s == req[h].sid
           o == req[h].org
           a == sess[s].agent
           t == minted + 1
       IN /\ req[h].known \/ agentRow[o][a] = 0
          /\ agentRow' = [agentRow EXCEPT ![o][a] = t]
          /\ online' = online \cup {<<o, a>>}
          /\ sess' = [sess EXCEPT ![s] = [@ EXCEPT !.status = "PAIRED", !.org = o, !.token = t]]
          /\ minted' = t
          /\ grant' = [grant EXCEPT ![t] = [org |-> o, agent |-> a, sid |-> s]]
    /\ GoTo(h, "grid")
    /\ UNCHANGED <<inserted, grid, released, agentVars, faults>>

-----------------------------------------------------------------------------
(* POST /pairing/status *)

LateOpen(s) == sess[s].status = "WAITING_FOR_PAIR" /\ sess[s].late

ReadStatus(h) ==
    /\ At(h, "status", "read")
    /\ sess[req[h].sid].status # "PAIRED" /\ ~LateOpen(req[h].sid)
    /\ Answer(h, sess[req[h].sid].status)
    /\ UNCHANGED <<dbVars, history, agentVars, faults>>

ReadLate(h) ==
    /\ At(h, "status", "read")
    /\ LateOpen(req[h].sid)
    /\ GoTo(h, "expire")
    /\ UNCHANGED <<dbVars, history, agentVars, faults>>

\* The session found too old gets EXPIRED by primary key, whatever it holds by now.
ExpireLate(h) ==
    /\ req[h].op \in {"pair", "status"} /\ req[h].step = "expire"
    /\ sess' = [sess EXCEPT ![req[h].sid].status = "EXPIRED"]
    /\ Answer(h, IF req[h].op = "pair" THEN "refused" ELSE "EXPIRED")
    /\ UNCHANGED <<inserted, agentRow, online, grid, history, agentVars, faults>>

ReadPaired(h) ==
    /\ At(h, "status", "read")
    /\ sess[req[h].sid].status = "PAIRED"
    /\ Becomes(h, [req[h] EXCEPT !.step = "commit", !.token = sess[req[h].sid].token])
    /\ UNCHANGED <<dbVars, history, agentVars, faults>>

\* The token is cleared from the session before the answer leaves the server.
ConsumeSession(h) ==
    /\ At(h, "status", "commit")
    /\ sess' = [sess EXCEPT ![req[h].sid] = [@ EXCEPT !.status = "CONSUMED", !.token = 0]]
    /\ released' = released \cup {req[h].token}
    /\ Answer(h, "PAIRED")
    /\ UNCHANGED <<inserted, agentRow, online, grid, minted, grant, agentVars, faults>>

-----------------------------------------------------------------------------
(* POST /heartbeat and POST /telemetry: get_current_endpoint_agent, the commit *)
(* of last_heartbeat, then the grid upsert in a transaction of its own.        *)

RowsAccepting(t) == {r \in Orgs \X Agents : agentRow[r[1]][r[2]] = t}

AuthoriseReport(h) ==
    /\ req[h].step = "auth"
    /\ IF RowsAccepting(req[h].token) = {}
         THEN Answer(h, "unauthorized")
         ELSE \E r \in RowsAccepting(req[h].token) :
                IF r[2] # req[h].agent
                  THEN Answer(h, "error")       \* 403 Agent identity mismatch
                  ELSE Becomes(h, [req[h] EXCEPT !.step = "beat", !.org = r[1]])
    /\ UNCHANGED <<dbVars, history, agentVars, faults>>

\* Mutant of RecordBeat: last_heartbeat is not written.
RecordNoBeat(h) ==
    /\ req[h].step = "beat"
    /\ GoTo(h, "grid")
    /\ UNCHANGED <<dbVars, history, agentVars, faults>>

RecordBeat(h) ==
    /\ req[h].step = "beat"
    /\ online' = online \cup {<<req[h].org, req[h].agent>>}
    /\ GoTo(h, "grid")
    /\ UNCHANGED <<sess, inserted, agentRow, grid, history, agentVars, faults>>

\* upsert_device_from_endpoint_agent looks the device up by its global id first,
\* whichever organisation owns that row, and inserts only when there is none.
UpsertDevice(h) ==
    /\ req[h].step = "grid"
    /\ LET a == IF req[h].op = "pair" THEN sess[req[h].sid].agent ELSE req[h].agent
       IN grid' = [grid EXCEPT ![a] = IF @ = None THEN req[h].org ELSE @]
    /\ Answer(h, "OK")
    /\ UNCHANGED <<sess, inserted, agentRow, online, history, agentVars, faults>>

\* calculate_status: without a report for ONLINE_THRESHOLD_SECONDS the row is not ONLINE.
GoStale(r) ==
    /\ r \in online
    /\ online' = online \ {r}
    /\ UNCHANGED <<sess, inserted, agentRow, grid, history, req, agentVars, faults>>

-----------------------------------------------------------------------------
(* The agent's worker thread *)

\* An operator process start; with --force-pair the credential file is unlinked
\* first, and a failing unlink is only logged.
Start(a, force) ==
    /\ phase[a] = "off"
    /\ \/ force /\ auth' = [auth EXCEPT ![a] = 0] /\ UNCHANGED faults
       \/ force /\ auth[a] # 0 /\ Fault /\ UNCHANGED auth
       \/ ~force /\ UNCHANGED <<auth, faults>>
    /\ token' = [token EXCEPT ![a] = auth'[a]]
    /\ phase' = [phase EXCEPT ![a] = IF auth'[a] # 0 THEN "probe" ELSE "init"]
    /\ life' = [life EXCEPT ![a] = IF auth'[a] # 0 THEN @ ELSE "WAITING_FOR_PAIRING"]
    /\ UNCHANGED <<dbVars, history, req, cur>>

OpOf   == [init |-> "init", poll |-> "status", probe |-> "heartbeat",
           loop |-> "heartbeat", report |-> "telemetry"]
StepOf(a) == CASE phase[a] = "init" -> IF a \in DemoAgents THEN "read" ELSE "insert"
               [] phase[a] = "poll" -> "read"
               [] OTHER             -> "auth"

PendingInits == Cardinality({h \in Handlers : req[h].op = "init" /\ req[h].step # "reply"})

\* The request the current phase sends next (bounded: no init past MaxSessions).
Call(h, a) ==
    /\ phase[a] \in DOMAIN OpOf /\ ~Waiting(a) /\ req[h] = Idle
    /\ phase[a] = "init" => inserted + PendingInits < MaxSessions
    /\ Becomes(h, [Idle EXCEPT !.op = OpOf[phase[a]], !.step = StepOf(a),
                               !.agent = a, !.live = TRUE,
                               !.sid = IF phase[a] = "poll" THEN cur[a] ELSE 0,
                               !.token = IF phase[a] \in {"init", "poll"} THEN 0 ELSE token[a]])
    /\ UNCHANGED <<dbVars, history, agentVars, faults>>

Ready(h, op) == At(h, op, "reply") /\ req[h].live

\* TransportError: a pairing loop just repeats, a heartbeat means RECONNECTING,
\* a failed telemetry upload is swallowed.
OnTransportError(a) ==
    /\ phase' = [phase EXCEPT ![a] = CASE @ = "probe"  -> "report"
                                       [] @ = "report" -> "loop"
                                       [] OTHER        -> @]
    /\ life' = [life EXCEPT ![a] = IF phase[a] \in {"probe", "loop"} THEN "RECONNECTING" ELSE @]
    /\ UNCHANGED <<cur, token, auth>>

OnInitReply(h) ==
    /\ Ready(h, "init")
    /\ Free(h)
    /\ LET a == req[h].agent IN
       IF req[h].answer = "OK"
         THEN /\ cur' = [cur EXCEPT ![a] = req[h].sid]
              /\ phase' = [phase EXCEPT ![a] = "poll"]
              /\ UNCHANGED <<life, token, auth>>
         ELSE OnTransportError(a)
    /\ UNCHANGED <<dbVars, history, faults>>

\* Mutant of OnStatusReply: only EXPIRED ends the polling.
OnStatusReplyPollOn(h) ==
    /\ Ready(h, "status")
    /\ Free(h)
    /\ LET a == req[h].agent IN
       CASE req[h].answer = "PAIRED" ->
              /\ token' = [token EXCEPT ![a] = req[h].token]
              /\ phase' = [phase EXCEPT ![a] = "save"]
              /\ UNCHANGED <<life, cur, auth>>
         [] req[h].answer = "EXPIRED" ->
              /\ phase' = [phase EXCEPT ![a] = "init"]
              /\ UNCHANGED <<life, cur, token, auth>>
         [] OTHER -> UNCHANGED agentVars
    /\ UNCHANGED <<dbVars, history, faults>>

OnStatusReply(h) ==
    /\ Ready(h, "status")
    /\ Free(h)
    /\ LET a == req[h].agent IN
       CASE req[h].answer = "PAIRED" ->
              /\ token' = [token EXCEPT ![a] = req[h].token]
              /\ phase' = [phase EXCEPT ![a] = "save"]
              /\ UNCHANGED <<life, cur, auth>>
         [] req[h].answer \in {"EXPIRED", "CONSUMED"} ->
              /\ phase' = [phase EXCEPT ![a] = "init"]
              /\ UNCHANGED <<life, cur, token, auth>>
         [] req[h].answer = "WAITING_FOR_PAIR" -> UNCHANGED agentVars
         [] OTHER -> OnTransportError(a)
    /\ UNCHANGED <<dbVars, history, faults>>

\* Mutant of SaveAuth: the token stays in memory only.
SaveNothing(a) ==
    /\ phase[a] = "save"
    /\ life' = [life EXCEPT ![a] = "CONNECTED"]
    /\ \E p \in {"report", "loop"} : phase' = [phase EXCEPT ![a] = p]
    /\ UNCHANGED <<dbVars, history, req, cur, token, auth, faults>>

\* save_auth; the first pairing enters run_heartbeat_loop at its initial telemetry,
\* a pairing made from within the loop continues with the next heartbeat.
SaveAuth(a) ==
    /\ phase[a] = "save"
    /\ auth' = [auth EXCEPT ![a] = token[a]]
    /\ life' = [life EXCEPT ![a] = "CONNECTED"]
    /\ \E p \in {"report", "loop"} : phase' = [phase EXCEPT ![a] = p]
    /\ UNCHANGED <<dbVars, history, req, cur, token, faults>>

\* A 401 clears the credential file (the unlink may fail) and pairs again.
Unauthorised(a) ==
    /\ \/ auth' = [auth EXCEPT ![a] = 0] /\ UNCHANGED faults
       \/ Fault /\ UNCHANGED auth
    /\ token' = [token EXCEPT ![a] = 0]
    /\ phase' = [phase EXCEPT ![a] = "init"]
    /\ life' = [life EXCEPT ![a] = "WAITING_FOR_PAIRING"]
    /\ UNCHANGED cur

OnHeartbeatReply(h) ==
    /\ Ready(h, "heartbeat")
    /\ Free(h)
    /\ LET a == req[h].agent IN
       CASE req[h].answer = "OK" ->
              /\ life' = [life EXCEPT ![a] = "CONNECTED"]
              /\ \E p \in {"report"} \cup ({phase[a]} \ {"probe"}) :
                   phase' = [phase EXCEPT ![a] = p]
              /\ UNCHANGED <<cur, token, auth, faults>>
         [] req[h].answer = "unauthorized" -> Unauthorised(a)
         [] OTHER -> OnTransportError(a) /\ UNCHANGED faults
    /\ UNCHANGED <<dbVars, history>>

\* Whatever a telemetry upload answers, the heartbeat loop goes on.
OnTelemetryReply(h) ==
    /\ Ready(h, "telemetry")
    /\ Free(h)
    /\ phase' = [phase EXCEPT ![req[h].agent] = "loop"]
    /\ UNCHANGED <<dbVars, history, life, cur, token, auth, faults>>

-----------------------------------------------------------------------------
(* The environment: operators, clocks, networks and crashes *)

Submit(h, o, c) ==
    /\ req[h] = Idle
    /\ Becomes(h, [Idle EXCEPT !.op = "pair", !.step = "read", !.org = o, !.code = c])
    /\ UNCHANGED <<dbVars, history, agentVars, faults>>

\* The answer reaches an operator, or nobody.
DropReply(h) ==
    /\ req[h].step = "reply" /\ ~req[h].live
    /\ Free(h)
    /\ UNCHANGED <<dbVars, history, agentVars, faults>>

\* The client gives up after request_timeout_seconds; the handler goes on.
Timeout(h) ==
    /\ req[h].live
    /\ Fault
    /\ Becomes(h, [req[h] EXCEPT !.live = FALSE])
    /\ OnTransportError(req[h].agent)
    /\ UNCHANGED <<dbVars, history>>

Elapse(s) ==
    /\ sess[s].status # "none" /\ ~sess[s].late
    /\ Fault
    /\ sess' = [sess EXCEPT ![s].late = TRUE]
    /\ UNCHANGED <<inserted, agentRow, online, grid, history, req, agentVars>>

\* The server process dies: what was committed stays, every client sees an error.
ServerCrash ==
    /\ \E h \in Handlers : req[h].step \notin {"idle", "reply"}
    /\ Fault
    /\ req' = [h \in Handlers |->
                 IF req[h] = Idle THEN Idle
                 ELSE [req[h] EXCEPT !.step = "reply", !.answer = "error"]]
    /\ UNCHANGED <<dbVars, history, agentVars>>

\* The agent process dies.  save_auth truncates the file before it writes it.
Crash(a) ==
    /\ phase[a] # "off"
    /\ Fault
    /\ phase' = [phase EXCEPT ![a] = "off"]
    /\ life' = [life EXCEPT ![a] = "STARTING"]
    /\ token' = [token EXCEPT ![a] = 0]
    /\ cur' = [cur EXCEPT ![a] = 0]
    /\ \E t \in {auth[a]} \cup (IF phase[a] = "save" THEN {0} ELSE {}) :
         auth' = [auth EXCEPT ![a] = t]
    /\ req' = [h \in Handlers |->
                 IF req[h].agent = a THEN [req[h] EXCEPT !.live = FALSE] ELSE req[h]]
    /\ UNCHANGED <<dbVars, history>>

-----------------------------------------------------------------------------
ServerStep(h) ==
    \/ FindPriors(h) \/ ExpirePriors(h) \/ InsertSession(h)
    \/ RefuseUnknownCode(h) \/ RefuseLateCode(h) \/ RefuseUsedCode(h) \/ AcceptCode(h)
    \/ FindAgentRow(h) \/ RegisterConflict(h) \/ RegisterAgent(h)
    \/ ReadStatus(h) \/ ReadLate(h) \/ ExpireLate(h) \/ ReadPaired(h) \/ ConsumeSession(h)
    \/ AuthoriseReport(h) \/ RecordBeat(h) \/ UpsertDevice(h)

ReplyStep(h) ==
    \/ OnInitReply(h) \/ OnStatusReply(h) \/ OnHeartbeatReply(h)
    \/ OnTelemetryReply(h) \/ DropReply(h)

Next ==
    \/ \E h \in Handlers : ServerStep(h) \/ ReplyStep(h) \/ Timeout(h)
    \/ \E h \in Handlers, a \in Agents : Call(h, a)
    \/ \E h \in Handlers, o \in Orgs, c \in Codes : Submit(h, o, c)
    \/ \E a \in Agents : SaveAuth(a) \/ Crash(a)
    \/ \E a \in Agents, force \in BOOLEAN : Start(a, force)
    \/ \E s \in Sessions : Elapse(s)
    \/ \E r \in Orgs \X Agents : GoStale(r)
    \/ ServerCrash

Spec == Init /\ [][Next]_vars

-----------------------------------------------------------------------------
(* Safety *)

\* The credential an agent holds, in memory or on disk, never authenticates it
\* as another agent: no heartbeat or telemetry lands on a machine it is not
\* about (get_current_endpoint_agent looks rows up by token alone).
CredentialIsolation ==
    \A a, b \in Agents, o \in Orgs :
        agentRow[o][b] # 0 /\ agentRow[o][b] \in {token[a], auth[a]} => a = b

\* A credential an agent holds keeps being accepted by the organisation that
\* issued it, unless a later pairing of that agent there replaced it: no crash,
\* lost answer or rolled-back submit leaves an agent with a token the server
\* never stored.
CredentialHonoured ==
    \A a \in Agents : \A t \in {token[a], auth[a]} \ {0} :
        /\ t <= minted
        /\ agentRow[grant[t].org][a] >= t

\* While a session offers a token, the organisation it names has that token, or
\* a later one, in the agent's row: submit_pairing never shows an agent a
\* pairing that is not registered.
OfferIsRegistered ==
    \A s \in Sessions : sess[s].status = "PAIRED" =>
        /\ sess[s].token # 0
        /\ agentRow[sess[s].org][sess[s].agent] >= sess[s].token

\* What the heartbeat loop sends is what a restart would find in auth.json: an
\* agent that reports never depends on a credential a crash would lose.
CredentialDurable ==
    \A a \in Agents : phase[a] \in {"probe", "report", "loop"} =>
        token[a] # 0 /\ auth[a] = token[a]

\* A credential is kept on both sides: the agent could find it again after a
\* crash, and the server goes on accepting it.
CredentialKept == CredentialHonoured /\ CredentialDurable

WaitingDemo == {s \in Sessions : sess[s].code = DemoCode /\ sess[s].status = "WAITING_FOR_PAIR"}

\* "Clear prior unconsumed demo sessions": at most one session waits under the
\* shared code, so the code an operator reads off a screen means one machine.
OneWaitingDemo == \A s, r \in WaitingDemo : s = r

\* "One-time secret release": no token travels in two status answers.
ReleasedOnce ==
    [][\A h \in Handlers : At(h, "status", "commit") /\ ~At(h, "status", "commit")'
          /\ req'[h].answer = "PAIRED" => req[h].token \notin released]_vars

-----------------------------------------------------------------------------
(* The inductive invariant behind the credential properties *)

IssuedTo(t, a) == t <= minted /\ grant[t].agent = a

\* What a session row says of its agent and its token.
SessionLedger ==
    \A s \in Sessions :
        /\ s > inserted => sess[s] = NoSession
        /\ s <= inserted => sess[s].agent \in Agents
        /\ sess[s].status = "PAIRED" => sess[s].token # 0
        /\ sess[s].token # 0 => /\ IssuedTo(sess[s].token, sess[s].agent)
                               /\ grant[sess[s].token].org = sess[s].org

\* What an agent's row says of the token it accepts, and that it only moves forward.
RowLedger ==
    /\ \A o \in Orgs, a \in Agents : agentRow[o][a] # 0 =>
          IssuedTo(agentRow[o][a], a) /\ grant[agentRow[o][a]].org = o
    /\ \A t \in Tokens : t <= minted =>
          grant[t] \in Grant /\ agentRow[grant[t].org][grant[t].agent] >= t

\* What a handler carries from one of its steps to the next.
CarriedOK(r) ==
    /\ r.op \notin {"idle", "pair"} \/ r.live => r.agent \in Agents
    /\ r.op = "pair" \/ r.step \in {"beat", "grid"} => r.org \in Orgs
    /\ r.step \in {"auth", "beat"} => r.op \in {"heartbeat", "telemetry"}
    /\ r.step = "grid" => r.op \in {"pair", "heartbeat", "telemetry"}
    /\ r.op = "pair" /\ r.step \in {"expire", "lookup", "commit", "grid"} => r.sid \in 1..inserted
    /\ \/ r.op = "status"
       \/ r.op = "init" /\ r.step = "reply" /\ r.answer = "OK"
       => r.sid \in 1..inserted /\ sess[r.sid].agent = r.agent
    /\ r.token # 0 => IssuedTo(r.token, r.agent)
    /\ r.op = "status" /\ r.step = "commit" => r.token # 0
    /\ \A s \in r.priors : s <= inserted
RequestLedger == \A h \in Handlers : CarriedOK(req[h])

\* What an agent knows.
AgentLedger ==
    \A a \in Agents :
        /\ phase[a] = "poll" => cur[a] \in 1..inserted /\ sess[cur[a]].agent = a
        /\ token[a] # 0 => IssuedTo(token[a], a)
        /\ auth[a] # 0 => IssuedTo(auth[a], a)

\* Every copy of a token, wherever it travels, stays with the agent it was
\* issued for, and the row of its organisation accepts it or a later one.
Ledger == SessionLedger /\ RowLedger /\ RequestLedger /\ AgentLedger

-----------------------------------------------------------------------------
(* The inductive invariants behind CredentialDurable and the refinement *)

\* An agent waits for one answer at a time, to the request of the phase it is in,
\* and what it is about to save is a credential.
AgentWaits ==
    /\ \A h \in Handlers : req[h].live =>
          /\ phase[req[h].agent] \in DOMAIN OpOf
          /\ req[h].op = OpOf[phase[req[h].agent]]
    /\ \A g, h \in Handlers :
          req[g].live /\ req[h].live /\ req[g].agent = req[h].agent => g = h
    /\ \A h \in Handlers :
          At(h, "status", "reply") /\ req[h].answer = "PAIRED" => req[h].token # 0
    /\ \A a \in Agents : phase[a] = "save" => token[a] # 0

\* What a handler has read still holds when it writes: so if it works alone.
InFlight ==
    \A h \in Handlers :
        /\ req[h].op = "init" /\ req[h].step = "expire" =>
              \A s \in req[h].priors : sess[s].status = "WAITING_FOR_PAIR"
        /\ req[h].op \in {"pair", "status"} /\ req[h].step = "expire" =>
              sess[req[h].sid].status # "none"
        /\ req[h].op = "pair" /\ req[h].step \in {"lookup", "commit"} =>
              sess[req[h].sid].status = "WAITING_FOR_PAIR"
        /\ req[h].op = "status" /\ req[h].step = "commit" =>
              /\ sess[req[h].sid].status = "PAIRED"
              /\ sess[req[h].sid].token = req[h].token

\* A token names the session it was issued for, which gives it up when it is released.
SecretLedger ==
    /\ \A s \in Sessions : sess[s].token # 0 =>
          grant[sess[s].token].sid = s /\ sess[s].token \notin released
    /\ \A t \in released : t <= minted

\* No session waits under the shared code once those before it were expired.
DemoFlight ==
    \A h \in Handlers :
        /\ req[h].op = "init" /\ req[h].step = "expire" => WaitingDemo \subseteq req[h].priors
        /\ req[h].op = "init" /\ req[h].step = "insert" /\ req[h].agent \in DemoAgents =>
              WaitingDemo = {}

-----------------------------------------------------------------------------
(* Refinement *)

StageOf(st) == CASE st = "none"             -> "none"
                 [] st = "WAITING_FOR_PAIR" -> "open"
                 [] st = "PAIRED"           -> "paired"
                 [] OTHER                   -> "closed"

Promise == INSTANCE OneTimePairing WITH
    stage     <- [s \in Sessions |-> StageOf(sess[s].status)],
    partner   <- [s \in Sessions |-> sess[s].org],
    delivered <- {grant[t].sid : t \in released}

\* Every pairing session behaves as a one-time session, as long as the server
\* works on one request at a time.
ImplementsOneTimePairing == Promise!Spec

-----------------------------------------------------------------------------
(* Liveness *)

\* An operator who reads the code off the agent's screen and eventually enters it.
EnterLiveCode(h) ==
    \E o \in Orgs, s \in Sessions :
        /\ sess[s].status = "WAITING_FOR_PAIR" /\ ~sess[s].late
        /\ \E a \in Agents : phase[a] = "poll" /\ cur[a] = s
        /\ Submit(h, o, sess[s].code)

\* The worker thread of an agent runs, the server finishes each request it
\* takes and takes each client's in time (a worker pool with a queue), the
\* operator acts, a stopped agent is started again.
Fairness ==
    /\ \A h \in Handlers : WF_vars(ServerStep(h)) /\ WF_vars(ReplyStep(h))
    /\ \A a \in Agents : /\ WF_vars(SaveAuth(a)) /\ WF_vars(Start(a, FALSE))
                         /\ SF_vars(\E h \in Handlers : Call(h, a))
    /\ SF_vars(\E h \in Handlers : EnterLiveCode(h))

LiveSpec == Spec /\ Fairness

\* After the last fault every agent settles in its heartbeat loop for good ...
EventuallyPaired == <>[](\A a \in Agents : phase[a] \in {"report", "loop"})

\* ... and keeps being shown ONLINE by an organisation.
KeepsReporting == \A a \in Agents : []<>(\E o \in Orgs : <<o, a>> \in online)

=============================================================================
