------------------------ MODULE EndpointPairingProofs ------------------------
(***************************************************************************)
(* The credential properties of EndpointPairing hold for every number of   *)
(* agents, organisations, server handlers, sessions, tokens and faults:    *)
(* TypeOK and Ledger are inductive together, and Ledger implies them.      *)
(***************************************************************************)
EXTENDS EndpointPairing, TLAPS

USE DemoAssumption, NoneAssumption, BoundAssumption DEF Sessions, Tokens

LEMMA IdleType == Idle \in Request /\ CarriedOK(Idle)
  BY DEF Idle, Request, Steps, Answers, Codes, CarriedOK

LEMMA NoSessionType == NoSession \in Session
  BY DEF NoSession, Session, Status, Codes

LEMMA InitOK == Init => TypeOK /\ Ledger
<1>1. ASSUME Init PROVE TypeOK
  BY <1>1, IdleType, NoSessionType DEF Init, TypeOK, Phase, Life
<1>2. ASSUME Init PROVE SessionLedger /\ RowLedger
  BY <1>2 DEF Init, SessionLedger, RowLedger, NoSession
<1>3. ASSUME Init PROVE RequestLedger /\ AgentLedger
  BY <1>3, IdleType DEF Init, RequestLedger, AgentLedger, IssuedTo
<1> QED BY <1>1, <1>2, <1>3 DEF Ledger

-----------------------------------------------------------------------------
(* What the helper operators of the module do *)

LEMMA BecomesType ==
  ASSUME TypeOK, NEW h \in Handlers, NEW r \in Request, Becomes(h, r)
  PROVE  /\ req' \in [Handlers -> Request]
         /\ req'[h] = r
         /\ \A g \in Handlers : g # h => req'[g] = req[g]
  BY DEF TypeOK, Becomes

LEMMA GoToType ==
  ASSUME TypeOK, NEW h \in Handlers, NEW st \in Steps
  PROVE  [req[h] EXCEPT !.step = st] \in Request
<1>1. req[h] \in Request
  BY DEF TypeOK
<1> QED BY <1>1 DEF Request

LEMMA AnswerType ==
  ASSUME TypeOK, NEW h \in Handlers, NEW an \in Answers
  PROVE  [req[h] EXCEPT !.step = "reply", !.answer = an] \in Request
<1>1. req[h] \in Request
  BY DEF TypeOK
<1> QED BY <1>1 DEF Request, Steps

\* What earlier facts survive: sessions keep their agent, tokens their grant.
Grows ==
    /\ inserted' \in 0..MaxSessions /\ inserted <= inserted'
    /\ minted' \in 0..MaxTokens /\ minted <= minted'
    /\ \A s \in 1..inserted : sess'[s].agent = sess[s].agent
    /\ \A t \in Tokens : t <= minted => grant'[t] = grant[t]

\* The part of TypeOK that is about the agents.
AgentTypes ==
    /\ phase \in [Agents -> Phase] /\ life \in [Agents -> Life]
    /\ cur \in [Agents -> 0..MaxSessions]
    /\ token \in [Agents -> 0..MaxTokens] /\ auth \in [Agents -> 0..MaxTokens]
    /\ faults \in 0..MaxFaults

LEMMA CarriedStable ==
  ASSUME TypeOK, Grows, NEW r \in Request, CarriedOK(r)
  PROVE  CarriedOK(r)'
<1>1. r.sid \in 0..MaxSessions /\ r.token \in 0..MaxTokens /\ r.priors \subseteq Sessions
  BY DEF Request
<1>2. \A s \in r.priors : s <= inserted'
  BY <1>1 DEF TypeOK, Grows, CarriedOK
<1> QED BY <1>1, <1>2 DEF TypeOK, Grows, CarriedOK, IssuedTo

\* A step that gives one handler a good request keeps RequestLedger.
LEMMA RequestsStable ==
  ASSUME TypeOK, RequestLedger, Grows, NEW h \in Handlers, NEW r \in Request,
         Becomes(h, r), CarriedOK(r)'
  PROVE  RequestLedger'
<1>1. ASSUME NEW g \in Handlers PROVE CarriedOK(req[g])'
  <2>1. CASE g = h
    BY <2>1, BecomesType
  <2>2. CASE g # h
    <3>1. req'[g] = req[g] /\ req[g] \in Request
      BY <2>2, BecomesType DEF TypeOK
    <3>2. CarriedOK(req[g])
      BY DEF RequestLedger
    <3>3. \A x \in Request : CarriedOK(x) => CarriedOK(x)'
      BY CarriedStable
    <3> QED BY <3>1, <3>2, <3>3 DEF CarriedOK, IssuedTo
  <2> QED BY <2>1, <2>2
<1> QED BY <1>1 DEF RequestLedger

\* The facts about one token, or one session, that a step of Grows keeps.
LEMMA IssuedStable ==
  ASSUME TypeOK, Grows, NEW t \in 0..MaxTokens, t # 0, NEW a, IssuedTo(t, a)
  PROVE  t <= minted' /\ grant'[t].agent = a /\ grant'[t] = grant[t]
<1>1. minted \in 0..MaxTokens
  BY DEF TypeOK
<1> QED BY <1>1 DEF Grows, IssuedTo

LEMMA SessionStable ==
  ASSUME TypeOK, Grows, NEW s \in 1..inserted
  PROVE  s \in 1..inserted' /\ sess'[s].agent = sess[s].agent /\ s \in Sessions
<1>1. inserted \in 0..MaxSessions
  BY DEF TypeOK
<1> QED BY <1>1 DEF Grows

LEMMA AgentsStable ==
  ASSUME TypeOK, AgentLedger, Grows, UNCHANGED agentVars
  PROVE  AgentLedger'
<1> SUFFICES ASSUME NEW a \in Agents
             PROVE  /\ phase[a] = "poll" => cur[a] \in 1..inserted' /\ sess'[cur[a]].agent = a
                    /\ token[a] # 0 => token[a] <= minted' /\ grant'[token[a]].agent = a
                    /\ auth[a] # 0 => auth[a] <= minted' /\ grant'[auth[a]].agent = a
  BY DEF AgentLedger, agentVars, IssuedTo
<1>1. phase[a] = "poll" => cur[a] \in 1..inserted' /\ sess'[cur[a]].agent = a
  BY SessionStable DEF AgentLedger
<1>2. token[a] \in 0..MaxTokens /\ auth[a] \in 0..MaxTokens
  BY DEF TypeOK
<1>3. token[a] # 0 => token[a] <= minted' /\ grant'[token[a]].agent = a
  BY <1>2, IssuedStable DEF AgentLedger
<1>4. auth[a] # 0 => auth[a] <= minted' /\ grant'[auth[a]].agent = a
  BY <1>2, IssuedStable DEF AgentLedger
<1> QED BY <1>1, <1>3, <1>4

-----------------------------------------------------------------------------
(* Steps that change nothing but what a handler does *)

LEMMA QuietStep ==
  ASSUME TypeOK, Ledger, NEW h \in Handlers, NEW r \in Request, Becomes(h, r),
         CarriedOK(r), UNCHANGED <<dbVars, history, agentVars, faults>>
  PROVE  TypeOK' /\ Ledger'
<1>1. Grows
  BY DEF Grows, TypeOK, dbVars, history
<1>2. TypeOK'
  BY BecomesType DEF TypeOK, dbVars, history, agentVars
<1>3. CarriedOK(r)'
  BY DEF CarriedOK, IssuedTo, dbVars, history
<1>4. SessionLedger' /\ RowLedger'
  BY DEF Ledger, SessionLedger, RowLedger, IssuedTo, dbVars, history
<1>5. RequestLedger'
  BY <1>1, <1>3, RequestsStable DEF Ledger
<1>6. AgentLedger'
  BY <1>1, AgentsStable DEF Ledger
<1> QED BY <1>2, <1>4, <1>5, <1>6 DEF Ledger

\* An answer that hands over no session keeps what the request carries.
LEMMA AnswerCarried ==
  ASSUME TypeOK, Ledger, NEW h \in Handlers, NEW an \in Answers,
         req[h].op = "init" => an # "OK"
  PROVE  CarriedOK([req[h] EXCEPT !.step = "reply", !.answer = an])
<1>1. req[h] \in Request /\ CarriedOK(req[h])
  BY DEF TypeOK, Ledger, RequestLedger
<1> QED BY <1>1 DEF Request, CarriedOK

LEMMA FindPriorsOK ==
  ASSUME TypeOK, Ledger, NEW h \in Handlers, FindPriors(h) PROVE TypeOK' /\ Ledger'
<1> DEFINE priors == {s \in Sessions : /\ sess[s].code = DemoCode
                                       /\ sess[s].status = "WAITING_FOR_PAIR"}
           r == [req[h] EXCEPT !.step = "expire", !.priors = priors]
<1>1. req[h] \in Request /\ CarriedOK(req[h]) /\ req[h].op = "init"
  BY DEF TypeOK, Ledger, RequestLedger, FindPriors, At
<1>2. priors \in SUBSET Sessions
  OBVIOUS
<1> HIDE DEF priors
<1>3. r \in Request
  BY <1>1, <1>2 DEF Request, Steps
<1>4. \A s \in priors : s <= inserted
  BY DEF Ledger, SessionLedger, NoSession, priors, TypeOK
<1>5. CarriedOK(r)
  BY <1>1, <1>4 DEF CarriedOK, Request
<1>6. Becomes(h, r) /\ UNCHANGED <<dbVars, history, agentVars, faults>>
  BY DEF FindPriors, priors
<1> QED BY <1>3, <1>5, <1>6, QuietStep

LEMMA RefuseOK ==
  ASSUME TypeOK, Ledger, NEW h \in Handlers,
         RefuseUnknownCode(h) \/ RefuseUsedCode(h)
  PROVE  TypeOK' /\ Ledger'
<1> DEFINE r == [req[h] EXCEPT !.step = "reply", !.answer = "refused"]
<1>1. Becomes(h, r) /\ req[h].op = "pair" /\ UNCHANGED <<dbVars, history, agentVars, faults>>
  BY DEF RefuseUnknownCode, RefuseUsedCode, Answer, At
<1>2. r \in Request /\ CarriedOK(r)
  BY <1>1, AnswerType, AnswerCarried DEF Answers
<1> QED BY <1>1, <1>2, QuietStep

LEMMA AcceptCodeOK ==
  ASSUME TypeOK, Ledger, NEW h \in Handlers, AcceptCode(h) PROVE TypeOK' /\ Ledger'
<1>1. PICK s \in WithCode(req[h].code) :
         Becomes(h, [req[h] EXCEPT !.step = "lookup", !.sid = s])
  BY DEF AcceptCode
<1> DEFINE r == [req[h] EXCEPT !.step = "lookup", !.sid = s]
<1>2. s \in Sessions /\ s \in 1..inserted /\ s \in 0..MaxSessions
  BY DEF WithCode, Ledger, SessionLedger, NoSession, TypeOK
<1>3. req[h] \in Request /\ CarriedOK(req[h]) /\ req[h].op = "pair"
  BY DEF TypeOK, Ledger, RequestLedger, AcceptCode, At
<1>4. r \in Request
  BY <1>2, <1>3 DEF Request, Steps
<1>5. CarriedOK(r)
  BY <1>2, <1>3 DEF CarriedOK, Request
<1>6. UNCHANGED <<dbVars, history, agentVars, faults>>
  BY DEF AcceptCode
<1> QED BY <1>1, <1>4, <1>5, <1>6, QuietStep

LEMMA FindAgentRowOK ==
  ASSUME TypeOK, Ledger, NEW h \in Handlers, FindAgentRow(h) PROVE TypeOK' /\ Ledger'
<1> DEFINE known == agentRow[req[h].org][sess[req[h].sid].agent] # 0
           r == [req[h] EXCEPT !.step = "commit", !.known = known]
<1>1. req[h] \in Request /\ CarriedOK(req[h]) /\ At(h, "pair", "lookup")
  BY DEF TypeOK, Ledger, RequestLedger, FindAgentRow
<1>2. known \in BOOLEAN
  OBVIOUS
<1>3. Becomes(h, r) /\ UNCHANGED <<dbVars, history, agentVars, faults>>
  BY DEF FindAgentRow
<1> HIDE DEF known
<1>4. r \in Request
  BY <1>1, <1>2 DEF Request, Steps
<1>5. CarriedOK(r)
  BY <1>1 DEF CarriedOK, Request, At
<1> QED BY <1>3, <1>4, <1>5, QuietStep

LEMMA RegisterConflictOK ==
  ASSUME TypeOK, Ledger, NEW h \in Handlers, RegisterConflict(h) PROVE TypeOK' /\ Ledger'
<1> DEFINE r == [req[h] EXCEPT !.step = "reply", !.answer = "error"]
<1>1. Becomes(h, r) /\ req[h].op = "pair" /\ UNCHANGED <<dbVars, history, agentVars, faults>>
  BY DEF RegisterConflict, Answer, At
<1>2. r \in Request /\ CarriedOK(r)
  BY <1>1, AnswerType, AnswerCarried DEF Answers
<1> QED BY <1>1, <1>2, QuietStep

LEMMA ReadPairedOK ==
  ASSUME TypeOK, Ledger, NEW h \in Handlers, ReadPaired(h) PROVE TypeOK' /\ Ledger'
<1> DEFINE s == req[h].sid
           r == [req[h] EXCEPT !.step = "commit", !.token = sess[s].token]
<1>1. req[h] \in Request /\ CarriedOK(req[h]) /\ req[h].op = "status"
  BY DEF TypeOK, Ledger, RequestLedger, ReadPaired, At
<1>2. s \in Sessions /\ sess[s].agent = req[h].agent /\ sess[s] \in Session
  BY <1>1 DEF CarriedOK, TypeOK
<1>3. sess[s].token # 0 /\ IssuedTo(sess[s].token, req[h].agent)
  BY <1>2 DEF Ledger, SessionLedger, ReadPaired
<1>4. Becomes(h, r) /\ UNCHANGED <<dbVars, history, agentVars, faults>>
  BY DEF ReadPaired
<1>5. r \in Request
  BY <1>1, <1>2 DEF Request, Session, Steps
<1>6. CarriedOK(r)
  BY <1>1, <1>3 DEF CarriedOK, Request
<1> QED BY <1>4, <1>5, <1>6, QuietStep

LEMMA AuthoriseReportOK ==
  ASSUME TypeOK, Ledger, NEW h \in Handlers, AuthoriseReport(h) PROVE TypeOK' /\ Ledger'
<1>1. req[h] \in Request /\ CarriedOK(req[h]) /\ req[h].op \in {"heartbeat", "telemetry"}
  BY DEF TypeOK, Ledger, RequestLedger, AuthoriseReport, CarriedOK
<1>2. UNCHANGED <<dbVars, history, agentVars, faults>>
  BY DEF AuthoriseReport
<1>3. CASE \E an \in {"unauthorized", "error"} : Answer(h, an)
  <2>1. PICK an \in {"unauthorized", "error"} : Answer(h, an)
    BY <1>3
  <2>2. an \in Answers
    BY <2>1 DEF Answers
  <2> DEFINE r == [req[h] EXCEPT !.step = "reply", !.answer = an]
  <2>3. r \in Request /\ CarriedOK(r)
    BY <1>1, <2>2, AnswerType, AnswerCarried
  <2> QED BY <1>2, <2>1, <2>3, QuietStep DEF Answer
<1>4. CASE \E o \in Orgs : Becomes(h, [req[h] EXCEPT !.step = "beat", !.org = o])
  <2>1. PICK o \in Orgs : Becomes(h, [req[h] EXCEPT !.step = "beat", !.org = o])
    BY <1>4
  <2> DEFINE r == [req[h] EXCEPT !.step = "beat", !.org = o]
  <2>2. r \in Request
    BY <1>1, <2>1 DEF Request, Steps
  <2>3. CarriedOK(r)
    BY <1>1, <2>1 DEF CarriedOK, Request
  <2> QED BY <1>2, <2>1, <2>2, <2>3, QuietStep
<1> QED BY <1>3, <1>4 DEF AuthoriseReport, RowsAccepting

LEMMA SubmitOK ==
  ASSUME TypeOK, Ledger, NEW h \in Handlers, NEW o \in Orgs, NEW c \in Codes, Submit(h, o, c)
  PROVE  TypeOK' /\ Ledger'
<1> DEFINE r == [Idle EXCEPT !.op = "pair", !.step = "read", !.org = o, !.code = c]
<1>1. r \in Request
  BY IdleType DEF Request, Steps
<1>2. CarriedOK(r)
  BY DEF Idle, CarriedOK
<1> QED BY <1>1, <1>2, QuietStep DEF Submit

LEMMA DropReplyOK ==
  ASSUME TypeOK, Ledger, NEW h \in Handlers, DropReply(h) PROVE TypeOK' /\ Ledger'
  BY IdleType, QuietStep DEF DropReply, Free

LEMMA CallOK ==
  ASSUME TypeOK, Ledger, NEW h \in Handlers, NEW a \in Agents, Call(h, a)
  PROVE  TypeOK' /\ Ledger'
<1> DEFINE op == OpOf[phase[a]]
           st == StepOf(a)
           sid == IF phase[a] = "poll" THEN cur[a] ELSE 0
           tk == IF phase[a] \in {"init", "poll"} THEN 0 ELSE token[a]
           r == [Idle EXCEPT !.op = op, !.step = st, !.agent = a, !.live = TRUE,
                             !.sid = sid, !.token = tk]
<1>1. Becomes(h, r) /\ UNCHANGED <<dbVars, history, agentVars, faults>>
  BY DEF Call
<1>2. phase[a] \in {"init", "poll", "probe", "loop", "report"}
  BY DEF Call, OpOf
<1>3. sid \in 0..MaxSessions /\ tk \in 0..MaxTokens
  BY DEF TypeOK
<1>4. tk # 0 => IssuedTo(tk, a)
  BY DEF Ledger, AgentLedger
<1>5. op = "status" => sid \in 1..inserted /\ sess[sid].agent = a
  BY <1>2 DEF Ledger, AgentLedger, OpOf
<1>6. /\ op \in {"init", "status", "heartbeat", "telemetry"}
      /\ st \in {"read", "insert", "auth"}
      /\ st = "auth" => op \in {"heartbeat", "telemetry"}
  BY <1>2 DEF OpOf, StepOf
<1> HIDE DEF op, st, sid, tk
<1>7. r \in Request
  BY <1>3, <1>6, IdleType DEF Request, Steps
<1>8. CarriedOK(r)
  BY <1>4, <1>5, <1>6 DEF Idle, CarriedOK
<1> QED BY <1>1, <1>7, <1>8, QuietStep

-----------------------------------------------------------------------------
(* Steps that write a session's status or expiry *)

\* A write that offers nothing new keeps the ledgers of sessions and rows.
Lapse ==
    /\ sess' \in [Sessions -> Session]
    /\ \A s \in Sessions :
          /\ sess'[s].agent = sess[s].agent /\ sess'[s].org = sess[s].org
          /\ sess'[s].token = sess[s].token
          /\ sess'[s].status \in {sess[s].status, "EXPIRED"}
          /\ s > inserted => sess'[s] = sess[s]
    /\ UNCHANGED <<inserted, agentRow, online, grid, history, agentVars>>

LEMMA LapseLedger ==
  ASSUME TypeOK, Ledger, Lapse
  PROVE  Grows /\ SessionLedger' /\ RowLedger' /\ AgentLedger'
<1>1. Grows
  BY DEF Grows, TypeOK, Lapse, history
<1>2. SessionLedger'
  <2>1. ASSUME NEW s \in Sessions
        PROVE  /\ s > inserted => sess'[s] = NoSession
               /\ s <= inserted => sess'[s].agent \in Agents
               /\ sess'[s].status = "PAIRED" => sess'[s].token # 0
               /\ sess'[s].token # 0 => /\ IssuedTo(sess'[s].token, sess'[s].agent)
                                       /\ grant[sess'[s].token].org = sess'[s].org
    BY DEF Ledger, SessionLedger, Lapse
  <2> QED BY <2>1 DEF SessionLedger, Lapse, history, IssuedTo
<1>3. RowLedger'
  BY DEF Ledger, RowLedger, Lapse, history, IssuedTo
<1>4. AgentLedger'
  BY <1>1, AgentsStable DEF Ledger, Lapse
<1> QED BY <1>1, <1>2, <1>3, <1>4

LEMMA LapseStep ==
  ASSUME TypeOK, Ledger, NEW h \in Handlers, NEW r \in Request, Becomes(h, r),
         CarriedOK(r), Lapse, UNCHANGED faults
  PROVE  TypeOK' /\ Ledger'
<1>1. Grows /\ SessionLedger' /\ RowLedger' /\ AgentLedger'
  BY LapseLedger
<1>2. TypeOK'
  BY BecomesType DEF TypeOK, Lapse, history, agentVars
<1>3. CarriedOK(r)'
  BY <1>1, CarriedStable
<1>4. RequestLedger'
  BY <1>1, <1>3, RequestsStable DEF Ledger
<1> QED BY <1>1, <1>2, <1>4 DEF Ledger

\* One field of one session set to a value that offers nothing.
LEMMA LapseOne ==
  ASSUME TypeOK, Ledger, NEW s \in Sessions, s <= inserted \/ sess[s].status # "none",
         \/ sess' = [sess EXCEPT ![s].status = "EXPIRED"]
         \/ sess' = [sess EXCEPT ![s].late = TRUE],
         UNCHANGED <<inserted, agentRow, online, grid, history, agentVars>>
  PROVE  Lapse
<1>1. sess[s] \in Session /\ s <= inserted
  BY DEF TypeOK, Ledger, SessionLedger, NoSession
<1>2. PICK r \in {[sess[s] EXCEPT !.status = "EXPIRED"], [sess[s] EXCEPT !.late = TRUE]} :
         sess' = [sess EXCEPT ![s] = r]
  OBVIOUS
<1>3. /\ r \in Session
      /\ r.agent = sess[s].agent /\ r.org = sess[s].org /\ r.token = sess[s].token
      /\ r.status \in {sess[s].status, "EXPIRED"}
  BY <1>1, <1>2 DEF Session, Status
<1> QED BY <1>1, <1>2, <1>3 DEF Lapse, TypeOK

LEMMA ExpirePriorsOK ==
  ASSUME TypeOK, Ledger, NEW h \in Handlers, ExpirePriors(h) PROVE TypeOK' /\ Ledger'
<1> DEFINE r == [req[h] EXCEPT !.step = "insert"]
<1>1. req[h] \in Request /\ CarriedOK(req[h]) /\ req[h].op = "init"
  BY DEF TypeOK, Ledger, RequestLedger, ExpirePriors, At
<1>2. r \in Request /\ CarriedOK(r)
  <2>1. r \in Request
    BY GoToType DEF Steps
  <2>2. CarriedOK(r)
    BY <1>1 DEF CarriedOK, Request
  <2> QED BY <2>1, <2>2
<1>3. Lapse
  <2>1. ASSUME NEW s \in Sessions
        PROVE  /\ sess'[s] \in Session
               /\ sess'[s].agent = sess[s].agent /\ sess'[s].org = sess[s].org
               /\ sess'[s].token = sess[s].token
               /\ sess'[s].status \in {sess[s].status, "EXPIRED"}
               /\ s > inserted => sess'[s] = sess[s]
    <3>1. sess[s] \in Session /\ inserted \in Nat
      BY DEF TypeOK
    <3>2. sess'[s] = IF s \in req[h].priors THEN [sess[s] EXCEPT !.status = "EXPIRED"]
                     ELSE sess[s]
      BY DEF ExpirePriors
    <3>3. s \in req[h].priors => s <= inserted
      BY <1>1 DEF CarriedOK
    <3> QED BY <3>1, <3>2, <3>3 DEF Session, Status
  <2> QED BY <2>1 DEF Lapse, ExpirePriors
<1> QED BY <1>2, <1>3, LapseStep DEF ExpirePriors, GoTo

LEMMA RefuseLateCodeOK ==
  ASSUME TypeOK, Ledger, NEW h \in Handlers, RefuseLateCode(h) PROVE TypeOK' /\ Ledger'
<1>1. req[h] \in Request /\ CarriedOK(req[h]) /\ req[h].op = "pair"
  BY DEF TypeOK, Ledger, RequestLedger, RefuseLateCode, At
<1>2. UNCHANGED <<dbVars, history, agentVars, faults>>
  BY DEF RefuseLateCode
<1>3. CASE Answer(h, "refused")
  <2>1. /\ [req[h] EXCEPT !.step = "reply", !.answer = "refused"] \in Request
        /\ CarriedOK([req[h] EXCEPT !.step = "reply", !.answer = "refused"])
    BY <1>1, AnswerType, AnswerCarried DEF Answers
  <2> QED BY <1>2, <1>3, <2>1, QuietStep DEF Answer
<1>4. CASE \E s \in WithCode(req[h].code) : Becomes(h, [req[h] EXCEPT !.step = "expire", !.sid = s])
  <2>1. PICK s \in WithCode(req[h].code) : Becomes(h, [req[h] EXCEPT !.step = "expire", !.sid = s])
    BY <1>4
  <2> DEFINE r == [req[h] EXCEPT !.step = "expire", !.sid = s]
  <2>2. s \in Sessions /\ s \in 1..inserted /\ s \in 0..MaxSessions
    BY DEF WithCode, Ledger, SessionLedger, NoSession, TypeOK
  <2>3. r \in Request
    BY <1>1, <2>2 DEF Request, Steps
  <2>4. CarriedOK(r)
    BY <1>1, <2>2 DEF CarriedOK, Request
  <2> QED BY <1>2, <2>1, <2>3, <2>4, QuietStep
<1> QED BY <1>3, <1>4 DEF RefuseLateCode

LEMMA ReadStatusOK ==
  ASSUME TypeOK, Ledger, NEW h \in Handlers, ReadStatus(h) PROVE TypeOK' /\ Ledger'
<1> DEFINE s == req[h].sid
<1>1. req[h].op = "status" /\ s \in Sessions
  BY DEF TypeOK, Ledger, RequestLedger, CarriedOK, ReadStatus, At
<1>2. sess[s].status \in Status \ {"PAIRED"}
  BY <1>1 DEF TypeOK, Session, ReadStatus
<1>3. PICK an \in Answers : Answer(h, an)
  BY <1>2 DEF ReadStatus, Answers, Status
<1> DEFINE r == [req[h] EXCEPT !.step = "reply", !.answer = an]
<1>4. r \in Request /\ CarriedOK(r)
  BY <1>1, AnswerType, AnswerCarried
<1> QED BY <1>3, <1>4, QuietStep DEF Answer, ReadStatus

LEMMA ReadLateOK ==
  ASSUME TypeOK, Ledger, NEW h \in Handlers, ReadLate(h) PROVE TypeOK' /\ Ledger'
<1> DEFINE r == [req[h] EXCEPT !.step = "expire"]
<1>1. req[h] \in Request /\ CarriedOK(req[h]) /\ req[h].op = "status"
  BY DEF TypeOK, Ledger, RequestLedger, ReadLate, At
<1>2. r \in Request
  BY GoToType DEF Steps
<1>3. CarriedOK(r)
  BY <1>1 DEF CarriedOK, Request
<1> QED BY <1>2, <1>3, QuietStep DEF ReadLate, GoTo

LEMMA ExpireLateOK ==
  ASSUME TypeOK, Ledger, NEW h \in Handlers, ExpireLate(h) PROVE TypeOK' /\ Ledger'
<1>1. req[h] \in Request /\ CarriedOK(req[h])
  BY DEF TypeOK, Ledger, RequestLedger
<1>2. req[h].op \in {"pair", "status"} /\ req[h].sid \in Sessions /\ req[h].sid <= inserted
  BY <1>1 DEF ExpireLate, CarriedOK, TypeOK
<1>3. PICK an \in {"refused", "EXPIRED"} : Answer(h, an)
  BY DEF ExpireLate
<1> DEFINE r == [req[h] EXCEPT !.step = "reply", !.answer = an]
<1>4. r \in Request /\ CarriedOK(r)
  BY <1>2, AnswerType, AnswerCarried DEF Answers
<1>5. Lapse
  BY <1>2, LapseOne DEF ExpireLate
<1> QED BY <1>3, <1>4, <1>5, LapseStep DEF Answer, ExpireLate

LEMMA ElapseOK ==
  ASSUME TypeOK, Ledger, NEW s \in Sessions, Elapse(s) PROVE TypeOK' /\ Ledger'
<1>1. Lapse
  BY LapseOne DEF Elapse
<1>2. Grows /\ SessionLedger' /\ RowLedger' /\ AgentLedger'
  BY <1>1, LapseLedger
<1>3. TypeOK'
  <2>1. req' = req /\ faults' \in 0..MaxFaults
    BY DEF Elapse, Fault, TypeOK
  <2> QED BY <1>1, <2>1 DEF TypeOK, Lapse, history, agentVars
<1>4. ASSUME NEW h \in Handlers PROVE CarriedOK(req[h])'
  <2>1. req[h] \in Request /\ CarriedOK(req[h]) /\ req' = req
    BY DEF TypeOK, Ledger, RequestLedger, Elapse
  <2>2. \A x \in Request : CarriedOK(x) => CarriedOK(x)'
    BY <1>2, CarriedStable
  <2> QED BY <2>1, <2>2 DEF CarriedOK, IssuedTo
<1> QED BY <1>2, <1>3, <1>4 DEF Ledger, RequestLedger

-----------------------------------------------------------------------------
(* Inserting, registering and consuming a session *)

LEMMA InsertSessionOK ==
  ASSUME TypeOK, Ledger, NEW h \in Handlers, InsertSession(h) PROVE TypeOK' /\ Ledger'
<1> DEFINE s == inserted + 1
           n == [NoSession EXCEPT !.status = "WAITING_FOR_PAIR",
                                  !.agent = req[h].agent,
                                  !.code = IF req[h].agent \in DemoAgents THEN DemoCode ELSE s]
           next == [req[h] EXCEPT !.step = "reply", !.answer = "OK", !.sid = s]
<1>1. req[h] \in Request /\ CarriedOK(req[h]) /\ req[h].op = "init" /\ req[h].agent \in Agents
  BY DEF TypeOK, Ledger, RequestLedger, InsertSession, At, CarriedOK
<1>2. /\ s \in Sessions /\ s \in 0..MaxSessions /\ inserted' = s /\ Becomes(h, next)
      /\ sess' = [sess EXCEPT ![s] = n]
      /\ UNCHANGED <<agentRow, online, grid, history, agentVars, faults>>
  BY DEF InsertSession, TypeOK
<1>3. n \in Session /\ n.agent = req[h].agent /\ n.token = 0 /\ n.status = "WAITING_FOR_PAIR"
  <2>1. (IF req[h].agent \in DemoAgents THEN DemoCode ELSE s) \in Codes
    BY <1>2 DEF Codes, DemoCode
  <2> QED BY <1>1, <2>1, NoSessionType DEF Session, Status, NoSession
<1>4. PICK r \in Request :
         /\ Becomes(h, r) /\ r.sid = s /\ r.agent = req[h].agent
         /\ r.op = "init" /\ r.step = "reply"
         /\ r.token = req[h].token /\ r.priors = req[h].priors
  <2>1. next \in Request
    BY <1>1, <1>2 DEF Request, Steps, Answers
  <2> QED BY <1>1, <1>2, <2>1 DEF Request
<1> HIDE DEF n, next
<1>5. /\ sess' \in [Sessions -> Session] /\ sess'[s] = n
      /\ \A x \in Sessions : x # s => sess'[x] = sess[x]
  BY <1>2, <1>3 DEF TypeOK
<1>6. Grows
  BY <1>2, <1>5 DEF Grows, TypeOK, history
<1>7. TypeOK'
  BY <1>2, <1>4, <1>5, BecomesType DEF TypeOK, history, agentVars
<1>8. SessionLedger'
  <2>1. ASSUME NEW x \in Sessions
        PROVE  /\ x > inserted' => sess'[x] = NoSession
               /\ x <= inserted' => sess'[x].agent \in Agents
               /\ sess'[x].status = "PAIRED" => sess'[x].token # 0
               /\ sess'[x].token # 0 => /\ IssuedTo(sess'[x].token, sess'[x].agent)
                                       /\ grant[sess'[x].token].org = sess'[x].org
    <3>1. CASE x = s
      BY <1>1, <1>2, <1>3, <1>5, <3>1
    <3>2. CASE x # s
      BY <1>2, <1>5, <3>2 DEF Ledger, SessionLedger, TypeOK
    <3> QED BY <3>1, <3>2
  <2> QED BY <1>2, <2>1 DEF SessionLedger, history, IssuedTo
<1>9. RowLedger'
  BY <1>2 DEF Ledger, RowLedger, history, IssuedTo
<1>10. CarriedOK(r)'
  <2>1. r.token # 0 => IssuedTo(r.token, r.agent)'
    BY <1>1, <1>4, <1>2 DEF CarriedOK, IssuedTo, history
  <2>2. \A x \in r.priors : x <= inserted'
    BY <1>1, <1>2, <1>4 DEF CarriedOK, TypeOK, Request
  <2> QED BY <1>1, <1>2, <1>3, <1>4, <1>5, <2>1, <2>2 DEF CarriedOK, TypeOK
<1>11. RequestLedger'
  BY <1>2, <1>4, <1>6, <1>10, RequestsStable DEF Ledger
<1>12. AgentLedger'
  BY <1>2, <1>6, AgentsStable DEF Ledger
<1> QED BY <1>7, <1>8, <1>9, <1>11, <1>12 DEF Ledger

LEMMA RegisterAgentOK ==
  ASSUME TypeOK, Ledger, NEW h \in Handlers, RegisterAgent(h) PROVE TypeOK' /\ Ledger'
<1>1. req[h] \in Request /\ CarriedOK(req[h]) /\ At(h, "pair", "commit")
  BY DEF TypeOK, Ledger, RequestLedger, RegisterAgent
<1>2. PICK s \in 1..inserted, o \in Orgs, a \in Agents, t \in Tokens :
         /\ s = req[h].sid /\ o = req[h].org /\ a = sess[s].agent /\ t = minted + 1
         /\ agentRow' = [agentRow EXCEPT ![o][a] = t]
         /\ online' = online \cup {<<o, a>>}
         /\ sess' = [sess EXCEPT ![s] = [sess[s] EXCEPT !.status = "PAIRED", !.org = o, !.token = t]]
         /\ minted' = t
         /\ grant' = [grant EXCEPT ![t] = [org |-> o, agent |-> a, sid |-> s]]
  <2>1. req[h].sid \in 1..inserted /\ req[h].org \in Orgs /\ req[h].sid \in Sessions
    BY <1>1 DEF CarriedOK, At, TypeOK
  <2>2. sess[req[h].sid].agent \in Agents
    BY <2>1 DEF Ledger, SessionLedger, TypeOK
  <2>3. minted + 1 \in Tokens
    BY DEF RegisterAgent, TypeOK
  <2> QED BY <2>1, <2>2, <2>3 DEF RegisterAgent
<1> DEFINE n == [sess[s] EXCEPT !.status = "PAIRED", !.org = o, !.token = t]
           g == [org |-> o, agent |-> a, sid |-> s]
<1>3. PICK r \in Request :
         /\ Becomes(h, r) /\ r.step = "grid" /\ r.op = "pair" /\ r.org = o /\ r.sid = s
         /\ r.live = req[h].live /\ r.agent = req[h].agent
         /\ r.token = req[h].token /\ r.priors = req[h].priors
  <2>1. [req[h] EXCEPT !.step = "grid"] \in Request
    BY GoToType DEF Steps
  <2> QED BY <1>1, <1>2, <2>1 DEF RegisterAgent, GoTo, Request, At
<1>4. UNCHANGED <<inserted, grid, released, agentVars, faults>>
  BY DEF RegisterAgent
<1>5. s \in Sessions /\ sess[s] \in Session /\ minted \in 0..MaxTokens /\ inserted \in 0..MaxSessions
  BY <1>2 DEF TypeOK
<1>6. n \in Session /\ n.agent = a /\ n.org = o /\ n.token = t /\ t # 0
  <2>1. t \in 0..MaxTokens /\ t # 0 /\ o \in Orgs /\ sess[s].agent = a
    BY <1>2
  <2> QED BY <2>1, <1>5 DEF Session, Status
<1>7. g \in Grant /\ g.org = o /\ g.agent = a
  BY <1>5 DEF Grant
<1> HIDE DEF n, g
<1>8. /\ sess' \in [Sessions -> Session] /\ sess'[s] = n
      /\ \A x \in Sessions : x # s => sess'[x] = sess[x]
  BY <1>2, <1>5, <1>6 DEF TypeOK, n
<1>9. /\ grant' \in [Tokens -> Grant \cup {None}] /\ grant'[t] = g
      /\ \A x \in Tokens : x # t => grant'[x] = grant[x]
  BY <1>2, <1>7 DEF TypeOK, g
<1>10. /\ agentRow' \in [Orgs -> [Agents -> 0..MaxTokens]] /\ agentRow'[o][a] = t
       /\ \A p \in Orgs, b \in Agents : p # o \/ b # a => agentRow'[p][b] = agentRow[p][b]
  <2>1. agentRow \in [Orgs -> [Agents -> 0..MaxTokens]]
    BY DEF TypeOK
  <2>2. agentRow' = [agentRow EXCEPT ![o][a] = t] /\ t \in 0..MaxTokens
    BY <1>2
  <2> QED BY <2>1, <2>2
<1>n. minted' = t /\ t = minted + 1 /\ minted \in Nat /\ t \in 0..MaxTokens /\ inserted' = inserted
  BY <1>2, <1>4, <1>5
<1>11. Grows
  <2>1. /\ inserted' \in 0..MaxSessions /\ inserted <= inserted'
        /\ minted' \in 0..MaxTokens /\ minted <= minted'
    BY <1>5, <1>n
  <2>2. ASSUME NEW x \in 1..inserted PROVE sess'[x].agent = sess[x].agent
    <3>1. CASE x = s
      BY <1>2, <1>6, <1>8, <3>1
    <3>2. CASE x # s
      BY <1>5, <1>8, <3>2
    <3> QED BY <3>1, <3>2
  <2>3. ASSUME NEW x \in Tokens, x <= minted PROVE grant'[x] = grant[x]
    BY <1>9, <1>n, <2>3
  <2> QED BY <2>1, <2>2, <2>3 DEF Grows
<1>12. TypeOK'
  <2>1. req' \in [Handlers -> Request]
    BY <1>3, BecomesType
  <2>2. online' \subseteq Orgs \X Agents /\ minted' \in 0..MaxTokens
    <3>1. online \subseteq Orgs \X Agents /\ <<o, a>> \in Orgs \X Agents
      BY DEF TypeOK
    <3>2. online' = online \cup {<<o, a>>}
      BY <1>2
    <3> QED BY <1>n, <3>1, <3>2
  <2>3. /\ inserted' \in 0..MaxSessions /\ grid' \in [Agents -> Orgs \cup {None}]
        /\ released' \subseteq Tokens /\ faults' \in 0..MaxFaults
    BY <1>4 DEF TypeOK
  <2>4. AgentTypes'
    BY <1>4 DEF TypeOK, AgentTypes, agentVars
  <2> QED BY <2>1, <2>2, <2>3, <2>4, <1>8, <1>9, <1>10 DEF TypeOK, AgentTypes
<1>13. SessionLedger'
  <2>1. ASSUME NEW x \in Sessions
        PROVE  /\ x > inserted => sess'[x] = NoSession
               /\ x <= inserted => sess'[x].agent \in Agents
               /\ sess'[x].status = "PAIRED" => sess'[x].token # 0
               /\ sess'[x].token # 0 => /\ sess'[x].token <= minted'
                                       /\ grant'[sess'[x].token].agent = sess'[x].agent
                                       /\ grant'[sess'[x].token].org = sess'[x].org
    <3>1. CASE x = s
      <4>1. sess'[x] = n /\ x <= inserted /\ a \in Agents
        BY <1>2, <1>8, <3>1
      <4>2. grant'[t].agent = a /\ grant'[t].org = o /\ t <= minted'
        BY <1>7, <1>9, <1>n
      <4>3. x > inserted => FALSE
        BY <1>2, <1>5, <3>1
      <4> QED BY <1>6, <4>1, <4>2, <4>3
    <3>2. CASE x # s
      <4>1. sess'[x] = sess[x] /\ sess[x].token \in 0..MaxTokens
        BY <1>8, <3>2 DEF TypeOK, Session
      <4>2. sess[x].token # 0 => IssuedTo(sess[x].token, sess[x].agent) /\ grant[sess[x].token].org = sess[x].org
        BY DEF Ledger, SessionLedger
      <4>3. sess[x].token # 0 => /\ sess[x].token <= minted'
                               /\ grant'[sess[x].token] = grant[sess[x].token]
        BY <1>11, <4>1, <4>2, IssuedStable
      <4> QED BY <4>1, <4>2, <4>3 DEF Ledger, SessionLedger, IssuedTo
    <3> QED BY <3>1, <3>2
  <2> QED BY <1>4, <2>1 DEF SessionLedger, IssuedTo
<1>14. RowLedger'
  <2>1. ASSUME NEW p \in Orgs, NEW b \in Agents, agentRow'[p][b] # 0
        PROVE  /\ agentRow'[p][b] <= minted'
               /\ grant'[agentRow'[p][b]].agent = b /\ grant'[agentRow'[p][b]].org = p
    <3>1. CASE p = o /\ b = a
      <4>1. agentRow'[p][b] = t /\ minted' = t /\ minted' \in 0..MaxTokens
        BY <1>2, <1>10, <1>11, <3>1 DEF Grows
      <4> QED BY <1>7, <1>9, <3>1, <4>1
    <3>2. CASE p # o \/ b # a
      <4>1. agentRow'[p][b] = agentRow[p][b] /\ agentRow[p][b] \in 0..MaxTokens
        BY <1>10, <3>2 DEF TypeOK
      <4>2. IssuedTo(agentRow[p][b], b) /\ grant[agentRow[p][b]].org = p
        BY <2>1, <4>1 DEF Ledger, RowLedger
      <4>3. /\ agentRow[p][b] <= minted'
            /\ grant'[agentRow[p][b]] = grant[agentRow[p][b]]
        BY <1>11, <2>1, <4>1, <4>2, IssuedStable
      <4> QED BY <4>1, <4>2, <4>3 DEF IssuedTo
    <3> QED BY <3>1, <3>2
  <2>2. ASSUME NEW x \in Tokens, x <= minted'
        PROVE  grant'[x] \in Grant /\ agentRow'[grant'[x].org][grant'[x].agent] >= x
    <3>1. CASE x = t
      <4>1. grant'[x] = g /\ agentRow'[o][a] = x /\ x \in Nat
        BY <1>9, <1>10, <1>n, <3>1
      <4> QED BY <1>7, <4>1
    <3>2. CASE x # t
      <4>1. x <= minted /\ grant'[x] = grant[x]
        BY <1>2, <1>5, <1>9, <2>2, <3>2
      <4>2. grant[x] \in Grant /\ agentRow[grant[x].org][grant[x].agent] >= x
        BY <4>1 DEF Ledger, RowLedger
      <4>3. grant[x].org \in Orgs /\ grant[x].agent \in Agents
        BY <4>2 DEF Grant
      <4>4. CASE grant[x].org = o /\ grant[x].agent = a
        <5>1. agentRow'[grant[x].org][grant[x].agent] = t
          BY <1>10, <4>4
        <5>2. x <= t
          BY <1>n, <4>1
        <5> QED BY <1>n, <4>1, <4>2, <5>1, <5>2
      <4>5. CASE grant[x].org # o \/ grant[x].agent # a
        <5>1. agentRow'[grant[x].org][grant[x].agent] = agentRow[grant[x].org][grant[x].agent]
          BY <1>10, <4>3, <4>5
        <5> QED BY <4>1, <4>2, <5>1
      <4> QED BY <4>4, <4>5
    <3> QED BY <3>1, <3>2
  <2> QED BY <2>1, <2>2 DEF RowLedger, IssuedTo
<1>15. CarriedOK(r)'
  <2>1. r.token # 0 => r.token <= minted' /\ grant'[r.token].agent = r.agent
    BY <1>1, <1>3, <1>11, IssuedStable DEF CarriedOK, Request
  <2>2. r.live => r.agent \in Agents
    BY <1>1, <1>3 DEF CarriedOK
  <2>3. \A x \in r.priors : x <= inserted
    BY <1>1, <1>3 DEF CarriedOK
  <2> QED BY <1>3, <1>4, <2>1, <2>2, <2>3 DEF CarriedOK, IssuedTo
<1>16. RequestLedger' /\ AgentLedger'
  BY <1>3, <1>4, <1>11, <1>15, RequestsStable, AgentsStable DEF Ledger
<1> QED BY <1>12, <1>13, <1>14, <1>16 DEF Ledger

LEMMA ConsumeSessionOK ==
  ASSUME TypeOK, Ledger, NEW h \in Handlers, ConsumeSession(h) PROVE TypeOK' /\ Ledger'
<1>1. req[h] \in Request /\ CarriedOK(req[h]) /\ req[h].op = "status"
  BY DEF TypeOK, Ledger, RequestLedger, ConsumeSession, At
<1>2. PICK s \in 1..inserted : s = req[h].sid /\ s \in Sessions
  BY <1>1 DEF CarriedOK, TypeOK
<1> DEFINE n == [sess[s] EXCEPT !.status = "CONSUMED", !.token = 0]
<1>3. PICK r \in Request : Becomes(h, r) /\ CarriedOK(r)
  BY <1>1, AnswerType, AnswerCarried DEF Answers, ConsumeSession, Answer
<1>4. /\ UNCHANGED <<inserted, agentRow, online, grid, minted, grant, agentVars, faults>>
      /\ sess' = [sess EXCEPT ![s] = n]
  BY <1>2 DEF ConsumeSession
<1>5. sess[s] \in Session
  BY <1>2 DEF TypeOK
<1>6. n \in Session /\ n.agent = sess[s].agent /\ n.token = 0 /\ n.status = "CONSUMED"
  <2>1. 0 \in 0..MaxTokens
    OBVIOUS
  <2> QED BY <1>5, <2>1 DEF Session, Status
<1> HIDE DEF n
<1>7. /\ sess' \in [Sessions -> Session] /\ sess'[s] = n
      /\ \A x \in Sessions : x # s => sess'[x] = sess[x]
  BY <1>2, <1>4, <1>6 DEF TypeOK
<1>8. Grows
  BY <1>4, <1>6, <1>7 DEF Grows, TypeOK
<1>9. released' \subseteq Tokens
  <2>1. req[h].token \in 0..MaxTokens /\ req[h].token # 0
    BY <1>1 DEF Request, CarriedOK, ConsumeSession, At
  <2> QED BY <2>1 DEF ConsumeSession, TypeOK
<1>10. TypeOK'
  BY <1>3, <1>4, <1>7, <1>9, BecomesType DEF TypeOK, agentVars
<1>11. SessionLedger'
  <2>1. ASSUME NEW x \in Sessions
        PROVE  /\ x > inserted => sess'[x] = NoSession
               /\ x <= inserted => sess'[x].agent \in Agents
               /\ sess'[x].status = "PAIRED" => sess'[x].token # 0
               /\ sess'[x].token # 0 => /\ IssuedTo(sess'[x].token, sess'[x].agent)
                                       /\ grant[sess'[x].token].org = sess'[x].org
    <3>1. CASE x = s
      BY <1>2, <1>6, <1>7, <3>1 DEF Ledger, SessionLedger, TypeOK
    <3>2. CASE x # s
      BY <1>7, <3>2 DEF Ledger, SessionLedger
    <3> QED BY <3>1, <3>2
  <2> QED BY <1>4, <2>1 DEF SessionLedger, IssuedTo
<1>12. RowLedger'
  BY <1>4 DEF Ledger, RowLedger, IssuedTo
<1>13. CarriedOK(r)'
  BY <1>3, <1>8, CarriedStable
<1>14. RequestLedger' /\ AgentLedger'
  BY <1>3, <1>4, <1>8, <1>13, RequestsStable, AgentsStable DEF Ledger
<1> QED BY <1>10, <1>11, <1>12, <1>14 DEF Ledger

-----------------------------------------------------------------------------
(* Steps that change only who is online or in a grid *)

LEMMA PresenceStep ==
  ASSUME TypeOK, Ledger, NEW h \in Handlers, NEW r \in Request, Becomes(h, r), CarriedOK(r),
         online' \subseteq Orgs \X Agents, grid' \in [Agents -> Orgs \cup {None}],
         UNCHANGED <<sess, inserted, agentRow, history, agentVars, faults>>
  PROVE  TypeOK' /\ Ledger'
<1>1. Grows
  BY DEF Grows, TypeOK, history
<1>2. TypeOK'
  BY BecomesType DEF TypeOK, history, agentVars
<1>3. CarriedOK(r)'
  BY <1>1, CarriedStable
<1>4. SessionLedger' /\ RowLedger'
  BY DEF Ledger, SessionLedger, RowLedger, IssuedTo, history
<1>5. RequestLedger' /\ AgentLedger'
  BY <1>1, <1>3, RequestsStable, AgentsStable DEF Ledger
<1> QED BY <1>2, <1>4, <1>5 DEF Ledger

LEMMA RecordBeatOK ==
  ASSUME TypeOK, Ledger, NEW h \in Handlers, RecordBeat(h) PROVE TypeOK' /\ Ledger'
<1> DEFINE r == [req[h] EXCEPT !.step = "grid"]
<1>1. req[h] \in Request /\ CarriedOK(req[h]) /\ req[h].step = "beat"
  BY DEF TypeOK, Ledger, RequestLedger, RecordBeat
<1>2. req[h].org \in Orgs /\ req[h].agent \in Agents
  BY <1>1 DEF CarriedOK
<1>3. r \in Request
  BY GoToType DEF Steps
<1>4. CarriedOK(r)
  BY <1>1 DEF CarriedOK, Request
<1>5. online' \subseteq Orgs \X Agents /\ grid' \in [Agents -> Orgs \cup {None}]
  BY <1>2 DEF RecordBeat, TypeOK
<1> QED BY <1>3, <1>4, <1>5, PresenceStep DEF RecordBeat, GoTo

LEMMA UpsertDeviceOK ==
  ASSUME TypeOK, Ledger, NEW h \in Handlers, UpsertDevice(h) PROVE TypeOK' /\ Ledger'
<1>1. req[h] \in Request /\ CarriedOK(req[h]) /\ req[h].step = "grid"
  BY DEF TypeOK, Ledger, RequestLedger, UpsertDevice
<1>2. PICK r \in Request : Becomes(h, r) /\ CarriedOK(r)
  BY <1>1, AnswerType, AnswerCarried DEF Answers, UpsertDevice, Answer, CarriedOK
<1>3. req[h].org \in Orgs
  BY <1>1 DEF CarriedOK
<1>4. online' \subseteq Orgs \X Agents /\ grid' \in [Agents -> Orgs \cup {None}]
  BY <1>3 DEF UpsertDevice, TypeOK
<1> QED BY <1>2, <1>4, PresenceStep DEF UpsertDevice

LEMMA GoStaleOK ==
  ASSUME TypeOK, Ledger, NEW p \in Orgs \X Agents, GoStale(p) PROVE TypeOK' /\ Ledger'
<1>1. TypeOK'
  BY DEF GoStale, TypeOK, history, agentVars
<1>2. Ledger'
  BY DEF GoStale, Ledger, SessionLedger, RowLedger, RequestLedger, AgentLedger,
         CarriedOK, IssuedTo, history, agentVars
<1> QED BY <1>1, <1>2

-----------------------------------------------------------------------------
(* Steps of the agent and of the environment: the database stands still *)

LEMMA AgentStep ==
  ASSUME TypeOK, Ledger, UNCHANGED <<dbVars, history>>, AgentTypes', AgentLedger',
         req' \in [Handlers -> Request], \A g \in Handlers : CarriedOK(req'[g])
  PROVE  TypeOK' /\ Ledger'
<1>1. TypeOK'
  BY DEF TypeOK, AgentTypes, dbVars, history
<1>2. SessionLedger' /\ RowLedger'
  BY DEF Ledger, SessionLedger, RowLedger, IssuedTo, dbVars, history
<1>3. RequestLedger'
  BY DEF RequestLedger, CarriedOK, IssuedTo, dbVars, history
<1> QED BY <1>1, <1>2, <1>3 DEF Ledger

LEMMA BecomesCarried ==
  ASSUME TypeOK, Ledger, NEW h \in Handlers, NEW r \in Request, Becomes(h, r), CarriedOK(r)
  PROVE  req' \in [Handlers -> Request] /\ \A g \in Handlers : CarriedOK(req'[g])
<1>1. ASSUME NEW g \in Handlers PROVE CarriedOK(req'[g])
  <2>1. CASE g = h
    BY <2>1, BecomesType
  <2>2. CASE g # h
    BY <2>2, BecomesType DEF Ledger, RequestLedger
  <2> QED BY <2>1, <2>2
<1> QED BY <1>1, BecomesType

\* A step of one agent, and what that agent may know after it.
AgentBecomes(a, ph, c, tk, au) ==
    /\ phase' = [phase EXCEPT ![a] = ph] /\ cur' = [cur EXCEPT ![a] = c]
    /\ token' = [token EXCEPT ![a] = tk] /\ auth' = [auth EXCEPT ![a] = au]
    /\ life' \in [Agents -> Life] /\ faults' \in 0..MaxFaults
    /\ UNCHANGED <<dbVars, history>>

MayKnow(a, ph, c, tk, au) ==
    /\ ph \in Phase /\ c \in 0..MaxSessions /\ tk \in 0..MaxTokens /\ au \in 0..MaxTokens
    /\ ph = "poll" => c \in 1..inserted /\ sess[c].agent = a
    /\ tk # 0 => IssuedTo(tk, a)
    /\ au # 0 => IssuedTo(au, a)

LEMMA OneAgent ==
  ASSUME TypeOK, Ledger, NEW a \in Agents, NEW ph, NEW c, NEW tk, NEW au,
         AgentBecomes(a, ph, c, tk, au), MayKnow(a, ph, c, tk, au)
  PROVE  AgentTypes' /\ AgentLedger'
<1> USE DEF AgentBecomes, MayKnow
<1>1. AgentTypes'
  BY DEF TypeOK, AgentTypes
<1>2. ASSUME NEW b \in Agents
      PROVE  /\ phase'[b] = "poll" => cur'[b] \in 1..inserted /\ sess[cur'[b]].agent = b
             /\ token'[b] # 0 => IssuedTo(token'[b], b)
             /\ auth'[b] # 0 => IssuedTo(auth'[b], b)
  <2>1. CASE b = a
    BY <2>1 DEF TypeOK
  <2>2. CASE b # a
    <3>1. phase'[b] = phase[b] /\ cur'[b] = cur[b] /\ token'[b] = token[b] /\ auth'[b] = auth[b]
      BY <2>2 DEF TypeOK
    <3> QED BY <3>1 DEF Ledger, AgentLedger
  <2> QED BY <2>1, <2>2
<1>3. AgentLedger'
  BY <1>2 DEF AgentLedger, IssuedTo, dbVars, history
<1> QED BY <1>1, <1>3

\* The same facts about the agent as it is.
LEMMA AgentFacts ==
  ASSUME TypeOK, Ledger, NEW a \in Agents
  PROVE  /\ phase[a] \in Phase /\ life[a] \in Life /\ cur[a] \in 0..MaxSessions
         /\ token[a] \in 0..MaxTokens /\ auth[a] \in 0..MaxTokens /\ faults \in 0..MaxFaults
         /\ phase = [phase EXCEPT ![a] = phase[a]] /\ cur = [cur EXCEPT ![a] = cur[a]]
         /\ token = [token EXCEPT ![a] = token[a]] /\ auth = [auth EXCEPT ![a] = auth[a]]
         /\ phase[a] = "poll" => cur[a] \in 1..inserted /\ sess[cur[a]].agent = a
         /\ token[a] # 0 => IssuedTo(token[a], a)
         /\ auth[a] # 0 => IssuedTo(auth[a], a)
<1>1. /\ phase[a] \in Phase /\ life[a] \in Life /\ cur[a] \in 0..MaxSessions
      /\ token[a] \in 0..MaxTokens /\ auth[a] \in 0..MaxTokens /\ faults \in 0..MaxFaults
      /\ phase = [phase EXCEPT ![a] = phase[a]] /\ cur = [cur EXCEPT ![a] = cur[a]]
      /\ token = [token EXCEPT ![a] = token[a]] /\ auth = [auth EXCEPT ![a] = auth[a]]
  BY DEF TypeOK
<1> QED BY <1>1 DEF Ledger, AgentLedger

LEMMA LifeType ==
  ASSUME TypeOK, NEW a \in Agents, NEW l \in Life
  PROVE  [life EXCEPT ![a] = l] \in [Agents -> Life]
  BY DEF TypeOK

LEMMA ErrorAgent ==
  ASSUME TypeOK, Ledger, UNCHANGED <<dbVars, history>>, NEW a \in Agents, OnTransportError(a),
         faults' \in 0..MaxFaults
  PROVE  AgentTypes' /\ AgentLedger'
<1> DEFINE ph == CASE phase[a] = "probe"  -> "report"
                   [] phase[a] = "report" -> "loop"
                   [] OTHER        -> phase[a]
<1>1. ph \in Phase /\ (ph = "poll" => phase[a] = "poll")
  BY AgentFacts DEF Phase
<1>2. phase' = [phase EXCEPT ![a] = ph]
  BY DEF OnTransportError
<1>3. life' \in [Agents -> Life]
  BY DEF OnTransportError, TypeOK, Life
<1>4. cur' = [cur EXCEPT ![a] = cur[a]] /\ token' = [token EXCEPT ![a] = token[a]]
      /\ auth' = [auth EXCEPT ![a] = auth[a]]
  BY AgentFacts DEF OnTransportError
<1> HIDE DEF ph
<1>5. AgentBecomes(a, ph, cur[a], token[a], auth[a])
  BY <1>2, <1>3, <1>4 DEF AgentBecomes
<1>6. MayKnow(a, ph, cur[a], token[a], auth[a])
  BY <1>1, AgentFacts DEF MayKnow
<1> QED BY <1>5, <1>6, OneAgent

LEMMA FreeOK ==
  ASSUME TypeOK, Ledger, NEW h \in Handlers, Free(h)
  PROVE  req' \in [Handlers -> Request] /\ \A g \in Handlers : CarriedOK(req'[g])
  BY IdleType, BecomesCarried DEF Free

\* The client of a live request is an agent.
LEMMA ClientFacts ==
  ASSUME TypeOK, Ledger, NEW h \in Handlers, req[h].live
  PROVE  /\ req[h] \in Request /\ CarriedOK(req[h]) /\ req[h].agent \in Agents
         /\ req[h].token \in 0..MaxTokens /\ req[h].sid \in 0..MaxSessions
         /\ req[h].token # 0 => IssuedTo(req[h].token, req[h].agent)
<1>1. req[h] \in Request /\ CarriedOK(req[h])
  BY DEF TypeOK, Ledger, RequestLedger
<1> QED BY <1>1 DEF Request, CarriedOK

LEMMA OnInitReplyOK ==
  ASSUME TypeOK, Ledger, NEW h \in Handlers, OnInitReply(h) PROVE TypeOK' /\ Ledger'
<1>1. PICK a \in Agents : a = req[h].agent
  BY ClientFacts DEF OnInitReply, Ready
<1>2. UNCHANGED <<dbVars, history, faults>> /\ faults' \in 0..MaxFaults
  BY DEF OnInitReply, TypeOK
<1>3. AgentTypes' /\ AgentLedger'
  <2>1. CASE req[h].answer = "OK"
    <3>1. req[h].sid \in 1..inserted /\ sess[req[h].sid].agent = a
      BY <1>1, <2>1, ClientFacts DEF OnInitReply, Ready, At, CarriedOK
    <3>2. PICK c \in 0..MaxSessions : c = req[h].sid
      BY ClientFacts DEF OnInitReply, Ready
    <3>3. /\ phase' = [phase EXCEPT ![a] = "poll"] /\ cur' = [cur EXCEPT ![a] = c]
          /\ UNCHANGED <<life, token, auth>>
      BY <1>1, <2>1, <3>2 DEF OnInitReply
    <3>4. token' = [token EXCEPT ![a] = token[a]] /\ auth' = [auth EXCEPT ![a] = auth[a]]
      BY <3>3, AgentFacts
    <3>5. "poll" \in Phase /\ life' \in [Agents -> Life]
      BY <3>3 DEF Phase, TypeOK
    <3>6. AgentBecomes(a, "poll", c, token[a], auth[a])
      BY <1>2, <3>3, <3>4, <3>5 DEF AgentBecomes
    <3>7. MayKnow(a, "poll", c, token[a], auth[a])
      BY <3>1, <3>2, <3>5, AgentFacts DEF MayKnow
    <3> QED BY <3>6, <3>7, OneAgent
  <2>2. CASE req[h].answer # "OK"
    BY <1>1, <1>2, <2>2, ErrorAgent DEF OnInitReply
  <2> QED BY <2>1, <2>2
<1> QED BY <1>2, <1>3, FreeOK, AgentStep DEF OnInitReply

LEMMA OnStatusReplyOK ==
  ASSUME TypeOK, Ledger, NEW h \in Handlers, OnStatusReply(h) PROVE TypeOK' /\ Ledger'
<1>1. PICK a \in Agents, tk \in 0..MaxTokens :
         a = req[h].agent /\ tk = req[h].token /\ (tk # 0 => IssuedTo(tk, a))
  BY ClientFacts DEF OnStatusReply, Ready
<1>2. UNCHANGED <<dbVars, history, faults>> /\ faults' \in 0..MaxFaults
  BY DEF OnStatusReply, TypeOK
<1>3. /\ {"init", "save"} \subseteq Phase /\ phase[a] \in Phase
      /\ UNCHANGED life => life' \in [Agents -> Life]
  BY AgentFacts DEF Phase, TypeOK
<1>4. AgentTypes' /\ AgentLedger'
  <2>1. CASE req[h].answer = "PAIRED"
    <3>1. /\ phase' = [phase EXCEPT ![a] = "save"] /\ token' = [token EXCEPT ![a] = tk]
          /\ UNCHANGED <<life, cur, auth>>
      BY <1>1, <2>1 DEF OnStatusReply
    <3>2. cur' = [cur EXCEPT ![a] = cur[a]] /\ auth' = [auth EXCEPT ![a] = auth[a]]
      BY <3>1, AgentFacts
    <3>3. AgentBecomes(a, "save", cur[a], tk, auth[a])
      BY <1>2, <1>3, <3>1, <3>2 DEF AgentBecomes
    <3>4. MayKnow(a, "save", cur[a], tk, auth[a])
      BY <1>1, <1>3, AgentFacts DEF MayKnow
    <3> QED BY <3>3, <3>4, OneAgent
  <2>2. CASE req[h].answer \in {"EXPIRED", "CONSUMED"}
    <3>1. phase' = [phase EXCEPT ![a] = "init"] /\ UNCHANGED <<life, cur, token, auth>>
      BY <1>1, <2>2 DEF OnStatusReply
    <3>2. /\ cur' = [cur EXCEPT ![a] = cur[a]] /\ auth' = [auth EXCEPT ![a] = auth[a]]
          /\ token' = [token EXCEPT ![a] = token[a]]
      BY <3>1, AgentFacts
    <3>3. AgentBecomes(a, "init", cur[a], token[a], auth[a])
      BY <1>2, <1>3, <3>1, <3>2 DEF AgentBecomes
    <3>4. MayKnow(a, "init", cur[a], token[a], auth[a])
      BY <1>3, AgentFacts DEF MayKnow
    <3> QED BY <3>3, <3>4, OneAgent
  <2>3. CASE UNCHANGED agentVars
    BY <1>2, <2>3 DEF agentVars, AgentTypes, AgentLedger, TypeOK, Ledger, IssuedTo, dbVars, history
  <2>4. CASE OnTransportError(a)
    BY <1>2, <2>4, ErrorAgent
  <2> QED BY <1>1, <2>1, <2>2, <2>3, <2>4 DEF OnStatusReply
<1> QED BY <1>2, <1>4, FreeOK, AgentStep DEF OnStatusReply

LEMMA OnHeartbeatReplyOK ==
  ASSUME TypeOK, Ledger, NEW h \in Handlers, OnHeartbeatReply(h) PROVE TypeOK' /\ Ledger'
<1>1. PICK a \in Agents : a = req[h].agent
  BY ClientFacts DEF OnHeartbeatReply, Ready
<1>2. UNCHANGED <<dbVars, history>>
  BY DEF OnHeartbeatReply
<1>3. /\ {"init", "report"} \subseteq Phase /\ {"CONNECTED", "WAITING_FOR_PAIRING"} \subseteq Life
  BY DEF Phase, Life
<1>4. AgentTypes' /\ AgentLedger'
  <2>1. CASE req[h].answer = "OK"
    <3>1. /\ life' = [life EXCEPT ![a] = "CONNECTED"]
          /\ \E p \in {"report"} \cup ({phase[a]} \ {"probe"}) : phase' = [phase EXCEPT ![a] = p]
          /\ UNCHANGED <<cur, token, auth, faults>>
      BY <1>1, <2>1 DEF OnHeartbeatReply
    <3>2. PICK p \in {"report", phase[a]} : phase' = [phase EXCEPT ![a] = p]
      BY <3>1
    <3>3. p \in Phase /\ (p = "poll" => phase[a] = "poll")
      BY <1>3, AgentFacts
    <3>4. /\ cur' = [cur EXCEPT ![a] = cur[a]] /\ auth' = [auth EXCEPT ![a] = auth[a]]
          /\ token' = [token EXCEPT ![a] = token[a]]
      BY <3>1, AgentFacts
    <3>5. life' \in [Agents -> Life] /\ faults' \in 0..MaxFaults
      BY <1>3, <3>1, LifeType DEF TypeOK
    <3>6. AgentBecomes(a, p, cur[a], token[a], auth[a])
      BY <1>2, <3>2, <3>4, <3>5 DEF AgentBecomes
    <3>7. MayKnow(a, p, cur[a], token[a], auth[a])
      BY <3>3, AgentFacts DEF MayKnow
    <3> QED BY <3>6, <3>7, OneAgent
  <2>2. CASE Unauthorised(a)
    <3>1. PICK au \in {0, auth[a]} : auth' = [auth EXCEPT ![a] = au]
      BY <2>2, AgentFacts DEF Unauthorised
    <3>2. faults' \in 0..MaxFaults
      BY <2>2, AgentFacts DEF Unauthorised, Fault
    <3>3. /\ token' = [token EXCEPT ![a] = 0] /\ phase' = [phase EXCEPT ![a] = "init"]
          /\ cur' = [cur EXCEPT ![a] = cur[a]] /\ life' \in [Agents -> Life]
      BY <1>3, <2>2, AgentFacts, LifeType DEF Unauthorised
    <3>4. au \in 0..MaxTokens /\ 0 \in 0..MaxTokens
      BY <3>1, AgentFacts
    <3>5. AgentBecomes(a, "init", cur[a], 0, au)
      BY <1>2, <3>1, <3>2, <3>3 DEF AgentBecomes
    <3>6. MayKnow(a, "init", cur[a], 0, au)
      BY <1>3, <3>1, <3>4, AgentFacts DEF MayKnow
    <3> QED BY <3>5, <3>6, OneAgent
  <2>3. CASE OnTransportError(a) /\ UNCHANGED faults
    BY <1>2, <2>3, AgentFacts, ErrorAgent
  <2> QED BY <1>1, <2>1, <2>2, <2>3 DEF OnHeartbeatReply
<1> QED BY <1>2, <1>4, FreeOK, AgentStep DEF OnHeartbeatReply

LEMMA OnTelemetryReplyOK ==
  ASSUME TypeOK, Ledger, NEW h \in Handlers, OnTelemetryReply(h) PROVE TypeOK' /\ Ledger'
<1>1. PICK a \in Agents : a = req[h].agent
  BY ClientFacts DEF OnTelemetryReply, Ready
<1>2. /\ phase' = [phase EXCEPT ![a] = "loop"] /\ "loop" \in Phase
      /\ UNCHANGED <<dbVars, history, life, cur, token, auth, faults>>
  BY <1>1 DEF OnTelemetryReply, Phase
<1>3. /\ cur' = [cur EXCEPT ![a] = cur[a]] /\ auth' = [auth EXCEPT ![a] = auth[a]]
      /\ token' = [token EXCEPT ![a] = token[a]]
      /\ life' \in [Agents -> Life] /\ faults' \in 0..MaxFaults
  BY <1>2, AgentFacts DEF TypeOK
<1>4. AgentBecomes(a, "loop", cur[a], token[a], auth[a])
  BY <1>2, <1>3 DEF AgentBecomes
<1>5. MayKnow(a, "loop", cur[a], token[a], auth[a])
  BY <1>2, AgentFacts DEF MayKnow
<1>6. AgentTypes' /\ AgentLedger'
  BY <1>4, <1>5, OneAgent
<1> QED BY <1>2, <1>6, FreeOK, AgentStep DEF OnTelemetryReply

LEMMA TimeoutOK ==
  ASSUME TypeOK, Ledger, NEW h \in Handlers, Timeout(h) PROVE TypeOK' /\ Ledger'
<1> DEFINE r == [req[h] EXCEPT !.live = FALSE]
<1>1. req[h] \in Request /\ CarriedOK(req[h]) /\ req[h].agent \in Agents
  BY ClientFacts DEF Timeout
<1>2. r \in Request
  BY <1>1 DEF Request
<1>3. CarriedOK(r)
  BY <1>1 DEF CarriedOK, Request
<1>4. UNCHANGED <<dbVars, history>> /\ faults' \in 0..MaxFaults
  BY DEF Timeout, Fault, TypeOK
<1>5. AgentTypes' /\ AgentLedger'
  BY <1>1, <1>4, ErrorAgent DEF Timeout
<1> QED BY <1>2, <1>3, <1>4, <1>5, BecomesCarried, AgentStep DEF Timeout

LEMMA SaveAuthOK ==
  ASSUME TypeOK, Ledger, NEW a \in Agents, SaveAuth(a) PROVE TypeOK' /\ Ledger'
<1>1. PICK p \in {"report", "loop"} : phase' = [phase EXCEPT ![a] = p]
  BY DEF SaveAuth
<1>2. UNCHANGED <<dbVars, history, req, cur, token, faults>>
  BY DEF SaveAuth
<1>3. /\ auth' = [auth EXCEPT ![a] = token[a]] /\ p \in Phase
      /\ cur' = [cur EXCEPT ![a] = cur[a]] /\ token' = [token EXCEPT ![a] = token[a]]
  BY <1>2, AgentFacts DEF SaveAuth, Phase
<1>4. life' \in [Agents -> Life] /\ faults' \in 0..MaxFaults
  BY <1>2, AgentFacts DEF SaveAuth, TypeOK, Life
<1>5. AgentBecomes(a, p, cur[a], token[a], token[a])
  BY <1>1, <1>2, <1>3, <1>4 DEF AgentBecomes
<1>6. MayKnow(a, p, cur[a], token[a], token[a])
  BY <1>3, AgentFacts DEF MayKnow
<1>7. AgentTypes' /\ AgentLedger'
  BY <1>5, <1>6, OneAgent
<1>8. req' \in [Handlers -> Request] /\ \A g \in Handlers : CarriedOK(req'[g])
  BY <1>2 DEF TypeOK, Ledger, RequestLedger
<1> QED BY <1>2, <1>7, <1>8, AgentStep

LEMMA StartOK ==
  ASSUME TypeOK, Ledger, NEW a \in Agents, NEW force \in BOOLEAN, Start(a, force)
  PROVE  TypeOK' /\ Ledger'
<1>1. PICK au \in {0, auth[a]} : auth' = [auth EXCEPT ![a] = au]
  BY AgentFacts DEF Start
<1>2. UNCHANGED <<dbVars, history, req, cur>> /\ faults' \in 0..MaxFaults
  BY AgentFacts DEF Start, Fault
<1>3. au \in 0..MaxTokens /\ (au # 0 => IssuedTo(au, a)) /\ auth'[a] = au
  <2>1. auth \in [Agents -> 0..MaxTokens]
    BY DEF TypeOK
  <2>2. auth[a] # 0 => IssuedTo(auth[a], a)
    BY DEF Ledger, AgentLedger
  <2>3. au \in 0..MaxTokens /\ auth'[a] = au
    BY <1>1, <2>1, BoundAssumption
  <2> QED BY <2>2, <2>3
<1>4. PICK ph \in {"probe", "init"} : phase' = [phase EXCEPT ![a] = ph]
  BY DEF Start
<1>5. /\ token' = [token EXCEPT ![a] = au] /\ ph \in Phase
      /\ cur' = [cur EXCEPT ![a] = cur[a]]
  BY <1>2, <1>3, AgentFacts DEF Start, Phase
<1>6. life' \in [Agents -> Life]
  BY DEF Start, TypeOK, Life
<1>7. AgentBecomes(a, ph, cur[a], au, au)
  BY <1>1, <1>2, <1>4, <1>5, <1>6 DEF AgentBecomes
<1>8. MayKnow(a, ph, cur[a], au, au)
  BY <1>3, <1>4, <1>5, AgentFacts DEF MayKnow
<1>9. AgentTypes' /\ AgentLedger'
  BY <1>7, <1>8, OneAgent
<1>10. req' \in [Handlers -> Request] /\ \A g \in Handlers : CarriedOK(req'[g])
  BY <1>2 DEF TypeOK, Ledger, RequestLedger
<1> QED BY <1>2, <1>9, <1>10, AgentStep

LEMMA CrashOK ==
  ASSUME TypeOK, Ledger, NEW a \in Agents, Crash(a) PROVE TypeOK' /\ Ledger'
<1>1. PICK au \in {0, auth[a]} : auth' = [auth EXCEPT ![a] = au]
  BY DEF Crash
<1>2. UNCHANGED <<dbVars, history>> /\ faults' \in 0..MaxFaults
  BY DEF Crash, Fault, TypeOK
<1>3. /\ phase' = [phase EXCEPT ![a] = "off"] /\ "off" \in Phase
      /\ token' = [token EXCEPT ![a] = 0] /\ cur' = [cur EXCEPT ![a] = 0]
      /\ au \in 0..MaxTokens /\ 0 \in 0..MaxTokens /\ 0 \in 0..MaxSessions
  BY <1>1, AgentFacts DEF Crash, Phase
<1>4. life' \in [Agents -> Life]
  BY DEF Crash, TypeOK, Life
<1>5. AgentTypes' /\ AgentLedger'
  <2>1. AgentBecomes(a, "off", 0, 0, au)
    BY <1>1, <1>2, <1>3, <1>4 DEF AgentBecomes
  <2>2. MayKnow(a, "off", 0, 0, au)
    BY <1>1, <1>3, AgentFacts DEF MayKnow
  <2> QED BY <2>1, <2>2, OneAgent
<1>6. ASSUME NEW g \in Handlers PROVE req'[g] \in Request /\ CarriedOK(req'[g])
  <2>1. req[g] \in Request /\ CarriedOK(req[g])
    BY DEF TypeOK, Ledger, RequestLedger
  <2>2. PICK r : r = [req[g] EXCEPT !.live = FALSE]
    OBVIOUS
  <2>3. r \in Request
    BY <2>1, <2>2 DEF Request
  <2>4. CarriedOK(r)
    BY <2>1, <2>2 DEF CarriedOK, Request
  <2>5. req'[g] = r \/ req'[g] = req[g]
    BY <2>2 DEF Crash
  <2> QED BY <2>1, <2>3, <2>4, <2>5
<1>7. req' \in [Handlers -> Request]
  BY <1>6 DEF Crash
<1> QED BY <1>2, <1>5, <1>6, <1>7, AgentStep

LEMMA ServerCrashOK == ASSUME TypeOK, Ledger, ServerCrash PROVE TypeOK' /\ Ledger'
<1>1. UNCHANGED <<dbVars, history, agentVars>> /\ faults' \in 0..MaxFaults
  <2>1. faults \in 0..MaxFaults
    BY DEF TypeOK
  <2>2. Fault /\ UNCHANGED <<dbVars, history, agentVars>>
    BY DEF ServerCrash
  <2> QED BY <2>1, <2>2 DEF Fault
<1>2. AgentTypes' /\ AgentLedger'
  BY <1>1 DEF agentVars, AgentTypes, AgentLedger, TypeOK, Ledger, IssuedTo, dbVars, history
<1>3. ASSUME NEW g \in Handlers PROVE req'[g] \in Request /\ CarriedOK(req'[g])
  <2>1. PICK r : r = [req[g] EXCEPT !.step = "reply", !.answer = "error"]
    OBVIOUS
  <2>2. r \in Request /\ CarriedOK(r)
    BY <2>1, AnswerType, AnswerCarried DEF Answers
  <2>3. req'[g] = r \/ req'[g] = Idle
    BY <2>1 DEF ServerCrash
  <2> QED BY <2>2, <2>3, IdleType
<1>4. req' \in [Handlers -> Request]
  BY <1>3 DEF ServerCrash
<1> QED BY <1>1, <1>2, <1>3, <1>4, AgentStep

-----------------------------------------------------------------------------
(* The theorems *)

\* TypeOK and Ledger are preserved by every step, whatever the constants.
LEMMA StepOK == TypeOK /\ Ledger /\ [Next]_vars => TypeOK' /\ Ledger'
<1> SUFFICES ASSUME TypeOK, Ledger, [Next]_vars PROVE TypeOK' /\ Ledger'
  OBVIOUS
<1>1. ASSUME NEW h \in Handlers, ServerStep(h) PROVE TypeOK' /\ Ledger'
  BY <1>1, FindPriorsOK, ExpirePriorsOK, InsertSessionOK, RefuseOK, RefuseLateCodeOK,
     AcceptCodeOK, FindAgentRowOK, RegisterConflictOK, RegisterAgentOK, ReadStatusOK, ReadLateOK, ExpireLateOK,
     ReadPairedOK, ConsumeSessionOK, AuthoriseReportOK, RecordBeatOK, UpsertDeviceOK
  DEF ServerStep
<1>2. ASSUME NEW h \in Handlers, ReplyStep(h) PROVE TypeOK' /\ Ledger'
  BY <1>2, OnInitReplyOK, OnStatusReplyOK, OnHeartbeatReplyOK, OnTelemetryReplyOK, DropReplyOK
  DEF ReplyStep
<1>3. CASE UNCHANGED vars
  BY <1>3 DEF vars, TypeOK, Ledger, SessionLedger, RowLedger, RequestLedger, AgentLedger,
              CarriedOK, IssuedTo, dbVars, history, agentVars
<1>4. CASE Next
  BY <1>1, <1>2, <1>4, TimeoutOK, CallOK, SubmitOK, SaveAuthOK, CrashOK, StartOK, ElapseOK,
     GoStaleOK, ServerCrashOK
  DEF Next
<1> QED BY <1>3, <1>4

\* Every variable keeps its type.
THEOREM TypeCorrect == Spec => []TypeOK
  BY InitOK, StepOK, PTL DEF Spec

\* Every copy of a token stays with the agent it was issued for.
THEOREM LedgerCorrect == Spec => []Ledger
  BY InitOK, StepOK, PTL DEF Spec

\* No credential an agent holds authenticates it as another agent
\* (get_current_endpoint_agent), however requests, crashes and retries interleave.
THEOREM Isolation == Spec => []CredentialIsolation
<1>1. TypeOK /\ Ledger => CredentialIsolation
  <2> SUFFICES ASSUME TypeOK, Ledger, NEW a \in Agents, NEW b \in Agents, NEW o \in Orgs,
                      agentRow[o][b] # 0, agentRow[o][b] \in {token[a], auth[a]}
               PROVE  a = b
    BY DEF CredentialIsolation
  <2>1. IssuedTo(agentRow[o][b], b)
    BY DEF Ledger, RowLedger
  <2>2. IssuedTo(agentRow[o][b], a)
    BY DEF Ledger, AgentLedger
  <2> QED BY <2>1, <2>2 DEF IssuedTo
<1> QED BY <1>1, TypeCorrect, LedgerCorrect, PTL

\* A credential an agent holds is accepted unless a later pairing replaced it.
LEMMA Honoured == Spec => []CredentialHonoured
<1>1. TypeOK /\ Ledger => CredentialHonoured
  <2> SUFFICES ASSUME TypeOK, Ledger, NEW a \in Agents, NEW t \in {token[a], auth[a]} \ {0}
               PROVE  t <= minted /\ agentRow[grant[t].org][a] >= t
    BY DEF CredentialHonoured
  <2>1. t \in Tokens
    BY DEF TypeOK
  <2>2. IssuedTo(t, a)
    BY DEF Ledger, AgentLedger
  <2> QED BY <2>1, <2>2 DEF Ledger, RowLedger, IssuedTo
<1> QED BY <1>1, TypeCorrect, LedgerCorrect, PTL

\* A session offers only a token its organisation's row has accepted.
THEOREM OfferRegistered == Spec => []OfferIsRegistered
<1>1. TypeOK /\ Ledger => OfferIsRegistered
  <2> SUFFICES ASSUME TypeOK, Ledger, NEW s \in Sessions, sess[s].status = "PAIRED"
               PROVE  sess[s].token # 0 /\ agentRow[sess[s].org][sess[s].agent] >= sess[s].token
    BY DEF OfferIsRegistered
  <2>1. sess[s].token \in 0..MaxTokens
    BY DEF TypeOK, Session
  <2>2. /\ sess[s].token # 0 /\ IssuedTo(sess[s].token, sess[s].agent)
        /\ grant[sess[s].token].org = sess[s].org
    BY DEF Ledger, SessionLedger
  <2> QED BY <2>1, <2>2 DEF Ledger, RowLedger, IssuedTo
<1> QED BY <1>1, TypeCorrect, LedgerCorrect, PTL

-----------------------------------------------------------------------------
(* What an agent waits for, and that it reports with what it has on disk *)

\* A request keeps its client, and a secret in an answer is a token.
RequestsKept ==
    \A g \in Handlers :
        /\ req'[g].live => /\ req[g].live /\ req'[g].op = req[g].op
                           /\ req'[g].agent = req[g].agent
        /\ At(g, "status", "reply")' /\ req'[g].answer = "PAIRED" => req'[g].token # 0

LEMMA OneRequest ==
  ASSUME TypeOK, AgentWaits, NEW h \in Handlers, NEW r \in Request, Becomes(h, r),
         r.live => req[h].live /\ r.op = req[h].op /\ r.agent = req[h].agent,
         r.op = "status" /\ r.step = "reply" /\ r.answer = "PAIRED" => r.token # 0
  PROVE  RequestsKept
<1>1. ASSUME NEW g \in Handlers
      PROVE  /\ req'[g].live => /\ req[g].live /\ req'[g].op = req[g].op
                                /\ req'[g].agent = req[g].agent
             /\ req'[g].op = "status" /\ req'[g].step = "reply" /\ req'[g].answer = "PAIRED"
                  => req'[g].token # 0
  <2>1. CASE g = h
    BY <2>1, BecomesType
  <2>2. CASE g # h
    BY <2>2, BecomesType DEF AgentWaits, At
  <2> QED BY <2>1, <2>2
<1> QED BY <1>1 DEF RequestsKept, At

LEMMA ServerKeeps ==
  ASSUME TypeOK, Ledger, AgentWaits, NEW h \in Handlers, ServerStep(h)
  PROVE  RequestsKept /\ UNCHANGED agentVars
<1>1. req[h] \in Request /\ CarriedOK(req[h])
  BY DEF TypeOK, Ledger, RequestLedger
<1> DEFINE Kept(r) ==
             /\ Becomes(h, r) /\ r \in Request
             /\ r.live = req[h].live /\ r.op = req[h].op /\ r.agent = req[h].agent
             /\ r.op = "status" /\ r.step = "reply" /\ r.answer = "PAIRED" => r.token # 0
<1>2. ASSUME \E r : Kept(r) PROVE RequestsKept
  BY <1>2, OneRequest
<1>3. ASSUME NEW st \in Steps \ {"reply"}, GoTo(h, st) PROVE RequestsKept
  <2>1. Kept([req[h] EXCEPT !.step = st])
    BY <1>1, <1>3, GoToType DEF GoTo, Request
  <2> QED BY <1>2, <2>1
<1>4. ASSUME NEW an \in Answers, Answer(h, an), req[h].op = "status" /\ an = "PAIRED" => req[h].token # 0
      PROVE  RequestsKept
  <2>1. Kept([req[h] EXCEPT !.step = "reply", !.answer = an])
    BY <1>1, <1>4, AnswerType DEF Answer, Request
  <2> QED BY <1>2, <2>1
<1> HIDE DEF Kept
<1>5. CASE FindPriors(h)
  <2> DEFINE priors == {s \in Sessions : /\ sess[s].code = DemoCode
                                         /\ sess[s].status = "WAITING_FOR_PAIR"}
  <2>1. priors \in SUBSET Sessions /\ Becomes(h, [req[h] EXCEPT !.step = "expire", !.priors = priors])
    BY <1>5 DEF FindPriors
  <2> HIDE DEF priors
  <2>2. Kept([req[h] EXCEPT !.step = "expire", !.priors = priors])
    BY <1>1, <2>1 DEF Kept, Request, Steps
  <2> QED BY <1>2, <1>5, <2>2 DEF FindPriors
<1>6. CASE ExpirePriors(h)
  BY <1>3, <1>6 DEF ExpirePriors, agentVars, Steps
<1>7. CASE InsertSession(h)
  <2>1. inserted + 1 \in 0..MaxSessions
    BY <1>7 DEF InsertSession, TypeOK
  <2>2. Kept([req[h] EXCEPT !.step = "reply", !.answer = "OK", !.sid = inserted + 1])
    <3>1. /\ Becomes(h, [req[h] EXCEPT !.step = "reply", !.answer = "OK", !.sid = inserted + 1])
          /\ req[h].op = "init"
      BY <1>7 DEF InsertSession, At
    <3> QED BY <1>1, <2>1, <3>1 DEF Kept, Request, Steps, Answers
  <2> QED BY <1>2, <1>7, <2>2 DEF InsertSession
<1>8. CASE RefuseUnknownCode(h) \/ RefuseUsedCode(h) \/ RefuseLateCode(h)
  <2>1. CASE Answer(h, "refused")
    BY <1>4, <1>8, <2>1 DEF RefuseUnknownCode, RefuseUsedCode, RefuseLateCode, Answers
  <2>2. CASE RefuseLateCode(h) /\ ~Answer(h, "refused")
    <3>1. PICK s \in Sessions : Becomes(h, [req[h] EXCEPT !.step = "expire", !.sid = s])
      BY <2>2 DEF RefuseLateCode, WithCode
    <3>2. s \in 0..MaxSessions /\ req[h].op = "pair"
      BY <2>2 DEF RefuseLateCode, At
    <3>3. Kept([req[h] EXCEPT !.step = "expire", !.sid = s])
      BY <1>1, <3>1, <3>2 DEF Kept, Request, Steps
    <3> QED BY <1>2, <2>2, <3>3 DEF RefuseLateCode
  <2> QED BY <1>8, <2>1, <2>2 DEF RefuseUnknownCode, RefuseUsedCode
<1>9. CASE AcceptCode(h)
  <2>1. PICK s \in Sessions : Becomes(h, [req[h] EXCEPT !.step = "lookup", !.sid = s])
    BY <1>9 DEF AcceptCode, WithCode
  <2>2. s \in 0..MaxSessions /\ req[h].op = "pair"
    BY <1>9 DEF AcceptCode, At
  <2>3. Kept([req[h] EXCEPT !.step = "lookup", !.sid = s])
    BY <1>1, <2>1, <2>2 DEF Kept, Request, Steps
  <2> QED BY <1>2, <1>9, <2>3 DEF AcceptCode
<1>10. CASE FindAgentRow(h)
  <2> DEFINE known == agentRow[req[h].org][sess[req[h].sid].agent] # 0
  <2>1. known \in BOOLEAN /\ Becomes(h, [req[h] EXCEPT !.step = "commit", !.known = known])
    BY <1>10 DEF FindAgentRow
  <2> HIDE DEF known
  <2>2. Kept([req[h] EXCEPT !.step = "commit", !.known = known])
    BY <1>1, <2>1 DEF Kept, Request, Steps
  <2> QED BY <1>2, <1>10, <2>2 DEF FindAgentRow
<1>11. CASE RegisterConflict(h)
  BY <1>4, <1>11 DEF RegisterConflict, Answers
<1>12. CASE RegisterAgent(h)
  BY <1>3, <1>12 DEF RegisterAgent, Steps
<1>13. CASE ReadStatus(h)
  <2>1. req[h].op = "status" /\ req[h].sid \in Sessions
    BY <1>1, <1>13 DEF TypeOK, CarriedOK, ReadStatus, At
  <2>2. sess[req[h].sid].status \in Status \ {"PAIRED"}
    BY <1>13, <2>1 DEF TypeOK, Session, ReadStatus
  <2>3. PICK an \in Answers \ {"PAIRED"} : Answer(h, an)
    BY <1>13, <2>2 DEF ReadStatus, Answers, Status
  <2> QED BY <1>4, <1>13, <2>3 DEF ReadStatus
<1>19. CASE ReadLate(h)
  BY <1>3, <1>19 DEF ReadLate, Steps
<1>20. CASE ExpireLate(h)
  BY <1>4, <1>20 DEF ExpireLate, Answers
<1>14. CASE ReadPaired(h)
  <2>1. req[h].sid \in Sessions
    BY <1>1, <1>14 DEF TypeOK, CarriedOK, ReadPaired, At
  <2>2. sess[req[h].sid].token \in 0..MaxTokens
    BY <2>1 DEF TypeOK, Session
  <2>3. Kept([req[h] EXCEPT !.step = "commit", !.token = sess[req[h].sid].token])
    BY <1>1, <1>14, <2>2 DEF Kept, Request, Steps, ReadPaired
  <2> QED BY <1>2, <1>14, <2>3 DEF ReadPaired
<1>15. CASE ConsumeSession(h)
  <2>1. req[h].token # 0
    BY <1>1, <1>15 DEF CarriedOK, ConsumeSession, At
  <2> QED BY <1>4, <1>15, <2>1 DEF ConsumeSession, Answers
<1>16. CASE AuthoriseReport(h)
  <2>1. CASE \E an \in {"unauthorized", "error"} : Answer(h, an)
    BY <1>4, <1>16, <2>1 DEF AuthoriseReport, Answers
  <2>2. CASE \E o \in Orgs : Becomes(h, [req[h] EXCEPT !.step = "beat", !.org = o])
    <3>1. PICK o \in Orgs : Becomes(h, [req[h] EXCEPT !.step = "beat", !.org = o])
      BY <2>2
    <3>2. Kept([req[h] EXCEPT !.step = "beat", !.org = o])
      BY <1>1, <3>1 DEF Kept, Request, Steps
    <3> QED BY <1>2, <1>16, <3>2 DEF AuthoriseReport
  <2> QED BY <1>16, <2>1, <2>2 DEF AuthoriseReport, RowsAccepting
<1>17. CASE RecordBeat(h)
  BY <1>3, <1>17 DEF RecordBeat, Steps
<1>18. CASE UpsertDevice(h)
  BY <1>4, <1>18 DEF UpsertDevice, Answers
<1> QED BY <1>5, <1>6, <1>7, <1>8, <1>9, <1>10, <1>11, <1>12, <1>13, <1>14, <1>15, <1>16,
           <1>17, <1>18, <1>19, <1>20 DEF ServerStep

\* A step of one agent, whose client no longer waits after it.
LEMMA AgentMoves ==
  ASSUME TypeOK, AgentWaits, CredentialDurable, NEW a \in Agents,
         phase' \in [Agents -> Phase],
         \A b \in Agents \ {a} : phase'[b] = phase[b] /\ token'[b] = token[b] /\ auth'[b] = auth[b],
         RequestsKept, \A g \in Handlers : req'[g].live => req[g].agent \in Agents \ {a},
         phase'[a] = "save" => token'[a] # 0,
         phase'[a] \in {"probe", "report", "loop"} => token'[a] # 0 /\ auth'[a] = token'[a]
  PROVE  AgentWaits' /\ CredentialDurable'
<1>1. ASSUME NEW g \in Handlers, req'[g].live
      PROVE  /\ phase'[req'[g].agent] \in DOMAIN OpOf
             /\ req'[g].op = OpOf[phase'[req'[g].agent]]
  BY <1>1 DEF RequestsKept, AgentWaits
<1>2. ASSUME NEW g \in Handlers, NEW k \in Handlers, req'[g].live, req'[k].live,
             req'[g].agent = req'[k].agent
      PROVE  g = k
  BY <1>2 DEF RequestsKept, AgentWaits
<1>3. ASSUME NEW b \in Agents, phase'[b] = "save" PROVE token'[b] # 0
  BY <1>3 DEF AgentWaits
<1>4. ASSUME NEW b \in Agents, phase'[b] \in {"probe", "report", "loop"}
      PROVE  token'[b] # 0 /\ auth'[b] = token'[b]
  BY <1>4 DEF CredentialDurable
<1>5. CredentialDurable'
  BY <1>4 DEF CredentialDurable
<1>6. AgentWaits'
  BY <1>1, <1>2, <1>3 DEF AgentWaits, RequestsKept
<1> QED BY <1>5, <1>6

\* A step of the server alone.
LEMMA ServerMoves ==
  ASSUME TypeOK, AgentWaits, CredentialDurable, RequestsKept, UNCHANGED agentVars
  PROVE  AgentWaits' /\ CredentialDurable'
<1>1. CredentialDurable'
  BY DEF CredentialDurable, agentVars
<1>2. AgentWaits'
  BY DEF AgentWaits, RequestsKept, agentVars
<1> QED BY <1>1, <1>2

\* An agent that takes its answer is in the phase that asked for it; then no
\* request of its waits.
LEMMA TakesAnswer ==
  ASSUME TypeOK, Ledger, AgentWaits, NEW h \in Handlers, NEW r \in Request, Becomes(h, r),
         req[h].live, ~r.live,
         r.op = "status" /\ r.step = "reply" /\ r.answer = "PAIRED" => r.token # 0
  PROVE  /\ req[h].agent \in Agents /\ req[h].op = OpOf[phase[req[h].agent]]
         /\ phase[req[h].agent] \in DOMAIN OpOf
         /\ RequestsKept
         /\ \A g \in Handlers : req'[g].live => req[g].agent \in Agents \ {req[h].agent}
<1>1. RequestsKept
  BY OneRequest
<1>2. ASSUME NEW g \in Handlers, req'[g].live PROVE req[g].agent \in Agents \ {req[h].agent}
  <2>1. g # h /\ req[g].live
    BY <1>1, <1>2, BecomesType DEF RequestsKept
  <2> QED BY <2>1, ClientFacts DEF AgentWaits
<1> QED BY <1>1, <1>2, ClientFacts DEF AgentWaits

LEMMA IdleAnswer == Idle \in Request /\ ~Idle.live /\ Idle.op = "idle"
  BY IdleType DEF Idle

\* A failed call leaves the credential as it is.
LEMMA ErrorDurable ==
  ASSUME TypeOK, AgentWaits, CredentialDurable, NEW a \in Agents, OnTransportError(a)
  PROVE  /\ phase' \in [Agents -> Phase]
         /\ \A b \in Agents \ {a} : phase'[b] = phase[b] /\ token'[b] = token[b] /\ auth'[b] = auth[b]
         /\ phase'[a] = "save" => token'[a] # 0
         /\ phase'[a] \in {"probe", "report", "loop"} => token'[a] # 0 /\ auth'[a] = token'[a]
<1>1. /\ phase \in [Agents -> Phase] /\ UNCHANGED <<token, auth>>
      /\ phase' = [phase EXCEPT ![a] = CASE phase[a] = "probe"  -> "report"
                                         [] phase[a] = "report" -> "loop"
                                         [] OTHER               -> phase[a]]
  BY DEF TypeOK, OnTransportError
<1>2. phase'[a] = IF phase[a] = "probe" THEN "report" ELSE IF phase[a] = "report" THEN "loop" ELSE phase[a]
  BY <1>1
<1> QED BY <1>1, <1>2 DEF Phase, AgentWaits, CredentialDurable

LEMMA ReplyDurable ==
  ASSUME TypeOK, Ledger, AgentWaits, CredentialDurable, NEW h \in Handlers, ReplyStep(h)
  PROVE  AgentWaits' /\ CredentialDurable'
<1>1. Becomes(h, Idle) /\ req[h] \in Request
  BY DEF ReplyStep, OnInitReply, OnStatusReply, OnHeartbeatReply, OnTelemetryReply, DropReply, Free, TypeOK
<1>2. CASE DropReply(h)
  <2>1. RequestsKept
    BY <1>1, IdleAnswer, OneRequest
  <2> QED BY <1>2, <2>1, ServerMoves DEF DropReply
<1>3. CASE ~DropReply(h)
  <2>1. req[h].live
    BY <1>3 DEF ReplyStep, OnInitReply, OnStatusReply, OnHeartbeatReply, OnTelemetryReply, Ready
  <2>2. PICK a \in Agents : a = req[h].agent
    BY <2>1, ClientFacts
  <2>3. /\ req[h].op = OpOf[phase[a]] /\ phase[a] \in DOMAIN OpOf /\ RequestsKept
        /\ \A g \in Handlers : req'[g].live => req[g].agent \in Agents \ {a}
    BY <1>1, <2>1, <2>2, IdleAnswer, TakesAnswer
  <2>4. phase \in [Agents -> Phase] /\ token \in [Agents -> 0..MaxTokens] /\ auth \in [Agents -> 0..MaxTokens]
    BY DEF TypeOK
  <2> DEFINE Moves ==
        /\ phase' \in [Agents -> Phase]
        /\ \A b \in Agents \ {a} : phase'[b] = phase[b] /\ token'[b] = token[b] /\ auth'[b] = auth[b]
        /\ phase'[a] = "save" => token'[a] # 0
        /\ phase'[a] \in {"probe", "report", "loop"} => token'[a] # 0 /\ auth'[a] = token'[a]
  <2>5. Moves => AgentWaits' /\ CredentialDurable'
    BY <2>3, AgentMoves
  <2>6. CASE OnTransportError(a)
    BY <2>5, <2>6, ErrorDurable
  <2>7. CASE ~OnTransportError(a)
    <3>1. CASE OnInitReply(h)
      <4>1. phase' = [phase EXCEPT ![a] = "poll"] /\ UNCHANGED <<token, auth>>
        BY <2>2, <2>7, <3>1 DEF OnInitReply
      <4> QED BY <2>4, <2>5, <4>1 DEF Phase
    <3>2. CASE OnStatusReply(h)
      <4>1. CASE req[h].answer = "PAIRED"
        <5>1. req[h].token # 0 /\ req[h].token \in 0..MaxTokens
          BY <1>1, <3>2, <4>1 DEF AgentWaits, OnStatusReply, Ready, Request
        <5>2. /\ phase' = [phase EXCEPT ![a] = "save"] /\ token' = [token EXCEPT ![a] = req[h].token]
              /\ UNCHANGED auth
          BY <2>2, <3>2, <4>1 DEF OnStatusReply
        <5> QED BY <2>4, <2>5, <5>1, <5>2 DEF Phase
      <4>2. CASE req[h].answer \in {"EXPIRED", "CONSUMED"}
        <5>1. phase' = [phase EXCEPT ![a] = "init"] /\ UNCHANGED <<token, auth>>
          BY <2>2, <3>2, <4>2 DEF OnStatusReply
        <5> QED BY <2>4, <2>5, <5>1 DEF Phase
      <4>3. CASE UNCHANGED agentVars
        BY <2>3, <4>3, ServerMoves
      <4> QED BY <2>2, <2>7, <3>2, <4>1, <4>2, <4>3 DEF OnStatusReply
    <3>3. CASE OnHeartbeatReply(h)
      <4>1. phase[a] \in {"probe", "loop"}
        BY <2>3, <3>3 DEF OnHeartbeatReply, Ready, At, OpOf
      <4>2. token[a] # 0 /\ auth[a] = token[a]
        BY <4>1 DEF CredentialDurable
      <4>3. CASE req[h].answer = "OK"
        <5>1. /\ \E p \in {"report"} \cup ({phase[a]} \ {"probe"}) : phase' = [phase EXCEPT ![a] = p]
              /\ UNCHANGED <<token, auth>>
          BY <2>2, <3>3, <4>3 DEF OnHeartbeatReply
        <5>2. PICK p \in {"report", phase[a]} : phase' = [phase EXCEPT ![a] = p]
          BY <5>1
        <5> QED BY <2>4, <2>5, <4>1, <4>2, <5>1, <5>2 DEF Phase
      <4>4. CASE Unauthorised(a)
        <5>1. /\ phase' = [phase EXCEPT ![a] = "init"] /\ token' = [token EXCEPT ![a] = 0]
              /\ auth' = [auth EXCEPT ![a] = 0] \/ UNCHANGED auth
          BY <4>4 DEF Unauthorised
        <5> QED BY <2>4, <2>5, <5>1 DEF Phase
      <4> QED BY <2>2, <2>7, <3>3, <4>3, <4>4 DEF OnHeartbeatReply
    <3>4. CASE OnTelemetryReply(h)
      <4>1. phase[a] = "report"
        BY <2>3, <3>4 DEF OnTelemetryReply, Ready, At, OpOf
      <4>2. phase' = [phase EXCEPT ![a] = "loop"] /\ UNCHANGED <<token, auth>>
        BY <2>2, <3>4 DEF OnTelemetryReply
      <4> QED BY <2>4, <2>5, <4>1, <4>2 DEF Phase, CredentialDurable
    <3> QED BY <1>3, <3>1, <3>2, <3>3, <3>4 DEF ReplyStep
  <2> QED BY <2>6, <2>7
<1> QED BY <1>2, <1>3

LEMMA TimeoutDurable ==
  ASSUME TypeOK, Ledger, AgentWaits, CredentialDurable, NEW h \in Handlers, Timeout(h)
  PROVE  AgentWaits' /\ CredentialDurable'
<1> DEFINE r == [req[h] EXCEPT !.live = FALSE]
<1>1. req[h] \in Request /\ req[h].live /\ Becomes(h, r)
  BY DEF Timeout, TypeOK
<1>2. /\ r \in Request /\ ~r.live /\ r.op = req[h].op /\ r.step = req[h].step
      /\ r.answer = req[h].answer /\ r.token = req[h].token
  BY <1>1 DEF Request
<1> HIDE DEF r
<1>3. r.op = "status" /\ r.step = "reply" /\ r.answer = "PAIRED" => r.token # 0
  BY <1>2 DEF AgentWaits, At
<1>4. PICK a \in Agents : a = req[h].agent
  BY <1>1, ClientFacts
<1>5. RequestsKept /\ \A g \in Handlers : req'[g].live => req[g].agent \in Agents \ {a}
  BY <1>1, <1>2, <1>3, <1>4, TakesAnswer
<1>6. OnTransportError(a)
  BY <1>4 DEF Timeout
<1> QED BY <1>5, <1>6, ErrorDurable, AgentMoves

LEMMA CallDurable ==
  ASSUME TypeOK, Ledger, AgentWaits, CredentialDurable, NEW h \in Handlers, NEW a \in Agents, Call(h, a)
  PROVE  AgentWaits' /\ CredentialDurable'
<1> DEFINE r == [Idle EXCEPT !.op = OpOf[phase[a]], !.step = StepOf(a),
                             !.agent = a, !.live = TRUE,
                             !.sid = IF phase[a] = "poll" THEN cur[a] ELSE 0,
                             !.token = IF phase[a] \in {"init", "poll"} THEN 0 ELSE token[a]]
<1>1. /\ Becomes(h, r) /\ UNCHANGED agentVars /\ phase[a] \in DOMAIN OpOf
      /\ \A g \in Handlers : ~(req[g].live /\ req[g].agent = a)
  BY DEF Call, Waiting
<1>2. r.op = OpOf[phase[a]] /\ r.agent = a /\ r.live /\ r.answer = "none"
  BY DEF Idle
<1>3. req'[h] = r /\ \A g \in Handlers : g # h => req'[g] = req[g]
  BY <1>1 DEF TypeOK, Becomes
<1> HIDE DEF r
<1>4. CredentialDurable'
  BY <1>1 DEF CredentialDurable, agentVars
<1>5. ASSUME NEW g \in Handlers
      PROVE  /\ req'[g].live => /\ phase[req'[g].agent] \in DOMAIN OpOf
                                /\ req'[g].op = OpOf[phase[req'[g].agent]]
             /\ req'[g].op = "status" /\ req'[g].step = "reply" /\ req'[g].answer = "PAIRED"
                  => req'[g].token # 0
             /\ \A k \in Handlers :
                  req'[g].live /\ req'[k].live /\ req'[g].agent = req'[k].agent => g = k
  BY <1>1, <1>2, <1>3 DEF AgentWaits, At
<1>6. AgentWaits'
  BY <1>1, <1>5 DEF AgentWaits, agentVars, At
<1> QED BY <1>4, <1>6

LEMMA SubmitDurable ==
  ASSUME TypeOK, AgentWaits, CredentialDurable, NEW h \in Handlers, NEW o \in Orgs, NEW c \in Codes,
         Submit(h, o, c)
  PROVE  AgentWaits' /\ CredentialDurable'
<1> DEFINE r == [Idle EXCEPT !.op = "pair", !.step = "read", !.org = o, !.code = c]
<1>1. r \in Request /\ ~r.live /\ r.op = "pair"
  BY IdleType DEF Request, Steps, Idle
<1>2. Becomes(h, r) /\ UNCHANGED agentVars
  BY DEF Submit
<1> HIDE DEF r
<1> QED BY <1>1, <1>2, OneRequest, ServerMoves

\* An agent with no request on its way takes a step.
LEMMA AloneMoves ==
  ASSUME TypeOK, Ledger, AgentWaits, CredentialDurable, NEW a \in Agents,
         phase[a] \notin DOMAIN OpOf, UNCHANGED req
  PROVE  RequestsKept /\ \A g \in Handlers : req'[g].live => req[g].agent \in Agents \ {a}
<1>1. RequestsKept
  BY DEF RequestsKept, AgentWaits, At
<1> QED BY <1>1, ClientFacts DEF AgentWaits

LEMMA SaveDurable ==
  ASSUME TypeOK, Ledger, AgentWaits, CredentialDurable, NEW a \in Agents, SaveAuth(a)
  PROVE  AgentWaits' /\ CredentialDurable'
<1>1. /\ phase[a] = "save" /\ auth' = [auth EXCEPT ![a] = token[a]] /\ UNCHANGED <<req, token>>
      /\ \E p \in {"report", "loop"} : phase' = [phase EXCEPT ![a] = p]
  BY DEF SaveAuth
<1>2. token[a] # 0 /\ phase[a] \notin DOMAIN OpOf
  BY <1>1 DEF AgentWaits, OpOf
<1>3. phase \in [Agents -> Phase] /\ token \in [Agents -> 0..MaxTokens] /\ auth \in [Agents -> 0..MaxTokens]
  BY DEF TypeOK
<1>4. /\ phase' \in [Agents -> Phase] /\ phase'[a] \in {"report", "loop"}
      /\ auth'[a] = token'[a] /\ token'[a] # 0
      /\ \A b \in Agents \ {a} : phase'[b] = phase[b] /\ token'[b] = token[b] /\ auth'[b] = auth[b]
  BY <1>1, <1>2, <1>3 DEF Phase
<1> QED BY <1>1, <1>2, <1>4, AloneMoves, AgentMoves

LEMMA StartDurable ==
  ASSUME TypeOK, Ledger, AgentWaits, CredentialDurable, NEW a \in Agents, NEW force \in BOOLEAN,
         Start(a, force)
  PROVE  AgentWaits' /\ CredentialDurable'
<1>1. /\ phase[a] = "off" /\ UNCHANGED req
      /\ auth' = [auth EXCEPT ![a] = 0] \/ UNCHANGED auth
      /\ token' = [token EXCEPT ![a] = auth'[a]]
      /\ phase' = [phase EXCEPT ![a] = IF auth'[a] # 0 THEN "probe" ELSE "init"]
  BY DEF Start
<1>2. phase[a] \notin DOMAIN OpOf
  BY <1>1 DEF OpOf
<1>3. phase \in [Agents -> Phase] /\ token \in [Agents -> 0..MaxTokens] /\ auth \in [Agents -> 0..MaxTokens]
  BY DEF TypeOK
<1>4. /\ phase' \in [Agents -> Phase] /\ token'[a] = auth'[a]
      /\ phase'[a] = IF auth'[a] # 0 THEN "probe" ELSE "init"
      /\ \A b \in Agents \ {a} : phase'[b] = phase[b] /\ token'[b] = token[b] /\ auth'[b] = auth[b]
  BY <1>1, <1>3 DEF Phase
<1> QED BY <1>1, <1>2, <1>4, AloneMoves, AgentMoves

LEMMA CrashDurable ==
  ASSUME TypeOK, Ledger, AgentWaits, CredentialDurable, NEW a \in Agents, Crash(a)
  PROVE  AgentWaits' /\ CredentialDurable'
<1>1. /\ phase' = [phase EXCEPT ![a] = "off"] /\ token' = [token EXCEPT ![a] = 0]
      /\ \E t \in {0, auth[a]} : auth' = [auth EXCEPT ![a] = t]
      /\ req' = [g \in Handlers |-> IF req[g].agent = a THEN [req[g] EXCEPT !.live = FALSE] ELSE req[g]]
  BY DEF Crash
<1>2. ASSUME NEW g \in Handlers
      PROVE  /\ req'[g].live => req[g].live /\ req[g].agent # a
             /\ req'[g].op = req[g].op /\ req'[g].agent = req[g].agent /\ req'[g].step = req[g].step
             /\ req'[g].answer = req[g].answer /\ req'[g].token = req[g].token
  <2>1. req[g] \in Request
    BY DEF TypeOK
  <2>2. PICK r : r = [req[g] EXCEPT !.live = FALSE]
    OBVIOUS
  <2>3. /\ ~r.live /\ r.op = req[g].op /\ r.agent = req[g].agent /\ r.step = req[g].step
        /\ r.answer = req[g].answer /\ r.token = req[g].token
    BY <2>1, <2>2 DEF Request
  <2> QED BY <1>1, <2>2, <2>3
<1>3. RequestsKept
  BY <1>2 DEF RequestsKept, AgentWaits, At
<1>4. \A g \in Handlers : req'[g].live => req[g].agent \in Agents \ {a}
  BY <1>2, ClientFacts
<1>5. phase \in [Agents -> Phase] /\ token \in [Agents -> 0..MaxTokens] /\ auth \in [Agents -> 0..MaxTokens]
  BY DEF TypeOK
<1>6. /\ phase' \in [Agents -> Phase] /\ phase'[a] = "off"
      /\ \A b \in Agents \ {a} : phase'[b] = phase[b] /\ token'[b] = token[b] /\ auth'[b] = auth[b]
  BY <1>1, <1>5 DEF Phase
<1> QED BY <1>3, <1>4, <1>6, AgentMoves

LEMMA ServerCrashDurable ==
  ASSUME TypeOK, Ledger, AgentWaits, CredentialDurable, ServerCrash
  PROVE  AgentWaits' /\ CredentialDurable'
<1>1. ASSUME NEW g \in Handlers
      PROVE  /\ req'[g].live => req[g].live /\ req'[g].op = req[g].op /\ req'[g].agent = req[g].agent
             /\ req'[g].answer # "PAIRED"
  <2>1. req[g] \in Request
    BY DEF TypeOK
  <2>2. PICK r : r = [req[g] EXCEPT !.step = "reply", !.answer = "error"]
    OBVIOUS
  <2>3. r.live = req[g].live /\ r.op = req[g].op /\ r.agent = req[g].agent /\ r.answer = "error"
    BY <2>1, <2>2 DEF Request
  <2>4. req'[g] = r \/ req'[g] = Idle
    BY <2>2 DEF ServerCrash
  <2> QED BY <2>3, <2>4 DEF Idle
<1>2. RequestsKept /\ UNCHANGED agentVars
  BY <1>1 DEF RequestsKept, ServerCrash
<1> QED BY <1>2, ServerMoves

LEMMA DurableStep ==
  TypeOK /\ Ledger /\ AgentWaits /\ CredentialDurable /\ [Next]_vars => AgentWaits' /\ CredentialDurable'
<1> SUFFICES ASSUME TypeOK, Ledger, AgentWaits, CredentialDurable, [Next]_vars
             PROVE  AgentWaits' /\ CredentialDurable'
  OBVIOUS
<1>1. ASSUME NEW h \in Handlers, ServerStep(h) PROVE AgentWaits' /\ CredentialDurable'
  BY <1>1, ServerKeeps, ServerMoves
<1>2. CASE UNCHANGED <<req, agentVars>>
  BY <1>2, ServerMoves DEF RequestsKept, AgentWaits, At
<1>3. ASSUME \/ \E s \in Sessions : Elapse(s)
             \/ \E p \in Orgs \X Agents : GoStale(p)
             \/ UNCHANGED vars
      PROVE  UNCHANGED <<req, agentVars>>
  BY <1>3 DEF Elapse, GoStale, vars
<1>4. CASE Next
  BY <1>1, <1>2, <1>3, <1>4, ReplyDurable, TimeoutDurable, CallDurable, SubmitDurable, SaveDurable,
     CrashDurable, StartDurable, ServerCrashDurable
  DEF Next
<1> QED BY <1>2, <1>3, <1>4

\* What a heartbeat loop sends is what a restart finds in auth.json: no agent ever
\* reports with a credential that is only in memory, whatever crashes or is lost.
LEMMA Durable == Spec => []CredentialDurable
<1>1. Init => AgentWaits /\ CredentialDurable
  BY DEF Init, AgentWaits, CredentialDurable, Idle, At
<1>2. Spec => [](AgentWaits /\ CredentialDurable)
  BY <1>1, TypeCorrect, LedgerCorrect, DurableStep, PTL DEF Spec
<1> QED BY <1>2, PTL

\* A credential is kept on both sides: a restart finds what the loops send, and the
\* server accepts it until a later pairing replaces it (storage/state.py, api/endpoint.py).
THEOREM Kept == Spec => []CredentialKept
<1>1. CredentialHonoured /\ CredentialDurable => CredentialKept
  BY DEF CredentialKept
<1> QED BY <1>1, Honoured, Durable, PTL

-----------------------------------------------------------------------------
(* Sessions are one-time sessions, while requests are served one at a time *)

OneAtATime == \A g, h \in Handlers : g = h

stageBar     == [s \in Sessions |-> StageOf(sess[s].status)]
partnerBar   == [s \in Sessions |-> sess[s].org]
deliveredBar == {grant[t].sid : t \in released}
barVars      == <<stageBar, partnerBar, deliveredBar>>

\* What the steps of OneTimePairing look like through the mapping.
LEMMA AbstractOpen ==
  ASSUME NEW s \in Sessions, StageOf(sess[s].status) = "none", StageOf(sess'[s].status) = "open",
         \A x \in Sessions \ {s} : StageOf(sess'[x].status) = StageOf(sess[x].status),
         \A x \in Sessions : sess'[x].org = sess[x].org,
         deliveredBar' = deliveredBar
  PROVE  Promise!Next
<1>1. Promise!Open(s)
  BY DEF Promise!Open, deliveredBar
<1> QED BY <1>1 DEF Promise!Next

LEMMA AbstractPair ==
  ASSUME NEW s \in Sessions, NEW o \in Orgs,
         StageOf(sess[s].status) = "open", StageOf(sess'[s].status) = "paired", sess'[s].org = o,
         \A x \in Sessions \ {s} : sess'[x] = sess[x],
         deliveredBar' = deliveredBar
  PROVE  Promise!Next
<1>1. ASSUME NEW x \in Sessions
      PROVE  /\ StageOf(sess'[x].status) = IF x = s THEN "paired" ELSE StageOf(sess[x].status)
             /\ sess'[x].org = IF x = s THEN o ELSE sess[x].org
  OBVIOUS
<1>2. /\ [x \in Sessions |-> StageOf(sess'[x].status)]
           = [[x \in Sessions |-> StageOf(sess[x].status)] EXCEPT ![s] = "paired"]
      /\ [x \in Sessions |-> sess'[x].org] = [[x \in Sessions |-> sess[x].org] EXCEPT ![s] = o]
  BY <1>1
<1>3. Promise!Pair(s, o)
  BY <1>2 DEF Promise!Pair, deliveredBar
<1> QED BY <1>3 DEF Promise!Next

LEMMA AbstractDeliver ==
  ASSUME NEW s \in Sessions,
         StageOf(sess[s].status) = "paired", StageOf(sess'[s].status) = "closed",
         sess'[s].org = sess[s].org, \A x \in Sessions \ {s} : sess'[x] = sess[x],
         deliveredBar' = deliveredBar \cup {s}
  PROVE  Promise!Next
<1>1. Promise!Deliver(s)
  BY DEF Promise!Deliver, deliveredBar
<1> QED BY <1>1 DEF Promise!Next

LEMMA AbstractClose ==
  ASSUME NEW S \in SUBSET Sessions, \A s \in S : StageOf(sess[s].status) \in {"open", "paired"},
         \A s \in S : StageOf(sess'[s].status) = "closed",
         \A x \in Sessions \ S : StageOf(sess'[x].status) = StageOf(sess[x].status),
         \A x \in Sessions : sess'[x].org = sess[x].org,
         deliveredBar' = deliveredBar
  PROVE  Promise!Next
<1>1. Promise!Close(S)
  BY DEF Promise!Close, deliveredBar
<1> QED BY <1>1 DEF Promise!Next

LEMMA AbstractStutter ==
  ASSUME \A x \in Sessions : sess'[x].org = sess[x].org /\ StageOf(sess'[x].status) = StageOf(sess[x].status),
         deliveredBar' = deliveredBar
  PROVE  UNCHANGED barVars
  BY DEF barVars, stageBar, partnerBar, deliveredBar

\* What a step may do to sessions so as to keep the secrets' ledger.
LEMMA SecretsStable ==
  ASSUME TypeOK, SecretLedger, UNCHANGED history,
         \A s \in Sessions : sess'[s].token \in {sess[s].token, 0}
  PROVE  SecretLedger' /\ deliveredBar' = deliveredBar
  BY DEF SecretLedger, history, deliveredBar

\* What a step may do to requests, and to sessions, so as to keep InFlight.
LEMMA NothingInFlight ==
  ASSUME \A g \in Handlers : req'[g].step \notin {"expire", "lookup", "commit"}
  PROVE  InFlight'
  BY DEF InFlight

LEMMA FlightStable ==
  ASSUME TypeOK, InFlight,
         \A s \in Sessions : sess'[s].status = sess[s].status /\ sess'[s].token = sess[s].token,
         \A g \in Handlers : /\ req'[g].op = req[g].op /\ req'[g].step = req[g].step
                             /\ req'[g].sid = req[g].sid /\ req'[g].priors = req[g].priors
                             /\ req'[g].token = req[g].token,
         Ledger
  PROVE  InFlight'
<1> SUFFICES ASSUME NEW h \in Handlers
             PROVE  /\ req[h].op = "init" /\ req[h].step = "expire" =>
                          \A s \in req[h].priors : sess'[s].status = "WAITING_FOR_PAIR"
                    /\ req[h].op \in {"pair", "status"} /\ req[h].step = "expire" =>
                          sess'[req[h].sid].status # "none"
                    /\ req[h].op = "pair" /\ req[h].step \in {"lookup", "commit"} =>
                          sess'[req[h].sid].status = "WAITING_FOR_PAIR"
                    /\ req[h].op = "status" /\ req[h].step = "commit" =>
                          /\ sess'[req[h].sid].status = "PAIRED"
                          /\ sess'[req[h].sid].token = req[h].token
  BY DEF InFlight
<1>1. req[h] \in Request /\ CarriedOK(req[h])
  BY DEF TypeOK, Ledger, RequestLedger
<1>2. req[h].priors \subseteq Sessions
  BY <1>1 DEF Request
<1>3. req[h].op \in {"pair", "status"} /\ req[h].step \in {"expire", "lookup", "commit"} => req[h].sid \in Sessions
  BY <1>1 DEF CarriedOK, TypeOK
<1> QED BY <1>2, <1>3 DEF InFlight

\* Sessions that lapse close, whatever they held.
LEMMA LapseRefines ==
  ASSUME TypeOK, Ledger, SecretLedger, NEW S \in SUBSET Sessions, UNCHANGED history,
         \A s \in S : sess[s].status # "none" /\ sess'[s] = [sess[s] EXCEPT !.status = "EXPIRED"],
         \A s \in Sessions \ S : sess'[s] = sess[s]
  PROVE  SecretLedger' /\ [Promise!Next]_barVars
<1>1. ASSUME NEW s \in S
      PROVE  sess'[s].status = "EXPIRED" /\ sess'[s].org = sess[s].org /\ sess'[s].token = sess[s].token
  <2>1. sess[s] \in Session /\ sess'[s] = [sess[s] EXCEPT !.status = "EXPIRED"]
    BY <1>1 DEF TypeOK
  <2> QED BY <2>1 DEF Session
<1>2. SecretLedger' /\ deliveredBar' = deliveredBar
  BY <1>1, SecretsStable
<1> DEFINE T == {s \in S : sess[s].status \in {"WAITING_FOR_PAIR", "PAIRED"}}
<1>3. \A s \in S \ T : sess[s].status \in {"CONSUMED", "EXPIRED"}
  BY DEF TypeOK, Session, Status
<1>4. /\ \A s \in T : StageOf(sess[s].status) \in {"open", "paired"} /\ StageOf(sess'[s].status) = "closed"
      /\ \A x \in Sessions \ T : StageOf(sess'[x].status) = StageOf(sess[x].status)
      /\ \A x \in Sessions : sess'[x].org = sess[x].org
  BY <1>1, <1>3 DEF StageOf
<1>5. T \in SUBSET Sessions
  OBVIOUS
<1> HIDE DEF T
<1>6. Promise!Next
  BY <1>2, <1>4, <1>5, AbstractClose
<1> QED BY <1>2, <1>6

\* A step that writes no session.
LEMMA IdleRefines ==
  ASSUME TypeOK, SecretLedger, UNCHANGED history,
         \A s \in Sessions : /\ sess'[s].status = sess[s].status /\ sess'[s].org = sess[s].org
                             /\ sess'[s].token = sess[s].token
  PROVE  SecretLedger' /\ [Promise!Next]_barVars
  BY SecretsStable, AbstractStutter

\* The one handler takes up what it works on.
LEMMA LoneHandler ==
  ASSUME TypeOK, OneAtATime, NEW h \in Handlers, NEW r \in Request, Becomes(h, r),
         r.step \notin {"expire", "lookup", "commit"}
  PROVE  InFlight'
<1>1. \A g \in Handlers : req'[g] = r
  BY BecomesType DEF OneAtATime
<1> QED BY <1>1, NothingInFlight

LEMMA LoneReads ==
  ASSUME TypeOK, Ledger, SecretLedger, InFlight, OneAtATime, NEW h \in Handlers,
         \/ FindPriors(h) \/ AcceptCode(h) \/ FindAgentRow(h) \/ ReadPaired(h)
         \/ ReadLate(h) \/ (RefuseLateCode(h) /\ ~Answer(h, "refused"))
  PROVE  InFlight' /\ SecretLedger' /\ [Promise!Next]_barVars
<1>1. req[h] \in Request /\ UNCHANGED <<dbVars, history>>
  BY DEF TypeOK, FindPriors, AcceptCode, FindAgentRow, ReadPaired, ReadLate, RefuseLateCode
<1>2. SecretLedger' /\ [Promise!Next]_barVars
  BY <1>1, IdleRefines DEF dbVars, history
<1>3. sess' = sess /\ \A r : Becomes(h, r) => \A g \in Handlers : g = h /\ req'[g] = r
  BY <1>1 DEF OneAtATime, TypeOK, Becomes, dbVars
<1>4. CASE FindPriors(h)
  <2> DEFINE priors == {s \in Sessions : /\ sess[s].code = DemoCode
                                         /\ sess[s].status = "WAITING_FOR_PAIR"}
             r == [req[h] EXCEPT !.step = "expire", !.priors = priors]
  <2>1. Becomes(h, r) /\ \A s \in priors : sess[s].status = "WAITING_FOR_PAIR"
    BY <1>4 DEF FindPriors
  <2> HIDE DEF priors
  <2>2. r.step = "expire" /\ r.op = "init" /\ r.priors = priors
    BY <1>1, <1>4 DEF FindPriors, At, Request
  <2> HIDE DEF r
  <2> QED BY <1>2, <1>3, <2>1, <2>2 DEF InFlight
<1>5. CASE AcceptCode(h)
  <2>1. PICK s \in WithCode(req[h].code) :
           /\ sess[s].status = "WAITING_FOR_PAIR"
           /\ Becomes(h, [req[h] EXCEPT !.step = "lookup", !.sid = s])
    BY <1>5 DEF AcceptCode
  <2> DEFINE r == [req[h] EXCEPT !.step = "lookup", !.sid = s]
  <2>2. r.step = "lookup" /\ r.op = "pair" /\ r.sid = s
    BY <1>1, <1>5 DEF AcceptCode, At, Request
  <2>3. Becomes(h, r)
    BY <2>1
  <2> HIDE DEF r
  <2> QED BY <1>2, <1>3, <2>1, <2>2, <2>3 DEF InFlight
<1>6. CASE FindAgentRow(h)
  <2> DEFINE r == [req[h] EXCEPT !.step = "commit",
                                 !.known = agentRow[req[h].org][sess[req[h].sid].agent] # 0]
  <2>1. Becomes(h, r) /\ sess[req[h].sid].status = "WAITING_FOR_PAIR"
    BY <1>6 DEF FindAgentRow, InFlight, At
  <2>2. r.step = "commit" /\ r.op = "pair" /\ r.sid = req[h].sid
    BY <1>1, <1>6 DEF FindAgentRow, At, Request
  <2> HIDE DEF r
  <2> QED BY <1>2, <1>3, <2>1, <2>2 DEF InFlight
<1>7. CASE ReadPaired(h)
  <2> DEFINE r == [req[h] EXCEPT !.step = "commit", !.token = sess[req[h].sid].token]
  <2>1. Becomes(h, r) /\ sess[req[h].sid].status = "PAIRED"
    BY <1>7 DEF ReadPaired
  <2>2. r.step = "commit" /\ r.op = "status" /\ r.sid = req[h].sid /\ r.token = sess[req[h].sid].token
    BY <1>1, <1>7 DEF ReadPaired, At, Request
  <2> HIDE DEF r
  <2> QED BY <1>2, <1>3, <2>1, <2>2 DEF InFlight
<1>8. CASE ReadLate(h)
  <2> DEFINE r == [req[h] EXCEPT !.step = "expire"]
  <2>1. Becomes(h, r) /\ sess[req[h].sid].status = "WAITING_FOR_PAIR"
    BY <1>8 DEF ReadLate, GoTo, LateOpen
  <2>2. r.step = "expire" /\ r.op = "status" /\ r.sid = req[h].sid
    BY <1>1, <1>8 DEF ReadLate, At, Request
  <2> HIDE DEF r
  <2> QED BY <1>2, <1>3, <2>1, <2>2 DEF InFlight
<1>9. CASE RefuseLateCode(h) /\ ~Answer(h, "refused")
  <2>1. PICK s \in WithCode(req[h].code) : Becomes(h, [req[h] EXCEPT !.step = "expire", !.sid = s])
    BY <1>9 DEF RefuseLateCode
  <2> DEFINE r == [req[h] EXCEPT !.step = "expire", !.sid = s]
  <2>2. r.step = "expire" /\ r.op = "pair" /\ r.sid = s /\ sess[s].status # "none"
    BY <1>1, <1>9 DEF RefuseLateCode, WithCode, At, Request
  <2>3. Becomes(h, r)
    BY <2>1
  <2> HIDE DEF r
  <2> QED BY <1>2, <1>3, <2>2, <2>3 DEF InFlight
<1> QED BY <1>4, <1>5, <1>6, <1>7, <1>8, <1>9

\* The other steps that write no session.
LEMMA LoneQuiet ==
  ASSUME TypeOK, Ledger, SecretLedger, OneAtATime, NEW h \in Handlers,
         UNCHANGED <<sess, history>>,
         \E r \in Request : Becomes(h, r) /\ r.step \notin {"expire", "lookup", "commit"}
  PROVE  InFlight' /\ SecretLedger' /\ [Promise!Next]_barVars
  BY LoneHandler, IdleRefines

LEMMA LoneAnswers ==
  ASSUME TypeOK, Ledger, SecretLedger, OneAtATime, NEW h \in Handlers,
         \/ RefuseUnknownCode(h) \/ RefuseUsedCode(h) \/ RegisterConflict(h)
         \/ (RefuseLateCode(h) /\ Answer(h, "refused")) \/ ReadStatus(h)
         \/ AuthoriseReport(h) \/ RecordBeat(h) \/ UpsertDevice(h) \/ ReplyStep(h)
  PROVE  InFlight' /\ SecretLedger' /\ [Promise!Next]_barVars
<1>1. req[h] \in Request /\ CarriedOK(req[h])
  BY DEF TypeOK, Ledger, RequestLedger
<1>2. UNCHANGED <<sess, history>>
  BY DEF RefuseUnknownCode, RefuseUsedCode, RegisterConflict, RefuseLateCode, ReadStatus,
         AuthoriseReport, RecordBeat, UpsertDevice, ReplyStep, OnInitReply, OnStatusReply, OnHeartbeatReply, OnTelemetryReply, DropReply, dbVars
<1> DEFINE Moves(r) == r \in Request /\ Becomes(h, r) /\ r.step \notin {"expire", "lookup", "commit"}
<1>3. ASSUME NEW an \in Answers, Answer(h, an) PROVE \E r : Moves(r)
  <2> DEFINE r == [req[h] EXCEPT !.step = "reply", !.answer = an]
  <2>1. r \in Request /\ Becomes(h, r)
    BY <1>3, AnswerType DEF Answer
  <2>2. r.step = "reply"
    BY <1>1 DEF Request
  <2> QED BY <2>1, <2>2
<1>4. CASE ReplyStep(h)
  <2>1. Becomes(h, Idle)
    BY <1>4 DEF ReplyStep, OnInitReply, OnStatusReply, OnHeartbeatReply, OnTelemetryReply, DropReply, Free
  <2>2. Moves(Idle)
    BY <2>1, IdleType DEF Idle
  <2> QED BY <1>2, <2>2, LoneQuiet
<1>5. CASE RefuseUnknownCode(h) \/ RefuseUsedCode(h) \/ RegisterConflict(h) \/ UpsertDevice(h)
  <2>1. \E an \in Answers : Answer(h, an)
    BY <1>5 DEF RefuseUnknownCode, RefuseUsedCode, RegisterConflict, UpsertDevice, Answers
  <2> QED BY <1>2, <1>3, <2>1, LoneQuiet
<1>6. CASE RecordBeat(h)
  <2>1. GoTo(h, "grid")
    BY <1>6 DEF RecordBeat
  <2> DEFINE r == [req[h] EXCEPT !.step = "grid"]
  <2>2. r \in Request
    BY GoToType DEF Steps
  <2>3. Becomes(h, r) /\ r.step = "grid"
    BY <1>1, <2>1 DEF GoTo, Request
  <2>4. Moves(r)
    BY <2>2, <2>3
  <2> QED BY <1>2, <2>4, LoneQuiet
<1>7. CASE AuthoriseReport(h)
  <2>1. CASE \E an \in {"unauthorized", "error"} : Answer(h, an)
    BY <1>2, <1>3, <2>1, LoneQuiet DEF Answers
  <2>2. CASE \E o \in Orgs : Becomes(h, [req[h] EXCEPT !.step = "beat", !.org = o])
    <3>1. PICK o \in Orgs : Becomes(h, [req[h] EXCEPT !.step = "beat", !.org = o])
      BY <2>2
    <3>2. Moves([req[h] EXCEPT !.step = "beat", !.org = o])
      BY <1>1, <3>1 DEF Request, Steps
    <3> QED BY <1>2, <3>2, LoneQuiet
  <2> QED BY <1>7, <2>1, <2>2 DEF AuthoriseReport, RowsAccepting
<1>8. CASE (RefuseLateCode(h) /\ Answer(h, "refused")) \/ ReadStatus(h)
  <2>1. CASE ReadStatus(h)
    <3>1. req[h].sid \in Sessions
      BY <1>1, <2>1 DEF TypeOK, CarriedOK, ReadStatus, At
    <3>2. sess[req[h].sid].status \in Status
      BY <3>1 DEF TypeOK, Session
    <3>3. \E an \in Answers : Answer(h, an)
      BY <2>1, <3>2 DEF ReadStatus, Answers, Status
    <3> QED BY <1>2, <1>3, <3>3, LoneQuiet
  <2>2. CASE Answer(h, "refused")
    BY <1>2, <1>3, <2>2, LoneQuiet DEF Answers
  <2> QED BY <1>8, <2>1, <2>2
<1> QED BY <1>4, <1>5, <1>6, <1>7, <1>8

LEMMA LoneLapse ==
  ASSUME TypeOK, Ledger, SecretLedger, InFlight, OneAtATime, NEW h \in Handlers,
         ExpirePriors(h) \/ ExpireLate(h)
  PROVE  InFlight' /\ SecretLedger' /\ [Promise!Next]_barVars
<1>1. req[h] \in Request /\ CarriedOK(req[h]) /\ UNCHANGED history
  BY DEF TypeOK, Ledger, RequestLedger, ExpirePriors, ExpireLate
<1>2. CASE ExpirePriors(h)
  <2>1. [req[h] EXCEPT !.step = "insert"] \in Request
    BY GoToType DEF Steps
  <2>2. [req[h] EXCEPT !.step = "insert"].step = "insert"
    BY <1>1 DEF Request
  <2>3. InFlight'
    BY <1>2, <2>1, <2>2, LoneHandler DEF ExpirePriors, GoTo
  <2>4. \A s \in req[h].priors : s \in Sessions /\ sess[s].status = "WAITING_FOR_PAIR"
    BY <1>1, <1>2 DEF ExpirePriors, At, InFlight, Request
  <2>5. /\ \A s \in req[h].priors : sess'[s] = [sess[s] EXCEPT !.status = "EXPIRED"]
        /\ \A s \in Sessions \ req[h].priors : sess'[s] = sess[s]
    BY <1>2, <2>4 DEF ExpirePriors
  <2>6. req[h].priors \in SUBSET Sessions
    BY <2>4
  <2> QED BY <1>1, <2>3, <2>4, <2>5, <2>6, LapseRefines
<1>3. CASE ExpireLate(h)
  <2>1. PICK an \in {"refused", "EXPIRED"} : Answer(h, an)
    BY <1>3 DEF ExpireLate
  <2>2. /\ [req[h] EXCEPT !.step = "reply", !.answer = an] \in Request
        /\ [req[h] EXCEPT !.step = "reply", !.answer = an].step = "reply"
    <3>1. an \in Answers
      BY <2>1 DEF Answers
    <3> QED BY <1>1, <3>1, AnswerType DEF Request
  <2>3. InFlight'
    BY <2>1, <2>2, LoneHandler DEF Answer
  <2> DEFINE s == req[h].sid
  <2>4. s \in Sessions /\ sess[s].status # "none"
    BY <1>1, <1>3 DEF ExpireLate, CarriedOK, TypeOK, InFlight
  <2>5. /\ \A x \in {s} : sess[x].status # "none" /\ sess'[x] = [sess[x] EXCEPT !.status = "EXPIRED"]
        /\ \A x \in Sessions \ {s} : sess'[x] = sess[x]
    BY <1>3, <2>4 DEF ExpireLate, TypeOK
  <2>6. {s} \in SUBSET Sessions
    BY <2>4
  <2> QED BY <1>1, <2>3, <2>5, <2>6, LapseRefines
<1> QED BY <1>2, <1>3

LEMMA InsertRefines ==
  ASSUME TypeOK, Ledger, SecretLedger, OneAtATime, NEW h \in Handlers, InsertSession(h)
  PROVE  InFlight' /\ SecretLedger' /\ [Promise!Next]_barVars
<1> DEFINE s == inserted + 1
           n == [NoSession EXCEPT !.status = "WAITING_FOR_PAIR",
                                  !.agent = req[h].agent,
                                  !.code = IF req[h].agent \in DemoAgents THEN DemoCode ELSE s]
           r == [req[h] EXCEPT !.step = "reply", !.answer = "OK", !.sid = s]
<1>1. /\ s \in Sessions /\ sess[s] = NoSession /\ UNCHANGED history
      /\ sess' = [sess EXCEPT ![s] = n] /\ Becomes(h, r)
  BY DEF InsertSession, TypeOK, Ledger, SessionLedger
<1>2. n.status = "WAITING_FOR_PAIR" /\ n.org = None /\ n.token = 0
  BY DEF NoSession
<1>3. r \in Request /\ r.step = "reply"
  <2>1. req[h] \in Request /\ s \in 0..MaxSessions
    BY <1>1 DEF TypeOK
  <2>2. ASSUME NEW q \in Request, NEW x \in 0..MaxSessions
        PROVE  LET a == [q EXCEPT !.step = "reply", !.answer = "OK", !.sid = x]
               IN a \in Request /\ a.step = "reply"
    <3>1. "reply" \in Steps /\ "OK" \in Answers
      BY DEF Steps, Answers
    <3>2. [q EXCEPT !.step = "reply", !.answer = "OK", !.sid = x] \in Request
      BY <3>1 DEF Request
    <3>3. [q EXCEPT !.step = "reply", !.answer = "OK", !.sid = x].step = "reply"
      BY DEF Request
    <3> QED BY <3>2, <3>3
  <2> QED BY <2>1, <2>2
<1>4. InFlight'
  BY <1>1, <1>3, LoneHandler
<1>5. /\ sess'[s] = n /\ \A x \in Sessions \ {s} : sess'[x] = sess[x]
      /\ sess[s].status = "none" /\ sess[s].org = None /\ sess[s].token = 0
  BY <1>1 DEF TypeOK, NoSession
<1> HIDE DEF s, n, r
<1>6. SecretLedger' /\ deliveredBar' = deliveredBar
  BY <1>1, <1>2, <1>5, SecretsStable
<1>7. /\ StageOf(sess[s].status) = "none" /\ StageOf(sess'[s].status) = "open"
      /\ \A x \in Sessions : sess'[x].org = sess[x].org
  BY <1>2, <1>5 DEF StageOf
<1>8. Promise!Next
  BY <1>1, <1>5, <1>6, <1>7, AbstractOpen
<1> QED BY <1>4, <1>6, <1>8

LEMMA RegisterRefines ==
  ASSUME TypeOK, Ledger, SecretLedger, InFlight, OneAtATime, NEW h \in Handlers, RegisterAgent(h)
  PROVE  InFlight' /\ SecretLedger' /\ [Promise!Next]_barVars
<1>1. req[h] \in Request /\ CarriedOK(req[h]) /\ At(h, "pair", "commit")
  BY DEF TypeOK, Ledger, RequestLedger, RegisterAgent
<1>2. PICK s \in Sessions, o \in Orgs : s = req[h].sid /\ o = req[h].org
  <2>1. req[h].sid \in Sessions /\ req[h].org \in Orgs
    BY <1>1 DEF CarriedOK, At, TypeOK
  <2> QED BY <2>1
<1> DEFINE t == minted + 1
           n == [sess[s] EXCEPT !.status = "PAIRED", !.org = o, !.token = t]
<1>3. /\ sess[s].status = "WAITING_FOR_PAIR" /\ t \in Tokens
      /\ sess' = [sess EXCEPT ![s] = n] /\ minted' = t /\ UNCHANGED released
      /\ grant' = [grant EXCEPT ![t] = [org |-> o, agent |-> sess[s].agent, sid |-> s]]
      /\ GoTo(h, "grid")
  BY <1>1, <1>2 DEF RegisterAgent, InFlight, At, TypeOK
<1>4. n.status = "PAIRED" /\ n.org = o /\ n.token = t
  <2>1. sess[s] \in Session
    BY DEF TypeOK
  <2> QED BY <2>1 DEF Session
<1>5. /\ sess'[s] = n /\ \A x \in Sessions \ {s} : sess'[x] = sess[x]
      /\ grant'[t].sid = s /\ \A x \in Tokens \ {t} : grant'[x] = grant[x]
      /\ minted' = minted + 1 /\ minted \in Nat
  BY <1>3 DEF TypeOK
<1>6. InFlight'
  <2> DEFINE r == [req[h] EXCEPT !.step = "grid"]
  <2>1. r \in Request
    BY GoToType DEF Steps
  <2>2. Becomes(h, r) /\ r.step = "grid"
    BY <1>1, <1>3 DEF GoTo, Request
  <2> QED BY <2>1, <2>2, LoneHandler
<1>7. released \subseteq Tokens \ {t} /\ \A x \in released : x <= minted'
  BY <1>5 DEF SecretLedger, TypeOK
<1>8. deliveredBar' = deliveredBar
  BY <1>3, <1>5, <1>7 DEF deliveredBar
<1>9. ASSUME NEW x \in Sessions, sess'[x].token # 0
      PROVE  grant'[sess'[x].token].sid = x /\ sess'[x].token \notin released
  <2>1. CASE x = s
    BY <1>4, <1>5, <1>7, <2>1
  <2>2. CASE x # s
    <3>1. sess'[x] = sess[x] /\ sess[x].token \in 0..MaxTokens
      BY <1>5, <2>2 DEF TypeOK, Session
    <3>2. sess[x].token <= minted
      BY <1>9, <3>1 DEF Ledger, SessionLedger, IssuedTo
    <3>3. sess[x].token \in Tokens \ {t}
      BY <1>5, <1>9, <3>1, <3>2
    <3> QED BY <1>5, <1>9, <3>1, <3>3 DEF SecretLedger
  <2> QED BY <2>1, <2>2
<1>10. SecretLedger'
  BY <1>3, <1>7, <1>9 DEF SecretLedger
<1> HIDE DEF n
<1>11. StageOf(sess[s].status) = "open" /\ StageOf(sess'[s].status) = "paired" /\ sess'[s].org = o
  BY <1>3, <1>4, <1>5 DEF StageOf
<1>12. Promise!Next
  BY <1>5, <1>8, <1>11, AbstractPair
<1> QED BY <1>6, <1>10, <1>12

LEMMA ConsumeRefines ==
  ASSUME TypeOK, Ledger, SecretLedger, InFlight, OneAtATime, NEW h \in Handlers, ConsumeSession(h)
  PROVE  InFlight' /\ SecretLedger' /\ [Promise!Next]_barVars
<1>1. req[h] \in Request /\ CarriedOK(req[h]) /\ At(h, "status", "commit")
  BY DEF TypeOK, Ledger, RequestLedger, ConsumeSession
<1>2. PICK s \in Sessions : s = req[h].sid
  BY <1>1 DEF CarriedOK, At, TypeOK
<1> DEFINE n == [sess[s] EXCEPT !.status = "CONSUMED", !.token = 0]
<1>3. /\ sess[s].status = "PAIRED" /\ sess[s].token = req[h].token /\ req[h].token # 0
      /\ sess' = [sess EXCEPT ![s] = n] /\ released' = released \cup {req[h].token}
      /\ UNCHANGED <<minted, grant>> /\ Answer(h, "PAIRED")
  BY <1>1, <1>2 DEF ConsumeSession, InFlight, At, CarriedOK
<1>4. n.status = "CONSUMED" /\ n.org = sess[s].org /\ n.token = 0
  <2>1. sess[s] \in Session
    BY DEF TypeOK
  <2> QED BY <2>1 DEF Session
<1>5. sess'[s] = n /\ \A x \in Sessions \ {s} : sess'[x] = sess[x]
  BY <1>3 DEF TypeOK
<1>6. InFlight'
  <2> DEFINE r == [req[h] EXCEPT !.step = "reply", !.answer = "PAIRED"]
  <2>1. r \in Request
    BY AnswerType DEF Answers
  <2>2. Becomes(h, r) /\ r.step = "reply"
    BY <1>1, <1>3 DEF Answer, Request
  <2> QED BY <2>1, <2>2, LoneHandler
<1>7. grant[req[h].token].sid = s /\ req[h].token <= minted
  BY <1>1, <1>3 DEF SecretLedger, CarriedOK, IssuedTo
<1>8. deliveredBar' = deliveredBar \cup {s}
  BY <1>3, <1>7 DEF deliveredBar
<1> HIDE DEF n
<1>9. SecretLedger'
  <2>1. ASSUME NEW x \in Sessions, sess'[x].token # 0
        PROVE  grant[sess'[x].token].sid = x /\ sess'[x].token \notin released'
    BY <1>3, <1>4, <1>5, <1>7, <2>1 DEF SecretLedger
  <2>2. \A t \in released' : t <= minted
    BY <1>3, <1>7 DEF SecretLedger
  <2> QED BY <1>3, <2>1, <2>2 DEF SecretLedger
<1>10. /\ StageOf(sess[s].status) = "paired" /\ StageOf(sess'[s].status) = "closed"
       /\ sess'[s].org = sess[s].org
  BY <1>3, <1>4, <1>5 DEF StageOf
<1>11. Promise!Next
  BY <1>5, <1>8, <1>10, AbstractDeliver
<1> QED BY <1>6, <1>9, <1>11

\* Clients, operators, clocks and crashes write no session but to note that it is late.
LEMMA OutsideRefines ==
  ASSUME TypeOK, Ledger, SecretLedger, InFlight, OneAtATime,
         \/ \E h \in Handlers : Timeout(h)
         \/ \E h \in Handlers, a \in Agents : Call(h, a)
         \/ \E h \in Handlers, o \in Orgs, c \in Codes : Submit(h, o, c)
         \/ \E a \in Agents : SaveAuth(a) \/ Crash(a)
         \/ \E a \in Agents, force \in BOOLEAN : Start(a, force)
         \/ \E s \in Sessions : Elapse(s)
         \/ \E p \in Orgs \X Agents : GoStale(p)
         \/ ServerCrash \/ UNCHANGED vars
  PROVE  InFlight' /\ SecretLedger' /\ [Promise!Next]_barVars
<1> DEFINE Same(g) == /\ req'[g].op = req[g].op /\ req'[g].step = req[g].step /\ req'[g].sid = req[g].sid
                      /\ req'[g].priors = req[g].priors /\ req'[g].token = req[g].token
           SameSession(s) == /\ sess'[s].status = sess[s].status /\ sess'[s].org = sess[s].org
                             /\ sess'[s].token = sess[s].token
<1>1. UNCHANGED history
  BY DEF Timeout, Call, Submit, SaveAuth, Crash, Start, Elapse, GoStale, ServerCrash, vars
<1>2. ASSUME NEW s \in Sessions PROVE SameSession(s)
  <2>1. CASE UNCHANGED sess
    BY <2>1
  <2>2. CASE \E x \in Sessions : Elapse(x)
    <3>1. PICK x \in Sessions : sess' = [sess EXCEPT ![x].late = TRUE]
      BY <2>2 DEF Elapse
    <3>2. sess[s] \in Session /\ sess \in [Sessions -> Session]
      BY DEF TypeOK
    <3> QED BY <3>1, <3>2 DEF Session
  <2> QED BY <2>1, <2>2 DEF Timeout, Call, Submit, SaveAuth, Crash, Start, GoStale, ServerCrash, vars, dbVars
<1>3. SecretLedger' /\ [Promise!Next]_barVars
  BY <1>1, <1>2, IdleRefines
<1>4. ASSUME \A g \in Handlers : Same(g) PROVE InFlight'
  BY <1>2, <1>4, FlightStable
<1>5. CASE UNCHANGED req
  BY <1>3, <1>4, <1>5
<1>6. CASE \E h \in Handlers : Timeout(h)
  <2>1. PICK h \in Handlers : Becomes(h, [req[h] EXCEPT !.live = FALSE])
    BY <1>6 DEF Timeout
  <2>2. req \in [Handlers -> Request]
    BY DEF TypeOK
  <2>3. \A g \in Handlers : Same(g)
    BY <2>1, <2>2 DEF Becomes, Request
  <2> QED BY <1>3, <1>4, <2>3
<1>7. CASE \E a \in Agents : Crash(a)
  <2>1. ASSUME NEW g \in Handlers PROVE Same(g)
    <3>1. req[g] \in Request
      BY DEF TypeOK
    <3>2. PICK r : r = [req[g] EXCEPT !.live = FALSE]
      OBVIOUS
    <3>3. /\ r.op = req[g].op /\ r.step = req[g].step /\ r.sid = req[g].sid
          /\ r.priors = req[g].priors /\ r.token = req[g].token
      BY <3>1, <3>2 DEF Request
    <3>4. req'[g] = r \/ req'[g] = req[g]
      BY <1>7, <3>2 DEF Crash
    <3> QED BY <3>3, <3>4
  <2> QED BY <1>3, <1>4, <2>1
<1>8. CASE ServerCrash
  <2>1. ASSUME NEW g \in Handlers PROVE req'[g].step \in {"idle", "reply"}
    <3>1. req[g] \in Request
      BY DEF TypeOK
    <3>2. PICK r : r = [req[g] EXCEPT !.step = "reply", !.answer = "error"]
      OBVIOUS
    <3>3. r.step = "reply"
      BY <3>1, <3>2 DEF Request
    <3>4. req'[g] = r \/ req'[g] = Idle
      BY <1>8, <3>2 DEF ServerCrash
    <3> QED BY <3>3, <3>4 DEF Idle
  <2> QED BY <1>3, <2>1, NothingInFlight
<1>9. ASSUME NEW h \in Handlers, NEW r, Becomes(h, r), r.step \in {"read", "insert", "auth"}
      PROVE  InFlight'
  <2>1. \A g \in Handlers : req'[g] = r
    BY <1>9 DEF TypeOK, Becomes, OneAtATime
  <2> QED BY <1>9, <2>1, NothingInFlight
<1>10. ASSUME NEW h \in Handlers, NEW a \in Agents, Call(h, a) PROVE InFlight'
  <2> DEFINE r == [Idle EXCEPT !.op = OpOf[phase[a]], !.step = StepOf(a),
                               !.agent = a, !.live = TRUE,
                               !.sid = IF phase[a] = "poll" THEN cur[a] ELSE 0,
                               !.token = IF phase[a] \in {"init", "poll"} THEN 0 ELSE token[a]]
  <2>1. Becomes(h, r)
    BY <1>10 DEF Call
  <2>2. r.step = StepOf(a)
    BY DEF Idle
  <2>3. StepOf(a) \in {"read", "insert", "auth"}
    BY DEF StepOf
  <2> HIDE DEF r
  <2> QED BY <1>9, <2>1, <2>2, <2>3
<1>11. ASSUME NEW h \in Handlers, NEW o \in Orgs, NEW c \in Codes, Submit(h, o, c) PROVE InFlight'
  <2> DEFINE r == [Idle EXCEPT !.op = "pair", !.step = "read", !.org = o, !.code = c]
  <2>1. Becomes(h, r) /\ r.step = "read"
    BY <1>11 DEF Submit, Idle
  <2> HIDE DEF r
  <2> QED BY <1>9, <2>1
<1>12. ASSUME \/ \E a \in Agents : SaveAuth(a)
              \/ \E a \in Agents, force \in BOOLEAN : Start(a, force)
              \/ \E s \in Sessions : Elapse(s)
              \/ \E p \in Orgs \X Agents : GoStale(p)
              \/ UNCHANGED vars
       PROVE  UNCHANGED req
  BY <1>12 DEF SaveAuth, Start, Elapse, GoStale, vars
<1> QED BY <1>3, <1>5, <1>6, <1>7, <1>8, <1>10, <1>11, <1>12

LEMMA RefinementStep ==
  ASSUME OneAtATime
  PROVE  TypeOK /\ Ledger /\ SecretLedger /\ InFlight /\ [Next]_vars
           => InFlight' /\ SecretLedger' /\ [Promise!Next]_barVars
<1> SUFFICES ASSUME TypeOK, Ledger, SecretLedger, InFlight, [Next]_vars
             PROVE  InFlight' /\ SecretLedger' /\ [Promise!Next]_barVars
  OBVIOUS
<1>1. ASSUME NEW h \in Handlers, ServerStep(h) \/ ReplyStep(h)
      PROVE  InFlight' /\ SecretLedger' /\ [Promise!Next]_barVars
  <2>1. CASE \/ FindPriors(h) \/ AcceptCode(h) \/ FindAgentRow(h) \/ ReadPaired(h)
             \/ ReadLate(h) \/ (RefuseLateCode(h) /\ ~Answer(h, "refused"))
    BY <2>1, LoneReads
  <2>2. CASE \/ RefuseUnknownCode(h) \/ RefuseUsedCode(h) \/ RegisterConflict(h)
             \/ (RefuseLateCode(h) /\ Answer(h, "refused")) \/ ReadStatus(h)
             \/ AuthoriseReport(h) \/ RecordBeat(h) \/ UpsertDevice(h) \/ ReplyStep(h)
    BY <2>2, LoneAnswers
  <2>3. CASE \/ ExpirePriors(h) \/ ExpireLate(h) \/ InsertSession(h) \/ RegisterAgent(h)
             \/ ConsumeSession(h)
    BY <2>3, LoneLapse, InsertRefines, RegisterRefines, ConsumeRefines
  <2> QED BY <1>1, <2>1, <2>2, <2>3 DEF ServerStep
<1> QED BY <1>1, OutsideRefines DEF Next

\* While requests are served one at a time every pairing session behaves as the
\* one-time session that models/endpoint.py promises: taken up by one organisation
\* at most, its secret handed over once at most, never open again when closed.
THEOREM OneTimeSessions ==
    ASSUME OneAtATime
    PROVE  Spec => ImplementsOneTimePairing
<1>1. Init => SecretLedger /\ InFlight /\ Promise!Init
  <2> SUFFICES ASSUME Init PROVE SecretLedger /\ InFlight /\ Promise!Init
    OBVIOUS
  <2>1. \A s \in Sessions : sess[s].status = "none" /\ sess[s].org = None /\ sess[s].token = 0
    BY DEF Init, NoSession
  <2>2. Promise!Init
    BY <2>1 DEF Init, Promise!Init, StageOf
  <2>3. SecretLedger /\ InFlight
    BY <2>1 DEF Init, SecretLedger, InFlight, Idle
  <2> QED BY <2>2, <2>3
<1>2. TypeOK /\ Ledger /\ SecretLedger /\ InFlight /\ [Next]_vars
        => InFlight' /\ SecretLedger' /\ [Promise!Next]_barVars
  BY RefinementStep
<1> QED BY <1>1, <1>2, TypeCorrect, LedgerCorrect, PTL
        DEF Spec, ImplementsOneTimePairing, Promise!Spec, barVars, stageBar, partnerBar, deliveredBar

\* "One-time secret release" (get_pairing_status): as long as polls do not overlap
\* no token leaves the server in two answers.
THEOREM SecretReleasedOnce ==
    ASSUME OneAtATime
    PROVE  Spec => ReleasedOnce
<1>1. Init => SecretLedger /\ InFlight
  BY DEF Init, SecretLedger, InFlight, Idle, NoSession
<1>2. TypeOK /\ Ledger /\ SecretLedger /\ InFlight /\ [Next]_vars => InFlight' /\ SecretLedger'
  BY RefinementStep
<1>3. TypeOK /\ Ledger /\ SecretLedger /\ InFlight
        => \A h \in Handlers : At(h, "status", "commit") => req[h].token \notin released
  <2> SUFFICES ASSUME TypeOK, Ledger, SecretLedger, InFlight, NEW h \in Handlers, At(h, "status", "commit")
               PROVE  req[h].token \notin released
    OBVIOUS
  <2>1. req[h].sid \in Sessions /\ req[h].token # 0
    BY DEF TypeOK, Ledger, RequestLedger, CarriedOK, At
  <2> QED BY <2>1 DEF InFlight, SecretLedger, At
<1>4. TypeOK /\ Ledger /\ SecretLedger /\ InFlight =>
        (\A h \in Handlers : At(h, "status", "commit") /\ ~At(h, "status", "commit")'
            /\ req'[h].answer = "PAIRED" => req[h].token \notin released)
  BY <1>3
<1> QED BY <1>1, <1>2, <1>4, TypeCorrect, LedgerCorrect, PTL DEF Spec, ReleasedOnce

-----------------------------------------------------------------------------
(* One session at most waits under the shared demo code *)

DemoInv == OneWaitingDemo /\ DemoFlight

\* Sessions stop waiting, and none begins to.
LEMMA DemoShrinks ==
  ASSUME TypeOK, OneWaitingDemo, WaitingDemo' \subseteq WaitingDemo
  PROVE  OneWaitingDemo'
  BY DEF OneWaitingDemo

LEMMA FewerWaiting ==
  ASSUME \A s \in Sessions : /\ sess'[s].code = sess[s].code
                             /\ sess'[s].status = "WAITING_FOR_PAIR" => sess[s].status = "WAITING_FOR_PAIR"
  PROVE  WaitingDemo' \subseteq WaitingDemo
  BY DEF WaitingDemo

\* The lone handler leaves the part of an init request that depends on who waits.
LEMMA DemoLeaves ==
  ASSUME OneWaitingDemo, WaitingDemo' \subseteq WaitingDemo, TypeOK,
         \A g \in Handlers : ~(req'[g].op = "init" /\ req'[g].step \in {"expire", "insert"})
  PROVE  DemoInv'
  BY DEF DemoInv, DemoFlight, OneWaitingDemo

\* Or keeps it.
LEMMA DemoKeeps ==
  ASSUME DemoInv, WaitingDemo' \subseteq WaitingDemo,
         \A g \in Handlers : /\ req'[g].op = req[g].op /\ req'[g].step = req[g].step
                             /\ req'[g].agent = req[g].agent /\ req'[g].priors = req[g].priors
  PROVE  DemoInv'
  BY DEF DemoInv, DemoFlight, OneWaitingDemo

\* Only an init request puts a session among those that wait.
LEMMA NoneBegins ==
  ASSUME TypeOK, Ledger, [Next]_vars, \A h \in Handlers : ~InsertSession(h)
  PROVE  WaitingDemo' \subseteq WaitingDemo
<1> SUFFICES ASSUME NEW s \in Sessions
             PROVE  /\ sess'[s].code = sess[s].code
                    /\ sess'[s].status = "WAITING_FOR_PAIR" => sess[s].status = "WAITING_FOR_PAIR"
  BY FewerWaiting
<1>1. sess[s] \in Session /\ sess \in [Sessions -> Session]
  BY DEF TypeOK
<1>2. CASE UNCHANGED sess
  BY <1>2
<1>3. CASE \E h \in Handlers : ExpirePriors(h)
  <2>1. sess'[s] \in {sess[s], [sess[s] EXCEPT !.status = "EXPIRED"]}
    BY <1>3 DEF ExpirePriors
  <2> QED BY <1>1, <2>1 DEF Session
<1>4. CASE \E h \in Handlers : ExpireLate(h)
  <2>1. sess'[s] \in {sess[s], [sess[s] EXCEPT !.status = "EXPIRED"]}
    BY <1>1, <1>4 DEF ExpireLate
  <2> QED BY <1>1, <2>1 DEF Session
<1>5. CASE \E h \in Handlers : RegisterAgent(h)
  <2>1. PICK h \in Handlers : RegisterAgent(h)
    BY <1>5
  <2>2. sess'[s] \in {sess[s], [sess[s] EXCEPT !.status = "PAIRED", !.org = req[h].org, !.token = minted + 1]}
    BY <1>1, <2>1 DEF RegisterAgent
  <2> QED BY <1>1, <2>2 DEF Session
<1>6. CASE \E h \in Handlers : ConsumeSession(h)
  <2>1. sess'[s] \in {sess[s], [sess[s] EXCEPT !.status = "CONSUMED", !.token = 0]}
    BY <1>1, <1>6 DEF ConsumeSession
  <2> QED BY <1>1, <2>1 DEF Session
<1>7. CASE \E x \in Sessions : Elapse(x)
  <2>1. sess'[s] \in {sess[s], [sess[s] EXCEPT !.late = TRUE]}
    BY <1>1, <1>7 DEF Elapse
  <2> QED BY <1>1, <2>1 DEF Session
<1>8. \/ UNCHANGED sess
      \/ \E h \in Handlers : \/ ExpirePriors(h) \/ ExpireLate(h)
                             \/ RegisterAgent(h) \/ ConsumeSession(h)
      \/ \E x \in Sessions : Elapse(x)
  <2>1. ASSUME NEW h \in Handlers, ServerStep(h)
        PROVE  \/ UNCHANGED sess
               \/ ExpirePriors(h) \/ ExpireLate(h)
               \/ RegisterAgent(h) \/ ConsumeSession(h)
    BY <2>1 DEF ServerStep, FindPriors, RefuseUnknownCode, RefuseLateCode, RefuseUsedCode, AcceptCode,
                FindAgentRow, RegisterConflict, ReadStatus, ReadLate, ReadPaired, AuthoriseReport, RecordBeat, UpsertDevice, dbVars
  <2>2. ASSUME NEW h \in Handlers, ReplyStep(h) \/ Timeout(h) PROVE UNCHANGED sess
    BY <2>2 DEF ReplyStep, OnInitReply, OnStatusReply, OnHeartbeatReply, OnTelemetryReply, DropReply,
                Timeout, dbVars
  <2>3. ASSUME \/ \E h \in Handlers, a \in Agents : Call(h, a)
               \/ \E h \in Handlers, o \in Orgs, c \in Codes : Submit(h, o, c)
               \/ \E a \in Agents : SaveAuth(a) \/ Crash(a)
               \/ \E a \in Agents, force \in BOOLEAN : Start(a, force)
               \/ \E r \in Orgs \X Agents : GoStale(r)
               \/ ServerCrash \/ UNCHANGED vars
        PROVE  UNCHANGED sess
    BY <2>3 DEF Call, Submit, SaveAuth, Crash, Start, GoStale, ServerCrash, vars, dbVars
  <2> QED BY <2>1, <2>2, <2>3 DEF Next
<1> QED BY <1>2, <1>3, <1>4, <1>5, <1>6, <1>7, <1>8

\* The three steps of an init request that asks for the shared code.
LEMMA DemoInit ==
  ASSUME TypeOK, Ledger, DemoInv, OneAtATime, NEW h \in Handlers,
         FindPriors(h) \/ ExpirePriors(h) \/ InsertSession(h)
  PROVE  DemoInv'
<1>1. req[h] \in Request /\ \A g \in Handlers : g = h
  BY DEF TypeOK, OneAtATime
<1>2. CASE FindPriors(h)
  <2> DEFINE r == [req[h] EXCEPT !.step = "expire", !.priors = WaitingDemo]
  <2>1. Becomes(h, r) /\ UNCHANGED sess
    BY <1>2 DEF FindPriors, WaitingDemo, dbVars
  <2>2. r.step = "expire" /\ r.priors = WaitingDemo
    BY <1>1 DEF Request
  <2>3. req'[h] = r
    BY <2>1 DEF Becomes, TypeOK
  <2>4. WaitingDemo' = WaitingDemo
    BY <2>1 DEF WaitingDemo
  <2> HIDE DEF r
  <2> QED BY <1>1, <2>2, <2>3, <2>4 DEF DemoInv, DemoFlight, OneWaitingDemo
<1>3. CASE ExpirePriors(h)
  <2>1. WaitingDemo' \subseteq WaitingDemo
    <3>1. \A g \in Handlers : ~InsertSession(g)
      BY <1>1, <1>3 DEF ExpirePriors, InsertSession, At
    <3>2. Next
      BY <1>3 DEF Next, ServerStep
    <3> QED BY <3>1, <3>2, NoneBegins
  <2>2. \A s \in WaitingDemo : s \in Sessions /\ sess'[s] = [sess[s] EXCEPT !.status = "EXPIRED"]
    BY <1>3 DEF ExpirePriors, DemoInv, DemoFlight, At, WaitingDemo
  <2>3. ASSUME NEW s \in WaitingDemo PROVE sess'[s].status = "EXPIRED"
    <3>1. sess[s] \in Session
      BY <2>2 DEF TypeOK
    <3> QED BY <2>2, <3>1 DEF Session
  <2>4. WaitingDemo' = {}
    BY <2>1, <2>3 DEF WaitingDemo
  <2> DEFINE r == [req[h] EXCEPT !.step = "insert"]
  <2>5. req'[h] = r
    BY <1>3 DEF ExpirePriors, GoTo, Becomes, TypeOK
  <2>6. r.step = "insert"
    BY <1>1 DEF Request
  <2> HIDE DEF r
  <2> QED BY <1>1, <2>4, <2>5, <2>6 DEF DemoInv, DemoFlight, OneWaitingDemo
<1>4. CASE InsertSession(h)
  <2> DEFINE s == inserted + 1
             n == [NoSession EXCEPT !.status = "WAITING_FOR_PAIR",
                                    !.agent = req[h].agent,
                                    !.code = IF req[h].agent \in DemoAgents THEN DemoCode ELSE s]
             r == [req[h] EXCEPT !.step = "reply", !.answer = "OK", !.sid = s]
  <2>1. s \in Sessions /\ sess' = [sess EXCEPT ![s] = n] /\ Becomes(h, r)
    BY <1>4 DEF InsertSession, TypeOK
  <2>2. n.code = IF req[h].agent \in DemoAgents THEN DemoCode ELSE s
    BY DEF NoSession
  <2>3. r.step = "reply" /\ req'[h] = r
    BY <1>1, <2>1 DEF Request, Becomes, TypeOK
  <2>4. sess'[s] = n /\ \A x \in Sessions \ {s} : sess'[x] = sess[x]
    BY <2>1 DEF TypeOK
  <2>5. s # 0
    BY <2>1
  <2> HIDE DEF s, n, r
  <2>6. CASE req[h].agent \in DemoAgents
    <3>1. WaitingDemo = {}
      BY <1>4, <2>6 DEF DemoInv, DemoFlight, InsertSession, At
    <3>2. WaitingDemo' \subseteq {s}
      BY <2>4, <3>1 DEF WaitingDemo
    <3> QED BY <1>1, <2>3, <3>2 DEF DemoInv, DemoFlight, OneWaitingDemo
  <2>7. CASE req[h].agent \notin DemoAgents
    <3>1. n.code # DemoCode
      BY <2>2, <2>5, <2>7 DEF DemoCode
    <3>2. WaitingDemo' \subseteq WaitingDemo
      BY <2>4, <3>1 DEF WaitingDemo
    <3> QED BY <1>1, <2>3, <3>2 DEF DemoInv, DemoFlight, OneWaitingDemo
  <2> QED BY <2>6, <2>7
<1> QED BY <1>2, <1>3, <1>4

\* The steps after which no init request is between its read and its insert.
LEMMA DemoOver ==
  ASSUME TypeOK, Ledger, DemoInv, OneAtATime, NEW h \in Handlers, WaitingDemo' \subseteq WaitingDemo,
         \/ RefuseUnknownCode(h) \/ RefuseLateCode(h) \/ RefuseUsedCode(h) \/ AcceptCode(h)
         \/ FindAgentRow(h) \/ RegisterConflict(h) \/ RegisterAgent(h)
         \/ ReadStatus(h) \/ ReadLate(h) \/ ExpireLate(h) \/ ReadPaired(h) \/ ConsumeSession(h)
         \/ AuthoriseReport(h) \/ RecordBeat(h) \/ UpsertDevice(h)
         \/ ReplyStep(h) \/ \E o \in Orgs, c \in Codes : Submit(h, o, c)
  PROVE  DemoInv'
<1>1. req[h] \in Request /\ \A g \in Handlers : g = h
  BY DEF TypeOK, OneAtATime
<1>2. ASSUME NEW r, Becomes(h, r), r.step \notin {"expire", "insert"} \/ r.op \in {"pair", "status"}
      PROVE  DemoInv'
  <2>1. req'[h] = r
    BY <1>2 DEF Becomes, TypeOK
  <2> QED BY <1>1, <1>2, <2>1, DemoLeaves DEF DemoInv
<1>3. ASSUME NEW an, Answer(h, an) PROVE DemoInv'
  <2> DEFINE r == [req[h] EXCEPT !.step = "reply", !.answer = an]
  <2>1. r.step = "reply" /\ Becomes(h, r)
    BY <1>1, <1>3 DEF Request, Answer
  <2> HIDE DEF r
  <2> QED BY <1>2, <2>1
<1>4. CASE \/ RefuseUnknownCode(h) \/ RefuseUsedCode(h) \/ RegisterConflict(h)
           \/ ReadStatus(h) \/ ExpireLate(h) \/ ConsumeSession(h) \/ UpsertDevice(h)
  <2>1. \E an : Answer(h, an)
    BY <1>4 DEF RefuseUnknownCode, RefuseUsedCode, RegisterConflict, ReadStatus,
                ExpireLate, ConsumeSession, UpsertDevice
  <2> QED BY <1>3, <2>1
<1>5. CASE AcceptCode(h)
  <2>1. PICK s : Becomes(h, [req[h] EXCEPT !.step = "lookup", !.sid = s])
    BY <1>5 DEF AcceptCode
  <2>2. [req[h] EXCEPT !.step = "lookup", !.sid = s].step = "lookup"
    BY <1>1 DEF Request
  <2> QED BY <1>2, <2>1, <2>2
<1>6. CASE FindAgentRow(h)
  <2>1. PICK known : Becomes(h, [req[h] EXCEPT !.step = "commit", !.known = known])
    BY <1>6 DEF FindAgentRow
  <2>2. [req[h] EXCEPT !.step = "commit", !.known = known].step = "commit"
    BY <1>1 DEF Request
  <2> QED BY <1>2, <2>1, <2>2
<1>7. CASE ReadPaired(h)
  <2>1. PICK t : Becomes(h, [req[h] EXCEPT !.step = "commit", !.token = t])
    BY <1>7 DEF ReadPaired
  <2>2. [req[h] EXCEPT !.step = "commit", !.token = t].step = "commit"
    BY <1>1 DEF Request
  <2> QED BY <1>2, <2>1, <2>2
<1>8. CASE RegisterAgent(h) \/ RecordBeat(h)
  <2>1. Becomes(h, [req[h] EXCEPT !.step = "grid"])
    BY <1>8 DEF RegisterAgent, RecordBeat, GoTo
  <2>2. [req[h] EXCEPT !.step = "grid"].step = "grid"
    BY <1>1 DEF Request
  <2> QED BY <1>2, <2>1, <2>2
<1>9. CASE AuthoriseReport(h)
  <2>1. CASE \E an : Answer(h, an)
    BY <1>3, <2>1
  <2>2. CASE \E o : Becomes(h, [req[h] EXCEPT !.step = "beat", !.org = o])
    <3>1. PICK o : Becomes(h, [req[h] EXCEPT !.step = "beat", !.org = o])
      BY <2>2
    <3>2. [req[h] EXCEPT !.step = "beat", !.org = o].step = "beat"
      BY <1>1 DEF Request
    <3> QED BY <1>2, <3>1, <3>2
  <2> QED BY <1>9, <2>1, <2>2 DEF AuthoriseReport
<1>10. CASE ReplyStep(h)
  <2>1. Becomes(h, Idle)
    BY <1>10 DEF ReplyStep, OnInitReply, OnStatusReply, OnHeartbeatReply, OnTelemetryReply, DropReply, Free
  <2> QED BY <1>2, <2>1 DEF Idle
<1>11. CASE \E o \in Orgs, c \in Codes : Submit(h, o, c)
  <2>1. PICK o \in Orgs, c \in Codes : Submit(h, o, c)
    BY <1>11
  <2> DEFINE r == [Idle EXCEPT !.op = "pair", !.step = "read", !.org = o, !.code = c]
  <2>2. Becomes(h, r) /\ r.step = "read"
    BY <2>1 DEF Submit, Idle
  <2> HIDE DEF r
  <2> QED BY <1>2, <2>2
<1>12. CASE RefuseLateCode(h)
  <2>1. CASE Answer(h, "refused")
    BY <1>3, <2>1
  <2>2. CASE \E s : Becomes(h, [req[h] EXCEPT !.step = "expire", !.sid = s])
    <3>1. PICK s : Becomes(h, [req[h] EXCEPT !.step = "expire", !.sid = s])
      BY <2>2
    <3>2. [req[h] EXCEPT !.step = "expire", !.sid = s].op = "pair"
      BY <1>1, <1>12 DEF Request, RefuseLateCode, At
    <3> QED BY <1>2, <3>1, <3>2
  <2> QED BY <1>12, <2>1, <2>2 DEF RefuseLateCode
<1>13. CASE ReadLate(h)
  <2>1. Becomes(h, [req[h] EXCEPT !.step = "expire"])
    BY <1>13 DEF ReadLate, GoTo
  <2>2. [req[h] EXCEPT !.step = "expire"].op = "status"
    BY <1>1, <1>13 DEF Request, ReadLate, At
  <2> QED BY <1>2, <2>1, <2>2
<1> QED BY <1>4, <1>5, <1>6, <1>7, <1>8, <1>9, <1>10, <1>11, <1>12, <1>13

\* The steps of clients, clocks and crashes.
LEMMA DemoAround ==
  ASSUME TypeOK, DemoInv, OneAtATime, WaitingDemo' \subseteq WaitingDemo,
         \/ \E h \in Handlers : Timeout(h)
         \/ \E h \in Handlers, a \in Agents : Call(h, a)
         \/ \E a \in Agents : SaveAuth(a) \/ Crash(a)
         \/ \E a \in Agents, force \in BOOLEAN : Start(a, force)
         \/ \E s \in Sessions : Elapse(s)
         \/ \E p \in Orgs \X Agents : GoStale(p)
         \/ ServerCrash \/ UNCHANGED vars
  PROVE  DemoInv'
<1> DEFINE Same(g) == /\ req'[g].op = req[g].op /\ req'[g].step = req[g].step
                      /\ req'[g].agent = req[g].agent /\ req'[g].priors = req[g].priors
<1>1. ASSUME \A g \in Handlers : Same(g) PROVE DemoInv'
  BY <1>1, DemoKeeps
<1>2. CASE UNCHANGED req
  BY <1>1, <1>2
<1>3. ASSUME NEW g \in Handlers, req'[g] = [req[g] EXCEPT !.live = FALSE] PROVE Same(g)
  <2>1. req[g] \in Request
    BY DEF TypeOK
  <2> QED BY <1>3, <2>1 DEF Request
<1>4. CASE \E h \in Handlers : Timeout(h)
  <2>1. \A g \in Handlers : req'[g] = [req[g] EXCEPT !.live = FALSE] \/ req'[g] = req[g]
    BY <1>4 DEF Timeout, Becomes, TypeOK
  <2>2. \A g \in Handlers : Same(g)
    BY <1>3, <2>1
  <2> QED BY <1>1, <2>2
<1>5. CASE \E a \in Agents : Crash(a)
  <2>1. \A g \in Handlers : req'[g] = [req[g] EXCEPT !.live = FALSE] \/ req'[g] = req[g]
    BY <1>5 DEF Crash
  <2>2. \A g \in Handlers : Same(g)
    BY <1>3, <2>1
  <2> QED BY <1>1, <2>2
<1>6. CASE ServerCrash
  <2>1. ASSUME NEW g \in Handlers PROVE req'[g].step \in {"idle", "reply"}
    <3>1. req[g] \in Request
      BY DEF TypeOK
    <3>2. PICK r : r = [req[g] EXCEPT !.step = "reply", !.answer = "error"]
      OBVIOUS
    <3>3. r.step = "reply"
      BY <3>1, <3>2 DEF Request
    <3>4. req'[g] = r \/ req'[g] = Idle
      BY <1>6, <3>2 DEF ServerCrash
    <3> QED BY <3>3, <3>4 DEF Idle
  <2> QED BY <2>1, DemoLeaves DEF DemoInv
<1>7. CASE \E h \in Handlers, a \in Agents : Call(h, a)
  <2>1. PICK h \in Handlers, a \in Agents : Call(h, a)
    BY <1>7
  <2> DEFINE r == [Idle EXCEPT !.op = OpOf[phase[a]], !.step = StepOf(a),
                               !.agent = a, !.live = TRUE,
                               !.sid = IF phase[a] = "poll" THEN cur[a] ELSE 0,
                               !.token = IF phase[a] \in {"init", "poll"} THEN 0 ELSE token[a]]
  <2>2. Becomes(h, r)
    BY <2>1 DEF Call
  <2>3. r.step = StepOf(a) /\ r.agent = a
    BY DEF Idle
  <2>4. \A g \in Handlers : req'[g] = r
    BY <2>2 DEF Becomes, OneAtATime, TypeOK
  <2>5. r.step # "expire" /\ (r.step = "insert" => r.agent \notin DemoAgents)
    BY <2>3 DEF StepOf
  <2> HIDE DEF r
  <2> QED BY <2>4, <2>5, DemoShrinks DEF DemoInv, DemoFlight
<1> QED BY <1>2, <1>4, <1>5, <1>6, <1>7 DEF SaveAuth, Start, Elapse, GoStale, vars

LEMMA DemoStep ==
  ASSUME OneAtATime
  PROVE  TypeOK /\ Ledger /\ DemoInv /\ [Next]_vars => DemoInv'
<1> SUFFICES ASSUME TypeOK, Ledger, DemoInv, [Next]_vars PROVE DemoInv'
  OBVIOUS
<1>1. CASE \E h \in Handlers : FindPriors(h) \/ ExpirePriors(h) \/ InsertSession(h)
  BY <1>1, DemoInit
<1>2. CASE \A h \in Handlers : ~FindPriors(h) /\ ~ExpirePriors(h) /\ ~InsertSession(h)
  <2>1. WaitingDemo' \subseteq WaitingDemo
    BY <1>2, NoneBegins
  <2>2. ASSUME NEW h \in Handlers, ServerStep(h) \/ ReplyStep(h) PROVE DemoInv'
    BY <1>2, <2>1, <2>2, DemoOver DEF ServerStep
  <2>3. CASE \E h \in Handlers, o \in Orgs, c \in Codes : Submit(h, o, c)
    BY <2>1, <2>3, DemoOver
  <2> QED BY <2>1, <2>2, <2>3, DemoAround DEF Next
<1> QED BY <1>1, <1>2

\* "Clear prior unconsumed demo sessions" (init_pairing): while requests are
\* served one at a time the code on the screen of a demo agent means one machine.
THEOREM OneDemoWaits ==
    ASSUME OneAtATime
    PROVE  Spec => []OneWaitingDemo
<1>1. Init => DemoInv
  BY DEF Init, DemoInv, OneWaitingDemo, WaitingDemo, DemoFlight, Idle, NoSession
<1>2. TypeOK /\ Ledger /\ DemoInv /\ [Next]_vars => DemoInv'
  BY DemoStep
<1>3. DemoInv => OneWaitingDemo
  BY DEF DemoInv
<1> QED BY <1>1, <1>2, <1>3, TypeCorrect, LedgerCorrect, PTL DEF Spec

=============================================================================
