------------------------------ MODULE AiTasks ------------------------------
(***************************************************************************)
(* The AI tasks of the server (services/ai/service.py, client.py and       *)
(* live.block_fix): a request resolves its subject, may be answered by a   *)
(* guard or from what was stored before, asks the model, and stores and    *)
(* answers what the output guard lets through.  Asking the model is where  *)
(* other requests, a recomputation or a new correlation come in between.   *)
(*                                                                         *)
(* Of a text only matters whether it holds a marker of offensive content.  *)
(* What generate gives is any of Answers, or the template when the model    *)
(* cannot be reached; it never raises.                                     *)
(***************************************************************************)
EXTENDS Naturals, Sequences, FiniteSets

CONSTANTS
    Findings,   \* open findings of assets and of endpoints
    Network,    \* those of assets, kept in the database
    Android,    \* those on an Android endpoint
    Marked,     \* findings and paths whose own titles hold a marker
    Paths,      \* attack paths
    Workers,    \* requests that are running
    Kinds,      \* shell, ansible, cloud_cli, manual
    Scripts,    \* all of them but manual
    Answers,    \* what the model may answer: [refused, kind, script, marked]
    MaxRows,    \* bound: remediations of a finding
    None

VARIABLES
    clean,     \* endpoint findings that are NO_CONFIRMED_VULNERABILITY now
    stored,    \* Remediation rows of a finding, oldest first: their answers
    cached,    \* _ENDPOINT_REMEDIATIONS by finding and preferred kind
    narrated,  \* paths: FALSE without a narrative, TRUE with one, None when deleted
    work,      \* what each worker is doing: [task, on, kind, clean]
    reply      \* history: the answer that was given last

aiVars == <<clean, stored, cached, narrated, work, reply>>

Answer == [refused: BOOLEAN, kind: Kinds \cup {None}, script: BOOLEAN, marked: BOOLEAN]
Job == [task: {"remediate"}, on: Findings, kind: Kinds] \cup [task: {"impact"}, on: Paths, kind: {None}]

TasksAssumption == Answers \subseteq Answer /\ Scripts \subseteq Kinds /\ None \notin Kinds

AiTypeOK ==
    /\ clean \subseteq Findings \ Network
    /\ stored \in [Findings -> Seq(Answer)]
    /\ cached \in [Findings -> [Kinds -> Answer \cup {None}]]
    /\ narrated \in [Paths -> BOOLEAN \cup {None}]
    /\ work \in [Workers -> Job \cup {None}]

AiInit ==
    /\ clean \in SUBSET (Findings \ Network)
    /\ stored = [f \in Findings |-> <<>>]
    /\ cached = [f \in Findings |-> [k \in Kinds |-> None]]
    /\ narrated = [p \in Paths |-> FALSE]
    /\ work = [w \in Workers |-> None]
    /\ reply = None

\* from: the guard before the request, what was stored, or the model.
Reply(task, on, asked, from, gave) ==
    reply' = [task |-> task, on |-> on, asked |-> asked, from |-> from, clean |-> on \in clean, gave |-> gave]

\* A guard's answer, the model's refusal, or an error.
Refusal == [refused |-> TRUE, kind |-> None, script |-> FALSE, marked |-> FALSE]

\* The templates name the finding, so they hold the markers its title holds.
Template(f, kind) == [refused |-> FALSE, kind |-> kind, script |-> TRUE, marked |-> f \in Marked]

(***************************************************************************)
(* remediate.                                                              *)
(***************************************************************************)
\* No false patch for a clean finding, and no scripts for Android.
Guarded(f, kind) == f \in clean \/ (f \in Android /\ kind \in Scripts)

\* Mutant: the newest row whatever its kind.
KnownNewest(f, kind) ==
    IF f \notin Network THEN cached[f][kind]
    ELSE IF stored[f] # <<>> THEN stored[f][Len(stored[f])] ELSE None

\* The newest row if it is of the kind that is asked for; endpoint answers by kind.
Known(f, kind) ==
    IF f \notin Network THEN cached[f][kind]
    ELSE IF stored[f] # <<>> /\ stored[f][Len(stored[f])].kind = kind THEN stored[f][Len(stored[f])] ELSE None

Remediate(w, f, kind, regenerate) ==
    /\ work[w] = None
    /\ CASE Guarded(f, kind) ->
              Reply("remediate", f, kind, "guard", Refusal) /\ UNCHANGED work
         [] ~Guarded(f, kind) /\ ~regenerate /\ Known(f, kind) # None ->
              Reply("remediate", f, kind, "store", Known(f, kind)) /\ UNCHANGED work
         [] OTHER ->
              /\ work' = [work EXCEPT ![w] = [task |-> "remediate", on |-> f, kind |-> kind]]
              /\ UNCHANGED reply
    /\ UNCHANGED <<clean, stored, cached, narrated>>

\* A refusal of the model, an answer without a script, the output guard over
\* title, summary and script, and then the row or the entry.
Remediated(w, said) ==
    /\ work[w] # None /\ work[w].task = "remediate"
    /\ LET f == work[w].on
           asked == work[w].kind
           data == IF said.script THEN said ELSE Template(f, asked)
           kept == IF data.kind = None THEN [data EXCEPT !.kind = asked] ELSE data
       IN IF said.refused \/ data.marked
          THEN Reply("remediate", f, asked, "model", Refusal) /\ UNCHANGED <<stored, cached>>
          ELSE /\ Reply("remediate", f, asked, "model", kept)
               /\ IF f \in Network
                  THEN Len(stored[f]) < MaxRows /\ stored' = [stored EXCEPT ![f] = Append(@, kept)]
                                                /\ UNCHANGED cached
                  ELSE cached' = [cached EXCEPT ![f][asked] = kept] /\ UNCHANGED stored
    /\ work' = [work EXCEPT ![w] = None]
    /\ UNCHANGED <<clean, narrated>>

(***************************************************************************)
(* impact, predict and block_fix.                                          *)
(***************************************************************************)
\* The path is read, and its narrative written when the model has answered; a path
\* a recomputation has deleted meanwhile fails the request.
Impact(w, p) ==
    /\ work[w] = None /\ narrated[p] # None
    /\ work' = [work EXCEPT ![w] = [task |-> "impact", on |-> p, kind |-> None]]
    /\ UNCHANGED <<clean, stored, cached, narrated, reply>>

Explained(w, said) ==
    /\ work[w] # None /\ work[w].task = "impact"
    /\ LET p == work[w].on
           gave == IF said.refused \/ said.marked \/ narrated[p] = None THEN Refusal ELSE said
       IN /\ Reply("impact", p, None, "model", gave)
          /\ narrated' = IF ~gave.refused THEN [narrated EXCEPT ![p] = TRUE] ELSE narrated
    /\ work' = [work EXCEPT ![w] = None]
    /\ UNCHANGED <<clean, stored, cached>>

\* predict and block_fix store nothing.  predict replaces what does not fit its
\* schema by the template and guards the rest; block_fix has no guard.
Predict(f, said) ==
    /\ LET data == IF said.script THEN said ELSE Template(f, None)
       IN Reply("predict", f, None, "model", IF said.refused \/ (said.script /\ data.marked) THEN Refusal ELSE data)
    /\ UNCHANGED <<clean, stored, cached, narrated, work>>

BlockFix(said) ==
    /\ Reply("block", None, None, "model", IF said.refused THEN Refusal ELSE said)
    /\ UNCHANGED <<clean, stored, cached, narrated, work>>

(***************************************************************************)
(* Around.                                                                 *)
(***************************************************************************)
Correlate(f) ==
    /\ f \notin Network
    /\ clean' = IF f \in clean THEN clean \ {f} ELSE clean \cup {f}
    /\ UNCHANGED <<stored, cached, narrated, work, reply>>

Recompute ==
    /\ narrated' = [p \in Paths |-> None]
    /\ UNCHANGED <<clean, stored, cached, work, reply>>

\* The process restarts: the rows stay, the entries of endpoint findings do not.
AiRestart ==
    /\ cached' = [f \in Findings |-> [k \in Kinds |-> None]]
    /\ work' = [w \in Workers |-> None]
    /\ UNCHANGED <<clean, stored, narrated, reply>>

AiNext ==
    \/ \E w \in Workers :
          \/ \E f \in Findings, k \in Kinds, again \in BOOLEAN : Remediate(w, f, k, again)
          \/ \E said \in Answers : Remediated(w, said)
          \/ work[w] # None /\ work[w].task = "remediate" /\ Remediated(w, Template(work[w].on, work[w].kind))
          \/ \E p \in Paths : Impact(w, p)
          \/ \E said \in Answers : Explained(w, said)
          \/ work[w] # None /\ work[w].task = "impact" /\ Explained(w, Template(work[w].on, None))
    \/ \E f \in Findings, said \in Answers : Predict(f, said)
    \/ \E said \in Answers : BlockFix(said)
    \/ \E f \in Findings : Correlate(f)
    \/ Recompute
    \/ AiRestart

AiSpec == AiInit /\ [][AiNext]_aiVars

-----------------------------------------------------------------------------
\* Nothing that is stored, cached or answered to remediate and impact holds a marker in
\* the texts the output guard reads, whichever request stored it.  What is answered without
\* asking the model is for a finding that is not clean by then, whatever was stored for it
\* before; and for an asset's finding it is of the kind that was asked for, although
\* the model may have answered, and the row may hold, another kind than the request
\* that stored it asked for.
DefensiveOnly ==
    /\ \A f \in Findings : \A i \in DOMAIN stored[f] : ~stored[f][i].marked
    /\ \A f \in Findings, k \in Kinds : cached[f][k] # None => ~cached[f][k].marked
    /\ reply # None /\ ~reply.gave.refused =>
          /\ reply.task \in {"remediate", "impact"} => ~reply.gave.marked
          /\ reply.from = "store" =>
                ~reply.clean /\ (reply.on \in Network => reply.gave.kind = reply.asked)
=============================================================================
