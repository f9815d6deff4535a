---------------------------- MODULE ProviderCache ----------------------------
(***************************************************************************)
(* The memo of a reputation provider: ttl_cache of urltrust/providers.py,  *)
(* shared by the requests' threads without a lock.  Every access to the    *)
(* ordered dictionary is a step; the network call lies between two of      *)
(* them.  An access to a key another thread has removed raises KeyError,   *)
(* which nothing catches.                                                  *)
(***************************************************************************)
EXTENDS Naturals, Sequences, FiniteSets, SequencesExt

CONSTANTS
    Threads,
    Urls,
    TTL,         \* ttl_seconds
    MaxEntries,  \* max_entries
    MaxClock,    \* bound
    None

VARIABLES
    clock,
    order,   \* keys of the dictionary, least recently used first
    entry,   \* the entry of a URL: [at, verdict], or None
    call,    \* the call each thread is in, with the entry it has read or stores
    served   \* the last answer: what, as of when, asked when

vars == <<clock, order, entry, call, served>>

Idle == [pc |-> "idle", url |-> None, now |-> 0, held |-> None]
Verdicts == {"clean", "flagged"}
Replies == Verdicts \cup {"error", "unconfigured"}
Entry == [at : Nat, verdict : Verdicts]
Call == [pc : {"idle", "got", "fetch", "store", "move", "trim", "pop"}, url : Urls \cup {None},
         now : Nat, held : Entry \cup {None}]

MemoAssumption == None \notin Entry /\ None \notin Urls /\ {TTL, MaxEntries} \subseteq Nat \ {0} /\ IsFiniteSet(Threads)

MemoType ==
    /\ clock \in Nat /\ order \in Seq(Urls)
    /\ entry \in [Urls -> Entry \cup {None}]
    /\ call \in [Threads -> Call]

Init ==
    /\ clock = 1 /\ order = <<>>
    /\ entry = [u \in Urls |-> None]
    /\ call = [t \in Threads |-> Idle]
    /\ served = None

Return(t, answer, at) ==
    /\ served' = [answer |-> answer, at |-> at, asked |-> call[t].now]
    /\ call' = [call EXCEPT ![t] = Idle]

\* A KeyError ends the analysis.
Raise(t) == Return(t, "raised", 0)

Goes(t, pc) == call' = [call EXCEPT ![t].pc = pc] /\ UNCHANGED served

Ask(t, u) ==
    /\ call[t].pc = "idle"
    /\ call' = [call EXCEPT ![t] = [pc |-> "got", url |-> u, now |-> clock, held |-> entry[u]]]
    /\ UNCHANGED <<clock, order, entry, served>>

Fresh(c) == c.held # None /\ c.now - c.held.at < TTL
Places(u) == {i \in DOMAIN order : order[i] = u}
Moved(u) == \E i \in Places(u) : order' = Append(RemoveAt(order, i), u)

\* A fresh hit is moved to the end and returned.
Hit(t) ==
    LET c == call[t]
    IN /\ c.pc = "got" /\ Fresh(c)
       /\ IF entry[c.url] = None THEN Raise(t) /\ UNCHANGED order
          ELSE Return(t, c.held.verdict, c.held.at) /\ Moved(c.url)
       /\ UNCHANGED <<clock, entry>>

\* What has expired is deleted.
Expire(t) ==
    LET c == call[t]
    IN /\ c.pc = "got" /\ ~Fresh(c)
       /\ IF c.held = None THEN Goes(t, "fetch") /\ UNCHANGED <<order, entry>>
          ELSE IF entry[c.url] = None THEN Raise(t) /\ UNCHANGED <<order, entry>>
          ELSE /\ Goes(t, "fetch") /\ entry' = [entry EXCEPT ![c.url] = None]
               /\ \E i \in Places(c.url) : order' = RemoveAt(order, i)
       /\ UNCHANGED clock

\* The provider's answer: only a verdict is kept, under the time the call began.
Fetch(t, answer) ==
    LET c == call[t]
    IN /\ c.pc = "fetch"
       /\ IF answer \in Verdicts
          THEN call' = [call EXCEPT ![t] = [c EXCEPT !.pc = "store", !.held = [at |-> c.now, verdict |-> answer]]] /\ UNCHANGED served
          ELSE Return(t, answer, c.now)
       /\ UNCHANGED <<clock, order, entry>>

\* A key that is there keeps its place until it is moved.
Store(t) ==
    LET c == call[t]
    IN /\ c.pc = "store" /\ Goes(t, "move")
       /\ entry' = [entry EXCEPT ![c.url] = c.held]
       /\ order' = IF entry[c.url] = None THEN Append(order, c.url) ELSE order
       /\ UNCHANGED clock

Move(t) ==
    LET c == call[t]
    IN /\ c.pc = "move"
       /\ IF entry[c.url] = None THEN Raise(t) /\ UNCHANGED order
          ELSE Goes(t, "trim") /\ Moved(c.url)
       /\ UNCHANGED <<clock, entry>>

Trim(t) ==
    /\ call[t].pc = "trim"
    /\ IF Len(order) > MaxEntries THEN Goes(t, "pop") ELSE Return(t, call[t].held.verdict, call[t].held.at)
    /\ UNCHANGED <<clock, order, entry>>

\* The least recently used entry goes, if others have left one.
Pop(t) ==
    /\ call[t].pc = "pop"
    /\ IF order = <<>> THEN Raise(t) /\ UNCHANGED <<order, entry>>
       ELSE Goes(t, "trim") /\ entry' = [entry EXCEPT ![order[1]] = None] /\ order' = RemoveAt(order, 1)
    /\ UNCHANGED clock

Tick ==
    /\ clock < MaxClock /\ clock' = clock + 1
    /\ UNCHANGED <<order, entry, call, served>>

Next ==
    \/ \E t \in Threads :
          \/ \E u \in Urls : Ask(t, u)
          \/ Hit(t) \/ Expire(t)
          \/ \E a \in Replies : Fetch(t, a)
          \/ Store(t) \/ Move(t) \/ Trim(t) \/ Pop(t)
    \/ Tick

Spec == Init /\ [][Next]_vars

-----------------------------------------------------------------------------
\* However threads delete, move and evict each other's entries, the dictionary and
\* its order agree and hold at most one entry more for each thread that has stored
\* and not made room yet; and who gets a verdict gets one a provider gave (never an
\* error) less than TTL before the question.
Storing == {t \in Threads : call[t].pc \in {"move", "trim", "pop"}}
MemoSound ==
    /\ Len(order) <= MaxEntries + Cardinality(Storing) /\ IsInjective(order)
    /\ ToSet(order) = {u \in Urls : entry[u] # None}
    /\ \A u \in Urls : entry[u] # None => entry[u].verdict \in Verdicts
    /\ served # None /\ served.answer \in Verdicts => served.asked < served.at + TTL
=============================================================================
