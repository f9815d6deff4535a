----------------------------- MODULE WatchAgent -----------------------------
(***************************************************************************)
(* The edge agent's browser watchers (agent/drishti_watch.py): history     *)
(* mode polls the browsers' history databases and reports what is new,     *)
(* conn mode merges the tabs of the browser extension with recent history, *)
(* reports their domains and then syncs all of it.  Both report through a  *)
(* Reporter with a cooldown.                                               *)
(*                                                                         *)
(* The loops are sequential: a POST is a step, and the agent goes on with  *)
(* its answer or without.  What a POST does to the server is left to       *)
(* LiveWatch.  Visits have distinct times (microseconds in the database).  *)
(***************************************************************************)
EXTENDS Naturals, Sequences, FiniteSets

CONSTANTS
    Browsers,
    Dbs,           \* _history_dbs: the browsers as a sequence
    Pages,         \* pages a browser shows
    Registrable(_),\* registrable: the domain of a page, None for noise
    Named(_),      \* the domain the extension gives with a page, which it does not shorten
    MaxRows,       \* LIMIT 50
    MaxTabs,       \* max_tabs of the history merge
    ExtensionTTL,  \* ttl_seconds of _get_active_browser_tabs
    Cooldown,      \* of the Reporter
    Nil

ASSUME WatchAssumption ==
    /\ Dbs \in Seq(Browsers)
    /\ {MaxRows, MaxTabs, ExtensionTTL, Cooldown} \subseteq Nat

VARIABLES
    clock,
    visits,    \* rows of the history databases: [browser, page, at]
    tab,       \* _ACTIVE_TABS_BY_BROWSER: [page, at], Nil without one
    loop,      \* where the agent's loop is
    lastSeen,  \* Reporter._seen: when a domain was last sent, 0 if never
    seen       \* history: visits that were read, and pages the extension told

watchVars == <<clock, visits, tab, loop, lastSeen, seen>>

Visit == [browser: Browsers, page: Pages, at: Nat]

\* What is reported for a page: its registrable domain, or its host as it is.
Site(p) == IF Registrable(p) = Nil THEN p ELSE Registrable(p)

WatchInit ==
    /\ clock = 1
    /\ visits \in {{}} \cup {{[browser |-> b, page |-> p, at |-> 1]} : b \in Browsers, p \in Pages}
    /\ tab = [b \in Browsers |-> Nil]
    \* primed: only what comes after the newest visit is reported
    /\ \E mode \in {"history", "conn"} :
          loop = [mode |-> mode, pc |-> "poll", dbs |-> Dbs, last |-> IF visits = {} THEN 0 ELSE 1,
                  todo |-> {}, tabs |-> {}]
    /\ lastSeen = [p \in Pages |-> 0]
    /\ seen = [read |-> visits, told |-> {}]

(***************************************************************************)
(* The browsers.                                                           *)
(***************************************************************************)
Browse(b, p) ==
    /\ clock' = clock + 1
    /\ visits' = visits \cup {[browser |-> b, page |-> p, at |-> clock']}
    /\ UNCHANGED <<tab, loop, lastSeen, seen>>

\* do_POST of the loopback receiver.
TabReceived(b, p) ==
    /\ tab' = [tab EXCEPT ![b] = [page |-> p, at |-> clock]]
    /\ seen' = [seen EXCEPT !.told = @ \cup {p}]
    /\ UNCHANGED <<clock, visits, loop, lastSeen>>

(***************************************************************************)
(* History mode: one database after the other is asked for the newest rows *)
(* beyond last_ts, which is one for all of them.                           *)
(***************************************************************************)
Newest(vs, n) == {v \in vs : Cardinality({w \in vs : w.at > v.at}) < n}
Rows(b) == Newest({v \in visits : v.browser = b /\ v.at > loop.last}, MaxRows)
\* Mutant: the time of the poll, not of the newest row.
LatestPoll(vs, last) == clock
Latest(vs, last) == CHOOSE m \in {last} \cup {v.at : v \in vs} : \A n \in {last} \cup {v.at : v \in vs} : n <= m

ReadHistory(ok) ==
    /\ loop.mode = "history" /\ loop.pc = "poll" /\ loop.dbs # <<>>
    /\ LET rows == IF ok THEN Rows(Head(loop.dbs)) ELSE {}
       IN /\ loop' = [loop EXCEPT !.pc = "report", !.dbs = Tail(@), !.last = Latest(rows, @),
                         !.todo = {v.page : v \in {w \in rows : Registrable(w.page) # Nil}}]
          /\ seen' = [seen EXCEPT !.read = @ \cup rows]
    /\ UNCHANGED <<clock, visits, tab, lastSeen>>

\* The next database, or the next round after a sleep.
EndOfReports ==
    /\ loop.pc = "report" /\ loop.todo = {}
    /\ loop' = CASE loop.mode = "conn" -> [loop EXCEPT !.pc = "sync"]
                 [] loop.mode = "history" /\ loop.dbs # <<>> -> [loop EXCEPT !.pc = "poll"]
                 [] OTHER -> [loop EXCEPT !.pc = "poll", !.dbs = Dbs]
    /\ UNCHANGED <<clock, visits, tab, lastSeen, seen>>

(***************************************************************************)
(* Conn mode: the extension's tabs that are fresh, then, one database      *)
(* after the other, the latest page of each site no such tab is named by.  *)
(***************************************************************************)
Fresh(b) == tab[b] # Nil /\ clock - tab[b].at <= ExtensionTTL
ExtensionTabs == {tab[b].page : b \in {x \in Browsers : Fresh(x)}}

NewSites(b, pages) ==
    {v \in visits : /\ v.browser = b
                    /\ \A p \in pages : Site(p) # Site(v.page)
                    /\ \A w \in visits : w.browser = b /\ Site(w.page) = Site(v.page) => w.at <= v.at}
Merged(pages, b) == pages \cup {v.page : v \in Newest(NewSites(b, pages), MaxTabs - Cardinality(pages))}
\* The first n databases.
MergedOf[n \in 0..Len(Dbs)] == IF n = 0 THEN {} ELSE Merged(MergedOf[n - 1], Dbs[n])
HistoryTabs == MergedOf[Len(Dbs)]
ActiveTabs ==
    ExtensionTabs \cup {p \in HistoryTabs : \A q \in ExtensionTabs : Site(p) # Named(q)}

Collect ==
    /\ loop.mode = "conn" /\ loop.pc = "poll"
    /\ tab' = [b \in Browsers |-> IF Fresh(b) THEN tab[b] ELSE Nil]
    /\ loop' = [loop EXCEPT !.pc = "report", !.tabs = ActiveTabs, !.todo = ActiveTabs]
    /\ UNCHANGED <<clock, visits, lastSeen, seen>>

(***************************************************************************)
(* Reporter.report: nothing is sent within the cooldown; otherwise the     *)
(* time is kept before the POST, whatever becomes of it.                   *)
(***************************************************************************)
Due(p) == lastSeen[p] = 0 \/ clock - lastSeen[p] >= Cooldown

Skip(p) ==
    /\ loop.pc = "report" /\ p \in loop.todo /\ ~Due(p)
    /\ loop' = [loop EXCEPT !.todo = @ \ {p}]
    /\ UNCHANGED <<clock, visits, tab, lastSeen, seen>>

Post(p) ==
    /\ loop.pc = "report" /\ p \in loop.todo /\ Due(p)
    /\ loop' = [loop EXCEPT !.todo = @ \ {p}]
    /\ lastSeen' = [q \in Pages |-> IF Site(q) = Site(p) THEN clock ELSE lastSeen[q]]
    /\ UNCHANGED <<clock, visits, tab, seen>>

\* sync_active, and the end of the round.
SendSync ==
    /\ loop.pc = "sync"
    /\ loop' = [loop EXCEPT !.pc = "poll"]
    /\ UNCHANGED <<clock, visits, tab, lastSeen, seen>>

Elapse ==
    /\ clock' = clock + 1
    /\ UNCHANGED <<visits, tab, loop, lastSeen, seen>>

-----------------------------------------------------------------------------
WatchType ==
    /\ clock \in Nat
    /\ visits \subseteq Visit /\ IsFiniteSet(visits)
    /\ tab \in [Browsers -> [page : Pages, at : Nat] \cup {Nil}]
    /\ loop \in [mode : {"history", "conn"}, pc : {"poll", "report", "sync"}, dbs : Seq(Browsers), last : Nat,
                 todo : SUBSET Pages, tabs : SUBSET Pages]
    /\ lastSeen \in [Pages -> Nat]
    /\ seen \in [read : SUBSET Visit, told : SUBSET Pages]

\* Passed over: a visit after the start that no poll will ask for again.
Missed == {v \in visits : v.at <= loop.last /\ v \notin seen.read}

\* A visit is passed over only for a newer one of another browser that was read, or
\* because MaxRows newer ones of its own browser were, as many as one query returns.
MissedForAReason ==
    loop.mode = "history" =>
    \A v \in Missed :
        \/ \E w \in seen.read : w.browser # v.browser /\ w.at > v.at
        \/ Cardinality({w \in seen.read : w.browser = v.browser /\ w.at > v.at}) >= MaxRows

\* What makes it inductive: each point of time has at most one visit, what was
\* read is among them, and neither a visit nor the mark of the poll is in the future.
PollsInOrder ==
    /\ \A v, w \in visits : v.at = w.at => v = w
    /\ \A v \in visits : v.at <= clock
    /\ seen.read \subseteq visits
    /\ loop.last <= clock
=============================================================================
