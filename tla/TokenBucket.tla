----------------------------- MODULE TokenBucket -----------------------------
(***************************************************************************)
(* TokenBucket of server/app/core/deps.py, the limiter behind ingest, AI   *)
(* and authentication.  check() takes no lock: another request's thread    *)
(* can run wherever it calls something (the clock, the dictionary, min),   *)
(* and each stretch between two calls is a step.  A bucket evicted while a  *)
(* thread holds it is that thread's orphan and takes its writes with it.   *)
(***************************************************************************)
EXTENDS Integers, FiniteSets

CONSTANTS
    Threads, Keys, None,
    Rate, Burst,          \* tokens a tick, and at most
    EvictTTL, Threshold,  \* _EVICT_TTL_SECONDS, _EVICT_THRESHOLD
    MaxNow, MaxChecks     \* bounds: the clock, and calls of check()

VARIABLES
    now,        \* time.monotonic()
    buckets,    \* self.buckets
    call,       \* check() calls in progress
    checks,     \* how many there were
    granted,    \* history: accepted checks of a key whose time is at or after i
    overlapped, \* history: accepted checks of a key during which another check ran
    lag,        \* history: by how much the clock of a new bucket was ahead of its first check
    wronged     \* history: keys refused although no checks ever overlapped, the limit had room and no time passed

Tokens == [tokens : Int, last : 0..MaxNow]
Call == [key : Keys, now : 0..MaxNow, step : {"find", "fill", "store"}, alone : BOOLEAN,
         orphan : Tokens \cup {None}, filled : Int]

\* A bucket that is evicted has been idle for longer than it takes to fill.
BucketAssumption ==
    /\ {Rate, Burst, EvictTTL, MaxNow, MaxChecks} \subseteq Nat
    /\ Burst <= Rate * EvictTTL
    /\ None \notin Tokens \cup Call

bucketVars == <<now, buckets, call, checks, granted, overlapped, lag, wronged>>

BucketTypeOK ==
    /\ now \in 0..MaxNow /\ checks \in 0..MaxChecks
    /\ buckets \in [Keys -> Tokens \cup {None}] /\ call \in [Threads -> Call \cup {None}]
    /\ granted \in [Keys -> [0..(MaxNow + 1) -> Nat]]
    /\ overlapped \in [Keys -> Nat] /\ lag \in [Keys -> Nat] /\ wronged \subseteq Keys

BucketInit ==
    /\ now = 0 /\ buckets = [k \in Keys |-> None] /\ call = [t \in Threads |-> None] /\ checks = 0
    /\ granted = [k \in Keys |-> [i \in 0..(MaxNow + 1) |-> 0]] /\ overlapped = [k \in Keys |-> 0]
    /\ lag = [k \in Keys |-> 0] /\ wronged = {}

Busy == {t \in Threads : call[t] # None}

\* now = time.monotonic()
Check(t, k) ==
    /\ t \notin Busy /\ checks < MaxChecks /\ checks' = checks + 1
    /\ call' = [u \in Threads |->
                  IF u = t THEN [key |-> k, now |-> now, step |-> "find", alone |-> Busy = {}, orphan |-> None, filled |-> 0]
                  ELSE IF u \in Busy THEN [call[u] EXCEPT !.alone = FALSE] ELSE None]
    /\ UNCHANGED <<now, buckets, granted, overlapped, lag, wronged>>

Evicted(at) ==
    LET kept == {k \in Keys : buckets[k] # None}
    IN IF Cardinality(kept) <= Threshold THEN {} ELSE {k \in kept : at - buckets[k].last > EvictTTL}

\* _evict_stale, then the bucket, made on first use with a clock of its own.
Find(t) ==
    /\ t \in Busy /\ call[t].step = "find"
    /\ LET k == call[t].key
           old == Evicted(call[t].now)
           new == k \in old \/ buckets[k] = None
       IN /\ buckets' = [j \in Keys |-> IF j = k /\ new THEN [tokens |-> Burst, last |-> now]
                                        ELSE IF j \in old THEN None ELSE buckets[j]]
          /\ call' = [u \in Threads |->
                        IF u = t THEN [call[t] EXCEPT !.step = "fill"]
                        ELSE IF u \in Busy /\ call[u].step # "find" /\ call[u].orphan = None /\ call[u].key \in old
                             THEN [call[u] EXCEPT !.orphan = buckets[call[u].key]] ELSE call[u]]
          /\ lag' = [lag EXCEPT ![k] = IF new THEN @ + now - call[t].now ELSE @]
    /\ UNCHANGED <<now, checks, granted, overlapped, wronged>>

\* _evict_stale walks a dictionary another thread changes: the request fails.
EvictionRaises(t) ==
    /\ t \in Busy /\ call[t].step = "find" /\ ~call[t].alone
    /\ Cardinality({k \in Keys : buckets[k] # None}) > Threshold
    /\ call' = [call EXCEPT ![t] = None]
    /\ UNCHANGED <<now, buckets, checks, granted, overlapped, lag, wronged>>

\* The refill as min() returns it.
Filled(b, at) == IF b.tokens + (at - b.last) * Rate < Burst THEN b.tokens + (at - b.last) * Rate ELSE Burst
Fill(t) ==
    /\ t \in Busy /\ call[t].step = "fill"
    /\ LET b == IF call[t].orphan = None THEN buckets[call[t].key] ELSE call[t].orphan
       IN call' = [call EXCEPT ![t] = [@ EXCEPT !.step = "store", !.filled = Filled(b, call[t].now)]]
    /\ UNCHANGED <<now, buckets, checks, granted, overlapped, lag, wronged>>

\* The checks of a span of time, and whether one more at its end keeps the limit.
GrantedIn(k, i, j) == granted[k][i] - granted[k][j + 1]
Room(k, at) == \A i \in 0..at : GrantedIn(k, i, at) < Burst + Rate * (at - i - lag[k])

Stored(b, filled, at) == [last |-> at, tokens |-> IF filled < 1 THEN filled ELSE filled - 1]

\* Tokens and time are stored, and the token taken, without a call in between.
Store(t) ==
    /\ t \in Busy /\ call[t].step = "store"
    /\ LET c == call[t] IN
       /\ buckets' = IF c.orphan = None THEN [buckets EXCEPT ![c.key] = Stored(@, c.filled, c.now)] ELSE buckets
       /\ IF c.filled < 1
          THEN /\ wronged' = IF c.alone /\ overlapped[c.key] = 0 /\ c.now = now /\ Room(c.key, now) THEN wronged \cup {c.key} ELSE wronged
               /\ UNCHANGED <<granted, overlapped>>
          ELSE /\ granted' = [granted EXCEPT ![c.key] = [i \in 0..(MaxNow + 1) |->
                                             granted[c.key][i] + IF i <= c.now THEN 1 ELSE 0]]
               /\ overlapped' = [overlapped EXCEPT ![c.key] = IF c.alone THEN @ ELSE @ + 1]
               /\ UNCHANGED wronged
       /\ call' = [call EXCEPT ![t] = None]
    /\ UNCHANGED <<now, checks, lag>>

Tick == now < MaxNow /\ now' = now + 1 /\ UNCHANGED <<buckets, call, checks, granted, overlapped, lag, wronged>>

BucketNext ==
    \/ \E t \in Threads : (\E k \in Keys : Check(t, k)) \/ Find(t) \/ EvictionRaises(t) \/ Fill(t) \/ Store(t)
    \/ Tick

BucketSpec == BucketInit /\ [][BucketNext]_bucketVars

-----------------------------------------------------------------------------
\* A client gets what the limit says: in every span of time no more than a burst
\* and what the span refills, evictions or not, except that each check that ran
\* beside another may be forgotten; and it is never refused while there is room.
RateKept ==
    /\ \A k \in Keys : \A j \in 0..now : \A i \in 0..j :
         GrantedIn(k, i, j) <= Burst + Rate * (j - i) + overlapped[k]
    /\ wronged = {}
=============================================================================
