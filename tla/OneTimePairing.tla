--------------------------- MODULE OneTimePairing ---------------------------
(***************************************************************************)
(* What a pairing session promises (models/endpoint.py calls it a          *)
(* "temporary one-time session for pairing an Endpoint Agent with an       *)
(* Organization"): it opens, at most one organisation takes it up, at most *)
(* once its secret is handed over, and a closed session stays closed.      *)
(***************************************************************************)
CONSTANTS Sessions, Orgs, None

VARIABLES
    stage,     \* "none", "open", "paired" or "closed", by session
    partner,   \* the organisation that took it up
    delivered  \* the sessions whose secret was handed over

Init ==
    /\ stage = [s \in Sessions |-> "none"]
    /\ partner = [s \in Sessions |-> None]
    /\ delivered = {}

Open(s) ==
    /\ stage[s] = "none"
    /\ stage' = [stage EXCEPT ![s] = "open"]
    /\ UNCHANGED <<partner, delivered>>

Pair(s, o) ==
    /\ stage[s] = "open"
    /\ stage' = [stage EXCEPT ![s] = "paired"]
    /\ partner' = [partner EXCEPT ![s] = o]
    /\ UNCHANGED delivered

Deliver(s) ==
    /\ stage[s] = "paired"
    /\ stage' = [stage EXCEPT ![s] = "closed"]
    /\ delivered' = delivered \cup {s}
    /\ UNCHANGED partner

\* Sessions lapse, one at a time or all those a newer one supersedes.
Close(S) ==
    /\ \A s \in S : stage[s] \in {"open", "paired"}
    /\ stage' = [s \in Sessions |-> IF s \in S THEN "closed" ELSE stage[s]]
    /\ UNCHANGED <<partner, delivered>>

Next ==
    \/ \E s \in Sessions : Open(s) \/ Deliver(s)
    \/ \E s \in Sessions, o \in Orgs : Pair(s, o)
    \/ \E S \in SUBSET Sessions : Close(S)

Spec == Init /\ [][Next]_<<stage, partner, delivered>>

=============================================================================
