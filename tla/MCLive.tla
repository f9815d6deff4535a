------------------------------- MODULE MCLive -------------------------------
(***************************************************************************)
(* An instance of LiveWatch for TLC: the agent on ip1 with two browsers,   *)
(* another agent's syncs from ip2, an agent of another organisation whose  *)
(* network has the address ip1 as well, and three rows of the grid.        *)
(***************************************************************************)
EXTENDS LiveWatch

CONSTANTS ip1, ip2, b1, b2, p1, p2

Row(ip, net) == [ip |-> ip, net |-> net, name |-> None, self |-> FALSE]
MCDevices == {Row(ip1, 1), Row(ip2, 1), Row(ip1, 2)}
Other(host, foreign, page) ==
    [host |-> host, foreign |-> foreign, tabs |-> {page}, procs |-> TRUE, domains |-> {}, dns |-> FALSE]
MCPayloads == {Other(ip2, FALSE, p1), Other(ip1, TRUE, p2)}
\* As text one address contains the other, as 10.0.0.12 contains 10.0.0.1.
MCIncludes(a, b) == TRUE
MCDbs == <<b1, b2>>
MCRegistrable(p) == p
MCNamed(p) == p

\* Bounds: history mode needs three points of time for visits to two databases
\* and has no part in the telemetry; conn mode needs two for tabs to expire.
Bounds == IF loop.mode = "history" THEN telemetry = <<>> ELSE time <= 2

MCInit == Init /\ consent = None
MCNext == Next /\ Bounds'
MCSpec == MCInit /\ [][MCNext]_<<feedVars, watchVars>>
=============================================================================
