----------------------------- MODULE MCInventory -----------------------------
(***************************************************************************)
(* Inventory for TLC: an estate of a gateway and a host; and a grid with   *)
(* two agents that stay where they are, one on one subnet and the other on *)
(* any.                                                                    *)
(***************************************************************************)
EXTENDS Inventory, TLC

CONSTANTS a, gw, c1, n1, h1, h2, s1, s2, g1, g2

\* The engine of RiskGraph is left open: all that it reads is its answer.
MCAssess(assets, findings, connections) ==
    LET known == {h \in Machines : assets[h] # None}
    IN <<{h \in known : assets[h].crit = "critical"}, {h \in known : assets[h].exposed},
         {<<h, v>> \in Machines \X Vulns : findings[h][v] \in {"open", "remediating"}}, connections>>

\* An agent that reports nothing, or one finding and a connection; a deep scan that
\* finds a critical CVE; an analysis that finds a configuration weakness.
Sent(host, reported, to) ==
    [host |-> host, hint |-> None, dmz |-> FALSE, jewel |-> None, reported |-> reported, to |-> to]
MCPayloads == {Sent(a, {}, {}), Sent(a, {c1}, {gw})}
MCScans == {[host |-> a, cves |-> {c1}, gateway |-> TRUE]}
MCDetections == {{<<a, n1>>}}

Interchangeable == Permutations({h1, h2}) \cup Permutations({s1, s2}) \cup Permutations({g1, g2})

\* Where the agents are.
MCInit ==
    /\ InventoryInit
    /\ joined[g1] = {s1}
    /\ subject = "estate" => joined[g2] = {s1}
MCSpec == MCInit /\ [][InventoryNext]_inventoryVars
=============================================================================
