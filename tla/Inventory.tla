------------------------------ MODULE Inventory ------------------------------
(***************************************************************************)
(* The two inventories of an organisation: a behaviour is one of the       *)
(* device grid (Presence) or one of the estate (Estate: assets, findings   *)
(* and their risk), the other staying as it began.  subject says which.    *)
(* They share no row: a deep scan's result reaches both, the estate by     *)
(* PersistHost and the grid by EndScan.                                    *)
(***************************************************************************)
EXTENDS Presence

CONSTANTS Machines, Gateway, Vulns, ConfigVulns, Critical, High, Assess(_, _, _), Requests,
          Payloads, Scans, Detections, Triage, PatchLevels

VARIABLES subject, asset, finding, links, risk, request, late

Assets == INSTANCE Estate WITH Hosts <- Machines, Handlers <- Requests
ASSUME AssetsKnown == Assets!EstateAssumption /\ Assets!NoneIsNoRow /\ Assets!BoundAssumption

estateVars == <<asset, finding, links, risk, request, late>>
inventoryVars == <<subject, vars, estateVars>>

InventoryInit == subject \in {"estate", "grid"} /\ Init /\ Assets!Init

InventoryNext ==
    /\ \/ subject = "estate" /\ Assets!Next /\ UNCHANGED vars
       \/ subject = "grid" /\ Next /\ UNCHANGED estateVars
    /\ UNCHANGED subject

InventorySpec == InventoryInit /\ [][InventoryNext]_inventoryVars

-----------------------------------------------------------------------------
\* Estate: the stored scores and paths are those of the rows, unless a request that
\* had read too early committed last.
RiskCurrent == Assets!RiskCurrent

\* Estate: nobody but the operator undoes an operator's triage.
TriageStands == Assets!TriageStands
=============================================================================
