----------------------------- MODULE LiveWatch -----------------------------
(***************************************************************************)
(* The edge agent and the server's live watch together: what the agent     *)
(* posts is what observe and sync_active handle, unless it is lost or      *)
(* refused.  The agent is the host Host; other agents' syncs, also of      *)
(* other organisations and of other networks with the same addresses, are  *)
(* the Payloads.  Both clocks run at the same pace.                        *)
(***************************************************************************)
EXTENDS LiveFeed, WatchAgent

CONSTANT Host  \* --host of the agent

ASSUME LiveAssumption == Host \in Labels /\ Pages \subseteq Sites /\ \A p \in Pages : Site(p) \in Domains

Init == FeedInit /\ WatchInit

\* The agent's sync: its tabs and its processes.
Sync == [host |-> Host, foreign |-> FALSE, tabs |-> loop.tabs, procs |-> TRUE,
         domains |-> {Site(p) : p \in loop.tabs}, dns |-> FALSE]

Agent ==
    \/ \E ok \in BOOLEAN : ReadHistory(ok) /\ UNCHANGED feedVars
    \/ EndOfReports /\ UNCHANGED feedVars
    \/ Collect /\ UNCHANGED feedVars
    \/ \E p \in Pages :
          \/ Skip(p) /\ UNCHANGED feedVars
          \/ Post(p) /\ ((\E k \in Handlers : Observe(k, Host, Site(p))) \/ UNCHANGED feedVars)
    \/ SendSync /\ (SyncActive(Sync) \/ UNCHANGED feedVars)

Around ==
    \/ \E b \in Browsers, p \in Pages :
          \/ Browse(b, p) /\ Pass
          \/ TabReceived(b, p) /\ UNCHANGED feedVars
    \/ Elapse /\ Pass

\* The operator's part is in LiveFeed's own next-state relation.
Server ==
    /\ \/ \E k \in Handlers : LookUp(k) \/ Upsert(k)
       \/ \E q \in Payloads : SyncActive(q)
       \/ ListDevices
       \/ ClearDevices \/ Restart
    /\ UNCHANGED watchVars

Next == Agent \/ Around \/ Server

Spec == Init /\ [][Next]_<<feedVars, watchVars>>

-----------------------------------------------------------------------------
\* A page that the agent was told by its browser extension, or found in its
\* history, before the poll; or that another agent sent as open on its host.
Known(p) == p \in seen.told \/ \E v \in visits : v.page = p
Explained(host, p) ==
    \/ host = Host /\ Known(p)
    \/ \E q \in Payloads : q.host = host /\ p \in q.tabs

\* What the dashboard shows as a row's active tabs are pages that were known on a
\* host with the row's address, of the row's name, or that stands for the server's
\* own row: never a host whose address only looks alike. It need not be the row's
\* own host: list_devices matches by the label alone, so a host of another network
\* or organisation with the same private address has its tabs shown here.
TabsExplained ==
    \A d \in Devices : \A p \in shown[d].tabs : \E host \in Labels :
        /\ Explained(host, p)
        /\ host \in Addresses => host \in {d.ip, d.name} \/ (d.self /\ host \in Local)

\* What makes it inductive: the tabs are explained on their way as well, in the
\* browsers, in the agent's round and in the server's telemetry.
TabsOnTheirWay ==
    /\ \A b \in Browsers : tab[b] # Nil => tab[b].page \in seen.told
    /\ \A p \in loop.tabs : Known(p)
    /\ \A i \in DOMAIN telemetry : \A p \in telemetry[i].tabs : Explained(telemetry[i].host, p)
=============================================================================
