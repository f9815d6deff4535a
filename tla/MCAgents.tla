------------------------------ MODULE MCAgents ------------------------------
(***************************************************************************)
(* The two endpoint agents in one instance for TLC: a behaviour is one of  *)
(* the desktop agents with their server (EndpointPairing) or one of an     *)
(* Android phone with its server and user (AndroidAgent).  subject says    *)
(* which; the other stays as it began.                                     *)
(***************************************************************************)
EXTENDS EndpointPairing

CONSTANTS MaxAttempts, PhoneFaults

VARIABLES
    subject,
    stage, partner, delivered, accepts, gone, heard, screen, code, task, job, cancelled,
    stored, disk, active, running, beat, carried, stale, shaken

Phone == INSTANCE AndroidAgent WITH MaxFaults <- PhoneFaults, faults <- shaken

phoneVars == <<stage, partner, delivered, accepts, gone, heard, screen, code, task, job, cancelled,
               stored, disk, active, running, beat, carried, stale, shaken>>

AgentsInit == subject \in {"desktop", "android"} /\ Init /\ Phone!PhoneInit
AgentsNext ==
    \/ subject = "desktop" /\ Next /\ UNCHANGED <<subject, phoneVars>>
    \/ subject = "android" /\ Phone!PhoneNext /\ UNCHANGED <<subject, vars>>

\* Each kind's fairness binds its own behaviours.
AgentsSpec ==
    /\ AgentsInit /\ [][AgentsNext]_<<subject, vars, phoneVars>>
    /\ subject = "desktop" => Fairness
    /\ subject = "android" => Phone!PhoneFairness

-----------------------------------------------------------------------------
\* A desktop agent ends up paired after the last fault (perform_pairing_flow) ...
DesktopPaired == subject = "desktop" => EventuallyPaired

\* ... and is shown ONLINE again and again (run_heartbeat_loop).
DesktopReports == subject = "desktop" => KeepsReporting

\* A phone whose user and operators persist ends up paired and heard from
\* (PairingManager, TelemetryManager), whatever was lost, killed or refused before.
PhoneReports == subject = "android" => Phone!PhoneHeard
=============================================================================
