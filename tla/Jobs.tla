--------------------------------- MODULE Jobs ---------------------------------
(***************************************************************************)
(* The two background jobs of the server: a behaviour is one of the alert  *)
(* loop (TelegramAlerts) or one of the autonomous scanner (AutoScan), the  *)
(* other staying as it began.  job says which.  They are two threads that  *)
(* share no variable, and each has a fairness of its own.                  *)
(***************************************************************************)
EXTENDS TelegramAlerts

CONSTANTS OrgOrder, ByIp, Owner, Self, Failing, None

VARIABLES job, config, online, queue, scan

Scanner == INSTANCE AutoScan
ASSUME ScannerRoster == Scanner!Roster

alertVars == <<open, old, known, up, initialDone, alerted, phase, todo, received, lost, assumed,
               crashes, failures, changes>>
scanVars == <<config, online, queue, scan>>
allVars == <<job, alertVars, scanVars>>

JobsInit == job \in {"alerts", "scan"} /\ Init /\ Scanner!Init

Alerting == job = "alerts" /\ Next /\ UNCHANGED scanVars
Scanning == job = "scan" /\ Scanner!Next /\ UNCHANGED alertVars
JobsNext == (Alerting \/ Scanning) /\ UNCHANGED job

\* The fairness of each job, in its own behaviours.
JobsFairness ==
    /\ WF_allVars(job = "alerts" /\ Start /\ UNCHANGED <<job, scanVars>>)
    /\ WF_allVars(job = "alerts" /\ ScanStep /\ UNCHANGED <<job, scanVars>>)
    /\ WF_allVars(job = "scan" /\ Scanner!BeginTick /\ UNCHANGED <<job, alertVars>>)
    /\ WF_allVars(job = "scan" /\ Scanner!RunOnce /\ UNCHANGED <<job, alertVars>>)
    /\ WF_allVars(job = "scan" /\ (Scanner!ScanEnds \/ Scanner!ScanBreaksSession) /\ UNCHANGED <<job, alertVars>>)
    /\ \A o \in Scanner!Orgs : WF_allVars(job = "scan" /\ Scanner!Elapse(o) /\ UNCHANGED <<job, alertVars>>)

JobsSpec == JobsInit /\ [][JobsNext]_allVars /\ JobsFairness

-----------------------------------------------------------------------------
\* AutoScan: what the operator withdraws is not scanned after the tick under way.
WithdrawnByNextTick == job = "scan" => Scanner!WithdrawnByNextTick

\* AutoScan: a device that stays in scope is scanned again and again.
EveryDeviceScanned == job = "scan" => Scanner!EveryDeviceScanned

\* TelegramAlerts: a finding that stays open is reported.
AlertsReported == job = "alerts" => OpenReported
=============================================================================
