---------------------------- MODULE AndroidAgent ----------------------------
(***************************************************************************)
(* The Android agent: PairingManager (its init coroutine and its polling   *)
(* job), SecureStorage, HeartbeatManager, TelemetryManager, the foreground *)
(* service that starts and stops those two, and the buttons of             *)
(* MainActivity.  The server's pairing sessions are those of               *)
(* OneTimePairing.                                                         *)
(*                                                                         *)
(* An attempt is a call of initiatePairing that gets to its coroutine, its *)
(* session and its token: each has its number.  Coroutines run beside the  *)
(* main thread and are cancelled cooperatively: a cancelled one ends at    *)
(* its next suspension, not before.  A method of the main thread is a step.*)
(***************************************************************************)
EXTENDS Naturals

CONSTANTS
    Orgs,         \* organisations whose operators enter codes
    None,
    MaxAttempts,  \* bound: attempts ever made
    MaxFaults     \* bound: lost answers, lapsed sessions, killed processes, changed servers,
                  \* and buttons pressed without need

Attempts == 1..MaxAttempts
Screens == {"Unpaired", "Initializing", "Waiting", "Connecting", "Paired", "Connected", "Offline", "Expired"}
Tasks == {"none", "call", "opened", "launch", "delay", "ask", "answered", "save", "settle", "awake", "done"}

VARIABLES
    stage, partner, delivered,  \* the server's sessions (OneTimePairing)
    accepts,    \* by organisation: the attempt whose token its endpoint_agents row accepts
    gone,       \* sessions the server the phone now talks to does not know
    heard,      \* whether the server shows the phone ONLINE (a recent last_heartbeat)
    screen,     \* PairingManager.uiState
    code,       \* the session whose code it shows
    task,       \* the coroutine of each attempt: init, then polling
    job,        \* PairingManager.pollingJob
    cancelled,  \* polling jobs cancelled so far
    stored,     \* the token in the preferences, in memory
    disk,       \* ... and in their file: apply() writes it later
    active,     \* MainActivity.isServiceActive
    running,    \* whether the foreground service runs, and with it telemetryJob
    beat,       \* heartbeatJob: "off" (none, or ended), "loop" or "sent"
    carried,    \* the token its request carries
    stale,      \* tokens of requests under way when their job was cancelled
    faults

serverVars  == <<stage, partner, delivered, accepts, gone>>
pairVars    == <<screen, code, task, job, cancelled>>
storeVars   == <<stored, disk>>
serviceVars == <<active, running, beat, carried, stale>>
phoneVars   == <<serverVars, heard, pairVars, storeVars, serviceVars, faults>>

Server == INSTANCE OneTimePairing WITH Sessions <- Attempts

PhoneInit ==
    /\ Server!Init
    /\ accepts = [o \in Orgs |-> 0] /\ gone = {} /\ heard = FALSE
    /\ screen = "Unpaired" /\ code = 0
    /\ task = [n \in Attempts |-> "none"] /\ job = 0 /\ cancelled = {}
    /\ stored = 0 /\ disk = 0
    /\ active = FALSE /\ running = FALSE
    /\ beat = "off" /\ carried = 0 /\ stale = {}
    /\ faults = 0

Fault == faults < MaxFaults /\ faults' = faults + 1
Valid(t) == t # 0 /\ \E o \in Orgs : accepts[o] = t
Goto(n, step) == task' = [task EXCEPT ![n] = step]
Show(s) == screen' = s /\ UNCHANGED code

-----------------------------------------------------------------------------
(* The buttons: initiatePairing, forceRePair. *)

\* initiatePairing, once isPaired() said no: the job is cancelled, a coroutine launched.
Launch(n) ==
    /\ task[n] = "none" /\ \A m \in 1..(n - 1) : task[m] # "none"
    /\ cancelled' = cancelled \cup ({job} \ {0})
    /\ Goto(n, "call") /\ Show("Initializing")

Initiate(n) ==
    /\ screen \in {"Unpaired", "Expired"}
    /\ IF stored # 0 THEN Show("Connected") /\ UNCHANGED <<task, cancelled>> ELSE Launch(n)
    /\ UNCHANGED <<serverVars, heard, job, storeVars, serviceVars, faults>>

\* A user has to press it when the last attempt failed or the token is refused, and
\* no coroutine is about to change the screen.
NeedsRePair ==
    /\ ~Valid(stored) /\ screen \in {"Paired", "Connected", "Offline"}
    /\ \A n \in Attempts : task[n] \in {"none", "delay", "ask", "done"}

ForceRePair(n) ==
    /\ screen \in {"Paired", "Connected", "Offline"}
    /\ IF NeedsRePair THEN UNCHANGED faults ELSE Fault
    /\ Launch(n) /\ job' = 0 /\ stored' = 0
    /\ UNCHANGED <<serverVars, heard, disk, serviceVars>>

-----------------------------------------------------------------------------
(* The coroutine of initiatePairing. *)

OpenSession(n) ==
    /\ task[n] = "call" /\ Server!Open(n) /\ Goto(n, "opened")
    /\ UNCHANGED <<accepts, gone, heard, screen, code, job, cancelled, storeVars, serviceVars, faults>>

\* The call fails, or its answer is lost: TransportException.
InitFails(n) ==
    /\ task[n] \in {"call", "opened"} /\ Fault
    /\ Goto(n, "done") /\ Show("Offline")
    /\ UNCHANGED <<serverVars, heard, job, cancelled, storeVars, serviceVars>>

ShowCode(n) ==
    /\ task[n] = "opened" /\ Goto(n, "launch")
    /\ screen' = "Waiting" /\ code' = n
    /\ UNCHANGED <<serverVars, heard, job, cancelled, storeVars, serviceVars, faults>>

StartPolling(n) ==
    /\ task[n] = "launch" /\ Goto(n, "delay") /\ job' = n
    /\ UNCHANGED <<serverVars, heard, screen, code, cancelled, storeVars, serviceVars, faults>>

-----------------------------------------------------------------------------
(* The polling job. *)

\* delay() and the call throw in a cancelled job; the loop then sees isActive.
EndCancelled(n) ==
    /\ n \in cancelled /\ task[n] \in {"delay", "ask", "answered", "settle"}
    /\ Goto(n, "done")
    /\ UNCHANGED <<serverVars, heard, screen, code, job, cancelled, storeVars, serviceVars, faults>>

Poll(n) ==
    /\ task[n] = "delay" /\ n \notin cancelled /\ Goto(n, "ask")
    /\ UNCHANGED <<serverVars, heard, screen, code, job, cancelled, storeVars, serviceVars, faults>>

\* WAITING_FOR_PAIR, CONSUMED (no branch of the when) and 404 (an exception) poll on.
PollOn(n) ==
    /\ task[n] = "ask" /\ n \notin cancelled
    /\ n \in gone \/ stage[n] = "open" \/ n \in delivered
    /\ Goto(n, "delay")
    /\ UNCHANGED <<serverVars, heard, screen, code, job, cancelled, storeVars, serviceVars, faults>>

Expire(n) ==
    /\ task[n] = "ask" /\ n \notin cancelled \cup gone
    /\ stage[n] = "closed" /\ n \notin delivered
    /\ Goto(n, "done") /\ Show("Expired")
    /\ UNCHANGED <<serverVars, heard, job, cancelled, storeVars, serviceVars, faults>>

\* The server releases the token, whether or not the answer arrives.
Release(n) ==
    /\ task[n] = "ask" /\ n \notin gone
    /\ Server!Deliver(n) /\ Goto(n, "answered")
    /\ UNCHANGED <<accepts, gone, heard, screen, code, job, cancelled, storeVars, serviceVars, faults>>

LoseAnswer(n) ==
    /\ task[n] = "answered" /\ n \notin cancelled /\ Fault /\ Goto(n, "delay")
    /\ UNCHANGED <<serverVars, heard, screen, code, job, cancelled, storeVars, serviceVars>>

TakeToken(n) ==
    /\ task[n] = "answered" /\ n \notin cancelled
    /\ Goto(n, "save") /\ Show("Connecting")
    /\ UNCHANGED <<serverVars, heard, job, cancelled, storeVars, serviceVars, faults>>

\* No suspension before saveAuth: a job cancelled meanwhile saves its token as well.
SaveAuth(n) ==
    /\ task[n] = "save" /\ Goto(n, "settle")
    /\ stored' = n /\ Show("Paired")
    /\ UNCHANGED <<serverVars, heard, job, cancelled, disk, serviceVars, faults>>

\* delay(300), and after it Connected, also if a forced re-pairing came in between.
Settle(n) ==
    /\ \/ task[n] = "settle" /\ n \notin cancelled /\ Goto(n, "awake") /\ UNCHANGED <<screen, code>>
       \/ task[n] = "awake" /\ Goto(n, "done") /\ Show("Connected")
    /\ UNCHANGED <<serverVars, heard, job, cancelled, storeVars, serviceVars, faults>>

-----------------------------------------------------------------------------
(* HeartbeatManager and TelemetryManager. *)

\* Without a token the loop idles.
Beat ==
    /\ beat = "loop" /\ stored # 0
    /\ beat' = "sent" /\ carried' = stored
    /\ UNCHANGED <<serverVars, heard, pairVars, storeVars, active, running, stale, faults>>

\* ACK; or 401, on which the job forgets whatever token there is by now, and ends.
BeatAnswered ==
    /\ beat = "sent" /\ carried' = 0
    /\ IF Valid(carried) THEN beat' = "loop" /\ heard' = TRUE /\ UNCHANGED stored
       ELSE beat' = "off" /\ stored' = 0 /\ UNCHANGED heard
    /\ UNCHANGED <<serverVars, pairVars, disk, active, running, stale, faults>>

\* The request of a cancelled job: a 401 outweighs its cancellation.
StaleAnswered(t) ==
    /\ t \in stale /\ stale' = stale \ {t}
    /\ IF Valid(t) THEN heard' = TRUE /\ UNCHANGED stored ELSE stored' = 0 /\ UNCHANGED heard
    /\ UNCHANGED <<serverVars, pairVars, disk, active, running, beat, carried, faults>>

\* Mutant of Upload: only a service whose heartbeats go on uploads.
UploadWithBeat ==
    /\ running /\ beat # "off" /\ Valid(stored) /\ heard' = TRUE
    /\ UNCHANGED <<serverVars, pairVars, storeVars, serviceVars, faults>>

\* telemetryJob reads the token anew each time and ignores a refusal.
Upload ==
    /\ running /\ Valid(stored) /\ heard' = TRUE
    /\ UNCHANGED <<serverVars, pairVars, storeVars, serviceVars, faults>>

-----------------------------------------------------------------------------
(* EndpointForegroundService and MainActivity. *)

\* onStartCommand: HeartbeatManager.start() unless its job is active.
StartService ==
    /\ running' = TRUE /\ active' = TRUE
    /\ beat' = IF beat = "off" THEN "loop" ELSE beat
    /\ UNCHANGED <<carried, stale>>

\* onDestroy: both jobs are cancelled, a heartbeat's request goes on.
StopService ==
    /\ running' = FALSE /\ beat' = "off" /\ carried' = 0
    /\ stale' = IF beat = "sent" THEN stale \cup {carried} ELSE stale

\* updatePairingUi starts the service when it draws Paired or Connected, and the
\* button does; both go by isServiceActive.
TurnOn ==
    /\ ~active /\ StartService
    /\ IF screen \in {"Paired", "Connected"} THEN UNCHANGED faults ELSE Fault
    /\ UNCHANGED <<serverVars, heard, pairVars, storeVars>>

TurnOff ==
    /\ active /\ StopService /\ active' = FALSE
    /\ IF running THEN Fault ELSE UNCHANGED faults
    /\ UNCHANGED <<serverVars, heard, pairVars, storeVars>>

\* The notification's Stop leaves isServiceActive set.
StopFromNotification ==
    /\ running /\ StopService /\ Fault
    /\ UNCHANGED <<serverVars, heard, pairVars, storeVars, active>>

\* A new activity (a rotation, say) has a flag of its own.
Recreate ==
    /\ active /\ active' = FALSE /\ Fault
    /\ UNCHANGED <<serverVars, heard, pairVars, storeVars, running, beat, carried, stale>>

-----------------------------------------------------------------------------
(* The process, the server and its operators. *)

Flush ==
    /\ disk' = stored
    /\ UNCHANGED <<serverVars, heard, pairVars, stored, serviceVars, faults>>

\* Nothing but a restart takes a code off the screen whose session answers no more.
Stuck == screen = "Waiting" /\ (code \in gone \/ (code \in delivered /\ task[code] \in {"delay", "ask", "done"}))

\* A process that dies loses its coroutines and what apply() has not written; the
\* service is sticky.
Kill ==
    /\ IF Stuck THEN UNCHANGED faults ELSE Fault
    /\ task' = [n \in Attempts |-> IF task[n] = "none" THEN "none" ELSE "done"]
    /\ job' = 0 /\ cancelled' = {} /\ code' = 0
    /\ stored' = disk /\ screen' = IF disk # 0 THEN "Connected" ELSE "Unpaired"
    /\ active' = FALSE /\ carried' = 0 /\ stale' = {}
    /\ running' \in {running, FALSE} /\ beat' = IF running' THEN "loop" ELSE "off"
    /\ UNCHANGED <<serverVars, heard, disk>>

\* submit_pairing: the row of the organisation takes the new token.
EnterCode(n, o) ==
    /\ screen = "Waiting" /\ code = n /\ n \notin gone
    /\ Server!Pair(n, o) /\ accepts' = [accepts EXCEPT ![o] = n]
    /\ UNCHANGED <<gone, heard, pairVars, storeVars, serviceVars, faults>>

\* A session runs out, is superseded (the demo code), or is expired by a late submit.
Lapse(n) ==
    /\ Server!Close({n}) /\ Fault
    /\ UNCHANGED <<accepts, gone, heard, pairVars, storeVars, serviceVars>>

\* setServerUrl, or a database that was set up anew.
ChangeServer ==
    /\ Fault /\ gone' = {n \in Attempts : stage[n] # "none"}
    /\ accepts' = [o \in Orgs |-> 0]
    /\ UNCHANGED <<stage, partner, delivered, heard, pairVars, storeVars, serviceVars>>

GoStale ==
    /\ heard /\ heard' = FALSE
    /\ UNCHANGED <<serverVars, pairVars, storeVars, serviceVars, faults>>

-----------------------------------------------------------------------------
Coroutine(n) ==
    \/ OpenSession(n) \/ ShowCode(n) \/ StartPolling(n) \/ EndCancelled(n) \/ Poll(n) \/ PollOn(n) \/ Expire(n)
    \/ Release(n) \/ TakeToken(n) \/ SaveAuth(n) \/ Settle(n)

PhoneNext ==
    \/ \E n \in Attempts : Initiate(n) \/ ForceRePair(n) \/ Coroutine(n) \/ InitFails(n) \/ LoseAnswer(n) \/ Lapse(n)
    \/ \E n \in Attempts, o \in Orgs : EnterCode(n, o)
    \/ \E t \in Attempts : StaleAnswered(t)
    \/ Beat \/ BeatAnswered \/ Upload \/ TurnOn \/ TurnOff \/ StopFromNotification \/ Recreate
    \/ Flush \/ Kill \/ ChangeServer \/ GoStale

\* Coroutines run and requests are answered; the user pairs when the screen or a
\* refused token asks for it, turns the service on again and restarts a stuck app;
\* an operator enters a code that stays on the screen.
PhoneFairness ==
    /\ \A n \in Attempts : WF_phoneVars(Coroutine(n)) /\ WF_phoneVars(StaleAnswered(n))
    /\ WF_phoneVars(\E n \in Attempts : Initiate(n))
    /\ WF_phoneVars(NeedsRePair /\ \E n \in Attempts : ForceRePair(n))
    /\ WF_phoneVars(\E n \in Attempts, o \in Orgs : EnterCode(n, o))
    /\ WF_phoneVars(Beat) /\ WF_phoneVars(BeatAnswered) /\ WF_phoneVars(Upload)
    /\ WF_phoneVars(screen \in {"Paired", "Connected"} /\ TurnOn) /\ WF_phoneVars(~running /\ TurnOff) /\ WF_phoneVars(Stuck /\ Kill)

PhoneSpec == PhoneInit /\ [][PhoneNext]_phoneVars /\ PhoneFairness

\* A phone whose user and operators persist ends up paired, and is heard from again
\* and again: whatever was lost, killed, cancelled or refused before.
PhoneHeard == <>[]Valid(stored) /\ []<>heard
=============================================================================
