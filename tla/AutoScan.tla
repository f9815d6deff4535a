------------------------------- MODULE AutoScan -------------------------------
(***************************************************************************)
(* The autonomous deep-scan scheduler, server/app/services/autoscan.py.    *)
(*                                                                         *)
(* One loop wakes every _TICK_SECONDS. A tick (_run_due_orgs) reads the    *)
(* configurations of all enabled organisations in one database session and *)
(* scans one device for each that is due. A scan takes minutes, and the    *)
(* session keeps what it has read (expire_on_commit is off in app/db.py),  *)
(* while requests change configurations and devices.                       *)
(***************************************************************************)
EXTENDS Naturals, Sequences, FiniteSets

CONSTANTS
    OrgOrder,    \* organisations, as the query of a tick returns them
    ByIp,        \* every device that may be seen, in the order of its address
    Owner,       \* the organisation of a device
    Self,        \* devices that are the host of the scanner
    Failing,     \* devices whose scan may fail inside a flush
    None

Orgs == {OrgOrder[i] : i \in 1..Len(OrgOrder)}
Hosts == {ByIp[i] : i \in 1..Len(ByIp)}

\* Every device is of some organisation, and the missing one is not among them.
Roster ==
    /\ OrgOrder \in Seq(Orgs) /\ ByIp \in Seq(Hosts)
    /\ Owner \in [Hosts -> Orgs] /\ None \notin Hosts

VARIABLES
    config,    \* AutoScanConfig; due: the interval since last_run_at is over
    online,    \* devices whose row says online
    queue,     \* due organisations the tick has not served, by their place in the
               \* query's answer, with scan_subnet as the tick read it
    scan       \* the device being scanned; lost: its row was deleted meanwhile

vars == <<config, online, queue, scan>>

Config == [enabled: BOOLEAN, subnet: BOOLEAN, cursor: 0..Len(ByIp), due: BOOLEAN]
Due == [place: 1..Len(OrgOrder), subnet: BOOLEAN]
Scan == [device: Hosts, cursor: 0..Len(ByIp), lost: BOOLEAN]
NoScan == [device |-> None, cursor |-> 0, lost |-> FALSE]

\* The organisation that is served.
First == CHOOSE next \in queue : \A other \in queue : next.place <= other.place
Served == OrgOrder[First.place]

TypeOK ==
    /\ config \in [Orgs -> Config]
    /\ online \subseteq Hosts
    /\ queue \subseteq Due
    /\ scan \in Scan \cup {NoScan}
    /\ scan # NoScan => queue # {} /\ Served = Owner[scan.device]

Init ==
    /\ config = [o \in Orgs |-> [enabled |-> FALSE, subnet |-> FALSE, cursor |-> 0, due |-> TRUE]]
    /\ online = Hosts /\ queue = {} /\ scan = NoScan

-----------------------------------------------------------------------------
(* Requests and observations *)

\* update_config
UpdateConfig(o, enabled, subnet) ==
    /\ config' = [config EXCEPT ![o].enabled = enabled, ![o].subnet = subnet]
    /\ UNCHANGED <<online, queue, scan>>

\* Device sweeps find a device online or offline.
Observe(d) ==
    /\ online' = IF d \in online THEN online \ {d} ELSE online \cup {d}
    /\ UNCHANGED <<config, queue, scan>>

\* clear_devices: the rows of the organisation are deleted.
ClearDevices(o) ==
    LET own == {d \in Hosts : Owner[d] = o} IN
    /\ online' = online \ own
    /\ scan' = IF scan.device \in own THEN [scan EXCEPT !.lost = TRUE] ELSE scan
    /\ UNCHANGED <<config, queue>>

\* Time passes: the organisation's interval is over.
Elapse(o) ==
    /\ ~config[o].due
    /\ config' = [config EXCEPT ![o].due = TRUE]
    /\ UNCHANGED <<online, queue, scan>>

-----------------------------------------------------------------------------
(* _run_due_orgs *)

\* All configurations are read at the start of the tick. They keep what was read,
\* but for the cursor, which only the tick itself changes.
BeginTick ==
    /\ queue = {}
    /\ queue' = {due \in Due : LET o == OrgOrder[due.place] IN
                     config[o].enabled /\ config[o].due /\ due.subnet = config[o].subnet}
    /\ UNCHANGED <<config, online, scan>>

\* eligible_devices: online devices, this host only unless scan_subnet is on; by
\* their places in the order of addresses.
\* Mutant: the whole subnet always.
EligibleAll(o, subnet) == {i \in 1..Len(ByIp) : Owner[ByIp[i]] = o /\ ByIp[i] \in online}
Eligible(o, subnet) ==
    {i \in 1..Len(ByIp) :
        Owner[ByIp[i]] = o /\ ByIp[i] \in online /\ (subnet \/ ByIp[i] \in Self)}

\* pick_next: the device with as many eligible ones before it as the cursor says.
\* Mutant: the cursor stays.
Nth(places, n) == CHOOSE i \in places : Cardinality({j \in places : j < i}) = n
PickStuck(places, cursor) ==
    LET n == cursor % Cardinality(places)
    IN  [device |-> ByIp[Nth(places, n)], cursor |-> n, lost |-> FALSE]
Pick(places, cursor) ==
    LET n == cursor % Cardinality(places)
    IN  [device |-> ByIp[Nth(places, n)], cursor |-> n + 1, lost |-> FALSE]

\* run_once up to deep_scan, with the configuration of the session. It was
\* enabled when it was read.
RunOnce ==
    LET devices == Eligible(Served, First.subnet) IN
    /\ queue # {} /\ scan = NoScan
    /\ IF devices = {} THEN queue' = queue \ {First} /\ scan' = scan
       ELSE queue' = queue /\ scan' = Pick(devices, config[Served].cursor)
    /\ UNCHANGED <<config, online>>

\* deep_scan answers, fails or raises, and the rest of run_once: in each case the
\* device counts as scanned. If its row is gone the commit raises and the tick ends.
ScanEnds ==
    LET o == Owner[scan.device] IN
    /\ scan # NoScan
    /\ IF scan.lost
       THEN config' = config /\ queue' = {}
       ELSE /\ config' = [config EXCEPT ![o].cursor = scan.cursor, ![o].due = FALSE]
            /\ queue' = queue \ {First}
    /\ scan' = NoScan
    /\ UNCHANGED online

\* deep_scan raised in a flush: the exception is caught, but the session needs a
\* rollback that nobody does, so the commit raises and the tick ends.
ScanBreaksSession ==
    /\ scan # NoScan /\ scan.device \in Failing
    /\ scan' = NoScan /\ queue' = {}
    /\ UNCHANGED <<config, online>>

Next ==
    \/ \E o \in Orgs : \/ \E enabled, subnet \in BOOLEAN : UpdateConfig(o, enabled, subnet)
                       \/ ClearDevices(o) \/ Elapse(o)
    \/ \E d \in Hosts : Observe(d)
    \/ BeginTick \/ RunOnce \/ ScanEnds \/ ScanBreaksSession

Spec == Init /\ [][Next]_vars

-----------------------------------------------------------------------------
(* Properties *)

Allowed(d) == config[Owner[d]].enabled /\ (config[Owner[d]].subnet \/ d \in Self)
InScope(d) == d \in online /\ Allowed(d)

\* "it scans the rest of the subnet's devices ONLY when `scan_subnet` is enabled":
\* once that, or the whole autoscan, is withdrawn for good the scans it allowed
\* end with the tick. (A tick that is under way keeps the settings it has read.)
WithdrawnByNextTick ==
    \A d \in Hosts : [](queue = {} /\ []~Allowed(d) => [](scan.device # d))

\* The loop runs, scans end (nmap has a timeout) and time passes.
Fairness ==
    /\ WF_vars(BeginTick) /\ WF_vars(RunOnce) /\ WF_vars(ScanEnds \/ ScanBreaksSession)
    /\ \A o \in Orgs : WF_vars(Elapse(o))
LiveSpec == Spec /\ Fairness

\* Hosts stop coming and going. While they do, the cursor, an index into the
\* devices online at the moment, may pass over one of them for ever.
Settled == <>[][online' = online]_vars

\* Round-robin: a device that stays in scope is scanned again and again, whatever
\* is configured, unless a scan somewhere breaks the session again and again.
EveryDeviceScanned ==
    Settled /\ <>[][~ScanBreaksSession]_vars =>
        \A d \in Hosts : <>[]InScope(d) => []<>(scan.device = d)

\* "a single device failing must not wedge the loop": the same of the devices that
\* do not fail themselves, without the second condition.
NoWedge ==
    Settled => \A d \in Hosts \ Failing : <>[]InScope(d) => []<>(scan.device = d)

=============================================================================
