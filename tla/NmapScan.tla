------------------------------ MODULE NmapScan ------------------------------
(***************************************************************************)
(* What a deep scan makes of nmap's output: deepscan/scanner.py and        *)
(* deepscan/parser.py, and the targets deepscan/service.py accepts.        *)
(*                                                                         *)
(* A reply of nmap is a record: missing (no binary), timedOut, exit (its   *)
(* return code), wellFormed (XML that parses) and hosts, a sequence of     *)
(* <host> elements, empty when it printed none.  No output at all is       *)
(* printed = FALSE.                                                        *)
(***************************************************************************)
EXTENDS Integers, Sequences, FiniteSets, SequencesExt

(***************************************************************************)
(* Targets: an address or a network is described by the ranges it is in.   *)
(***************************************************************************)
MaxAddresses == 1024
Scannable(target) ==
    /\ target.valid
    /\ "private" \in target.ranges
    /\ target.ranges \cap {"loopback", "link_local"} = {}
    /\ target.size <= MaxAddresses
Refused(target, consent) == ~consent \/ ~Scannable(target)

(***************************************************************************)
(* The XML.  A port element is [state, id, conf, cpes, name, tunnel,       *)
(* extra]; -1 is an id that is no number or a conf nmap left out, and of   *)
(* the texts name and extra only the marks that occur in them are kept     *)
(* (name "http-proxy" is {"http"}, "ssl/https" {"ssl", "http", "https"}).  *)
(***************************************************************************)
Mark == {"http", "https", "ssl", "tls"}
Port == [state : STRING, id : Nat \cup {-1}, conf : Int, cpes : Seq([part : STRING, product : STRING]),
         name : SUBSET Mark, tunnel : STRING, extra : SUBSET Mark]
Host == [addresses : Seq([type : STRING, addr : STRING]), status : STRING, ports : Seq(Port)]
Reply == [missing : BOOLEAN, timedOut : BOOLEAN, printed : BOOLEAN, wellFormed : BOOLEAN, hosts : Seq(Host)]

AddressOf(host) ==
    LET v4 == SelectSeq(host.addresses, LAMBDA a : a.type = "ipv4")
    IN IF v4 # <<>> THEN v4[1].addr
       ELSE IF host.addresses # <<>> THEN host.addresses[1].addr ELSE "none"

Up(host) == host.status = "up"

\* Only an application's CPE identifies a product.
AppCpe(port) ==
    LET app == SelectSeq(port.cpes, LAMBDA c : c.part = "a")
    IN IF app = <<>> THEN "none" ELSE app[1].product

Confidence(port) == IF port.conf = -1 THEN -1 ELSE Max({0, Min({10, port.conf})})

Service(port) == [port |-> port.id, name |-> port.name, tunnel |-> port.tunnel, extra |-> port.extra,
                  cpe |-> AppCpe(port), conf |-> Confidence(port)]

OpenServices(host) ==
    LET open == SelectSeq(host.ports, LAMBDA p : p.state = "open" /\ p.id # -1)
    IN [i \in DOMAIN open |-> Service(open[i])]

ParsedHost(host) == [ip |-> AddressOf(host), up |-> Up(host), services |-> OpenServices(host)]

\* HTTP is what nmap's words say is HTTP, on whatever port, and never a port number.
HttpEndpoints(services) ==
    LET speaks == SelectSeq(services, LAMBDA s : "http" \in s.name \cup s.extra)
        secure(s) == "https" \in s.name \/ s.tunnel \in {"ssl", "tls"} \/ s.extra \cap {"ssl", "tls"} # {}
    IN [i \in DOMAIN speaks |-> [port |-> speaks[i].port,
                                 scheme |-> IF secure(speaks[i]) THEN "https" ELSE "http"]]

HostResult(h) == [target |-> h.ip, up |-> h.up, services |-> h.services, http |-> HttpEndpoints(h.services)]

(***************************************************************************)
(* Running nmap.  A run that printed something is used whatever its exit   *)
(* code: it ends itself before the timeout and flushes what it has.        *)
(***************************************************************************)
RunError(reply) ==
    IF reply.missing THEN "not installed"
    ELSE IF reply.timedOut THEN "timed out"
    ELSE IF ~reply.printed THEN "no output"
    ELSE IF ~reply.wellFormed THEN "bad output"
    ELSE "none"

\* scan: one host; a reply without a host element is a host that is down.
ScanOne(ip, reply) ==
    IF RunError(reply) # "none" THEN [available |-> FALSE, target |-> ip, reason |-> RunError(reply)]
    ELSE [available |-> TRUE, reason |-> "none",
          host |-> IF reply.hosts = <<>> THEN HostResult([ip |-> ip, up |-> FALSE, services |-> <<>>])
                   ELSE HostResult([ParsedHost(reply.hosts[1]) EXCEPT !.ip = ip])]

\* discover_hosts: the addresses of the hosts that answered.
LiveAddresses(reply) ==
    FoldLeft(LAMBDA ips, h : IF Up(h) /\ AddressOf(h) # "none" THEN Append(ips, AddressOf(h)) ELSE ips,
             <<>>, reply.hosts)

\* The batches of a range scan, in order.
Batches(targets, size) ==
    LET n == IF size < 1 THEN 1 ELSE size
        count == (Len(targets) + n - 1) \div n
    IN [b \in 1..count |-> SubSeq(targets, (b - 1) * n + 1, Min({b * n, Len(targets)}))]

\* scan_range: replies[b] is nmap's reply for batch b.  A failed batch leaves its
\* hosts out; the others are kept once each and only if they were asked for.
\* Mutant of Kept: a host two batches answer for is kept twice.
KeptTwice(hosts, h, targets) ==
    IF h.ip = "none" \/ h.ip \notin ToSet(targets) THEN hosts ELSE Append(hosts, HostResult(h))
Kept(hosts, h, targets) ==
    IF h.ip = "none" \/ h.ip \notin ToSet(targets) \/ \E i \in DOMAIN hosts : hosts[i].target = h.ip
    THEN hosts ELSE Append(hosts, HostResult(h))

BatchHosts(reply) ==
    IF RunError(reply) # "none" THEN <<>>
    ELSE [i \in DOMAIN reply.hosts |-> ParsedHost(reply.hosts[i])]

ScanRange(discovery, replies, size, cap) ==
    LET live == LiveAddresses(discovery)
        targets == SubSeq(live, 1, Min({Len(live), cap}))
        count == Len(Batches(targets, size))
        hosts == FoldLeft(LAMBDA acc, h : Kept(acc, h, targets), <<>>,
                          FlattenSeq([b \in 1..count |-> BatchHosts(replies[b])]))
        failed == {b \in 1..count : RunError(replies[b]) # "none"}
        none == [available |-> FALSE, discovered |-> 0, capped |-> FALSE, hosts |-> <<>>]
    IN IF RunError(discovery) # "none" THEN none
       ELSE [available |-> ~(hosts = <<>> /\ failed # {}), discovered |-> Len(live),
             capped |-> Len(live) > cap, hosts |-> hosts]

-----------------------------------------------------------------------------
\* A range scan reports every target a batch that worked has seen, each once, and
\* no host that was not asked for; a batch that failed costs only its own hosts,
\* and an empty result is only given as a scan when no batch failed.
RangeHonest(discovery, replies, size, cap) ==
    LET result == ScanRange(discovery, replies, size, cap)
        live == LiveAddresses(discovery)
        targets == ToSet(SubSeq(live, 1, Min({Len(live), cap})))
        batches == DOMAIN Batches(SubSeq(live, 1, Min({Len(live), cap})), size)
        worked == {b \in batches : RunError(replies[b]) = "none"}
        answered == UNION {{AddressOf(replies[b].hosts[i]) : i \in DOMAIN replies[b].hosts} : b \in worked}
    IN RunError(discovery) = "none" =>
          /\ {result.hosts[i].target : i \in DOMAIN result.hosts} = (answered \cap targets) \ {"none"}
          /\ \A i, j \in DOMAIN result.hosts : i # j => result.hosts[i].target # result.hosts[j].target
          /\ result.available /\ result.hosts = <<>> => worked = batches
=============================================================================
