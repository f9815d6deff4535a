------------------------------ MODULE UrlTrust ------------------------------
(***************************************************************************)
(* The trust analysis of a URL as functions of what is known of it:        *)
(* urltrust/checks.py, network.py, whois_lookup.py, scoring.py, summary.py *)
(* and the orchestration of analyzer.py.  The cached answers of the        *)
(* reputation providers are modelled in ProviderCache.                     *)
(*                                                                         *)
(* A URL is the record of what the checks read of it; a host's addresses   *)
(* are a set of classes, of which only "public" may be contacted.          *)
(***************************************************************************)
EXTENDS Integers, Sequences, FiniteSets, FiniteSetsExt

Evaluated == {"pass", "warn", "fail"}
Statuses == Evaluated \cup {"unknown", "not_configured", "unreachable"}

Weight == [https |-> 3, no_ip_host |-> 2, no_punycode |-> 2, no_at_symbol |-> 2,
           no_embedded_credentials |-> 2, subdomain_depth |-> 1, tld_reputation |-> 1, url_length |-> 1,
           no_risky_keywords |-> 1, brand_lookalike |-> 2, dns_resolves |-> 2, tls_valid |-> 3,
           http_reachable |-> 1, no_offsite_redirect |-> 2, domain_age |-> 2, safe_browsing |-> 4, virustotal |-> 4]

Url == [blank : BOOLEAN, scheme : STRING, host : STRING, ip : BOOLEAN, punycode : BOOLEAN, at : BOOLEAN,
        user : BOOLEAN, labels : Nat, abusedTld : BOOLEAN, length : Nat, lureHost : BOOLEAN, lurePath : BOOLEAN,
        official : BOOLEAN, brand : BOOLEAN, own : BOOLEAN, app : BOOLEAN]

\* normalize_url refuses what has another scheme or no host, and assumes https.
Refuses(u) == u.blank \/ u.scheme \notin {"none", "http", "https"} \/ u.host = "none"
Scheme(u) == IF u.scheme = "none" THEN "https" ELSE u.scheme

\* structural_signals. labels: the number of host labels; brand: a brand among the
\* host's tokens, own: it is the registrable domain's own first label; official: the
\* registrable domain is one of the known ones.
Check(good, bad) == IF good THEN "pass" ELSE bad
Structural(u) ==
    [https |-> Check(Scheme(u) = "https", "fail"),
     no_ip_host |-> Check(~u.ip, "fail"),
     no_punycode |-> Check(~u.punycode, "fail"),
     no_at_symbol |-> Check(~u.at, "fail"),
     no_embedded_credentials |-> Check(~(u.at /\ u.user), "fail"),
     subdomain_depth |-> Check(u.labels - 2 < 3, "warn"),
     tld_reputation |-> Check(~u.abusedTld, "warn"),
     url_length |-> Check(u.length <= 100, "warn"),
     no_risky_keywords |-> Check(~(u.lureHost \/ (u.lurePath /\ ~u.official)), "warn"),
     brand_lookalike |-> Check(~(u.brand /\ ~u.own), "warn")]

(***************************************************************************)
(* The network. An answer of the resolver is "nxdomain", "failed" or a set *)
(* of address classes.                                                     *)
(***************************************************************************)
SafeIps(answer) == answer \notin {{"nxdomain"}, {"failed"}} /\ answer # {} /\ answer \subseteq {"public"}
ResolveDns(answer) ==
    IF answer = {"nxdomain"} THEN "fail" ELSE IF SafeIps(answer) THEN "pass" ELSE "unreachable"

\* inspect_tls: peer is "trusted", "untrusted" or "down".
InspectTls(answer, peer) ==
    IF ~SafeIps(answer) THEN "unreachable"
    ELSE CASE peer = "trusted" -> "pass" [] peer = "untrusted" -> "fail" [] peer = "down" -> "unreachable"

\* http_probe: hops[i] is [site, dns, status, redirects, down]; every hop is resolved
\* again and fetched from the address that was judged. The chain ends at the first
\* hop that does not redirect; beyond MaxRedirects it is given up.
Classes == {"public", "private", "loopback", "link_local", "reserved", "multicast"}
Hop == [site : STRING, dns : SUBSET (Classes \cup {"nxdomain", "failed"}), status : Nat, redirects : BOOLEAN,
        down : BOOLEAN]
MaxRedirects == 5
Fetched(hops) ==
    LET stops == {i \in DOMAIN hops : ~SafeIps(hops[i].dns) \/ hops[i].down \/ ~hops[i].redirects}
        last == IF stops = {} THEN Len(hops) ELSE Min(stops)
    IN Min({last, MaxRedirects + 1})
\* the hops a connection was made to: an unsafe one is given up before
Contacted(hops) == 1..(IF SafeIps(hops[Fetched(hops)].dns) THEN Fetched(hops) ELSE Fetched(hops) - 1)
Probe(hops) ==
    LET n == Fetched(hops)
    IN IF ~SafeIps(hops[n].dns) \/ hops[n].down \/ hops[n].redirects THEN [status |-> 0]
       ELSE [status |-> hops[n].status, offsite |-> hops[n].site # hops[1].site, final |-> hops[n].site]

\* domain_facts: no WHOIS for an address; an age in the future is no age.
DomainAge(u, record) == IF u.ip \/ record.failed \/ record.age < 0 THEN -1 ELSE record.age

(***************************************************************************)
(* _connection_signals, _domain_signal, _provider_signals                  *)
(***************************************************************************)
Connection(hops, peer) ==
    LET probe == Probe(hops)
    IN [dns_resolves |-> ResolveDns(hops[1].dns),
        tls_valid |-> InspectTls(hops[1].dns, peer),
        http_reachable |-> IF probe.status = 0 THEN "unreachable" ELSE IF probe.status < 400 THEN "pass"
                           ELSE IF probe.status < 500 THEN "warn" ELSE "fail",
        no_offsite_redirect |-> IF probe.status = 0 THEN "unreachable"
                                ELSE IF probe.offsite THEN "warn" ELSE "pass"]

Domain(age) == [domain_age |-> IF age = -1 THEN "unknown" ELSE IF age > 180 THEN "pass" ELSE "warn"]

Providers(sb, vt) ==
    [safe_browsing |-> CASE sb = "absent" -> "not_configured" [] sb = "error" -> "unreachable"
                         [] sb = "flagged" -> "fail" [] sb = "clean" -> "pass",
     virustotal |-> CASE vt = "absent" -> "not_configured" [] vt = "error" -> "unreachable"
                      [] vt = "malicious" -> "fail" [] vt = "suspicious" -> "warn" [] vt = "harmless" -> "pass"]

Merged(f, g) == [k \in DOMAIN f \cup DOMAIN g |-> IF k \in DOMAIN f THEN f[k] ELSE g[k]]
Signals(u, hops, peer, age, sb, vt) ==
    Merged(Structural(u), Merged(Connection(hops, peer), Merged(Domain(age), Providers(sb, vt))))

(***************************************************************************)
(* compute_score, in tenths of a point.                                    *)
(***************************************************************************)
FailCaps == [safe_browsing |-> 150, virustotal |-> 200, no_embedded_credentials |-> 300, dns_resolves |-> 400,
             no_punycode |-> 400, no_at_symbol |-> 400, no_ip_host |-> 500, tls_valid |-> 500, https |-> 740]
WarnCaps == [brand_lookalike |-> 550, virustotal |-> 600]
StatusValue == [pass |-> 10, warn |-> 5, fail |-> 0]

Counts(s) == {k \in DOMAIN s : s[k] \in Evaluated}
Ceiling(s) == Min({1000} \cup {FailCaps[k] : k \in {j \in DOMAIN FailCaps : s[j] = "fail"}}
                         \cup {WarnCaps[k] : k \in {j \in DOMAIN WarnCaps : s[j] = "warn"}})
Score(s) ==
    LET total == MapThenSumSet(LAMBDA k : Weight[k], Counts(s))
        earned == MapThenSumSet(LAMBDA k : Weight[k] * StatusValue[s[k]], Counts(s))
    IN IF total = 0 THEN 500 ELSE Min({(100 * earned) \div total, Ceiling(s)})
Band(score) == IF score >= 750 THEN "Trusted" ELSE IF score >= 400 THEN "Caution" ELSE "High Risk"

\* analyze: a host that ends in ".app" is taken for a local application, trusted
\* without a check and not stored.
Analyze(u, hops, peer, record, sb, vt) ==
    LET s == Signals(u, hops, peer, DomainAge(u, record), sb, vt)
    IN IF Refuses(u) THEN [refused |-> TRUE]
       ELSE IF u.app THEN [refused |-> FALSE, score |-> 1000, band |-> "Trusted", evaluated |-> 1, stored |-> FALSE]
       ELSE [refused |-> FALSE, score |-> Score(s), band |-> Band(Score(s)),
             evaluated |-> Cardinality(Counts(s)), stored |-> TRUE]

\* build_summary names concerns and positives of the evaluated signals only.
Concerns(s) == {k \in DOMAIN s : s[k] \in {"warn", "fail"}}

-----------------------------------------------------------------------------
\* What a check may say instead of "pass".
OnlyWarns == {"subdomain_depth", "tld_reputation", "url_length", "no_risky_keywords", "brand_lookalike",
              "no_offsite_redirect", "domain_age"}
Worse(k) == IF k \in OnlyWarns THEN {"warn"} ELSE {"warn", "fail"}

\* A site that fails a check with a ceiling (FAIL_CAPS) is never shown as trusted and
\* never scores above that ceiling, whatever the others earn; the other checks, such as
\* http_reachable, only cost their weight. A check that turns from pass to warn or to
\* fail never raises the score; and no hop of the probe is contacted whose own addresses
\* are not all public.
TrustSound(u, hops, peer, age, sb, vt) ==
    LET s == Signals(u, hops, peer, age, sb, vt)
    IN /\ \A k \in DOMAIN FailCaps : s[k] = "fail" => Score(s) <= FailCaps[k] /\ Band(Score(s)) # "Trusted"
       /\ \A k \in DOMAIN s : s[k] = "pass" =>
             \A bad \in Worse(k) : Score([s EXCEPT ![k] = bad]) <= Score(s)
       /\ \A i \in Contacted(hops) : SafeIps(hops[i].dns)
=============================================================================
