---------------------------- MODULE VersionMatch ----------------------------
(***************************************************************************)
(* Identities and versions of software: vuln_intel/normalizer.py,          *)
(* vuln_intel/version_matcher.py and the advisories of                     *)
(* vuln_intel/sources/osv.py.                                              *)
(*                                                                         *)
(* A version is the sequence of its components, a number <<"n", k>> or a   *)
(* word <<"w", k>> (k its place among the words in alphabetical order);    *)
(* a text without components is NoVersion.                                 *)
(***************************************************************************)
EXTENDS Integers, Sequences, FiniteSets

NoVersion == <<>>
Inconclusive == 2

Version == Seq({"n", "w"} \X Nat)

\* compare: -1, 0 or 1; the shorter version is padded with zeros, and a number
\* comes after a word ("1.0" after "1.0-beta").
Component(v, i) == IF i \in DOMAIN v THEN v[i] ELSE <<"n", 0>>
Before(a, b) == (a[1] = "w" /\ b[1] = "n") \/ (a[1] = b[1] /\ a[2] < b[2])
Ordered(v, w, differ) ==
    LET first == CHOOSE i \in differ : \A j \in differ : i <= j
    IN IF v = NoVersion \/ w = NoVersion THEN Inconclusive
       ELSE IF differ = {} THEN 0
       ELSE IF Before(Component(v, first), Component(w, first)) THEN -1 ELSE 1
\* Mutant: components beyond the shorter version are not compared.
CompareCommon(v, w) == Ordered(v, w, {i \in DOMAIN v \cap DOMAIN w : v[i] # w[i]})
CompareVersions(v, w) ==
    Ordered(v, w, {i \in DOMAIN v \cup DOMAIN w : Component(v, i) # Component(w, i)})

(***************************************************************************)
(* A range: [startIn, startEx, endIn, endEx], NoVersion where a bound is   *)
(* absent. "none" when a bound cannot be compared.                         *)
(***************************************************************************)
AboveStart(v, r) ==
    LET c == CompareVersions(v, IF r.startIn # NoVersion THEN r.startIn ELSE r.startEx)
    IN IF r.startIn # NoVersion THEN c >= 0 ELSE r.startEx # NoVersion => c > 0
BelowEnd(v, r) ==
    LET c == CompareVersions(v, IF r.endIn # NoVersion THEN r.endIn ELSE r.endEx)
    IN IF r.endIn # NoVersion THEN c <= 0 ELSE r.endEx # NoVersion => c < 0
IsInRange(v, r) == v # NoVersion /\ AboveStart(v, r) /\ BelowEnd(v, r)

\* evaluate_vulnerability: against sets of ranges and of fixes, their order being indifferent.
Evaluate(v, ranges, fixes) ==
    LET fixed == \E f \in fixes : CompareVersions(v, f) \in {0, 1}
        below == \E f \in fixes : CompareVersions(v, f) = -1
    IN IF v = NoVersion THEN "UNKNOWN_VERSION"
       ELSE IF fixed THEN "FIXED_VERSION"
       ELSE IF ranges # {}
            THEN IF \E r \in ranges : IsInRange(v, r) THEN "AFFECTED_RANGE" ELSE "NOT_IN_RANGE"
       ELSE IF below THEN "AFFECTED_BELOW_FIX" ELSE "NO_BOUNDS_DEFINED"

(***************************************************************************)
(* parse_osv_advisory: events of a range in order, each [introduced, fixed]*)
(* with "0" as NoVersion; the last one of each kind counts.                *)
(***************************************************************************)
LastOf(events, pick(_)) ==
    LET set == {i \in DOMAIN events : pick(events[i]) # NoVersion}
    IN IF set = {} THEN NoVersion ELSE pick(events[CHOOSE i \in set : \A j \in set : j <= i])
RangeOf(events) == [startIn |-> LastOf(events, LAMBDA e : e.introduced), startEx |-> NoVersion,
                    endIn |-> NoVersion, endEx |-> LastOf(events, LAMBDA e : e.fixed)]
OsvRanges(blocks) ==
    {r \in {RangeOf(blocks[i]) : i \in DOMAIN blocks} : r.startIn # NoVersion \/ r.endEx # NoVersion}
OsvFixes(blocks) ==
    {f \in UNION {{blocks[i][j].fixed : j \in DOMAIN blocks[i]} : i \in DOMAIN blocks} : f # NoVersion}
\* The CVE among the aliases names the record, else its own id.
OsvId(record) ==
    LET cves == SelectSeq(record.aliases, LAMBDA a : a.cve)
    IN IF cves # <<>> THEN cves[1].id ELSE record.id

\* lookup: the state of the source and the records, by OSV's answer: "none" when
\* the product has no ecosystem, "missing" for a 404, "failed", or "answered".
OsvLookup(answer, records, available) ==
    CASE answer = "none" -> [records |-> <<>>, available |-> available]
      [] answer = "failed" -> [records |-> <<>>, available |-> FALSE]
      [] answer = "missing" -> [records |-> <<>>, available |-> TRUE]
      [] answer = "answered" -> [records |-> SelectSeq(records, LAMBDA r : r.id # "none"), available |-> TRUE]

(***************************************************************************)
(* Normalisation. A name is [blank, canonical, letters, version, publisher]*)
(* : the (vendor, product) of the first pattern that matches, or none.     *)
(***************************************************************************)
CleanVersion(raw) == IF raw.number \/ raw.dotted THEN raw.version ELSE NoVersion

NormalizeSoftware(name, declared) ==
    LET known == name.canonical # "none"
        product == IF known THEN name.canonical ELSE IF name.letters THEN name.text ELSE "UNKNOWN_PRODUCT"
        vendor == IF known THEN name.vendor ELSE IF name.letters THEN name.publisher ELSE "none"
        version == IF CleanVersion(declared) # NoVersion THEN CleanVersion(declared) ELSE CleanVersion(name)
    IN IF name.blank
       THEN [vendor |-> "none", product |-> "UNKNOWN_PRODUCT", version |-> NoVersion]
       ELSE [vendor |-> vendor, product |-> product, version |-> version]

\* A CPE that names a product wins over the banner, and only its own version
\* field is used then.
NormalizeService(service) ==
    IF service.cpe.product # "none"
    THEN [vendor |-> service.cpe.vendor, product |-> service.cpe.product, version |-> CleanVersion(service.declared)]
    ELSE NormalizeSoftware(IF service.product.blank THEN service.name ELSE service.product, service.declared)

-----------------------------------------------------------------------------
\* Comparison is a total preorder on versions that have components, so that a
\* verdict does not depend on how a version was written down.
VersionOrder(u, v, w) ==
    LET c(a, b) == CompareVersions(a, b)
    IN NoVersion \notin {u, v, w} =>
          /\ c(u, v) = -c(v, u)
          /\ c(u, v) <= 0 /\ c(v, w) <= 0 => c(u, w) <= 0
          /\ c(u, v) = 0 => c(u, w) = c(v, w)

\* An advisory of one branch: no affected range goes on past a fix.
OneBranch(blocks) ==
    \A f \in OsvFixes(blocks), r \in OsvRanges(blocks) :
        r.endEx # NoVersion /\ CompareVersions(r.endEx, f) <= 0

\* What is called affected lies in one of the advisory's own ranges and below every fix.
\* On one branch the converse holds as well, so that no version the advisory affects passes
\* for a fixed one, and an upgrade never turns a fixed version into one that is not.
\* With fixes on several branches a version above the lowest fix is called fixed
\* (version_matcher.py:131-134) although it may lie in the range of another branch.
UpgradeHelps(v, w, blocks) ==
    LET ranges == OsvRanges(blocks)
        verdict(x) == Evaluate(x, ranges, OsvFixes(blocks))
        affects(x) == \E r \in ranges : IsInRange(x, r)
    IN /\ verdict(v) = "AFFECTED_RANGE" =>
             affects(v) /\ \A f \in OsvFixes(blocks) : CompareVersions(v, f) = -1
       /\ OneBranch(blocks) =>
             /\ affects(v) => verdict(v) = "AFFECTED_RANGE"
             /\ CompareVersions(v, w) = -1 /\ verdict(v) = "FIXED_VERSION" => verdict(w) = "FIXED_VERSION"
=============================================================================
