----------------------------- MODULE AnswersProofs ----------------------------
(***************************************************************************)
(* What holds of the rest of Services for all values of its constants: of  *)
(* the functions that answer for one input (an upgrade, the facts of a     *)
(* network, the row of a device, a range, a URL), of the AI tasks, and of  *)
(* the live feed and its timelines, which answer from what they were told. *)
(***************************************************************************)
EXTENDS Services, FiniteSetTheorems, SequenceTheorems, WellFoundedInduction, TLAPS

-----------------------------------------------------------------------------
(* Which part takes a step, and that the input stays. *)

LEMMA PartSteps ==
  ASSUME [ServicesNext]_allVars
  PROVE  /\ subject' = subject /\ input' = input
         /\ subject = "evidence" => [Line!LinesNext]_Line!lineVars
         /\ subject = "threats" => [Feed!FeedNext]_Feed!feedVars
         /\ subject = "tasks" => [Tasks!AiNext]_Tasks!aiVars
<1> USE DEF Tasks!aiVars, Feed!feedVars, Line!lineVars, feedVars, watchVars, lineVars
<1>1. CASE UNCHANGED allVars
  BY <1>1 DEF allVars, restVars, taskVars
<1>2. CASE ServicesNext
  BY <1>2 DEF ServicesNext, Correlating, LookingUp, Memoizing, Feeding, Sweeping, Working, Limiting, SigningIn, restVars
<1> QED BY <1>1, <1>2

\* A function is asked about one of its inputs.
Given ==
    /\ subject = "match" => input \in Upgrades
    /\ subject = "config" => input \in Facts
    /\ subject = "view" => input \in Rows
    /\ subject = "nmap" => input \in Ranges
    /\ subject = "trust" => input \in UrlChecks

LEMMA InputsGiven == ServicesSpec => []Given
<1>1. ServicesInit => Given
  BY DEF ServicesInit, Given, Machines, Inputs
<1>2. Given /\ [ServicesNext]_allVars => Given'
  BY PartSteps DEF Given
<1> QED BY <1>1, <1>2, PTL DEF ServicesSpec

-----------------------------------------------------------------------------
(* The least of some numbers. *)

LEMMA Least ==
  ASSUME NEW T \in SUBSET Nat, T # {}
  PROVE  \E i \in T : \A j \in T : i <= j
<1> DEFINE R == OpToRel(<, Nat)
<1>1. IsWellFoundedOn(R, Nat)
  BY NatLessThanWellFounded
<1> HIDE DEF R
<1>2. PICK i \in T : \A j \in T : <<j, i>> \notin R
  BY <1>1, WFMin
<1>3. \A j \in T : ~(j < i)
  BY <1>2 DEF R, OpToRel
<1> QED BY <1>2, <1>3

-----------------------------------------------------------------------------
(* VersionMatch *)

Part == {"n", "w"} \X Nat
At(v, i) == Match!Component(v, i)

\* The order of two versions, decided at the first component they differ in.
Precedes(v, w) ==
    \E k \in Nat : /\ \A i \in Nat : i < k => At(v, i) = At(w, i)
                   /\ Match!Before(At(v, k), At(w, k))
Alike(v, w) == \A i \in Nat : At(v, i) = At(w, i)

LEMMA PartsOrdered ==
  /\ \A a \in Part : ~Match!Before(a, a)
  /\ \A a, b \in Part : a # b => Match!Before(a, b) \/ Match!Before(b, a)
  /\ \A a, b, c \in Part : Match!Before(a, b) /\ Match!Before(b, c) => Match!Before(a, c)
<1>1. \A a \in Part : a[1] \in {"n", "w"} /\ a[2] \in Nat
  BY DEF Part
<1>2. \A a, b \in Part : a[1] = b[1] /\ a[2] = b[2] => a = b
  BY DEF Part
<1> QED BY <1>1, <1>2 DEF Match!Before

LEMMA AtIsPart ==
  ASSUME NEW v \in Match!Version, NEW i
  PROVE  At(v, i) \in Part
BY DEF Match!Version, At, Match!Component, Part

\* Exactly one of three holds of two versions.
LEMMA Exclusive ==
  ASSUME NEW v \in Match!Version, NEW w \in Match!Version
  PROVE  /\ ~(Alike(v, w) /\ Precedes(v, w))
         /\ ~(Precedes(v, w) /\ Precedes(w, v))
<1>1. ~(Alike(v, w) /\ Precedes(v, w))
  BY AtIsPart, PartsOrdered DEF Alike, Precedes
<1>2. ASSUME Precedes(v, w), Precedes(w, v) PROVE FALSE
  <2>1. PICK k \in Nat : (\A i \in Nat : i < k => At(v, i) = At(w, i)) /\ Match!Before(At(v, k), At(w, k))
    BY <1>2 DEF Precedes
  <2>2. PICK l \in Nat : (\A i \in Nat : i < l => At(w, i) = At(v, i)) /\ Match!Before(At(w, l), At(v, l))
    BY <1>2 DEF Precedes
  <2>3. k = l
    BY <2>1, <2>2, AtIsPart, PartsOrdered
  <2> QED BY <2>1, <2>2, <2>3, AtIsPart, PartsOrdered
<1> QED BY <1>1, <1>2

\* What the code's comparison answers.
LEMMA Compared ==
  ASSUME NEW v \in Match!Version, NEW w \in Match!Version, v # Match!NoVersion, w # Match!NoVersion
  PROVE  LET c == Match!CompareVersions(v, w)
         IN \/ c = 0 /\ Alike(v, w)
            \/ c = -1 /\ Precedes(v, w)
            \/ c = 1 /\ Precedes(w, v)
<1>1. PICK T : T = {i \in DOMAIN v \cup DOMAIN w : At(v, i) # At(w, i)}
  OBVIOUS
<1>2. T \in SUBSET Nat
  BY <1>1 DEF Match!Version
<1>3. \A i : i \notin T => At(v, i) = At(w, i)
  BY <1>1 DEF At, Match!Component
<1>4. Match!CompareVersions(v, w) = Match!Ordered(v, w, T)
  BY <1>1 DEF Match!CompareVersions, At
<1>5. CASE T = {}
  BY <1>3, <1>4, <1>5 DEF Match!Ordered, Alike
<1>6. CASE T # {}
  <2>1. PICK first : first = CHOOSE i \in T : \A j \in T : i <= j
    OBVIOUS
  <2>2. first \in T /\ \A j \in T : first <= j
    BY <1>2, <1>6, <2>1, Least
  <2>3. first \in Nat /\ \A i \in Nat : i < first => At(v, i) = At(w, i)
    BY <1>2, <1>3, <2>2
  <2>4. At(v, first) # At(w, first)
    BY <1>1, <2>2
  <2>5. Match!CompareVersions(v, w) = IF Match!Before(At(v, first), At(w, first)) THEN -1 ELSE 1
    BY <1>4, <1>6, <2>1 DEF Match!Ordered, At
  <2>6. CASE Match!Before(At(v, first), At(w, first))
    BY <2>3, <2>5, <2>6 DEF Precedes
  <2>7. CASE ~Match!Before(At(v, first), At(w, first))
    <3>1. Match!Before(At(w, first), At(v, first))
      BY <2>4, <2>7, AtIsPart, PartsOrdered
    <3> QED BY <2>3, <2>5, <2>7, <3>1 DEF Precedes
  <2> QED BY <2>6, <2>7
<1> QED BY <1>5, <1>6

LEMMA PrecedesTransitive ==
  ASSUME NEW u \in Match!Version, NEW v \in Match!Version, NEW w \in Match!Version,
         Precedes(u, v), Precedes(v, w)
  PROVE  Precedes(u, w)
<1>1. PICK k \in Nat : (\A i \in Nat : i < k => At(u, i) = At(v, i)) /\ Match!Before(At(u, k), At(v, k))
  BY DEF Precedes
<1>2. PICK l \in Nat : (\A i \in Nat : i < l => At(v, i) = At(w, i)) /\ Match!Before(At(v, l), At(w, l))
  BY DEF Precedes
<1>3. PICK m \in Nat : m = IF k < l THEN k ELSE l
  OBVIOUS
<1>4. \A i \in Nat : i < m => At(u, i) = At(w, i)
  BY <1>1, <1>2, <1>3
<1>5. Match!Before(At(u, m), At(w, m))
  BY <1>1, <1>2, <1>3, AtIsPart, PartsOrdered
<1> QED BY <1>4, <1>5 DEF Precedes

LEMMA AlikeReplaces ==
  ASSUME NEW u \in Match!Version, NEW v \in Match!Version, NEW w \in Match!Version, Alike(u, v)
  PROVE  /\ Alike(v, u) /\ (Alike(u, w) <=> Alike(v, w))
         /\ Precedes(u, w) <=> Precedes(v, w)
         /\ Precedes(w, u) <=> Precedes(w, v)
BY DEF Alike, Precedes

\* Comparison of versions is a total preorder: antisymmetric, transitive and the same for
\* versions that compare equal, however many components each has (version_matcher.compare).
THEOREM VersionsOrdered ==
  \A u, v, w \in Match!Version : Match!VersionOrder(u, v, w)
<1> SUFFICES ASSUME NEW u \in Match!Version, NEW v \in Match!Version, NEW w \in Match!Version,
                    Match!NoVersion \notin {u, v, w}
             PROVE  Match!VersionOrder(u, v, w)
  BY DEF Match!VersionOrder
<1> DEFINE c(a, b) == Match!CompareVersions(a, b)
<1>1. \A a, b \in {u, v, w} : /\ c(a, b) \in {-1, 0, 1}
                              /\ c(a, b) = 0 <=> Alike(a, b)
                              /\ c(a, b) = -1 <=> Precedes(a, b)
                              /\ c(a, b) = 1 <=> Precedes(b, a)
  <2> SUFFICES ASSUME NEW a \in {u, v, w}, NEW b \in {u, v, w}
               PROVE  /\ c(a, b) \in {-1, 0, 1}
                      /\ c(a, b) = 0 <=> Alike(a, b)
                      /\ c(a, b) = -1 <=> Precedes(a, b)
                      /\ c(a, b) = 1 <=> Precedes(b, a)
    OBVIOUS
  <2>1. \/ c(a, b) = 0 /\ Alike(a, b)
        \/ c(a, b) = -1 /\ Precedes(a, b)
        \/ c(a, b) = 1 /\ Precedes(b, a)
    BY Compared
  <2>2. Alike(a, b) <=> Alike(b, a)
    BY DEF Alike
  <2> HIDE DEF c
  <2> QED BY <2>1, <2>2, Exclusive
<1> HIDE DEF c
<1>2. c(u, v) = -c(v, u)
  <2>1. Alike(u, v) <=> Alike(v, u)
    BY DEF Alike
  <2> QED BY <1>1, <2>1
<1>3. c(u, v) <= 0 /\ c(v, w) <= 0 => c(u, w) <= 0
  <2> SUFFICES ASSUME c(u, v) <= 0, c(v, w) <= 0 PROVE c(u, w) \in {-1, 0}
    BY <1>1
  <2>1. Alike(u, v) \/ Precedes(u, v)
    BY <1>1
  <2>2. Alike(v, w) \/ Precedes(v, w)
    BY <1>1
  <2>3. CASE Alike(u, v)
    BY <1>1, <2>2, <2>3, AlikeReplaces
  <2>4. CASE Precedes(u, v) /\ Alike(v, w)
    BY <1>1, <2>4, AlikeReplaces
  <2>5. CASE Precedes(u, v) /\ Precedes(v, w)
    BY <1>1, <2>5, PrecedesTransitive
  <2> QED BY <2>1, <2>2, <2>3, <2>4, <2>5
<1>4. c(u, v) = 0 => c(u, w) = c(v, w)
  <2> SUFFICES ASSUME Alike(u, v) PROVE c(u, w) = c(v, w)
    BY <1>1
  <2> QED BY <1>1, AlikeReplaces
<1> QED BY <1>2, <1>3, <1>4 DEF Match!VersionOrder, c

\* A nonempty set of positions has a last one.
LEMMA Greatest ==
  ASSUME NEW n \in Nat, NEW S \in SUBSET (1..n), S # {}
  PROVE  \E i \in S : \A j \in S : j <= i
<1>1. PICK D : D = {n - i : i \in S}
  OBVIOUS
<1>2. D \in SUBSET Nat /\ D # {}
  <2>1. \A i \in S : i \in Int /\ n - i \in Nat
    OBVIOUS
  <2> QED BY <1>1, <2>1
<1>3. PICK d \in D : \A k \in D : d <= k
  BY <1>2, Least
<1>4. PICK i \in S : d = n - i
  BY <1>1
<1>5. \A j \in S : j <= i
  <2> SUFFICES ASSUME NEW j \in S PROVE j <= i
    OBVIOUS
  <2>1. n - j \in D
    BY <1>1
  <2>2. d <= n - j
    BY <1>3, <2>1
  <2> QED BY <1>4, <2>2
<1> QED BY <1>5

\* A range of an advisory ends before a version, or not at all.
LEMMA RangeEnds ==
  ASSUME NEW blocks \in Seq(Seq([introduced: Match!Version, fixed: Match!Version])),
         NEW r \in Match!OsvRanges(blocks)
  PROVE  r.endIn = Match!NoVersion /\ r.endEx \in Match!Version
<1>1. PICK i \in DOMAIN blocks : r = Match!RangeOf(blocks[i])
  BY DEF Match!OsvRanges
<1>2. PICK block : block = blocks[i] /\ block \in Seq([introduced: Match!Version, fixed: Match!Version])
  OBVIOUS
<1>3. PICK set : set = {j \in DOMAIN block : block[j].fixed # Match!NoVersion}
  OBVIOUS
<1>4. PICK last : last = CHOOSE j \in set : \A k \in set : k <= j
  OBVIOUS
<1>5. /\ r.endIn = Match!NoVersion
      /\ r.endEx = IF set = {} THEN Match!NoVersion ELSE block[last].fixed
  BY <1>1, <1>2, <1>3, <1>4 DEF Match!RangeOf, Match!LastOf
<1>6. CASE set = {}
  BY <1>5, <1>6 DEF Match!NoVersion, Match!Version
<1>7. CASE set # {}
  <2>1. Len(block) \in Nat /\ set \in SUBSET (1..Len(block))
    BY <1>2, <1>3
  <2>2. last \in set
    <3>1. \E j \in set : \A k \in set : k <= j
      BY <1>7, <2>1, Greatest
    <3> QED BY <1>4, <3>1
  <2>3. last \in DOMAIN block
    BY <1>3, <2>2
  <2>4. block[last] \in [introduced: Match!Version, fixed: Match!Version]
    BY <1>2, <2>3, ElementOfSeq, LenProperties
  <2> QED BY <1>5, <1>7, <2>4
<1> QED BY <1>5, <1>6, <1>7

\* The same of every pair of versions and every advisory.
LEMMA UpgradeSound ==
  \A v, w \in Match!Version, blocks \in Seq(Seq([introduced: Match!Version, fixed: Match!Version])) :
     Match!UpgradeHelps(v, w, blocks)
<1> SUFFICES ASSUME NEW v \in Match!Version, NEW w \in Match!Version,
                    NEW blocks \in Seq(Seq([introduced: Match!Version, fixed: Match!Version]))
             PROVE  Match!UpgradeHelps(v, w, blocks)
  OBVIOUS
<1>1. PICK ranges, fixes : ranges = Match!OsvRanges(blocks) /\ fixes = Match!OsvFixes(blocks)
  OBVIOUS
<1>2. \A f \in fixes : f \in Match!Version /\ f # Match!NoVersion
  <2> SUFFICES ASSUME NEW f \in fixes PROVE f \in Match!Version /\ f # Match!NoVersion
    OBVIOUS
  <2>1. PICK i \in DOMAIN blocks : f \in {blocks[i][j].fixed : j \in DOMAIN blocks[i]}
    BY <1>1 DEF Match!OsvFixes
  <2>2. PICK block : block = blocks[i] /\ block \in Seq([introduced: Match!Version, fixed: Match!Version])
    OBVIOUS
  <2>3. PICK j \in DOMAIN block : f = block[j].fixed
    BY <2>1, <2>2
  <2>4. block[j] \in [introduced: Match!Version, fixed: Match!Version]
    BY <2>2, <2>3, ElementOfSeq, LenProperties
  <2>5. f \in Match!Version
    BY <2>3, <2>4
  <2>6. f # Match!NoVersion
    BY <1>1 DEF Match!OsvFixes
  <2> QED BY <2>5, <2>6
<1>3. ASSUME NEW x \in Match!Version, Match!Evaluate(x, ranges, fixes) = "FIXED_VERSION"
      PROVE  x # Match!NoVersion /\ \E f \in fixes : Match!CompareVersions(x, f) \in {0, 1}
  BY <1>3 DEF Match!Evaluate
<1>4. ASSUME Match!CompareVersions(v, w) = -1, Match!Evaluate(v, ranges, fixes) = "FIXED_VERSION"
      PROVE  Match!Evaluate(w, ranges, fixes) = "FIXED_VERSION"
  <2>1. v # Match!NoVersion /\ w # Match!NoVersion
    BY <1>4 DEF Match!CompareVersions, Match!Ordered, Match!Inconclusive
  <2>2. PICK f \in fixes : Match!CompareVersions(v, f) \in {0, 1}
    BY <1>3, <1>4
  <2>3. Precedes(v, w)
    BY <1>4, <2>1, Compared
  <2>4. Alike(v, f) \/ Precedes(f, v)
    BY <1>2, <2>1, <2>2, Compared
  <2>5. Precedes(f, w)
    <3>1. CASE Alike(v, f)
      BY <1>2, <2>3, <3>1, AlikeReplaces
    <3>2. CASE Precedes(f, v)
      BY <1>2, <2>3, <3>2, PrecedesTransitive
    <3> QED BY <2>4, <3>1, <3>2
  <2>6. Match!CompareVersions(w, f) = 1
    <3>1. ~Alike(w, f)
      BY <1>2, <2>5, Exclusive DEF Alike
    <3> QED BY <1>2, <2>1, <2>5, <3>1, Compared, Exclusive
  <2> QED BY <2>1, <2>6 DEF Match!Evaluate
<1>5. ASSUME Match!OneBranch(blocks), NEW r \in ranges, Match!IsInRange(v, r)
      PROVE  Match!Evaluate(v, ranges, fixes) = "AFFECTED_RANGE"
  <2>1. v # Match!NoVersion
    BY <1>5 DEF Match!IsInRange
  <2>2. r.endIn = Match!NoVersion /\ r.endEx \in Match!Version
    BY <1>1, RangeEnds
  <2>3. ASSUME NEW f \in fixes, Match!CompareVersions(v, f) \in {0, 1} PROVE FALSE
    <3>1. r.endEx # Match!NoVersion /\ Match!CompareVersions(r.endEx, f) <= 0
      BY <1>1, <1>5 DEF Match!OneBranch
    <3>2. Alike(r.endEx, f) \/ Precedes(r.endEx, f)
      BY <1>2, <2>2, <3>1, Compared
    <3>3. Alike(v, f) \/ Precedes(f, v)
      BY <1>2, <2>1, <2>3, Compared
    <3>4. Match!CompareVersions(v, r.endEx) < 0
      BY <1>5, <2>2, <3>1 DEF Match!IsInRange, Match!BelowEnd
    <3>5. Precedes(v, r.endEx)
      BY <2>1, <2>2, <3>1, <3>4, Compared
    <3>6. Precedes(v, f)
      <4>1. CASE Alike(r.endEx, f)
        BY <2>2, <1>2, <3>5, <4>1, AlikeReplaces
      <4>2. CASE Precedes(r.endEx, f)
        BY <2>2, <1>2, <3>5, <4>2, PrecedesTransitive
      <4> QED BY <3>2, <4>1, <4>2
    <3>7. ~Alike(v, f)
      BY <1>2, <3>6, Exclusive DEF Alike
    <3> QED BY <1>2, <3>3, <3>6, <3>7, Exclusive
  <2> QED BY <1>5, <2>1, <2>3 DEF Match!Evaluate
<1>6. ASSUME Match!Evaluate(v, ranges, fixes) = "AFFECTED_RANGE"
      PROVE  /\ \E r \in ranges : Match!IsInRange(v, r)
             /\ \A f \in fixes : Match!CompareVersions(v, f) = -1
  <2>1. /\ v # Match!NoVersion
        /\ ~\E f \in fixes : Match!CompareVersions(v, f) \in {0, 1}
        /\ \E r \in ranges : Match!IsInRange(v, r)
    BY <1>6 DEF Match!Evaluate
  <2>2. \A f \in fixes : Match!CompareVersions(v, f) = -1
    BY <1>2, <2>1, Compared
  <2> QED BY <2>1, <2>2
<1> QED BY <1>1, <1>4, <1>5, <1>6 DEF Match!UpgradeHelps

\* However many ranges and fixes an advisory has, what is called affected lies in a range
\* and below every fix; if it has one branch, whatever lies in a range is called affected
\* and an upgrade never turns a fixed version into one that is not
\* (version_matcher.evaluate_vulnerability, sources/osv.parse_osv_advisory); and versions
\* are ordered.
THEOREM UpgradeNeverUnfixes == ServicesSpec => []UpgradeHelps
<1>1. Given => UpgradeHelps
  <2> SUFFICES ASSUME subject = "match", input \in Upgrades
               PROVE  /\ Match!VersionOrder(input.u, input.v, input.w)
                      /\ Match!UpgradeHelps(input.v, input.w, input.blocks)
    BY DEF Given, UpgradeHelps
  <2>1. /\ input.u \in Match!Version /\ input.v \in Match!Version /\ input.w \in Match!Version
        /\ input.blocks \in Seq(Seq([introduced : Match!Version, fixed : Match!Version]))
    BY UpgradesKnown
  <2> QED BY <2>1, VersionsOrdered, UpgradeSound
<1> QED BY <1>1, InputsGiven, PTL

-----------------------------------------------------------------------------
(* NetConfig *)

Grades == {"low", "medium", "high", "critical"}

\* g is f with more links or more open ports.
MoreExposed(f, g) ==
    /\ DOMAIN g.assets = DOMAIN f.assets
    /\ \A a \in DOMAIN f.assets :
          /\ g.assets[a].ip = f.assets[a].ip /\ g.assets[a].zone = f.assets[a].zone
          /\ g.assets[a].crit = f.assets[a].crit /\ g.assets[a].internet = f.assets[a].internet
          /\ g.assets[a].dmz = f.assets[a].dmz /\ f.assets[a].ports \subseteq g.assets[a].ports
          /\ f.assets[a].crit \in Grades
    /\ f.links \subseteq g.links
    /\ g.devices = f.devices /\ g.gateway = f.gateway /\ g.forwards = f.forwards
    /\ g.dhcp = f.dhcp /\ g.snooping = f.snooping

\* y tells at least what x tells.
Covers(y, x) ==
    /\ x.check = y.check /\ x.of = y.of /\ x.affected \subseteq y.affected
    /\ Config!SeverityRank[x.severity] <= Config!SeverityRank[y.severity]

LEMMA Graded ==
  /\ \A x \in Grades : Config!SeverityRank[x] \in Nat
  /\ \A x, y \in Grades : Config!SeverityRank[x] <= Config!SeverityRank[y] =>
        Config!SeverityModel[x][1] <= Config!SeverityModel[y][1]
BY DEF Grades, Config!SeverityRank, Config!SeverityModel

\* A finding covers itself.
LEMMA CoversSelf ==
  ASSUME NEW x, x.severity \in Grades
  PROVE  Covers(x, x)
BY Graded DEF Covers

LEMMA RealFields ==
  ASSUME NEW check, NEW of, NEW severity, NEW source, NEW affected, NEW x,
         x = Config!Real(check, of, severity, source, affected)
  PROVE  /\ x.check = check /\ x.of = of /\ x.severity = severity
         /\ x.affected = affected /\ x.status = "real"
BY DEF Config!Real, Config!Finding

\* What is unknown or passed is not real.
LEMMA NotReal ==
  /\ \A check : Config!Unknown(check).status # "real"
  /\ \A check, source : Config!Passed(check, source).status # "real"
BY DEF Config!Unknown, Config!Passed, Config!Finding

\* Every real finding of the set s is covered in the set t, and graded.
Kept(s, t) ==
    \A x \in s : x.status = "real" => x.severity \in Grades /\ \E y \in t : y.status = "real" /\ Covers(y, x)

LEMMA KeptAlike ==
  ASSUME NEW s, \A x \in s : x.status = "real" => x.severity \in Grades
  PROVE  Kept(s, s)
BY CoversSelf DEF Kept

LEMMA ReachMore ==
  ASSUME NEW f, NEW g, MoreExposed(f, g), NEW a
  PROVE  Config!Reachable(f, a) \subseteq Config!Reachable(g, a)
<1>1. Config!Ids(g) = Config!Ids(f) /\ f.links \subseteq g.links
  BY DEF MoreExposed, Config!Ids
<1>2. \A s : Config!Closed(g, s) => Config!Closed(f, s)
  BY <1>1 DEF Config!Closed
<1> QED BY <1>1, <1>2 DEF Config!Reachable

LEMMA SameZones ==
  ASSUME NEW f, NEW g, MoreExposed(f, g)
  PROVE  /\ Config!Ids(g) = Config!Ids(f) /\ Config!ZoneKinds(g) = Config!ZoneKinds(f)
         /\ Config!DmzAssets(g) = Config!DmzAssets(f) /\ Config!Facing(g) = Config!Facing(f)
         /\ Config!HasDmz(g) = Config!HasDmz(f) /\ Config!HasInventory(g) = Config!HasInventory(f)
<1>1. Config!Ids(g) = Config!Ids(f)
  BY DEF MoreExposed, Config!Ids
<1>2. Config!ZoneKinds(g) = Config!ZoneKinds(f)
  BY <1>1 DEF MoreExposed, Config!Ids, Config!ZoneKinds
<1>3. Config!DmzAssets(g) = Config!DmzAssets(f)
  BY <1>1 DEF MoreExposed, Config!Ids, Config!DmzAssets
<1>4. Config!Facing(g) = Config!Facing(f)
  BY <1>1 DEF MoreExposed, Config!Ids, Config!Facing
<1>5. Config!HasInventory(g) = Config!HasInventory(f)
  BY DEF MoreExposed, Config!HasInventory
<1> QED BY <1>1, <1>2, <1>3, <1>4, <1>5 DEF Config!HasDmz

LEMMA DmzKept ==
  ASSUME NEW f, NEW g, MoreExposed(f, g)
  PROVE  Kept(Config!DetectDmz(f), Config!DetectDmz(g))
<1>1. Kept(Config!FlatNetwork(f), Config!FlatNetwork(g))
  <2>1. Config!FlatNetwork(g) = Config!FlatNetwork(f)
    BY SameZones DEF Config!FlatNetwork
  <2>2. \A x \in Config!FlatNetwork(f) : x.severity \in Grades
    BY RealFields DEF Config!FlatNetwork, Grades
  <2> QED BY <2>1, <2>2, KeptAlike
<1>2. Kept(Config!SensitiveInDmz(f), Config!SensitiveInDmz(g))
  <2> DEFINE Row(h, a) == Config!Real("sensitive-in-dmz", h.assets[a].ip, h.assets[a].crit, "observed", {a})
             There(h) == {b \in Config!Ids(h) : h.assets[b].zone = "dmz" /\ h.assets[b].crit \in {"high", "critical"}}
  <2>1. ASSUME NEW x \in Config!SensitiveInDmz(f) PROVE x \in Config!SensitiveInDmz(g) /\ x.severity \in Grades
    <3>1. PICK a \in There(f) : x = Row(f, a)
      BY DEF Config!SensitiveInDmz
    <3>2. a \in There(g) /\ g.assets[a].ip = f.assets[a].ip /\ g.assets[a].crit = f.assets[a].crit
      BY <3>1, SameZones DEF MoreExposed, Config!Ids
    <3>3. Row(g, a) = Row(f, a)
      BY <3>2
    <3>4. Row(g, a) \in Config!SensitiveInDmz(g)
      BY <3>2 DEF Config!SensitiveInDmz
    <3>5. x.severity = f.assets[a].crit
      BY <3>1, RealFields
    <3> QED BY <3>1, <3>3, <3>4, <3>5 DEF Grades
  <2> QED BY <2>1, CoversSelf DEF Kept

<1>3. Kept(Config!Segmentation(f), Config!Segmentation(g))
  <2> SUFFICES ASSUME NEW x \in Config!Segmentation(f)
               PROVE  x.severity \in Grades /\ \E y \in Config!Segmentation(g) : y.status = "real" /\ Covers(y, x)
    BY DEF Kept
  <2> DEFINE Grade(h, d) == IF \E r \in Config!Sensitive(h, d) : h.assets[r].zone = "crown_jewel" THEN "critical" ELSE "high"
             Source(h, d) == IF h.assets[d].dmz /\ h.assets[d].zone # "dmz" THEN "declared" ELSE "observed"
             Leak(h, d) == Config!Real("segmentation", h.assets[d].ip, Grade(h, d), Source(h, d), {d})
  <2>1. PICK d \in Config!DmzAssets(f) : Config!Sensitive(f, d) # {} /\ x = Leak(f, d)
    BY DEF Config!Segmentation
  <2>2. d \in Config!DmzAssets(g) /\ d \in Config!Ids(f)
    BY <2>1, SameZones DEF Config!DmzAssets
  <2>3. Config!Sensitive(f, d) \subseteq Config!Sensitive(g, d)
    <3>1. \A r \in Config!Ids(f) : g.assets[r].zone = f.assets[r].zone
      BY DEF MoreExposed, Config!Ids
    <3>2. Config!Reachable(f, d) \subseteq Config!Ids(f)
      BY DEF Config!Reachable
    <3> QED BY <3>1, <3>2, ReachMore DEF Config!Sensitive
  <2>4. Grade(f, d) \in Grades /\ Config!SeverityRank[Grade(f, d)] <= Config!SeverityRank[Grade(g, d)]
    <3>1. Grade(f, d) = "critical" => Grade(g, d) = "critical"
      <4>1. \A r \in Config!Sensitive(f, d) : g.assets[r].zone = f.assets[r].zone
        BY DEF MoreExposed, Config!Ids, Config!Sensitive, Config!Reachable
      <4> QED BY <2>3, <4>1
    <3> QED BY <3>1 DEF Grades, Config!SeverityRank
  <2>5. Leak(g, d) \in Config!Segmentation(g)
    BY <2>1, <2>2, <2>3 DEF Config!Segmentation
  <2>6. g.assets[d].ip = f.assets[d].ip
    BY <2>2 DEF MoreExposed, Config!Ids
  <2> HIDE DEF Grade, Source
  <2>7. /\ x.check = "segmentation" /\ x.of = f.assets[d].ip /\ x.severity = Grade(f, d)
        /\ x.affected = {d} /\ x.status = "real"
    BY <2>1, RealFields
  <2>8. PICK y : y = Leak(g, d)
    OBVIOUS
  <2>9. /\ y.check = "segmentation" /\ y.of = g.assets[d].ip /\ y.severity = Grade(g, d)
        /\ y.affected = {d} /\ y.status = "real"
    BY <2>8, RealFields
  <2>10. Covers(y, x)
    BY <2>4, <2>6, <2>7, <2>9 DEF Covers
  <2> QED BY <2>4, <2>5, <2>7, <2>8, <2>9, <2>10
<1>4. CASE ~Config!HasDmz(f) /\ Config!HasInventory(f)
  <2>1. /\ Config!DetectDmz(f) = {Config!Real("flat-network-live", Config!NONE, "medium", "observed", {})}
        /\ Config!DetectDmz(g) = Config!DetectDmz(f)
    BY <1>4, SameZones DEF Config!DetectDmz
  <2>2. \A x \in Config!DetectDmz(f) : x.severity \in Grades
    BY <2>1, RealFields DEF Grades
  <2> QED BY <2>1, <2>2, KeptAlike
<1>5. CASE ~(~Config!HasDmz(f) /\ Config!HasInventory(f)) /\ ~Config!HasDmz(f) /\ Config!ZoneKinds(f) = {}
  <2>1. Config!DetectDmz(f) = {Config!Unknown("zones-unknown")}
    BY <1>5 DEF Config!DetectDmz
  <2> QED BY <2>1, NotReal DEF Kept
<1>6. CASE ~(~Config!HasDmz(f) /\ Config!HasInventory(f)) /\ ~(~Config!HasDmz(f) /\ Config!ZoneKinds(f) = {})
  <2>1. /\ Config!DetectDmz(f) = Config!FlatNetwork(f) \cup Config!Segmentation(f) \cup Config!SensitiveInDmz(f)
        /\ Config!DetectDmz(g) = Config!FlatNetwork(g) \cup Config!Segmentation(g) \cup Config!SensitiveInDmz(g)
    BY <1>6, SameZones DEF Config!DetectDmz
  <2> QED BY <1>1, <1>2, <1>3, <2>1 DEF Kept
<1> QED BY <1>4, <1>5, <1>6

LEMMA NatKept ==
  ASSUME NEW f, NEW g, MoreExposed(f, g)
  PROVE  Kept(Config!DetectNat(f), Config!DetectNat(g))
<1>1. Kept(Config!ExposedInternal(f), Config!ExposedInternal(g))
  <2> DEFINE Grade(h, a) == IF h.assets[a].crit = "low" THEN "medium" ELSE h.assets[a].crit
             Row(h, a) == Config!Real("exposed-internal", h.assets[a].ip, Grade(h, a), "observed", {a})
             There(h) == {b \in Config!Facing(h) : h.assets[b].zone \in Config!Inner}
  <2>1. ASSUME NEW x \in Config!ExposedInternal(f) PROVE x \in Config!ExposedInternal(g) /\ x.severity \in Grades
    <3>1. PICK a \in There(f) : x = Row(f, a)
      BY DEF Config!ExposedInternal
    <3>2. /\ a \in Config!Ids(f) /\ g.assets[a].ip = f.assets[a].ip /\ g.assets[a].zone = f.assets[a].zone
          /\ g.assets[a].crit = f.assets[a].crit /\ f.assets[a].crit \in Grades
      BY <3>1 DEF MoreExposed, Config!Ids, Config!Facing
    <3>3. Row(g, a) = Row(f, a) /\ a \in There(g)
      BY <3>1, <3>2, SameZones
    <3>4. Row(g, a) \in Config!ExposedInternal(g)
      BY <3>3 DEF Config!ExposedInternal
    <3>5. Grade(f, a) \in Grades
      BY <3>2 DEF Grades
    <3>6. x.severity = Grade(f, a)
      BY <3>1, RealFields
    <3> QED BY <3>1, <3>3, <3>4, <3>5, <3>6
  <2> QED BY <2>1, CoversSelf DEF Kept
<1>2. Kept(Config!ExposedPorts(f), Config!ExposedPorts(g))
  <2> SUFFICES ASSUME NEW x \in Config!ExposedPorts(f)
               PROVE  x.severity \in Grades /\ \E y \in Config!ExposedPorts(g) : y.status = "real" /\ Covers(y, x)
    BY DEF Kept
  <2> DEFINE Open(a, p) == Config!Real("exposed-port", <<f.assets[a].ip, p>>, Config!PortSeverity(p, f.assets[a].internet), "observed", {a})
  <2>0. PICK a \in Config!Ids(f) : \E p \in Config!Flagged(f, a) : x = Open(a, p)
    BY DEF Config!ExposedPorts
  <2>1. PICK p \in Config!Flagged(f, a) : x = Open(a, p)
    BY <2>0
  <2>2. /\ a \in Config!Ids(g) /\ g.assets[a].ip = f.assets[a].ip /\ g.assets[a].internet = f.assets[a].internet
        /\ f.assets[a].ports \subseteq g.assets[a].ports
    BY <2>1 DEF MoreExposed, Config!Ids
  <2>3. p \in Config!Flagged(g, a)
    BY <2>1, <2>2 DEF Config!Flagged
  <2>4. x \in Config!ExposedPorts(g)
    <3>1. Config!Real("exposed-port", <<g.assets[a].ip, p>>, Config!PortSeverity(p, g.assets[a].internet), "observed", {a})
             \in Config!ExposedPorts(g)
      BY <2>2, <2>3 DEF Config!ExposedPorts
    <3> QED BY <2>1, <2>2, <3>1
  <2>5. x.severity \in Grades /\ x.status = "real"
    <3>1. Config!PortSeverity(p, f.assets[a].internet) \in Grades
      BY DEF Config!PortSeverity, Grades
    <3> QED BY <2>1, <3>1, RealFields
  <2> QED BY <2>4, <2>5, CoversSelf
<1>3. Kept(Config!Forwards(f), Config!Forwards(g))
  <2>1. Config!Forwards(g) = Config!Forwards(f)
    <3>1. \A ip : {a \in Config!Ids(g) : g.assets[a].ip = ip} = {a \in Config!Ids(f) : f.assets[a].ip = ip}
      BY DEF MoreExposed, Config!Ids
    <3>2. \A ip : Config!ByIp(g, ip) = Config!ByIp(f, ip)
      BY <3>1 DEF Config!ByIp
    <3>3. g.forwards = f.forwards
      BY DEF MoreExposed
    <3> QED BY <3>2, <3>3 DEF Config!Forwards
  <2>2. \A x \in Config!Forwards(f) : x.status = "real" => x.severity \in Grades
    <3> DEFINE Grade(p) == IF p.port \in Config!DbPorts THEN "critical" ELSE "high"
    <3>1. ASSUME NEW x \in Config!Forwards(f), x.status = "real" PROVE x.severity \in Grades
      <4>1. f.forwards # {}
        BY <3>1, NotReal DEF Config!Forwards
      <4>2. PICK p \in f.forwards : x = Config!Real("forward", <<p.external, p.ip>>, Grade(p), "declared", Config!ByIp(f, p.ip))
        BY <4>1 DEF Config!Forwards
      <4>3. x.severity = Grade(p)
        BY <4>2, RealFields
      <4> QED BY <4>3 DEF Grades
    <3> QED BY <3>1
  <2> QED BY <2>1, <2>2, KeptAlike
<1>4. ASSUME NEW x \in Config!DetectNat(f), x.status = "real"
      PROVE  x \in Config!ExposedInternal(f) \cup Config!ExposedPorts(f) \cup Config!Forwards(f)
  BY <1>4, NotReal DEF Config!DetectNat
<1>5. Config!ExposedInternal(g) \cup Config!ExposedPorts(g) \cup Config!Forwards(g) \subseteq Config!DetectNat(g)
  BY DEF Config!DetectNat
<1> HIDE DEF Config!DetectNat
<1> QED BY <1>1, <1>2, <1>3, <1>4, <1>5 DEF Kept

LEMMA DhcpKept ==
  ASSUME NEW f, NEW g, MoreExposed(f, g)
  PROVE  Kept(Config!DetectDhcp(f), Config!DetectDhcp(g))
<1>1. g.devices = f.devices /\ g.gateway = f.gateway /\ g.dhcp = f.dhcp /\ g.snooping = f.snooping
  BY DEF MoreExposed
<1>2. Config!ObservedGateway(g) = Config!ObservedGateway(f)
  BY <1>1 DEF Config!ObservedGateway
<1>3. Config!GatewayIp(g) = Config!GatewayIp(f) /\ Config!Inferred(g) = Config!Inferred(f)
  BY <1>1, <1>2 DEF Config!GatewayIp, Config!Inferred
<1>4. Config!DhcpServers(g) = Config!DhcpServers(f)
  BY <1>1, <1>2, <1>3 DEF Config!DhcpServers
<1>5. Config!Responders(g) = Config!Responders(f) /\ Config!Snooping(g) = Config!Snooping(f)
  BY <1>1, <1>3, <1>4 DEF Config!Responders, Config!Snooping
<1>6. Config!DetectDhcp(g) = Config!DetectDhcp(f)
  BY <1>4, <1>5 DEF Config!DetectDhcp
<1>7. \A x \in Config!Responders(f) : x.status = "real" => x.severity \in Grades
  BY RealFields, NotReal DEF Config!Responders, Grades
<1>8. \A x \in Config!Snooping(f) : x.status = "real" => x.severity \in Grades
  BY RealFields, NotReal DEF Config!Snooping, Grades
<1>9. \A x \in Config!DetectDhcp(f) : x.status = "real" => x.severity \in Grades
  BY <1>7, <1>8, NotReal DEF Config!DetectDhcp
<1> QED BY <1>6, <1>9, KeptAlike

LEMMA StillTold ==
  ASSUME NEW f, NEW g, MoreExposed(f, g)
  PROVE  Config!StillTold(f, g)
<1>1. Kept(Config!RunAll(f), Config!RunAll(g))
  BY DmzKept, NatKept, DhcpKept DEF Kept, Config!RunAll
<1>2. \A x \in Config!Reality(f) : x.severity \in Grades /\ \E y \in Config!Reality(g) : Covers(y, x)
  BY <1>1 DEF Kept, Config!Reality
<1>3. Kept(Config!RunAll(g), Config!RunAll(g))
  <2>1. MoreExposed(g, g)
    BY DEF MoreExposed
  <2> QED BY <2>1, DmzKept, NatKept, DhcpKept DEF Kept, Config!RunAll
<1>4. \A y \in Config!Reality(g) : y.severity \in Grades
  BY <1>3 DEF Kept, Config!Reality
<1>5. ASSUME NEW m \in Config!Mapping(f)
      PROVE  \E n \in Config!Mapping(g) : m.asset = n.asset /\ m.weakness = n.weakness /\ m.score[1] <= n.score[1]
  <2> DEFINE Row(x, a) == [asset |-> a, weakness |-> <<x.check, x.of>>, score |-> Config!SeverityModel[x.severity]]
  <2>1. PICK x \in Config!Reality(f) : \E a \in x.affected : m = Row(x, a)
    BY DEF Config!Mapping, Config!Reality
  <2>2. PICK a \in x.affected : m = Row(x, a)
    BY <2>1
  <2>3. PICK y \in Config!Reality(g) : Covers(y, x)
    BY <1>2
  <2>4. a \in y.affected
    BY <2>3 DEF Covers
  <2>5. Row(y, a) \in Config!Mapping(g)
    BY <2>3, <2>4 DEF Config!Mapping, Config!Reality
  <2>6. /\ m.asset = a /\ m.weakness = <<x.check, x.of>> /\ m.score = Config!SeverityModel[x.severity]
        /\ Row(y, a).asset = a /\ Row(y, a).weakness = <<y.check, y.of>>
        /\ Row(y, a).score = Config!SeverityModel[y.severity]
    BY <2>2
  <2>7. Config!SeverityModel[x.severity][1] <= Config!SeverityModel[y.severity][1]
    BY <1>2, <1>4, <2>3, Graded DEF Covers
  <2>8. x.check = y.check /\ x.of = y.of
    BY <2>3 DEF Covers
  <2> HIDE DEF Row
  <2> QED BY <2>5, <2>6, <2>7, <2>8
<1> QED BY <1>2, <1>5 DEF Config!StillTold, Covers

\* The same of every organisation.
LEMMA ExposureSound ==
  ASSUME NEW Ids,
         NEW assets \in [Ids -> [ip : STRING, zone : STRING, crit : Grades, internet : BOOLEAN,
                                 ports : SUBSET Nat, dmz : BOOLEAN]],
         NEW links, NEW devices, NEW gateway, NEW forwards, NEW dhcp, NEW snooping,
         NEW f, f = [assets |-> assets, links |-> links, devices |-> devices, gateway |-> gateway,
                     forwards |-> forwards, dhcp |-> dhcp, snooping |-> snooping]
  PROVE  Config!ExposureShows(f)
<1>1. Config!Ids(f) = Ids /\ f.assets = assets /\ \A a \in Ids : f.assets[a].crit \in Grades
  BY DEF Config!Ids
<1>2. ASSUME NEW a \in Ids, NEW b \in Ids
      PROVE  Config!StillTold(f, [f EXCEPT !.links = @ \cup {<<a, b>>}])
  <2>1. PICK g : g = [f EXCEPT !.links = @ \cup {<<a, b>>}]
    OBVIOUS
  <2>2. g = [assets |-> assets, links |-> links \cup {<<a, b>>}, devices |-> devices, gateway |-> gateway,
             forwards |-> forwards, dhcp |-> dhcp, snooping |-> snooping]
    BY <2>1
  <2>3. MoreExposed(f, g)
    BY <1>1, <2>2 DEF MoreExposed
  <2> QED BY <2>1, <2>3, StillTold
<1>3. ASSUME NEW a \in Ids, NEW p \in Config!SensitivePorts
      PROVE  Config!StillTold(f, [f EXCEPT !.assets[a].ports = @ \cup {p}])
  <2>1. PICK g : g = [f EXCEPT !.assets[a].ports = @ \cup {p}]
    OBVIOUS
  <2>2. PICK x : x = [assets[a] EXCEPT !.ports = assets[a].ports \cup {p}]
    OBVIOUS
  <2>3. g = [assets |-> [assets EXCEPT ![a] = x], links |-> links, devices |-> devices, gateway |-> gateway,
             forwards |-> forwards, dhcp |-> dhcp, snooping |-> snooping]
    BY <2>1, <2>2
  <2>4. /\ x.ip = assets[a].ip /\ x.zone = assets[a].zone /\ x.crit = assets[a].crit
        /\ x.internet = assets[a].internet /\ x.dmz = assets[a].dmz /\ x.ports = assets[a].ports \cup {p}
    BY <2>2
  <2>5. DOMAIN g.assets = Ids /\ g.assets[a] = x /\ \A b \in Ids : b # a => g.assets[b] = assets[b]
    BY <2>3
  <2>6. /\ g.links = f.links /\ g.devices = f.devices /\ g.gateway = f.gateway /\ g.forwards = f.forwards
        /\ g.dhcp = f.dhcp /\ g.snooping = f.snooping
    BY <2>3
  <2>7. MoreExposed(f, g)
    BY <1>1, <2>4, <2>5, <2>6 DEF MoreExposed
  <2> QED BY <2>1, <2>7, StillTold
<1> QED BY <1>1, <1>2, <1>3 DEF Config!ExposureShows

\* The same of every organisation.
THEOREM ExposureNeverHides == ServicesSpec => []ExposureShows
<1>1. Given => ExposureShows
  <2> SUFFICES ASSUME subject = "config", input \in Facts PROVE Config!ExposureShows(input)
    BY DEF Given, ExposureShows
  <2>1. Severities = Grades
    BY DEF Severities, Grades
  <2>2. /\ input = [assets |-> input.assets, links |-> input.links, devices |-> input.devices,
                    gateway |-> input.gateway, forwards |-> input.forwards, dhcp |-> input.dhcp,
                    snooping |-> input.snooping]
        /\ input.assets \in [DOMAIN input.assets -> [ip : STRING, zone : STRING, crit : Grades, internet : BOOLEAN,
                                                      ports : SUBSET Nat, dmz : BOOLEAN]]
    BY <2>1, FactsKnown
  <2> QED BY <2>2, ExposureSound
<1> QED BY <1>1, InputsGiven, PTL

-----------------------------------------------------------------------------
(* DeviceView *)

\* The CVSS of each CVE is a number, and there is a largest.
Bounded(cves) == \E bound \in Nat : \A c \in cves : c.cvss \in Nat /\ c.cvss <= bound

LEMMA MaxFound ==
  ASSUME NEW cves, Bounded(cves)
  PROVE  /\ View!MaxCvss(cves) \in Nat /\ \A c \in cves : c.cvss <= View!MaxCvss(cves)
         /\ View!MaxCvss(cves) = 0 \/ \E c \in cves : c.cvss = View!MaxCvss(cves)
<1> DEFINE S == {n \in Nat : \A c \in cves : c.cvss <= n}
           T == {0} \cup {c.cvss : c \in cves}
<1>1. S \in SUBSET Nat /\ S # {} /\ \A c \in cves : c.cvss \in Nat
  BY DEF Bounded
<1>2. PICK n \in S : \A m \in S : n <= m
  BY <1>1, Least
<1>3. n = 0 \/ \E c \in cves : c.cvss = n
  <2>1. CASE n # 0
    <3>1. n - 1 \in Nat /\ n - 1 \notin S
      BY <1>2, <2>1
    <3>2. PICK c \in cves : ~(c.cvss <= n - 1)
      BY <3>1
    <3>3. c.cvss = n
      BY <1>1, <1>2, <3>2
    <3> QED BY <3>3
  <2> QED BY <2>1
<1>4. n \in T /\ \A c \in cves : c.cvss <= n
  BY <1>2, <1>3
<1>5. /\ View!MaxCvss(cves) \in T /\ \A c \in cves : c.cvss <= View!MaxCvss(cves)
  BY <1>4 DEF View!MaxCvss
<1>6. \A x \in T : x \in Nat
  BY <1>1
<1> QED BY <1>5, <1>6

LEMMA MaxGrows ==
  ASSUME NEW more, Bounded(more), NEW cves \in SUBSET more
  PROVE  /\ Bounded(cves) /\ View!MaxCvss(cves) \in Nat /\ View!MaxCvss(more) \in Nat
         /\ View!MaxCvss(cves) <= View!MaxCvss(more)
<1>1. Bounded(cves)
  BY DEF Bounded
<1> QED BY <1>1, MaxFound

\* What is confirmed weighs more, the more there is of it.
LEMMA VulnGrows ==
  ASSUME NEW more, Bounded(more), \A c \in more : c.state \in View!Confirmed, NEW cves \in SUBSET more
  PROVE  /\ View!VulnComponent(cves) \in Nat /\ View!VulnComponent(more) \in Nat
         /\ View!VulnComponent(cves) <= View!VulnComponent(more)
<1>1. PICK m, n : m = View!Clamp(View!MaxCvss(cves), 0, 100) /\ n = View!Clamp(View!MaxCvss(more), 0, 100)
  OBVIOUS
<1>2. m \in 0..100 /\ n \in 0..100 /\ m <= n
  BY <1>1, MaxGrows DEF View!Clamp
<1> DEFINE Known(s) == \E c \in s : c.state = "KNOWN_EXPLOITED"
           Plain(s) == \E c \in s : c.state = "VULNERABLE"
           Weight(s, k) == IF Known(s) THEN 8000 + 20 * k ELSE IF Plain(s) THEN 100 * k ELSE 0
<1>3. /\ \A c \in more : c.state \in {"VULNERABLE", "KNOWN_EXPLOITED"}
      /\ \A c \in cves : c.state \in {"VULNERABLE", "KNOWN_EXPLOITED"}
  BY DEF View!Confirmed
<1>4. View!VulnComponent(cves) = Weight(cves, m)
  BY <1>1, <1>3 DEF View!VulnComponent
<1>5. View!VulnComponent(more) = Weight(more, n)
  BY <1>1, <1>3 DEF View!VulnComponent
<1>6. (Known(cves) => Known(more)) /\ (Plain(cves) => Plain(more))
  OBVIOUS
<1> HIDE DEF Known, Plain
<1> QED BY <1>2, <1>4, <1>5, <1>6

LEMMA KevGrows ==
  ASSUME NEW more, NEW cves \in SUBSET more
  PROVE  /\ View!KevComponent(cves) \in Nat /\ View!KevComponent(more) \in Nat
         /\ View!KevComponent(cves) <= View!KevComponent(more)
BY DEF View!KevComponent

\* A verdict of the traffic model, or none.
Judged(ai) == ai = None \/ ai.confidence \in Int

LEMMA AiCounts ==
  ASSUME NEW ai, Judged(ai)
  PROVE  View!AiComponent(ai) \in Nat
<1>1. CASE ai = None
  BY <1>1 DEF View!AiComponent
<1>2. CASE ai # None
  <2>1. PICK k : k = View!Clamp(ai.confidence, 0, 100)
    OBVIOUS
  <2>2. k \in Nat
    BY <1>2, <2>1 DEF Verdict, View!Clamp
  <2>3. View!AiComponent(ai) \in {k * 25, k * 12, k * 0}
    BY <1>2, <2>1 DEF View!AiComponent
  <2> QED BY <2>2, <2>3
<1> QED BY <1>1, <1>2

\* The score adds three parts and is kept in its range.
LEMMA ScoreGrows ==
  ASSUME NEW d, NEW e,
         NEW v \in Nat, NEW w \in Nat, v = View!VulnComponent(View!AllCves(d)), w = View!VulnComponent(View!AllCves(e)), v <= w,
         NEW j \in Nat, NEW k \in Nat, j = View!KevComponent(View!AllCves(d)), k = View!KevComponent(View!AllCves(e)), j <= k,
         NEW a \in Nat, NEW b \in Nat, a = View!AiComponent(d.ai), b = View!AiComponent(e.ai), a <= b
  PROVE  View!Score(e) >= View!Score(d)
<1>1. PICK x, y : x = (v * 6) \div 10 /\ y = (w * 6) \div 10
  OBVIOUS
<1>2. x \in Int /\ y \in Int /\ x <= y
  BY <1>1
<1>3. View!Score(d) = View!Clamp(x + j + a, 0, 10000) /\ View!Score(e) = View!Clamp(y + k + b, 0, 10000)
  BY <1>1 DEF View!Score
<1>4. x + j + a \in Int /\ y + k + b \in Int /\ x + j + a <= y + k + b
  BY <1>2
<1> QED BY <1>3, <1>4 DEF View!Clamp

\* The ladder of a device with more CVEs and the same scan.
LEMMA LadderClimbs ==
  ASSUME None \notin {"OPEN", "EXPOSED", "POTENTIAL_MATCH", "VULNERABLE", "KNOWN_EXPLOITED"},
         NEW d, NEW e, e.scan = d.scan, View!AllCves(d) \subseteq View!AllCves(e)
  PROVE  View!Rank[View!Ladder(e)] >= View!Rank[View!Ladder(d)]
<1>1. View!Offered(e) = View!Offered(d) /\ View!Ports(e) = View!Ports(d)
  BY DEF View!Offered, View!Ports
<1>2. /\ View!Rank[None] = 0 /\ View!Rank["OPEN"] = 1 /\ View!Rank["EXPOSED"] = 2
      /\ View!Rank["POTENTIAL_MATCH"] = 3 /\ View!Rank["VULNERABLE"] = 4 /\ View!Rank["KNOWN_EXPLOITED"] = 5
  BY DEF View!Rank
<1> DEFINE Low(x) == IF \E s \in View!Offered(x) : s.cpe # None THEN "POTENTIAL_MATCH"
                     ELSE IF View!Offered(x) # {} THEN "EXPOSED" ELSE IF View!Ports(x) # {} THEN "OPEN" ELSE None
           High(x) == IF \E c \in View!AllCves(x) : c.kev THEN "KNOWN_EXPLOITED" ELSE "VULNERABLE"
<1>3. \A x : View!Ladder(x) = IF View!AllCves(x) = {} THEN Low(x) ELSE High(x)
  BY DEF View!Ladder
<1>4. Low(e) = Low(d) /\ Low(d) \in {None, "OPEN", "EXPOSED", "POTENTIAL_MATCH"}
  BY <1>1
<1>5. /\ High(e) \in {"VULNERABLE", "KNOWN_EXPLOITED"} /\ High(d) \in {"VULNERABLE", "KNOWN_EXPLOITED"}
      /\ High(d) = "KNOWN_EXPLOITED" => High(e) = "KNOWN_EXPLOITED"
  OBVIOUS
<1> HIDE DEF Low, High
<1>6. View!Ladder(d) = IF View!AllCves(d) = {} THEN Low(d) ELSE High(d)
  BY <1>3
<1>7. View!Ladder(e) = IF View!AllCves(e) = {} THEN Low(e) ELSE High(e)
  BY <1>3
<1>8. View!AllCves(e) = {} => View!AllCves(d) = {}
  OBVIOUS
<1> QED BY <1>2, <1>4, <1>5, <1>6, <1>7, <1>8

\* The same of every device.
LEMMA EvidenceSound ==
  ASSUME None \notin {"OPEN", "EXPOSED", "POTENTIAL_MATCH", "VULNERABLE", "KNOWN_EXPLOITED"},
         NEW deep, NEW tried, NEW open, NEW found, NEW ai, Judged(ai),
         NEW findings, found \in Seq(findings), Bounded(findings),
         deep # None => Bounded(deep.cves),
         NEW verdicts, \A v \in verdicts : Judged(v),
         NEW d, d = [scan |-> deep, tried |-> tried, open |-> open, findings |-> found, ai |-> ai]
  PROVE  View!EvidenceRaises(d, findings, verdicts)
<1>1. \A c \in View!ScanCves(d) : c.state \in View!Confirmed
  BY DEF View!ScanCves, View!Confirmed
<1>2. Bounded(View!ScanCves(d))
  <2>1. CASE deep = None
    BY <2>1 DEF Bounded, View!ScanCves
  <2>2. CASE deep # None
    <3>1. PICK bound \in Nat : \A c \in deep.cves : c.cvss \in Nat /\ c.cvss <= bound
      BY <2>2 DEF Bounded
    <3>2. \A c \in View!ScanCves(d) : \E b \in deep.cves : c.cvss = b.cvss
      BY <2>2 DEF View!ScanCves
    <3> QED BY <3>1, <3>2 DEF Bounded
  <2> QED BY <2>1, <2>2
<1>3. ASSUME NEW e, View!ScanCves(e) = View!ScanCves(d), e.findings \in Seq(findings)
      PROVE  Bounded(View!AllCves(e)) /\ \A c \in View!AllCves(e) : c.state \in View!Confirmed
  <2>1. View!AllCves(e) = View!ScanCves(d) \cup View!EndpointCves(e) /\ View!EndpointCves(e) \subseteq findings
    <3>1. \A i \in DOMAIN e.findings : e.findings[i] \in findings
      BY <1>3
    <3> QED BY <1>3, <3>1 DEF View!AllCves, View!EndpointCves
  <2>2. \A c \in View!EndpointCves(e) : c.state \in View!Confirmed
    BY DEF View!EndpointCves
  <2>3. Bounded(View!AllCves(e))
    <3>1. PICK m \in Nat : \A c \in View!ScanCves(d) : c.cvss \in Nat /\ c.cvss <= m
      BY <1>2 DEF Bounded
    <3>2. PICK n \in Nat : \A c \in findings : c.cvss \in Nat /\ c.cvss <= n
      BY DEF Bounded
    <3>3. m + n \in Nat /\ \A c \in View!AllCves(e) : c.cvss \in Nat /\ c.cvss <= m + n
      BY <2>1, <3>1, <3>2
    <3> QED BY <3>3 DEF Bounded
  <2> QED BY <1>1, <2>1, <2>2, <2>3
<1>4. ASSUME NEW f \in findings PROVE View!NotBelow(d, [d EXCEPT !.findings = Append(@, f)])
  <2>1. PICK e : e = [d EXCEPT !.findings = Append(@, f)]
    OBVIOUS
  <2>2. e.scan = d.scan /\ e.ai = d.ai /\ e.findings = Append(found, f) /\ d.findings = found /\ d.ai = ai
    BY <2>1
  <2>3. View!ScanCves(e) = View!ScanCves(d)
    BY <2>2 DEF View!ScanCves
  <2>4. View!AllCves(d) \subseteq View!AllCves(e)
    <3>1. /\ e.findings \in Seq(findings) /\ DOMAIN found = 1..Len(found) /\ Len(found) \in Nat
          /\ DOMAIN e.findings = 1..Len(found) + 1
          /\ \A i \in DOMAIN found : i \in DOMAIN e.findings /\ e.findings[i] = found[i]
          /\ \A j \in DOMAIN e.findings : \A i \in DOMAIN found : j < i => j \in DOMAIN found
      BY <2>2
    <3> QED BY <2>2, <2>3, <3>1 DEF View!AllCves, View!EndpointCves
  <2>5. Bounded(View!AllCves(e)) /\ \A c \in View!AllCves(e) : c.state \in View!Confirmed
    <3>1. e.findings \in Seq(findings)
      BY <2>2
    <3> QED BY <1>3, <2>3, <3>1
  <2>6. View!Score(e) >= View!Score(d)
    BY <2>2, <2>4, <2>5, VulnGrows, KevGrows, AiCounts, ScoreGrows
  <2>7. View!Rank[View!Ladder(e)] >= View!Rank[View!Ladder(d)]
    BY <2>2, <2>4, LadderClimbs
  <2> QED BY <2>1, <2>6, <2>7 DEF View!NotBelow
<1>5. ASSUME NEW v \in verdicts
      PROVE  LET e == [d EXCEPT !.ai = v]
             IN /\ View!Ladder(e) = View!Ladder(d)
                /\ View!AiComponent(v) >= View!AiComponent(d.ai) => View!Score(e) >= View!Score(d)
  <2>1. PICK e : e = [d EXCEPT !.ai = v]
    OBVIOUS
  <2>2. e.scan = d.scan /\ e.findings = d.findings /\ e.ai = v /\ d.ai = ai /\ d.findings = found
    BY <2>1
  <2>3. View!ScanCves(e) = View!ScanCves(d) /\ View!Offered(e) = View!Offered(d) /\ View!Ports(e) = View!Ports(d)
    BY <2>2 DEF View!ScanCves, View!Offered, View!Ports
  <2>4. View!AllCves(e) = View!AllCves(d)
    BY <2>2, <2>3 DEF View!AllCves, View!EndpointCves
  <2>5. View!Ladder(e) = View!Ladder(d)
    BY <2>3, <2>4 DEF View!Ladder
  <2>6. ASSUME View!AiComponent(v) >= View!AiComponent(d.ai) PROVE View!Score(e) >= View!Score(d)
    <3>1. Bounded(View!AllCves(d)) /\ \A c \in View!AllCves(d) : c.state \in View!Confirmed
      BY <1>3, <2>2
    <3>2. View!VulnComponent(View!AllCves(d)) \in Nat /\ View!KevComponent(View!AllCves(d)) \in Nat
      BY <3>1, VulnGrows, KevGrows
    <3>3. View!AiComponent(v) \in Nat /\ View!AiComponent(ai) \in Nat
      BY AiCounts
    <3> QED BY <2>2, <2>4, <2>6, <3>2, <3>3, ScoreGrows
  <2> QED BY <2>1, <2>5, <2>6
<1> QED BY <1>4, <1>5 DEF View!EvidenceRaises

\* The same of every device.
THEOREM EvidenceNeverLowers == ServicesSpec => []EvidenceRaises
<1>1. Given => EvidenceRaises
  <2> SUFFICES ASSUME subject = "view", input \in Rows
               PROVE  View!EvidenceRaises(input.device, EndpointFindings, AiVerdicts)
    BY DEF Given, EvidenceRaises
  <2>1. PICK d : d = input.device
    OBVIOUS
  <2>2. /\ d = [scan |-> d.scan, tried |-> d.tried, open |-> d.open, findings |-> d.findings, ai |-> d.ai]
        /\ d.scan # None => \A c \in d.scan.cves : c.cvss \in 0..100
        /\ d.findings \in Seq(EndpointFindings) /\ d.ai \in AiVerdicts
    BY <2>1, RowsKnown
  <2>3. ASSUME NEW cves, \A c \in cves : c.cvss \in 0..100 PROVE Bounded(cves)
    <3>1. \A c \in cves : c.cvss \in Nat /\ c.cvss <= 100
      BY <2>3
    <3>2. 100 \in Nat
      OBVIOUS
    <3> QED BY <3>1, <3>2 DEF Bounded
  <2>4. Bounded(EndpointFindings) /\ (d.scan # None => Bounded(d.scan.cves))
    BY <2>2, <2>3, RowsKnown
  <2>5. \A v \in AiVerdicts : Judged(v)
    <3>1. \A v \in AiVerdicts : v = None \/ v.confidence \in 0..100
      BY RowsKnown
    <3> QED BY <3>1 DEF Judged
  <2> QED BY <2>1, <2>2, <2>4, <2>5, StatesKnown, EvidenceSound
<1> QED BY <1>1, InputsGiven, PTL

-----------------------------------------------------------------------------
(* AiTasks *)

AiInv == Tasks!AiTypeOK /\ Tasks!DefensiveOnly

\* The guards leave an answer what it is: the model's or the template's.
LEMMA TemplateType ==
  ASSUME NEW f, NEW kind \in Kinds \cup {None}
  PROVE  Tasks!Template(f, kind) \in Tasks!Answer
BY DEF Tasks!Template, Tasks!Answer

LEMMA RefusalType == Tasks!Refusal \in Tasks!Answer /\ Tasks!Refusal.refused
BY DEF Tasks!Refusal, Tasks!Answer

\* An answer given without asking the model is one that was let through before,
\* and of the kind asked for.
LEMMA KnownIsSafe ==
  ASSUME AiInv, NEW f \in Findings, NEW kind \in Kinds, Tasks!Known(f, kind) # None
  PROVE  /\ Tasks!Known(f, kind) \in Tasks!Answer /\ ~Tasks!Known(f, kind).marked
         /\ f \in Network => Tasks!Known(f, kind).kind = kind
<1>1. CASE f \notin Network
  BY <1>1 DEF AiInv, Tasks!AiTypeOK, Tasks!DefensiveOnly, Tasks!Known
<1>2. CASE f \in Network
  <2>1. PICK rows : rows = stored[f]
    OBVIOUS
  <2>2. /\ rows \in Seq(Tasks!Answer) /\ rows # <<>>
        /\ Tasks!Known(f, kind) = rows[Len(rows)] /\ rows[Len(rows)].kind = kind
    BY <1>2, <2>1 DEF AiInv, Tasks!AiTypeOK, Tasks!Known
  <2>3. Len(rows) \in DOMAIN rows /\ rows[Len(rows)] \in Tasks!Answer
    BY <2>2
  <2> QED BY <2>1, <2>2, <2>3 DEF AiInv, Tasks!DefensiveOnly
<1> QED BY <1>1, <1>2

LEMMA AiInvInit == Tasks!AiInit => AiInv
<1> SUFFICES ASSUME Tasks!AiInit PROVE AiInv
  OBVIOUS
<1>1. stored \in [Findings -> Seq(Tasks!Answer)]
  BY DEF Tasks!AiInit
<1> QED BY <1>1 DEF Tasks!AiInit, AiInv, Tasks!AiTypeOK, Tasks!DefensiveOnly

LEMMA RemediateKeeps ==
  ASSUME Tasks!TasksAssumption, AiInv, NEW w \in Workers, NEW f \in Findings, NEW kind \in Kinds,
         NEW again \in BOOLEAN, Tasks!Remediate(w, f, kind, again)
  PROVE  AiInv'
<1>1. CASE Tasks!Guarded(f, kind)
  <2>1. UNCHANGED <<clean, stored, cached, narrated, work>>
    BY <1>1 DEF Tasks!Remediate
  <2>2. reply' = [task |-> "remediate", on |-> f, asked |-> kind, from |-> "guard", clean |-> f \in clean,
                  gave |-> Tasks!Refusal]
    BY <1>1 DEF Tasks!Remediate, Tasks!Reply
  <2> QED BY <2>1, <2>2, RefusalType DEF AiInv, Tasks!AiTypeOK, Tasks!DefensiveOnly
<1>2. CASE ~Tasks!Guarded(f, kind) /\ ~again /\ Tasks!Known(f, kind) # None
  <2>1. UNCHANGED <<clean, stored, cached, narrated, work>>
    BY <1>2 DEF Tasks!Remediate
  <2>2. reply' = [task |-> "remediate", on |-> f, asked |-> kind, from |-> "store", clean |-> f \in clean,
                  gave |-> Tasks!Known(f, kind)]
    BY <1>2 DEF Tasks!Remediate, Tasks!Reply
  <2>3. f \notin clean
    BY <1>2 DEF Tasks!Guarded
  <2> QED BY <1>2, <2>1, <2>2, <2>3, KnownIsSafe DEF AiInv, Tasks!AiTypeOK, Tasks!DefensiveOnly
<1>3. CASE ~Tasks!Guarded(f, kind) /\ ~(~again /\ Tasks!Known(f, kind) # None)
  <2>1. UNCHANGED <<clean, stored, cached, narrated, reply>>
    BY <1>3 DEF Tasks!Remediate
  <2>2. PICK job : job = [task |-> "remediate", on |-> f, kind |-> kind]
    OBVIOUS
  <2>3. work' = [work EXCEPT ![w] = job]
    BY <1>3, <2>2 DEF Tasks!Remediate
  <2>4. job \in Tasks!Job
    BY <2>2 DEF Tasks!Job
  <2> QED BY <2>1, <2>3, <2>4 DEF AiInv, Tasks!AiTypeOK, Tasks!DefensiveOnly
<1> QED BY <1>1, <1>2, <1>3

LEMMA RemediatedKeeps ==
  ASSUME Tasks!TasksAssumption, AiInv, NEW w \in Workers, NEW said \in Tasks!Answer, Tasks!Remediated(w, said)
  PROVE  AiInv'
<1>1. PICK f \in Findings, asked \in Kinds :
         work[w] = [task |-> "remediate", on |-> f, kind |-> asked] /\ work[w] # None
  <2>1. work[w] \in Tasks!Job /\ work[w] # None /\ work[w].task = "remediate"
    BY DEF Tasks!Remediated, AiInv, Tasks!AiTypeOK
  <2> QED BY <2>1 DEF Tasks!Job
<1>3. PICK data : data = IF said.script THEN said ELSE Tasks!Template(f, asked)
  OBVIOUS
<1>4. data \in Tasks!Answer
  BY <1>3, TemplateType
<1>5. PICK kept : kept = IF data.kind = None THEN [data EXCEPT !.kind = asked] ELSE data
  OBVIOUS
<1>6. kept \in Tasks!Answer /\ kept.marked = data.marked
  BY <1>4, <1>5 DEF Tasks!Answer
<1>7. work' = [work EXCEPT ![w] = None] /\ UNCHANGED <<clean, narrated>>
  BY DEF Tasks!Remediated
<1>8. work' \in [Workers -> Tasks!Job \cup {None}]
  BY <1>7 DEF AiInv, Tasks!AiTypeOK
<1>9. CASE said.refused \/ data.marked
  <2>1. UNCHANGED <<stored, cached>>
    BY <1>1, <1>3, <1>5, <1>9 DEF Tasks!Remediated
  <2>2. reply' = [task |-> "remediate", on |-> f, asked |-> asked, from |-> "model", clean |-> f \in clean,
                  gave |-> Tasks!Refusal]
    BY <1>1, <1>3, <1>5, <1>9 DEF Tasks!Remediated, Tasks!Reply
  <2> QED BY <1>7, <1>8, <2>1, <2>2, RefusalType DEF AiInv, Tasks!AiTypeOK, Tasks!DefensiveOnly
<1>10. CASE ~(said.refused \/ data.marked)
  <2>1. reply' = [task |-> "remediate", on |-> f, asked |-> asked, from |-> "model", clean |-> f \in clean,
                  gave |-> kept]
    BY <1>1, <1>3, <1>5, <1>10 DEF Tasks!Remediated, Tasks!Reply
  <2>2. CASE f \in Network
    <3>1. stored' = [stored EXCEPT ![f] = Append(stored[f], kept)] /\ UNCHANGED cached
      BY <1>1, <1>3, <1>5, <1>10, <2>2 DEF Tasks!Remediated
    <3>2. PICK rows \in Seq(Tasks!Answer) : rows = stored[f]
      BY DEF AiInv, Tasks!AiTypeOK
    <3>3. /\ Append(rows, kept) \in Seq(Tasks!Answer)
          /\ \A i \in DOMAIN Append(rows, kept) :
                Append(rows, kept)[i] = IF i \in DOMAIN rows THEN rows[i] ELSE kept
      BY <1>6
    <3>4. stored' \in [Findings -> Seq(Tasks!Answer)]
      BY <3>1, <3>2, <3>3 DEF AiInv, Tasks!AiTypeOK
    <3>5. \A g \in Findings : stored'[g] = IF g = f THEN Append(rows, kept) ELSE stored[g]
      BY <3>1, <3>2 DEF AiInv, Tasks!AiTypeOK
    <3>6. \A g \in Findings : \A i \in DOMAIN stored'[g] : ~stored'[g][i].marked
      <4>1. \A i \in DOMAIN rows : ~rows[i].marked
        BY <3>2 DEF AiInv, Tasks!DefensiveOnly
      <4>2. \A i \in DOMAIN Append(rows, kept) : ~Append(rows, kept)[i].marked
        BY <1>6, <1>10, <3>3, <4>1
      <4> QED BY <3>5, <4>2 DEF AiInv, Tasks!DefensiveOnly
    <3> QED BY <1>6, <1>7, <1>8, <1>10, <2>1, <3>1, <3>4, <3>6 DEF AiInv, Tasks!AiTypeOK, Tasks!DefensiveOnly
  <2>3. CASE f \notin Network
    <3>1. cached' = [cached EXCEPT ![f][asked] = kept] /\ UNCHANGED stored
      BY <1>1, <1>3, <1>5, <1>10, <2>3 DEF Tasks!Remediated
    <3>2. \A g \in Findings, k \in Kinds :
             cached'[g][k] = IF g = f /\ k = asked THEN kept ELSE cached[g][k]
      BY <3>1 DEF AiInv, Tasks!AiTypeOK
    <3>3. cached' \in [Findings -> [Kinds -> Tasks!Answer \cup {None}]]
      BY <1>6, <3>1 DEF AiInv, Tasks!AiTypeOK
    <3> QED BY <1>6, <1>7, <1>8, <1>10, <2>1, <3>1, <3>2, <3>3 DEF AiInv, Tasks!AiTypeOK, Tasks!DefensiveOnly
  <2> QED BY <2>2, <2>3
<1> QED BY <1>9, <1>10

LEMMA ExplainedKeeps ==
  ASSUME Tasks!TasksAssumption, AiInv, NEW w \in Workers, NEW said \in Tasks!Answer, Tasks!Explained(w, said)
  PROVE  AiInv'
<1>1. PICK p \in Paths : work[w] = [task |-> "impact", on |-> p, kind |-> None]
  <2>1. work[w] \in Tasks!Job /\ work[w] # None /\ work[w].task = "impact"
    BY DEF Tasks!Explained, AiInv, Tasks!AiTypeOK
  <2> QED BY <2>1 DEF Tasks!Job
<1>2. PICK gave : gave = IF said.refused \/ said.marked \/ narrated[p] = None THEN Tasks!Refusal ELSE said
  OBVIOUS
<1>3. gave.refused \/ ~gave.marked
  BY <1>2, RefusalType
<1>4. reply' = [task |-> "impact", on |-> p, asked |-> None, from |-> "model", clean |-> p \in clean,
                  gave |-> gave]
  BY <1>1, <1>2 DEF Tasks!Explained, Tasks!Reply
<1>5. narrated' \in [Paths -> BOOLEAN \cup {None}]
  BY <1>1, <1>2 DEF Tasks!Explained, AiInv, Tasks!AiTypeOK
<1>6. work' = [work EXCEPT ![w] = None] /\ UNCHANGED <<clean, stored, cached>>
  BY DEF Tasks!Explained
<1>7. work' \in [Workers -> Tasks!Job \cup {None}]
  BY <1>6 DEF AiInv, Tasks!AiTypeOK
<1> QED BY <1>3, <1>4, <1>5, <1>6, <1>7 DEF AiInv, Tasks!AiTypeOK, Tasks!DefensiveOnly

LEMMA AiInvStep ==
  ASSUME Tasks!TasksAssumption, AiInv, [Tasks!AiNext]_Tasks!aiVars
  PROVE  AiInv'
<1>1. ASSUME NEW w \in Workers, NEW f \in Findings, NEW k \in Kinds, NEW again \in BOOLEAN,
             Tasks!Remediate(w, f, k, again)
      PROVE  AiInv'
  BY <1>1, RemediateKeeps
<1>2. ASSUME NEW w \in Workers, NEW said \in Answers, Tasks!Remediated(w, said) \/ Tasks!Explained(w, said)
      PROVE  AiInv'
  <2>1. said \in Tasks!Answer
    BY DEF Tasks!TasksAssumption
  <2> QED BY <1>2, <2>1, RemediatedKeeps, ExplainedKeeps
<1>3. ASSUME NEW w \in Workers, work[w] # None, work[w].task = "remediate",
             Tasks!Remediated(w, Tasks!Template(work[w].on, work[w].kind))
      PROVE  AiInv'
  <2>1. work[w].kind \in Kinds \cup {None}
    BY <1>3 DEF AiInv, Tasks!AiTypeOK, Tasks!Job
  <2> QED BY <1>3, <2>1, TemplateType, RemediatedKeeps
<1>4. ASSUME NEW w \in Workers, work[w] # None, work[w].task = "impact",
             Tasks!Explained(w, Tasks!Template(work[w].on, None))
      PROVE  AiInv'
  BY <1>4, TemplateType, ExplainedKeeps
<1>5. ASSUME NEW w \in Workers, NEW p \in Paths, Tasks!Impact(w, p)
      PROVE  AiInv'
  <2>1. PICK job : job = [task |-> "impact", on |-> p, kind |-> None]
    OBVIOUS
  <2>2. work' = [work EXCEPT ![w] = job] /\ UNCHANGED <<clean, stored, cached, narrated, reply>>
    BY <1>5, <2>1 DEF Tasks!Impact
  <2>3. job \in Tasks!Job
    BY <2>1 DEF Tasks!Job
  <2> QED BY <2>2, <2>3 DEF AiInv, Tasks!AiTypeOK, Tasks!DefensiveOnly
<1>6. ASSUME NEW f \in Findings, NEW said \in Answers, Tasks!Predict(f, said)
      PROVE  AiInv'
  <2>1. reply'.task = "predict" /\ reply'.from = "model" /\ UNCHANGED <<clean, stored, cached, narrated, work>>
    BY <1>6 DEF Tasks!Predict, Tasks!Reply
  <2> QED BY <2>1 DEF AiInv, Tasks!AiTypeOK, Tasks!DefensiveOnly
<1>7. ASSUME NEW said \in Answers, Tasks!BlockFix(said)
      PROVE  AiInv'
  <2>1. reply'.task = "block" /\ reply'.from = "model" /\ UNCHANGED <<clean, stored, cached, narrated, work>>
    BY <1>7 DEF Tasks!BlockFix, Tasks!Reply
  <2> QED BY <2>1 DEF AiInv, Tasks!AiTypeOK, Tasks!DefensiveOnly
<1>8. ASSUME NEW f \in Findings, Tasks!Correlate(f)
      PROVE  AiInv'
  BY <1>8 DEF Tasks!Correlate, AiInv, Tasks!AiTypeOK, Tasks!DefensiveOnly
<1>9. CASE Tasks!Recompute
  BY <1>9 DEF Tasks!Recompute, AiInv, Tasks!AiTypeOK, Tasks!DefensiveOnly
<1>10. CASE Tasks!AiRestart
  <2>1. \A f \in Findings, k \in Kinds : cached'[f][k] = None
    BY <1>10 DEF Tasks!AiRestart
  <2>2. \A w \in Workers : work'[w] = None
    BY <1>10 DEF Tasks!AiRestart
  <2> QED BY <1>10, <2>1, <2>2 DEF Tasks!AiRestart, AiInv, Tasks!AiTypeOK, Tasks!DefensiveOnly
<1>11. CASE UNCHANGED Tasks!aiVars
  BY <1>11 DEF Tasks!aiVars, AiInv, Tasks!AiTypeOK, Tasks!DefensiveOnly
<1> QED
  BY <1>1, <1>2, <1>3, <1>4, <1>5, <1>6, <1>7, <1>8, <1>9, <1>10, <1>11 DEF Tasks!AiNext

\* Nothing that is stored, cached or answered by a guarded task holds a marker in the
\* texts the output guard reads, and what is answered without asking the model is for a
\* finding that is not clean and, for an asset's, of the kind that was asked for.
THEOREM OutputGuarded == ServicesSpec => []DefensiveOnly
<1> DEFINE I == subject = "tasks" => AiInv
<1>1. ServicesInit => I
  BY AiInvInit DEF ServicesInit
<1>2. I /\ [ServicesNext]_allVars => I'
  BY PartSteps, AiInvStep, TasksKnown
<1>3. I => DefensiveOnly
  BY DEF AiInv, DefensiveOnly
<1> HIDE DEF I
<1> QED BY <1>1, <1>2, <1>3, PTL DEF ServicesSpec

-----------------------------------------------------------------------------
(* Folds: the library's are the choice of a function that is recursive on  *)
(* sets of positions, the last position first. Such a function exists and  *)
(* it runs along the prefixes, each by a least counterexample.             *)

\* The library's Max, of a set of numbers up to some bound.
Top(s) == CHOOSE x \in s : \A y \in s : x >= y

LEMMA TopIs ==
  ASSUME NEW n \in Nat, NEW s \in SUBSET (1..n), s # {}
  PROVE  Top(s) \in s /\ \A y \in s : Top(s) >= y
<1> DEFINE Bounds == {m \in Nat : \A y \in s : m >= y}
<1>1. n \in Bounds /\ Bounds \in SUBSET Nat
  OBVIOUS
<1>2. PICK m \in Bounds : \A k \in Bounds : m <= k
  <2> HIDE DEF Bounds
  <2> QED BY <1>1, Least
<1>3. m \in s
  <2> SUFFICES ASSUME m \notin s PROVE FALSE
    OBVIOUS
  <2>1. \A y \in s : y \in Nat /\ m > y
    BY <1>2
  <2>2. PICK y \in s : TRUE
    OBVIOUS
  <2>3. m \in Nat /\ m > y /\ y \in 1..n
    BY <2>1, <2>2
  <2>4. m - 1 \in Nat
    BY <2>3
  <2>5. \A z \in s : m - 1 >= z
    BY <2>1, <2>3
  <2> QED BY <2>4, <2>5, <1>2, <2>3
<1>4. \E x \in s : \A y \in s : x >= y
  BY <1>2, <1>3
<1> QED BY <1>4 DEF Top

LEMMA TopOfRange ==
  ASSUME NEW n \in Nat, NEW k \in 1..n
  PROVE  Top(1..k) = k /\ (1..k) \ {k} = 1..(k - 1)
<1>1. 1..k \in SUBSET (1..n) /\ 1..k # {} /\ k \in 1..k
  OBVIOUS
<1>2. Top(1..k) \in 1..k /\ Top(1..k) >= k
  BY <1>1, TopIs
<1> QED BY <1>2

\* g is the fold of F over the sets of numbers up to n.
Folds(F, base, n, V, g) ==
    /\ g \in [SUBSET (1..n) -> V]
    /\ \A s \in SUBSET (1..n) : g[s] = IF s = {} THEN base ELSE F[<<Top(s), g[s \ {Top(s)}]>>]

LEMMA Recursion ==
  ASSUME NEW n \in Nat, NEW V, NEW base \in V, NEW F, F \in [(1..n) \X V -> V]
  PROVE  \E g : Folds(F, base, n, V, g)
<1> DEFINE Upto(k, g) == Folds(F, base, k, V, g)
           Bad == {k \in 0..n : ~\E g : Upto(k, g)}
<1>1. Upto(0, [s \in SUBSET (1..0) |-> base])
  BY DEF Folds
<1>2. ASSUME NEW k \in 1..n, NEW g, Upto(k - 1, g)
      PROVE  \E h : Upto(k, h)
  <2> DEFINE h == [s \in SUBSET (1..k) |-> IF s = {} THEN base ELSE F[<<Top(s), g[s \ {Top(s)}]>>]]
  <2>1. \A s \in SUBSET (1..k) : s # {} => Top(s) \in 1..n /\ s \ {Top(s)} \in SUBSET (1..(k - 1))
    <3> SUFFICES ASSUME NEW s \in SUBSET (1..k), s # {}
                 PROVE  Top(s) \in 1..n /\ s \ {Top(s)} \in SUBSET (1..(k - 1))
      OBVIOUS
    <3>1. s \in SUBSET (1..n) /\ k \in Nat
      BY 1..k \subseteq 1..n
    <3>2. Top(s) \in s /\ \A y \in s : Top(s) >= y
      BY <3>1, TopIs
    <3>3. Top(s) \in 1..k /\ Top(s) \in 1..n
      BY <3>1, <3>2
    <3>4. ASSUME NEW y \in s \ {Top(s)} PROVE y \in 1..(k - 1)
      <4>1. y \in 1..k /\ y <= Top(s) /\ y # Top(s)
        BY <3>2
      <4> QED BY <4>1, <3>3, <3>1
    <3> QED BY <3>3, <3>4
  <2>2. h \in [SUBSET (1..k) -> V]
    <3> SUFFICES ASSUME NEW s \in SUBSET (1..k), s # {}
                 PROVE  F[<<Top(s), g[s \ {Top(s)}]>>] \in V
      OBVIOUS
    <3>1. Top(s) \in 1..n /\ g[s \ {Top(s)}] \in V
      BY <2>1, <1>2 DEF Folds
    <3>2. <<Top(s), g[s \ {Top(s)}]>> \in (1..n) \X V
      BY <3>1
    <3> QED BY <3>2
  <2>3. \A s \in SUBSET (1..(k - 1)) : s \in SUBSET (1..k) /\ h[s] = g[s]
    <3> SUFFICES ASSUME NEW s \in SUBSET (1..(k - 1)) PROVE s \in SUBSET (1..k) /\ h[s] = g[s]
      OBVIOUS
    <3>1. s \in SUBSET (1..k)
      OBVIOUS
    <3>2. h[s] = IF s = {} THEN base ELSE F[<<Top(s), g[s \ {Top(s)}]>>]
      BY <3>1
    <3>3. g[s] = IF s = {} THEN base ELSE F[<<Top(s), g[s \ {Top(s)}]>>]
      BY <1>2 DEF Folds
    <3> QED BY <3>1, <3>2, <3>3
  <2>4. \A s \in SUBSET (1..k) : h[s] = IF s = {} THEN base ELSE F[<<Top(s), h[s \ {Top(s)}]>>]
    BY <2>1, <2>3
  <2> HIDE DEF h
  <2> QED BY <2>2, <2>4 DEF Folds
<1>3. Bad = {}
  <2> SUFFICES ASSUME Bad # {} PROVE FALSE
    OBVIOUS
  <2>1. PICK k \in Bad : \A j \in Bad : k <= j
    <3>1. Bad \in SUBSET Nat
      OBVIOUS
    <3> HIDE DEF Bad
    <3> QED BY <3>1, Least
  <2>2. k \in 0..n /\ ~\E g : Upto(k, g)
    BY <2>1
  <2>3. k # 0
    <3> HIDE DEF Upto
    <3> QED BY <2>2, <1>1
  <2>4. k \in 1..n /\ k - 1 \in 0..n /\ k - 1 < k
    BY <2>2, <2>3
  <2>6. k - 1 \notin Bad
    <3> HIDE DEF Bad
    <3>1. k - 1 \in Nat /\ k \in Nat
      BY <2>4
    <3> QED BY <2>1, <2>4, <3>1
  <2>5. \E g : Upto(k - 1, g)
    <3> HIDE DEF Upto
    <3> QED BY <2>4, <2>6
  <2> HIDE DEF Upto
  <2> QED BY <2>5, <1>2, <2>4, <2>2
<1>4. \E g : Upto(n, g)
  <2> HIDE DEF Upto
  <2> QED BY <1>3
<1> QED BY <1>4

\* p is what F makes of the first k numbers, for each k up to n.
Runs(F, base, n, V, p) ==
    p \in [0..n -> V] /\ p[0] = base /\ \A k \in 1..n : p[k] = F[<<k, p[k - 1]>>]

LEMMA Prefixes ==
  ASSUME NEW n \in Nat, NEW V, NEW base \in V, NEW F, F \in [(1..n) \X V -> V]
  PROVE  \E p : Runs(F, base, n, V, p)
<1>0. PICK g : Folds(F, base, n, V, g)
  BY Recursion
<1>1. /\ g \in [SUBSET (1..n) -> V]
      /\ \A s \in SUBSET (1..n) : g[s] = IF s = {} THEN base ELSE F[<<Top(s), g[s \ {Top(s)}]>>]
  BY <1>0 DEF Folds
<1> DEFINE p == [k \in 0..n |-> g[1..k]]
<1>2. p \in [0..n -> V]
  <2>1. \A k \in 0..n : 1..k \in SUBSET (1..n)
    OBVIOUS
  <2> QED BY <1>1, <2>1
<1>3. p[0] = base
  <2>1. 1..0 = {} /\ 0 \in 0..n
    OBVIOUS
  <2> QED BY <1>1, <2>1
<1>4. ASSUME NEW k \in 1..n PROVE p[k] = F[<<k, p[k - 1]>>]
  <2>0. k \in 0..n /\ k - 1 \in 0..n
    OBVIOUS
  <2>1. p[k] = g[1..k] /\ p[k - 1] = g[1..(k - 1)]
    BY <2>0
  <2>3. 1..k \in SUBSET (1..n) /\ 1..k # {}
    OBVIOUS
  <2> HIDE DEF p
  <2>2. g[1..k] = F[<<Top(1..k), g[(1..k) \ {Top(1..k)}]>>]
    BY <1>1, <2>3
  <2> QED BY <2>1, <2>2, TopOfRange
<1> HIDE DEF p
<1> QED BY <1>2, <1>3, <1>4 DEF Runs

\* So a function that takes its value at each such set from F, as the library's
\* folds do, is that of the prefixes.
Unfolds(F, base, n, V, f) ==
    /\ f[{}] = base
    /\ \A s \in SUBSET (1..n) : s # {} /\ f[s \ {Top(s)}] \in V => f[s] = F[<<Top(s), f[s \ {Top(s)}]>>]

Ends(n, f, p) == f[1..n] = p[n]

LEMMA FirstOnes ==
  ASSUME NEW n \in Nat
  PROVE  \A k \in 1..n : 1..k \in SUBSET (1..n) /\ 1..k # {}
OBVIOUS

LEMMA Along ==
  ASSUME NEW n \in Nat, NEW V, NEW base \in V, NEW F, F \in [(1..n) \X V -> V],
         NEW f, Unfolds(F, base, n, V, f), NEW p, Runs(F, base, n, V, p)
  PROVE  Ends(n, f, p)
<1>0. \A k \in 1..n : 1..k \in SUBSET (1..n) /\ 1..k # {}
  BY FirstOnes
<1>1. p \in [0..n -> V] /\ p[0] = base /\ \A k \in 1..n : p[k] = F[<<k, p[k - 1]>>]
  BY DEF Runs
<1>f. /\ f[{}] = base
      /\ \A s \in SUBSET (1..n) : s # {} /\ f[s \ {Top(s)}] \in V => f[s] = F[<<Top(s), f[s \ {Top(s)}]>>]
  BY DEF Unfolds
<1> DEFINE Bad == {k \in 0..n : p[k] # f[1..k]}
<1>2. Bad = {}
  <2> SUFFICES ASSUME Bad # {} PROVE FALSE
    OBVIOUS
  <2>1. Bad \in SUBSET Nat
    OBVIOUS
  <2>2. PICK k \in Bad : \A j \in Bad : k <= j
    <3> HIDE DEF Bad
    <3> QED BY <2>1, Least
  <2>3. k \in 0..n /\ p[k] # f[1..k]
    BY <2>2
  <2>4. k # 0
    <3>1. 1..0 = {}
      OBVIOUS
    <3> QED BY <1>1, <1>f, <2>3, <3>1
  <2>5. k \in 1..n /\ k - 1 \in 0..n /\ k - 1 \notin Bad
    BY <2>2, <2>3, <2>4
  <2>6. p[k - 1] = f[1..(k - 1)] /\ p[k - 1] \in V
    BY <1>1, <2>5
  <2>7. 1..k \in SUBSET (1..n) /\ 1..k # {}
    <3> HIDE DEF Bad
    <3> QED BY <1>0, <2>5
  <2>8. f[1..k] = F[<<k, f[1..(k - 1)]>>]
    BY <1>f, <2>5, <2>6, <2>7, TopOfRange
  <2> QED BY <1>1, <2>3, <2>5, <2>6, <2>8
<1>3. p[n] = f[1..n]
  BY <1>2
<1> QED BY <1>3 DEF Ends

-----------------------------------------------------------------------------
(* DeviceView: Durations *)
Later(sessions, online, total, k) ==
    IF (~sessions[k].current \/ ~online) /\ View!Ended(sessions[k]) > sessions[k].started
    THEN total + View!Ended(sessions[k]) - sessions[k].started ELSE total

Durations(sessions, online, f) ==
   f = [s \in SUBSET DOMAIN sessions |->
            IF s = {} THEN 0 ELSE Later(sessions, online, f[s \ {Top(s)}], Top(s))]

LEMMA DurationsAre ==
  ASSUME NEW sessions, NEW online
  PROVE  View!Durations(sessions, online) = (CHOOSE f : Durations(sessions, online, f))[DOMAIN sessions]
BY DEF View!Durations, View!FoldLeft, View!MapThenFoldSet, Durations, Later, Top, View!Max


LEMMA DurationsPrefixes ==
  ASSUME NEW sessions \in Seq(View!PresenceSession), NEW online \in BOOLEAN
  PROVE  \E p : /\ p[0] = 0
                /\ \A k \in 1..Len(sessions) : p[k] = Later(sessions, online, p[k - 1], k)
                /\ View!Durations(sessions, online) = p[Len(sessions)]
<1>1. PICK n \in Nat, zero \in Int : n = Len(sessions) /\ zero = 0
  OBVIOUS
<1>2. PICK F : F = [x \in (1..n) \X Int |-> Later(sessions, online, x[2], x[1])]
  OBVIOUS
<1>3. F \in [(1..n) \X Int -> Int]
  <2> SUFFICES ASSUME NEW k \in 1..n, NEW t \in Int PROVE Later(sessions, online, t, k) \in Int
    BY <1>2
  <2>1. sessions[k] \in View!PresenceSession
    BY <1>1
  <2>2. View!Ended(sessions[k]) \in Nat /\ sessions[k].started \in Nat
    BY <2>1 DEF View!PresenceSession, View!Ended
  <2> QED BY <2>2 DEF Later
<1>4. \A k \in 1..n, t \in Int : F[<<k, t>>] = Later(sessions, online, t, k)
  <2> SUFFICES ASSUME NEW k \in 1..n, NEW t \in Int PROVE F[<<k, t>>] = Later(sessions, online, t, k)
    OBVIOUS
  <2>1. <<k, t>> \in (1..n) \X Int
    OBVIOUS
  <2> QED BY <1>2, <2>1
<1>5. PICK g : Folds(F, zero, n, Int, g)
  BY <1>3, Recursion
<1>6. Durations(sessions, online, g)
  <2>1. /\ g \in [SUBSET (1..n) -> Int]
        /\ \A s \in SUBSET (1..n) : g[s] = IF s = {} THEN 0 ELSE F[<<Top(s), g[s \ {Top(s)}]>>]
    BY <1>1, <1>5 DEF Folds
  <2>2. ASSUME NEW s \in SUBSET (1..n), s # {}
        PROVE  g[s] = Later(sessions, online, g[s \ {Top(s)}], Top(s))
    <3>1. Top(s) \in 1..n /\ g[s \ {Top(s)}] \in Int
      BY <2>1, <2>2, TopIs
    <3> QED BY <1>4, <2>1, <2>2, <3>1
  <2>3. DOMAIN sessions = 1..n
    BY <1>1
  <2> QED BY <2>1, <2>2, <2>3 DEF Durations
<1>7. PICK f : f = CHOOSE h : Durations(sessions, online, h)
  OBVIOUS
<1>8. Unfolds(F, zero, n, Int, f)
  <2>1. Durations(sessions, online, f)
    BY <1>6, <1>7
  <2>2. DOMAIN sessions = 1..n
    BY <1>1
  <2>3. ASSUME NEW s \in SUBSET (1..n), s # {}, f[s \ {Top(s)}] \in Int
        PROVE  f[s] = F[<<Top(s), f[s \ {Top(s)}]>>]
    <3>1. f[s] = Later(sessions, online, f[s \ {Top(s)}], Top(s))
      BY <2>1, <2>2, <2>3 DEF Durations
    <3>2. Top(s) \in 1..n
      BY <2>3, TopIs
    <3> QED BY <1>4, <2>3, <3>1, <3>2
  <2>4. f[{}] = zero
    BY <1>1, <2>1 DEF Durations
  <2> QED BY <2>3, <2>4 DEF Unfolds
<1>9. PICK p : Runs(F, zero, n, Int, p)
  BY <1>3, Prefixes
<1>10. f[1..n] = p[n]
  <2>1. Ends(n, f, p)
    BY <1>3, <1>8, <1>9, Along
  <2> QED BY <2>1 DEF Ends
<1>11. ASSUME NEW k \in 1..n PROVE p[k] = Later(sessions, online, p[k - 1], k)
  <2>1. k - 1 \in 0..n
    OBVIOUS
  <2>2. p[k - 1] \in Int /\ p[k] = F[<<k, p[k - 1]>>]
    BY <1>9, <2>1 DEF Runs
  <2> QED BY <1>4, <2>2
<1>12. p[0] = 0
  BY <1>1, <1>9 DEF Runs
<1>13. View!Durations(sessions, online) = p[n]
  <2>1. View!Durations(sessions, online) = f[DOMAIN sessions]
    BY <1>7, DurationsAre
  <2>2. DOMAIN sessions = 1..n
    BY <1>1
  <2> QED BY <1>10, <2>1, <2>2
<1> QED BY <1>1, <1>11, <1>12, <1>13

LEMMA DatedParts ==
  ASSUME NEW sessions \in Seq(View!PresenceSession), NEW k \in 1..Len(sessions)
  PROVE  /\ sessions[k].started \in Nat /\ View!Ended(sessions[k]) \in Nat
         /\ sessions[k].current \in BOOLEAN /\ sessions[k].count \in Nat
<1>1. sessions[k] \in View!PresenceSession
  OBVIOUS
<1> QED BY <1>1 DEF View!PresenceSession, View!Ended

\* With the sessions in order, what the first k add up to is not more than the time
\* from the start of the first to the end of the k-th.
LEMMA DurationsFit ==
  ASSUME NEW sessions \in Seq(View!PresenceSession), NEW online \in BOOLEAN, NEW p, p[0] = 0,
         \A k \in 1..Len(sessions) : p[k] = Later(sessions, online, p[k - 1], k),
         \A i, j \in 1..Len(sessions) : i < j => View!Ended(sessions[i]) <= sessions[j].started,
         \A i \in 1..Len(sessions) : sessions[i].started <= View!Ended(sessions[i])
  PROVE  \A k \in 1..Len(sessions) : p[k] \in Nat /\ p[k] + sessions[1].started <= View!Ended(sessions[k])
<1> DEFINE n == Len(sessions)
           Fits(k) == p[k] \in Nat /\ p[k] + sessions[1].started <= View!Ended(sessions[k])
           Bad == {k \in 1..n : ~Fits(k)}
<1>1. n \in Nat /\ \A k \in 1..n : sessions[k].started \in Nat /\ View!Ended(sessions[k]) \in Nat
  BY DatedParts
<1> HIDE DEF n
<1>2. ASSUME n >= 1 PROVE Fits(1)
  <2>1. 1 \in 1..n /\ p[1] = Later(sessions, online, p[1 - 1], 1) /\ 1 - 1 = 0
    BY <1>1, <1>2 DEF n
  <2> QED BY <2>1, <1>1 DEF Later, n
<1>3. ASSUME NEW k \in 2..n, Fits(k - 1) PROVE Fits(k)
  <2>1. k \in 1..n /\ k - 1 \in 1..n /\ k - 1 < k
    BY <1>1
  <2>2. View!Ended(sessions[k - 1]) <= sessions[k].started /\ sessions[k].started <= View!Ended(sessions[k])
    BY <2>1 DEF n
  <2>3. p[k] = Later(sessions, online, p[k - 1], k)
    BY <2>1 DEF n
  <2>4. sessions[1].started \in Nat
    BY <1>1, <2>1
  <2>5. p[k - 1] \in Nat /\ p[k - 1] + sessions[1].started <= View!Ended(sessions[k - 1])
    BY <1>3
  <2>6. /\ sessions[k].started \in Nat /\ View!Ended(sessions[k]) \in Nat
        /\ View!Ended(sessions[k - 1]) \in Nat
    BY <1>1, <2>1
  <2>7. CASE p[k] = p[k - 1]
    BY <2>2, <2>4, <2>5, <2>6, <2>7
  <2>8. CASE /\ p[k] = p[k - 1] + View!Ended(sessions[k]) - sessions[k].started
             /\ View!Ended(sessions[k]) > sessions[k].started
    <3>1. PICK a \in Nat, e \in Nat, b \in Nat : a = p[k - 1] /\ e = View!Ended(sessions[k]) /\ b = sessions[k].started
      BY <2>5, <2>6
    <3>2. p[k] = a + e - b /\ e > b
      BY <2>8, <3>1
    <3>5. PICK c \in Nat, d \in Nat : c = View!Ended(sessions[k - 1]) /\ d = sessions[1].started
      BY <2>4, <2>6
    <3>6. a + d <= c
      BY <2>5, <3>1, <3>5
    <3>7. c <= b
      BY <2>2, <3>1, <3>5
    <3>3. a + sessions[1].started <= b
      BY <3>5, <3>6, <3>7
    <3>4. p[k] \in Nat /\ p[k] + sessions[1].started <= e
      BY <2>4, <3>2, <3>3, SMTT(30)
    <3> QED BY <3>1, <3>4
  <2>9. \/ p[k] = p[k - 1]
        \/ /\ p[k] = p[k - 1] + View!Ended(sessions[k]) - sessions[k].started
           /\ View!Ended(sessions[k]) > sessions[k].started
    BY <2>3 DEF Later
  <2> HIDE DEF Fits
  <2> QED BY <2>7, <2>8, <2>9
<1> HIDE DEF Fits
<1>4. Bad = {}
  <2> SUFFICES ASSUME Bad # {} PROVE FALSE
    OBVIOUS
  <2>1. Bad \in SUBSET Nat
    BY <1>1
  <2>2. PICK k \in Bad : \A j \in Bad : k <= j
    <3> HIDE DEF Bad
    <3> QED BY <2>1, Least
  <2>3. k \in 1..n /\ ~Fits(k) /\ k # 1
    BY <1>1, <1>2, <2>2
  <2>4. k \in 2..n /\ k - 1 \in 1..n /\ k - 1 \notin Bad
    BY <1>1, <2>2, <2>3
  <2> QED BY <1>3, <2>3, <2>4
<1> QED BY <1>4 DEF n, Fits

LEMMA PresenceAdded ==
  ASSUME NEW sessions \in Seq(View!PresenceSession), NEW online \in BOOLEAN, NEW now0 \in Nat
  PROVE  View!PresenceAdds(sessions, online, now0)
<1> SUFFICES ASSUME \A i, j \in DOMAIN sessions :
                        i < j => View!Ended(sessions[i]) <= sessions[j].started /\ ~sessions[i].current,
                    \A i \in DOMAIN sessions :
                        sessions[i].started <= View!Ended(sessions[i]) /\ View!Ended(sessions[i]) <= now0,
                    sessions # <<>>
             PROVE  View!PresenceView(sessions, online, now0).total <= now0 - Head(sessions).started
  BY DEF View!PresenceAdds
<1> DEFINE n == Len(sessions)
<1>1. n \in Nat \ {0} /\ DOMAIN sessions = 1..n /\ Head(sessions) = sessions[1]
  OBVIOUS
<1>2. \A k \in 1..n : /\ sessions[k].started \in Nat /\ View!Ended(sessions[k]) \in Nat
                        /\ sessions[k].current \in BOOLEAN /\ sessions[k].count \in Nat
  BY DatedParts
<1>3. PICK p : /\ p[0] = 0
               /\ \A k \in 1..n : p[k] = Later(sessions, online, p[k - 1], k)
               /\ View!Durations(sessions, online) = p[n]
  BY DurationsPrefixes
<1>4. \A k \in 1..n : p[k] \in Nat /\ p[k] + sessions[1].started <= View!Ended(sessions[k])
  BY <1>1, <1>3, DurationsFit
<1> HIDE DEF n
<1> DEFINE open == View!SelectLastInSeq(sessions, LAMBDA s : s.current)
           here == online /\ open # 0
           long == here /\ sessions[open].count > 1
           current == IF long /\ now0 > sessions[open].started THEN now0 - sessions[open].started ELSE 0
<1>5. View!PresenceView(sessions, online, now0).total = p[n] + current
  BY <1>3 DEF View!PresenceView
<1>6. n \in 1..n /\ 1 \in 1..n
  BY <1>1
<1>7. CASE ~long
  <2>1. current = 0
    BY <1>7
  <2> HIDE DEF current
  <2>2. View!Ended(sessions[n]) <= now0
    BY <1>1, <1>6
  <2> QED BY <1>1, <1>2, <1>4, <1>5, <1>6, <2>1, <2>2
<1>8. CASE long
  <2>1. open = n /\ sessions[n].current
    <3> DEFINE I == {i \in 1..n : sessions[i].current}
    <3>1. \A i \in I : i = n
      <4> SUFFICES ASSUME NEW i \in 1..n, sessions[i].current, i # n PROVE FALSE
        OBVIOUS
      <4>1. i < n
        BY <1>1
      <4> QED BY <1>1, <1>6, <4>1
    <3>2. open = IF I # {} THEN View!Max(I) ELSE 0
      BY <1>1 DEF View!SelectLastInSeq, n
    <3>3. I # {}
      BY <1>8, <3>2
    <3>4. I = {n}
      BY <3>1, <3>3
    <3>5. View!Max({n}) = n
      BY <1>1 DEF View!Max
    <3> HIDE DEF I, open
    <3>6. open = n
      BY <3>2, <3>3, <3>4, <3>5
    <3>7. n \in I
      BY <3>4
    <3> QED BY <3>6, <3>7 DEF I
  <2>2. online
    BY <1>8
  <2>3. current = now0 - sessions[n].started
    <3>1. sessions[n].started <= View!Ended(sessions[n]) /\ View!Ended(sessions[n]) <= now0
      BY <1>1, <1>6
    <3>2. sessions[n].started <= now0
      BY <1>2, <1>6, <3>1
    <3> HIDE DEF open
    <3> QED BY <1>8, <2>1, <3>2, <1>2, <1>6
  <2> HIDE DEF current, long, here, open
  <2>4. p[n] = p[n - 1]
    BY <1>3, <1>6, <2>1, <2>2 DEF Later
  <2>5. CASE n = 1
    BY <1>2, <1>3, <1>5, <1>6, <2>3, <2>4, <2>5, <1>1
  <2>6. CASE n # 1
    <3>1. n - 1 \in 1..n /\ n - 1 < n
      BY <1>1, <2>6
    <3>2. View!Ended(sessions[n - 1]) <= sessions[n].started
      BY <1>1, <1>6, <3>1
    <3>3. p[n - 1] \in Nat /\ p[n - 1] + sessions[1].started <= View!Ended(sessions[n - 1])
      BY <1>4, <3>1
    <3>4. /\ sessions[1].started \in Nat /\ sessions[n].started \in Nat
          /\ View!Ended(sessions[n - 1]) \in Nat
      BY <1>2, <1>6, <3>1
    <3>5. View!PresenceView(sessions, online, now0).total = p[n - 1] + (now0 - sessions[n].started)
      BY <1>5, <2>3, <2>4
    <3>6. Head(sessions).started = sessions[1].started
      BY <1>1
    <3> QED BY <3>2, <3>3, <3>4, <3>5, <3>6
  <2> QED BY <2>5, <2>6
<1> QED BY <1>7, <1>8

-----------------------------------------------------------------------------
(* Timelines *)

Stamped == [kind : {"socket", "dns", "traffic", "presence"}, at : Nat]
Sorted(T) == \A i, j \in 1..Len(T) : i < j => T[i].at <= T[j].at
Covered(T, x) ==
    \/ \E i \in 1..Len(T) : T[i] = x
    \/ Len(T) = MaxEvents /\ \A i \in 1..Len(T) : T[i].at >= x.at
Timeline(T) == T \in Seq(Stamped) /\ Sorted(T) /\ Len(T) <= MaxEvents
Fresh(x) == x.at + Window >= time

LEMMA Limits == Window \in Nat /\ MaxEvents \in Nat
BY TimelinesKnown DEF Line!TimelinesAssumption

LEMMA StampedParts ==
  ASSUME NEW T \in Seq(Stamped), NEW i \in 1..Len(T)
  PROVE  T[i] \in Stamped /\ T[i].at \in Nat
<1>1. T[i] \in Stamped
  OBVIOUS
<1> QED BY <1>1 DEF Stamped

LEMMA LineCounts ==
  ASSUME NEW S
  PROVE  Line!Cardinality(S) = Cardinality(S)
BY DEF Line!Cardinality, Cardinality

LEMMA JoinedAt ==
  ASSUME NEW C \in Seq(Stamped), NEW B \in Seq(Stamped), NEW i \in 1..(Len(C) + Len(B))
  PROVE  (C \o B)[i] = IF i <= Len(C) THEN C[i] ELSE B[i - Len(C)]
BY ConcatProperties

\* A set of positions that has every one before each of its own is a beginning.
LEMMA Beginning ==
  ASSUME NEW n \in Nat, NEW P \in SUBSET (1..n), \A i \in P, j \in 1..n : j < i => j \in P
  PROVE  Cardinality(P) \in 0..n /\ P = 1..Cardinality(P)
<1>1. CASE P = {}
  <2>1. Cardinality(P) = 0 /\ 1..0 = {}
    BY <1>1, FS_EmptySet
  <2> QED BY <1>1, <2>1
<1>2. CASE P # {}
  <2>1. Top(P) \in P /\ \A y \in P : Top(P) >= y
    BY <1>2, TopIs
  <2>2. PICK m \in 1..n : m = Top(P)
    BY <2>1
  <2>3. P = 1..m
    <3>1. ASSUME NEW j \in P PROVE j \in 1..m
      <4>1. j \in 1..n /\ j <= m
        BY <2>1, <2>2
      <4> QED BY <4>1
    <3>2. ASSUME NEW j \in 1..m PROVE j \in P
      <4>1. j \in 1..n /\ (j < m \/ j = m) /\ m \in P
        BY <2>1, <2>2
      <4> QED BY <4>1
    <3> QED BY <3>1, <3>2
  <2>4. Cardinality(1..m) = m
    <3>1. m \in Nat /\ 1 \in Int /\ m \in Int
      BY <2>2
    <3>2. Cardinality(1..m) = IF 1 > m THEN 0 ELSE m - 1 + 1
      BY <3>1, FS_Interval
    <3> QED BY <3>1, <3>2, <2>2
  <2> QED BY <2>2, <2>3, <2>4
<1> QED BY <1>1, <1>2

LEMMA ExpiredFirst ==
  ASSUME NEW T \in Seq(Stamped), Sorted(T), time \in Nat
  PROVE  /\ Line!Expired(T) \in 0..Len(T)
         /\ \A i \in 1..Len(T) : i > Line!Expired(T) <=> Fresh(T[i])
<1>n. PICK n \in Nat : n = Len(T)
  OBVIOUS
<1>1. PICK P \in SUBSET (1..n) : n = Len(T) /\ P = {i \in 1..n : T[i].at + Window < time}
  BY <1>n
<1>2. \A i \in P, j \in 1..n : j < i => j \in P
  BY <1>1, StampedParts, Limits DEF Sorted
<1>3. Line!Expired(T) = Cardinality(P)
  <2>1. DOMAIN T = 1..n
    BY <1>1
  <2>2. {i \in DOMAIN T : T[i].at + Window < time} = P
    BY <1>1, <2>1
  <2>3. Line!Expired(T) = Cardinality({i \in DOMAIN T : T[i].at + Window < time})
    BY LineCounts DEF Line!Expired
  <2> QED BY <2>2, <2>3
<1>4. Cardinality(P) \in 0..n /\ P = 1..Cardinality(P)
  BY <1>2, Beginning
<1>5. ASSUME NEW i \in 1..n PROVE i > Cardinality(P) <=> Fresh(T[i])
  <2>1. i \in P <=> T[i].at + Window < time
    BY <1>1
  <2>2. T[i].at \in Nat
    BY <1>1, StampedParts
  <2>3. i \in P <=> ~(i > Cardinality(P))
    BY <1>4
  <2> QED BY <2>1, <2>2, <2>3, Limits DEF Fresh
<1> QED BY <1>1, <1>3, <1>4, <1>5

LEMMA UpToFirst ==
  ASSUME NEW T \in Seq(Stamped), Sorted(T), NEW e \in Stamped
  PROVE  /\ Line!UpTo(T, e) \in 0..Len(T)
         /\ \A i \in 1..Len(T) : i <= Line!UpTo(T, e) <=> T[i].at <= e.at
<1>0. e.at \in Nat
  BY DEF Stamped
<1>n. PICK n \in Nat : n = Len(T)
  OBVIOUS
<1>1. PICK P \in SUBSET (1..n) : n = Len(T) /\ P = {i \in 1..n : T[i].at <= e.at}
  BY <1>n
<1>2. \A i \in P, j \in 1..n : j < i => j \in P
  BY <1>0, <1>1, StampedParts DEF Sorted
<1>3. Line!UpTo(T, e) = Cardinality(P)
  <2>1. DOMAIN T = 1..n
    BY <1>1
  <2>2. {i \in DOMAIN T : T[i].at <= e.at} = P
    BY <1>1, <2>1
  <2>3. Line!UpTo(T, e) = Cardinality({i \in DOMAIN T : T[i].at <= e.at})
    BY LineCounts DEF Line!UpTo
  <2> QED BY <2>2, <2>3
<1>4. Cardinality(P) \in 0..n /\ P = 1..Cardinality(P)
  BY <1>2, Beginning
<1>5. ASSUME NEW i \in 1..n PROVE i <= Cardinality(P) <=> T[i].at <= e.at
  <2>1. i \in P <=> T[i].at <= e.at
    BY <1>1
  <2>2. i \in P <=> i <= Cardinality(P)
    BY <1>4
  <2> QED BY <2>1, <2>2
<1> QED BY <1>1, <1>3, <1>4, <1>5

\* The event comes after q of the events that are not too old.
LEMMA InOrderIs ==
  ASSUME NEW T \in Seq(Stamped), Sorted(T), NEW e \in Stamped, time \in Nat,
         NEW old, old = Line!Expired(T), NEW q, q = IF Line!UpTo(T, e) > old THEN Line!UpTo(T, e) - old ELSE 0
  PROVE  /\ old \in 0..Len(T) /\ q \in 0..(Len(T) - old)
         /\ Line!InOrder(T, e) \in Seq(Stamped)
         /\ Len(Line!InOrder(T, e)) = Len(T) - old + 1
         /\ \A i \in 1..(Len(T) - old + 1) :
               Line!InOrder(T, e)[i] = IF i <= q THEN T[old + i] ELSE IF i = q + 1 THEN e ELSE T[old + i - 1]
<1>n. PICK n \in Nat : n = Len(T)
  OBVIOUS
<1>1. PICK place \in 0..n : n = Len(T) /\ place = Line!UpTo(T, e)
  BY <1>n, UpToFirst
<1>2. old \in 0..n /\ q \in 0..(n - old)
  BY <1>1, ExpiredFirst
<1>3. PICK A, B : A = SubSeq(T, old + 1, place) /\ B = SubSeq(T, (IF old < place THEN place ELSE old) + 1, n)
  OBVIOUS
<1>4. Line!InOrder(T, e) = A \o <<e>> \o B
  BY <1>1, <1>3 DEF Line!InOrder
<1>5. A \in Seq(Stamped) /\ Len(A) = q /\ \A i \in 1..q : A[i] = T[old + i]
  <2>1. old + 1 \in 1..(n + 1) /\ place \in 0..n
    BY <1>1, <1>2
  <2>2. CASE place <= old
    <3>1. q = 0 /\ old + 1 > place
      BY <1>1, <1>2, <2>2
    <3>2. A = <<>>
      <4>1. A = SubSeq(T, old + 1, place) /\ old + 1 \in Int /\ place \in Int
        BY <1>1, <1>2, <1>3
      <4> QED BY <3>1, <4>1, SubSeqProperties
    <3> QED BY <3>1, <3>2
  <2>3. CASE place > old
    <3>1. \A i \in (old + 1)..place : i \in 1..Len(T)
      BY <1>1, <1>2
    <3>2. /\ Len(A) = place - old
          /\ \A i \in 1..(place - old) : A[i] = T[old + i]
      BY <1>1, <1>2, <1>3, <2>3
    <3>3. A \in Seq(Stamped)
      BY <1>1, <1>3, <2>1, <3>1, SubSeqProperties
    <3> QED BY <1>1, <1>2, <2>3, <3>2, <3>3
  <2> QED BY <1>1, <1>2, <2>2, <2>3
<1>6. B \in Seq(Stamped) /\ Len(B) = n - old - q /\ \A i \in 1..(n - old - q) : B[i] = T[old + q + i]
  <2>1. PICK b \in 0..n : b = (IF old < place THEN place ELSE old)
    BY <1>1, <1>2
  <2>2. b = old + q
    BY <1>1, <1>2, <2>1
  <2>3. B = SubSeq(T, b + 1, n)
    BY <1>3, <2>1
  <2>4. \A i \in (b + 1)..n : i \in 1..Len(T)
    BY <1>1, <2>1
  <2>5. B \in Seq(Stamped)
    BY <1>1, <2>3, <2>4, <2>1, SubSeqProperties
  <2>6. Len(B) = n - b
    BY <1>1, <2>1, <2>3
  <2>7. ASSUME NEW i \in 1..(n - b) PROVE B[i] = T[b + i]
    <3>1. i \in 1..(n - (b + 1) + 1) /\ (b + 1) + i - 1 = b + i
      BY <2>1
    <3>2. b + 1 \in Int /\ n \in Int /\ \A k \in (b + 1)..n : T[k] \in Stamped
      BY <1>1, <2>1, <2>4
    <3>3. \A k \in 1..(n - (b + 1) + 1) : SubSeq(T, b + 1, n)[k] = T[(b + 1) + k - 1]
      BY <3>2, SubSeqProperties
    <3> QED BY <2>3, <3>1, <3>3
  <2> QED BY <1>2, <2>2, <2>5, <2>6, <2>7
<1>7. Line!InOrder(T, e) \in Seq(Stamped)
  BY <1>4, <1>5, <1>6
<1>8. Len(Line!InOrder(T, e)) = n - old + 1
  <2>1. A \o <<e>> \in Seq(Stamped) /\ Len(A \o <<e>>) = q + 1
    BY <1>2, <1>5
  <2>2. Len((A \o <<e>>) \o B) = Len(A \o <<e>>) + Len(B)
    BY <1>6, <2>1, ConcatProperties
  <2> QED BY <1>2, <1>4, <1>6, <2>1, <2>2
<1>9. ASSUME NEW i \in 1..(n - old + 1)
      PROVE  Line!InOrder(T, e)[i] = IF i <= q THEN T[old + i] ELSE IF i = q + 1 THEN e ELSE T[old + i - 1]
  <2>0. PICK C : C = A \o <<e>>
    OBVIOUS
  <2>1. C \in Seq(Stamped) /\ Len(C) = q + 1 /\ C[q + 1] = e /\ \A j \in 1..q : C[j] = A[j]
    <3>1. C \in Seq(Stamped) /\ Len(C) = q + 1
      BY <1>2, <1>5, <2>0, SMTT(30)
    <3>2. C[q + 1] = e
      BY <1>2, <1>5, <2>0, SMTT(30)
    <3>3. ASSUME NEW j \in 1..q PROVE C[j] = A[j]
      BY <1>2, <1>5, <2>0, <3>3
    <3> QED BY <3>1, <3>2, <3>3
  <2>2. Line!InOrder(T, e) = C \o B
    BY <1>4, <2>0
  <2>3. CASE i <= q + 1
    <3>1. (C \o B)[i] = C[i]
      BY <1>2, <1>6, <2>1, <2>3
    <3> QED BY <1>2, <1>5, <2>1, <2>2, <2>3, <3>1, SMTT(30)
  <2>4. CASE i > q + 1
    <3>1. (C \o B)[i] = B[i - (q + 1)]
      <4>1. i \in 1..(Len(C) + Len(B)) /\ i > Len(C)
        BY <1>2, <1>6, <2>1, <2>4
      <4>2. (C \o B)[i] = IF i <= Len(C) THEN C[i] ELSE B[i - Len(C)]
        BY <1>6, <2>1, <4>1, JoinedAt
      <4>3. Len(C) = q + 1 /\ ~(i <= q + 1)
        BY <2>1, <4>1
      <4> QED BY <4>2, <4>3
    <3>2. i - (q + 1) \in 1..(n - old - q) /\ old + q + (i - (q + 1)) = old + i - 1 /\ ~(i <= q) /\ i # q + 1
      BY <1>2, <2>4, SMTT(30)
    <3> QED BY <1>6, <2>2, <3>1, <3>2
  <2> QED BY <1>2, <2>3, <2>4
<1> QED BY <1>1, <1>2, <1>7, <1>8, <1>9

LEMMA InOrderSorted ==
  ASSUME NEW T \in Seq(Stamped), Sorted(T), NEW e \in Stamped, time \in Nat
  PROVE  Sorted(Line!InOrder(T, e))
<1>1. PICK n, old, up, q, all :
         /\ n = Len(T) /\ old = Line!Expired(T) /\ up = Line!UpTo(T, e)
         /\ q = (IF up > old THEN up - old ELSE 0) /\ all = Line!InOrder(T, e)
  OBVIOUS
<1>2. n \in Nat /\ old \in 0..n /\ up \in 0..n /\ q \in 0..(n - old)
  BY <1>1, UpToFirst, InOrderIs
<1>3. /\ Len(all) = n - old + 1
      /\ \A i \in 1..(n - old + 1) : all[i] = IF i <= q THEN T[old + i] ELSE IF i = q + 1 THEN e ELSE T[old + i - 1]
  <2>1. old = Line!Expired(T) /\ q = IF Line!UpTo(T, e) > old THEN Line!UpTo(T, e) - old ELSE 0
    BY <1>1
  <2>2. /\ Len(Line!InOrder(T, e)) = Len(T) - old + 1
        /\ \A i \in 1..(Len(T) - old + 1) :
              Line!InOrder(T, e)[i] = IF i <= q THEN T[old + i] ELSE IF i = q + 1 THEN e ELSE T[old + i - 1]
    BY <2>1, InOrderIs
  <2>3. n = Len(T) /\ all = Line!InOrder(T, e)
    BY <1>1
  <2> QED BY <2>2, <2>3
<1>q. (q > 0 => q = up - old) /\ (q = 0 => up <= old)
  BY <1>1, <1>2
<1>4. /\ e.at \in Nat
      /\ \A i \in 1..n : T[i].at \in Nat /\ (i <= up <=> T[i].at <= e.at)
      /\ \A i, j \in 1..n : i < j => T[i].at <= T[j].at
  BY <1>1, StampedParts, UpToFirst DEF Stamped, Sorted
<1>5. ASSUME NEW i \in 1..(n - old + 1), NEW j \in 1..(n - old + 1), i < j PROVE all[i].at <= all[j].at
  <2>1. CASE j <= q
    <3>1. old + i \in 1..n /\ old + j \in 1..n /\ old + i < old + j /\ i <= q
      BY <1>2, <1>5, <2>1
    <3> QED BY <1>3, <1>4, <2>1, <3>1
  <2>2. CASE i <= q /\ j = q + 1
    <3>1. old + i \in 1..n /\ old + i <= up /\ ~(j <= q)
      BY <1>q, <1>2, <2>2
    <3>2. all[i] = T[old + i] /\ all[j] = e
      BY <1>3, <2>2, <3>1
    <3> QED BY <1>4, <3>1, <3>2
  <2>3. CASE i <= q /\ j > q + 1
    <3>1. old + i \in 1..n /\ old + j - 1 \in 1..n /\ old + i < old + j - 1 /\ ~(j <= q) /\ j # q + 1
      BY <1>2, <2>3
    <3> QED BY <1>3, <1>4, <2>3, <3>1
  <2>4. CASE i = q + 1
    <3>1. old + j - 1 \in 1..n /\ ~(old + j - 1 <= up) /\ ~(j <= q) /\ j # q + 1 /\ ~(i <= q)
      BY <1>q, <1>2, <1>5, <2>4
    <3>2. all[i] = e /\ all[j] = T[old + j - 1]
      BY <1>3, <2>4, <3>1
    <3>3. T[old + j - 1].at \in Nat /\ ~(T[old + j - 1].at <= e.at)
      BY <1>4, <3>1
    <3> QED BY <1>4, <3>2, <3>3
  <2>5. CASE i > q + 1
    <3>1. /\ old + i - 1 \in 1..n /\ old + j - 1 \in 1..n /\ old + i - 1 < old + j - 1
          /\ ~(j <= q) /\ j # q + 1 /\ ~(i <= q) /\ i # q + 1
      BY <1>2, <1>5, <2>5
    <3> QED BY <1>3, <1>4, <3>1
  <2> QED BY <1>2, <1>5, <2>1, <2>2, <2>3, <2>4, <2>5
<1>6. \A i, j \in 1..Len(all) : i < j => all[i].at <= all[j].at
  BY <1>3, <1>5
<1> QED BY <1>1, <1>6 DEF Sorted

\* Of the old events and the new one only the first can have to go, and then there
\* are MaxEvents others that are as recent.
LEMMA RecordedKeeps ==
  ASSUME NEW T, Timeline(T), NEW e \in Stamped, time \in Nat
  PROVE  /\ Timeline(Line!Recorded(T, e))
         /\ Covered(Line!Recorded(T, e), e)
         /\ \A x \in Stamped : Fresh(x) /\ Covered(T, x) => Covered(Line!Recorded(T, e), x)
<1>0. T \in Seq(Stamped) /\ Sorted(T) /\ Len(T) <= MaxEvents
  BY DEF Timeline
<1>1. PICK n, old, up, q, all, R :
         /\ n = Len(T) /\ old = Line!Expired(T) /\ up = Line!UpTo(T, e)
         /\ q = (IF up > old THEN up - old ELSE 0) /\ all = Line!InOrder(T, e)
         /\ R = Line!Recorded(T, e)
  OBVIOUS
<1>2. n \in Nat /\ old \in 0..n /\ up \in 0..n /\ q \in 0..(n - old) /\ MaxEvents \in Nat /\ n <= MaxEvents
  BY <1>0, <1>1, UpToFirst, InOrderIs, Limits
<1>3. PICK m \in Nat : m = n - old + 1
  BY <1>2
<1>4. /\ all \in Seq(Stamped) /\ Len(all) = m
      /\ \A i \in 1..m : all[i] = IF i <= q THEN T[old + i] ELSE IF i = q + 1 THEN e ELSE T[old + i - 1]
  <2>1. Len(T) - old + 1 = m
    BY <1>1, <1>3
  <2>2. /\ Line!InOrder(T, e) \in Seq(Stamped)
        /\ Len(Line!InOrder(T, e)) = Len(T) - old + 1
        /\ \A i \in 1..(Len(T) - old + 1) :
              Line!InOrder(T, e)[i] = IF i <= q THEN T[old + i] ELSE IF i = q + 1 THEN e ELSE T[old + i - 1]
    <3>1. old = Line!Expired(T) /\ q = IF Line!UpTo(T, e) > old THEN Line!UpTo(T, e) - old ELSE 0
      BY <1>1
    <3> QED BY <1>0, <3>1, InOrderIs, SMTT(30)
  <2> QED BY <1>1, <2>1, <2>2
<1>5. \A i, j \in 1..m : i < j => all[i].at <= all[j].at
  BY <1>0, <1>1, <1>4, InOrderSorted DEF Sorted
<1>6. \A i \in 1..m : all[i].at \in Nat
  BY <1>4, StampedParts
<1>7. PICK d \in {0, 1} : d = IF m > MaxEvents THEN 1 ELSE 0
  OBVIOUS
<1>8. /\ d = 1 => n = MaxEvents /\ old = 0 /\ m = MaxEvents + 1
      /\ m - d <= MaxEvents /\ m - d \in Nat /\ d <= m
  BY <1>2, <1>3, <1>7
<1>9. R \in Seq(Stamped) /\ Len(R) = m - d /\ \A i \in 1..(m - d) : R[i] = all[i + d]
  <2>1. R = SubSeq(all, d + 1, m)
    <3>1. R = SubSeq(all, IF Len(all) > MaxEvents THEN Len(all) - MaxEvents + 1 ELSE 1, Len(all))
      BY <1>1 DEF Line!Recorded
    <3>2. (IF m > MaxEvents THEN m - MaxEvents + 1 ELSE 1) = d + 1
      BY <1>2, <1>7, <1>8
    <3> QED BY <1>4, <3>1, <3>2
  <2>2. \A i \in (d + 1)..m : i \in 1..Len(all)
    BY <1>4, <1>7
  <2>3. R \in Seq(Stamped)
    BY <1>4, <1>7, <2>1, <2>2, SubSeqProperties
  <2>4. Len(R) = m - d /\ \A i \in 1..(m - d) : R[i] = all[d + i]
    BY <1>4, <1>7, <1>8, <2>1
  <2> QED BY <1>7, <2>3, <2>4
<1>10. Sorted(R)
  <2>1. ASSUME NEW i \in 1..(m - d), NEW j \in 1..(m - d), i < j PROVE R[i].at <= R[j].at
    <3>1. i + d \in 1..m /\ j + d \in 1..m /\ i + d < j + d
      BY <1>3, <1>7, <1>8, <2>1
    <3> QED BY <1>5, <1>9, <3>1
  <2> QED BY <1>9, <2>1 DEF Sorted
<1>11. Timeline(R)
  BY <1>8, <1>9, <1>10 DEF Timeline
\* What is in all is covered.
<1>12. ASSUME NEW i \in 1..m PROVE Covered(R, all[i])
  <2>1. CASE i > d
    <3>1. i - d \in 1..(m - d) /\ (i - d) + d = i
      BY <1>3, <1>7, <1>8, <2>1
    <3>2. R[i - d] = all[i]
      BY <1>9, <3>1
    <3> QED BY <1>9, <3>1, <3>2 DEF Covered
  <2>2. CASE i <= d
    <3>1. i = 1 /\ d = 1 /\ m - d = MaxEvents
      BY <1>2, <1>7, <1>8, <2>2
    <3>2. ASSUME NEW j \in 1..(m - d) PROVE R[j].at >= all[i].at
      <4>1. j + d \in 1..m /\ i < j + d
        BY <1>3, <1>8, <3>1
      <4>2. all[i].at <= all[j + d].at /\ R[j] = all[j + d] /\ all[i].at \in Nat /\ all[j + d].at \in Nat
        BY <1>5, <1>6, <1>9, <4>1
      <4> QED BY <4>2
    <3> QED BY <1>9, <3>1, <3>2 DEF Covered
  <2> QED BY <1>3, <1>7, <2>1, <2>2
<1>13. Covered(R, e)
  <2>1. q + 1 \in 1..m /\ ~(q + 1 <= q)
    BY <1>2, <1>3
  <2>2. all[q + 1] = e
    BY <1>4, <2>1
  <2> QED BY <1>12, <2>1, <2>2
<1>14. ASSUME NEW x \in Stamped, Fresh(x), Covered(T, x) PROVE Covered(R, x)
  <2>0. x.at \in Nat /\ Window \in Nat
    BY Limits DEF Stamped
  <2>1. ASSUME NEW k \in 1..n, T[k] = x PROVE Covered(R, x)
    <3>1. k > old
      BY <1>0, <1>1, <1>14, <2>1, ExpiredFirst
    <3>2. CASE k - old <= q
      <4>1. k - old \in 1..m /\ old + (k - old) = k
        BY <1>2, <1>3, <3>1, <3>2
      <4>2. all[k - old] = T[k]
        BY <1>4, <3>2, <4>1
      <4> QED BY <1>12, <2>1, <4>1, <4>2
    <3>3. CASE k - old > q
      <4>1. /\ k - old + 1 \in 1..m /\ old + (k - old + 1) - 1 = k
            /\ ~(k - old + 1 <= q) /\ k - old + 1 # q + 1
        BY <1>2, <1>3, <3>1, <3>3
      <4>2. all[k - old + 1] = T[k]
        BY <1>4, <4>1
      <4> QED BY <1>12, <2>1, <4>1, <4>2
    <3> QED BY <1>2, <3>1, <3>2, <3>3
  <2>2. ASSUME n = MaxEvents, \A i \in 1..n : T[i].at >= x.at PROVE Covered(R, x)
    <3>1. old = 0
      <4>1. SUFFICES ASSUME old \in 1..n PROVE FALSE
        BY <1>2
      <4>2. ~Fresh(T[old]) /\ T[old].at >= x.at /\ T[old].at \in Nat
        BY <1>0, <1>1, <2>2, <4>1, ExpiredFirst, StampedParts
      <4>3. T[old].at + Window >= x.at + Window
        BY <2>0, <4>2
      <4> QED BY <1>14, <2>0, <4>2, <4>3 DEF Fresh
    <3>2. d = 1 /\ m - d = MaxEvents /\ m = n + 1
      BY <1>2, <1>3, <1>7, <2>2, <3>1
    <3>3. ASSUME NEW j \in 1..(m - d) PROVE R[j].at >= x.at
      <4>0. j + 1 \in 2..m /\ R[j] = all[j + 1]
        BY <1>3, <1>9, <3>2
      <4>1. PICK i \in 2..m : R[j] = all[i]
        BY <4>0
      <4>2. CASE i <= q
        <5>1. i \in 1..n /\ old + i = i /\ i \in 1..m
          BY <1>2, <3>1, <3>2, <4>2
        <5>2. all[i] = T[i]
          BY <1>4, <4>2, <5>1
        <5> QED BY <2>2, <4>1, <5>1, <5>2
      <4>3. CASE i = q + 1
        <5>3. q > 0 /\ ~(i <= q) /\ i \in 1..m
          BY <1>2, <4>3
        <5>4. up = q
          BY <1>1, <1>2, <3>1, <5>3
        <5>1. up \in 1..n /\ all[i] = e
          BY <1>2, <1>4, <3>1, <4>3, <5>3, <5>4
        <5>2. T[up].at <= e.at /\ T[up].at >= x.at /\ T[up].at \in Nat /\ e.at \in Nat
          BY <1>0, <1>1, <2>2, <5>1, UpToFirst, StampedParts DEF Stamped
        <5> QED BY <2>0, <4>1, <5>1, <5>2
      <4>4. CASE i > q + 1
        <5>1. i - 1 \in 1..n /\ old + i - 1 = i - 1 /\ ~(i <= q) /\ i # q + 1
          BY <1>2, <3>1, <3>2, <4>1, <4>4
        <5>2. all[i] = T[i - 1]
          BY <1>4, <4>1, <5>1
        <5> QED BY <2>2, <4>1, <5>1, <5>2
      <4> QED BY <1>2, <4>2, <4>3, <4>4
    <3> QED BY <1>9, <3>2, <3>3 DEF Covered
  <2> QED BY <1>1, <1>14, <2>1, <2>2 DEF Covered
<1> QED BY <1>1, <1>11, <1>13, <1>14

-----------------------------------------------------------------------------
\* The server keeps its promise to each device: what is not too old and was recorded
\* while no other recording was on its way is in the timeline, and in every list that
\* a recording has made and will store, or has MaxEvents others there that are as recent.
EvidenceInv ==
    /\ time \in Nat
    /\ seenAt \in [Devices -> Nat]
    /\ timeline \in [Labels -> Seq(Stamped)]
    /\ \A h \in Labels : Timeline(timeline[h])
    /\ listed \subseteq Labels
    /\ toRecord \in [Threads -> SUBSET (Labels \X Stamped)]
    /\ recording \subseteq Line!Recording
    /\ \A r \in recording : r.step = "store" => Timeline(r.made) /\ Covered(r.made, r.event)
    /\ told \subseteq Labels \X Stamped
    /\ \A x \in told :
          /\ x[1] \in listed
          /\ Fresh(x[2]) => Covered(timeline[x[1]], x[2])
          /\ \A r \in recording : r.host = x[1] =>
                /\ r.step # "make"
                /\ r.step = "store" /\ Fresh(x[2]) => Covered(r.made, x[2])

LEMMA EvidenceIs == Line!Evidence = Stamped
BY DEF Line!Evidence, Line!Reported, Stamped

LEMMA RecordingParts ==
  ASSUME NEW r \in Line!Recording
  PROVE  /\ r.by \in Threads /\ r.host \in Labels /\ r.event \in Stamped /\ r.made \in Seq(Stamped)
         /\ r.step \in {"make", "get", "store"}
BY EvidenceIs DEF Line!Recording

\* The state after a step, from what the step leaves of each part.
LEMMA EvidenceAfter ==
  ASSUME time' \in Nat, seenAt' \in [Devices -> Nat], timeline' \in [Labels -> Seq(Stamped)],
         \A h \in Labels : Timeline(timeline'[h]),
         listed' \subseteq Labels, toRecord' \in [Threads -> SUBSET (Labels \X Stamped)],
         recording' \subseteq Line!Recording,
         \A r \in recording' : r.step = "store" => Timeline(r.made) /\ Covered(r.made, r.event),
         told' \subseteq Labels \X Stamped,
         \A x \in told' :
            /\ x[1] \in listed'
            /\ x[2].at + Window >= time' => Covered(timeline'[x[1]], x[2])
            /\ \A r \in recording' : r.host = x[1] =>
                  /\ r.step # "make"
                  /\ r.step = "store" /\ x[2].at + Window >= time' => Covered(r.made, x[2])
  PROVE  EvidenceInv'
BY DEF EvidenceInv, Timeline, Sorted, Covered, Fresh

LEMMA NothingYet == <<>> \in Seq(Stamped) /\ Timeline(<<>>)
BY Limits DEF Timeline, Sorted

LEMMA EvidenceInit == Line!LinesInit => EvidenceInv
<1> SUFFICES ASSUME Line!LinesInit PROVE EvidenceInv
  OBVIOUS
<1>1. /\ time = 1 /\ seenAt = [d \in Devices |-> 1] /\ timeline = [h \in Labels |-> <<>>]
      /\ listed = {} /\ toRecord = [k \in Threads |-> {}] /\ recording = {} /\ told = {}
  BY DEF Line!LinesInit
<1> QED BY <1>1, NothingYet DEF EvidenceInv

\* A step that neither records nor forgets; the recordings may become fewer.
LEMMA EvidenceRests ==
  ASSUME EvidenceInv, UNCHANGED <<time, timeline, listed, told>>, recording' \subseteq recording,
         seenAt' \in [Devices -> Nat], toRecord' \in [Threads -> SUBSET (Labels \X Stamped)]
  PROVE  EvidenceInv'
<1>1. /\ time' \in Nat /\ timeline' \in [Labels -> Seq(Stamped)] /\ \A h \in Labels : Timeline(timeline'[h])
      /\ listed' \subseteq Labels /\ recording' \subseteq Line!Recording /\ told' \subseteq Labels \X Stamped
      /\ \A r \in recording' : r.step = "store" => Timeline(r.made) /\ Covered(r.made, r.event)
  BY DEF EvidenceInv
<1>2. \A x \in told' :
         /\ x[1] \in listed'
         /\ x[2].at + Window >= time' => Covered(timeline'[x[1]], x[2])
         /\ \A r \in recording' : r.host = x[1] =>
               /\ r.step # "make"
               /\ r.step = "store" /\ x[2].at + Window >= time' => Covered(r.made, x[2])
  BY DEF EvidenceInv, Fresh
<1> QED BY <1>1, <1>2, EvidenceAfter

LEMMA RequestEvidence ==
  ASSUME EvidenceInv, NEW k \in Threads,
         \/ \E p \in Reports : Line!Sync(k, p)
         \/ Line!Poll(k)
         \/ \E x \in toRecord[k] : Line!Withhold(k, x)
  PROVE  EvidenceInv'
<1>0. toRecord \in [Threads -> SUBSET (Labels \X Stamped)] /\ time \in Nat /\ seenAt \in [Devices -> Nat]
  BY DEF EvidenceInv
<1>1. ASSUME NEW p \in Reports, Line!Sync(k, p) PROVE EvidenceInv'
  <2>1. p.host \in Labels /\ \A c \in p.kinds : c \in {"socket", "dns", "traffic"}
    BY TimelinesKnown DEF Line!TimelinesAssumption, Line!Reported
  <2>2. PICK events : events = {<<p.host, [kind |-> c, at |-> time]>> : c \in p.kinds}
    OBVIOUS
  <2>3. events \subseteq Labels \X Stamped
    BY <1>0, <2>1, <2>2 DEF Stamped
  <2>4. toRecord' = [toRecord EXCEPT ![k] = events]
    BY <1>1, <2>2 DEF Line!Sync
  <2>5. toRecord' \in [Threads -> SUBSET (Labels \X Stamped)]
    BY <1>0, <2>3, <2>4
  <2>6. UNCHANGED <<time, timeline, listed, told, recording, seenAt>>
    BY <1>1 DEF Line!Sync
  <2> QED BY <1>0, <2>5, <2>6, EvidenceRests
<1>2. CASE Line!Poll(k)
  <2>1. \A d \in Devices : d.ip \in Labels
    BY TimelinesKnown DEF Line!TimelinesAssumption
  <2>2. PICK events : events = {<<d.ip, Line!Presence(d)>> : d \in Devices}
    OBVIOUS
  <2>3. events \subseteq Labels \X Stamped
    BY <1>0, <2>1, <2>2 DEF Stamped, Line!Presence
  <2>4. toRecord' = [toRecord EXCEPT ![k] = events]
    BY <1>2, <2>2 DEF Line!Poll
  <2>5. toRecord' \in [Threads -> SUBSET (Labels \X Stamped)]
    BY <1>0, <2>3, <2>4
  <2>6. UNCHANGED <<time, timeline, listed, told, recording, seenAt>>
    BY <1>2 DEF Line!Poll
  <2> QED BY <1>0, <2>5, <2>6, EvidenceRests
<1>3. ASSUME NEW x \in toRecord[k], Line!Withhold(k, x) PROVE EvidenceInv'
  <2>1. toRecord' = [toRecord EXCEPT ![k] = @ \ {x}] /\ UNCHANGED <<time, timeline, listed, told, recording, seenAt>>
    BY <1>3 DEF Line!Withhold
  <2>2. toRecord' \in [Threads -> SUBSET (Labels \X Stamped)]
    BY <1>0, <2>1
  <2> QED BY <1>0, <2>1, <2>2, EvidenceRests
<1> QED BY <1>1, <1>2, <1>3

\* A recording begins, for a label that is not listed with an empty list.
LEMMA CheckEvidence ==
  ASSUME EvidenceInv, NEW k \in Threads, NEW x \in toRecord[k], Line!Check(k, x)
  PROVE  EvidenceInv'
<1>1. PICK r : r = [by |-> k, host |-> x[1], event |-> x[2], step |-> IF x[1] \in listed THEN "get" ELSE "make", made |-> <<>>]
  OBVIOUS
<1>2. recording' = recording \cup {r} /\ UNCHANGED <<time, seenAt, timeline, listed, toRecord, told>>
  BY <1>1 DEF Line!Check
<1>3. x[1] \in Labels /\ x[2] \in Stamped
  <2>1. x \in Labels \X Stamped
    BY DEF EvidenceInv
  <2> QED BY <2>1
<1>4. /\ r \in Line!Recording /\ r.host = x[1] /\ r.step # "store"
      /\ r.step = "make" => r.host \notin listed
  BY <1>1, <1>3, EvidenceIs DEF Line!Recording
<1>5. /\ time' \in Nat /\ timeline' \in [Labels -> Seq(Stamped)] /\ \A h \in Labels : Timeline(timeline'[h])
      /\ seenAt' \in [Devices -> Nat] /\ toRecord' \in [Threads -> SUBSET (Labels \X Stamped)]
      /\ listed' \subseteq Labels /\ recording' \subseteq Line!Recording /\ told' \subseteq Labels \X Stamped
      /\ \A s \in recording' : s.step = "store" => Timeline(s.made) /\ Covered(s.made, s.event)
  BY <1>2, <1>4 DEF EvidenceInv
<1>6. \A y \in told' :
         /\ y[1] \in listed'
         /\ y[2].at + Window >= time' => Covered(timeline'[y[1]], y[2])
         /\ \A s \in recording' : s.host = y[1] =>
               /\ s.step # "make"
               /\ s.step = "store" /\ y[2].at + Window >= time' => Covered(s.made, y[2])
  BY <1>2, <1>4 DEF EvidenceInv, Fresh
<1> QED BY <1>5, <1>6, EvidenceAfter

\* The empty list is stored only for a label of which nothing was told.
LEMMA MakeEvidence ==
  ASSUME EvidenceInv, NEW r \in recording, Line!Make(r)
  PROVE  EvidenceInv'
<1>1. r \in Line!Recording /\ r.host \in Labels /\ r.step = "make"
  BY RecordingParts DEF EvidenceInv, Line!Make
<1>2. PICK s : s = [r EXCEPT !.step = "get"]
  OBVIOUS
<1>3. s \in Line!Recording /\ s.step = "get"
  BY <1>1, <1>2 DEF Line!Recording
<1>4. /\ recording' = (recording \ {r}) \cup {s}
      /\ timeline' = [timeline EXCEPT ![r.host] = <<>>] /\ listed' = listed \cup {r.host}
      /\ UNCHANGED <<time, seenAt, toRecord, told>>
  BY <1>2 DEF Line!Make, Line!Moved
<1>5. timeline' \in [Labels -> Seq(Stamped)] /\ \A h \in Labels : Timeline(timeline'[h])
  BY <1>1, <1>4, NothingYet DEF EvidenceInv
<1>6. /\ time' \in Nat /\ seenAt' \in [Devices -> Nat] /\ toRecord' \in [Threads -> SUBSET (Labels \X Stamped)]
      /\ listed' \subseteq Labels /\ recording' \subseteq Line!Recording /\ told' \subseteq Labels \X Stamped
      /\ \A q \in recording' : q.step = "store" => Timeline(q.made) /\ Covered(q.made, q.event)
  BY <1>1, <1>3, <1>4 DEF EvidenceInv
<1>7. ASSUME NEW x \in told'
      PROVE  /\ x[1] \in listed'
             /\ x[2].at + Window >= time' => Covered(timeline'[x[1]], x[2])
             /\ \A q \in recording' : q.host = x[1] =>
                   /\ q.step # "make"
                   /\ q.step = "store" /\ x[2].at + Window >= time' => Covered(q.made, x[2])
  <2>1. x \in told /\ x[1] \in Labels /\ r.host # x[1]
    BY <1>1, <1>4 DEF EvidenceInv
  <2>2. timeline'[x[1]] = timeline[x[1]]
    BY <1>4, <2>1 DEF EvidenceInv
  <2> QED BY <1>3, <1>4, <2>1, <2>2 DEF EvidenceInv, Fresh
<1> QED BY <1>5, <1>6, <1>7, EvidenceAfter

\* The list that a recording makes keeps what the timeline has.
LEMMA GetEvidence ==
  ASSUME EvidenceInv, NEW r \in recording, Line!Get(r)
  PROVE  EvidenceInv'
<1>1. r \in Line!Recording /\ r.host \in Labels /\ r.event \in Stamped /\ r.by \in Threads
  BY RecordingParts DEF EvidenceInv
<1>2. CASE r.host \notin listed
  <2>1. recording' = recording \ {r} /\ toRecord' = [toRecord EXCEPT ![r.by] = {}]
        /\ UNCHANGED <<time, seenAt, timeline, listed, told>>
    BY <1>2 DEF Line!Get
  <2>2. toRecord' \in [Threads -> SUBSET (Labels \X Stamped)] /\ seenAt' \in [Devices -> Nat]
    BY <2>1 DEF EvidenceInv
  <2> QED BY <2>1, <2>2, EvidenceRests
<1>3. CASE r.host \in listed
  <2>1. PICK T, R : T = timeline[r.host] /\ R = Line!Recorded(T, r.event)
    OBVIOUS
  <2>2. Timeline(T) /\ time \in Nat
    BY <1>1, <2>1 DEF EvidenceInv
  <2>3. /\ Timeline(R) /\ Covered(R, r.event)
        /\ \A x \in Stamped : Fresh(x) /\ Covered(T, x) => Covered(R, x)
    BY <1>1, <2>1, <2>2, RecordedKeeps
  <2>4. PICK s : s = [r EXCEPT !.step = "store", !.made = R]
    OBVIOUS
  <2>5. R \in Seq(Stamped)
    BY <2>3 DEF Timeline
  <2>6. s \in Line!Recording /\ s.step = "store" /\ s.made = R /\ s.host = r.host /\ s.event = r.event
    BY <1>1, <2>4, <2>5, EvidenceIs DEF Line!Recording
  <2>7. recording' = (recording \ {r}) \cup {s} /\ UNCHANGED <<time, seenAt, timeline, listed, told, toRecord>>
    BY <1>3, <2>1, <2>4 DEF Line!Get, Line!Moved
  <2>8. /\ time' \in Nat /\ timeline' \in [Labels -> Seq(Stamped)] /\ \A h \in Labels : Timeline(timeline'[h])
        /\ seenAt' \in [Devices -> Nat] /\ toRecord' \in [Threads -> SUBSET (Labels \X Stamped)]
        /\ listed' \subseteq Labels /\ recording' \subseteq Line!Recording /\ told' \subseteq Labels \X Stamped
        /\ \A q \in recording' : q.step = "store" => Timeline(q.made) /\ Covered(q.made, q.event)
    BY <2>3, <2>6, <2>7 DEF EvidenceInv
  <2>9. ASSUME NEW x \in told'
        PROVE  /\ x[1] \in listed'
               /\ x[2].at + Window >= time' => Covered(timeline'[x[1]], x[2])
               /\ \A q \in recording' : q.host = x[1] =>
                     /\ q.step # "make"
                     /\ q.step = "store" /\ x[2].at + Window >= time' => Covered(q.made, x[2])
    <3>1. x \in told /\ x[2] \in Stamped
      BY <2>7 DEF EvidenceInv
    <3>2. ASSUME r.host = x[1], Fresh(x[2]) PROVE Covered(R, x[2])
      <4>1. Covered(T, x[2])
        BY <2>1, <3>1, <3>2 DEF EvidenceInv
      <4> QED BY <2>3, <3>1, <3>2, <4>1
    <3> QED BY <2>6, <2>7, <3>1, <3>2 DEF EvidenceInv, Fresh
  <2> QED BY <2>8, <2>9, EvidenceAfter
<1> QED BY <1>2, <1>3

\* A store puts a list in place that keeps what was told, and tells of its own event
\* when no other list is on its way.
LEMMA StoreEvidence ==
  ASSUME EvidenceInv, NEW r \in recording, Line!Store(r)
  PROVE  EvidenceInv'
<1>1. /\ r \in Line!Recording /\ r.host \in Labels /\ r.event \in Stamped /\ r.by \in Threads /\ r.made \in Seq(Stamped)
      /\ r.step = "store" /\ Timeline(r.made) /\ Covered(r.made, r.event)
  BY RecordingParts DEF EvidenceInv, Line!Store
<1>2. /\ timeline' = [timeline EXCEPT ![r.host] = r.made] /\ listed' = listed \cup {r.host}
      /\ recording' = recording \ {r}
      /\ toRecord' = [toRecord EXCEPT ![r.by] = @ \ {<<r.host, r.event>>}]
      /\ UNCHANGED <<time, seenAt>>
  BY DEF Line!Store
<1>3. /\ told' = told \/ told' = told \cup {<<r.host, r.event>>}
      /\ Line!Overlapped(r) => told' = told
  BY DEF Line!Store
<1>4. /\ time' \in Nat /\ seenAt' \in [Devices -> Nat]
      /\ toRecord' \in [Threads -> SUBSET (Labels \X Stamped)]
      /\ listed' \subseteq Labels /\ recording' \subseteq Line!Recording /\ told' \subseteq Labels \X Stamped
      /\ \A q \in recording' : q.step = "store" => Timeline(q.made) /\ Covered(q.made, q.event)
  BY <1>1, <1>2, <1>3 DEF EvidenceInv
<1>5. timeline' \in [Labels -> Seq(Stamped)] /\ \A h \in Labels : timeline'[h] = IF h = r.host THEN r.made ELSE timeline[h]
  BY <1>1, <1>2 DEF EvidenceInv
<1>6. \A h \in Labels : Timeline(timeline'[h])
  BY <1>1, <1>5 DEF EvidenceInv
<1>7. ASSUME NEW x \in told'
      PROVE  /\ x[1] \in listed'
             /\ x[2].at + Window >= time' => Covered(timeline'[x[1]], x[2])
             /\ \A q \in recording' : q.host = x[1] =>
                   /\ q.step # "make"
                   /\ q.step = "store" /\ x[2].at + Window >= time' => Covered(q.made, x[2])
  <2>1. CASE x \in told
    <3>1. x[1] \in Labels /\ x[1] \in listed
      BY <2>1 DEF EvidenceInv
    <3>2. /\ Fresh(x[2]) => Covered(timeline[x[1]], x[2])
          /\ \A q \in recording : q.host = x[1] =>
                q.step # "make" /\ (q.step = "store" /\ Fresh(x[2]) => Covered(q.made, x[2]))
      BY <2>1 DEF EvidenceInv
    <3>3. Fresh(x[2]) => Covered(timeline'[x[1]], x[2])
      BY <1>1, <1>5, <3>1, <3>2
    <3> QED BY <1>2, <3>1, <3>2, <3>3 DEF Fresh
  <2>2. CASE x \notin told
    <3>1. x[1] = r.host /\ x[2] = r.event /\ ~Line!Overlapped(r)
      BY <1>3, <2>2
    <3>2. ASSUME NEW q \in recording', q.host = x[1] PROVE q.step # "make" /\ q.step # "store"
      BY <1>2, <3>1, <3>2 DEF Line!Overlapped
    <3> QED BY <1>1, <1>2, <1>5, <3>1, <3>2
  <2> QED BY <2>1, <2>2
<1> QED BY <1>4, <1>5, <1>6, <1>7, EvidenceAfter

LEMMA ForgetEvidence ==
  ASSUME EvidenceInv, Line!ClearDevices \/ Line!Restart
  PROVE  EvidenceInv'
<1>1. /\ timeline' = [h \in Labels |-> <<>>] /\ listed' = {} /\ told' = {}
      /\ recording' = recording \/ recording' = {}
      /\ toRecord' = toRecord \/ toRecord' = [k \in Threads |-> {}]
      /\ UNCHANGED <<time, seenAt>>
  BY DEF Line!ClearDevices, Line!Restart
<1>2. /\ time' \in Nat /\ seenAt' \in [Devices -> Nat]
      /\ toRecord' \in [Threads -> SUBSET (Labels \X Stamped)]
      /\ listed' \subseteq Labels /\ recording' \subseteq Line!Recording /\ told' \subseteq Labels \X Stamped
      /\ \A q \in recording' : q.step = "store" => Timeline(q.made) /\ Covered(q.made, q.event)
  BY <1>1 DEF EvidenceInv
<1>3. timeline' \in [Labels -> Seq(Stamped)] /\ \A h \in Labels : Timeline(timeline'[h])
  BY <1>1, NothingYet
<1> QED BY <1>1, <1>2, <1>3, EvidenceAfter

LEMMA PassEvidence ==
  ASSUME EvidenceInv, Line!Pass
  PROVE  EvidenceInv'
<1>1. time' = time + 1 /\ time \in Nat /\ UNCHANGED <<seenAt, timeline, listed, toRecord, recording, told>>
  BY DEF Line!Pass, EvidenceInv
<1>2. ASSUME NEW x \in told, x[2].at + Window >= time' PROVE Fresh(x[2])
  <2>1. x[2] \in Stamped
    BY DEF EvidenceInv
  <2>2. x[2].at \in Nat
    BY <2>1 DEF Stamped
  <2> QED BY <1>1, <1>2, <2>2, Limits DEF Fresh
<1>3. \A x \in told' :
         /\ x[1] \in listed'
         /\ x[2].at + Window >= time' => Covered(timeline'[x[1]], x[2])
         /\ \A r \in recording' : r.host = x[1] =>
               /\ r.step # "make"
               /\ r.step = "store" /\ x[2].at + Window >= time' => Covered(r.made, x[2])
  BY <1>1, <1>2 DEF EvidenceInv
<1>4. /\ time' \in Nat /\ timeline' \in [Labels -> Seq(Stamped)] /\ \A h \in Labels : Timeline(timeline'[h])
      /\ seenAt' \in [Devices -> Nat] /\ toRecord' \in [Threads -> SUBSET (Labels \X Stamped)]
      /\ listed' \subseteq Labels /\ recording' \subseteq Line!Recording /\ told' \subseteq Labels \X Stamped
      /\ \A q \in recording' : q.step = "store" => Timeline(q.made) /\ Covered(q.made, q.event)
  BY <1>1 DEF EvidenceInv
<1> QED BY <1>3, <1>4, EvidenceAfter

LEMMA EvidenceStep == EvidenceInv /\ [Line!LinesNext]_Line!lineVars => EvidenceInv'
<1> SUFFICES ASSUME EvidenceInv, [Line!LinesNext]_Line!lineVars PROVE EvidenceInv'
  OBVIOUS
<1>0. seenAt \in [Devices -> Nat] /\ time \in Nat /\ toRecord \in [Threads -> SUBSET (Labels \X Stamped)]
  BY DEF EvidenceInv
<1>1. ASSUME NEW d \in Devices, Line!Seen(d) PROVE EvidenceInv'
  <2>1. seenAt' \in [Devices -> Nat] /\ UNCHANGED <<time, timeline, listed, told, recording, toRecord>>
    BY <1>0, <1>1 DEF Line!Seen
  <2> QED BY <1>0, <2>1, EvidenceRests
<1>2. ASSUME NEW c \in BOOLEAN, Line!SetConsent(c) PROVE EvidenceInv'
  <2>1. UNCHANGED <<time, seenAt, timeline, listed, told, recording, toRecord>>
    BY <1>2 DEF Line!SetConsent
  <2> QED BY <1>0, <2>1, EvidenceRests
<1>3. CASE UNCHANGED Line!lineVars
  <2>1. UNCHANGED <<time, seenAt, timeline, listed, told, recording, toRecord>>
    BY <1>3 DEF Line!lineVars
  <2> QED BY <1>0, <2>1, EvidenceRests
<1> QED BY <1>1, <1>2, <1>3, RequestEvidence, CheckEvidence, MakeEvidence, GetEvidence, StoreEvidence,
           ForgetEvidence, PassEvidence DEF Line!LinesNext

LEMMA EvidenceStands == EvidenceInv => Line!EvidenceKept
<1> SUFFICES ASSUME EvidenceInv, NEW h \in Labels
             PROVE  /\ Len(timeline[h]) <= MaxEvents
                    /\ \A i, j \in DOMAIN timeline[h] : i < j => timeline[h][i].at <= timeline[h][j].at
                    /\ \A x \in told : x[1] = h /\ x[2].at + Window >= time =>
                          \/ x[2] \in Line!ToSet(Line!Timeline(h))
                          \/ Cardinality({i \in DOMAIN timeline[h] : timeline[h][i].at >= x[2].at}) = MaxEvents
  BY LineCounts DEF Line!EvidenceKept
<1>1. PICK T, n : T = timeline[h] /\ n = Len(T)
  OBVIOUS
<1>2. T \in Seq(Stamped) /\ Sorted(T) /\ n <= MaxEvents /\ n \in Nat /\ DOMAIN T = 1..n
  BY <1>1 DEF EvidenceInv, Timeline
<1>3. \A i, j \in DOMAIN T : i < j => T[i].at <= T[j].at
  BY <1>1, <1>2 DEF Sorted
<1>4. ASSUME NEW x \in told, x[1] = h, x[2].at + Window >= time
      PROVE  \/ x[2] \in Line!ToSet(Line!Timeline(h))
             \/ Cardinality({i \in DOMAIN T : T[i].at >= x[2].at}) = MaxEvents
  <2>1. Fresh(x[2]) /\ Covered(T, x[2]) /\ time \in Nat
    BY <1>1, <1>4 DEF EvidenceInv, Fresh
  <2>2. ASSUME NEW k \in 1..n, T[k] = x[2] PROVE x[2] \in Line!ToSet(Line!Timeline(h))
    <3>1. PICK e : e = Line!Expired(T)
      OBVIOUS
    <3>2. e \in 0..n /\ k > e
      BY <1>1, <1>2, <2>1, <2>2, <3>1, ExpiredFirst
    <3>3. PICK L : L = Line!Timeline(h)
      OBVIOUS
    <3>4. L = SubSeq(T, e + 1, n)
      BY <1>1, <3>1, <3>3 DEF Line!Timeline
    <3>5. Len(L) = n - e /\ L \in Seq(Stamped) /\ \A i \in 1..(n - e) : L[i] = T[e + i]
      <4>1. \A i \in (e + 1)..n : T[i] \in Stamped
        BY <1>1, <1>2, <3>2, StampedParts
      <4>2. e + 1 \in Int /\ n \in Int
        BY <1>2, <3>2
      <4>3. /\ SubSeq(T, e + 1, n) \in Seq(Stamped)
            /\ Len(SubSeq(T, e + 1, n)) = IF e + 1 <= n THEN n - (e + 1) + 1 ELSE 0
            /\ \A i \in 1 .. n - (e + 1) + 1 : SubSeq(T, e + 1, n)[i] = T[(e + 1) + i - 1]
        BY <4>1, <4>2, SubSeqProperties
      <4> QED BY <1>2, <3>2, <3>4, <4>3
    <3>6. k - e \in 1..(n - e) /\ e + (k - e) = k
      BY <1>2, <3>2
    <3>7. L[k - e] = x[2] /\ k - e \in DOMAIN L
      BY <2>2, <3>5, <3>6
    <3> QED BY <3>3, <3>7 DEF Line!ToSet
  <2>3. ASSUME n = MaxEvents, \A i \in 1..n : T[i].at >= x[2].at
        PROVE  Cardinality({i \in DOMAIN T : T[i].at >= x[2].at}) = MaxEvents
    <3>1. {i \in DOMAIN T : T[i].at >= x[2].at} = 1..n
      BY <1>2, <2>3
    <3>2. Cardinality(1..n) = n
      BY <1>2, FS_Interval
    <3> QED BY <2>3, <3>1, <3>2
  <2> QED BY <1>1, <2>1, <2>2, <2>3 DEF Covered
<1> QED BY <1>1, <1>2, <1>3, <1>4

-----------------------------------------------------------------------------
(* LiveFeed: its threats *)

LEMMA FeedNone == None \notin Labels \cup Feed!Observing \cup Feed!Observation
BY FeedKnown DEF Feed!NoneAssumption

LEMMA FeedBounds == Observers \subseteq Labels /\ Payloads \subseteq Feed!Payload
BY FeedKnown DEF Feed!FeedAssumption

LEMMA FeedStarts == Feed!FeedInit => Feed!FeedType
<1> SUFFICES ASSUME Feed!FeedInit PROVE Feed!FeedType
  OBVIOUS
<1>1. telemetry \in Seq(Feed!Telemetry)
  BY EmptySeq DEF Feed!FeedInit
<1>2. shown \in [Devices -> Feed!Shown]
  BY DEF Feed!FeedInit, Feed!Nothing, Feed!Shown
<1> QED BY <1>1, <1>2 DEF Feed!FeedInit, Feed!FeedType

LEMMA ObserveType ==
  ASSUME Feed!FeedType, NEW k \in Threads, NEW host \in Labels, NEW domain \in Domains, Feed!Observe(k, host, domain)
  PROVE  Feed!FeedType'
<1>1. [domain |-> domain, host |-> host, read |-> 0, looked |-> FALSE, gone |-> FALSE] \in Feed!Observing
  BY DEF Feed!Observing
<1>2. pending' \in [Threads -> Feed!Observing \cup {None}]
  BY <1>1 DEF Feed!Observe, Feed!FeedType
<1>3. dest' \in [Labels -> [Domains -> Nat]]
  BY DEF Feed!Observe, Feed!FeedType
<1> QED BY <1>2, <1>3 DEF Feed!Observe, Feed!FeedType

LEMMA LookUpType ==
  ASSUME Feed!FeedType, NEW k \in Threads, Feed!LookUp(k)
  PROVE  Feed!FeedType'
<1>1. PICK p : p = pending[k]
  OBVIOUS
<1>2. p \in Feed!Observing
  BY <1>1 DEF Feed!FeedType, Feed!LookUp
<1>3. PICK n : n = IF feed[p.domain] = None THEN 0 ELSE feed[p.domain].hits
  OBVIOUS
<1>4. n \in Nat
  BY <1>2, <1>3 DEF Feed!FeedType, Feed!Observing, Feed!Observation
<1>5. pending' = [pending EXCEPT ![k] = [p EXCEPT !.looked = TRUE, !.read = n]]
  BY <1>1, <1>3 DEF Feed!LookUp, Feed!FeedType
<1>6. [p EXCEPT !.looked = TRUE, !.read = n] \in Feed!Observing
  BY <1>2, <1>4 DEF Feed!Observing
<1>7. pending' \in [Threads -> Feed!Observing \cup {None}]
  BY <1>5, <1>6 DEF Feed!FeedType
<1> QED BY <1>7 DEF Feed!FeedType, Feed!LookUp

LEMMA UpsertType ==
  ASSUME Feed!FeedType, NEW k \in Threads, Feed!Upsert(k)
  PROVE  Feed!FeedType'
<1>1. PICK p : p = pending[k]
  OBVIOUS
<1>2. p \in Feed!Observing
  BY <1>1 DEF Feed!FeedType, Feed!Upsert
<1>3. PICK there : there = IF feed[p.domain] = None THEN 0 ELSE feed[p.domain].hits
  OBVIOUS
<1>4. there \in Nat
  BY <1>2, <1>3 DEF Feed!FeedType, Feed!Observing, Feed!Observation
<1>5. PICK n : n = IF p.read = 0 THEN there ELSE p.read
  OBVIOUS
<1>6. n \in Nat
  BY <1>2, <1>4, <1>5 DEF Feed!Observing
<1>7. Feed!Bumped(n, p.host) \in Feed!Observation
  BY <1>2, <1>6 DEF Feed!Bumped, Feed!Observation, Feed!Observing, Feed!FeedType
<1>8. pending' \in [Threads -> Feed!Observing \cup {None}]
  BY DEF Feed!FeedType, Feed!Upsert
<1>9. CASE UNCHANGED <<feed, answered>>
  BY <1>8, <1>9 DEF Feed!FeedType, Feed!Upsert
<1>10. CASE /\ feed' = [feed EXCEPT ![p.domain] = Feed!Bumped(n, p.host)]
            /\ answered' = [answered EXCEPT ![p.domain] = @ + 1]
  <2>1. feed' \in [Domains -> Feed!Observation \cup {None}]
    BY <1>7, <1>10 DEF Feed!FeedType
  <2>2. answered' \in [Domains -> Nat]
    BY <1>2, <1>10 DEF Feed!FeedType, Feed!Observing
  <2> QED BY <1>8, <2>1, <2>2 DEF Feed!FeedType, Feed!Upsert
<1> QED BY <1>1, <1>3, <1>5, <1>9, <1>10 DEF Feed!Upsert

LEMMA ClearType ==
  ASSUME Feed!FeedType, NEW ds, Feed!Clear(ds)
  PROVE  Feed!FeedType'
<1>1. feed' \in [Domains -> Feed!Observation \cup {None}]
  BY DEF Feed!FeedType, Feed!Clear
<1>2. answered' \in [Domains -> Nat]
  BY DEF Feed!FeedType, Feed!Clear
<1>3. ASSUME NEW k \in Threads PROVE pending'[k] \in Feed!Observing \cup {None}
  <2>1. PICK p : p = pending[k]
    OBVIOUS
  <2>2. p \in Feed!Observing \cup {None}
    BY <2>1 DEF Feed!FeedType
  <2>3. p # None => [p EXCEPT !.gone = @ \/ p.looked] \in Feed!Observing
    BY <2>2 DEF Feed!Observing
  <2> QED BY <2>1, <2>2, <2>3 DEF Feed!Clear
<1>4. pending' \in [Threads -> Feed!Observing \cup {None}]
  BY <1>3 DEF Feed!Clear
<1> QED BY <1>1, <1>2, <1>4 DEF Feed!FeedType, Feed!Clear

LEMMA RefreshedType ==
  ASSUME Feed!FeedType, NEW t \in Feed!Telemetry, NEW p \in Feed!Payload
  PROVE  /\ Feed!Refreshed(t, p) \in Feed!Telemetry
         /\ Feed!Refreshed(t, p).host = t.host /\ Feed!Refreshed(t, p).tabs = p.tabs
BY DEF Feed!FeedType, Feed!Refreshed, Feed!Telemetry, Feed!Payload

\* A sync refreshes the records of its host, or adds one.
LEMMA SyncedType ==
  ASSUME Feed!FeedType, NEW p \in Feed!Payload
  PROVE  /\ Feed!Synced(p) \in Seq(Feed!Telemetry)
         /\ \A i \in DOMAIN Feed!Synced(p) :
               \/ Feed!Synced(p)[i].host = p.host /\ Feed!Synced(p)[i].tabs = p.tabs
               \/ i \in DOMAIN telemetry /\ Feed!Synced(p)[i] = telemetry[i]
<1> DEFINE fresh == [host |-> p.host, at |-> time, tabs |-> {}, tabsAt |-> time, procs |-> FALSE]
<1>1. telemetry \in Seq(Feed!Telemetry)
  BY DEF Feed!FeedType
<1>2. CASE \E i \in DOMAIN telemetry : telemetry[i].host = p.host
  <2>1. Feed!Synced(p) = [i \in DOMAIN telemetry |-> IF telemetry[i].host = p.host THEN Feed!Refreshed(telemetry[i], p)
                                                ELSE telemetry[i]]
    BY <1>2 DEF Feed!Synced
  <2>2. ASSUME NEW i \in DOMAIN telemetry
        PROVE  /\ Feed!Synced(p)[i] \in Feed!Telemetry
               /\ \/ Feed!Synced(p)[i].host = p.host /\ Feed!Synced(p)[i].tabs = p.tabs
                  \/ i \in DOMAIN telemetry /\ Feed!Synced(p)[i] = telemetry[i]
    <3>1. telemetry[i] \in Feed!Telemetry
      BY <1>1, ElementOfSeq
    <3> QED BY <2>1, <3>1, RefreshedType
  <2>3. DOMAIN Feed!Synced(p) = DOMAIN telemetry /\ DOMAIN telemetry = 1..Len(telemetry) /\ Len(telemetry) \in Nat
    BY <1>1, <2>1
  <2>4. Feed!Synced(p) = [i \in 1..Len(telemetry) |-> Feed!Synced(p)[i]]
    BY <2>1, <2>3
  <2>5. Feed!Synced(p) \in Seq(Feed!Telemetry)
    BY <2>2, <2>3, <2>4, IsASeq
  <2> QED BY <2>2, <2>3, <2>5
<1>3. CASE ~\E i \in DOMAIN telemetry : telemetry[i].host = p.host
  <2>1. Feed!Synced(p) = Append(telemetry, Feed!Refreshed(fresh, p))
    BY <1>3 DEF Feed!Synced
  <2>2. fresh \in Feed!Telemetry
    BY DEF Feed!FeedType, Feed!Telemetry, Feed!Payload
  <2>3. /\ Feed!Refreshed(fresh, p) \in Feed!Telemetry
        /\ Feed!Refreshed(fresh, p).host = p.host /\ Feed!Refreshed(fresh, p).tabs = p.tabs
    BY <2>2, RefreshedType
  <2>4. PICK r \in Feed!Telemetry : r = Feed!Refreshed(fresh, p)
    BY <2>3
  <2>5. /\ Feed!Synced(p) \in Seq(Feed!Telemetry)
        /\ Len(Feed!Synced(p)) = Len(telemetry) + 1
        /\ \A i \in 1..Len(telemetry) : Feed!Synced(p)[i] = telemetry[i]
        /\ Feed!Synced(p)[Len(telemetry) + 1] = r
    BY <1>1, <2>1, <2>4, AppendProperties
  <2>6. /\ DOMAIN telemetry = 1..Len(telemetry) /\ Len(telemetry) \in Nat
        /\ DOMAIN Feed!Synced(p) = 1..(Len(telemetry) + 1)
    BY <1>1, <2>5, LenProperties
  <2>7. ASSUME NEW i \in DOMAIN Feed!Synced(p)
        PROVE  \/ Feed!Synced(p)[i].host = p.host /\ Feed!Synced(p)[i].tabs = p.tabs
               \/ i \in DOMAIN telemetry /\ Feed!Synced(p)[i] = telemetry[i]
    <3>1. i \in 1..Len(telemetry) \/ i = Len(telemetry) + 1
      BY <2>6
    <3> QED BY <2>3, <2>4, <2>5, <2>6, <3>1
  <2> QED BY <2>5, <2>7
<1> QED BY <1>2, <1>3

LEMMA SyncType ==
  ASSUME Feed!FeedType, NEW p \in Feed!Payload, Feed!SyncActive(p)
  PROVE  Feed!FeedType'
<1>1. telemetry' \in Seq(Feed!Telemetry)
  BY SyncedType DEF Feed!SyncActive
<1>3. dest' \in [Labels -> [Domains -> Nat]]
  BY DEF Feed!FeedType, Feed!SyncActive, Feed!Payload
<1>4. ASSUME NEW x \in Domains PROVE feed'[x] \in Feed!Observation \cup {None}
  <2>1. PICK f \in Feed!Observation \cup {None} : f = feed[x]
    BY DEF Feed!FeedType
  <2>2. f # None => [f EXCEPT !.seen = time] \in Feed!Observation
    BY <2>1 DEF Feed!FeedType, Feed!Observation
  <2>3. feed'[x] = IF x \in p.domains /\ ~p.foreign /\ f # None THEN [f EXCEPT !.seen = time] ELSE f
    BY <2>1 DEF Feed!SyncActive
  <2> QED BY <2>1, <2>2, <2>3
<1>5. feed' \in [Domains -> Feed!Observation \cup {None}]
  BY <1>4 DEF Feed!SyncActive
<1> QED BY <1>1, <1>3, <1>5 DEF Feed!FeedType, Feed!SyncActive

\* The telemetry matched to a row is the first fresh record that is its own.
LEMMA MatchedType ==
  ASSUME Feed!FeedType, NEW d \in Devices
  PROVE  \/ Feed!Matched(d) = None
         \/ \E i \in DOMAIN telemetry : /\ Feed!Own(telemetry[i].host, d) /\ Feed!Matched(d) = telemetry[i]
                                        /\ telemetry[i] \in Feed!Telemetry
<1>1. telemetry \in Seq(Feed!Telemetry)
  BY DEF Feed!FeedType
<1>2. CASE Feed!Candidates(d) = {}
  BY <1>2 DEF Feed!Matched
<1>3. CASE Feed!Candidates(d) # {}
  <2>1. Feed!Candidates(d) \in SUBSET Nat
    BY <1>1 DEF Feed!Candidates
  <2>2. \E i \in Feed!Candidates(d) : \A j \in Feed!Candidates(d) : i <= j
    BY <1>3, <2>1, Least
  <2>3. PICK first : first = CHOOSE i \in Feed!Candidates(d) : \A j \in Feed!Candidates(d) : i <= j
    OBVIOUS
  <2>4. first \in Feed!Candidates(d)
    BY <2>2, <2>3
  <2>5. Feed!Matched(d) = telemetry[first]
    BY <1>3, <2>3 DEF Feed!Matched
  <2>6. first \in DOMAIN telemetry /\ Feed!Own(telemetry[first].host, d)
    BY <2>4 DEF Feed!Candidates
  <2>7. telemetry[first] \in Feed!Telemetry
    BY <1>1, <2>6, ElementOfSeq
  <2> QED BY <2>5, <2>6, <2>7
<1> QED BY <1>2, <1>3

LEMMA ViewType ==
  ASSUME Feed!FeedType, NEW d \in Devices
  PROVE  Feed!View(d) \in Feed!Shown
<1>1. PICK t : t = Feed!Matched(d)
  OBVIOUS
<1>2. t = None \/ t \in Feed!Telemetry
  BY <1>1, MatchedType
<1>3. Feed!Destinations(d) \in SUBSET Domains
  BY DEF Feed!Destinations
<1>4. PICK tabs : tabs = IF t # None /\ time - t.tabsAt < TabsTTL THEN t.tabs ELSE {}
  OBVIOUS
<1>5. tabs \in SUBSET Sites
  BY <1>2, <1>4 DEF Feed!Telemetry
<1>6. Feed!View(d) = [tabs |-> tabs, procs |-> t # None /\ t.procs, domains |-> Feed!Destinations(d)]
  BY <1>1, <1>4 DEF Feed!View
<1>7. (t # None /\ t.procs) \in BOOLEAN
  BY <1>2 DEF Feed!Telemetry
<1> QED BY <1>3, <1>5, <1>6, <1>7 DEF Feed!Shown

LEMMA ListType ==
  ASSUME Feed!FeedType, Feed!ListDevices
  PROVE  Feed!FeedType'
<1>1. shown' \in [Devices -> Feed!Shown]
  BY ViewType DEF Feed!ListDevices
<1>2. dest' \in [Labels -> [Domains -> Nat]]
  BY DEF Feed!FeedType, Feed!ListDevices
<1> QED BY <1>1, <1>2 DEF Feed!FeedType, Feed!ListDevices

LEMMA RestartType ==
  ASSUME Feed!FeedType, Feed!Restart \/ Feed!ClearDevices
  PROVE  Feed!FeedType'
<1>1. telemetry' \in Seq(Feed!Telemetry)
  BY EmptySeq DEF Feed!Restart, Feed!ClearDevices, Feed!Forgotten
<1> QED BY <1>1 DEF Feed!FeedType, Feed!Restart, Feed!ClearDevices, Feed!Forgotten

LEMMA OtherFeedTypes ==
  ASSUME Feed!FeedType, \/ \E c \in BOOLEAN : Feed!SetConsent(c)
                   \/ Feed!Pass
                   \/ UNCHANGED Feed!feedVars
  PROVE  Feed!FeedType'
<1>1. ASSUME NEW c \in BOOLEAN, Feed!SetConsent(c) PROVE Feed!FeedType'
  BY <1>1 DEF Feed!FeedType, Feed!SetConsent
<1>2. CASE Feed!Pass
  BY <1>2 DEF Feed!FeedType, Feed!Pass
<1>3. CASE UNCHANGED Feed!feedVars
  BY <1>3 DEF Feed!FeedType, Feed!feedVars
<1> QED BY <1>1, <1>2, <1>3


HitsInv == Feed!ThreatsStand /\ Feed!ReadsStand

LEMMA FeedTypeStep == Feed!FeedType /\ [Feed!FeedNext]_Feed!feedVars => Feed!FeedType'
<1> SUFFICES ASSUME Feed!FeedType, [Feed!FeedNext]_Feed!feedVars PROVE Feed!FeedType'
  OBVIOUS
<1>1. ASSUME NEW k \in Threads, NEW h \in Observers, NEW x \in Domains, Feed!Observe(k, h, x) PROVE Feed!FeedType'
  BY <1>1, ObserveType, FeedBounds
<1>2. ASSUME NEW q \in Payloads, Feed!SyncActive(q) PROVE Feed!FeedType'
  BY <1>2, SyncType, FeedBounds
<1> QED BY <1>1, <1>2, LookUpType, UpsertType, ClearType, ListType, RestartType, OtherFeedTypes DEF Feed!FeedNext

\* Neither the rows nor the observes are touched.
LEMMA HitsKept ==
  ASSUME HitsInv, UNCHANGED <<feed, pending, answered>>
  PROVE  HitsInv'
BY DEF HitsInv, Feed!ThreatsStand, Feed!ReadsStand

LEMMA ObserveHits ==
  ASSUME Feed!FeedType, HitsInv, NEW k \in Threads, NEW host \in Labels, NEW domain \in Domains,
         Feed!Observe(k, host, domain)
  PROVE  HitsInv'
<1>1. PICK p : p = [domain |-> domain, host |-> host, read |-> 0, looked |-> FALSE, gone |-> FALSE]
  OBVIOUS
<1>2. \A j \in Threads : pending'[j] = IF j = k THEN p ELSE pending[j]
  BY <1>1 DEF Feed!Observe, Feed!FeedType
<1>3. UNCHANGED <<feed, answered>> /\ p.read = 0
  BY <1>1 DEF Feed!Observe
<1> QED BY <1>2, <1>3 DEF HitsInv, Feed!ThreatsStand, Feed!ReadsStand

LEMMA LookUpHits ==
  ASSUME Feed!FeedType, HitsInv, NEW k \in Threads, Feed!LookUp(k)
  PROVE  HitsInv'
<1>1. PICK p \in Feed!Observing : p = pending[k]
  BY DEF Feed!FeedType, Feed!LookUp
<1>2. PICK n : n = IF feed[p.domain] = None THEN 0 ELSE feed[p.domain].hits
  OBVIOUS
<1>3. PICK q : q = [p EXCEPT !.looked = TRUE, !.read = n]
  OBVIOUS
<1>4. \A j \in Threads : pending'[j] = IF j = k THEN q ELSE pending[j]
  BY <1>1, <1>2, <1>3 DEF Feed!LookUp, Feed!FeedType
<1>5. UNCHANGED <<feed, answered>>
  BY DEF Feed!LookUp
<1>6. q.looked /\ q.read = n /\ q.domain = p.domain /\ p.domain \in Domains
  BY <1>1, <1>3 DEF Feed!Observing
<1>7. n # 0 => feed[p.domain] # None /\ n <= answered[p.domain]
  <2>1. CASE feed[p.domain] = None
    BY <1>2, <2>1
  <2>2. CASE feed[p.domain] # None
    <3>1. n \in 1..answered[p.domain] /\ answered[p.domain] \in Nat
      BY <1>2, <1>6, <2>2 DEF HitsInv, Feed!ThreatsStand, Feed!FeedType
    <3> QED BY <2>2, <3>1
  <2> QED BY <2>1, <2>2
<1>8. Feed!ReadsStand'
  BY <1>4, <1>5, <1>6, <1>7 DEF HitsInv, Feed!ReadsStand
<1> QED BY <1>5, <1>8 DEF HitsInv, Feed!ThreatsStand

LEMMA UpsertHits ==
  ASSUME Feed!FeedType, HitsInv, NEW k \in Threads, Feed!Upsert(k)
  PROVE  HitsInv'
<1>1. PICK p \in Feed!Observing : p = pending[k]
  BY DEF Feed!FeedType, Feed!Upsert
<1>2. PICK there : there = IF feed[p.domain] = None THEN 0 ELSE feed[p.domain].hits
  OBVIOUS
<1>3. PICK n : n = IF p.read = 0 THEN there ELSE p.read
  OBVIOUS
<1>4. \A j \in Threads : pending'[j] = IF j = k THEN None ELSE pending[j]
  BY DEF Feed!Upsert, Feed!FeedType
<1>5. p.domain \in Domains /\ p.read \in Nat /\ p.host \in Labels
  BY <1>1 DEF Feed!Observing
<1>6. PICK a \in [Domains -> Nat] : a = answered
  BY DEF Feed!FeedType
<1>7. there \in Nat /\ there <= a[p.domain]
  <2>1. CASE feed[p.domain] = None
    BY <1>2, <1>5, <1>6, <2>1
  <2>2. CASE feed[p.domain] # None
    BY <1>2, <1>5, <1>6, <2>2 DEF HitsInv, Feed!ThreatsStand, Feed!FeedType
  <2> QED BY <2>1, <2>2
<1>8. CASE UNCHANGED <<feed, answered>>
  BY <1>4, <1>8 DEF HitsInv, Feed!ThreatsStand, Feed!ReadsStand
<1>9. CASE /\ ~(p.read # 0 /\ p.gone)
           /\ feed' = [feed EXCEPT ![p.domain] = Feed!Bumped(n, p.host)]
           /\ answered' = [answered EXCEPT ![p.domain] = @ + 1]
  <2>1. n \in Nat /\ n <= a[p.domain]
    <3>1. CASE p.read = 0
      BY <1>3, <1>7, <3>1
    <3>2. CASE p.read # 0
      <4>1. p # None
        BY FeedNone, <1>1
      <4>2. p.read <= a[p.domain]
        BY <1>1, <1>6, <1>9, <3>2, <4>1 DEF HitsInv, Feed!ReadsStand
      <4> QED BY <1>3, <1>5, <3>2, <4>2
    <3> QED BY <3>1, <3>2
  <2>2. PICK b : b = [a EXCEPT ![p.domain] = @ + 1]
    OBVIOUS
  <2>3. answered' = b
    BY <1>6, <1>9, <2>2
  <2>4. PICK f \in Feed!Observation : f = Feed!Bumped(n, p.host)
    <3>1. n + 1 \in Nat /\ time \in Nat
      BY <2>1 DEF Feed!FeedType
    <3>2. Feed!Bumped(n, p.host) \in Feed!Observation
      BY <1>5, <3>1 DEF Feed!Bumped, Feed!Observation
    <3> QED BY <3>2
  <2>5. f.hits = n + 1 /\ f # None
    BY <2>4, FeedNone DEF Feed!Bumped
  <2>6. \A x \in Domains : feed'[x] = IF x = p.domain THEN f ELSE feed[x]
    BY <1>9, <2>4 DEF Feed!FeedType
  <2>7. \A x \in Domains : /\ b[x] = IF x = p.domain THEN a[x] + 1 ELSE a[x]
                           /\ a[x] \in Nat
    BY <1>6, <2>2
  <2>8. Feed!ThreatsStand'
    <3>1. ASSUME NEW x \in Domains
          PROVE  IF feed'[x] = None THEN b[x] = 0 ELSE feed'[x].hits \in 1..b[x]
      <4>1. CASE x = p.domain
        <5>1. feed'[x] = f /\ b[x] = a[x] + 1 /\ a[x] \in Nat /\ n <= a[x]
          BY <2>1, <2>6, <2>7, <4>1
        <5> QED BY <2>1, <2>5, <5>1
      <4>2. CASE x # p.domain
        BY <1>6, <2>6, <2>7, <4>2 DEF HitsInv, Feed!ThreatsStand
      <4> QED BY <4>1, <4>2
    <3> QED BY <2>3, <3>1 DEF Feed!ThreatsStand
  <2>9. Feed!ReadsStand'
    <3>1. ASSUME NEW j \in Threads, pending'[j] # None, pending'[j].read # 0, ~pending'[j].gone
          PROVE  /\ pending'[j].looked
                 /\ feed'[pending'[j].domain] # None
                 /\ pending'[j].read <= b[pending'[j].domain]
      <4>1. PICK q : q = pending[j]
        OBVIOUS
      <4>2. pending'[j] = q /\ q \in Feed!Observing /\ q # None
        BY <1>4, <3>1, <4>1 DEF Feed!FeedType
      <4>3. q.looked /\ feed[q.domain] # None /\ q.read <= a[q.domain]
        BY <1>6, <3>1, <4>1, <4>2 DEF HitsInv, Feed!ReadsStand
      <4>4. q.domain \in Domains /\ q.read \in Nat
        BY <4>2 DEF Feed!Observing
      <4>5. q.read <= b[q.domain]
        BY <2>7, <4>3, <4>4
      <4>6. feed'[q.domain] # None
        BY <2>5, <2>6, <4>3, <4>4
      <4> QED BY <4>2, <4>3, <4>5, <4>6
    <3> QED BY <2>3, <3>1 DEF Feed!ReadsStand
  <2> QED BY <2>8, <2>9 DEF HitsInv
<1> QED BY <1>1, <1>2, <1>3, <1>8, <1>9 DEF Feed!Upsert

\* A row that is cleared takes its answers with it, and what a session has read
\* of it no longer counts.
LEMMA ClearHits ==
  ASSUME Feed!FeedType, HitsInv, NEW ds, Feed!Clear(ds)
  PROVE  HitsInv'
<1>1. PICK a \in [Domains -> Nat] : a = answered
  BY DEF Feed!FeedType
<1>2. PICK b : b = [d \in Domains |-> IF d \in ds THEN 0 ELSE a[d]]
  OBVIOUS
<1>3. answered' = b
  BY <1>1, <1>2 DEF Feed!Clear, Feed!FeedType
<1>4. \A d \in Domains : feed'[d] = IF d \in ds THEN None ELSE feed[d]
  BY DEF Feed!Clear
<1>5. Feed!ThreatsStand'
  BY <1>1, <1>2, <1>3, <1>4 DEF HitsInv, Feed!ThreatsStand
<1>6. ASSUME NEW k \in Threads, pending'[k] # None, pending'[k].read # 0, ~pending'[k].gone
      PROVE  /\ pending'[k].looked
             /\ feed'[pending'[k].domain] # None
             /\ pending'[k].read <= b[pending'[k].domain]
  <2>1. PICK p : p = pending[k]
    OBVIOUS
  <2>2. pending'[k] = IF p # None /\ p.domain \in ds THEN [p EXCEPT !.gone = @ \/ p.looked] ELSE p
    BY <2>1 DEF Feed!Clear
  <2>3. p # None /\ p \in Feed!Observing
    BY <1>6, <2>1, <2>2 DEF Feed!FeedType
  <2>4. CASE p.domain \in ds
    <3>1. PICK q : q = [p EXCEPT !.gone = @ \/ p.looked]
      OBVIOUS
    <3>2. pending'[k] = q /\ q.read = p.read /\ q.gone = (p.gone \/ p.looked)
      BY <2>2, <2>3, <2>4, <3>1 DEF Feed!Observing
    <3>3. ~p.gone /\ ~p.looked /\ p.read # 0
      BY <1>6, <3>2
    <3> QED BY <2>1, <2>3, <3>3 DEF HitsInv, Feed!ReadsStand
  <2>5. CASE p.domain \notin ds
    <3>1. pending'[k] = p /\ p.domain \in Domains
      BY <2>2, <2>3, <2>5 DEF Feed!Observing
    <3>2. p.looked /\ feed[p.domain] # None /\ p.read <= a[p.domain]
      BY <1>1, <1>6, <2>1, <2>3, <3>1 DEF HitsInv, Feed!ReadsStand
    <3> QED BY <1>2, <1>4, <2>5, <3>1, <3>2
  <2> QED BY <2>4, <2>5
<1>7. Feed!ReadsStand'
  BY <1>3, <1>6 DEF Feed!ReadsStand
<1> QED BY <1>5, <1>7 DEF HitsInv

\* A sync refreshes rows, and a restart forgets the observes.
LEMMA SyncHits ==
  ASSUME Feed!FeedType, HitsInv, NEW p \in Feed!Payload, Feed!SyncActive(p)
  PROVE  HitsInv'
<1>1. UNCHANGED <<answered, pending>>
  BY DEF Feed!SyncActive, Feed!FeedType
<1>2. ASSUME NEW x \in Domains PROVE (feed'[x] = None) = (feed[x] = None) /\ (feed[x] # None => feed'[x].hits = feed[x].hits)
  <2>1. PICK f \in Feed!Observation \cup {None} : f = feed[x]
    BY DEF Feed!FeedType
  <2>2. f # None => [f EXCEPT !.seen = time] \in Feed!Observation /\ [f EXCEPT !.seen = time].hits = f.hits
    BY <2>1 DEF Feed!FeedType, Feed!Observation
  <2>3. feed'[x] = IF x \in p.domains /\ ~p.foreign /\ f # None THEN [f EXCEPT !.seen = time] ELSE f
    BY <2>1 DEF Feed!SyncActive
  <2> QED BY <2>1, <2>2, <2>3, FeedNone
<1>3. Feed!ThreatsStand'
  BY <1>1, <1>2 DEF HitsInv, Feed!ThreatsStand
<1>4. Feed!ReadsStand'
  <2>1. ASSUME NEW k \in Threads, pending[k] # None PROVE pending[k].domain \in Domains
    BY <2>1 DEF Feed!FeedType, Feed!Observing
  <2> QED BY <1>1, <1>2, <2>1 DEF HitsInv, Feed!ReadsStand
<1> QED BY <1>3, <1>4 DEF HitsInv

LEMMA RestartHits ==
  ASSUME Feed!FeedType, HitsInv, Feed!Restart
  PROVE  HitsInv'
<1>1. UNCHANGED <<answered, feed>> /\ \A k \in Threads : pending'[k] = None
  BY DEF Feed!Restart, Feed!FeedType
<1> QED BY <1>1 DEF HitsInv, Feed!ThreatsStand, Feed!ReadsStand

LEMMA HitsStep == Feed!FeedType /\ HitsInv /\ [Feed!FeedNext]_Feed!feedVars => HitsInv'
<1> SUFFICES ASSUME Feed!FeedType, HitsInv, [Feed!FeedNext]_Feed!feedVars PROVE HitsInv'
  OBVIOUS
<1>1. ASSUME NEW k \in Threads, NEW h \in Observers, NEW x \in Domains, Feed!Observe(k, h, x) PROVE HitsInv'
  BY <1>1, ObserveHits, FeedBounds
<1>2. ASSUME NEW q \in Payloads, Feed!SyncActive(q) PROVE HitsInv'
  BY <1>2, SyncHits, FeedBounds
<1>3. ASSUME UNCHANGED <<feed, pending, answered>> PROVE HitsInv'
  BY <1>3, HitsKept
<1> QED BY <1>1, <1>2, <1>3, LookUpHits, UpsertHits, ClearHits, RestartHits
        DEF Feed!FeedNext, Feed!ListDevices, Feed!ClearDevices, Feed!SetConsent, Feed!Pass, Feed!feedVars

LEMMA HitsStart == Feed!FeedInit => HitsInv
BY DEF Feed!FeedInit, HitsInv, Feed!ThreatsStand, Feed!ReadsStand

ThreatsInv == Feed!FeedType /\ HitsInv

LEMMA ThreatsInit == Feed!FeedInit => ThreatsInv
BY FeedStarts, HitsStart DEF ThreatsInv

LEMMA ThreatsStep == ThreatsInv /\ [Feed!FeedNext]_Feed!feedVars => ThreatsInv'
BY FeedTypeStep, HitsStep DEF ThreatsInv

-----------------------------------------------------------------------------
(* The feed is one of the parts of Services. *)

FeedInv ==
    /\ subject = "evidence" => EvidenceInv
    /\ subject = "threats" => ThreatsInv

\* Evidence that no overlapping recording displaced stays in a device's timeline,
\* within its bound (record_timeline_event), a threat stands with no more hits than observes
\* (_bump_observation), and the sessions of a row do not count twice (list_devices).
THEOREM FeedIsKept == ServicesSpec => []FeedKept
<1>1. ServicesInit => FeedInv
  BY EvidenceInit, ThreatsInit DEF ServicesInit, FeedInv, Machines
<1>2. FeedInv /\ [ServicesNext]_allVars => FeedInv'
  <2> SUFFICES ASSUME FeedInv, [ServicesNext]_allVars PROVE FeedInv'
    OBVIOUS
  <2>1. /\ subject' = subject /\ input' = input
        /\ subject = "evidence" => [Line!LinesNext]_Line!lineVars
        /\ subject = "threats" => [Feed!FeedNext]_Feed!feedVars
    BY PartSteps
  <2> QED BY <2>1, EvidenceStep, ThreatsStep DEF FeedInv
<1>3. FeedInv /\ Given => FeedKept
  <2>1. ASSUME input \in Rows PROVE View!PresenceAdds(input.sessions, input.online, input.now)
    BY <2>1, SessionsKnown, PresenceAdded
  <2> QED BY <2>1, EvidenceStands DEF FeedInv, Given, FeedKept, ThreatsInv, HitsInv
<1> QED BY <1>1, <1>2, <1>3, InputsGiven, PTL DEF ServicesSpec

-----------------------------------------------------------------------------
(* Sums over finite sets, as the library adds them up: any element first *)

Any(s) == CHOOSE x \in s : TRUE

Sums(S, w, f) ==
    /\ f[{}] = 0
    /\ \A s \in SUBSET S : s # {} => f[s] = w[Any(s)] + f[s \ {Any(s)}]

LEMMA AnyIs ==
  ASSUME NEW s, s # {}
  PROVE  Any(s) \in s
BY DEF Any

LEMMA Smaller ==
  ASSUME NEW S, IsFiniteSet(S), NEW s \in SUBSET S, s # {}
  PROVE  /\ Any(s) \in S /\ s \ {Any(s)} \in SUBSET S
         /\ Cardinality(s) \in Nat \ {0} /\ Cardinality(s \ {Any(s)}) = Cardinality(s) - 1
<1>1. IsFiniteSet(s)
  BY FS_Subset
<1>2. Any(s) \in s
  BY AnyIs
<1>3. Cardinality(s) \in Nat /\ Cardinality(s) # 0
  BY <1>1, FS_CardinalityType, FS_EmptySet
<1>4. Cardinality(s \ {Any(s)}) = Cardinality(s) - 1
  BY <1>1, <1>2, FS_RemoveElement
<1> QED BY <1>2, <1>3, <1>4

\* g adds up the sets of at most k elements.
AddsUp(S, w, k, g) ==
    /\ g \in [{s \in SUBSET S : Cardinality(s) <= k} -> Nat]
    /\ \A s \in SUBSET S : Cardinality(s) <= k => g[s] = IF s = {} THEN 0 ELSE w[Any(s)] + g[s \ {Any(s)}]

Totals(S, w, g) == g = [s \in SUBSET S |-> IF s = {} THEN 0 ELSE w[Any(s)] + g[s \ {Any(s)}]]

LEMMA SumExists ==
  ASSUME NEW S, IsFiniteSet(S), NEW w \in [S -> Nat]
  PROVE  \E g \in [SUBSET S -> Nat] : Totals(S, w, g)
<1>1. \A s \in SUBSET S : Cardinality(s) \in Nat /\ (Cardinality(s) = 0 <=> s = {})
  BY FS_Subset, FS_CardinalityType, FS_EmptySet
<1>2. \E g : AddsUp(S, w, 0, g)
  <2>1. PICK g : g = [s \in {s \in SUBSET S : Cardinality(s) <= 0} |-> 0]
    OBVIOUS
  <2>2. AddsUp(S, w, 0, g)
    BY <1>1, <2>1 DEF AddsUp
  <2> QED BY <2>2
<1>3. ASSUME NEW k \in Nat, NEW g, AddsUp(S, w, k, g) PROVE \E h : AddsUp(S, w, k + 1, h)
  <2>1. PICK D : D = {s \in SUBSET S : Cardinality(s) <= k + 1}
    OBVIOUS
  <2>2. PICK h : h = [s \in D |-> IF s = {} THEN 0 ELSE w[Any(s)] + g[s \ {Any(s)}]]
    OBVIOUS
  <2>3. /\ g \in [{s \in SUBSET S : Cardinality(s) <= k} -> Nat]
        /\ \A s \in SUBSET S : Cardinality(s) <= k => g[s] = IF s = {} THEN 0 ELSE w[Any(s)] + g[s \ {Any(s)}]
    BY <1>3 DEF AddsUp
  <2>4. ASSUME NEW s \in D, s # {}
        PROVE  /\ w[Any(s)] \in Nat /\ g[s \ {Any(s)}] \in Nat /\ s \ {Any(s)} \in SUBSET S
               /\ Cardinality(s \ {Any(s)}) <= k /\ s \ {Any(s)} \in D
    <3>1. s \in SUBSET S /\ Cardinality(s) <= k + 1
      BY <2>1
    <3>2. /\ Any(s) \in S /\ s \ {Any(s)} \in SUBSET S
          /\ Cardinality(s) \in Nat \ {0} /\ Cardinality(s \ {Any(s)}) = Cardinality(s) - 1
      BY <2>4, <3>1, Smaller
    <3>3. Cardinality(s \ {Any(s)}) <= k /\ Cardinality(s \ {Any(s)}) <= k + 1
      BY <3>1, <3>2
    <3> QED BY <2>1, <2>3, <3>2, <3>3
  <2>5. h \in [D -> Nat]
    BY <2>2, <2>4
  <2>6. \A s \in D : Cardinality(s) <= k => h[s] = g[s]
    BY <2>1, <2>2, <2>3
  <2>7. ASSUME NEW s \in D PROVE h[s] = IF s = {} THEN 0 ELSE w[Any(s)] + h[s \ {Any(s)}]
    BY <2>2, <2>4, <2>6
  <2>8. AddsUp(S, w, k + 1, h)
    BY <2>1, <2>5, <2>7 DEF AddsUp
  <2> QED BY <2>8
<1>4. PICK n \in Nat : n = Cardinality(S)
  BY FS_CardinalityType
<1>5. \E g : AddsUp(S, w, n, g)
  <2> DEFINE Bad == {k \in Nat : ~\E g : AddsUp(S, w, k, g)}
  <2>1. 0 \notin Bad /\ \A k \in Nat : k \notin Bad => k + 1 \notin Bad
    BY <1>2, <1>3
  <2>2. n \in Bad <=> ~\E g : AddsUp(S, w, n, g)
    OBVIOUS
  <2>3. Bad \in SUBSET Nat
    OBVIOUS
  <2> HIDE DEF Bad
  <2>4. Bad = {}
    <3> SUFFICES ASSUME Bad # {} PROVE FALSE
      OBVIOUS
    <3>1. PICK k \in Bad : \A j \in Bad : k <= j
      BY <2>3, Least
    <3>2. k \in Nat /\ k # 0
      BY <2>1, <2>3, <3>1
    <3>3. k - 1 \in Nat /\ k - 1 \notin Bad /\ (k - 1) + 1 = k
      BY <3>1, <3>2
    <3> QED BY <2>1, <3>1, <3>3
  <2> QED BY <2>2, <2>4
<1>6. PICK g : AddsUp(S, w, n, g)
  BY <1>5
<1>7. {s \in SUBSET S : Cardinality(s) <= n} = SUBSET S
  BY <1>4, FS_Subset
<1>8. /\ g \in [SUBSET S -> Nat]
      /\ \A s \in SUBSET S : g[s] = IF s = {} THEN 0 ELSE w[Any(s)] + g[s \ {Any(s)}]
  BY <1>6, <1>7 DEF AddsUp
<1> QED BY <1>8 DEF Totals

\* What is at least as much for each element adds up to at least as much.
LEMMA SumGrows ==
  ASSUME NEW S, IsFiniteSet(S), NEW w \in [S -> Nat], NEW v \in [S -> Nat], \A x \in S : w[x] <= v[x],
         NEW f, Sums(S, w, f), NEW g, Sums(S, v, g)
  PROVE  \A s \in SUBSET S : f[s] \in Nat /\ g[s] \in Nat /\ f[s] <= g[s]
<1> DEFINE Good(s) == f[s] \in Nat /\ g[s] \in Nat /\ f[s] <= g[s]
           Bad == {k \in Nat : \E s \in SUBSET S : Cardinality(s) = k /\ ~Good(s)}
<1>1. Bad = {}
  <2> SUFFICES ASSUME Bad # {} PROVE FALSE
    OBVIOUS
  <2>1. Bad \in SUBSET Nat
    OBVIOUS
  <2>2. PICK k \in Bad : \A j \in Bad : k <= j
    <3> HIDE DEF Bad
    <3> QED BY <2>1, Least
  <2>3. PICK s \in SUBSET S : Cardinality(s) = k /\ ~Good(s)
    OBVIOUS
  <2>4. s # {}
    <3>1. f[{}] = 0 /\ g[{}] = 0
      BY DEF Sums
    <3>2. Good({})
      BY <3>1
    <3> HIDE DEF Good
    <3> QED BY <2>3, <3>2
  <2>5. /\ Any(s) \in S /\ s \ {Any(s)} \in SUBSET S
        /\ Cardinality(s) \in Nat \ {0} /\ Cardinality(s \ {Any(s)}) = Cardinality(s) - 1
    BY <2>4, Smaller
  <2>r. PICK r : r = s \ {Any(s)}
    OBVIOUS
  <2>6. PICK a \in S : r = s \ {Any(s)} /\ a = Any(s)
    BY <2>5, <2>r
  <2>7. Good(r)
    <3>1. Cardinality(r) \in Nat /\ ~(k <= Cardinality(r))
      BY <2>3, <2>5, <2>6
    <3>2. Cardinality(r) \notin Bad
      <4> HIDE DEF Bad
      <4> QED BY <2>2, <3>1
    <3> HIDE DEF Good
    <3> QED BY <2>5, <2>6, <3>1, <3>2
  <2>8. f[s] = w[a] + f[r] /\ g[s] = v[a] + g[r]
    BY <2>4, <2>6 DEF Sums
  <2>9. w[a] \in Nat /\ v[a] \in Nat /\ w[a] <= v[a]
    BY <2>6
  <2> QED BY <2>3, <2>7, <2>8, <2>9
<1>2. ASSUME NEW s \in SUBSET S PROVE Good(s)
  <2>1. Cardinality(s) \in Nat
    BY FS_Subset, FS_CardinalityType
  <2> HIDE DEF Good
  <2> QED BY <1>1, <2>1
<1> QED BY <1>2

\* And what is at least one for each adds up to something.
LEMMA SumPositive ==
  ASSUME NEW S, IsFiniteSet(S), S # {}, NEW w \in [S -> Nat], \A x \in S : w[x] >= 1,
         NEW f, Sums(S, w, f)
  PROVE  f[S] \in Nat /\ f[S] >= 1
<1>1. \A s \in SUBSET S : f[s] \in Nat /\ f[s] \in Nat /\ f[s] <= f[s]
  <2>1. \A x \in S : w[x] <= w[x]
    OBVIOUS
  <2> QED BY <2>1, SumGrows
<1>2. Any(S) \in S /\ S \ {Any(S)} \in SUBSET S
  BY AnyIs
<1>3. PICK a \in S, r \in SUBSET S : a = Any(S) /\ r = S \ {Any(S)}
  BY <1>2
<1>4. f[S] = w[a] + f[r]
  BY <1>3 DEF Sums
<1>5. f[r] \in Nat /\ w[a] \in Nat /\ w[a] >= 1
  BY <1>1, <1>3
<1> QED BY <1>4, <1>5

\* The library's sum, which is the choice of the function of its recursion.
LEMMA Chosen ==
  ASSUME NEW S, IsFiniteSet(S), NEW w \in [S -> Nat], NEW g,
         g = CHOOSE h : h = [s \in SUBSET S |-> IF s = {} THEN 0 ELSE w[Any(s)] + h[s \ {Any(s)}]]
  PROVE  Sums(S, w, g)
<1>0. PICK f \in [SUBSET S -> Nat] : Totals(S, w, f)
  BY SumExists
<1>1. f = [s \in SUBSET S |-> IF s = {} THEN 0 ELSE w[Any(s)] + f[s \ {Any(s)}]]
  BY <1>0 DEF Totals
<1>2. g = [s \in SUBSET S |-> IF s = {} THEN 0 ELSE w[Any(s)] + g[s \ {Any(s)}]]
  BY <1>1
<1>3. {} \in SUBSET S
  OBVIOUS
<1> QED BY <1>2, <1>3 DEF Sums

\* The sums of compute_score, for a set of evaluated checks.
TotalOf(C) == Trust!MapThenSumSet(LAMBDA k : Trust!Weight[k], C)
EarnedOf(s, C) == Trust!MapThenSumSet(LAMBDA k : Trust!Weight[k] * Trust!StatusValue[s[k]], C)

LEMMA TotalSums ==
  ASSUME NEW C, IsFiniteSet(C), NEW w \in [C -> Nat], \A k \in C : w[k] = Trust!Weight[k]
  PROVE  \E f : Sums(C, w, f) /\ TotalOf(C) = f[C]
<1>1. PICK f : f = CHOOSE h : h = [s \in SUBSET C |-> IF s = {} THEN 0 ELSE w[Any(s)] + h[s \ {Any(s)}]]
  OBVIOUS
<1>2. Sums(C, w, f)
  BY <1>1, Chosen
<1>3. \A h : [s \in SUBSET C |-> IF s = {} THEN 0 ELSE w[Any(s)] + h[s \ {Any(s)}]]
           = [s \in SUBSET C |-> IF s = {} THEN 0 ELSE Trust!Weight[Any(s)] + h[s \ {Any(s)}]]
  BY AnyIs
<1>4. f = CHOOSE h : h = [s \in SUBSET C |-> IF s = {} THEN 0 ELSE Trust!Weight[Any(s)] + h[s \ {Any(s)}]]
  BY <1>1, <1>3
<1>5. TotalOf(C) = f[C]
  BY <1>4 DEF TotalOf, Trust!MapThenSumSet, Trust!MapThenFoldSet, Any
<1> QED BY <1>2, <1>5

LEMMA EarnedSums ==
  ASSUME NEW C, IsFiniteSet(C), NEW z, NEW w \in [C -> Nat],
         \A k \in C : w[k] = Trust!Weight[k] * Trust!StatusValue[z[k]]
  PROVE  \E f : Sums(C, w, f) /\ EarnedOf(z, C) = f[C]
<1>1. PICK f : f = CHOOSE h : h = [s \in SUBSET C |-> IF s = {} THEN 0 ELSE w[Any(s)] + h[s \ {Any(s)}]]
  OBVIOUS
<1>2. Sums(C, w, f)
  BY <1>1, Chosen
<1>3. \A h : [s \in SUBSET C |-> IF s = {} THEN 0 ELSE w[Any(s)] + h[s \ {Any(s)}]]
           = [s \in SUBSET C |-> IF s = {} THEN 0 ELSE Trust!Weight[Any(s)] * Trust!StatusValue[z[Any(s)]] + h[s \ {Any(s)}]]
  BY AnyIs
<1>4. f = CHOOSE h : h = [s \in SUBSET C |-> IF s = {} THEN 0 ELSE Trust!Weight[Any(s)] * Trust!StatusValue[z[Any(s)]] + h[s \ {Any(s)}]]
  BY <1>1, <1>3
<1>5. EarnedOf(z, C) = f[C]
  BY <1>4 DEF EarnedOf, Trust!MapThenSumSet, Trust!MapThenFoldSet, Any
<1> QED BY <1>2, <1>5

-----------------------------------------------------------------------------
(* UrlTrust *)

\* The library's Min.
LEMMA MinIs ==
  ASSUME NEW T \in SUBSET Nat, T # {}
  PROVE  /\ Trust!Min(T) \in T
         /\ \A x \in T : Trust!Min(T) <= x
<1>1. \E i \in T : \A j \in T : i <= j
  BY Least
<1> QED BY <1>1 DEF Trust!Min

\* The names of the checks.
Names == {"https", "no_ip_host", "no_punycode", "no_at_symbol", "no_embedded_credentials", "subdomain_depth",
          "tld_reputation", "url_length", "no_risky_keywords", "brand_lookalike", "dns_resolves", "tls_valid",
          "http_reachable", "no_offsite_redirect", "domain_age", "safe_browsing", "virustotal"}

LEMMA NamesFinite == IsFiniteSet(Names)
<1> DEFINE A == {"https", "no_ip_host", "no_punycode", "no_at_symbol", "no_embedded_credentials"}
           B == {"subdomain_depth", "tld_reputation", "url_length", "no_risky_keywords", "brand_lookalike"}
           C == {"dns_resolves", "tls_valid", "http_reachable", "no_offsite_redirect"}
           D == {"domain_age", "safe_browsing", "virustotal"}
<1>2. ASSUME NEW a, NEW b, NEW c, NEW d, NEW e PROVE IsFiniteSet({a, b, c, d, e})
  <2>1. IsFiniteSet({a, b}) 
    <3>1. {a, b} = ({} \cup {a}) \cup {b}
      OBVIOUS
    <3>2. IsFiniteSet({} \cup {a})
      BY FS_EmptySet, FS_AddElement
    <3> QED BY <3>1, <3>2, FS_AddElement
  <2>2. IsFiniteSet({a, b, c})
    <3>1. {a, b, c} = {a, b} \cup {c}
      OBVIOUS
    <3> QED BY <2>1, <3>1, FS_AddElement
  <2>3. IsFiniteSet({a, b, c, d})
    <3>1. {a, b, c, d} = {a, b, c} \cup {d}
      OBVIOUS
    <3> QED BY <2>2, <3>1, FS_AddElement
  <2>4. {a, b, c, d, e} = {a, b, c, d} \cup {e}
    OBVIOUS
  <2> QED BY <2>3, <2>4, FS_AddElement
<1>3. IsFiniteSet(A) /\ IsFiniteSet(B)
  BY <1>2
<1>4. IsFiniteSet(C) /\ IsFiniteSet(D)
  <2>1. C = {"dns_resolves", "tls_valid", "http_reachable", "no_offsite_redirect", "no_offsite_redirect"}
    OBVIOUS
  <2>2. D = {"domain_age", "safe_browsing", "virustotal", "virustotal", "virustotal"}
    OBVIOUS
  <2>3. IsFiniteSet({"dns_resolves", "tls_valid", "http_reachable", "no_offsite_redirect", "no_offsite_redirect"})
    BY <1>2
  <2>4. IsFiniteSet({"domain_age", "safe_browsing", "virustotal", "virustotal", "virustotal"})
    BY <1>2
  <2> HIDE DEF C, D
  <2> QED BY <2>1, <2>2, <2>3, <2>4
<1>5. Names = (A \cup B) \cup (C \cup D)
  BY DEF Names
<1> HIDE DEF A, B, C, D
<1>6. IsFiniteSet(A \cup B) /\ IsFiniteSet(C \cup D)
  BY <1>3, <1>4, FS_Union
<1> QED BY <1>5, <1>6, FS_Union

LEMMA SignalNames ==
  ASSUME NEW u, NEW hops, NEW peer, NEW age, NEW sb, NEW vt
  PROVE  DOMAIN Trust!Signals(u, hops, peer, age, sb, vt) = Names
<1>1. DOMAIN Trust!Structural(u) =
        {"https", "no_ip_host", "no_punycode", "no_at_symbol", "no_embedded_credentials", "subdomain_depth",
         "tld_reputation", "url_length", "no_risky_keywords", "brand_lookalike"}
  BY DEF Trust!Structural
<1>2. DOMAIN Trust!Connection(hops, peer) = {"dns_resolves", "tls_valid", "http_reachable", "no_offsite_redirect"}
  BY DEF Trust!Connection
<1>3. DOMAIN Trust!Domain(age) = {"domain_age"}
  BY DEF Trust!Domain
<1>4. DOMAIN Trust!Providers(sb, vt) = {"safe_browsing", "virustotal"}
  BY DEF Trust!Providers
<1>5. ASSUME NEW f, NEW g PROVE DOMAIN Trust!Merged(f, g) = DOMAIN f \cup DOMAIN g
  BY DEF Trust!Merged
<1>p. PICK p : p = Trust!Merged(Trust!Domain(age), Trust!Providers(sb, vt))
  OBVIOUS
<1>q. PICK q : q = Trust!Merged(Trust!Connection(hops, peer), p)
  OBVIOUS
<1>r. Trust!Signals(u, hops, peer, age, sb, vt) = Trust!Merged(Trust!Structural(u), q)
  BY <1>p, <1>q DEF Trust!Signals
<1>6. DOMAIN p = {"domain_age", "safe_browsing", "virustotal"}
  <2>1. DOMAIN p = DOMAIN Trust!Domain(age) \cup DOMAIN Trust!Providers(sb, vt)
    BY <1>5, <1>p
  <2> QED BY <1>3, <1>4, <2>1
<1>7. DOMAIN q = {"dns_resolves", "tls_valid", "http_reachable", "no_offsite_redirect"} \cup DOMAIN p
  <2>1. DOMAIN q = DOMAIN Trust!Connection(hops, peer) \cup DOMAIN p
    BY <1>5, <1>q
  <2> QED BY <1>2, <2>1
<1>8. DOMAIN Trust!Signals(u, hops, peer, age, sb, vt) = DOMAIN Trust!Structural(u) \cup DOMAIN q
  BY <1>5, <1>r
<1> QED BY <1>1, <1>6, <1>7, <1>8 DEF Names

LEMMA Weights ==
  /\ \A k \in Names : Trust!Weight[k] \in 1..4
  /\ DOMAIN Trust!FailCaps \subseteq Names /\ DOMAIN Trust!WarnCaps \subseteq Names
  /\ \A k \in DOMAIN Trust!FailCaps : Trust!FailCaps[k] \in 0..740
  /\ \A k \in DOMAIN Trust!WarnCaps : Trust!WarnCaps[k] \in 0..740
<1>1. \A k \in Names : Trust!Weight[k] \in 1..4
  BY DEF Trust!Weight, Names
<1>2. /\ DOMAIN Trust!FailCaps \subseteq Names
      /\ \A k \in DOMAIN Trust!FailCaps : Trust!FailCaps[k] \in 0..740
  BY DEF Trust!FailCaps, Names
<1>3. /\ DOMAIN Trust!WarnCaps \subseteq Names
      /\ \A k \in DOMAIN Trust!WarnCaps : Trust!WarnCaps[k] \in 0..740
  BY DEF Trust!WarnCaps, Names
<1> QED BY <1>1, <1>2, <1>3

\* The caps that a set of signals brings; the ceiling is the least.
Caps(z) == {1000} \cup {Trust!FailCaps[k] : k \in {j \in DOMAIN Trust!FailCaps : z[j] = "fail"}}
                  \cup {Trust!WarnCaps[k] : k \in {j \in DOMAIN Trust!WarnCaps : z[j] = "warn"}}

LEMMA CeilingIs ==
  ASSUME NEW z
  PROVE  /\ Caps(z) \in SUBSET Nat /\ Caps(z) # {}
         /\ Trust!Ceiling(z) \in Caps(z) /\ Trust!Ceiling(z) \in Nat
         /\ \A c \in Caps(z) : Trust!Ceiling(z) <= c
<1>1. Caps(z) \in SUBSET Nat /\ 1000 \in Caps(z)
  BY Weights, SMTT(30) DEF Caps
<1>2. Trust!Ceiling(z) = Trust!Min(Caps(z))
  BY DEF Trust!Ceiling, Caps
<1> QED BY <1>1, <1>2, MinIs

\* Dividing keeps the order.
LEMMA Divides ==
  ASSUME NEW a \in Nat, NEW b \in Nat, a <= b, NEW t \in Nat, t >= 1
  PROVE  a \div t \in Nat /\ b \div t \in Nat /\ a \div t <= b \div t
<1>1. PICK p \in Int : p = a \div t
  OBVIOUS
<1>2. PICK q \in Int : q = b \div t
  OBVIOUS
<1>3. t * p <= a /\ a < t * p + t
  BY <1>1
<1>4. t * q <= b /\ b < t * q + t
  BY <1>2
<1>5. p >= 0 /\ q >= 0
  BY <1>1, <1>2
<1>6. p <= q
  <2> SUFFICES ASSUME p >= q + 1 PROVE FALSE
    OBVIOUS
  <2>1. t * p >= t * (q + 1)
    OBVIOUS
  <2>2. t * (q + 1) = t * q + t
    OBVIOUS
  <2>3. t * p \in Int /\ t * q \in Int /\ t * (q + 1) \in Int
    OBVIOUS
  <2> QED BY <1>3, <1>4, <2>1, <2>2, <2>3
<1> QED BY <1>1, <1>2, <1>5, <1>6

\* What a set of signals earns, and of how much.
LEMMA TotalIs ==
  ASSUME NEW z, DOMAIN z = Names
  PROVE  /\ TotalOf(Trust!Counts(z)) \in Nat
         /\ Trust!Counts(z) # {} => TotalOf(Trust!Counts(z)) >= 1
<1>1. PICK C : C = Trust!Counts(z) /\ C \in SUBSET Names
  BY DEF Trust!Counts
<1>2. IsFiniteSet(C)
  BY <1>1, NamesFinite, FS_Subset
<1>3. PICK w : w = [k \in C |-> Trust!Weight[k]]
  OBVIOUS
<1>4. w \in [C -> Nat] /\ \A k \in C : w[k] = Trust!Weight[k] /\ w[k] >= 1
  BY <1>1, <1>3, Weights
<1>5. PICK f : Sums(C, w, f) /\ TotalOf(C) = f[C]
  BY <1>2, <1>4, TotalSums
<1>6. f[C] \in Nat
  <2>1. \A x \in C : w[x] <= w[x]
    BY <1>4
  <2>2. \A s \in SUBSET C : f[s] \in Nat /\ f[s] \in Nat /\ f[s] <= f[s]
    BY <1>2, <1>4, <1>5, <2>1, SumGrows
  <2> QED BY <2>2
<1>7. C # {} => f[C] >= 1
  BY <1>2, <1>4, <1>5, SumPositive
<1> QED BY <1>1, <1>5, <1>6, <1>7

LEMMA EarnedIs ==
  ASSUME NEW C \in SUBSET Names, NEW y, NEW z,
         \A k \in C : /\ Trust!StatusValue[y[k]] \in Nat /\ Trust!StatusValue[z[k]] \in Nat
                      /\ Trust!StatusValue[y[k]] <= Trust!StatusValue[z[k]]
  PROVE  EarnedOf(y, C) \in Nat /\ EarnedOf(z, C) \in Nat /\ EarnedOf(y, C) <= EarnedOf(z, C)
<1>1. IsFiniteSet(C)
  BY NamesFinite, FS_Subset
<1>2. PICK v : v = [k \in C |-> Trust!Weight[k] * Trust!StatusValue[y[k]]]
  OBVIOUS
<1>3. PICK w : w = [k \in C |-> Trust!Weight[k] * Trust!StatusValue[z[k]]]
  OBVIOUS
<1>4. ASSUME NEW k \in C
      PROVE  /\ v[k] = Trust!Weight[k] * Trust!StatusValue[y[k]] /\ w[k] = Trust!Weight[k] * Trust!StatusValue[z[k]]
             /\ v[k] \in Nat /\ w[k] \in Nat /\ v[k] <= w[k]
  <2>1. PICK m \in 1..4 : m = Trust!Weight[k]
    BY Weights
  <2>2. PICK a \in Nat : a = Trust!StatusValue[y[k]]
    OBVIOUS
  <2>3. PICK b \in Nat : b = Trust!StatusValue[z[k]]
    OBVIOUS
  <2>4. a <= b
    BY <2>2, <2>3
  <2>5. m * a \in Nat /\ m * b \in Nat /\ m * a <= m * b
    <3>1. m = 1 \/ m = 2 \/ m = 3 \/ m = 4
      OBVIOUS
    <3> QED BY <2>4, <3>1
  <2>6. v[k] = m * a /\ w[k] = m * b
    BY <1>2, <1>3, <2>1, <2>2, <2>3
  <2> QED BY <2>1, <2>2, <2>3, <2>5, <2>6
<1>5. v \in [C -> Nat] /\ w \in [C -> Nat]
  <2>1. DOMAIN v = C /\ DOMAIN w = C /\ v = [k \in C |-> v[k]] /\ w = [k \in C |-> w[k]]
    BY <1>2, <1>3
  <2> QED BY <1>4, <2>1
<1>6. PICK f : Sums(C, v, f) /\ EarnedOf(y, C) = f[C]
  BY <1>1, <1>4, <1>5, EarnedSums
<1>7. PICK g : Sums(C, w, g) /\ EarnedOf(z, C) = g[C]
  BY <1>1, <1>4, <1>5, EarnedSums
<1>8. \A s \in SUBSET C : f[s] \in Nat /\ g[s] \in Nat /\ f[s] <= g[s]
  BY <1>1, <1>4, <1>5, <1>6, <1>7, SumGrows
<1> QED BY <1>6, <1>7, <1>8

LEMMA CountsAre ==
  ASSUME NEW z, DOMAIN z = Names
  PROVE  /\ Trust!Counts(z) \in SUBSET Names
         /\ \A k \in Names : k \in Trust!Counts(z) <=> z[k] \in {"pass", "warn", "fail"}
<1>1. Trust!Counts(z) = {k \in Names : z[k] \in Trust!Evaluated}
  BY DEF Trust!Counts
<1> QED BY <1>1 DEF Trust!Evaluated

\* Once a check was evaluated the score is what was earned, up to the ceiling.
LEMMA ScoreIs ==
  ASSUME NEW z, DOMAIN z = Names, Trust!Counts(z) # {}
  PROVE  /\ TotalOf(Trust!Counts(z)) \in Nat /\ TotalOf(Trust!Counts(z)) >= 1
         /\ EarnedOf(z, Trust!Counts(z)) \in Nat
         /\ (100 * EarnedOf(z, Trust!Counts(z))) \div TotalOf(Trust!Counts(z)) \in Nat
         /\ Trust!Score(z) = Trust!Min({(100 * EarnedOf(z, Trust!Counts(z))) \div TotalOf(Trust!Counts(z)),
                                        Trust!Ceiling(z)})
         /\ Trust!Score(z) \in Nat
         /\ Trust!Score(z) <= Trust!Ceiling(z)
         /\ Trust!Score(z) <= (100 * EarnedOf(z, Trust!Counts(z))) \div TotalOf(Trust!Counts(z))
         /\ \/ Trust!Score(z) = Trust!Ceiling(z)
            \/ Trust!Score(z) = (100 * EarnedOf(z, Trust!Counts(z))) \div TotalOf(Trust!Counts(z))
<1>0. PICK C : C = Trust!Counts(z)
  OBVIOUS
<1>1. C = Trust!Counts(z) /\ C \in SUBSET Names /\ C # {} /\ \A k \in C : z[k] \in {"pass", "warn", "fail"}
  BY <1>0, CountsAre
<1>2. PICK t : t = TotalOf(C) /\ t \in Nat /\ t >= 1
  BY <1>1, TotalIs
<1>3. PICK e : e = EarnedOf(z, C) /\ e \in Nat
  <2>1. \A k \in C : Trust!StatusValue[z[k]] \in Nat /\ Trust!StatusValue[z[k]] <= Trust!StatusValue[z[k]]
    BY <1>1 DEF Trust!StatusValue
  <2> QED BY <1>1, <2>1, EarnedIs
<1>4. PICK q : q = (100 * e) \div t /\ q \in Nat
  <2>1. 100 * e \in Nat
    BY <1>3
  <2> QED BY <1>2, <2>1, Divides
<1>5. PICK c : c = Trust!Ceiling(z) /\ c \in Nat
  BY CeilingIs
<1>6. Trust!Score(z) = Trust!Min({q, c})
  <2>1. Trust!Score(z) = IF t = 0 THEN 500 ELSE Trust!Min({(100 * e) \div t, c})
    BY <1>1, <1>2, <1>3, <1>5 DEF Trust!Score, TotalOf, EarnedOf
  <2> QED BY <1>2, <1>4, <2>1
<1>7. Trust!Min({q, c}) \in {q, c} /\ Trust!Min({q, c}) <= q /\ Trust!Min({q, c}) <= c
  <2>1. {q, c} \in SUBSET Nat /\ {q, c} # {}
    BY <1>4, <1>5
  <2> QED BY <2>1, MinIs
<1> QED BY <1>1, <1>2, <1>3, <1>4, <1>5, <1>6, <1>7

\* A failed check with a ceiling caps the score, below the band of the trusted.
LEMMA FailedIsCapped ==
  ASSUME NEW z, DOMAIN z = Names, NEW k \in DOMAIN Trust!FailCaps, z[k] = "fail"
  PROVE  Trust!Score(z) <= Trust!FailCaps[k] /\ Trust!Band(Trust!Score(z)) # "Trusted"
<1>1. k \in Trust!Counts(z)
  BY Weights DEF Trust!Counts, Trust!Evaluated
<1>2. Trust!Score(z) \in Nat /\ Trust!Score(z) <= Trust!Ceiling(z)
  BY <1>1, ScoreIs
<1>3. Trust!FailCaps[k] \in Caps(z)
  BY DEF Caps
<1>4. Trust!Ceiling(z) \in Nat /\ Trust!Ceiling(z) <= Trust!FailCaps[k]
  BY <1>3, CeilingIs
<1>5. Trust!FailCaps[k] \in 0..740
  BY Weights
<1>m. PICK n \in Nat : n = Trust!Score(z)
  BY <1>2
<1>6. n = Trust!Score(z) /\ n <= Trust!FailCaps[k] /\ n <= 740
  BY <1>2, <1>4, <1>5, <1>m
<1>7. ~(n >= 750)
  BY <1>6
<1>8. Trust!Band(n) # "Trusted"
  BY <1>7 DEF Trust!Band
<1> QED BY <1>6, <1>8

\* A check that turns from pass to worse earns less of the same total, and lowers the
\* ceiling if it moves it.
LEMMA WorseIsLower ==
  ASSUME NEW z, DOMAIN z = Names, NEW k \in Names, z[k] = "pass", NEW bad \in {"warn", "fail"}
  PROVE  Trust!Score([z EXCEPT ![k] = bad]) <= Trust!Score(z)
<1>1. PICK y : y = [z EXCEPT ![k] = bad]
  OBVIOUS
<1>2. DOMAIN y = Names /\ y[k] = bad /\ \A j \in Names : j # k => y[j] = z[j]
  BY <1>1
<1>c. PICK C : C = Trust!Counts(z)
  OBVIOUS
<1>3. C = Trust!Counts(z) /\ C \in SUBSET Names /\ \A j \in C : z[j] \in {"pass", "warn", "fail"}
  BY <1>c, CountsAre
<1>4. Trust!Counts(y) = C /\ k \in C
  BY <1>2, <1>3 DEF Trust!Counts, Trust!Evaluated
<1>5. EarnedOf(y, C) \in Nat /\ EarnedOf(z, C) \in Nat /\ EarnedOf(y, C) <= EarnedOf(z, C)
  <2>1. ASSUME NEW j \in C
        PROVE  /\ Trust!StatusValue[y[j]] \in Nat /\ Trust!StatusValue[z[j]] \in Nat
               /\ Trust!StatusValue[y[j]] <= Trust!StatusValue[z[j]]
    <3>0. \A v \in {"pass", "warn", "fail"} :
             Trust!StatusValue[v] \in Nat /\ Trust!StatusValue[v] <= Trust!StatusValue["pass"]
      BY DEF Trust!StatusValue
    <3>1. CASE j = k
      BY <1>2, <3>0, <3>1
    <3>2. CASE j # k
      <4>1. y[j] = z[j] /\ z[j] \in {"pass", "warn", "fail"}
        BY <1>2, <1>3, <3>2
      <4> QED BY <3>0, <4>1
    <3> QED BY <3>1, <3>2
  <2> QED BY <1>3, <2>1, EarnedIs
<1>6. Trust!Ceiling(y) <= Trust!Ceiling(z)
  <2>1. Caps(z) \subseteq Caps(y)
    <3>1. \A j \in Names : /\ z[j] = "fail" => y[j] = "fail"
                           /\ z[j] = "warn" => y[j] = "warn"
      BY <1>2
    <3> QED BY <3>1, Weights DEF Caps
  <2> QED BY <2>1, CeilingIs
<1>7. PICK t \in Nat : t = TotalOf(C) /\ t >= 1
  BY <1>3, <1>4, TotalIs
<1>8. PICK a \in Nat : a = 100 * EarnedOf(y, C)
  BY <1>5
<1>9. PICK b \in Nat : b = 100 * EarnedOf(z, C) /\ a <= b
  BY <1>5, <1>8
<1>10. a \div t \in Nat /\ b \div t \in Nat /\ a \div t <= b \div t
  BY <1>7, <1>9, Divides
<1>11. PICK m \in Nat : /\ m = Trust!Score(y) /\ m <= Trust!Ceiling(y) /\ m <= a \div t
  BY <1>2, <1>4, <1>7, <1>8, ScoreIs
<1>12. PICK n \in Nat : n = Trust!Score(z) /\ (n = Trust!Ceiling(z) \/ n = b \div t)
  <2>1. DOMAIN z = Names /\ Trust!Counts(z) # {}
    BY <1>3, <1>4
  <2>2. /\ Trust!Score(z) \in Nat
        /\ \/ Trust!Score(z) = Trust!Ceiling(z)
           \/ Trust!Score(z) = (100 * EarnedOf(z, Trust!Counts(z))) \div TotalOf(Trust!Counts(z))
    BY <2>1, ScoreIs, Zenon
  <2>3. (100 * EarnedOf(z, Trust!Counts(z))) \div TotalOf(Trust!Counts(z)) = b \div t
    BY <1>3, <1>7, <1>9, Zenon
  <2> QED BY <2>2, <2>3, Zenon
<1>13. Trust!Ceiling(y) \in Nat /\ Trust!Ceiling(z) \in Nat
  BY CeilingIs
<1> QED BY <1>1, <1>6, <1>10, <1>11, <1>12, <1>13

\* The probe stops before the first hop whose addresses are not all public.
LEMMA OnlyPublic ==
  ASSUME NEW hops \in Seq(Trust!Hop) \ {<<>>}, NEW i \in Trust!Contacted(hops)
  PROVE  Trust!SafeIps(hops[i].dns)
<1>1. PICK m \in Nat : m = Len(hops) /\ m >= 1 /\ DOMAIN hops = 1..m
  OBVIOUS
<1>2. PICK stops : stops = {j \in DOMAIN hops : ~Trust!SafeIps(hops[j].dns) \/ hops[j].down \/ ~hops[j].redirects}
  OBVIOUS
<1>3. stops \in SUBSET Nat /\ stops \in SUBSET (1..m)
  BY <1>1, <1>2
<1>4. PICK last : last = IF stops = {} THEN m ELSE Trust!Min(stops)
  OBVIOUS
<1>5. last \in 1..m /\ \A j \in stops : last <= j
  BY <1>1, <1>3, <1>4, MinIs
<1>6. Trust!Fetched(hops) = Trust!Min({last, 6})
  BY <1>1, <1>2, <1>4 DEF Trust!Fetched, Trust!MaxRedirects
<1>7. PICK n \in 1..m : n = Trust!Fetched(hops) /\ n <= last
  <2>1. {last, 6} \in SUBSET Nat /\ {last, 6} # {}
    BY <1>5
  <2>2. PICK x : x = Trust!Min({last, 6}) /\ (x = last \/ x = 6) /\ x <= last
    BY <2>1, MinIs
  <2> QED BY <1>1, <1>5, <1>6, <2>2
<1>8. i \in 1..n /\ (i = n => Trust!SafeIps(hops[n].dns))
  BY <1>7 DEF Trust!Contacted
<1>9. CASE i < n
  <2>1. i \in 1..m /\ i \notin stops
    BY <1>1, <1>5, <1>7, <1>8, <1>9
  <2> QED BY <1>1, <1>2, <2>1
<1> QED BY <1>7, <1>8, <1>9

LEMMA TrustStands ==
  ASSUME NEW x \in UrlChecks
  PROVE  Trust!TrustSound(x.u, x.hops, x.peer, x.age, x.sb, x.vt)
<1>1. PICK hops : hops = x.hops /\ hops \in Seq(Trust!Hop) \ {<<>>}
  BY UrlChecksKnown
<1>2. PICK s : s = Trust!Signals(x.u, hops, x.peer, x.age, x.sb, x.vt) /\ DOMAIN s = Names
  BY SignalNames
<1>3. \A k \in DOMAIN Trust!FailCaps :
         s[k] = "fail" => Trust!Score(s) <= Trust!FailCaps[k] /\ Trust!Band(Trust!Score(s)) # "Trusted"
  BY <1>2, FailedIsCapped
<1>4. \A k \in DOMAIN s : s[k] = "pass" =>
         \A bad \in Trust!Worse(k) : Trust!Score([s EXCEPT ![k] = bad]) <= Trust!Score(s)
  <2> SUFFICES ASSUME NEW k \in Names, s[k] = "pass", NEW bad \in Trust!Worse(k)
               PROVE  Trust!Score([s EXCEPT ![k] = bad]) <= Trust!Score(s)
    BY <1>2
  <2>1. bad \in {"warn", "fail"}
    BY DEF Trust!Worse
  <2> QED BY <1>2, <2>1, WorseIsLower
<1>5. \A i \in Trust!Contacted(hops) : Trust!SafeIps(hops[i].dns)
  BY <1>1, OnlyPublic
<1> QED BY <1>1, <1>2, <1>3, <1>4, <1>5 DEF Trust!TrustSound

-----------------------------------------------------------------------------
(* NmapScan: sequences joined *)

Elements(s) == {s[i] : i \in 1..Len(s)}

LEMMA ElementsJoined ==
  ASSUME NEW H, NEW a \in Seq(H), NEW b \in Seq(H)
  PROVE  a \o b \in Seq(H) /\ Elements(a \o b) = Elements(a) \cup Elements(b)
<1>1. a \o b \in Seq(H) /\ Len(a \o b) = Len(a) + Len(b)
  OBVIOUS
<1>2. PICK m \in Nat, n \in Nat : m = Len(a) /\ n = Len(b)
  OBVIOUS
<1>3. PICK c : c = a \o b
  OBVIOUS
<1>4. \A i \in 1..m : c[i] = a[i]
  BY <1>2, <1>3
<1>5. \A i \in 1..n : c[m + i] = b[i]
  BY <1>2, <1>3
<1>6. Len(c) = m + n
  BY <1>1, <1>2, <1>3
<1>7. \A i \in 1..(m + n) : i \in 1..m \/ (i - m \in 1..n /\ m + (i - m) = i)
  BY <1>2
<1>8. \A i \in 1..n : m + i \in 1..(m + n)
  BY <1>2
<1>9. \A i \in 1..m : i \in 1..(m + n)
  BY <1>2
<1>10. Elements(a) \cup Elements(b) \subseteq Elements(c)
  BY <1>2, <1>4, <1>5, <1>6, <1>8, <1>9 DEF Elements
<1>11. Elements(c) \subseteq Elements(a) \cup Elements(b)
  <2> SUFFICES ASSUME NEW i \in 1..(m + n) PROVE c[i] \in Elements(a) \cup Elements(b)
    BY <1>6 DEF Elements
  <2>1. CASE i \in 1..m
    BY <1>2, <1>4, <2>1 DEF Elements
  <2>2. CASE i \notin 1..m
    <3>1. PICK j \in 1..n : m + j = i
      BY <1>7, <2>2
    <3>2. c[i] = b[j]
      BY <1>5, <3>1
    <3> QED BY <1>2, <3>2 DEF Elements
  <2> QED BY <2>1, <2>2
<1> QED BY <1>1, <1>3, <1>10, <1>11

\* The library's concatenation of sequences.
Flattening(B, f) == f = [i \in 1..Len(B) |-> IF i = 1 THEN B[i] ELSE f[i - 1] \o B[i]]

LEMMA FlatteningIs ==
  ASSUME NEW B, Len(B) # 0
  PROVE  Nmap!FlattenSeq(B) = (CHOOSE f : Flattening(B, f))[Len(B)]
BY DEF Nmap!FlattenSeq, Flattening

LEMMA Flattened ==
  ASSUME NEW H, NEW B \in Seq(Seq(H))
  PROVE  /\ Nmap!FlattenSeq(B) \in Seq(H)
         /\ Elements(Nmap!FlattenSeq(B)) = UNION {Elements(B[b]) : b \in 1..Len(B)}
<1>1. PICK n \in Nat : n = Len(B)
  OBVIOUS
<1>2. CASE n = 0
  <2>1. Nmap!FlattenSeq(B) = B
    BY <1>1, <1>2 DEF Nmap!FlattenSeq
  <2>2. B = <<>>
    BY <1>1, <1>2, EmptySeq
  <2>3. 1..Len(B) = {}
    BY <1>1, <1>2
  <2> QED BY <2>1, <2>2, <2>3 DEF Elements
<1>3. CASE n # 0
  <2>b. \A k \in 1..n : B[k] \in Seq(H)
    BY <1>1
  <2>1. PICK V, nil : V = Seq(H) /\ nil = <<>>
    OBVIOUS
  <2>2. nil \in V
    BY <2>1
  <2>3. PICK F : F = [x \in (1..n) \X V |-> IF x[1] = 1 THEN B[1] ELSE x[2] \o B[x[1]]]
    OBVIOUS
  <2>4. ASSUME NEW k \in 1..n, NEW t \in V
        PROVE  /\ F[<<k, t>>] = IF k = 1 THEN B[1] ELSE t \o B[k]
               /\ F[<<k, t>>] \in V
    <3>1. <<k, t>> \in (1..n) \X V
      OBVIOUS
    <3>2. F[<<k, t>>] = IF k = 1 THEN B[1] ELSE t \o B[k]
      BY <2>3, <3>1
    <3>3. B[k] \in V /\ t \o B[k] \in V
      BY <2>1, <2>b, ElementsJoined
    <3> QED BY <3>2, <3>3
  <2>5. F \in [(1..n) \X V -> V]
    <3> SUFFICES ASSUME NEW x \in (1..n) \X V PROVE F[x] \in V
      BY <2>3
    <3>1. PICK k \in 1..n, t \in V : x = <<k, t>>
      OBVIOUS
    <3> QED BY <2>4, <3>1
  <2>6. PICK p : Runs(F, nil, n, V, p)
    BY <2>2, <2>5, Prefixes
  <2>7. p \in [0..n -> V] /\ \A k \in 1..n : p[k] = F[<<k, p[k - 1]>>]
    BY <2>6 DEF Runs
  <2>8. PICK g : g = [k \in 1..n |-> p[k]]
    OBVIOUS
  <2>9. ASSUME NEW k \in 1..n PROVE p[k] = IF k = 1 THEN B[k] ELSE g[k - 1] \o B[k]
    <3>1. k - 1 \in 0..n /\ p[k - 1] \in V
      BY <2>7
    <3>2. p[k] = IF k = 1 THEN B[1] ELSE p[k - 1] \o B[k]
      BY <2>4, <2>7, <3>1
    <3>3. k # 1 => k - 1 \in 1..n
      OBVIOUS
    <3>4. k # 1 => g[k - 1] = p[k - 1]
      BY <2>8, <3>3
    <3> QED BY <3>2, <3>4
  <2>10. Flattening(B, g)
    BY <1>1, <2>8, <2>9 DEF Flattening
  <2>11. PICK f : f = CHOOSE h : Flattening(B, h)
    OBVIOUS
  <2>12. Flattening(B, f)
    BY <2>10, <2>11
  <2>13. \A i \in 1..n : f[i] = IF i = 1 THEN B[i] ELSE f[i - 1] \o B[i]
    BY <1>1, <2>12 DEF Flattening
  <2> DEFINE Good(k) == f[k] \in Seq(H) /\ Elements(f[k]) = UNION {Elements(B[b]) : b \in 1..k}
             Bad == {k \in 1..n : ~Good(k)}
  <2>14. Good(1)
    <3>1. 1 \in 1..n /\ 1..1 = {1}
      BY <1>3
    <3>2. f[1] = B[1] /\ B[1] \in Seq(H)
      BY <2>13, <2>b, <3>1
    <3> QED BY <3>1, <3>2
  <2>15. ASSUME NEW k \in 1..n, k # 1, Good(k - 1) PROVE Good(k)
    <3>1. PICK r \in Seq(H) : r = f[k - 1] /\ Elements(r) = UNION {Elements(B[b]) : b \in 1..(k - 1)}
      BY <2>15
    <3>2. PICK c \in Seq(H) : c = B[k]
      BY <2>b
    <3>3. f[k] = r \o c
      BY <2>13, <2>15, <3>1, <3>2
    <3>4. f[k] \in Seq(H) /\ Elements(f[k]) = Elements(r) \cup Elements(c)
      BY <3>3, ElementsJoined
    <3>5. 1..k = (1..(k - 1)) \cup {k}
      OBVIOUS
    <3>6. UNION {Elements(B[b]) : b \in 1..k} = (UNION {Elements(B[b]) : b \in 1..(k - 1)}) \cup Elements(B[k])
      BY <3>5
    <3> QED BY <3>1, <3>2, <3>4, <3>6
  <2>16. Bad = {}
    <3> SUFFICES ASSUME Bad # {} PROVE FALSE
      OBVIOUS
    <3>1. Bad \in SUBSET Nat
      OBVIOUS
    <3>2. PICK k \in Bad : \A j \in Bad : k <= j
      <4> HIDE DEF Bad
      <4> QED BY <3>1, Least
    <3>3. k \in 1..n /\ ~Good(k)
      OBVIOUS
    <3>4. k # 1
      <4> HIDE DEF Good
      <4> QED BY <2>14, <3>3
    <3>5. k - 1 \in 1..n /\ ~(k <= k - 1)
      BY <3>3, <3>4
    <3>6. k - 1 \notin Bad
      <4> HIDE DEF Bad
      <4> QED BY <3>2, <3>5
    <3>7. Good(k - 1)
      <4> HIDE DEF Good
      <4> QED BY <3>5, <3>6
    <3> HIDE DEF Good
    <3> QED BY <2>15, <3>3, <3>4, <3>7
  <2>17. Good(n)
    <3>1. n \in 1..n
      BY <1>3
    <3> HIDE DEF Good
    <3> QED BY <2>16, <3>1
  <2>18. Nmap!FlattenSeq(B) = f[n]
    BY <1>1, <1>3, <2>11, FlatteningIs
  <2> QED BY <1>1, <2>17, <2>18
<1> QED BY <1>2, <1>3

-----------------------------------------------------------------------------
(* NmapScan: hosts gathered and kept *)

\* discover_hosts gathers the addresses of the hosts that answered.
Gather(ips, h) ==
    IF Nmap!Up(h) /\ Nmap!AddressOf(h) # "none" THEN Append(ips, Nmap!AddressOf(h)) ELSE ips

Gathering(hosts, f) ==
   f = [s \in SUBSET DOMAIN hosts |-> IF s = {} THEN <<>> ELSE Gather(f[s \ {Top(s)}], hosts[Top(s)])]

LEMMA GatheringIs ==
  ASSUME NEW r
  PROVE  Nmap!LiveAddresses(r) = (CHOOSE f : Gathering(r.hosts, f))[DOMAIN r.hosts]
BY DEF Nmap!LiveAddresses, Nmap!FoldLeft, Nmap!MapThenFoldSet, Gathering, Gather, Top, Nmap!Max

LEMMA LiveIs ==
  ASSUME NEW r \in Nmap!Reply
  PROVE  \E A : Nmap!LiveAddresses(r) \in Seq(A)
<1>0. PICK hosts \in Seq(Nmap!Host) : hosts = r.hosts
  BY DEF Nmap!Reply
<1>1. PICK n \in Nat : n = Len(hosts) /\ DOMAIN hosts = 1..n
  OBVIOUS
<1>2. PICK A : A = {Nmap!AddressOf(hosts[k]) : k \in 1..n}
  OBVIOUS
<1>3. PICK V, nil : V = Seq(A) /\ nil = <<>>
  OBVIOUS
<1>4. nil \in V
  BY <1>3
<1>5. PICK F : F = [x \in (1..n) \X V |-> Gather(x[2], hosts[x[1]])]
  OBVIOUS
<1>6. ASSUME NEW k \in 1..n, NEW t \in V
      PROVE  F[<<k, t>>] = Gather(t, hosts[k]) /\ Gather(t, hosts[k]) \in V
  <2>1. <<k, t>> \in (1..n) \X V
    OBVIOUS
  <2>2. F[<<k, t>>] = Gather(t, hosts[k])
    BY <1>5, <2>1
  <2>3. PICK a \in A : a = Nmap!AddressOf(hosts[k])
    BY <1>2
  <2>4. Append(t, a) \in V
    BY <1>3, <2>3
  <2>5. Gather(t, hosts[k]) = t \/ Gather(t, hosts[k]) = Append(t, a)
    BY <2>3 DEF Gather
  <2> QED BY <2>2, <2>4, <2>5
<1>7. F \in [(1..n) \X V -> V]
  <2> SUFFICES ASSUME NEW x \in (1..n) \X V PROVE F[x] \in V
    BY <1>5
  <2>1. PICK k \in 1..n, t \in V : x = <<k, t>>
    OBVIOUS
  <2> QED BY <1>6, <2>1
<1>8. PICK g : Folds(F, nil, n, V, g)
  BY <1>4, <1>7, Recursion
<1>9. Gathering(hosts, g)
  <2>1. /\ g \in [SUBSET (1..n) -> V]
        /\ \A s \in SUBSET (1..n) : g[s] = IF s = {} THEN nil ELSE F[<<Top(s), g[s \ {Top(s)}]>>]
    BY <1>8 DEF Folds
  <2>2. ASSUME NEW s \in SUBSET (1..n), s # {}
        PROVE  g[s] = Gather(g[s \ {Top(s)}], hosts[Top(s)])
    <3>1. Top(s) \in 1..n /\ g[s \ {Top(s)}] \in V
      BY <2>1, <2>2, TopIs
    <3> QED BY <1>6, <2>1, <2>2, <3>1
  <2>3. g = [s \in SUBSET (1..n) |-> g[s]]
    BY <2>1
  <2>4. g[{}] = <<>>
    BY <1>3, <2>1
  <2> QED BY <1>1, <2>2, <2>3, <2>4 DEF Gathering
<1>10. PICK f : f = CHOOSE h : Gathering(hosts, h)
  OBVIOUS
<1>11. Unfolds(F, nil, n, V, f)
  <2>1. Gathering(hosts, f)
    BY <1>9, <1>10
  <2>2. ASSUME NEW s \in SUBSET (1..n), s # {}, f[s \ {Top(s)}] \in V
        PROVE  f[s] = F[<<Top(s), f[s \ {Top(s)}]>>]
    <3>1. f[s] = Gather(f[s \ {Top(s)}], hosts[Top(s)])
      BY <1>1, <2>1, <2>2 DEF Gathering
    <3>2. Top(s) \in 1..n
      BY <2>2, TopIs
    <3> QED BY <1>6, <2>2, <3>1, <3>2
  <2>3. f[{}] = nil
    BY <1>3, <2>1 DEF Gathering
  <2> QED BY <2>2, <2>3 DEF Unfolds
<1>12. PICK p : Runs(F, nil, n, V, p)
  BY <1>4, <1>7, Prefixes
<1>13. Ends(n, f, p)
  BY <1>4, <1>7, <1>11, <1>12, Along
<1>14. p[n] \in V
  BY <1>12 DEF Runs
<1>15. Nmap!LiveAddresses(r) = f[DOMAIN hosts]
  BY <1>0, <1>10, GatheringIs
<1> QED BY <1>1, <1>3, <1>13, <1>14, <1>15 DEF Ends

-----------------------------------------------------------------------------
\* scan_range keeps the hosts it asked for.
HostsOf(q, targets) == Nmap!FoldLeft(LAMBDA acc, h : Nmap!Kept(acc, h, targets), <<>>, q)

Keeping(q, targets, f) ==
   f = [s \in SUBSET DOMAIN q |-> IF s = {} THEN <<>> ELSE Nmap!Kept(f[s \ {Top(s)}], q[Top(s)], targets)]

LEMMA KeepingIs ==
  ASSUME NEW q, NEW targets
  PROVE  HostsOf(q, targets) = (CHOOSE f : Keeping(q, targets, f))[DOMAIN q]
BY DEF HostsOf, Nmap!FoldLeft, Nmap!MapThenFoldSet, Keeping, Top, Nmap!Max

KeptAlong(R, q, targets, p) ==
    /\ p[0] = <<>>
    /\ \A k \in 0..Len(q) : p[k] \in Seq(R)
    /\ \A k \in 1..Len(q) : p[k] = Nmap!Kept(p[k - 1], q[k], targets)
    /\ HostsOf(q, targets) = p[Len(q)]

LEMMA HostsPrefixes ==
  ASSUME NEW H, NEW q \in Seq(H), NEW targets, NEW R, R = {Nmap!HostResult(h) : h \in H}
  PROVE  \E p : KeptAlong(R, q, targets, p)
<1>1. PICK n \in Nat : n = Len(q) /\ DOMAIN q = 1..n
  OBVIOUS
<1>3. PICK V, nil : V = Seq(R) /\ nil = <<>>
  OBVIOUS
<1>4. nil \in V
  BY <1>3
<1>5. PICK F : F = [x \in (1..n) \X V |-> Nmap!Kept(x[2], q[x[1]], targets)]
  OBVIOUS
<1>6. ASSUME NEW k \in 1..n, NEW t \in V
      PROVE  F[<<k, t>>] = Nmap!Kept(t, q[k], targets) /\ Nmap!Kept(t, q[k], targets) \in V
  <2>1. <<k, t>> \in (1..n) \X V
    OBVIOUS
  <2>2. F[<<k, t>>] = Nmap!Kept(t, q[k], targets)
    BY <1>5, <2>1
  <2>3. PICK a \in R : a = Nmap!HostResult(q[k])
    BY <1>1
  <2>4. Append(t, a) \in V
    BY <1>3, <2>3
  <2>5. Nmap!Kept(t, q[k], targets) = t \/ Nmap!Kept(t, q[k], targets) = Append(t, a)
    BY <2>3 DEF Nmap!Kept
  <2> QED BY <2>2, <2>4, <2>5
<1>7. F \in [(1..n) \X V -> V]
  <2> SUFFICES ASSUME NEW x \in (1..n) \X V PROVE F[x] \in V
    BY <1>5
  <2>1. PICK k \in 1..n, t \in V : x = <<k, t>>
    OBVIOUS
  <2> QED BY <1>6, <2>1
<1>8. PICK g : Folds(F, nil, n, V, g)
  BY <1>4, <1>7, Recursion
<1>9. Keeping(q, targets, g)
  <2>1. /\ g \in [SUBSET (1..n) -> V]
        /\ \A s \in SUBSET (1..n) : g[s] = IF s = {} THEN nil ELSE F[<<Top(s), g[s \ {Top(s)}]>>]
    BY <1>8 DEF Folds
  <2>2. ASSUME NEW s \in SUBSET (1..n), s # {}
        PROVE  g[s] = Nmap!Kept(g[s \ {Top(s)}], q[Top(s)], targets)
    <3>1. Top(s) \in 1..n /\ g[s \ {Top(s)}] \in V
      BY <2>1, <2>2, TopIs
    <3> QED BY <1>6, <2>1, <2>2, <3>1
  <2>3. g = [s \in SUBSET (1..n) |-> g[s]]
    BY <2>1
  <2>4. g[{}] = <<>>
    BY <1>3, <2>1
  <2> QED BY <1>1, <2>2, <2>3, <2>4 DEF Keeping
<1>10. PICK f : f = CHOOSE h : Keeping(q, targets, h)
  OBVIOUS
<1>11. Unfolds(F, nil, n, V, f)
  <2>1. Keeping(q, targets, f)
    BY <1>9, <1>10
  <2>2. ASSUME NEW s \in SUBSET (1..n), s # {}, f[s \ {Top(s)}] \in V
        PROVE  f[s] = F[<<Top(s), f[s \ {Top(s)}]>>]
    <3>1. f[s] = Nmap!Kept(f[s \ {Top(s)}], q[Top(s)], targets)
      BY <1>1, <2>1, <2>2 DEF Keeping
    <3>2. Top(s) \in 1..n
      BY <2>2, TopIs
    <3> QED BY <1>6, <2>2, <3>1, <3>2
  <2>3. f[{}] = nil
    BY <1>3, <2>1 DEF Keeping
  <2> QED BY <2>2, <2>3 DEF Unfolds
<1>12. PICK p : Runs(F, nil, n, V, p)
  BY <1>4, <1>7, Prefixes
<1>13. Ends(n, f, p)
  BY <1>4, <1>7, <1>11, <1>12, Along
<1>14. p \in [0..n -> V] /\ p[0] = nil /\ \A k \in 1..n : p[k] = F[<<k, p[k - 1]>>]
  BY <1>12 DEF Runs
<1>15. HostsOf(q, targets) = p[n]
  BY <1>1, <1>10, <1>13, KeepingIs DEF Ends
<1>16. ASSUME NEW k \in 1..n PROVE p[k] = Nmap!Kept(p[k - 1], q[k], targets)
  <2>1. k - 1 \in 0..n
    OBVIOUS
  <2> QED BY <1>6, <1>14, <2>1
<1> QED BY <1>1, <1>3, <1>14, <1>15, <1>16 DEF KeptAlong

\* Each host that was asked for once.
OnceEach(acc, E, T) ==
    /\ {acc[i].target : i \in DOMAIN acc} = (E \cap T) \ {"none"}
    /\ \A i, j \in DOMAIN acc : i # j => acc[i].target # acc[j].target

LEMMA KeptStep ==
  ASSUME NEW R, NEW acc \in Seq(R), NEW h, NEW targets, NEW E, OnceEach(acc, E, Nmap!ToSet(targets))
  PROVE  OnceEach(Nmap!Kept(acc, h, targets), E \cup {h.ip}, Nmap!ToSet(targets))
<1>t. PICK T : T = Nmap!ToSet(targets)
  OBVIOUS
<1>1. PICK m \in Nat : m = Len(acc) /\ T = Nmap!ToSet(targets) /\ DOMAIN acc = 1..m
  BY <1>t
<1>2. /\ {acc[i].target : i \in 1..m} = (E \cap T) \ {"none"}
      /\ \A i, j \in 1..m : i # j => acc[i].target # acc[j].target
  BY <1>1 DEF OnceEach
<1>3. CASE h.ip = "none" \/ h.ip \notin T \/ \E i \in 1..m : acc[i].target = h.ip
  <2>1. Nmap!Kept(acc, h, targets) = acc
    BY <1>1, <1>3 DEF Nmap!Kept
  <2>2. ((E \cup {h.ip}) \cap T) \ {"none"} = (E \cap T) \ {"none"}
    <3>1. CASE h.ip = "none" \/ h.ip \notin T
      BY <3>1
    <3>2. CASE \E i \in 1..m : acc[i].target = h.ip
      <4>1. h.ip \in (E \cap T) \ {"none"}
        BY <1>2, <3>2
      <4> QED BY <4>1
    <3> QED BY <1>3, <3>1, <3>2
  <2> QED BY <1>1, <1>2, <2>1, <2>2 DEF OnceEach
<1>4. CASE ~(h.ip = "none" \/ h.ip \notin T \/ \E i \in 1..m : acc[i].target = h.ip)
  <2>0. PICK a, new : a = Nmap!HostResult(h) /\ new = Append(acc, a)
    OBVIOUS
  <2>1. Nmap!Kept(acc, h, targets) = new
    BY <1>1, <1>4, <2>0 DEF Nmap!Kept
  <2>2. a.target = h.ip
    BY <2>0 DEF Nmap!HostResult
  <2>3. DOMAIN new = 1..(m + 1) /\ new[m + 1] = a /\ \A i \in 1..m : new[i] = acc[i]
    BY <1>1, <2>0
  <2>4. \A i \in 1..(m + 1) : i \in 1..m \/ i = m + 1
    OBVIOUS
  <2>5. {new[i].target : i \in 1..(m + 1)} = {acc[i].target : i \in 1..m} \cup {h.ip}
    BY <2>2, <2>3, <2>4
  <2>6. \A i, j \in 1..(m + 1) : i # j => new[i].target # new[j].target
    BY <1>2, <1>4, <2>2, <2>3, <2>4
  <2>7. ((E \cup {h.ip}) \cap T) \ {"none"} = ((E \cap T) \ {"none"}) \cup {h.ip}
    BY <1>4
  <2>8. {new[i].target : i \in DOMAIN new} = ((E \cup {h.ip}) \cap T) \ {"none"}
    BY <1>2, <2>3, <2>5, <2>7
  <2>9. \A i, j \in DOMAIN new : i # j => new[i].target # new[j].target
    BY <2>3, <2>6
  <2> QED BY <1>1, <2>1, <2>8, <2>9 DEF OnceEach
<1> QED BY <1>3, <1>4

LEMMA HostsAre ==
  ASSUME NEW H, NEW q \in Seq(H), NEW targets
  PROVE  OnceEach(HostsOf(q, targets), {q[k].ip : k \in 1..Len(q)}, Nmap!ToSet(targets))
<1>1. PICK n \in Nat : n = Len(q)
  OBVIOUS
<1>2. PICK R : R = {Nmap!HostResult(h) : h \in H}
  OBVIOUS
<1>p. PICK p : KeptAlong(R, q, targets, p)
  BY <1>2, HostsPrefixes
<1>3. /\ p[0] = <<>>
      /\ \A k \in 0..Len(q) : p[k] \in Seq(R)
      /\ \A k \in 1..Len(q) : p[k] = Nmap!Kept(p[k - 1], q[k], targets)
      /\ HostsOf(q, targets) = p[Len(q)]
  BY <1>p DEF KeptAlong
<1> DEFINE Good(k) == OnceEach(p[k], {q[j].ip : j \in 1..k}, Nmap!ToSet(targets))
           Bad == {k \in 0..n : ~Good(k)}
<1>4. Good(0)
  <2>1. 1..0 = {} /\ DOMAIN <<>> = {}
    OBVIOUS
  <2> QED BY <1>3, <2>1 DEF OnceEach
<1>5. ASSUME NEW k \in 1..n, Good(k - 1) PROVE Good(k)
  <2>1. k - 1 \in 0..n
    OBVIOUS
  <2>2. PICK acc \in Seq(R) : acc = p[k - 1] /\ p[k] = Nmap!Kept(acc, q[k], targets)
    BY <1>1, <1>3, <2>1
  <2>3. OnceEach(acc, {q[j].ip : j \in 1..(k - 1)}, Nmap!ToSet(targets))
    BY <1>5, <2>2
  <2>4. OnceEach(p[k], {q[j].ip : j \in 1..(k - 1)} \cup {q[k].ip}, Nmap!ToSet(targets))
    BY <2>2, <2>3, KeptStep
  <2>5. {q[j].ip : j \in 1..k} = {q[j].ip : j \in 1..(k - 1)} \cup {q[k].ip}
    <3>1. 1..k = (1..(k - 1)) \cup {k}
      OBVIOUS
    <3> QED BY <3>1
  <2> QED BY <2>4, <2>5
<1>6. Bad = {}
  <2> SUFFICES ASSUME Bad # {} PROVE FALSE
    OBVIOUS
  <2>1. Bad \in SUBSET Nat
    OBVIOUS
  <2>2. PICK k \in Bad : \A j \in Bad : k <= j
    <3> HIDE DEF Bad
    <3> QED BY <2>1, Least
  <2>3. k \in 0..n /\ ~Good(k)
    OBVIOUS
  <2>4. k # 0
    <3> HIDE DEF Good
    <3> QED BY <1>4, <2>3
  <2>5. k \in 1..n /\ k - 1 \in 0..n /\ ~(k <= k - 1)
    BY <2>3, <2>4
  <2>6. k - 1 \notin Bad
    <3> HIDE DEF Bad
    <3> QED BY <2>2, <2>5
  <2>7. Good(k - 1)
    <3> HIDE DEF Good
    <3> QED BY <2>5, <2>6
  <2> HIDE DEF Good
  <2> QED BY <1>5, <2>3, <2>5, <2>7
<1>7. Good(n)
  <2>1. n \in 0..n
    OBVIOUS
  <2> HIDE DEF Good
  <2> QED BY <1>6, <2>1
<1> QED BY <1>1, <1>3, <1>7

-----------------------------------------------------------------------------
(* NmapScan: a range scan *)

\* There are no more batches than targets, so each has its reply.
LEMMA BatchCount ==
  ASSUME NEW A, NEW targets \in Seq(A), NEW size \in Int
  PROVE  \E c \in Nat : /\ c <= Len(targets)
                        /\ DOMAIN Nmap!Batches(targets, size) = 1..c
                        /\ Len(Nmap!Batches(targets, size)) = c
<1>1. PICK m \in Nat : m = Len(targets)
  OBVIOUS
<1>2. PICK n \in Nat : n = (IF size < 1 THEN 1 ELSE size) /\ n >= 1
  OBVIOUS
<1>3. m + n - 1 \in Nat
  BY <1>2
<1>4. PICK c \in Nat : c = (m + n - 1) \div n
  <2>1. PICK k \in Nat : k = m + n - 1
    BY <1>3
  <2>2. k \div n \in Nat
    BY <1>2, Divides
  <2> QED BY <2>1, <2>2
<1>5. n * c <= m + n - 1
  BY <1>2, <1>3, <1>4
<1>6. c <= m
  <2> SUFFICES ASSUME c >= m + 1 PROVE FALSE
    OBVIOUS
  <2>1. n * c >= n * (m + 1)
    BY <1>2
  <2>2. n * (m + 1) = n * m + n
    OBVIOUS
  <2>3. n * m >= m
    BY <1>2
  <2>4. n * c \in Int /\ n * m \in Int /\ n * (m + 1) \in Int
    OBVIOUS
  <2> QED BY <1>5, <2>1, <2>2, <2>3, <2>4
<1>7. Nmap!Batches(targets, size) =
        [b \in 1..c |-> SubSeq(targets, (b - 1) * n + 1, Nmap!Min({b * n, Len(targets)}))]
  BY <1>1, <1>2, <1>4 DEF Nmap!Batches
<1>8. DOMAIN Nmap!Batches(targets, size) = 1..c
  BY <1>7
<1>9. Len(Nmap!Batches(targets, size)) = c
  BY <1>8
<1> QED BY <1>1, <1>6, <1>8, <1>9

\* What one batch contributes: the hosts it has seen, or nothing when it failed.
LEMMA BatchIs ==
  ASSUME NEW r \in Nmap!Reply, NEW H, H = {Nmap!ParsedHost(h) : h \in Nmap!Host}
  PROVE  /\ Nmap!BatchHosts(r) \in Seq(H)
         /\ {h.ip : h \in Elements(Nmap!BatchHosts(r))} =
               IF Nmap!RunError(r) = "none" THEN {Nmap!AddressOf(r.hosts[i]) : i \in DOMAIN r.hosts} ELSE {}
<1>1. PICK hosts \in Seq(Nmap!Host) : hosts = r.hosts
  BY DEF Nmap!Reply
<1>2. PICK n \in Nat : n = Len(hosts) /\ DOMAIN hosts = 1..n
  OBVIOUS
<1>3. CASE Nmap!RunError(r) = "none"
  <2>0. PICK s : s = [i \in 1..n |-> Nmap!ParsedHost(hosts[i])]
    OBVIOUS
  <2>1. Nmap!BatchHosts(r) = s
    BY <1>1, <1>2, <1>3, <2>0 DEF Nmap!BatchHosts
  <2>2. \A i \in 1..n : hosts[i] \in Nmap!Host /\ s[i] = Nmap!ParsedHost(hosts[i]) /\ s[i] \in H
    BY <1>2, <2>0
  <2>3. s \in Seq(H) /\ Len(s) = n
    BY <2>0, <2>2
  <2>4. \A i \in 1..n : s[i].ip = Nmap!AddressOf(hosts[i])
    <3>1. \A h : Nmap!ParsedHost(h).ip = Nmap!AddressOf(h)
      BY DEF Nmap!ParsedHost
    <3> QED BY <2>2, <3>1
  <2>5. Elements(s) = {s[i] : i \in 1..n}
    BY <2>3 DEF Elements
  <2>6. {h.ip : h \in Elements(s)} = {Nmap!AddressOf(hosts[i]) : i \in 1..n}
    BY <2>4, <2>5
  <2> QED BY <1>1, <1>2, <1>3, <2>1, <2>3, <2>6
<1>4. CASE Nmap!RunError(r) # "none"
  <2>1. Nmap!BatchHosts(r) = <<>>
    BY <1>4 DEF Nmap!BatchHosts
  <2>2. Elements(<<>>) = {}
    BY DEF Elements
  <2> QED BY <1>4, <2>1, <2>2
<1> QED BY <1>3, <1>4

Scanned(result, q, targets, replies, c) ==
    /\ result.hosts = HostsOf(q, targets)
    /\ result.available = ~(HostsOf(q, targets) = <<>> /\ {b \in 1..c : Nmap!RunError(replies[b]) # "none"} # {})

\* The result of a range scan whose discovery worked.
LEMMA RangeIs ==
  ASSUME NEW discovery, NEW replies, NEW size, NEW cap, Nmap!RunError(discovery) = "none",
         NEW live, live = Nmap!LiveAddresses(discovery),
         NEW targets, targets = SubSeq(live, 1, Nmap!Min({Len(live), cap})),
         NEW c, c = Len(Nmap!Batches(targets, size)),
         NEW q, q = Nmap!FlattenSeq([b \in 1..c |-> Nmap!BatchHosts(replies[b])])
  PROVE  Scanned(Nmap!ScanRange(discovery, replies, size, cap), q, targets, replies, c)
<1>1. PICK hosts : hosts = HostsOf(q, targets)
  OBVIOUS
<1>2. PICK failed : failed = {b \in 1..c : Nmap!RunError(replies[b]) # "none"}
  OBVIOUS
<1>3. Nmap!ScanRange(discovery, replies, size, cap) =
        [available |-> ~(hosts = <<>> /\ failed # {}), discovered |-> Len(live),
         capped |-> Len(live) > cap, hosts |-> hosts]
  BY <1>1, <1>2 DEF Nmap!ScanRange, HostsOf, Nmap!FoldLeft, Nmap!MapThenFoldSet
<1> QED BY <1>1, <1>2, <1>3 DEF Scanned

\* RangeHonest, of a result, the targets, the batches, those that worked, and the
\* addresses that answered.
RangeParts(result, wanted, batches, worked, replying) ==
    /\ {result.hosts[i].target : i \in DOMAIN result.hosts} = (replying \cap wanted) \ {"none"}
    /\ \A i, j \in DOMAIN result.hosts : i # j => result.hosts[i].target # result.hosts[j].target
    /\ result.available /\ result.hosts = <<>> => worked = batches

LEMMA RangeUnfolds ==
  ASSUME NEW discovery, NEW replies, NEW size, NEW cap,
         NEW live, live = Nmap!LiveAddresses(discovery),
         NEW targets, targets = SubSeq(live, 1, Nmap!Min({Len(live), cap})),
         NEW batches, batches = DOMAIN Nmap!Batches(targets, size),
         NEW worked, worked = {b \in batches : Nmap!RunError(replies[b]) = "none"},
         NEW replying,
         replying = UNION {{Nmap!AddressOf(replies[b].hosts[i]) : i \in DOMAIN replies[b].hosts} : b \in worked}
  PROVE  Nmap!RangeHonest(discovery, replies, size, cap) <=>
            (Nmap!RunError(discovery) = "none" =>
               RangeParts(Nmap!ScanRange(discovery, replies, size, cap), Nmap!ToSet(targets), batches, worked,
                          replying))
BY DEF Nmap!RangeHonest, RangeParts

\* Whatever nmap replies, to the discovery and to each batch.
LEMMA RangeStands ==
  ASSUME NEW x \in Ranges
  PROVE  Nmap!RangeHonest(x.discovery, x.replies, x.size, x.cap)
<1>1. PICK discovery \in Nmap!Reply : discovery = x.discovery
  BY RangesKnown
<1>2. PICK replies \in Seq(Nmap!Reply) : replies = x.replies
  BY RangesKnown
<1>3. PICK size \in Int : size = x.size
  BY RangesKnown
<1>4. PICK cap \in Nat : cap = x.cap /\ cap <= Len(replies)
  BY <1>2, RangesKnown
<1> SUFFICES Nmap!RangeHonest(discovery, replies, size, cap)
  BY <1>1, <1>2, <1>3, <1>4
<1>n. CASE Nmap!RunError(discovery) # "none"
  BY <1>n DEF Nmap!RangeHonest
<1>k. CASE Nmap!RunError(discovery) = "none"
  <2>5. PICK A, live : live = Nmap!LiveAddresses(discovery) /\ live \in Seq(A)
    BY LiveIs
  <2>6. PICK top \in Nat : top = Nmap!Min({Len(live), cap}) /\ top <= Len(live) /\ top <= cap
    <3>1. PICK l \in Nat : l = Len(live)
      BY <2>5
    <3>2. \E i \in {l, cap} : \A j \in {l, cap} : i <= j
      OBVIOUS
    <3>3. Nmap!Min({l, cap}) \in {l, cap} /\ \A j \in {l, cap} : Nmap!Min({l, cap}) <= j
      BY <3>2 DEF Nmap!Min
    <3> QED BY <3>1, <3>3
  <2>t. PICK targets : targets = SubSeq(live, 1, top)
    OBVIOUS
  <2>7. targets \in Seq(A) /\ Len(targets) = top
    <3>1. PICK l \in Nat : l = Len(live) /\ top <= l
      BY <2>5, <2>6
    <3>2. \A i \in 1..top : i \in 1..Len(live)
      BY <3>1
    <3>3. targets \in Seq(A)
      BY <2>5, <2>t, <3>2, SubSeqProperties
    <3>4. Len(targets) = top
      BY <2>5, <2>t, <3>1
    <3> QED BY <3>3, <3>4
  <2>8. PICK c \in Nat : /\ c <= Len(targets)
                         /\ DOMAIN Nmap!Batches(targets, size) = 1..c
                         /\ Len(Nmap!Batches(targets, size)) = c
    BY <2>7, BatchCount
  <2>9. \A b \in 1..c : replies[b] \in Nmap!Reply
    <3>1. c <= Len(replies)
      BY <1>4, <2>6, <2>7, <2>8
    <3> QED BY <3>1
  <2>10. PICK H : H = {Nmap!ParsedHost(h) : h \in Nmap!Host}
    OBVIOUS
  <2>11. PICK B : B = [b \in 1..c |-> Nmap!BatchHosts(replies[b])]
    OBVIOUS
  <2>12. B \in Seq(Seq(H)) /\ Len(B) = c /\ \A b \in 1..c : B[b] = Nmap!BatchHosts(replies[b])
    <3>1. \A b \in 1..c : B[b] = Nmap!BatchHosts(replies[b]) /\ Nmap!BatchHosts(replies[b]) \in Seq(H)
      BY <2>9, <2>10, <2>11, BatchIs
    <3> QED BY <2>11, <3>1
  <2>13. PICK q \in Seq(H) : q = Nmap!FlattenSeq(B) /\ Elements(q) = UNION {Elements(B[b]) : b \in 1..c}
    BY <2>12, Flattened
  <2>w. PICK worked : worked = {b \in 1..c : Nmap!RunError(replies[b]) = "none"}
    OBVIOUS
  <2>a. PICK replying :
          replying = UNION {{Nmap!AddressOf(replies[b].hosts[i]) : i \in DOMAIN replies[b].hosts} : b \in worked}
    OBVIOUS
  <2>14. {q[k].ip : k \in 1..Len(q)} = replying
    <3>1. {q[k].ip : k \in 1..Len(q)} = {h.ip : h \in Elements(q)}
      BY DEF Elements
    <3>2. ASSUME NEW b \in 1..c
          PROVE  {h.ip : h \in Elements(B[b])} =
                    IF b \in worked THEN {Nmap!AddressOf(replies[b].hosts[i]) : i \in DOMAIN replies[b].hosts} ELSE {}
      BY <2>9, <2>10, <2>12, <2>w, BatchIs
    <3>3. {h.ip : h \in Elements(q)} = UNION {{h.ip : h \in Elements(B[b])} : b \in 1..c}
      BY <2>13
    <3>4. worked \in SUBSET (1..c)
      BY <2>w
    <3> DEFINE Ips(b) == {h.ip : h \in Elements(B[b])}
               Replied(b) == {Nmap!AddressOf(replies[b].hosts[i]) : i \in DOMAIN replies[b].hosts}
    <3>5. UNION {Ips(b) : b \in 1..c} = replying
      <4>1. \A b \in 1..c : Ips(b) = IF b \in worked THEN Replied(b) ELSE {}
        BY <3>2
      <4>2. replying = UNION {Replied(b) : b \in worked}
        BY <2>a
      <4> HIDE DEF Ips, Replied
      <4> QED BY <3>4, <4>1, <4>2
    <3> QED BY <3>1, <3>3, <3>5
  <2>15. PICK hosts : hosts = HostsOf(q, targets) /\ OnceEach(hosts, replying, Nmap!ToSet(targets))
    BY <2>14, HostsAre
  <2>r. PICK result : result = Nmap!ScanRange(discovery, replies, size, cap)
    OBVIOUS
  <2>m. targets = SubSeq(live, 1, Nmap!Min({Len(live), cap}))
    BY <2>6, <2>t
  <2>c. c = Len(Nmap!Batches(targets, size)) /\ DOMAIN Nmap!Batches(targets, size) = 1..c
    BY <2>8
  <2>q. q = Nmap!FlattenSeq([b \in 1..c |-> Nmap!BatchHosts(replies[b])])
    BY <2>11, <2>13
  <2>16. /\ result.hosts = hosts
         /\ result.available = ~(hosts = <<>> /\ {b \in 1..c : Nmap!RunError(replies[b]) # "none"} # {})
    <3>1. live = Nmap!LiveAddresses(discovery)
      BY <2>5
    <3>2. Scanned(result, q, targets, replies, c)
      BY <2>c, <2>m, <2>q, <2>r, <3>1, <1>k, RangeIs
    <3> QED BY <2>15, <3>2 DEF Scanned
  <2>17. {result.hosts[i].target : i \in DOMAIN result.hosts} = (replying \cap Nmap!ToSet(targets)) \ {"none"}
    BY <2>15, <2>16 DEF OnceEach
  <2>18. \A i, j \in DOMAIN result.hosts : i # j => result.hosts[i].target # result.hosts[j].target
    BY <2>15, <2>16 DEF OnceEach
  <2>19. result.available /\ result.hosts = <<>> => worked = 1..c
    BY <2>16, <2>w
  <2>20. RangeParts(result, Nmap!ToSet(targets), 1..c, worked, replying)
    BY <2>17, <2>18, <2>19 DEF RangeParts
  <2> QED BY <1>k, <2>5, <2>m, <2>c, <2>w, <2>a, <2>r, <2>20, RangeUnfolds
<1> QED BY <1>n, <1>k

\* A range scan reports each target that a batch that worked has seen, once, and no
\* other host (deepscan's scan_range); a failed check with a ceiling caps the score of
\* a URL, a worse one never raises it (compute_score), and the probe contacts public addresses only
\* (http_probe): for every reply of nmap and every URL.
THEOREM ProbesAreHonest == ServicesSpec => []ProbesHonest
<1>1. Given => ProbesHonest
  BY RangeStands, TrustStands DEF Given, ProbesHonest
<1> QED BY <1>1, InputsGiven, PTL
===============================================================================
