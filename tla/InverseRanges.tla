---------------------------- MODULE InverseRanges ----------------------------
(***************************************************************************)
(* findInverseAffectedRanges (version_extraction.go): for a product whose  *)
(* default status is "affected", introduced versions come from "affected"  *)
(* statements and from the wildcard hint of each "unaffected" semver       *)
(* statement, fixed versions from the "unaffected" semver statements; both *)
(* lists are sorted with compareSemverLike, an implicit "0" is prepended   *)
(* when the first fix precedes the first introduction, and the lists are   *)
(* paired by position.                                                     *)
(*                                                                         *)
(* A version string is the sequence strings.Split(v, ".") returns: numeric *)
(* parts are naturals, Star is the part "*", EmptyPart the empty string.   *)
(* fmt.Sprintf("%s.%d.0", ...) and v + ".0" build the sequence of the      *)
(* string they format.                                                     *)
(***************************************************************************)
EXTENDS Integers, Sequences, SequencesExt

CONSTANTS
    Records,       \* the (assigner, product versions) inputs considered
    Star,          \* the part "*"
    EmptyPart,     \* the part of strings.Split("", ".")
    Universe       \* the released versions the properties quantify over

(* The empty string "" as strings.Split sees it.                            *)
NoVersion == <<EmptyPart>>

INSTANCE VersionCommon WITH Empty <- NoVersion, Zero <- <<0>>

VARIABLES
    cna,           \* cve.Metadata.AssignerShortName
    versions,      \* cveAff.Versions
    pc,            \* "check", "scan", "sort", "prepend", "pair", "done"
    i,             \* index into versions, then into fixed while pairing
    introduced,
    fixed,
    ranges,
    versType       \* the VersionRangeType returned

vars == <<cna, versions, pc, i, introduced, fixed, ranges, versType>>

Init ==
    /\ \E rec \in Records : cna = rec.cna /\ versions = rec.versions
    /\ pc = "check"
    /\ i = 1
    /\ introduced = <<>>
    /\ fixed = <<>>
    /\ ranges = <<>>
    /\ versType = "VersionRangeTypeUnknown"

(* Only the Linux CNA's inverse logic is supported.                       *)
NotLinux ==
    /\ pc = "check"
    /\ cna # "Linux"
    /\ pc' = "done"
    /\ UNCHANGED <<cna, versions, i, introduced, fixed, ranges, versType>>

IsLinux ==
    /\ pc = "check"
    /\ cna = "Linux"
    /\ pc' = "scan"
    /\ UNCHANGED <<cna, versions, i, introduced, fixed, ranges, versType>>

Scanning == pc = "scan" /\ i <= Len(versions)
V == versions[i]

(* Fault-injection variant: "X.Y" is not padded to "X.Y.0".                *)
AffectedIntroducedUnpadded ==
    /\ Scanning
    /\ V.status = "affected"
    /\ Len(V.version) \in {2, 3}
    /\ introduced' = Append(introduced, V.version)
    /\ i' = i + 1
    /\ UNCHANGED <<cna, versions, pc, fixed, ranges, versType>>

(* "affected": "X.Y" becomes "X.Y.0", "X.Y.Z" is kept.                     *)
AffectedIntroduced ==
    /\ Scanning
    /\ V.status = "affected"
    /\ Len(V.version) \in {2, 3}
    /\ introduced' = Append(introduced,
                       IF Len(V.version) = 2 THEN Append(V.version, 0) ELSE V.version)
    /\ i' = i + 1
    /\ UNCHANGED <<cna, versions, pc, fixed, ranges, versType>>

(* "Bad non-semver version given": noted and skipped.                      *)
AffectedMalformed ==
    /\ Scanning
    /\ V.status = "affected"
    /\ Len(V.version) \notin {2, 3}
    /\ i' = i + 1
    /\ UNCHANGED <<cna, versions, pc, introduced, fixed, ranges, versType>>

(* Any other status, or an unaffected "0" or non-semver marker.            *)
NotAFix ==
    /\ Scanning
    /\ V.status # "affected"
    /\ \/ V.status # "unaffected"
       \/ V.version = <<0>>
       \/ toVersionRangeType(V.versionType) # "VersionRangeTypeSemver"
    /\ i' = i + 1
    /\ UNCHANGED <<cna, versions, pc, introduced, fixed, ranges, versType>>

IsFix(v) ==
    /\ v.status = "unaffected"
    /\ v.version # <<0>>
    /\ toVersionRangeType(v.versionType) = "VersionRangeTypeSemver"

(* strings.Split(lessThanOrEqual, ".*")[0], split again on ".".            *)
MinorParts(h) ==
    LET js == {j \in 2..Len(h) : h[j] = Star}
        first == CHOOSE j \in js : \A m \in js : j <= m
    IN IF js = {} THEN h ELSE SubSeq(h, 1, first - 1)

(* The next introduced version parts[0].(last+1).0, when there are two or  *)
(* more parts and the last one is numeric.                                 *)
HasNext(h) == Len(MinorParts(h)) > 1 /\ MinorParts(h)[Len(MinorParts(h))] \in Nat
NextIntroduced(h) ==
    <<MinorParts(h)[1], MinorParts(h)[Len(MinorParts(h))] + 1, 0>>

UnaffectedFixWithNext ==
    /\ Scanning
    /\ IsFix(V)
    /\ HasNext(V.lessThanOrEqual)
    /\ fixed' = Append(fixed, V.version)
    /\ introduced' = Append(introduced, NextIntroduced(V.lessThanOrEqual))
    /\ i' = i + 1
    /\ UNCHANGED <<cna, versions, pc, ranges, versType>>

UnaffectedFixOnly ==
    /\ Scanning
    /\ IsFix(V)
    /\ ~HasNext(V.lessThanOrEqual)
    /\ fixed' = Append(fixed, V.version)
    /\ i' = i + 1
    /\ UNCHANGED <<cna, versions, pc, introduced, ranges, versType>>

EndScan ==
    /\ pc = "scan"
    /\ i > Len(versions)
    /\ pc' = "sort"
    /\ UNCHANGED <<cna, versions, i, introduced, fixed, ranges, versType>>

(* slices.SortFunc on both lists; equal-comparing strings in any order.   *)
Sort ==
    /\ pc = "sort"
    /\ introduced' \in SortedPermutations(introduced)
    /\ fixed' \in SortedPermutations(fixed)
    /\ pc' = "prepend"
    /\ UNCHANGED <<cna, versions, i, ranges, versType>>

(* Fault-injection variant: "0" is prepended without the comparison.       *)
FixBeforeIntroductionUnchecked == fixed # <<>> /\ introduced # <<>>

FixBeforeIntroduction ==
    fixed # <<>> /\ introduced # <<>> /\ compareSemverLike(fixed[1], introduced[1]) < 0

PrependZero ==
    /\ pc = "prepend"
    /\ FixBeforeIntroduction
    /\ introduced' = <<<<0>>>> \o introduced
    /\ pc' = "pair"
    /\ i' = 1
    /\ UNCHANGED <<cna, versions, fixed, ranges, versType>>

NoPrepend ==
    /\ pc = "prepend"
    /\ ~FixBeforeIntroduction
    /\ pc' = "pair"
    /\ i' = 1
    /\ UNCHANGED <<cna, versions, introduced, fixed, ranges, versType>>

(* for index, f := range fixed { if index < len(introduced) { ... } }      *)
PairAt ==
    /\ pc = "pair"
    /\ i <= Len(fixed) /\ i <= Len(introduced)
    /\ ranges' = Append(ranges, buildVersionRange(introduced[i], NoVersion, fixed[i]))
    /\ i' = i + 1
    /\ UNCHANGED <<cna, versions, pc, introduced, fixed, versType>>

NoPartner ==
    /\ pc = "pair"
    /\ i <= Len(fixed) /\ i > Len(introduced)
    /\ i' = i + 1
    /\ UNCHANGED <<cna, versions, pc, introduced, fixed, ranges, versType>>

ReturnRanges ==
    /\ pc = "pair"
    /\ i > Len(fixed)
    /\ ranges # <<>>
    /\ versType' = "VersionRangeTypeSemver"
    /\ pc' = "done"
    /\ UNCHANGED <<cna, versions, i, introduced, fixed, ranges>>

(* "no ranges found": nil, Unknown.                                        *)
ReturnNone ==
    /\ pc = "pair"
    /\ i > Len(fixed)
    /\ ranges = <<>>
    /\ pc' = "done"
    /\ UNCHANGED <<cna, versions, i, introduced, fixed, ranges, versType>>

Next ==
    \/ NotLinux \/ IsLinux
    \/ AffectedIntroduced \/ AffectedMalformed \/ NotAFix
    \/ UnaffectedFixWithNext \/ UnaffectedFixOnly \/ EndScan
    \/ Sort \/ PrependZero \/ NoPrepend
    \/ PairAt \/ NoPartner \/ ReturnRanges \/ ReturnNone

(* One goroutine, no blocking call: every enabled step is taken.           *)
Spec == Init /\ [][Next]_vars /\ WF_vars(Next)

Done == pc = "done"

-----------------------------------------------------------------------------
(***************************************************************************)
(* What the record says.  With default status "affected", a version is     *)
(* affected unless an "unaffected" statement covers it: [version,          *)
(* lessThan), [version, X.Y.*] for a wildcard "X.Y.*" (the rest of the     *)
(* X.Y branch), [version, ...) for "*", or the version alone.              *)
(***************************************************************************)
Below(a, b)   == compareSemverLike(a, b) < 0
AtMost(a, b)  == compareSemverLike(a, b) <= 0

Covers(u, v) ==
    /\ AtMost(u.version, v)
    /\ IF u.lessThan # NoVersion THEN Below(v, u.lessThan)
       ELSE IF u.lessThanOrEqual = <<Star>> THEN TRUE
       ELSE IF u.lessThanOrEqual # NoVersion
            THEN LET p == MinorParts(u.lessThanOrEqual)
                 IN SubSeq(v, 1, Len(p)) = p
            ELSE v = u.version

DeclaredAffected(v) ==
    ~\E m \in 1..Len(versions) : versions[m].status = "unaffected" /\ Covers(versions[m], v)

InRange(r, v) ==
    AtMost(EventValue(r, "introduced"), v) /\ Below(v, EventValue(r, "fixed"))

TypeOK ==
    /\ pc \in {"check", "scan", "sort", "prepend", "pair", "done"}
    /\ i \in 1..(Len(versions) + 1)
    /\ \A m \in 1..Len(introduced) : Len(introduced[m]) \in {1, 3}
    /\ \A m \in 1..Len(ranges) :
          DOMAIN ranges[m].events = 1..2 /\ ranges[m].events[2].kind = "fixed"
    /\ versType \in {"VersionRangeTypeUnknown", "VersionRangeTypeSemver"}

(* No false positive: once the function returns, no released version that *)
(* the record declares unaffected (a stable fix or later in its branch,   *)
(* the mainline fix or later, or anything before the introduction) lies   *)
(* in a returned range, whatever the order the unstable sort leaves equal *)
(* versions in and however the positional pairing lines the lists up.     *)
NoFalsePositive ==
    Done =>
      \A m \in 1..Len(ranges) : \A v \in Universe :
        InRange(ranges[m], v) => DeclaredAffected(v)

(* The function comment: it "calculates the affected version ranges" of a *)
(* Linux record from its unaffected statements, so every released version *)
(* the record declares affected lies in some returned range.              *)
AffectedCovered ==
    (Done /\ cna = "Linux") =>
      \A v \in Universe :
        DeclaredAffected(v) => \E m \in 1..Len(ranges) : InRange(ranges[m], v)

=============================================================================
