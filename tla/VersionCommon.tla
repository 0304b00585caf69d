---------------------------- MODULE VersionCommon ----------------------------
(***************************************************************************)
(* Shared data model and pure helpers of cmd/cvelist2osv/common.go.        *)
(*                                                                         *)
(* A version string is abstract.  Empty stands for the Go empty string ""  *)
(* and Zero for the literal "0" that buildVersionRange substitutes for a   *)
(* missing introduced version.  Modules whose versions are opaque          *)
(* instantiate Empty <- "" and Zero <- "0"; the inverse-range module, which*)
(* needs the dot-separated parts, represents a version by the sequence     *)
(* strings.Split(v, ".") returns (so "" is <<"">> and "0" is <<0>>).       *)
(***************************************************************************)
EXTENDS Integers, Sequences, FiniteSets

LOCAL INSTANCE SequencesExt

CONSTANTS Empty, Zero

(* An osvschema.Event carries exactly one of introduced, fixed and         *)
(* last_affected; we record which one and its value.                       *)
EventKinds == {"introduced", "fixed", "last_affected"}

Event(kind, value) == [kind |-> kind, value |-> value]

(* osvschema.Range: the events, and the Type, Repo and                     *)
(* DatabaseSpecific["versions"] fields, "" / <<>> when left unset.         *)
RangeOf(events) == [events |-> events, type |-> "", repo |-> "", versions |-> <<>>]

(* buildVersionRange: introduced defaults to "0"; fixed wins over          *)
(* last_affected; with neither, the range has only an introduced event.    *)
buildVersionRange(intro, lastAff, fixed) ==
    LET i == IF intro = Empty THEN Zero ELSE intro
        terminal == IF fixed # Empty THEN <<Event("fixed", fixed)>>
                    ELSE IF lastAff # Empty THEN <<Event("last_affected", lastAff)>>
                    ELSE <<>>
    IN RangeOf(<<Event("introduced", i)>> \o terminal)

(* The value of the range's event of the given kind, Empty if none.        *)
EventValue(r, kind) ==
    IF \E k \in 1..Len(r.events) : r.events[k].kind = kind
    THEN r.events[CHOOSE k \in 1..Len(r.events) : r.events[k].kind = kind].value
    ELSE Empty

(* The version strings a range mentions.                                   *)
Boundaries(r) == {r.events[k].value : k \in 1..Len(r.events)}

(* toVersionRangeType: "git" and "semver" (case-insensitive) are           *)
(* recognised, every other versionType is an ecosystem range.              *)
toVersionRangeType(s) ==
    CASE s = "git"    -> "VersionRangeTypeGit"
      [] s = "semver" -> "VersionRangeTypeSemver"
      [] OTHER        -> "VersionRangeTypeEcosystem"

(* combineAffected: the CNA container's affected products followed by     *)
(* every ADP container's, concatenated without de-duplication.             *)
combineAffected(cnaAffected, adpAffected) ==
    cnaAffected \o FlattenSeq(adpAffected)

(***************************************************************************)
(* compareSemverLike, on versions given as their dot-separated parts.  A   *)
(* part is an integer (Atoi accepts a sign) or a non-numeric token;        *)
(* strconv.Atoi of a non-numeric token fails and the code uses the 0 it    *)
(* returns.                                                                *)
(***************************************************************************)
Atoi(p) == IF p \in Int THEN p ELSE 0

Cmp(x, y) == IF x < y THEN -1 ELSE IF x > y THEN 1 ELSE 0

(* Fault-injection variants of compareSemverLike, each a plausible slip   *)
(* in the code: the extra parts decide the order even when all are zero,  *)
(* and the longer version always wins.                                    *)
compareSemverLikeAnyTail(a, b) ==
    LET minLen == IF Len(a) < Len(b) THEN Len(a) ELSE Len(b)
        diff   == {i \in 1..minLen : Atoi(a[i]) # Atoi(b[i])}
    IN  IF diff # {}
        THEN LET i == Min(diff) IN Cmp(Atoi(a[i]), Atoi(b[i]))
        ELSE IF Len(a) = Len(b) THEN 0
        ELSE IF Len(a) > Len(b) THEN 1 ELSE -1

compareSemverLikeLongerGreater(a, b) ==
    LET minLen == IF Len(a) < Len(b) THEN Len(a) ELSE Len(b)
        diff   == {i \in 1..minLen : Atoi(a[i]) # Atoi(b[i])}
        longer == IF Len(a) > Len(b) THEN a ELSE b
    IN  IF diff # {}
        THEN LET i == Min(diff) IN Cmp(Atoi(a[i]), Atoi(b[i]))
        ELSE IF Len(a) = Len(b) THEN 0
        ELSE IF \E i \in (minLen + 1)..Len(longer) : Atoi(longer[i]) # 0
             THEN 1
             ELSE 0

compareSemverLike(a, b) ==
    LET minLen == IF Len(a) < Len(b) THEN Len(a) ELSE Len(b)
        diff   == {i \in 1..minLen : Atoi(a[i]) # Atoi(b[i])}
        longer == IF Len(a) > Len(b) THEN a ELSE b
        result == IF Len(a) > Len(b) THEN 1 ELSE -1
    IN  IF diff # {}
        THEN LET i == Min(diff) IN Cmp(Atoi(a[i]), Atoi(b[i]))
        ELSE IF Len(a) = Len(b) THEN 0
        ELSE IF \E i \in (minLen + 1)..Len(longer) : Atoi(longer[i]) # 0
             THEN result
             ELSE 0

(* The sort used with slices.SortFunc(xs, compareSemverLike): the sorted   *)
(* permutations of xs.  slices.SortFunc is not stable, so when two         *)
(* distinct strings compare equal ("5.10" and "5.10.0") every order of     *)
(* them is a possible outcome.                                             *)
SortedPermutations(xs) ==
    { p \in {[k \in 1..Len(xs) |-> xs[f[k]]] : f \in Bijection(1..Len(xs), 1..Len(xs))} :
        \A k \in 1..(Len(xs) - 1) : compareSemverLike(p[k], p[k + 1]) <= 0 }

=============================================================================
