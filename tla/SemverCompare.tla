---------------------------- MODULE SemverCompare ----------------------------
(***************************************************************************)
(* compareSemverLike (common.go) checked against the comparison spec.md    *)
(* 4.2 describes, over every pair of versions of up to MaxParts parts      *)
(* drawn from Parts.  Stateless: a specification that sorts versions       *)
(* instantiates it and checks MatchesReference as an invariant.            *)
(***************************************************************************)
EXTENDS Integers, Sequences

CONSTANTS Parts, MaxParts, NonNumeric

INSTANCE VersionCommon WITH Empty <- <<NonNumeric>>, Zero <- <<0>>

Versions == UNION {[1..n -> Parts] : n \in 1..MaxParts}

(* The reference: pad the shorter version with zero parts and compare the  *)
(* parts' integer values left to right, the first difference deciding.     *)
Padded(v, n) == [j \in 1..n |-> IF j <= Len(v) THEN Atoi(v[j]) ELSE 0]

ReferenceCompare(x, y) ==
    LET n == IF Len(x) > Len(y) THEN Len(x) ELSE Len(y)
        px == Padded(x, n)
        py == Padded(y, n)
        diff == {j \in 1..n : px[j] # py[j]}
    IN IF diff = {} THEN 0
       ELSE LET j == CHOOSE d \in diff : \A e \in diff : d <= e
            IN Cmp(px[j], py[j])

(* compareSemverLike, the comparator findInverseAffectedRanges hands to   *)
(* slices.SortFunc, agrees with the reference on every pair of versions:  *)
(* an all-zero tail is equal, a non-zero extra part makes the longer      *)
(* version greater, non-numeric parts count as 0.                         *)
MatchesReference ==
    \A x, y \in Versions : compareSemverLike(x, y) = ReferenceCompare(x, y)

=============================================================================
