--------------------------- MODULE MC_InverseRanges ---------------------------
(***************************************************************************)
(* Linux CNA records as the Linux CNA writes them: the release a bug was   *)
(* introduced in ("X.Y", affected), "0" lessThan it (unaffected), one      *)
(* unaffected "X.Y.p" lessThanOrEqual "X.Y.*" per stable branch that got   *)
(* the fix, and the mainline fix "X.Y" lessThanOrEqual "*", typed          *)
(* original_commit_for_fix (as the Linux CNA does) or semver.  Releases    *)
(* 1.0, 1.1, 2.0, 2.1; stable patches 1..2.  One record of another CNA,   *)
(* one with a four-part introduced version, one whose fixes carry no      *)
(* wildcard hint.                                                          *)
(***************************************************************************)
EXTENDS InverseRanges

Releases == <<<<1, 0>>, <<1, 1>>, <<2, 0>>, <<2, 1>>>>

MCUniverse == {Releases[r] \o <<p>> : r \in 1..Len(Releases), p \in 0..2}

Stmt(status, vtype, version, lt, lte) ==
    [status |-> status, versionType |-> vtype, version |-> version,
     lessThan |-> lt, lessThanOrEqual |-> lte]

NoStr == <<EmptyPart>>

(* The k-th smallest element of a set of release indices.                  *)
KthOf(S, k) == CHOOSE s \in S : Cardinality({t \in S : t <= s}) = k

LinuxRecord(intro, mainline, stable, patch, mtype) ==
    [cna |-> "Linux",
     versions |->
        <<Stmt("affected", "", Releases[intro], NoStr, NoStr),
          Stmt("unaffected", "semver", <<0>>, Releases[intro], NoStr)>>
        \o [k \in 1..Cardinality(stable) |->
              LET b == Releases[KthOf(stable, k)]
              IN Stmt("unaffected", "semver", b \o <<patch>>, NoStr, b \o <<Star>>)]
        \o <<Stmt("unaffected", mtype, Releases[mainline], NoStr, <<Star>>)>>]

(* The introduction precedes the mainline fix; the stable branches that    *)
(* got the fix lie from the introducing release up to the one before the  *)
(* mainline fix.                                                           *)
MCRecords ==
    {LinuxRecord(in, ml, st, p, t) :
        <<in, ml, st, p, t>> \in
          {x \in (1..Len(Releases)) \X (1..Len(Releases)) \X (SUBSET (1..Len(Releases)))
                 \X (1..2) \X {"original_commit_for_fix", "semver"} :
             x[1] < x[2] /\ \A s \in x[3] : x[1] <= s /\ s < x[2]}}
    \cup {[cna |-> "Example", versions |-> <<>>],
          \* an introduced version the code rejects as non-semver
          [cna |-> "Linux",
           versions |-> <<Stmt("affected", "", <<1, 0, 0, 1>>, NoStr, NoStr),
                          Stmt("unaffected", "semver", <<1, 0, 2>>, NoStr, <<1, 0, Star>>)>>],
          \* fixes without a wildcard hint: more fixes than introductions
          [cna |-> "Linux",
           versions |-> <<Stmt("affected", "", <<1, 0>>, NoStr, NoStr),
                          Stmt("unaffected", "semver", <<1, 0, 2>>, NoStr, NoStr),
                          Stmt("unaffected", "semver", <<1, 1, 1>>, NoStr, NoStr)>>]}

(* The comparator of the sort, over versions of up to three parts drawn    *)
(* from 0, 1, 2 and a non-numeric part SX.                                 *)
CONSTANT SX

SC == INSTANCE SemverCompare WITH Parts <- {0, 1, 2, SX}, MaxParts <- 3, NonNumeric <- SX

(* compareSemverLike, by which findInverseAffectedRanges sorts the         *)
(* introduced and fixed versions it pairs, orders every pair of versions   *)
(* as the reference comparison does (zero tails equal, non-numeric as 0). *)
ComparatorMatchesReference == SC!MatchesReference

=============================================================================
