------------------------------ MODULE CPERanges ------------------------------
(***************************************************************************)
(* findCPEVersionRanges (common.go): the ranges and CPE strings of the     *)
(* CNA's CPE applicability statements.  Only nodes combined with "OR" are  *)
(* read; every vulnerable match contributes its criteria string, and a     *)
(* range when it has an upper bound (exclusive preferred).  The module    *)
(* has no state: Extractors instantiates it on the record's statements.   *)
(*                                                                         *)
(* A statement is [nodes : Seq(node)], a node [operator, cpeMatch :        *)
(* Seq(match)], a match [vulnerable, criteria, start, endExcl, endIncl]    *)
(* (VersionStartIncluding, VersionEndExcluding, VersionEndIncluding).      *)
(***************************************************************************)
EXTENDS Integers, Sequences, SequencesExt

INSTANCE VersionCommon WITH Empty <- "", Zero <- "0"

(* The vulnerable matches of the OR nodes, in statement, node and match    *)
(* order: the ones whose criteria are recorded.                            *)
OrMatches(as) ==
    FlattenSeq([a \in 1..Len(as) |->
        FlattenSeq([n \in 1..Len(as[a].nodes) |->
            IF as[a].nodes[n].operator = "OR"
            THEN SelectSeq(as[a].nodes[n].cpeMatch, LAMBDA m : m.vulnerable)
            ELSE <<>>])])

HasUpperBound(m) == m.endExcl # "" \/ m.endIncl # ""

(* The start defaults to "0"; fixed (exclusive end) wins over              *)
(* last_affected (inclusive end).                                          *)
MatchRange(m) ==
    LET start == IF m.start = "" THEN "0" ELSE m.start IN
    IF m.endExcl # "" THEN buildVersionRange(start, "", m.endExcl)
                      ELSE buildVersionRange(start, m.endIncl, "")

(* The function's three results; nil ranges and nil CPEs with the error    *)
(* "no versions extracted from CPEs" when no match gave a range.           *)
findCPEVersionRanges(as) ==
    LET ms == OrMatches(as)
        bounded == SelectSeq(ms, HasUpperBound)
    IN IF bounded = <<>>
       THEN [ranges |-> <<>>, cpes |-> <<>>, err |-> TRUE]
       ELSE [ranges |-> [j \in 1..Len(bounded) |-> MatchRange(bounded[j])],
             cpes   |-> [j \in 1..Len(ms) |-> ms[j].criteria],
             err    |-> FALSE]

=============================================================================
