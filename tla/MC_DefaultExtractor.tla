------------------------- MODULE MC_DefaultExtractor -------------------------
(***************************************************************************)
(* The default extractor on records of up to two products (one from the   *)
(* CNA container, one from an ADP container), up to two candidate         *)
(* repositories in either order, and one of three CPE inputs: none, a     *)
(* bounded OR match beside an AND node, or an OR node whose second match  *)
(* has no upper bound.  r1 tags 1.0 and 2.0, r2 tags 1.1, 2.0 and 3.0, so *)
(* a product may resolve in r1, in r2, in both or in neither, and a CPE   *)
(* range [0, 2.0) in both.                                                *)
(***************************************************************************)
EXTENDS Extractors

Stmt(status, v, lt, lte) ==
    [status |-> status, versionType |-> "semver", version |-> v,
     lessThan |-> lt, lessThanOrEqual |-> lte]

Product(name, vs) == [name |-> name, defaultStatus |-> "unaffected", repo |-> "", versions |-> vs]

MCProducts ==
    { Product("fixed", <<Stmt("affected", "1.0", "2.0", "")>>),
      Product("lastAffected", <<Stmt("affected", "1.1", "", "3.0")>>),
      Product("split", <<Stmt("affected", "1.0", "", ""), Stmt("affected", "", "2.0", "")>>),
      Product("unaffected", <<Stmt("unaffected", "1.0", "", "")>>) }

MCCnaInputs == {<<>>} \cup {<<p>> : p \in MCProducts}
MCAdpInputs == {<<>>} \cup {<<<<p>>>> : p \in MCProducts}

MCCPEInputs ==
    { <<>>,
      <<[nodes |-> <<[operator |-> "OR",
                      cpeMatch |-> <<[vulnerable |-> TRUE, criteria |-> "cpe:2.3:a:v:p",
                                      start |-> "", endExcl |-> "2.0", endIncl |-> ""]>>],
                     [operator |-> "AND",
                      cpeMatch |-> <<[vulnerable |-> TRUE, criteria |-> "cpe:2.3:a:v:r",
                                      start |-> "", endExcl |-> "3.0", endIncl |-> ""]>>]>>]>>,
      <<[nodes |-> <<[operator |-> "OR",
                      cpeMatch |-> <<[vulnerable |-> TRUE, criteria |-> "cpe:2.3:a:v:p",
                                      start |-> "", endExcl |-> "2.0", endIncl |-> ""],
                                     [vulnerable |-> TRUE, criteria |-> "cpe:2.3:a:v:q",
                                      start |-> "1.0", endExcl |-> "", endIncl |-> ""]>>]>>]>> }

MCRepos == {"r1", "r2"}
MCRepoInputs == {<<>>, <<"r1">>, <<"r2">>, <<"r1", "r2">>, <<"r2", "r1">>}

MCTags == [r \in MCRepos |->
             IF r = "r1" THEN ("1.0" :> "c1") @@ ("2.0" :> "c2")
                         ELSE ("1.1" :> "d1") @@ ("2.0" :> "d2") @@ ("3.0" :> "d3")]

MCParsedRange == [s \in {} |-> [introduced |-> "", fixed |-> "", lastAffected |-> ""]]

MCInverseOutcomes == [n \in {} |-> {}]

=============================================================================
