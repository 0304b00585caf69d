-------------------------- MODULE MC_CommitResolver --------------------------
(***************************************************************************)
(* gitVersionsToCommits for TLC: up to three ranges drawn from four       *)
(* shapes, up to three candidate repositories (repeats allowed), any        *)
(* prefilled cache.  Repository r1 tags 1.0 and 2.0, r2 tags 1.0 and 3.0, *)
(* so a range may resolve in one repository, in both, or in none.         *)
(***************************************************************************)
EXTENDS CommitResolver

VC == INSTANCE VersionCommon WITH Empty <- "", Zero <- "0"

MCRepos == {"r1", "r2"}

MCRangeShapes ==
    { VC!buildVersionRange("0", "", "2.0"),       \* introduced 0, fixed 2.0
      VC!buildVersionRange("1.0", "", "2.0"),
      VC!buildVersionRange("1.0", "3.0", ""),     \* last_affected 3.0
      VC!buildVersionRange("1.0", "", "") }       \* introduced only (git entry)

MCRangeInputs == UNION {[1..n -> MCRangeShapes] : n \in 0..3}

MCRepoInputs == UNION {[1..n -> MCRepos] : n \in 0..3}

MCTags == [r \in MCRepos |->
             IF r = "r1" THEN ("1.0" :> "c1") @@ ("2.0" :> "c2")
                         ELSE ("1.0" :> "d1") @@ ("3.0" :> "d3")]

=============================================================================
