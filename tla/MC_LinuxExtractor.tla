-------------------------- MODULE MC_LinuxExtractor --------------------------
(***************************************************************************)
(* The Linux extractor on records of up to three products: two from the   *)
(* CNA container, one from an ADP container.  A product is read with the  *)
(* normal-range algorithm (default status "unaffected", with or without a *)
(* declared repository, yielding a range or nothing) or with the inverse  *)
(* logic (default status "affected"), whose result is one semver range or *)
(* nothing, as InverseRanges shows it can be.                             *)
(***************************************************************************)
EXTENDS Extractors

Stmt(status, v, lt) ==
    [status |-> status, versionType |-> "semver", version |-> v,
     lessThan |-> lt, lessThanOrEqual |-> ""]

MCProducts ==
    { [name |-> "withRepo", defaultStatus |-> "unaffected", repo |-> "linux.git",
       versions |-> <<Stmt("affected", "5.10", "5.11")>>],
      [name |-> "noRepo", defaultStatus |-> "unaffected", repo |-> "",
       versions |-> <<Stmt("affected", "6.1", "")>>],
      [name |-> "nothing", defaultStatus |-> "unaffected", repo |-> "",
       versions |-> <<Stmt("unaffected", "6.1", "")>>],
      [name |-> "inverse", defaultStatus |-> "affected", repo |-> "", versions |-> <<>>],
      [name |-> "inverseNone", defaultStatus |-> "affected", repo |-> "", versions |-> <<>>] }

MCCnaInputs == {<<>>} \cup {<<p>> : p \in MCProducts} \cup {<<p, q>> : p, q \in MCProducts}
MCAdpInputs == {<<>>} \cup {<<<<p>>>> : p \in MCProducts}

MCInverseOutcomes ==
    ("inverse" :> {<<<<buildVersionRange("5.10.0", "", "5.10.3")>>, "VersionRangeTypeSemver">>})
    @@ ("inverseNone" :> {<<<<>>, "VersionRangeTypeUnknown">>})

(* The Linux extractor reads no CPEs and resolves nothing itself.        *)
MCNoInput == {<<>>}

MCRepos == {"linux.git"}

MCTags == [r \in MCRepos |-> ("5.10" :> "a1") @@ ("5.11" :> "a2")]

MCParsedRange == [s \in {} |-> [introduced |-> "", fixed |-> "", lastAffected |-> ""]]

=============================================================================
