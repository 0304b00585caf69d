--------------------------- MODULE MC_NormalRanges ---------------------------
(***************************************************************************)
(* Model of FindNormalAffectedRanges for TLC.  A product carries up to     *)
(* three version statements.  The affected ones range over: an empty      *)
(* string and a filler ("n/a") that fail the quality gate, two plain      *)
(* versions (so the introduced pool can hold two values), an embedded     *)
(* range with both bounds, one without an introduced bound and one with   *)
(* only an introduced bound; semver or git typed; with or without a       *)
(* lessThan and a lessThanOrEqual.  One unaffected statement shape is     *)
(* enough to exercise the status filter.                                  *)
(***************************************************************************)
EXTENDS NormalRanges

MCVersions == {"", "n/a", "1.0", "1.1", ">= 1.0, < 2.0", "< 2.0", ">= 1.1"}

MCEntries ==
    [status : {"affected"}, versionType : {"semver", "git"},
     version : MCVersions, lessThan : {"", "2.0"}, lessThanOrEqual : {"", "1.5"}]
    \cup {[status |-> "unaffected", versionType |-> "semver", version |-> "3.0",
           lessThan |-> "", lessThanOrEqual |-> ""]}

MCLowQuality == {"", "n/a"}

MCParsedRange ==
    (">= 1.0, < 2.0" :> [introduced |-> "1.0", fixed |-> "2.0", lastAffected |-> ""])
    @@ ("< 2.0" :> [introduced |-> "", fixed |-> "2.0", lastAffected |-> ""])
    @@ (">= 1.1" :> [introduced |-> "1.1", fixed |-> "", lastAffected |-> ""])

=============================================================================
