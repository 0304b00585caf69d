--------------------------- MODULE CommitResolution ---------------------------
(***************************************************************************)
(* What gitVersionsToCommits promises (spec.md 4.7), in one step: given    *)
(* the version ranges and the candidate repositories, and whichever        *)
(* repositories' tags could be normalised, every range is rebuilt as a git *)
(* range against the FIRST repository (in list order) whose tags resolve   *)
(* both its bounds, or is reported unresolved; resolved ranges come out    *)
(* grouped by that repository, in input order within a group; the call    *)
(* fails iff some range was given and none was resolved.                   *)
(***************************************************************************)
EXTENDS Integers, Sequences, SequencesExt

CONSTANTS
    RangeInputs,   \* the sets the inputs are drawn from
    RepoInputs,
    Tags           \* repo -> (version -> commit), the normalised tags

INSTANCE VersionCommon WITH Empty <- "", Zero <- "0"

VARIABLES ranges, repos,
          out    \* <<>> until the call returns, then <<its result>>

(* git.VersionToCommit, with "" for a version the tags do not know; the   *)
(* introduced marker "0" stands for itself.                                *)
Commit(v, repo) == IF v \in DOMAIN Tags[repo] THEN Tags[repo][v] ELSE ""

IntroCommit(r, repo) ==
    LET v == EventValue(r, "introduced") IN
    IF v = "0" THEN "0" ELSE IF v = "" THEN "" ELSE Commit(v, repo)

TerminalCommit(r, kind, repo) ==
    IF EventValue(r, kind) = "" THEN "" ELSE Commit(EventValue(r, kind), repo)

Resolvable(r, repo) ==
    /\ IntroCommit(r, repo) # ""
    /\ TerminalCommit(r, "fixed", repo) # "" \/ TerminalCommit(r, "last_affected", repo) # ""

(* Fault-injection variant: the rebuilt range is not typed GIT.            *)
RebuiltUntyped(r, repo) ==
    LET base == IF TerminalCommit(r, "fixed", repo) # ""
                THEN buildVersionRange(IntroCommit(r, repo), "", TerminalCommit(r, "fixed", repo))
                ELSE buildVersionRange(IntroCommit(r, repo), TerminalCommit(r, "last_affected", repo), "")
    IN [base EXCEPT !.repo = repo, !.versions = r.events]

(* The git range built from r against repo, keeping r's events.            *)
Rebuilt(r, repo) ==
    LET base == IF TerminalCommit(r, "fixed", repo) # ""
                THEN buildVersionRange(IntroCommit(r, repo), "", TerminalCommit(r, "fixed", repo))
                ELSE buildVersionRange(IntroCommit(r, repo), TerminalCommit(r, "last_affected", repo), "")
    IN [base EXCEPT !.type = "GIT", !.repo = repo, !.versions = r.events]

(* ok[k]: the tags of repos[k] were normalised when the loop reached it.   *)
FirstRepo(r, ok) ==
    LET ks == {k \in 1..Len(repos) : ok[k] /\ Resolvable(r, repos[k])}
    IN IF ks = {} THEN 0 ELSE CHOOSE k \in ks : \A m \in ks : k <= m

Expected(ok) ==
    LET group(k) == SelectSeq(ranges, LAMBDA r : FirstRepo(r, ok) = k)
        resolved == FlattenSeq([k \in 1..Len(repos) |->
                        [m \in 1..Len(group(k)) |-> Rebuilt(group(k)[m], repos[k])]])
        unresolved == SelectSeq(ranges, LAMBDA r : FirstRepo(r, ok) = 0)
    IN [ranges |-> resolved,
        unresolved |-> unresolved,
        err |-> resolved = <<>> /\ unresolved # <<>>]

Init ==
    /\ ranges \in RangeInputs
    /\ repos \in RepoInputs
    /\ out = <<>>

Resolve ==
    /\ out = <<>>
    /\ \E ok \in [1..Len(repos) -> BOOLEAN] : out' = <<Expected(ok)>>
    /\ UNCHANGED <<ranges, repos>>

Spec == Init /\ [][Resolve]_<<ranges, repos, out>> /\ WF_<<ranges, repos, out>>(Resolve)

=============================================================================
