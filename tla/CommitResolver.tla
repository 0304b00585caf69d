---------------------------- MODULE CommitResolver ----------------------------
(***************************************************************************)
(* gitVersionsToCommits (version_extraction.go): the loop over candidate   *)
(* repositories, each normalised once through the advisory's tag cache,    *)
(* and for each repository the loop over the still-unresolved ranges.  A   *)
(* range's events are looked up as one step (the event loop has no effect  *)
(* but local variables and notes).                                         *)
(*                                                                         *)
(* git.NormalizeRepoTags and its cache are outside src/ and modelled from  *)
(* spec.md: a repository already in the cache normalises; any other one    *)
(* may fail (network, filesystem) or succeed and enter the cache.          *)
(* git.VersionToCommit is the lookup Commit of CommitResolution.  Notes    *)
(* and log lines are left out.                                             *)
(***************************************************************************)
EXTENDS Integers, Sequences, SequencesExt

CONSTANTS RangeInputs, RepoInputs, Tags, Repos

VARIABLES
    ranges,            \* versionRanges argument
    repos,             \* repos argument
    cache,             \* repositories whose normalised tags are cached
    pc,                \* "repo", "range", "finish", "done"
    ri,                \* index into repos
    unresolved,        \* unresolvedRanges
    still,             \* stillUnresolvedRanges for the current repository
    k,                 \* index into unresolved for the current repository
    newVersionRanges,
    aff                \* <<the returned Affected and error>> once the call returns

vars == <<ranges, repos, cache, pc, ri, unresolved, still, k, newVersionRanges, aff>>

R == INSTANCE CommitResolution WITH out <- <<>>

Init ==
    /\ ranges \in RangeInputs
    /\ repos \in RepoInputs
    /\ cache \in SUBSET Repos     \* filled by earlier calls for the same advisory
    /\ pc = "repo"
    /\ ri = 1
    /\ unresolved = ranges
    /\ still = <<>>
    /\ k = 1
    /\ newVersionRanges = <<>>
    /\ aff = <<>>

(* for _, repo := range repos { if len(unresolvedRanges) == 0 { break }   *)
AllResolved ==
    /\ pc = "repo"
    /\ ri <= Len(repos) /\ unresolved = <<>>
    /\ pc' = "finish"
    /\ UNCHANGED <<ranges, repos, cache, ri, unresolved, still, k, newVersionRanges, aff>>

ReposExhausted ==
    /\ pc = "repo"
    /\ ri > Len(repos)
    /\ pc' = "finish"
    /\ UNCHANGED <<ranges, repos, cache, ri, unresolved, still, k, newVersionRanges, aff>>

(* NormalizeRepoTags fails: note it and `continue` with the next repo.     *)
NormalizeFails ==
    /\ pc = "repo"
    /\ ri <= Len(repos) /\ unresolved # <<>>
    /\ repos[ri] \notin cache
    /\ ri' = ri + 1
    /\ UNCHANGED <<ranges, repos, cache, pc, unresolved, still, k, newVersionRanges, aff>>

(* NormalizeRepoTags succeeds (from the cache or freshly, then cached).    *)
Normalized ==
    /\ pc = "repo"
    /\ ri <= Len(repos) /\ unresolved # <<>>
    /\ cache' = cache \cup {repos[ri]}
    /\ pc' = "range"
    /\ still' = <<>>
    /\ k' = 1
    /\ UNCHANGED <<ranges, repos, ri, unresolved, newVersionRanges, aff>>

Repo == repos[ri]
VR == unresolved[k]

(* Both an introduced and a fixed-or-last-affected commit were found:     *)
(* the rebuilt git range is appended to newVersionRanges.                  *)
RangeResolved ==
    /\ pc = "range"
    /\ k <= Len(unresolved)
    /\ R!Resolvable(VR, Repo)
    /\ newVersionRanges' = Append(newVersionRanges, R!Rebuilt(VR, Repo))
    /\ k' = k + 1
    /\ UNCHANGED <<ranges, repos, cache, pc, ri, unresolved, still, aff>>

RangeUnresolved ==
    /\ pc = "range"
    /\ k <= Len(unresolved)
    /\ ~R!Resolvable(VR, Repo)
    /\ still' = Append(still, VR)
    /\ k' = k + 1
    /\ UNCHANGED <<ranges, repos, cache, pc, ri, unresolved, newVersionRanges, aff>>

(* Fault-injection variant: the working list is not replaced by the       *)
(* still-unresolved ranges.                                               *)
RepoDoneKeepsAll ==
    /\ pc = "range"
    /\ k > Len(unresolved)
    /\ ri' = ri + 1
    /\ pc' = "repo"
    /\ UNCHANGED <<ranges, repos, cache, unresolved, still, k, newVersionRanges, aff>>

(* unresolvedRanges = stillUnresolvedRanges, next repository.              *)
RepoDone ==
    /\ pc = "range"
    /\ k > Len(unresolved)
    /\ unresolved' = still
    /\ ri' = ri + 1
    /\ pc' = "repo"
    /\ UNCHANGED <<ranges, repos, cache, still, k, newVersionRanges, aff>>

(* Fault-injection variant: partial resolution is reported as an error.   *)
FinishErrOnAnyUnresolved ==
    /\ pc = "finish"
    /\ aff' = <<[ranges |-> newVersionRanges,
                 unresolved |-> unresolved,
                 err |-> unresolved # <<>>]>>
    /\ pc' = "done"
    /\ UNCHANGED <<ranges, repos, cache, ri, unresolved, still, k, newVersionRanges>>

(* The unresolved ranges go to DatabaseSpecific["unresolved_versions"];   *)
(* an error only if nothing was resolved and something was left.          *)
Finish ==
    /\ pc = "finish"
    /\ aff' = <<[ranges |-> newVersionRanges,
                 unresolved |-> unresolved,
                 err |-> newVersionRanges = <<>> /\ unresolved # <<>>]>>
    /\ pc' = "done"
    /\ UNCHANGED <<ranges, repos, cache, ri, unresolved, still, k, newVersionRanges>>

Next ==
    \/ AllResolved
    \/ ReposExhausted
    \/ NormalizeFails
    \/ Normalized
    \/ RangeResolved
    \/ RangeUnresolved
    \/ RepoDone
    \/ Finish

(* Single-threaded and never blocked, except on the tag fetch, which       *)
(* returns (successfully or not): weak fairness on every step.             *)
Spec == Init /\ [][Next]_vars /\ WF_vars(Next)

-----------------------------------------------------------------------------
Ranges == UNION {{s[m] : m \in DOMAIN s} : s \in RangeInputs}

TypeOK ==
    /\ ranges \in RangeInputs
    /\ repos \in RepoInputs
    /\ cache \subseteq Repos
    /\ pc \in {"repo", "range", "finish", "done"}
    /\ ri \in 1..(Len(repos) + 1)
    /\ \A m \in 1..Len(unresolved) : unresolved[m] \in Ranges
    /\ \A m \in 1..Len(still) : still[m] \in Ranges
    /\ k \in 1..(Len(ranges) + 1)
    /\ \A m \in 1..Len(newVersionRanges) :
          newVersionRanges[m].type = "GIT" /\ newVersionRanges[m].repo \in Repos
    /\ aff = <<>> \/ (Len(aff) = 1 /\ DOMAIN aff[1] = {"ranges", "unresolved", "err"})

(* The original events each resolved range keeps.                          *)
Origins(s) == [m \in 1..Len(s) |-> [events |-> s[m].versions, type |-> "",
                                      repo |-> "", versions |-> <<>>]]

(* No range is lost or duplicated while the working lists are rebuilt:    *)
(* at every step the input ranges are, as a multiset, exactly the ones    *)
(* already resolved, the ones carried over to the next repository, and    *)
(* the ones not yet looked at in this repository.                         *)
RangesConserved ==
    ToBag(ranges) =
      ToBag(Origins(newVersionRanges)) (+)
      (IF pc = "range"
       THEN ToBag(still) (+) ToBag(SubSeq(unresolved, k, Len(unresolved)))
       ELSE ToBag(unresolved))

(* The doc comment of gitVersionsToCommits: it "refuses to add the same   *)
(* commit to AffectedCommits more than once": no two resolved ranges carry *)
(* the same commits of the same repository.                               *)
NoDuplicateCommitRanges ==
    \A i, j \in 1..Len(newVersionRanges) :
        i < j => <<newVersionRanges[i].repo, newVersionRanges[i].events>>
                   # <<newVersionRanges[j].repo, newVersionRanges[j].events>>

(* gitVersionsToCommits implements its one-step promise: first            *)
(* resolving repository wins, grouping and order of the output, the       *)
(* unresolved list and the error rule.                                    *)
Abstract == INSTANCE CommitResolution
               WITH out <- aff

ImplementsCommitResolution == Abstract!Spec

=============================================================================
