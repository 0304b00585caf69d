\* gitVersionsToCommits against its doc comment: the same commit range is
\* never added twice.
CONSTANTS
    RangeInputs <- MCRangeInputs
    RepoInputs <- MCRepoInputs
    Tags <- MCTags
    Repos <- MCRepos
SPECIFICATION Spec
INVARIANTS
    NoDuplicateCommitRanges
CHECK_DEADLOCK FALSE
