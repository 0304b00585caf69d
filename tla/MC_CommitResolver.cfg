\* gitVersionsToCommits: conservation of ranges, refinement of the one-step
\* resolution promise.
CONSTANTS
    RangeInputs <- MCRangeInputs
    RepoInputs <- MCRepoInputs
    Tags <- MCTags
    Repos <- MCRepos
SPECIFICATION Spec
INVARIANTS
    TypeOK
    RangesConserved
PROPERTIES
    ImplementsCommitResolution
\* The function returns: its final state has no successor.
CHECK_DEADLOCK FALSE
