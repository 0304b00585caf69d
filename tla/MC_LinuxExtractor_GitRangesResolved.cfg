\* OSV git ranges carry a repository and commits.
CONSTANTS
    CnaInputs <- MCCnaInputs
    AdpInputs <- MCAdpInputs
    CPEInputs <- MCNoInput
    RepoInputs <- MCNoInput
    CNAs = {"Linux"}
    InverseOutcomes <- MCInverseOutcomes
    LowQuality = {""}
    ParsedRange <- MCParsedRange
    Tags <- MCTags
    Repos <- MCRepos
SPECIFICATION Spec
INVARIANT
    GitRangesResolved
CHECK_DEADLOCK FALSE
