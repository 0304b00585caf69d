\* spec.md 4.8: a resolved range makes the outcome successful.
CONSTANTS
    CnaInputs <- MCCnaInputs
    AdpInputs <- MCAdpInputs
    CPEInputs <- MCCPEInputs
    RepoInputs <- MCRepoInputs
    CNAs = {"Example"}
    InverseOutcomes <- MCInverseOutcomes
    LowQuality = {""}
    ParsedRange <- MCParsedRange
    Tags <- MCTags
    Repos <- MCRepos
SPECIFICATION Spec
INVARIANT
    OutcomeReflectsResolution
CHECK_DEADLOCK FALSE
