\* LinuxVersionExtractor.ExtractVersions: only the first git product
\* gives a git entry; every other product with ranges gives an ecosystem entry.
CONSTANTS
    CnaInputs <- MCCnaInputs
    AdpInputs <- MCAdpInputs
    CPEInputs <- MCNoInput
    RepoInputs <- MCNoInput
    CNAs = {"Linux"}
    InverseOutcomes <- MCInverseOutcomes
    LowQuality = {""}
    ParsedRange <- MCParsedRange
    Tags <- MCTags
    Repos <- MCRepos
SPECIFICATION Spec
INVARIANTS
    TypeOK
    FirstGitWins
\* The conversion returns: its final state has no successor.
CHECK_DEADLOCK FALSE
