\* DefaultVersionExtractor.ExtractVersions with the normal-range and the
\* commit-resolution machines and the CPE fallback.
CONSTANTS
    CnaInputs <- MCCnaInputs
    AdpInputs <- MCAdpInputs
    CPEInputs <- MCCPEInputs
    RepoInputs <- MCRepoInputs
    CNAs = {"Example"}
    InverseOutcomes <- MCInverseOutcomes
    LowQuality = {""}
    ParsedRange <- MCParsedRange
    Tags <- MCTags
    Repos <- MCRepos
SPECIFICATION Spec
INVARIANTS
    RangesAccounted
    OneSourcePerAffected
PROPERTIES
    FallbackIffNoOutput
\* The conversion returns: its final state has no successor.
CHECK_DEADLOCK FALSE
