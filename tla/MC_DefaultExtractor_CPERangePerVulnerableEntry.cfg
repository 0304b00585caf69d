\* spec.md 4.4: one CPE range per vulnerable entry of an OR node.
CONSTANTS
    CnaInputs <- MCCnaInputs
    AdpInputs <- MCAdpInputs
    CPEInputs <- MCCPEInputs
    RepoInputs <- MCRepoInputs
    CNAs = {"Example"}
    InverseOutcomes <- MCInverseOutcomes
    LowQuality = {""}
    ParsedRange <- MCParsedRange
    Tags <- MCTags
    Repos <- MCRepos
SPECIFICATION Spec
INVARIANT
    CPERangePerVulnerableEntry
CHECK_DEADLOCK FALSE
