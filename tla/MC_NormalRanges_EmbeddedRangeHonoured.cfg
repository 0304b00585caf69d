\* FindNormalAffectedRanges against spec.md: EmbeddedRangeHonoured.
CONSTANTS
    Entries <- MCEntries
    MaxEntries = 3
    LowQuality <- MCLowQuality
    ParsedRange <- MCParsedRange
    RangeKind = "VersionRangeTypeUnknown"
SPECIFICATION Spec
INVARIANTS
    EmbeddedRangeHonoured
CHECK_DEADLOCK FALSE
