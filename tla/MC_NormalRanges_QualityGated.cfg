\* FindNormalAffectedRanges against spec.md: QualityGated.
CONSTANTS
    Entries <- MCEntries
    MaxEntries = 3
    LowQuality <- MCLowQuality
    ParsedRange <- MCParsedRange
    RangeKind = "VersionRangeTypeUnknown"
SPECIFICATION Spec
INVARIANTS
    QualityGated
CHECK_DEADLOCK FALSE
