\* FindNormalAffectedRanges: type and coverage of confirmed versions.
CONSTANTS
    Entries <- MCEntries
    MaxEntries = 3
    LowQuality <- MCLowQuality
    ParsedRange <- MCParsedRange
    RangeKind = "VersionRangeTypeUnknown"
SPECIFICATION Spec
INVARIANTS
    TypeOK
    AffectedIntroducedCovered
\* The algorithm returns: its final state has no successor.
CHECK_DEADLOCK FALSE
