\* findInverseAffectedRanges on Linux CNA records: no false positive; the
\* comparator of its sort agrees with the reference comparison.
CONSTANTS
    Records <- MCRecords
    Universe <- MCUniverse
    Star = Star
    EmptyPart = EmptyPart
    SX = SX
SPECIFICATION Spec
INVARIANTS
    TypeOK
    NoFalsePositive
    ComparatorMatchesReference
\* The function returns: its final state has no successor.
CHECK_DEADLOCK FALSE
