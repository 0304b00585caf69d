\* findInverseAffectedRanges against its comment: every affected version is covered.
CONSTANTS
    Records <- MCRecords
    Universe <- MCUniverse
    Star = Star
    EmptyPart = EmptyPart
    SX = SX
SPECIFICATION Spec
INVARIANTS
    AffectedCovered
\* The function returns: its final state has no successor.
CHECK_DEADLOCK FALSE
