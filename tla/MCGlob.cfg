SPECIFICATION GlobSpec
CONSTANTS
    Patterns <- MCPatterns
    Values <- MCValues
INVARIANTS NeverOvermatches PlainMatched LastStarSuffices
PROPERTY Returns
CHECK_DEADLOCK FALSE
