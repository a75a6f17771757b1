SPECIFICATION GlobSpec
CONSTANTS
    Patterns <- MCPatterns
    Values <- MCValues
INVARIANT MatchesAsDocumented
CHECK_DEADLOCK FALSE
