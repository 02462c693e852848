CONSTANTS
    Length = 4
    Patterns <- MCPatterns
    MaskLen <- MCLongMask
    MaxMatches = 1
SPECIFICATION Spec
INVARIANT MatchesMasked
