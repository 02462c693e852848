CONSTANTS
    Length = 5
    Patterns <- MCPatterns
    MaskLen <- MCMaskLen
    MaxMatches = 2
SPECIFICATION Spec
INVARIANTS OffsetsValid MasksExactly
