CONSTANTS
    Code <- MCCode
    Finding <- MCFinding
    MaxCodes = 3
    MaxFindings = 3
SPECIFICATION Spec
INVARIANTS TypeOK OverallIsHighest CategoriesInOrder
