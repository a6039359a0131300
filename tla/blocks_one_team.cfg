SPECIFICATION Spec
CONSTANTS
    Blocks = {b1, b2, b3}
    NoBlock = NoBlock
    NTeams = 1
    NMates = 2
    MaxX = 1
    MaxTime = 2
    RestrictOwnOnly = TRUE
SYMMETRY BlockSymmetry
INVARIANTS
    NoIdleMateBesideFreeBlock
PROPERTIES
    LongestIdleServed
