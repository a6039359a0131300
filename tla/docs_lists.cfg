SPECIFICATION Spec
CONSTANTS
    Blocks = {b1, b2}
    NoBlock = NoBlock
    NTeams = 2
    NMates = 1
    MaxX = 0
    MaxTime = 0
    RestrictOwnOnly = FALSE
INVARIANTS
    ContainsAllControllable
