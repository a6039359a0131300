SPECIFICATION Spec
CONSTANTS
    Blocks = {b1, b2, b3}
    NoBlock = NoBlock
    NTeams = 2
    NMates = 1
    MaxX = 1
    MaxTime = 1
    RestrictOwnOnly = TRUE
SYMMETRY BlockSymmetry
INVARIANTS
    TypeOK
    ControlMirrored
    ListsHoldControllable
PROPERTIES
    ReplacedWhenPossible
    LeftWaitingByOthers
