SPECIFICATION Spec
CONSTANTS
    NLevels = 2
    Events <- TwoLevelEvents
    LevelOf <- TwoLevelOf
    Priority <- TwoLevelPriority
    OthersLimit = 2
    MaxTick = 2
    MaxOps = 3
INVARIANTS
    TypeOK
    ActiveListsMatch
    ActiveListsOrdered
    NestedCallsCounted
PROPERTIES
    KeepsAgenda
