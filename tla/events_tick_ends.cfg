SPECIFICATION FairSpec
CONSTANTS
    NLevels = 2
    Events <- TwoLevelEvents
    LevelOf <- TwoLevelOf
    Priority <- TwoLevelPriority
    OthersLimit = 2
    MaxTick = 1
    MaxOps = 3
PROPERTIES
    TickEnds
