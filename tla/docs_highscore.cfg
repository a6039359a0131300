SPECIFICATION Spec
CONSTANTS
    NTeams = 2
    NMates = 1
    OneLevel = TRUE
    MaxTick = 2
    MaxGames = 1
INVARIANT
    HighscoreFollowsRank
CHECK_DEADLOCK FALSE
