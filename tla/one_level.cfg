\* All teams in the same level: results are never forced on other teams.
SPECIFICATION FairSpec
CONSTANTS
    NTeams = 2
    NMates = 1
    OneLevel = TRUE
    MaxTick = 3
    MaxGames = 2
INVARIANT
    OwnerToldOnce
PROPERTY
    OwnerTold
CHECK_DEADLOCK FALSE
