SPECIFICATION Spec
CONSTANTS
    NTeams = 3
    NMates = 1
    OneLevel = FALSE
    MaxTick = 2
    MaxGames = 1
PROPERTY
    OnlyOtherTeamCompletes
CHECK_DEADLOCK FALSE
