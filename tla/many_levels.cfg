\* Every team in a level of its own.
SPECIFICATION Spec
CONSTANTS
    NTeams = 3
    NMates = 2
    OneLevel = FALSE
    MaxTick = 2
    MaxGames = 2
INVARIANTS
    TypeOK
    RanksMeetInTheMiddle
    WinnerIsRankOne
    OverWhenNobodyPlays
    TeamPlaysWithItsMates
    HighscoreRanksDiffer
PROPERTIES
    FinalResults
    ImplementsRanking
CHECK_DEADLOCK FALSE
