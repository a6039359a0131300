----------------------------- MODULE GameStatus -----------------------------
(***************************************************************************)
(* How teams and players finish a game and how the game itself ends:       *)
(* Level::gameStatusPlayerOut/Completed/Failed/Technical, the handlers of  *)
(* Game they call (Game::gameStatusCompleted/Failed, gameHasEnded), the    *)
(* start and end of a game, and the notification of the owner at the end   *)
(* of a game tick.                                                         *)
(*                                                                         *)
(* A team is named by its number in the preferences: with OneLevel all     *)
(* teams are in level 0, otherwise team t is the only team of level t.     *)
(*                                                                         *)
(* The asserts of the code are not guards: a release build runs past them. *)
(* They are stated as invariants.                                          *)
(***************************************************************************)
EXTENDS Integers, FiniteSets

CONSTANTS
    NTeams,     \* teams in the preferences (AppPreferences::getTotTeams)
    NMates,     \* mates in each team
    OneLevel,   \* Game::m_bAllTeamsInOneLevel
    MaxTick,    \* bound: game ticks explored in one game
    MaxGames    \* bound: games started on the same Game instance

ASSUME ConstantsAssumption ==
    /\ NTeams \in Nat \ {0}
    /\ NMates \in Nat \ {0}
    /\ OneLevel \in BOOLEAN
    /\ MaxTick \in Nat
    /\ MaxGames \in Nat

Teams == 0 .. NTeams - 1
Mates == 0 .. NMates - 1

TeamStatuses   == {"playing", "completed", "failed"}
PlayerStatuses == {"playing", "completed", "failed", "out"}

VARIABLES
    \* system variables of each team and of its mates
    finished,      \* FinishedTime of a team, -1 while it is playing
    status,        \* TeamStatus
    rank,          \* Rank, -1 while not set
    hsRank,        \* HighscoreRank, -1 while not set
    inhibited,     \* whether the team's variables are inhibited
    mateStatus,    \* PlayerStatus of each mate
    \* system variables of the game
    winnerTeam, gameOverTime,
    \* Game's own members
    rankCompleted, rankFailed, gameEnded, gameEndedEmitted,
    inGameTick, tick, gameId,
    \* what the owner has seen
    endedCalls     \* calls of GameOwner::gameEnded() for the current game

teamVars == <<finished, status, rank, hsRank, inhibited, mateStatus>>
gameVars == <<winnerTeam, gameOverTime, rankCompleted, rankFailed, gameEnded,
              gameEndedEmitted>>
timeVars == <<inGameTick, tick, gameId>>
vars     == <<teamVars, gameVars, timeVars, endedCalls>>

-----------------------------------------------------------------------------
(* Helpers *)

\* gameStatusTeamIsPlaying, for every team.
Playing == {t \in Teams : finished[t] < 0}

\* How many members of S come before t in the order levels and teams are scanned.
Before(t, S) == Cardinality({u \in S : u < t})

FirstOf(S) == CHOOSE t \in S : \A u \in S : t <= u
LastOf(S)  == CHOOSE t \in S : \A u \in S : u <= t

\* Faulty variant: equal scores get the same position.
HighscorePosTies(t, score) == 1 + Cardinality({u \in Teams : score[u] < score[t]})

\* Position a team gets in the in-game highscore when every team of the game is
\* inserted in turn, the lowest score first, a later team before an equal one.
HighscorePos(t, score) ==
    1 + Cardinality({u \in Teams : \/ score[u] < score[t]
                                   \/ score[u] = score[t] /\ u > t})

-----------------------------------------------------------------------------
(* The teams of C complete and those of F fail, in one call of a handler of  *)
(* Level: the statuses, the ranks given from either end, the winner, and the *)
(* end of the game when no team plays any more. Unranked are the teams whose *)
(* rank is not stored yet when gameHasEnded runs: the rank is returned by    *)
(* Game's handler, which may end the game before it returns.                 *)

\* Faulty variants: the rank is taken after the counter has moved, and all the
\* teams failed together get the rank of the first.
NewRankAfterStep(t, C, F) ==
    CASE t \in C -> rankCompleted + Before(t, C)
      [] t \in F -> rankFailed - Before(t, F) - 1
      [] OTHER   -> rank[t]
NewRankShared(t, C, F) ==
    CASE t \in C -> rankCompleted + Before(t, C)
      [] t \in F -> rankFailed
      [] OTHER   -> rank[t]

NewRank(t, C, F) ==
    CASE t \in C -> rankCompleted + Before(t, C)
      [] t \in F -> rankFailed - Before(t, F)
      [] OTHER   -> rank[t]

\* Faulty variant: the team that finishes last takes over.
NewWinnerLatest(S, newRank) == IF S = {} THEN winnerTeam ELSE FirstOf(S)

\* The team ranked first, be it the first to complete or the last to fail.
NewWinner(S, newRank) ==
    IF \E t \in S : newRank[t] = 1 THEN CHOOSE t \in S : newRank[t] = 1
                                   ELSE winnerTeam

\* Faulty variant: the last team left does not have to finish.
IsOverWithOneLeft(S) == ~gameEnded /\ Cardinality(Playing \ S) <= 1

\* Whether the game ends once the teams of S have finished.
IsOver(S) == ~gameEnded /\ Playing \subseteq S

Finish(C, F, Unranked) ==
    LET S       == C \cup F
        newRank == [t \in Teams |-> NewRank(t, C, F)]
        seen    == [t \in Teams |-> IF t \in Unranked THEN rank[t] ELSE newRank[t]]
    IN  /\ finished'  = [t \in Teams |-> IF t \in S THEN tick ELSE finished[t]]
        /\ status'    = [t \in Teams |-> IF t \in C THEN "completed"
                                         ELSE IF t \in F THEN "failed" ELSE status[t]]
        /\ rank'      = newRank
        /\ hsRank'    = IF IsOver(S) THEN [t \in Teams |-> HighscorePos(t, seen)]
                                     ELSE hsRank
        /\ inhibited' = [t \in Teams |-> inhibited[t] \/ t \in S]
        /\ mateStatus' = [t \in Teams |->
                             IF t \in C THEN [m \in Mates |-> "completed"]
                             ELSE IF t \in F THEN [m \in Mates |-> "failed"]
                             ELSE mateStatus[t]]
        /\ rankCompleted' = rankCompleted + Cardinality(C)
        /\ rankFailed'    = rankFailed - Cardinality(F)
        /\ winnerTeam'    = NewWinner(S, newRank)
        /\ gameOverTime'  = IF IsOver(S) THEN tick ELSE gameOverTime
        /\ gameEnded'     = (gameEnded \/ IsOver(S))

\* Level::gameStatusCompleted: with bForceOthersFailed the teams of the other
\* levels that still play fail; the teams of the same level are skipped.
CompletedEffect(t, bForceOthersFailed) ==
    LET forced == IF bForceOthersFailed /\ ~OneLevel THEN Playing \ {t} ELSE {}
    IN  /\ Finish({t}, forced, {t} \cup {u \in forced : u = LastOf(forced)})
        /\ gameEndedEmitted' = (gameEndedEmitted /\ ~IsOver({t} \cup forced))

\* Level::gameStatusFailed: with bForceOtherCompleted the first team of another
\* level that still plays is counted and, being the only one so far, completes.
FailedEffect(t, bForceOtherCompleted) ==
    LET others == Playing \ {t}
        forced == {u \in others : bForceOtherCompleted /\ ~OneLevel /\ u = FirstOf(others)}
    IN  /\ Finish(forced, {t}, {t} \cup forced)
        /\ gameEndedEmitted' = (gameEndedEmitted /\ ~IsOver({t} \cup forced))

-----------------------------------------------------------------------------
(* The handlers, called by events and blocks within a game tick *)

GameStatusCompleted(t, bForceOthersFailed) ==
    /\ inGameTick
    /\ finished[t] < 0
    /\ CompletedEffect(t, bForceOthersFailed)
    /\ UNCHANGED <<timeVars, endedCalls>>

\* Faulty variant: a team that has finished is not ignored.
GameStatusFailedAgain(t, bForceOtherCompleted) ==
    /\ inGameTick
    /\ FailedEffect(t, bForceOtherCompleted)
    /\ UNCHANGED <<timeVars, endedCalls>>

GameStatusFailed(t, bForceOtherCompleted) ==
    /\ inGameTick
    /\ finished[t] < 0
    /\ FailedEffect(t, bForceOtherCompleted)
    /\ UNCHANGED <<timeVars, endedCalls>>

\* Whether every mate of t other than m is out.
OthersOut(t, m) == \A n \in Mates \ {m} : mateStatus[t][n] # "playing"

\* Faulty variant: the last mate to be out stays out when its team fails.
GameStatusPlayerOutKeepsMates(t, m, bForceOtherCompleted) ==
    /\ inGameTick
    /\ finished[t] < 0
    /\ mateStatus[t][m] = "playing"
    /\ mateStatus' = [mateStatus EXCEPT ![t][m] = "out"]
    /\ inhibited'  = [inhibited EXCEPT ![t] = TRUE]
    /\ UNCHANGED <<finished, status, rank, hsRank, gameVars, timeVars, endedCalls>>

\* The last mate to be out fails the team. The statuses of the mates that went
\* out before are overwritten by that of the team.
GameStatusPlayerOut(t, m, bForceOtherCompleted) ==
    /\ inGameTick
    /\ finished[t] < 0
    /\ mateStatus[t][m] = "playing"
    /\ IF OthersOut(t, m)
       THEN FailedEffect(t, bForceOtherCompleted)
       ELSE /\ mateStatus' = [mateStatus EXCEPT ![t][m] = "out"]
            /\ inhibited'  = [inhibited EXCEPT ![t] = TRUE]
            /\ UNCHANGED <<finished, status, rank, hsRank, gameVars>>
    /\ UNCHANGED <<timeVars, endedCalls>>

GameStatusTechnical ==
    /\ inGameTick
    /\ ~gameEnded
    /\ gameEnded' = TRUE
    /\ gameEndedEmitted' = FALSE
    /\ UNCHANGED <<teamVars, winnerTeam, gameOverTime, rankCompleted, rankFailed,
                   timeVars, endedCalls>>

-----------------------------------------------------------------------------
(* The owner: it starts and ends games and drives the ticks *)

\* The first half of Game::handleTimer. The timer goes on after the game ended.
BeginTick ==
    /\ ~inGameTick
    /\ tick < MaxTick
    /\ inGameTick' = TRUE
    /\ UNCHANGED <<teamVars, gameVars, tick, gameId, endedCalls>>

\* Faulty variants: the flag is not set, so that the owner is told again; the
\* owner is told of a regular end only.
EndTickForgetful ==
    /\ inGameTick
    /\ inGameTick' = FALSE
    /\ tick' = tick + 1
    /\ endedCalls' = IF gameEnded /\ ~gameEndedEmitted THEN endedCalls + 1 ELSE endedCalls
    /\ UNCHANGED <<teamVars, gameVars, gameId>>
EndTickRegularOnly ==
    /\ inGameTick
    /\ inGameTick' = FALSE
    /\ tick' = tick + 1
    /\ IF gameOverTime >= 0 /\ ~gameEndedEmitted
       THEN /\ gameEndedEmitted' = TRUE
            /\ endedCalls' = endedCalls + 1
       ELSE UNCHANGED <<gameEndedEmitted, endedCalls>>
    /\ UNCHANGED <<teamVars, winnerTeam, gameOverTime, rankCompleted, rankFailed,
                   gameEnded, gameId>>

\* The second half of Game::handleTimer.
EndTick ==
    /\ inGameTick
    /\ inGameTick' = FALSE
    /\ tick' = tick + 1
    /\ IF gameEnded /\ ~gameEndedEmitted
       THEN /\ gameEndedEmitted' = TRUE
            /\ endedCalls' = endedCalls + 1
       ELSE UNCHANGED <<gameEndedEmitted, endedCalls>>
    /\ UNCHANGED <<teamVars, winnerTeam, gameOverTime, rankCompleted, rankFailed,
                   gameEnded, gameId>>

\* Game::end fails the playing teams one by one, each to the end of its handler,
\* and keeps the owner from being told. "Calling this function when the game is
\* not running is an error".
End ==
    /\ ~inGameTick
    /\ ~gameEnded
    /\ Finish({}, Playing, {LastOf(Playing)})
    /\ gameEndedEmitted' = TRUE
    /\ UNCHANGED <<timeVars, endedCalls>>

ForAllTeams(value) == [t \in Teams |-> value]
ForAllMates(value) == [t \in Teams |-> [m \in Mates |-> value]]

\* Game::start on an instance whose previous game has ended: Level::variablesInit
\* for every level and the reset of Game's members.
Start ==
    /\ ~inGameTick
    /\ gameEnded
    /\ gameId < MaxGames
    /\ gameId' = gameId + 1
    /\ finished'   = ForAllTeams(-1)
    /\ status'     = ForAllTeams("playing")
    /\ rank'       = ForAllTeams(-1)
    /\ hsRank'     = ForAllTeams(-1)
    /\ inhibited'  = ForAllTeams(FALSE)
    /\ mateStatus' = ForAllMates("playing")
    /\ winnerTeam'    = -1
    /\ gameOverTime'  = -1
    /\ rankCompleted' = 1
    /\ rankFailed'    = NTeams
    /\ gameEnded'     = FALSE
    /\ gameEndedEmitted' = FALSE
    /\ tick' = 0
    /\ endedCalls' = 0
    /\ UNCHANGED inGameTick

-----------------------------------------------------------------------------
\* The first game has just been started.
Init ==
    /\ gameId     = 1
    /\ finished   = ForAllTeams(-1)
    /\ status     = ForAllTeams("playing")
    /\ rank       = ForAllTeams(-1)
    /\ hsRank     = ForAllTeams(-1)
    /\ inhibited  = ForAllTeams(FALSE)
    /\ mateStatus = ForAllMates("playing")
    /\ winnerTeam    = -1
    /\ gameOverTime  = -1
    /\ rankCompleted = 1
    /\ rankFailed    = NTeams
    /\ gameEnded     = FALSE
    /\ gameEndedEmitted = FALSE
    /\ inGameTick = FALSE
    /\ tick = 0
    /\ endedCalls = 0

StatusCall ==
    \/ \E t \in Teams, bForce \in BOOLEAN : GameStatusCompleted(t, bForce)
    \/ \E t \in Teams, bForce \in BOOLEAN : GameStatusFailed(t, bForce)
    \/ \E t \in Teams, m \in Mates, bForce \in BOOLEAN : GameStatusPlayerOut(t, m, bForce)
    \/ GameStatusTechnical

Next == StatusCall \/ BeginTick \/ EndTick \/ End \/ Start

Spec == Init /\ [][Next]_vars

\* handleTimer is a call that returns: the tick that has begun ends.
FairSpec == Spec /\ WF_vars(EndTick)
-----------------------------------------------------------------------------
(* What holds in every reachable state *)

\* The types of the variables. The ranks are those of a team of the game, which
\* depends on the counters never leaving 1..NTeams while teams still play.
TypeOK ==
    /\ finished \in [Teams -> {-1} \cup Nat]
    /\ status \in [Teams -> TeamStatuses]
    /\ rank \in [Teams -> {-1} \cup 1 .. NTeams]
    /\ hsRank \in [Teams -> {-1} \cup 1 .. NTeams]
    /\ inhibited \in [Teams -> BOOLEAN]
    /\ mateStatus \in [Teams -> [Mates -> PlayerStatuses]]
    /\ winnerTeam \in {-1} \cup Teams
    /\ gameOverTime \in {-1} \cup Nat
    /\ rankCompleted \in 1 .. NTeams + 1
    /\ rankFailed \in 0 .. NTeams
    /\ gameEnded \in BOOLEAN
    /\ gameEndedEmitted \in BOOLEAN
    /\ inGameTick \in BOOLEAN
    /\ tick \in Nat
    /\ gameId \in Nat
    /\ endedCalls \in Nat

\* The ranks that are left are as many as the teams that still play: the assert
\* of Game::gameStatusPlayingTeams, which the code evaluates only between two
\* handlers. It holds through nested handlers, Game::end and technical ends.
RankAccounting == rankFailed + 1 - rankCompleted = Cardinality(Playing)

\* Completed teams take the ranks below m_nRankCompleted, failed ones those above
\* m_nRankFailed, and no two teams the same, however completions, failures and
\* the failures and completions they force follow one another.
RanksMeetInTheMiddle ==
    /\ \A t \in Teams :
          /\ status[t] = "playing"   => rank[t] = -1
          /\ status[t] = "completed" => rank[t] \in 1 .. rankCompleted - 1
          /\ status[t] = "failed"    => rank[t] \in rankFailed + 1 .. NTeams
    /\ \A t, u \in Teams : t # u /\ rank[t] # -1 => rank[t] # rank[u]

\* __WinnerTeam is set by whichever handler gives out rank 1, the completion of
\* the first team or the failure of the last one, and names the team of rank 1.
WinnerIsRankOne ==
    \A t \in Teams : (winnerTeam = t) <=> (rank[t] = 1)

\* gameHasEnded runs in the very call that finishes the last team and only then:
\* __GameOverTime is set at the time of the last team to finish, and a game in
\* which nobody plays has ended. A technical end stops gameHasEnded for good.
OverWhenNobodyPlays ==
    /\ Playing = {} => gameEnded
    /\ gameOverTime >= 0 => /\ Playing = {}
                            /\ \A t \in Teams : finished[t] <= gameOverTime
                            /\ \E t \in Teams : finished[t] = gameOverTime

\* A team plays as long as one of its mates does, and the mates of a finished
\* team all have the team's status, those that went out earlier included.
TeamPlaysWithItsMates ==
    \A t \in Teams :
        IF status[t] = "playing" THEN \E m \in Mates : mateStatus[t][m] = "playing"
                                 ELSE \A m \in Mates : mateStatus[t][m] = status[t]

\* gameHasEnded gives every team of the game its own position in the highscore.
HighscoreRanksDiffer ==
    gameOverTime >= 0 => {hsRank[t] : t \in Teams} = 1 .. NTeams

-----------------------------------------------------------------------------
(* What a step may never do *)

\* Within a game the result of a finished team is final: the handlers of the
\* same tick, Game::end and the forced results of other teams leave it alone.
FinalResults ==
    [][\A t \in Teams : finished[t] >= 0 /\ gameId' = gameId =>
          /\ finished'[t] = finished[t]
          /\ status'[t] = status[t]
          /\ rank'[t] = rank[t]]_vars

\* The owner is told at most once that a game has ended, although the timer goes
\* on after the end and a technical end may be followed by regular results.
OwnerToldOnce == endedCalls <= 1

\* A game that was ended by its teams or by a technical failure, and not by the
\* owner, is reported to the owner.
OwnerTold == (gameEnded /\ ~gameEndedEmitted) ~> (endedCalls = 1)

-----------------------------------------------------------------------------
(* The ranks implement the abstract ranking *)

Ranking == INSTANCE TeamRanking WITH
               place <- [t \in Teams |-> IF rank[t] = -1 THEN 0 ELSE rank[t]]

\* Every handler, nested ones included, gives out places as TeamRanking says: a
\* place once, the best free ones to completed teams, the worst to failed ones.
ImplementsRanking == Ranking!Spec

=============================================================================
