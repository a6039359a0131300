--------------------------- MODULE GameStatusDocs ---------------------------
(***************************************************************************)
(* What comments of the repository say about the status of teams and does  *)
(* not hold of the code. Each is the only property of a run in which TLC   *)
(* finds it violated.                                                      *)
(***************************************************************************)
EXTENDS GameStatus

\* gameproxy.h:209-211: "The highscore rank is only set when all the teams have
\* finished and is based on the highscres definition for the game". The default
\* definition (game.cc:241-258) is the rank, the lowest first. gameHasEnded runs
\* inside the handler that returns the last rank, so that the last team to finish
\* enters the highscore with rank -1, before all others.
HighscoreFollowsRank == gameOverTime >= 0 => hsRank = rank

\* level.h:684: "If only one other team still playing declare it completed the
\* game". Game::gameStatusFailed compares the count with 1 inside its loop on the
\* levels, so that the first of several playing teams completes.
OnlyOtherTeamCompletes ==
    [][\A t \in Teams :
          GameStatusFailed(t, TRUE) /\ Cardinality(Playing \ {t}) # 1 =>
              \A u \in Playing \ {t} : status'[u] = "playing"]_vars
=============================================================================
