------------------------ MODULE GameStatusEndProofs ------------------------
(***************************************************************************)
(* Proofs about the end of a game, for every number of teams and mates:    *)
(* when it ends, what the owner is told, the highscore ranks it gives out, *)
(* and that results stay. They rest on the invariant of GameStatusProofs,  *)
(* by which the handlers finish only teams that play.                      *)
(***************************************************************************)
EXTENDS GameStatusProofs

-----------------------------------------------------------------------------
(* What the steps do, as far as the end of the game is concerned *)

\* Teams that play finish in one call of a handler or in Game::end.
FinishStep ==
    \E C, F, U :
        /\ PlayingParts(C, F)
        /\ Finish(C, F, U)
        /\ \/ gameEndedEmitted' = TRUE /\ ~gameEnded
           \/ gameEndedEmitted' = (gameEndedEmitted /\ ~IsOver(C \cup F))
        /\ UNCHANGED <<tick, gameId, endedCalls>>

\* A mate goes out while another mate of its team plays.
OutStep ==
    /\ \E t \in Teams, m \in Mates :
          ~OthersOut(t, m) /\ mateStatus' = [mateStatus EXCEPT ![t][m] = "out"]
    /\ UNCHANGED <<finished, status, rank, hsRank, gameVars, tick, gameId, endedCalls>>

LEMMA StepsOfTheGame ==
    ASSUME IInv, [Next]_vars
    PROVE  \/ FinishStep \/ OutStep \/ Start
           \/ GameStatusTechnical \/ BeginTick \/ EndTick \/ UNCHANGED vars
<1>1. ASSUME NEW t \in Teams, NEW bForce \in BOOLEAN, GameStatusCompleted(t, bForce)
      PROVE  FinishStep
  <2>. DEFINE forced == IF bForce /\ ~OneLevel THEN Playing \ {t} ELSE {}
              V == {t} \cup {u \in forced : u = LastOf(forced)}
  <2>1. Finish({t}, forced, V) /\ PlayingParts({t}, forced)
    BY <1>1, ForcedPlay DEF GameStatusCompleted, CompletedEffect
  <2>2. gameEndedEmitted' = (gameEndedEmitted /\ ~IsOver({t} \cup forced))
    BY <1>1 DEF GameStatusCompleted, CompletedEffect
  <2>3. UNCHANGED <<tick, gameId, endedCalls>>
    BY <1>1 DEF GameStatusCompleted, timeVars
  <2>. HIDE DEF forced, V
  <2>. QED BY <2>1, <2>2, <2>3, Zenon DEF FinishStep
<1>2. ASSUME NEW t \in Teams, NEW bForce \in BOOLEAN, finished[t] < 0, FailedEffect(t, bForce),
             UNCHANGED <<timeVars, endedCalls>>
      PROVE  FinishStep
  <2>. DEFINE others == Playing \ {t}
              forced == {u \in others : bForce /\ ~OneLevel /\ u = FirstOf(others)}
              V == {t} \cup forced
  <2>1. Finish(forced, {t}, V) /\ PlayingParts(forced, {t})
    BY <1>2, ForcedPlay DEF FailedEffect
  <2>2. gameEndedEmitted' = (gameEndedEmitted /\ ~IsOver({t} \cup forced))
    BY <1>2 DEF FailedEffect
  <2>3. {t} \cup forced = forced \cup {t}
    OBVIOUS
  <2>4. UNCHANGED <<tick, gameId, endedCalls>>
    BY <1>2 DEF timeVars
  <2>. HIDE DEF forced, V
  <2>. QED BY <2>1, <2>2, <2>3, <2>4, Zenon DEF FinishStep
<1>3. CASE \E t \in Teams, bForce \in BOOLEAN : GameStatusFailed(t, bForce)
  BY <1>2, <1>3 DEF GameStatusFailed
<1>4. CASE \E t \in Teams, m \in Mates, bForce \in BOOLEAN : GameStatusPlayerOut(t, m, bForce)
  <2>1. PICK t \in Teams, m \in Mates, bForce \in BOOLEAN : GameStatusPlayerOut(t, m, bForce)
    BY <1>4
  <2>2. CASE OthersOut(t, m)
    BY <1>2, <2>1, <2>2 DEF GameStatusPlayerOut
  <2>3. CASE ~OthersOut(t, m)
    BY <2>1, <2>3 DEF GameStatusPlayerOut, OutStep, timeVars
  <2>. QED BY <2>2, <2>3
<1>5. CASE End
  <2>. DEFINE V == {LastOf(Playing)}
  <2>1. PlayingParts({}, Playing) /\ Finish({}, Playing, V)
    BY <1>5 DEF End, PlayingParts
  <2>2. gameEndedEmitted' = TRUE /\ ~gameEnded
    BY <1>5, Zenon DEF End
  <2>3. UNCHANGED <<tick, gameId, endedCalls>>
    BY <1>5 DEF End, timeVars
  <2>. HIDE DEF V
  <2>. QED BY <2>1, <2>2, <2>3, Zenon DEF FinishStep
<1>. QED BY <1>1, <1>3, <1>4, <1>5 DEF Next, StatusCall

\* Finish, seen from the end of the game.
LEMMA FinishEnds ==
    ASSUME IInv, NEW C, NEW F, NEW U, PlayingParts(C, F), Finish(C, F, U)
    PROVE  /\ C \cup F \in SUBSET Playing
           /\ finished' = [t \in Teams |-> IF t \in C \cup F THEN tick ELSE finished[t]]
           /\ Playing' = Playing \ (C \cup F)
           /\ gameEnded' = (gameEnded \/ IsOver(C \cup F))
           /\ gameOverTime' = IF IsOver(C \cup F) THEN tick ELSE gameOverTime
           /\ IsOver(C \cup F) <=> ~gameEnded /\ Playing' = {}
<1>1. C \cup F \in SUBSET Playing /\ tick \in Nat
  BY DEF PlayingParts, IInv, TypeOK
<1>2. /\ finished' = [t \in Teams |-> IF t \in C \cup F THEN tick ELSE finished[t]]
      /\ gameOverTime' = IF IsOver(C \cup F) THEN tick ELSE gameOverTime
  BY DEF Finish
<1>3. gameEnded' = (gameEnded \/ IsOver(C \cup F))
  BY Zenon DEF Finish
<1>4. Playing' = Playing \ (C \cup F)
  BY <1>1, <1>2 DEF Playing
<1>5. IsOver(C \cup F) <=> ~gameEnded /\ Playing' = {}
  BY <1>1, <1>4 DEF IsOver
<1>. QED BY <1>1, <1>2, <1>3, <1>4, <1>5, Zenon

-----------------------------------------------------------------------------
(* When the game is over *)

\* Inductive with IInv: no team has finished after the current tick.
OverInv ==
    /\ \A t \in Teams : finished[t] <= tick
    /\ OverWhenNobodyPlays

LEMMA FinishKeepsOver ==
    ASSUME IInv, OverInv, NEW C, NEW F, NEW U, PlayingParts(C, F), Finish(C, F, U), tick' = tick
    PROVE  OverInv'
<1>0. /\ C \cup F \in SUBSET Playing
      /\ finished' = [t \in Teams |-> IF t \in C \cup F THEN tick ELSE finished[t]]
      /\ Playing' = Playing \ (C \cup F)
      /\ gameEnded' = (gameEnded \/ IsOver(C \cup F))
      /\ gameOverTime' = IF IsOver(C \cup F) THEN tick ELSE gameOverTime
      /\ IsOver(C \cup F) <=> ~gameEnded /\ Playing' = {}
  BY FinishEnds, Zenon
<1>1. /\ tick \in Nat /\ gameOverTime \in {-1} \cup Nat
      /\ finished \in [Teams -> {-1} \cup Nat]
  BY DEF IInv, TypeOK
<1>2. \A t \in Teams : finished'[t] <= tick'
  BY <1>1, <1>0 DEF OverInv
<1>3. CASE IsOver(C \cup F)
  <2>1. ~gameEnded /\ Playing' = {} /\ gameEnded' /\ gameOverTime' = tick
    BY <1>3, <1>0
  <2>2. PICK t \in Teams : t \in C \cup F
    <3>1. Playing # {} /\ Playing \subseteq Teams
      BY <2>1 DEF OverInv, OverWhenNobodyPlays, Playing
    <3>. QED BY <2>1, <3>1, <1>0
  <2>3. finished'[t] = tick
    BY <2>2, <1>0
  <2>. QED BY <1>2, <2>1, <2>3 DEF OverInv, OverWhenNobodyPlays
<1>4. CASE ~IsOver(C \cup F)
  <2>1. gameOverTime' = gameOverTime
    BY <1>4, <1>0
  <2>2. Playing' = {} => gameEnded'
    BY <1>4, <1>0
  <2>3. ASSUME gameOverTime >= 0
        PROVE  Playing' = {} /\ \A t \in Teams : finished'[t] = finished[t]
    BY <2>3, <1>0 DEF OverInv, OverWhenNobodyPlays
  <2>. QED BY <1>2, <2>1, <2>2, <2>3 DEF OverInv, OverWhenNobodyPlays
<1>. QED BY <1>3, <1>4

LEMMA OverInvariance == Spec => []OverInv
<1>1. Init => OverInv
  <2>. SUFFICES ASSUME Init PROVE OverInv
    OBVIOUS
  <2>1. 0 \in Playing
    BY ConstantsAssumption DEF Init, ForAllTeams, Playing, Teams
  <2>. QED BY <2>1 DEF Init, ForAllTeams, OverInv, OverWhenNobodyPlays
<1>2. IInv /\ OverInv /\ [Next]_vars => OverInv'
  <2>. SUFFICES ASSUME IInv, OverInv, [Next]_vars PROVE OverInv'
    OBVIOUS
  <2>1. CASE FinishStep
    BY <2>1, FinishKeepsOver DEF FinishStep
  <2>2. CASE Start
    <3>1. 0 \in Playing'
      BY <2>2, ConstantsAssumption DEF Start, ForAllTeams, Playing, Teams
    <3>. QED BY <2>2, <3>1 DEF Start, ForAllTeams, OverInv, OverWhenNobodyPlays
  <2>3. CASE OutStep \/ BeginTick \/ UNCHANGED vars
    <3>1. UNCHANGED <<finished, gameEnded, gameOverTime, tick>>
      BY <2>3 DEF OutStep, BeginTick, vars, teamVars, gameVars, timeVars
    <3>. QED BY <3>1 DEF OverInv, OverWhenNobodyPlays, Playing
  <2>4. CASE GameStatusTechnical
    BY <2>4 DEF GameStatusTechnical, teamVars, timeVars, OverInv, OverWhenNobodyPlays, Playing
  <2>5. CASE EndTick
    <3>1. UNCHANGED <<finished, gameEnded, gameOverTime>> /\ tick' = tick + 1
      BY <2>5 DEF EndTick, teamVars
    <3>2. tick \in Nat /\ finished \in [Teams -> {-1} \cup Nat]
      BY DEF IInv, TypeOK
    <3>. QED BY <3>1, <3>2 DEF OverInv, OverWhenNobodyPlays, Playing
  <2>. QED BY <2>1, <2>2, <2>3, <2>4, <2>5, StepsOfTheGame
<1>. QED BY <1>1, <1>2, Invariance, PTL DEF Spec

\* gameHasEnded runs in the call that finishes the last team and only then, and
\* __GameOverTime is the time of the last team to finish.
THEOREM OverHolds == Spec => []OverWhenNobodyPlays
BY OverInvariance, PTL DEF OverInv

-----------------------------------------------------------------------------
(* The highscore ranks *)

\* The positions of two teams differ: of the two, one is before the other.
LEMMA HighscorePosDiffer ==
    ASSUME NEW score \in [Teams -> Int], NEW t \in Teams, NEW u \in Teams, t # u
    PROVE  HighscorePos(t, score) # HighscorePos(u, score)
<1>. DEFINE Better(v) == {w \in Teams : \/ score[w] < score[v]
                                        \/ score[w] = score[v] /\ w > v}
<1>0. \A v \in Teams : v \in Int /\ score[v] \in Int
  BY ConstantsAssumption DEF Teams
<1>1. \A v \in Teams : Better(v) \in SUBSET Teams /\ Cardinality(Better(v)) \in Nat
  BY TeamsCount
<1>2. ASSUME NEW v \in Teams, NEW w \in Teams, w \in Better(v)
      PROVE  Cardinality(Better(w)) < Cardinality(Better(v))
  <2>1. \A x \in Better(w) : x \in Better(v)
    BY <1>0, <1>2
  <2>2. w \notin Better(w)
    BY <1>0
  <2>. HIDE DEF Better
  <2>. QED BY <1>1, <1>2, <2>1, <2>2, ProperSubset
<1>3. t \in Better(u) \/ u \in Better(t)
  BY <1>0
<1>4. \A v \in Teams : HighscorePos(v, score) = 1 + Cardinality(Better(v))
  BY DEF HighscorePos
<1>. HIDE DEF Better
<1>. QED BY <1>1, <1>2, <1>3, <1>4

\* So every position is taken.
LEMMA HighscorePosOnto ==
    ASSUME NEW score \in [Teams -> Int], NEW p \in 1 .. NTeams
    PROVE  \E t \in Teams : HighscorePos(t, score) = p
<1>. DEFINE T == 1 .. NTeams
            f == [t \in Teams |-> HighscorePos(t, score)]
<1>1. IsFiniteSet(T) /\ Cardinality(T) = Cardinality(Teams)
  BY TeamsCount, FS_Interval, ConstantsAssumption
<1>2. f \in Injection(Teams, T)
  BY HighscorePosBound, HighscorePosDiffer DEF Injection, IsInjective
<1>3. f \in Surjection(Teams, T)
  <2>. HIDE DEF f, T
  <2>. QED BY <1>1, <1>2, TeamsCount, FS_Injection
<1>. QED BY <1>3 DEF Surjection

LEMMA FinishKeepsHighscore ==
    ASSUME IInv, HighscoreRanksDiffer, NEW C, NEW F, NEW U, PlayingParts(C, F), Finish(C, F, U)
    PROVE  HighscoreRanksDiffer'
<1>. DEFINE newRank == [t \in Teams |-> NewRank(t, C, F)]
            seen    == [t \in Teams |-> IF t \in U THEN rank[t] ELSE newRank[t]]
<1>1. seen \in [Teams -> Int]
  <2>1. rank \in [Teams -> Int]
    BY DEF IInv, TypeOK
  <2>2. rank' \in [Teams -> Int] /\ rank' = newRank
    <3>1. rank' \in [Teams -> {-1} \cup 1 .. NTeams]
      BY FinishKeepsTypes
    <3>. QED BY <3>1, ConstantsAssumption DEF Finish
  <2>. QED BY <2>1, <2>2
<1>2. CASE IsOver(C \cup F)
  <2>1. hsRank' = [t \in Teams |-> HighscorePos(t, seen)]
    BY <1>2 DEF Finish
  <2>. HIDE DEF seen
  <2>2. {hsRank'[t] : t \in Teams} = 1 .. NTeams
    BY <1>1, <2>1, HighscorePosBound, HighscorePosOnto
  <2>. QED BY <2>2 DEF HighscoreRanksDiffer
<1>3. CASE ~IsOver(C \cup F)
  <2>1. hsRank' = hsRank /\ gameOverTime' = gameOverTime
    BY <1>3 DEF Finish
  <2>. QED BY <2>1 DEF HighscoreRanksDiffer
<1>. QED BY <1>2, <1>3

\* At the end of a game the teams share out the highscore ranks of the game: each
\* has its own, and none is left.
THEOREM HighscoreHolds == Spec => []HighscoreRanksDiffer
<1>1. Init => HighscoreRanksDiffer
  BY DEF Init, HighscoreRanksDiffer
<1>2. IInv /\ HighscoreRanksDiffer /\ [Next]_vars => HighscoreRanksDiffer'
  <2>. SUFFICES ASSUME IInv, HighscoreRanksDiffer, [Next]_vars PROVE HighscoreRanksDiffer'
    OBVIOUS
  <2>1. CASE FinishStep
    BY <2>1, FinishKeepsHighscore DEF FinishStep
  <2>2. CASE Start
    BY <2>2 DEF Start, HighscoreRanksDiffer
  <2>3. CASE OutStep \/ GameStatusTechnical \/ BeginTick \/ EndTick \/ UNCHANGED vars
    <3>1. UNCHANGED <<hsRank, gameOverTime>>
      BY <2>3 DEF OutStep, GameStatusTechnical, BeginTick, EndTick, vars, teamVars, gameVars
    <3>. QED BY <3>1 DEF HighscoreRanksDiffer
  <2>. QED BY <2>1, <2>2, <2>3, StepsOfTheGame
<1>. QED BY <1>1, <1>2, Invariance, PTL DEF Spec

-----------------------------------------------------------------------------
(* A team and its mates *)

\* A team plays as long as one of its mates does; afterwards its mates have its
\* status, those that went out before included.
THEOREM MatesHold == Spec => []TeamPlaysWithItsMates
<1>0. 0 \in Mates
  BY ConstantsAssumption DEF Mates
<1>1. Init => TeamPlaysWithItsMates
  BY <1>0 DEF Init, TeamPlaysWithItsMates, ForAllTeams, ForAllMates
<1>2. IInv /\ TeamPlaysWithItsMates /\ [Next]_vars => TeamPlaysWithItsMates'
  <2>. SUFFICES ASSUME IInv, TeamPlaysWithItsMates, [Next]_vars PROVE TeamPlaysWithItsMates'
    OBVIOUS
  <2>1. CASE FinishStep
    <3>1. PICK C, F, U : PlayingParts(C, F) /\ Finish(C, F, U)
      BY <2>1 DEF FinishStep
    <3>2. /\ status' = [t \in Teams |-> IF t \in C THEN "completed"
                                        ELSE IF t \in F THEN "failed" ELSE status[t]]
          /\ mateStatus' = [t \in Teams |-> IF t \in C THEN [m \in Mates |-> "completed"]
                                            ELSE IF t \in F THEN [m \in Mates |-> "failed"]
                                            ELSE mateStatus[t]]
      BY <3>1 DEF Finish
    <3>. QED BY <3>2 DEF TeamPlaysWithItsMates
  <2>2. CASE Start
    BY <1>0, <2>2 DEF Start, TeamPlaysWithItsMates, ForAllTeams, ForAllMates
  <2>3. CASE OutStep
    <3>1. PICK t \in Teams, m \in Mates :
             ~OthersOut(t, m) /\ mateStatus' = [mateStatus EXCEPT ![t][m] = "out"]
      BY <2>3 DEF OutStep
    <3>2. status' = status /\ mateStatus \in [Teams -> [Mates -> PlayerStatuses]]
      BY <2>3 DEF OutStep, IInv, TypeOK
    <3>3. PICK n \in Mates \ {m} : mateStatus[t][n] = "playing"
      BY <3>1 DEF OthersOut
    <3>4. mateStatus'[t][n] = "playing" /\ status'[t] = "playing"
      BY <3>1, <3>2, <3>3 DEF TeamPlaysWithItsMates
    <3>5. \A u \in Teams \ {t} : mateStatus'[u] = mateStatus[u]
      BY <3>1, <3>2
    <3>. QED BY <3>2, <3>3, <3>4, <3>5 DEF TeamPlaysWithItsMates
  <2>4. CASE GameStatusTechnical \/ BeginTick \/ EndTick \/ UNCHANGED vars
    <3>1. UNCHANGED <<status, mateStatus>>
      BY <2>4 DEF GameStatusTechnical, BeginTick, EndTick, vars, teamVars
    <3>. QED BY <3>1 DEF TeamPlaysWithItsMates
  <2>. QED BY <2>1, <2>2, <2>3, <2>4, StepsOfTheGame
<1>. QED BY <1>1, <1>2, Invariance, PTL DEF Spec

-----------------------------------------------------------------------------
(* What the owner is told *)

\* Inductive with IInv: once the owner has been told, the game has ended and the
\* flag is set, so that neither gameHasEnded nor a technical end clears it.
ToldInv ==
    /\ endedCalls <= 1
    /\ endedCalls = 1 => gameEnded /\ gameEndedEmitted

LEMMA TellsOnce == IInv /\ ToldInv /\ [Next]_vars => ToldInv'
<1>. SUFFICES ASSUME IInv, ToldInv, [Next]_vars PROVE ToldInv'
  OBVIOUS
<1>1. CASE FinishStep
  <2>1. PICK C, F, U :
           /\ PlayingParts(C, F) /\ Finish(C, F, U)
           /\ \/ gameEndedEmitted' = TRUE /\ ~gameEnded
              \/ gameEndedEmitted' = (gameEndedEmitted /\ ~IsOver(C \cup F))
           /\ endedCalls' = endedCalls
    BY <1>1, Zenon DEF FinishStep
  <2>2. gameEnded' = (gameEnded \/ IsOver(C \cup F))
    BY <2>1, Zenon DEF Finish
  <2>3. gameEnded => ~IsOver(C \cup F)
    BY DEF IsOver
  <2>4. gameEnded /\ gameEndedEmitted => gameEnded' /\ gameEndedEmitted'
    BY <2>1, <2>2, <2>3, Zenon
  <2>. QED BY <2>1, <2>4, Zenon DEF ToldInv
<1>2. CASE Start
  BY <1>2 DEF Start, ToldInv
<1>3. CASE OutStep \/ BeginTick \/ UNCHANGED vars
  <2>1. UNCHANGED <<gameEnded, gameEndedEmitted, endedCalls>>
    BY <1>3 DEF OutStep, BeginTick, vars, gameVars
  <2>. QED BY <2>1 DEF ToldInv
<1>4. CASE GameStatusTechnical
  BY <1>4 DEF GameStatusTechnical, ToldInv
<1>5. CASE EndTick
  <2>1. gameEnded' = gameEnded /\ endedCalls \in Nat
    BY <1>5 DEF EndTick, IInv, TypeOK
  <2>2. CASE gameEnded /\ ~gameEndedEmitted
    <3>1. gameEndedEmitted' = TRUE /\ endedCalls' = endedCalls + 1
      BY <1>5, <2>2, Zenon DEF EndTick
    <3>2. endedCalls = 0
      BY <2>1, <2>2 DEF ToldInv
    <3>3. endedCalls' = 1
      BY <3>1, <3>2
    <3>. QED BY <2>1, <2>2, <3>1, <3>3 DEF ToldInv
  <2>3. CASE ~(gameEnded /\ ~gameEndedEmitted)
    <3>1. UNCHANGED <<gameEndedEmitted, endedCalls>>
      BY <1>5, <2>3, Zenon DEF EndTick
    <3>. QED BY <2>1, <3>1 DEF ToldInv
  <2>. QED BY <2>2, <2>3
<1>. QED BY <1>1, <1>2, <1>3, <1>4, <1>5, StepsOfTheGame

\* The owner is told at most once that a game has ended, whatever ends it and
\* however long the timer goes on.
THEOREM OwnerToldOnceHolds == Spec => []OwnerToldOnce
<1>1. Init => ToldInv
  BY DEF Init, ToldInv
<1>2. IInv /\ ToldInv /\ [Next]_vars => ToldInv'
  BY TellsOnce
<1>3. ToldInv => OwnerToldOnce
  BY DEF ToldInv, OwnerToldOnce
<1>. QED BY <1>1, <1>2, <1>3, Invariance, PTL DEF Spec

-----------------------------------------------------------------------------
(* The owner learns of the end *)

\* The end of a game that the owner has to be told of.
News == gameEnded /\ ~gameEndedEmitted

\* There is news only within a game tick, which can therefore tell it, and the
\* owner has not been told anything before.
NewsInv == News => inGameTick /\ endedCalls = 0

\* WF_vars(EndTick) with the condition under which EndTick can be taken, which is
\* that a tick is under way, written out: ticks do not go on for ever.
TicksReturn == []<>~inGameTick \/ []<><<EndTick>>_vars

\* Who finishes teams, or ends the game by a technical failure, does so in a tick.
LEMMA NewsInTicks == Spec => [](IInv /\ ToldInv /\ NewsInv)
<1>1. Init => NewsInv
  BY DEF Init, NewsInv, News
<1>2. IInv /\ ToldInv /\ NewsInv /\ [Next]_vars => NewsInv'
  <2>. SUFFICES ASSUME IInv, ToldInv, NewsInv, [Next]_vars, News'
                PROVE  inGameTick' /\ endedCalls' = 0
    BY DEF NewsInv
  <2>0. endedCalls \in Nat /\ (endedCalls = 1 => gameEnded /\ gameEndedEmitted) /\ endedCalls <= 1
    BY DEF IInv, TypeOK, ToldInv
  <2>1. CASE StatusCall
    <3>1. inGameTick /\ UNCHANGED <<inGameTick, endedCalls>>
      BY <2>1 DEF StatusCall, GameStatusCompleted, GameStatusFailed, GameStatusPlayerOut,
                  GameStatusTechnical, timeVars
    <3>2. CASE endedCalls = 0
      BY <3>1, <3>2
    <3>3. CASE endedCalls = 1
      <4>1. ToldInv'
        BY TellsOnce
      <4>. QED BY <3>1, <3>3, <4>1 DEF ToldInv, News
    <3>. QED BY <2>0, <3>2, <3>3
  <2>2. CASE BeginTick
    BY <2>2 DEF BeginTick, gameVars, NewsInv, News
  <2>3. CASE EndTick
    <3>1. gameEnded' = gameEnded
      BY <2>3 DEF EndTick
    <3>2. gameEnded /\ ~gameEndedEmitted => gameEndedEmitted' = TRUE
      BY <2>3, Zenon DEF EndTick
    <3>3. ~(gameEnded /\ ~gameEndedEmitted) => gameEndedEmitted' = gameEndedEmitted
      BY <2>3, Zenon DEF EndTick
    <3>. QED BY <3>1, <3>2, <3>3 DEF News
  <2>4. CASE End
    BY <2>4 DEF End, News
  <2>5. CASE Start
    BY <2>5 DEF Start, News
  <2>6. CASE UNCHANGED vars
    BY <2>6 DEF vars, gameVars, timeVars, NewsInv, News
  <2>. QED BY <2>1, <2>2, <2>3, <2>4, <2>5, <2>6 DEF Next
<1>3. Init => ToldInv
  BY DEF Init, ToldInv
<1>4. IInv /\ ToldInv /\ [Next]_vars => ToldInv'
  BY TellsOnce
<1>. QED BY <1>1, <1>2, <1>3, <1>4, Invariance, PTL DEF Spec

\* The tick that has the news tells it: no other step takes it away.
LEMMA NewsIsTold ==
    /\ IInv /\ ToldInv /\ NewsInv /\ News /\ [Next]_vars => News' \/ (endedCalls = 1)'
    /\ IInv /\ ToldInv /\ NewsInv /\ News /\ <<EndTick>>_vars => (endedCalls = 1)'
<1>1. ASSUME NewsInv, News, EndTick
      PROVE  endedCalls' = 1
  <2>1. endedCalls' = endedCalls + 1
    BY <1>1, Zenon DEF EndTick, News
  <2>. QED BY <1>1, <2>1 DEF NewsInv
<1>2. ASSUME IInv, NewsInv, News, [Next]_vars
      PROVE  News' \/ endedCalls' = 1
  <2>1. CASE FinishStep
    <3>1. PICK C, F, U :
             /\ Finish(C, F, U)
             /\ \/ gameEndedEmitted' = TRUE /\ ~gameEnded
                \/ gameEndedEmitted' = (gameEndedEmitted /\ ~IsOver(C \cup F))
      BY <2>1, Zenon DEF FinishStep
    <3>2. gameEnded' = (gameEnded \/ IsOver(C \cup F))
      BY <3>1, Zenon DEF Finish
    <3>. QED BY <1>2, <3>1, <3>2, Zenon DEF News
  <2>2. CASE Start \/ BeginTick
    <3>1. CASE BeginTick
      BY <1>2, <3>1 DEF BeginTick, gameVars, News
    <3>2. CASE Start
      BY <1>2, <3>2 DEF Start, NewsInv
    <3>. QED BY <2>2, <3>1, <3>2
  <2>3. CASE OutStep \/ UNCHANGED vars
    BY <1>2, <2>3 DEF OutStep, vars, gameVars, News
  <2>4. CASE GameStatusTechnical
    BY <1>2, <2>4 DEF GameStatusTechnical, News
  <2>. QED BY <1>1, <1>2, <2>1, <2>2, <2>3, <2>4, StepsOfTheGame
<1>. QED BY <1>1, <1>2

\* A game that was not ended by the owner is reported to the owner, as soon as the
\* tick in which it ended returns.
THEOREM OwnerToldHolds == Spec /\ TicksReturn => OwnerTold
<1>1. IInv /\ ToldInv /\ NewsInv /\ News => inGameTick
  BY DEF NewsInv
<1>. QED BY <1>1, NewsInTicks, NewsIsTold, PTL DEF Spec, TicksReturn, OwnerTold, News

-----------------------------------------------------------------------------
(* Results stay *)

\* Within a game no handler touches a team that has finished, be it called for
\* that team or for another that forces results on the rest.
THEOREM FinalResultsHold == Spec => FinalResults
<1>. DEFINE Stay == \A t \in Teams : finished[t] >= 0 /\ gameId' = gameId =>
                       /\ finished'[t] = finished[t]
                       /\ status'[t] = status[t]
                       /\ rank'[t] = rank[t]
<1>1. IInv /\ [Next]_vars => [Stay]_vars
  <2>. SUFFICES ASSUME IInv, [Next]_vars PROVE Stay
    OBVIOUS
  <2>1. CASE FinishStep
    <3>1. PICK C, F, U : PlayingParts(C, F) /\ Finish(C, F, U)
      BY <2>1 DEF FinishStep
    <3>. SUFFICES ASSUME NEW t \in Teams, finished[t] >= 0
                  PROVE  finished'[t] = finished[t] /\ status'[t] = status[t] /\ rank'[t] = rank[t]
      OBVIOUS
    <3>2. t \notin C /\ t \notin F
      BY <3>1 DEF PlayingParts, Playing, IInv, TypeOK
    <3>3. NewRank(t, C, F) = rank[t]
      BY <3>2 DEF NewRank
    <3>. QED BY <3>1, <3>2, <3>3 DEF Finish
  <2>2. CASE Start
    BY <2>2 DEF Start, IInv, TypeOK
  <2>3. CASE OutStep \/ GameStatusTechnical \/ BeginTick \/ EndTick \/ UNCHANGED vars
    BY <2>3 DEF OutStep, GameStatusTechnical, BeginTick, EndTick, vars, teamVars
  <2>. QED BY <2>1, <2>2, <2>3, StepsOfTheGame
<1>. QED BY <1>1, Invariance, PTL DEF Spec, FinalResults
=============================================================================
