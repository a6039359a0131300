-------------------------- MODULE GameStatusProofs --------------------------
(***************************************************************************)
(* Proofs about GameStatus for every number of teams and mates.            *)
(*                                                                         *)
(* All handlers that finish teams, and Game::end, are instances of Finish: *)
(* the teams of C complete, those of F fail. The invariant is therefore    *)
(* proved once for Finish (FinishKeeps...), then for each action.          *)
(***************************************************************************)
EXTENDS GameStatus, FiniteSetTheorems, TLAPS

-----------------------------------------------------------------------------
(* Counting teams *)

\* The teams are as many as NTeams, and any set of them is finite.
LEMMA TeamsCount ==
    /\ IsFiniteSet(Teams)
    /\ Cardinality(Teams) = NTeams
    /\ \A S \in SUBSET Teams : /\ IsFiniteSet(S)
                               /\ Cardinality(S) \in 0 .. NTeams
<1>1. IsFiniteSet(Teams) /\ Cardinality(Teams) = NTeams
  BY FS_Interval, ConstantsAssumption DEF Teams
<1>2. ASSUME NEW S \in SUBSET Teams
      PROVE  IsFiniteSet(S) /\ Cardinality(S) \in 0 .. NTeams
  BY <1>1, FS_Subset, FS_CardinalityType, ConstantsAssumption
<1>. QED BY <1>1, <1>2

\* Of two sets of teams, one strictly inside the other, the inner one has fewer.
LEMMA ProperSubset ==
    ASSUME NEW S \in SUBSET Teams, NEW T \in SUBSET S, T # S
    PROVE  Cardinality(T) < Cardinality(S)
<1>1. IsFiniteSet(S) /\ Cardinality(S) \in Nat /\ Cardinality(T) \in Nat
  BY TeamsCount, ConstantsAssumption
<1>2. Cardinality(T) <= Cardinality(S) /\ Cardinality(T) # Cardinality(S)
  BY <1>1, FS_Subset
<1>. QED BY <1>1, <1>2

\* The members of a set of teams are numbered from 0, each with its own number.
LEMMA BeforeNumbers ==
    ASSUME NEW S \in SUBSET Teams
    PROVE  /\ \A t \in S : Before(t, S) \in 0 .. Cardinality(S) - 1
           /\ \A t, u \in S : t # u => Before(t, S) # Before(u, S)
<1>. DEFINE Lower(t) == {v \in S : v < t}
<1>0. \A t \in S : t \in Int
  BY ConstantsAssumption DEF Teams
<1>1. \A t \in S : Lower(t) \in SUBSET Teams /\ Lower(t) # S /\ Lower(t) \in SUBSET S
  BY <1>0
<1>2. \A t \in S : Cardinality(Lower(t)) < Cardinality(S) /\ Cardinality(Lower(t)) \in Nat
  BY <1>1, ProperSubset, TeamsCount, ConstantsAssumption
<1>3. ASSUME NEW t \in S, NEW u \in S, t < u
      PROVE  Cardinality(Lower(t)) < Cardinality(Lower(u))
  <2>1. Lower(t) \in SUBSET Lower(u) /\ t \in Lower(u) /\ t \notin Lower(t)
    BY <1>0, <1>3
  <2>. QED BY <2>1, <1>1, ProperSubset
<1>4. Cardinality(S) \in Nat
  BY TeamsCount, ConstantsAssumption
<1>5. ASSUME NEW t \in S, NEW u \in S, t # u
      PROVE  Cardinality(Lower(t)) # Cardinality(Lower(u))
  <2>1. Cardinality(Lower(t)) \in Nat /\ Cardinality(Lower(u)) \in Nat
    BY <1>2
  <2>2. CASE t < u
    BY <1>3, <2>1, <2>2
  <2>3. CASE u < t
    BY <1>3, <2>1, <2>3
  <2>. QED BY <1>0, <1>5, <2>2, <2>3
<1>. QED BY <1>2, <1>4, <1>5 DEF Before

\* Teams that leave a set in two disjoint parts leave their number behind.
LEMMA TakeAway ==
    ASSUME NEW P \in SUBSET Teams, NEW C \in SUBSET P, NEW F \in SUBSET P, C \cap F = {}
    PROVE  Cardinality(P \ (C \cup F)) = Cardinality(P) - Cardinality(C) - Cardinality(F)
<1>1. /\ IsFiniteSet(P) /\ IsFiniteSet(C) /\ IsFiniteSet(F)
      /\ Cardinality(C) \in Int /\ Cardinality(F) \in Int /\ Cardinality(P) \in Int
  BY TeamsCount, ConstantsAssumption
<1>. DEFINE U == C \cup F   N == C \cap F   D == P \ U   I == P \cap U
<1>2. Cardinality(U) = Cardinality(C) + Cardinality(F) - Cardinality(N)
  BY <1>1, FS_Union
<1>3. Cardinality(N) = 0
  BY FS_EmptySet
<1>4. Cardinality(D) = Cardinality(P) - Cardinality(I)
  BY <1>1, FS_Difference
<1>5. I = U
  OBVIOUS
<1>. HIDE DEF N, D, I
<1>6. Cardinality(I) = Cardinality(C) + Cardinality(F)
  <2>. HIDE DEF U
  <2>. QED BY <1>1, <1>2, <1>3, <1>5
<1>7. Cardinality(D) = Cardinality(P) - Cardinality(C) - Cardinality(F)
  BY <1>1, <1>4, <1>6
<1>. QED BY <1>7, Zenon DEF D, U

\* The position in the highscore is that of a team of the game.
LEMMA HighscorePosBound ==
    ASSUME NEW t \in Teams, NEW score \in [Teams -> Int]
    PROVE  HighscorePos(t, score) \in 1 .. NTeams
<1>. DEFINE Better == {u \in Teams : \/ score[u] < score[t]
                                     \/ score[u] = score[t] /\ u > t}
<1>1. t \in Int /\ score[t] \in Int
  BY ConstantsAssumption DEF Teams
<1>2. Better \in SUBSET Teams /\ t \notin Better
  BY <1>1
<1>3. Cardinality(Better) < NTeams /\ Cardinality(Better) \in Nat
  BY <1>2, ProperSubset, TeamsCount, ConstantsAssumption
<1>. QED BY <1>3, ConstantsAssumption DEF HighscorePos

-----------------------------------------------------------------------------
(* The invariant *)

\* A team has no finishing time exactly as long as its status is playing.
StatusMatchesTime == \A t \in Teams : status[t] = "playing" <=> finished[t] < 0

\* Inductive: the ranks stay in range because they meet in the middle, and they
\* do because there are as many left as teams that play.
IInv ==
    /\ TypeOK
    /\ StatusMatchesTime
    /\ RankAccounting
    /\ RanksMeetInTheMiddle
    /\ WinnerIsRankOne

LEMMA InitEstablishes == Init => IInv
<1>. SUFFICES ASSUME Init PROVE IInv
  OBVIOUS
<1>. USE ConstantsAssumption
<1>1. TypeOK
  <2>1. NTeams \in 1 .. NTeams + 1 /\ NTeams \in 0 .. NTeams /\ 1 \in 1 .. NTeams + 1
    OBVIOUS
  <2>2. finished \in [Teams -> {-1} \cup Nat] /\ rank \in [Teams -> {-1} \cup 1 .. NTeams]
    BY DEF Init, ForAllTeams
  <2>3. status \in [Teams -> TeamStatuses] /\ mateStatus \in [Teams -> [Mates -> PlayerStatuses]]
    BY DEF Init, ForAllTeams, ForAllMates, TeamStatuses, PlayerStatuses
  <2>4. hsRank \in [Teams -> {-1} \cup 1 .. NTeams] /\ inhibited \in [Teams -> BOOLEAN]
    BY DEF Init, ForAllTeams
  <2>. QED BY <2>1, <2>2, <2>3, <2>4 DEF Init, TypeOK
<1>2. StatusMatchesTime /\ RanksMeetInTheMiddle /\ WinnerIsRankOne
  BY DEF Init, StatusMatchesTime, RanksMeetInTheMiddle, WinnerIsRankOne, ForAllTeams, Teams
<1>3. Playing = Teams
  BY DEF Init, Playing, ForAllTeams
<1>4. RankAccounting
  BY <1>3, TeamsCount DEF Init, RankAccounting
<1>. QED BY <1>1, <1>2, <1>4 DEF IInv

-----------------------------------------------------------------------------
(* The teams of C complete, those of F fail *)

\* What Finish is called with: teams that play, each of them once.
PlayingParts(C, F) == C \in SUBSET Playing /\ F \in SUBSET Playing /\ C \cap F = {}

\* Completed teams are ranked from the best rank left, failed ones from the worst
\* one, and the two ranges do not overlap.
LEMMA NewRanks ==
    ASSUME IInv, NEW C, NEW F, PlayingParts(C, F)
    PROVE  /\ Cardinality(C) \in Nat /\ Cardinality(F) \in Nat
           /\ rankCompleted + Cardinality(C) <= rankFailed - Cardinality(F) + 1
           /\ \A t \in C : NewRank(t, C, F) \in rankCompleted .. rankCompleted + Cardinality(C) - 1
           /\ \A t \in F : NewRank(t, C, F) \in rankFailed - Cardinality(F) + 1 .. rankFailed
           /\ \A t \in Teams \ (C \cup F) : NewRank(t, C, F) = rank[t]
           /\ \A t, u \in C \cup F : t # u => NewRank(t, C, F) # NewRank(u, C, F)
<1>. USE DEF PlayingParts
<1>1. Playing \in SUBSET Teams /\ C \in SUBSET Teams /\ F \in SUBSET Teams
  BY DEF Playing
<1>2. /\ Cardinality(Playing) \in Nat /\ Cardinality(C) \in Nat /\ Cardinality(F) \in Nat
      /\ Cardinality(Playing \ (C \cup F)) \in Nat
  BY <1>1, TeamsCount, ConstantsAssumption
<1>3. Cardinality(Playing \ (C \cup F)) = Cardinality(Playing) - Cardinality(C) - Cardinality(F)
  BY <1>1, TakeAway
<1>4. Cardinality(C) + Cardinality(F) <= rankFailed + 1 - rankCompleted
  BY <1>2, <1>3 DEF IInv, RankAccounting, TypeOK
<1>5. /\ rankCompleted \in Int /\ rankFailed \in Int
      /\ rankCompleted + Cardinality(C) <= rankFailed - Cardinality(F) + 1
  BY <1>2, <1>4, ConstantsAssumption DEF IInv, TypeOK
<1>6. ASSUME NEW t \in C
      PROVE  /\ NewRank(t, C, F) = rankCompleted + Before(t, C)
             /\ Before(t, C) \in 0 .. Cardinality(C) - 1
  BY <1>1, BeforeNumbers DEF NewRank
<1>7. ASSUME NEW t \in F
      PROVE  /\ NewRank(t, C, F) = rankFailed - Before(t, F)
             /\ Before(t, F) \in 0 .. Cardinality(F) - 1
  <2>1. t \notin C
    OBVIOUS
  <2>. QED BY <1>1, <2>1, BeforeNumbers DEF NewRank
<1>8. \A t \in C : NewRank(t, C, F) \in rankCompleted .. rankCompleted + Cardinality(C) - 1
  BY <1>2, <1>5, <1>6
<1>9. \A t \in F : NewRank(t, C, F) \in rankFailed - Cardinality(F) + 1 .. rankFailed
  BY <1>2, <1>5, <1>7
<1>10. \A t \in Teams \ (C \cup F) : NewRank(t, C, F) = rank[t]
  BY DEF NewRank
<1>11. ASSUME NEW t \in C \cup F, NEW u \in C \cup F, t # u
       PROVE  NewRank(t, C, F) # NewRank(u, C, F)
  <2>1. CASE t \in C /\ u \in C
    <3>1. Before(t, C) # Before(u, C)
      BY <1>1, <1>11, <2>1, BeforeNumbers
    <3>. QED BY <1>2, <1>5, <1>6, <2>1, <3>1
  <2>2. CASE t \in F /\ u \in F
    <3>1. Before(t, F) # Before(u, F)
      BY <1>1, <1>11, <2>2, BeforeNumbers
    <3>. QED BY <1>2, <1>5, <1>7, <2>2, <3>1
  <2>3. CASE t \in C /\ u \in F
    BY <1>2, <1>5, <1>8, <1>9, <2>3
  <2>4. CASE t \in F /\ u \in C
    BY <1>2, <1>5, <1>8, <1>9, <2>4
  <2>. QED BY <1>11, <2>1, <2>2, <2>3, <2>4
<1>. QED BY <1>2, <1>5, <1>8, <1>9, <1>10, <1>11

LEMMA FinishKeepsTypes ==
    ASSUME IInv, NEW C, NEW F, NEW U, PlayingParts(C, F), Finish(C, F, U)
    PROVE  /\ finished' \in [Teams -> {-1} \cup Nat]
           /\ status' \in [Teams -> TeamStatuses]
           /\ rank' \in [Teams -> {-1} \cup 1 .. NTeams]
           /\ hsRank' \in [Teams -> {-1} \cup 1 .. NTeams]
           /\ inhibited' \in [Teams -> BOOLEAN]
           /\ mateStatus' \in [Teams -> [Mates -> PlayerStatuses]]
           /\ winnerTeam' \in {-1} \cup Teams
           /\ gameOverTime' \in {-1} \cup Nat
           /\ rankCompleted' \in 1 .. NTeams + 1
           /\ rankFailed' \in 0 .. NTeams
           /\ gameEnded' \in BOOLEAN
<1>. DEFINE newRank == [t \in Teams |-> NewRank(t, C, F)]
            seen    == [t \in Teams |-> IF t \in U THEN rank[t] ELSE newRank[t]]
<1>. USE ConstantsAssumption
<1>1. TypeOK /\ C \in SUBSET Teams /\ F \in SUBSET Teams
  BY DEF IInv, PlayingParts, Playing
<1>2. rankCompleted \in 1 .. NTeams + 1 /\ rankFailed \in 0 .. NTeams
  BY <1>1 DEF TypeOK
<1>3. rankCompleted' \in 1 .. NTeams + 1 /\ rankFailed' \in 0 .. NTeams
  <2>1. rankCompleted' = rankCompleted + Cardinality(C) /\ rankFailed' = rankFailed - Cardinality(F)
    BY DEF Finish
  <2>. QED BY <1>2, <2>1, NewRanks
<1>4. newRank \in [Teams -> {-1} \cup 1 .. NTeams]
  <2>. SUFFICES ASSUME NEW t \in Teams PROVE NewRank(t, C, F) \in {-1} \cup 1 .. NTeams
    OBVIOUS
  <2>1. CASE t \in C
    BY <1>2, <2>1, NewRanks
  <2>2. CASE t \in F
    BY <1>2, <2>2, NewRanks
  <2>3. CASE t \notin C \cup F
    BY <1>1, <2>3, NewRanks DEF TypeOK
  <2>. QED BY <2>1, <2>2, <2>3
<1>5. seen \in [Teams -> Int]
  BY <1>1, <1>4 DEF TypeOK
<1>6. rank' = newRank
  BY DEF Finish
<1>7. hsRank' \in [Teams -> {-1} \cup 1 .. NTeams]
  <2>1. \A t \in Teams : HighscorePos(t, seen) \in 1 .. NTeams
    BY <1>5, HighscorePosBound
  <2>2. hsRank' = IF IsOver(C \cup F) THEN [t \in Teams |-> HighscorePos(t, seen)] ELSE hsRank
    BY DEF Finish
  <2>. HIDE DEF seen
  <2>. QED BY <1>1, <2>1, <2>2 DEF TypeOK
<1>8. winnerTeam' \in {-1} \cup Teams
  <2>1. winnerTeam' = NewWinner(C \cup F, newRank)
    BY DEF Finish
  <2>. HIDE DEF newRank
  <2>. QED BY <1>1, <2>1 DEF NewWinner, TypeOK
<1>9. status' \in [Teams -> TeamStatuses] /\ finished' \in [Teams -> {-1} \cup Nat]
  <2>1. /\ finished' = [t \in Teams |-> IF t \in C \cup F THEN tick ELSE finished[t]]
        /\ status'   = [t \in Teams |-> IF t \in C THEN "completed"
                                        ELSE IF t \in F THEN "failed" ELSE status[t]]
    BY DEF Finish
  <2>. QED BY <1>1, <2>1 DEF TypeOK, TeamStatuses
<1>10. mateStatus' \in [Teams -> [Mates -> PlayerStatuses]]
  <2>1. mateStatus' = [t \in Teams |-> IF t \in C THEN [m \in Mates |-> "completed"]
                                       ELSE IF t \in F THEN [m \in Mates |-> "failed"]
                                       ELSE mateStatus[t]]
    BY DEF Finish
  <2>. QED BY <1>1, <2>1 DEF TypeOK, PlayerStatuses
<1>11. inhibited' \in [Teams -> BOOLEAN]
  <2>1. inhibited' = [t \in Teams |-> inhibited[t] \/ t \in C \cup F]
    BY DEF Finish
  <2>2. \A t \in Teams : (inhibited[t] \/ t \in C \cup F) \in BOOLEAN
    OBVIOUS
  <2>. QED BY <2>1, <2>2, Zenon
<1>12. gameOverTime' \in {-1} \cup Nat
  BY <1>1 DEF Finish, TypeOK
<1>13. gameEnded' \in BOOLEAN
  <2>1. gameEnded' = (gameEnded \/ IsOver(C \cup F))
    BY DEF Finish
  <2>. QED BY <2>1
<1>. QED BY <1>3, <1>4, <1>6, <1>7, <1>8, <1>9, <1>10, <1>11, <1>12, <1>13

LEMMA FinishKeepsRanking ==
    ASSUME IInv, NEW C, NEW F, NEW U, PlayingParts(C, F), Finish(C, F, U)
    PROVE  StatusMatchesTime' /\ RankAccounting' /\ RanksMeetInTheMiddle' /\ WinnerIsRankOne'
<1>. USE ConstantsAssumption
<1>. DEFINE S == C \cup F
            newRank == [t \in Teams |-> NewRank(t, C, F)]
<1>1. /\ TypeOK /\ StatusMatchesTime /\ RankAccounting /\ RanksMeetInTheMiddle /\ WinnerIsRankOne
      /\ C \in SUBSET Playing /\ F \in SUBSET Playing /\ C \cap F = {}
  BY DEF IInv, PlayingParts
<1>2. /\ finished' = [t \in Teams |-> IF t \in S THEN tick ELSE finished[t]]
      /\ status'   = [t \in Teams |-> IF t \in C THEN "completed"
                                      ELSE IF t \in F THEN "failed" ELSE status[t]]
      /\ rank' = newRank
      /\ rankCompleted' = rankCompleted + Cardinality(C)
      /\ rankFailed' = rankFailed - Cardinality(F)
      /\ winnerTeam' = NewWinner(S, newRank)
  BY DEF Finish
<1>3. /\ Cardinality(C) \in Nat /\ Cardinality(F) \in Nat
      /\ rankCompleted \in 1 .. NTeams + 1 /\ rankFailed \in 0 .. NTeams
      /\ rankCompleted + Cardinality(C) <= rankFailed - Cardinality(F) + 1
  BY <1>1, NewRanks DEF TypeOK
<1>4. \A t \in S : t \in Teams /\ finished[t] < 0 /\ status[t] = "playing" /\ rank[t] = -1
  BY <1>1 DEF Playing, StatusMatchesTime, RanksMeetInTheMiddle
<1>5. \A t \in Teams : /\ t \in C => rank'[t] \in rankCompleted .. rankCompleted' - 1
                       /\ t \in F => rank'[t] \in rankFailed' + 1 .. rankFailed
                       /\ t \notin S => rank'[t] = rank[t]
  <2>1. \A t \in Teams : rank'[t] = NewRank(t, C, F)
    BY <1>2
  <2>2. rankCompleted' - 1 = rankCompleted + Cardinality(C) - 1
    BY <1>2, <1>3
  <2>3. rankFailed' + 1 = rankFailed - Cardinality(F) + 1
    BY <1>2, <1>3
  <2>. QED BY <2>1, <2>2, <2>3, NewRanks
<1>6. StatusMatchesTime'
  <2>1. tick \in Nat
    BY <1>1 DEF TypeOK
  <2>. QED BY <1>1, <1>2, <1>4, <2>1 DEF StatusMatchesTime
<1>7. RankAccounting'
  <2>1. tick \in Nat
    BY <1>1 DEF TypeOK
  <2>2. Playing' = Playing \ (C \cup F)
    BY <1>1, <1>2, <2>1 DEF Playing
  <2>3. Playing \in SUBSET Teams
    BY DEF Playing
  <2>4. Cardinality(Playing \ (C \cup F)) = Cardinality(Playing) - Cardinality(C) - Cardinality(F)
    BY <1>1, <2>3, TakeAway
  <2>5. Cardinality(Playing) \in Nat
    BY <2>3, TeamsCount
  <2>6. rankFailed' + 1 - rankCompleted' = Cardinality(Playing) - Cardinality(C) - Cardinality(F)
    BY <1>1, <1>2, <1>3, <2>5 DEF RankAccounting
  <2>. QED BY <2>2, <2>4, <2>6 DEF RankAccounting
<1>8. \A t, u \in Teams : t # u /\ rank'[t] # -1 => rank'[t] # rank'[u]
  <2>. SUFFICES ASSUME NEW t \in Teams, NEW u \in Teams, t # u, rank'[t] # -1
                PROVE  rank'[t] # rank'[u]
    OBVIOUS
  <2>0. \A v \in Teams : /\ rank[v] \in {-1} \cup 1 .. NTeams
                         /\ rank[v] = -1 \/ rank[v] <= rankCompleted - 1 \/ rankFailed + 1 <= rank[v]
    BY <1>1 DEF TypeOK, TeamStatuses, RanksMeetInTheMiddle
  <2>1. CASE t \in S /\ u \in S
    BY <1>2, <2>1, NewRanks
  <2>2. CASE t \in S /\ u \notin S
    BY <1>2, <1>3, <1>5, <2>0, <2>2
  <2>3. CASE t \notin S /\ u \in S
    BY <1>2, <1>3, <1>5, <2>0, <2>3
  <2>4. CASE t \notin S /\ u \notin S
    BY <1>1, <1>5, <2>4 DEF RanksMeetInTheMiddle
  <2>. QED BY <2>1, <2>2, <2>3, <2>4
<1>9. RanksMeetInTheMiddle'
  <2>. SUFFICES ASSUME NEW t \in Teams
                PROVE  /\ status'[t] = "playing"   => rank'[t] = -1
                       /\ status'[t] = "completed" => rank'[t] \in 1 .. rankCompleted' - 1
                       /\ status'[t] = "failed"    => rank'[t] \in rankFailed' + 1 .. NTeams
    BY <1>8 DEF RanksMeetInTheMiddle
  <2>1. CASE t \in C
    BY <1>2, <1>3, <1>5, <2>1
  <2>2. CASE t \in F
    BY <1>1, <1>2, <1>3, <1>5, <2>2
  <2>3. CASE t \notin S
    BY <1>1, <1>2, <1>3, <1>5, <2>3 DEF RanksMeetInTheMiddle
  <2>. QED BY <2>1, <2>2, <2>3
<1>10. WinnerIsRankOne'
  <2>. SUFFICES ASSUME NEW t \in Teams
                PROVE  (winnerTeam' = t) <=> (rank'[t] = 1)
    BY DEF WinnerIsRankOne
  <2>1. CASE \E u \in S : newRank[u] = 1
    <3>1. winnerTeam' \in S /\ newRank[winnerTeam'] = 1
      <4>. HIDE DEF S, newRank
      <4>1. winnerTeam' = CHOOSE u \in S : newRank[u] = 1
        BY <1>2, <2>1 DEF NewWinner
      <4>. QED BY <2>1, <4>1
    <3>2. winnerTeam' \in Teams /\ rank'[winnerTeam'] = 1
      BY <1>2, <1>4, <3>1
    <3>. QED BY <1>8, <3>2
  <2>2. CASE ~ \E u \in S : newRank[u] = 1
    <3>1. winnerTeam' = winnerTeam
      BY <1>2, <2>2 DEF NewWinner
    <3>2. (winnerTeam = t) <=> (rank[t] = 1)
      BY <1>1 DEF WinnerIsRankOne
    <3>3. CASE t \in S
      BY <1>2, <1>4, <2>2, <3>1, <3>2, <3>3
    <3>4. CASE t \notin S
      BY <1>5, <3>1, <3>2, <3>4
    <3>. QED BY <3>3, <3>4
  <2>. QED BY <2>1, <2>2
<1>. QED BY <1>6, <1>7, <1>9, <1>10

-----------------------------------------------------------------------------
(* Every step *)

\* The teams a handler forces to finish are among those that play.
LEMMA ForcedPlay ==
    ASSUME NEW t \in Teams, finished[t] < 0, NEW X \in SUBSET (Playing \ {t})
    PROVE  PlayingParts({t}, X) /\ PlayingParts(X, {t})
BY DEF PlayingParts, Playing

LEMMA CompletedKeeps ==
    ASSUME IInv, NEW t \in Teams, NEW bForce \in BOOLEAN, GameStatusCompleted(t, bForce)
    PROVE  IInv'
<1>. DEFINE forced == IF bForce /\ ~OneLevel THEN Playing \ {t} ELSE {}
            U == {t} \cup {u \in forced : u = LastOf(forced)}
<1>1. Finish({t}, forced, U) /\ PlayingParts({t}, forced)
  BY ForcedPlay DEF GameStatusCompleted, CompletedEffect
<1>2. StatusMatchesTime' /\ RankAccounting' /\ RanksMeetInTheMiddle' /\ WinnerIsRankOne'
  BY <1>1, FinishKeepsRanking
<1>3. TypeOK'
  <2>1. /\ gameEndedEmitted' \in BOOLEAN
        /\ UNCHANGED <<timeVars, endedCalls>>
    BY DEF GameStatusCompleted, CompletedEffect
  <2>. HIDE DEF forced, U
  <2>. QED BY <1>1, <2>1, FinishKeepsTypes DEF IInv, TypeOK, timeVars
<1>. QED BY <1>2, <1>3 DEF IInv

\* The effect of a failure, whichever handler comes to it.
LEMMA FailedEffectKeeps ==
    ASSUME IInv, NEW t \in Teams, NEW bForce \in BOOLEAN, finished[t] < 0,
           FailedEffect(t, bForce), UNCHANGED <<timeVars, endedCalls>>
    PROVE  IInv'
<1>. DEFINE others == Playing \ {t}
            forced == {u \in others : bForce /\ ~OneLevel /\ u = FirstOf(others)}
            U == {t} \cup forced
<1>1. Finish(forced, {t}, U) /\ PlayingParts(forced, {t})
  BY ForcedPlay DEF FailedEffect
<1>2. StatusMatchesTime' /\ RankAccounting' /\ RanksMeetInTheMiddle' /\ WinnerIsRankOne'
  BY <1>1, FinishKeepsRanking
<1>3. TypeOK'
  <2>1. gameEndedEmitted' \in BOOLEAN
    BY DEF FailedEffect
  <2>. HIDE DEF forced, U
  <2>. QED BY <1>1, <2>1, FinishKeepsTypes DEF IInv, TypeOK, timeVars
<1>. QED BY <1>2, <1>3 DEF IInv

\* A mate that goes out while another one plays changes no rank.
LEMMA PlayerOutKeeps ==
    ASSUME IInv, NEW t \in Teams, NEW m \in Mates, NEW bForce \in BOOLEAN,
           GameStatusPlayerOut(t, m, bForce)
    PROVE  IInv'
<1>1. CASE OthersOut(t, m)
  BY <1>1, FailedEffectKeeps DEF GameStatusPlayerOut
<1>2. CASE ~OthersOut(t, m)
  <2>1. /\ mateStatus' = [mateStatus EXCEPT ![t][m] = "out"]
        /\ inhibited'  = [inhibited EXCEPT ![t] = TRUE]
        /\ UNCHANGED <<finished, status, rank, hsRank, gameVars, timeVars, endedCalls>>
    BY <1>2 DEF GameStatusPlayerOut
  <2>2. mateStatus' \in [Teams -> [Mates -> PlayerStatuses]]
    BY <2>1 DEF IInv, TypeOK, PlayerStatuses
  <2>3. TypeOK'
    BY <2>1, <2>2 DEF IInv, TypeOK, gameVars, timeVars
  <2>4. StatusMatchesTime' /\ RankAccounting' /\ RanksMeetInTheMiddle' /\ WinnerIsRankOne'
    BY <2>1 DEF IInv, StatusMatchesTime, RankAccounting, RanksMeetInTheMiddle, WinnerIsRankOne,
                Playing, gameVars
  <2>. QED BY <2>3, <2>4 DEF IInv
<1>. QED BY <1>1, <1>2

\* Game::end fails all playing teams.
LEMMA EndKeeps ==
    ASSUME IInv, End
    PROVE  IInv'
<1>. DEFINE U == {LastOf(Playing)}
<1>1. Finish({}, Playing, U) /\ PlayingParts({}, Playing)
  BY DEF End, PlayingParts
<1>2. StatusMatchesTime' /\ RankAccounting' /\ RanksMeetInTheMiddle' /\ WinnerIsRankOne'
  BY <1>1, FinishKeepsRanking
<1>3. TypeOK'
  <2>1. gameEndedEmitted' \in BOOLEAN /\ UNCHANGED <<timeVars, endedCalls>>
    BY DEF End
  <2>. HIDE DEF U
  <2>. QED BY <1>1, <2>1, FinishKeepsTypes DEF IInv, TypeOK, timeVars
<1>. QED BY <1>2, <1>3 DEF IInv

\* A new game starts like the first one.
LEMMA StartKeeps ==
    ASSUME IInv, Start
    PROVE  IInv'
<1>. USE ConstantsAssumption
<1>1. TypeOK'
  <2>1. NTeams \in 0 .. NTeams /\ 1 \in 1 .. NTeams + 1
    OBVIOUS
  <2>2. finished' \in [Teams -> {-1} \cup Nat] /\ rank' \in [Teams -> {-1} \cup 1 .. NTeams]
    BY DEF Start, ForAllTeams
  <2>3. status' \in [Teams -> TeamStatuses] /\ mateStatus' \in [Teams -> [Mates -> PlayerStatuses]]
    BY DEF Start, ForAllTeams, ForAllMates, TeamStatuses, PlayerStatuses
  <2>4. hsRank' \in [Teams -> {-1} \cup 1 .. NTeams] /\ inhibited' \in [Teams -> BOOLEAN]
    BY DEF Start, ForAllTeams
  <2>5. gameId' \in Nat /\ inGameTick' \in BOOLEAN
    BY DEF Start, IInv, TypeOK
  <2>. QED BY <2>1, <2>2, <2>3, <2>4, <2>5 DEF Start, TypeOK
<1>2. StatusMatchesTime' /\ RanksMeetInTheMiddle' /\ WinnerIsRankOne'
  BY DEF Start, StatusMatchesTime, RanksMeetInTheMiddle, WinnerIsRankOne, ForAllTeams, Teams
<1>3. Playing' = Teams
  BY DEF Start, Playing, ForAllTeams
<1>4. RankAccounting'
  BY <1>3, TeamsCount DEF Start, RankAccounting
<1>. QED BY <1>1, <1>2, <1>4 DEF IInv

\* The steps that leave teams and ranks alone.
LEMMA OthersKeep ==
    ASSUME IInv, GameStatusTechnical \/ BeginTick \/ EndTick \/ UNCHANGED vars
    PROVE  IInv'
<1>1. UNCHANGED <<teamVars, winnerTeam, gameOverTime, rankCompleted, rankFailed>>
  BY DEF GameStatusTechnical, BeginTick, EndTick, vars, gameVars
<1>2. StatusMatchesTime' /\ RankAccounting' /\ RanksMeetInTheMiddle' /\ WinnerIsRankOne'
  BY <1>1 DEF IInv, StatusMatchesTime, RankAccounting, RanksMeetInTheMiddle, WinnerIsRankOne,
              Playing, teamVars
<1>3. /\ gameEnded' \in BOOLEAN /\ gameEndedEmitted' \in BOOLEAN /\ inGameTick' \in BOOLEAN
      /\ tick' \in Nat /\ gameId' \in Nat /\ endedCalls' \in Nat
  <2>1. CASE GameStatusTechnical
    BY <2>1 DEF IInv, TypeOK, GameStatusTechnical, timeVars
  <2>2. CASE BeginTick
    <3>1. UNCHANGED <<gameEnded, gameEndedEmitted, tick, gameId, endedCalls>> /\ inGameTick' = TRUE
      BY <2>2 DEF BeginTick, gameVars
    <3>2. /\ gameEnded \in BOOLEAN /\ gameEndedEmitted \in BOOLEAN
          /\ tick \in Nat /\ gameId \in Nat /\ endedCalls \in Nat
      BY DEF IInv, TypeOK
    <3>. QED BY <3>1, <3>2, Zenon
  <2>3. CASE EndTick
    <3>1. tick' \in Nat /\ endedCalls' \in Nat
      BY <2>3 DEF IInv, TypeOK, EndTick
    <3>2. /\ inGameTick' = FALSE /\ gameEnded' = gameEnded /\ gameId' = gameId
          /\ gameEndedEmitted' = TRUE \/ gameEndedEmitted' = gameEndedEmitted
      BY <2>3, Zenon DEF EndTick
    <3>3. gameEnded \in BOOLEAN /\ gameEndedEmitted \in BOOLEAN /\ gameId \in Nat
      BY DEF IInv, TypeOK
    <3>. QED BY <3>1, <3>2, <3>3, Zenon
  <2>4. CASE UNCHANGED vars
    BY <2>4 DEF IInv, TypeOK, vars, gameVars, timeVars
  <2>. QED BY <2>1, <2>2, <2>3, <2>4
<1>4. TypeOK'
  BY <1>1, <1>3 DEF IInv, TypeOK, teamVars
<1>. QED BY <1>2, <1>4 DEF IInv

LEMMA NextKeeps == IInv /\ [Next]_vars => IInv'
<1>. SUFFICES ASSUME IInv, [Next]_vars PROVE IInv'
  OBVIOUS
<1>1. ASSUME NEW t \in Teams, NEW bForce \in BOOLEAN, GameStatusCompleted(t, bForce)
      PROVE  IInv'
  BY <1>1, CompletedKeeps
<1>2. ASSUME NEW t \in Teams, NEW bForce \in BOOLEAN, GameStatusFailed(t, bForce)
      PROVE  IInv'
  BY <1>2, FailedEffectKeeps DEF GameStatusFailed
<1>3. ASSUME NEW t \in Teams, NEW m \in Mates, NEW bForce \in BOOLEAN,
             GameStatusPlayerOut(t, m, bForce)
      PROVE  IInv'
  BY <1>3, PlayerOutKeeps
<1>4. CASE GameStatusTechnical \/ BeginTick \/ EndTick \/ UNCHANGED vars
  BY <1>4, OthersKeep
<1>5. CASE End
  BY <1>5, EndKeeps
<1>6. CASE Start
  BY <1>6, StartKeeps
<1>. QED BY <1>1, <1>2, <1>3, <1>4, <1>5, <1>6 DEF Next, StatusCall

-----------------------------------------------------------------------------
(* The theorems *)

\* The inductive invariant holds in every reachable state.
THEOREM Invariance == Spec => []IInv
BY InitEstablishes, NextKeeps, PTL DEF Spec

\* Ranks, counters and the winner stay in the range of the game's teams, for any
\* number of teams and mates and any sequence of handlers.
THEOREM TypesHold == Spec => []TypeOK
BY Invariance, PTL DEF IInv

\* The assert of Game::gameStatusPlayingTeams (game.cc:736) never fails.
THEOREM RankAccountingHolds == Spec => []RankAccounting
BY Invariance, PTL DEF IInv

\* Completed teams are ranked above the ranks left, failed teams below, and no two
\* teams share a rank.
THEOREM RanksMeetHold == Spec => []RanksMeetInTheMiddle
BY Invariance, PTL DEF IInv

\* The winner of the game is the team of rank 1, and there is none before that
\* rank is given.
THEOREM WinnerHolds == Spec => []WinnerIsRankOne
BY Invariance, PTL DEF IInv

-----------------------------------------------------------------------------
(* The ranks implement TeamRanking *)

\* The numbers of a set's members leave no gap.
LEMMA BeforeOnto ==
    ASSUME NEW S \in SUBSET Teams, NEW n \in 0 .. Cardinality(S) - 1
    PROVE  \E t \in S : Before(t, S) = n
<1>. DEFINE T == 0 .. Cardinality(S) - 1
            f == [t \in S |-> Before(t, S)]
<1>1. Cardinality(S) \in Nat /\ IsFiniteSet(S)
  BY TeamsCount, ConstantsAssumption
<1>2. IsFiniteSet(T) /\ Cardinality(T) = Cardinality(S)
  BY <1>1, FS_Interval
<1>3. f \in Injection(S, T)
  BY BeforeNumbers DEF Injection, IsInjective
<1>4. f \in Surjection(S, T)
  <2>. HIDE DEF f, T
  <2>. QED BY <1>2, <1>3, FS_Injection
<1>. QED BY <1>4 DEF Surjection

\* Every rank outside those left has been given to a team. (RanksMeetInTheMiddle
\* says that no other rank has been.)
RanksFilled ==
    /\ \A p \in 1 .. rankCompleted - 1 : \E t \in Teams : rank[t] = p
    /\ \A p \in rankFailed + 1 .. NTeams : \E t \in Teams : rank[t] = p

LEMMA FinishFills ==
    ASSUME IInv, RanksFilled, NEW C, NEW F, NEW U, PlayingParts(C, F), Finish(C, F, U)
    PROVE  RanksFilled'
<1>. USE ConstantsAssumption
<1>1. /\ rank' = [t \in Teams |-> NewRank(t, C, F)]
      /\ rankCompleted' = rankCompleted + Cardinality(C)
      /\ rankFailed' = rankFailed - Cardinality(F)
  BY DEF Finish
<1>2. /\ rankCompleted \in 1 .. NTeams + 1 /\ rankFailed \in 0 .. NTeams
      /\ Cardinality(C) \in Nat /\ Cardinality(F) \in Nat
      /\ C \in SUBSET Teams /\ F \in SUBSET Teams /\ C \cap F = {}
  BY NewRanks DEF IInv, TypeOK, PlayingParts, Playing
<1>3. \A t \in Teams : rank[t] # -1 => rank'[t] = rank[t]
  <2>1. \A t \in C \cup F : rank[t] = -1
    BY DEF IInv, PlayingParts, Playing, StatusMatchesTime, RanksMeetInTheMiddle
  <2>. QED BY <1>1, <2>1, NewRanks
<1>4. ASSUME NEW p \in 1 .. rankCompleted' - 1
      PROVE  \E t \in Teams : rank'[t] = p
  <2>1. CASE p <= rankCompleted - 1
    <3>1. PICK t \in Teams : rank[t] = p
      BY <1>2, <2>1 DEF RanksFilled
    <3>. QED BY <1>3, <3>1
  <2>2. CASE p >= rankCompleted
    <3>1. p - rankCompleted \in 0 .. Cardinality(C) - 1
      BY <1>1, <1>2, <2>2
    <3>2. PICK t \in C : Before(t, C) = p - rankCompleted
      BY <1>2, <3>1, BeforeOnto
    <3>3. rank'[t] = rankCompleted + Before(t, C)
      BY <1>1, <1>2 DEF NewRank
    <3>4. rank'[t] = p
      BY <1>1, <1>2, <3>2, <3>3
    <3>. QED BY <1>2, <3>4
  <2>. QED BY <1>2, <2>1, <2>2
<1>5. ASSUME NEW p \in rankFailed' + 1 .. NTeams
      PROVE  \E t \in Teams : rank'[t] = p
  <2>1. CASE p >= rankFailed + 1
    <3>1. PICK t \in Teams : rank[t] = p
      BY <1>2, <2>1 DEF RanksFilled
    <3>. QED BY <1>2, <1>3, <2>1, <3>1
  <2>2. CASE p <= rankFailed
    <3>1. rankFailed - p \in 0 .. Cardinality(F) - 1
      BY <1>1, <1>2, <2>2
    <3>2. PICK t \in F : Before(t, F) = rankFailed - p
      BY <1>2, <3>1, BeforeOnto
    <3>3. rank'[t] = rankFailed - Before(t, F)
      <4>1. t \in Teams /\ t \notin C
        BY <1>2
      <4>. QED BY <1>1, <4>1 DEF NewRank
    <3>4. rank'[t] = p
      BY <1>1, <1>2, <3>2, <3>3
    <3>. QED BY <1>2, <3>4
  <2>. QED BY <1>1, <1>2, <2>1, <2>2
<1>. QED BY <1>4, <1>5 DEF RanksFilled

\* A step finishes the teams of some C and F, starts a new game, or leaves the
\* ranks alone.
LEMMA StepKinds ==
    ASSUME IInv, [Next]_vars
    PROVE  \/ \E C, F, U : PlayingParts(C, F) /\ Finish(C, F, U)
           \/ Start
           \/ UNCHANGED <<rank, rankCompleted, rankFailed>>
<1>1. ASSUME NEW t \in Teams, NEW bForce \in BOOLEAN, GameStatusCompleted(t, bForce)
      PROVE  \E C, F, U : PlayingParts(C, F) /\ Finish(C, F, U)
  <2>. DEFINE forced == IF bForce /\ ~OneLevel THEN Playing \ {t} ELSE {}
              V == {t} \cup {u \in forced : u = LastOf(forced)}
  <2>1. Finish({t}, forced, V) /\ PlayingParts({t}, forced)
    BY <1>1, ForcedPlay DEF GameStatusCompleted, CompletedEffect
  <2>. QED BY <2>1
<1>2. ASSUME NEW t \in Teams, NEW bForce \in BOOLEAN, finished[t] < 0, FailedEffect(t, bForce)
      PROVE  \E C, F, U : PlayingParts(C, F) /\ Finish(C, F, U)
  <2>. DEFINE others == Playing \ {t}
              forced == {u \in others : bForce /\ ~OneLevel /\ u = FirstOf(others)}
              V == {t} \cup forced
  <2>1. Finish(forced, {t}, V) /\ PlayingParts(forced, {t})
    BY <1>2, ForcedPlay DEF FailedEffect
  <2>. QED BY <2>1
<1>3. CASE \E t \in Teams, bForce \in BOOLEAN : GameStatusFailed(t, bForce)
  BY <1>2, <1>3 DEF GameStatusFailed
<1>4. CASE \E t \in Teams, m \in Mates, bForce \in BOOLEAN : GameStatusPlayerOut(t, m, bForce)
  <2>1. PICK t \in Teams, m \in Mates, bForce \in BOOLEAN : GameStatusPlayerOut(t, m, bForce)
    BY <1>4
  <2>2. CASE OthersOut(t, m)
    BY <1>2, <2>1, <2>2 DEF GameStatusPlayerOut
  <2>3. CASE ~OthersOut(t, m)
    BY <2>1, <2>3 DEF GameStatusPlayerOut, gameVars
  <2>. QED BY <2>2, <2>3
<1>5. CASE End
  <2>1. PlayingParts({}, Playing) /\ Finish({}, Playing, {LastOf(Playing)})
    BY <1>5 DEF End, PlayingParts
  <2>. QED BY <2>1
<1>6. CASE GameStatusTechnical \/ BeginTick \/ EndTick \/ UNCHANGED vars
  BY <1>6 DEF GameStatusTechnical, BeginTick, EndTick, vars, teamVars, gameVars
<1>. QED BY <1>1, <1>3, <1>4, <1>5, <1>6 DEF Next, StatusCall

LEMMA FilledInvariance == Spec => []RanksFilled
<1>1. Init => RanksFilled
  BY ConstantsAssumption DEF Init, RanksFilled
<1>2. IInv /\ RanksFilled /\ [Next]_vars => RanksFilled'
  <2>. SUFFICES ASSUME IInv, RanksFilled, [Next]_vars PROVE RanksFilled'
    OBVIOUS
  <2>1. CASE \E C, F, U : PlayingParts(C, F) /\ Finish(C, F, U)
    BY <2>1, FinishFills
  <2>2. CASE Start
    BY <2>2, ConstantsAssumption DEF Start, RanksFilled
  <2>3. CASE UNCHANGED <<rank, rankCompleted, rankFailed>>
    BY <2>3 DEF RanksFilled
  <2>. QED BY <2>1, <2>2, <2>3, StepKinds
<1>. QED BY <1>1, <1>2, Invariance, PTL DEF Spec

\* The places of the teams, as the refinement mapping of GameStatus defines them.
Places == [t \in Teams |-> IF rank[t] = -1 THEN 0 ELSE rank[t]]

LEMMA FinishIsAward ==
    ASSUME IInv, RanksFilled, NEW C, NEW F, NEW U, PlayingParts(C, F), Finish(C, F, U)
    PROVE  Ranking!Next
<1>. USE ConstantsAssumption
<1>1. /\ C \in SUBSET Teams /\ F \in SUBSET Teams /\ C \cap F = {}
      /\ rankCompleted \in 1 .. NTeams + 1 /\ rankFailed \in 0 .. NTeams
      /\ Cardinality(C) \in Nat /\ Cardinality(F) \in Nat
      /\ rankCompleted + Cardinality(C) <= rankFailed - Cardinality(F) + 1
      /\ rankCompleted' = rankCompleted + Cardinality(C)
      /\ rankFailed' = rankFailed - Cardinality(F)
  BY NewRanks DEF IInv, TypeOK, PlayingParts, Playing, Finish
<1>2. \A t \in Teams : rank'[t] = NewRank(t, C, F)
  BY DEF Finish
<1>3. /\ rank \in [Teams -> {-1} \cup 1 .. NTeams]
      /\ rank' \in [Teams -> {-1} \cup 1 .. NTeams]
      /\ \A t \in Teams : rank[t] = -1 \/ rank[t] <= rankCompleted - 1 \/ rank[t] >= rankFailed + 1
  BY FinishKeepsTypes DEF IInv, TypeOK, RanksMeetInTheMiddle, TeamStatuses
<1>4. \A t \in C \cup F : rank[t] = -1
  BY DEF IInv, PlayingParts, Playing, StatusMatchesTime, RanksMeetInTheMiddle
<1>5. /\ \A t \in C : rank'[t] \in rankCompleted .. rankCompleted' - 1
      /\ \A t \in F : rank'[t] \in rankFailed' + 1 .. rankFailed
      /\ \A t \in Teams \ (C \cup F) : rank'[t] = rank[t]
      /\ \A t, u \in C \cup F : t # u => rank'[t] # rank'[u]
  BY <1>1, <1>2, NewRanks
<1>6. \A p \in 1 .. NTeams : (\A t \in Teams : rank'[t] # p) => p \in rankCompleted' .. rankFailed'
  <2>1. RanksFilled'
    BY FinishFills
  <2>. QED BY <1>1, <2>1 DEF RanksFilled
<1>7. Places \in [Teams -> 0 .. NTeams] /\ Places' \in [Teams -> 0 .. NTeams]
  BY <1>3 DEF Places
<1>8. C \in SUBSET Ranking!Unplaced /\ F \in SUBSET Ranking!Unplaced
  BY <1>1, <1>4 DEF Ranking!Unplaced
<1>9. Ranking!Award(C, F)
  <2>1. Places' \in [Teams -> Ranking!Places \cup {0}]
    BY <1>7 DEF Ranking!Places
  <2>2. \A t \in Teams \ (C \cup F) : Places'[t] = Places[t]
    BY <1>5 DEF Places
  <2>3. \A t \in C \cup F : rank'[t] \in 1 .. NTeams /\ Places'[t] = rank'[t]
    BY <1>1, <1>5 DEF Places
  <2>4. ASSUME NEW t \in C \cup F
        PROVE  /\ Places'[t] \in Ranking!Free
               /\ \A u \in (C \cup F) \ {t} : Places'[u] # Places'[t]
    <3>1. \A u \in Teams : Places[u] # rank'[t]
      BY <1>1, <1>3, <1>5, <2>3 DEF Places
    <3>2. Places'[t] \in Ranking!Free
      BY <2>3, <3>1 DEF Ranking!Free, Ranking!Places, Places
    <3>. QED BY <1>5, <2>3, <3>2
  <2>5. \A p \in Ranking!Free' : p \in rankCompleted' .. rankFailed'
    <3>. SUFFICES ASSUME NEW p \in 1 .. NTeams, \A t \in Teams : Places'[t] # p
                  PROVE  p \in rankCompleted' .. rankFailed'
      BY DEF Ranking!Free, Ranking!Places, Places
    <3>1. \A t \in Teams : rank'[t] # p
      BY <1>3 DEF Places
    <3>. QED BY <1>6, <3>1
  <2>6. \A t \in C, p \in Ranking!Free' : Places'[t] < p
    BY <1>1, <1>5, <2>3, <2>5
  <2>7. \A t \in F, p \in Ranking!Free' : p < Places'[t]
    BY <1>1, <1>5, <2>3, <2>5
  <2>8. \A t \in C, u \in F : Places'[t] < Places'[u]
    BY <1>1, <1>5, <2>3
  <2>. QED BY <2>1, <2>2, <2>4, <2>6, <2>7, <2>8 DEF Ranking!Award, Places
<1>. QED BY <1>1, <1>8, <1>9 DEF Ranking!Next

\* Every step of the handlers gives out places as TeamRanking allows, or none:
\* the ranks implement the abstract ranking for any number of teams.
THEOREM RankingImplemented == Spec => ImplementsRanking
<1>1. Init => Ranking!Init
  BY DEF Init, ForAllTeams, Ranking!Init, Ranking!NoPlace
<1>2. IInv /\ RanksFilled /\ [Next]_vars => [Ranking!Next]_Places
  <2>. SUFFICES ASSUME IInv, RanksFilled, [Next]_vars
                PROVE  Ranking!Next \/ UNCHANGED Places
    OBVIOUS
  <2>1. CASE \E C, F, U : PlayingParts(C, F) /\ Finish(C, F, U)
    BY <2>1, FinishIsAward
  <2>2. CASE Start
    BY <2>2 DEF Start, ForAllTeams, Ranking!Next, Ranking!NewGame, Ranking!NoPlace
  <2>3. CASE UNCHANGED <<rank, rankCompleted, rankFailed>>
    BY <2>3 DEF Places
  <2>. QED BY <2>1, <2>2, <2>3, StepKinds
<1>. QED BY <1>1, <1>2, Invariance, FilledInvariance, PTL
         DEF Spec, ImplementsRanking, Ranking!Spec, Places
=============================================================================
