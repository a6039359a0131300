---------------------------- MODULE TeamRanking -----------------------------
(***************************************************************************)
(* What the ranking of a game promises: every place is given once, the     *)
(* teams that complete take the best places still free, those that fail    *)
(* the worst ones, and no place is taken back within a game.               *)
(***************************************************************************)
EXTENDS Integers

CONSTANTS
    Teams,
    NTeams      \* how many teams, and places, there are

VARIABLE place      \* place of each team, 0 while it has none

Places   == 1 .. NTeams
Free     == Places \ {place[t] : t \in Teams}
Unplaced == {t \in Teams : place[t] = 0}
NoPlace  == [t \in Teams |-> 0]

\* The teams of C complete and those of F fail in one step.
Award(C, F) ==
    /\ place' \in [Teams -> Places \cup {0}]
    /\ \A t \in Teams \ (C \cup F) : place'[t] = place[t]
    /\ \A t \in C \cup F :
          /\ place'[t] \in Free
          /\ \A u \in (C \cup F) \ {t} : place'[u] # place'[t]
    /\ \A t \in C, p \in Free' : place'[t] < p
    /\ \A t \in F, p \in Free' : p < place'[t]
    /\ \A t \in C, u \in F : place'[t] < place'[u]

NewGame == place' = NoPlace

Init == place = NoPlace

Next ==
    \/ \E C, F \in SUBSET Unplaced : C \cap F = {} /\ Award(C, F)
    \/ NewGame

Spec == Init /\ [][Next]_place
=============================================================================
