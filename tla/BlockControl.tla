---------------------------- MODULE BlockControl ----------------------------
(***************************************************************************)
(* Which mate controls which block of a level: Level::blockAddCommon,      *)
(* blockRemoveCommon, blockCycleControl, blockSetControllable,             *)
(* repositionLevelBlock and their helpers.                                 *)
(*                                                                         *)
(* A block and the mate that controls it point to each other; each team    *)
(* keeps a list of the blocks its mates may control, ordered by position   *)
(* when a block enters it, and a count of the mates in control. A mate     *)
(* that loses its block takes the next free one of the list, and a block   *)
(* that becomes available goes to the mate that waits longest.             *)
(*                                                                         *)
(* Listeners called in between must not change players                     *)
(* (levellisteners.h:244), so that each operation is one step.             *)
(***************************************************************************)
EXTENDS Integers, SequencesExt

CONSTANTS
    Blocks,         \* level blocks
    NoBlock,        \* the null pointer
    NTeams,         \* teams in the level
    NMates,         \* mates in each team
    MaxX,           \* bound: positions of blocks are 0..MaxX
    MaxTime,        \* bound: game time
    RestrictOwnOnly \* whether callers restrict a block to a team only while a
                    \* mate of that team controls it

ASSUME ConstantsAssumption ==
    /\ NoBlock \notin Blocks
    /\ NTeams \in Nat \ {0}
    /\ NMates \in Nat \ {0}
    /\ MaxX \in Nat
    /\ MaxTime \in Nat
    /\ RestrictOwnOnly \in BOOLEAN

AnyTeam == -1
Teams   == 0 .. NTeams - 1
Mates   == Teams \X (0 .. NMates - 1)
NoMate  == <<-1, -1>>
Xs      == 0 .. MaxX

VARIABLES
    \* of each block
    inLevel,        \* the blocks in the level
    posX,
    controllable,   \* m_bControllable
    controllerTeam, \* m_nControllerTeam, AnyTeam for all
    player,         \* m_nTeam, m_nTeammate and m_nPlayer, which change together
    \* of each mate
    controlled,     \* m_p0Controlled
    lastTime,       \* m_nLastTimeInControl
    \* of each team
    ordered,        \* m_oOrderedControllable
    totInControl,   \* m_nTotInControl
    time            \* Game::gameElapsed

blockVars == <<inLevel, posX, controllable, controllerTeam>>
mateVars  == <<player, controlled, lastTime, totInControl>>
vars      == <<blockVars, mateVars, ordered, time>>

TeamOf(p) == p[1]

\* The teams whose mates may control a block with this controller team.
TeamsFor(team) == IF team = AnyTeam THEN Teams ELSE {team}

-----------------------------------------------------------------------------
(* Lists of blocks *)

IndexOf(s, b) == CHOOSE i \in 1 .. Len(s) : s[i] = b

\* Where b goes: before the first block that is to its right.
Slot(s, b, pos) == Min({i \in 1 .. Len(s) : pos[b] < pos[s[i]]} \cup {Len(s) + 1})

\* blockAddToControllable for the teams of S.
AddToLists(b, S, pos) ==
    [t \in Teams |-> IF t \in S THEN InsertAt(ordered[t], Slot(ordered[t], b, pos), b)
                                ELSE ordered[t]]

\* blockRemoveFromControllable for the teams of S.
RemoveFromLists(b, S) ==
    [t \in Teams |-> IF t \in S THEN RemoveFirst(ordered[t], b) ELSE ordered[t]]

\* The iterators of b are those of nodes in the lists. Erasing another one, or
\* starting from it, is undefined behaviour: no step is modelled.
ValidIterators(b) == \A t \in TeamsFor(controllerTeam[b]) : b \in ToSet(ordered[t])

\* repositionLevelBlock in one list: back before the blocks directly preceding b
\* that are to its right or else ahead of those that follow and are not.
Repositioned(s, b, pos) ==
    LET i     == IndexOf(s, b)
        stay  == {j \in 1 .. i - 1 : pos[s[j]] <= pos[b]}
        back  == 1 + Max(stay \cup {0})
        ahead == Min({j \in i + 1 .. Len(s) : pos[b] < pos[s[j]]} \cup {Len(s) + 1})
    IN  InsertAt(RemoveFirst(s, b), IF back < i THEN back ELSE ahead - 1, b)

-----------------------------------------------------------------------------
(* Giving and taking control *)

Idle(S) == {p \in Mates : TeamOf(p) \in S /\ controlled[p] = NoBlock}

\* The idle mates of the teams that have some by their count.
Waiting(S) == {p \in Idle(S) : totInControl[TeamOf(p)] < NMates}

\* Faulty variant: any idle mate will do.
WaitingAnyone(S) == Waiting(S)

\* The idle mates among which chance decides.
LongestWaiting(S) == {p \in Waiting(S) : \A q \in Waiting(S) : lastTime[p] <= lastTime[q]}

\* blockAssignToMate
Assign(b, p) ==
    /\ player'       = [player EXCEPT ![b] = p]
    /\ controlled'   = [controlled EXCEPT ![p] = b]
    /\ lastTime'     = [lastTime EXCEPT ![p] = time]
    /\ totInControl' = [totInControl EXCEPT ![TeamOf(p)] = @ + 1]

\* blockAssignControlToLongestWaitingMate
AssignToWaiting(b, S) ==
    IF Waiting(S) = {} THEN UNCHANGED mateVars
                       ELSE \E p \in LongestWaiting(S) : Assign(b, p)

\* The free block that follows b in the list of team t, going round.
NextFree(b, t) ==
    LET s    == ordered[t]
        i    == IndexOf(s, b)
        at(k) == s[((i - 1 + k) % Len(s)) + 1]
        free == {k \in 1 .. Len(s) - 1 : player[at(k)] = NoMate}
    IN  IF free = {} THEN NoBlock ELSE at(Min(free))

\* Faulty variants: the mate is given no other block; the block is counted as lost
\* even when it is replaced.
HandOverNothing(b) ==
    LET p == player[b]
    IN  /\ player'       = [player EXCEPT ![b] = NoMate]
        /\ controlled'   = [controlled EXCEPT ![p] = NoBlock]
        /\ totInControl' = [totInControl EXCEPT ![TeamOf(p)] = @ - 1]
        /\ UNCHANGED lastTime
HandOverCountedLost(b) ==
    LET p == player[b]
        n == NextFree(b, TeamOf(p))
    IN  /\ player'       = [x \in Blocks |-> IF x = b THEN NoMate ELSE IF x = n THEN p ELSE player[x]]
        /\ controlled'   = [controlled EXCEPT ![p] = n]
        /\ totInControl' = [totInControl EXCEPT ![TeamOf(p)] = @ - 1]
        /\ UNCHANGED lastTime

\* Faulty variant: the mate that is left without a block stays counted.
HandOverStillCounted(b) ==
    LET p == player[b]
        n == NextFree(b, TeamOf(p))
    IN  /\ player'     = [x \in Blocks |-> IF x = b THEN NoMate ELSE IF x = n THEN p ELSE player[x]]
        /\ controlled' = [controlled EXCEPT ![p] = n]
        /\ UNCHANGED <<lastTime, totInControl>>

\* blockUnassignControlFromMate, and blockAssignToMate with the block it returns:
\* the mate that controls b loses it and takes the next free one.
HandOver(b) ==
    LET p == player[b]
        n == NextFree(b, TeamOf(p))
    IN  IF n = NoBlock
        THEN /\ player'       = [player EXCEPT ![b] = NoMate]
             /\ controlled'   = [controlled EXCEPT ![p] = NoBlock]
             /\ totInControl' = [totInControl EXCEPT ![TeamOf(p)] = @ - 1]
             /\ UNCHANGED lastTime
        ELSE /\ player'       = [player EXCEPT ![b] = NoMate, ![n] = p]
             /\ controlled'   = [controlled EXCEPT ![p] = n]
             /\ lastTime'     = [lastTime EXCEPT ![p] = time]
             /\ UNCHANGED totInControl

\* What happens to the control of b unless a mate of team t (if any) has it.
LoseControl(b, t) ==
    IF player[b] = NoMate \/ TeamOf(player[b]) = t THEN UNCHANGED mateVars ELSE HandOver(b)

\* blockRemoveCommon
Leave(b) ==
    /\ LoseControl(b, AnyTeam)
    /\ inLevel' = inLevel \ {b}

\* Faulty variant: only the team that had control forgets the block.
ListsWithoutForOne(b) ==
    IF controllable[b] THEN RemoveFromLists(b, TeamsFor(controllerTeam[b]) \cap {TeamOf(player[b])})
                       ELSE ordered

\* The lists once b has left.
ListsWithout(b) ==
    IF controllable[b] THEN RemoveFromLists(b, TeamsFor(controllerTeam[b])) ELSE ordered

-----------------------------------------------------------------------------
(* The operations *)

Usable(b) == b \in inLevel /\ (controllable[b] => ValidIterators(b))

Init ==
    /\ inLevel        = {}
    /\ posX           = [b \in Blocks |-> 0]
    /\ controllable   = [b \in Blocks |-> FALSE]
    /\ controllerTeam = [b \in Blocks |-> AnyTeam]
    /\ player         = [b \in Blocks |-> NoMate]
    /\ controlled     = [p \in Mates |-> NoBlock]
    /\ lastTime       = [p \in Mates |-> p[2] - NMates]
    /\ ordered        = [t \in Teams |-> <<>>]
    /\ totInControl   = [t \in Teams |-> 0]
    /\ time           = 0

Tick ==
    /\ time < MaxTime
    /\ time' = time + 1
    /\ UNCHANGED <<blockVars, mateVars, ordered>>

\* blockAddCommon of a block set up with blockInitialSet.
Add(b, x, can, team) ==
    /\ b \notin inLevel
    /\ inLevel'        = inLevel \cup {b}
    /\ posX'           = [posX EXCEPT ![b] = x]
    /\ controllable'   = [controllable EXCEPT ![b] = can]
    /\ controllerTeam' = [controllerTeam EXCEPT ![b] = team]
    /\ ordered' = IF can THEN AddToLists(b, TeamsFor(team), posX') ELSE ordered
    /\ IF can THEN AssignToWaiting(b, TeamsFor(team)) ELSE UNCHANGED mateVars
    /\ UNCHANGED time

\* blockRemove, blockDestroy and blockFreeze
BlockRemove(b) ==
    /\ Usable(b)
    /\ Leave(b)
    /\ ordered' = ListsWithout(b)
    /\ UNCHANGED <<posX, controllable, controllerTeam, time>>

\* blockFuse: the master takes the victim's bricks and is laid out anew, which may
\* move it either way.
Fuse(master, victim, x) ==
    /\ master # victim
    /\ Usable(master)
    /\ Usable(victim)
    /\ posX' = [posX EXCEPT ![master] = x]
    /\ Leave(victim)
    /\ ordered' = IF player'[master] = NoMate THEN ListsWithout(victim)
                  ELSE [t \in Teams |-> IF t \in TeamsFor(controllerTeam[master])
                                        THEN Repositioned(ListsWithout(victim)[t], master, posX')
                                        ELSE ListsWithout(victim)[t]]
    /\ UNCHANGED <<controllable, controllerTeam, time>>

\* blockMovePos and the like.
Move(b, x) ==
    /\ b \in inLevel
    /\ posX[b] # x
    /\ posX' = [posX EXCEPT ![b] = x]
    /\ UNCHANGED <<inLevel, controllable, controllerTeam, mateVars, ordered, time>>

\* Faulty variant: whether somebody else has the block is not checked.
PreferableToAnyone(b, t) ==
    /\ controllable[b]
    /\ t \in TeamsFor(controllerTeam[b])

\* Whether a mate of team t may have b next, in blockCycleControl.
Preferable(b, t) ==
    /\ player[b] = NoMate
    /\ controllable[b]
    /\ t \in TeamsFor(controllerTeam[b])

\* blockCycleControl, preferred in inLevel or NoBlock
Cycle(b, preferred) ==
    /\ Usable(b)
    /\ player[b] # NoMate
    /\ LET p == player[b]
           n == IF preferred # NoBlock /\ Preferable(preferred, TeamOf(p))
                THEN preferred
                ELSE NextFree(b, TeamOf(p))
       IN  /\ n # NoBlock
           /\ player'     = [player EXCEPT ![b] = NoMate, ![n] = p]
           /\ controlled' = [controlled EXCEPT ![p] = n]
           /\ lastTime'   = [lastTime EXCEPT ![p] = time]
    /\ UNCHANGED <<blockVars, totInControl, ordered, time>>

-----------------------------------------------------------------------------
(* blockSetControllable *)

\* A block for one team is opened to all.
Enlarge(b) ==
    /\ Usable(b)
    /\ controllable[b]
    /\ controllerTeam[b] # AnyTeam
    /\ controllerTeam' = [controllerTeam EXCEPT ![b] = AnyTeam]
    /\ ordered' = AddToLists(b, Teams \ {controllerTeam[b]}, posX)
    /\ UNCHANGED <<inLevel, posX, controllable, mateVars, time>>

\* A block for all teams is restricted to one: it leaves the lists of all teams
\* but that of the mate that controlled it.
RestrictTo(b, team) ==
    /\ Usable(b)
    /\ controllable[b]
    /\ controllerTeam[b] = AnyTeam
    /\ RestrictOwnOnly => TeamOf(player[b]) = team
    /\ controllerTeam' = [controllerTeam EXCEPT ![b] = team]
    /\ LoseControl(b, team)
    /\ ordered' = RemoveFromLists(b, Teams \ {TeamOf(player[b])})
    /\ UNCHANGED <<inLevel, posX, controllable, time>>

\* A block for one team is given to another.
ChangeTeam(b, team) ==
    /\ Usable(b)
    /\ controllable[b]
    /\ controllerTeam[b] \notin {AnyTeam, team}
    /\ controllerTeam' = [controllerTeam EXCEPT ![b] = team]
    /\ LoseControl(b, team)
    /\ ordered' = [RemoveFromLists(b, {controllerTeam[b]}) EXCEPT
                      ![team] = AddToLists(b, {team}, posX)[team]]
    /\ UNCHANGED <<inLevel, posX, controllable, time>>

MakeControllable(b, team) ==
    /\ Usable(b)
    /\ ~controllable[b]
    /\ controllable'   = [controllable EXCEPT ![b] = TRUE]
    /\ controllerTeam' = [controllerTeam EXCEPT ![b] = team]
    /\ ordered' = AddToLists(b, TeamsFor(team), posX)
    /\ AssignToWaiting(b, TeamsFor(team))
    /\ UNCHANGED <<inLevel, posX, time>>

MakeUncontrollable(b) ==
    /\ Usable(b)
    /\ controllable[b]
    /\ controllable'   = [controllable EXCEPT ![b] = FALSE]
    /\ controllerTeam' = [controllerTeam EXCEPT ![b] = AnyTeam]
    /\ LoseControl(b, AnyTeam)
    /\ ordered' = ListsWithout(b)
    /\ UNCHANGED <<inLevel, posX, time>>

Next ==
    \/ Tick
    \/ \E b \in Blocks :
        \/ \E x \in Xs, can \in BOOLEAN, team \in Teams \cup {AnyTeam} : Add(b, x, can, team)
        \/ BlockRemove(b)
        \/ \E victim \in Blocks, x \in Xs : Fuse(b, victim, x)
        \/ \E x \in Xs : Move(b, x)
        \/ \E preferred \in inLevel \cup {NoBlock} : Cycle(b, preferred)
        \/ Enlarge(b)
        \/ MakeUncontrollable(b)
        \/ \E team \in Teams : RestrictTo(b, team) \/ ChangeTeam(b, team)
        \/ \E team \in Teams \cup {AnyTeam} : MakeControllable(b, team)

Spec == Init /\ [][Next]_vars

-----------------------------------------------------------------------------
(* Properties *)

\* Blocks, mates and lists have their types; a block has no player unless it is
\* in the level.
TypeOK ==
    /\ inLevel \subseteq Blocks
    /\ posX \in [Blocks -> Xs]
    /\ controllable \in [Blocks -> BOOLEAN]
    /\ controllerTeam \in [Blocks -> Teams \cup {AnyTeam}]
    /\ player \in [Blocks -> Mates \cup {NoMate}]
    /\ controlled \in [Mates -> Blocks \cup {NoBlock}]
    /\ lastTime \in [Mates -> -NMates .. MaxTime]
    /\ ordered \in [Teams -> Seq(Blocks)]
    /\ totInControl \in [Teams -> 0 .. NMates]
    /\ time \in 0 .. MaxTime

\* A mate and the block it controls name each other, and the block is one its team
\* may control (level.h:845, the asserts of blockUnassignControlFromMate).
ControlMirrored ==
    /\ \A p \in Mates : controlled[p] # NoBlock =>
        /\ player[controlled[p]] = p
        /\ controlled[p] \in inLevel
        /\ controllable[controlled[p]]
        /\ TeamOf(p) \in TeamsFor(controllerTeam[controlled[p]])
    /\ \A b \in Blocks : player[b] # NoMate => controlled[player[b]] = b

\* The count of mates in control of each team is right, so that no waiting mate is
\* overlooked (level.h:859, level.cc:1174).
CountInControl ==
    \A t \in Teams :
        totInControl[t] = Cardinality({p \in Mates : TeamOf(p) = t /\ controlled[p] # NoBlock})

\* The list of each team holds the blocks of the level its mates may control, each
\* once: the iterators kept in the blocks stay valid and none dangles (level.h:854).
ListsHoldControllable ==
    \A t \in Teams :
        /\ ToSet(ordered[t]) = {b \in inLevel : controllable[b] /\ t \in TeamsFor(controllerTeam[b])}
        /\ IsInjective(ordered[t])

\* A mate is left without block only while its team's list has no free one.
ReplacedWhenPossible ==
    [][\A p \in Mates : controlled[p] # NoBlock /\ controlled'[p] = NoBlock =>
          \A b \in ToSet(ordered'[TeamOf(p)]) : player'[b] # NoMate]_vars

\* Only mates waiting longest get a block that becomes available, and nobody who
\* waits for it is passed over for nothing.
LongestIdleServed ==
    [][\A b \in Blocks : (b \notin inLevel \/ ~controllable[b]) /\ b \in inLevel' /\ controllable'[b] =>
          LET waiting == {p \in Mates : controlled[p] = NoBlock
                                        /\ TeamOf(p) \in TeamsFor(controllerTeam'[b])}
          IN  /\ waiting # {} => player'[b] \in waiting
              /\ player'[b] # NoMate => \A p \in waiting : lastTime[player'[b]] <= lastTime[p]]_vars

\* With one team, no mate is idle while a block it may control is free: what is
\* taken from one is always given to another.
NoIdleMateBesideFreeBlock ==
    \A t \in Teams : Idle({t}) = {} \/ \A b \in ToSet(ordered[t]) : player[b] # NoMate

\* Whether p is idle while a block of its team's list is free.
WaitsBesideFree(p) ==
    controlled[p] = NoBlock /\ \E b \in ToSet(ordered[TeamOf(p)]) : player[b] = NoMate

\* With several teams a mate may come to wait beside a free block, but only beside one
\* that a mate of another team gives up in that step, or that is opened to its team:
\* blockCycleControl and blockSetControllable look for nobody then (level.cc:1593,
\* level.cc:1625). Nothing else leaves a mate out.
LeftWaitingByOthers ==
    [][\A p \in Mates : ~WaitsBesideFree(p) /\ WaitsBesideFree(p)' =>
          \E b \in ToSet(ordered'[TeamOf(p)]) :
             /\ player'[b] = NoMate
             /\ \/ player[b] # NoMate /\ TeamOf(player[b]) # TeamOf(p)
                \/ /\ player[b] = NoMate /\ b \in inLevel /\ controllable[b]
                   /\ b \notin ToSet(ordered[TeamOf(p)])]_vars
=============================================================================
