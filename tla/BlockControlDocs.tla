-------------------------- MODULE BlockControlDocs --------------------------
(***************************************************************************)
(* What the comments on the lists of controllable blocks say.              *)
(***************************************************************************)
EXTENDS BlockControl

\* level.h:854: m_oOrderedControllable "contains all LevelBlocks that have team
\* constraint (index in m_aTeamData) or can be controlled by any team (-1)".
ContainsAllControllable ==
    \A t \in Teams, b \in inLevel :
        controllable[b] /\ t \in TeamsFor(controllerTeam[b]) => b \in ToSet(ordered[t])
=============================================================================
