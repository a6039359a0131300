------------------------------- MODULE Agenda -------------------------------
(***************************************************************************)
(* What the levels promise to the code that activates events (the comments *)
(* of Level::activateEvent and triggerEvent): in each game tick the due    *)
(* events have their turns one after the other, in each level the earliest *)
(* first and of those for the same tick one of the highest priority; the   *)
(* turn ends the activation; what is activated, moved or taken back during *)
(* a turn counts at once; and the tick does not end while anything is due. *)
(* Which level goes first is left open.                                    *)
(***************************************************************************)
EXTENDS Integers

CONSTANTS Events, LevelOf, Priority, Times

VARIABLES
    at,    \* the tick each event is activated for, Never if it is not active
    tick,  \* the current game tick
    phase, \* "idle" outside the tick, then "blocks" and "events"
    turn   \* the event that has its turn: a set of at most one

vars == <<at, tick, phase, turn>>

Never == -1

DueEvents == {e \in Events : at[e] # Never /\ at[e] <= tick}

\* Whether e goes before f of the same level, or may.
Before(e, f) == at[e] < at[f] \/ (at[e] = at[f] /\ Priority[e] >= Priority[f])

Init ==
    /\ at = [e \in Events |-> Never]
    /\ tick = 0
    /\ phase = "idle"
    /\ turn = {}

\* An event is activated, moved or deactivated, or called before its time.
Change(e, t) ==
    /\ phase = "events" => turn # {}
    /\ at' = [at EXCEPT ![e] = t]
    /\ UNCHANGED <<tick, phase, turn>>

Begin(p, q) == phase = p /\ phase' = q /\ UNCHANGED <<at, tick, turn>>

TakeTurn(e) ==
    /\ phase = "events" /\ turn = {}
    /\ e \in DueEvents
    /\ \A f \in DueEvents : LevelOf[f] = LevelOf[e] => Before(e, f)
    /\ turn' = {e}
    /\ at' = [at EXCEPT ![e] = Never]
    /\ UNCHANGED <<tick, phase>>

EndTurn ==
    /\ turn # {}
    /\ turn' = {}
    /\ UNCHANGED <<at, tick, phase>>

EndTick ==
    /\ phase = "events" /\ turn = {}
    /\ DueEvents = {}
    /\ phase' = "idle"
    /\ tick' = tick + 1
    /\ UNCHANGED <<at, turn>>

Next ==
    \/ \E e \in Events, t \in Times \cup {Never} : Change(e, t)
    \/ Begin("idle", "blocks") \/ Begin("blocks", "events")
    \/ \E e \in Events : TakeTurn(e)
    \/ EndTurn \/ EndTick

Spec == Init /\ [][Next]_vars
=============================================================================
