----------------------------- MODULE EventQueue -----------------------------
(***************************************************************************)
(* The game tick and the events of the levels: Game::handleTimer,          *)
(* Level::handleTimerEvents, triggerEvent, activateEvent, deactivateEvent, *)
(* Game::othersSend and Level::othersReceive.                              *)
(*                                                                         *)
(* Each level keeps its active events in a list ordered by trigger time    *)
(* and priority. In a game tick inputs and blocks are handled first, then  *)
(* the due events of each level, again and again until no level is dirty.  *)
(* An event that is triggered, and the code of blocks and inputs, may      *)
(* activate, deactivate and trigger events of its level and send messages  *)
(* to listeners of the other levels, which are called at once: the calls   *)
(* under way are kept in a stack.                                          *)
(***************************************************************************)
EXTENDS Integers, SequencesExt

CONSTANTS
    NLevels,     \* levels of the game
    Events,      \* events of all levels
    LevelOf,     \* the level of each event
    Priority,    \* the priority of each event
    OthersLimit, \* nested messages a level accepts plus one (10 in the code)
    MaxTick,     \* bound: game ticks
    MaxOps       \* bound: activations, calls and messages in one tick

ASSUME ConstantsAssumption ==
    /\ NLevels \in Nat \ {0}
    /\ LevelOf \in [Events -> 0 .. NLevels - 1]
    /\ Priority \in [Events -> Int]
    /\ OthersLimit \in Nat \ {0}
    /\ MaxTick \in Nat
    /\ MaxOps \in Nat
ASSUME FiniteEvents == IsFiniteSet(Events)

Levels == 0 .. NLevels - 1
Times  == 0 .. MaxTick + 1

VARIABLES
    \* of each event
    isActive,    \* m_bIsActive
    triggerTime, \* m_nTriggerTime
    \* of each level
    active,      \* m_oActiveEvents
    dirty,       \* m_bDirtyEvents
    others,      \* m_oOthersListeners
    nested,      \* m_nOthersNestedCalls
    \* of the game
    tick,        \* m_nTick
    phase,       \* "idle" outside the tick, then "blocks" and "events"
    level,       \* nLevel of handleTimer
    inLevel,     \* whether handleTimerEvents of that level is under way
    stack,       \* the calls under way, the innermost first
    ops          \* activations, calls and messages left

eventVars == <<isActive, triggerTime, active>>
tickVars  == <<tick, phase, level, inLevel>>
vars      == <<eventVars, dirty, others, nested, tickVars, stack, ops>>

-----------------------------------------------------------------------------
(* The calls under way *)

Trigger(e)       == [kind |-> "trigger", event |-> e]           \* Event::trigger
Send(l, n)       == [kind |-> "send", from |-> l, next |-> n]   \* Game::othersSend
Receive(l, rest) == [kind |-> "receive", at |-> l, rest |-> rest] \* Level::othersReceive

Top == Head(stack)

TopIs(kind) == stack # <<>> /\ Top.kind = kind

\* Whether code of level l, other than that of Level itself, is running.
Running(l) ==
    IF stack = <<>> THEN phase = "blocks" ELSE TopIs("trigger") /\ LevelOf[Top.event] = l

\* The receive calls of level l.
Receiving(l) == {i \in 1 .. Len(stack) : stack[i].kind = "receive" /\ stack[i].at = l}

-----------------------------------------------------------------------------
(* Operations on the list of active events *)

\* Faulty variant: the lowest priority comes first.
AheadWhenLower(f, e, t) ==
    \/ triggerTime[f] < t
    \/ triggerTime[f] = t /\ Priority[f] < Priority[e]

\* Whether active event f stays ahead of event e when e is activated for time t.
Ahead(f, e, t) ==
    \/ triggerTime[f] < t
    \/ triggerTime[f] = t /\ Priority[f] > Priority[e]

\* Before the first event that is not ahead.
Inserted(s, e, t) ==
    InsertAt(s, Min({i \in 1 .. Len(s) : ~Ahead(s[i], e, t)} \cup {Len(s) + 1}), e)

\* Faulty variant: the event goes on saying that it is active.
DeactivatedInListOnly(e) ==
    /\ UNCHANGED isActive
    /\ active' = IF isActive[e] THEN [active EXCEPT ![LevelOf[e]] = RemoveFirst(@, e)]
                                ELSE active

\* Level::deactivateEvent(e, true)
Deactivated(e) ==
    /\ isActive' = [isActive EXCEPT ![e] = FALSE]
    /\ active' = IF isActive[e] THEN [active EXCEPT ![LevelOf[e]] = RemoveFirst(@, e)]
                                ELSE active

\* Faulty variants: the level is not marked; the event stays active.
FireUnmarked(e, below) ==
    /\ Deactivated(e)
    /\ stack' = <<Trigger(e)>> \o below
    /\ UNCHANGED <<triggerTime, dirty>>
FireStillActive(e, below) ==
    /\ dirty' = [dirty EXCEPT ![LevelOf[e]] = TRUE]
    /\ stack' = <<Trigger(e)>> \o below
    /\ UNCHANGED eventVars

\* Level::triggerEvent past the filters, called from the calls below.
Fire(e, below) ==
    /\ Deactivated(e)
    /\ dirty' = [dirty EXCEPT ![LevelOf[e]] = TRUE]
    /\ stack' = <<Trigger(e)>> \o below
    /\ UNCHANGED triggerTime

-----------------------------------------------------------------------------
(* What the code of events, blocks and inputs does *)

SomeOp == ops > 0 /\ ops' = ops - 1

\* Level::activateEvent, also by those who set the game up.
ActivateEvent(e, t) ==
    /\ Running(LevelOf[e]) \/ phase = "idle"
    /\ SomeOp
    /\ isActive'    = [isActive EXCEPT ![e] = TRUE]
    /\ triggerTime' = [triggerTime EXCEPT ![e] = t]
    /\ active' = [active EXCEPT ![LevelOf[e]] =
                     Inserted(IF isActive[e] THEN RemoveFirst(@, e) ELSE @, e, t)]
    /\ UNCHANGED <<dirty, others, nested, tickVars, stack>>

\* Level::deactivateEvent
DeactivateEvent(e) ==
    /\ Running(LevelOf[e]) \/ phase = "idle"
    /\ isActive[e]
    /\ Deactivated(e)
    /\ triggerTime' = [triggerTime EXCEPT ![e] = -1]
    /\ UNCHANGED <<dirty, others, nested, tickVars, stack, ops>>

\* Event::informListeners or Level::triggerEvent
CallEvent(e) ==
    /\ Running(LevelOf[e])
    /\ SomeOp
    /\ Fire(e, stack)
    /\ UNCHANGED <<others, nested, tickVars>>

\* Level::othersAddListener
OthersAddListener(e) ==
    /\ Running(LevelOf[e]) \/ phase = "idle"
    /\ ~Contains(others[LevelOf[e]], e)
    /\ others' = [others EXCEPT ![LevelOf[e]] = Cons(e, @)]
    /\ UNCHANGED <<eventVars, dirty, nested, tickVars, stack, ops>>

\* Game::othersSend by an event.
OthersSend(l) ==
    /\ TopIs("trigger")
    /\ Running(l)
    /\ SomeOp
    /\ stack' = <<Send(l, 0)>> \o stack
    /\ UNCHANGED <<eventVars, dirty, others, nested, tickVars>>

\* The trigger function of an event returns.
Return ==
    /\ TopIs("trigger")
    /\ stack' = Tail(stack)
    /\ UNCHANGED <<eventVars, dirty, others, nested, tickVars, ops>>

-----------------------------------------------------------------------------
(* Messages to the other levels *)

\* Faulty variants: a message too many is not counted out; one more is let in.
OthersReceiveStuck(l, below) ==
    /\ nested' = [nested EXCEPT ![l] = @ + 1]
    /\ stack' = IF nested[l] + 1 >= OthersLimit THEN below
                                                ELSE <<Receive(l, others[l])>> \o below
OthersReceiveOneMore(l, below) ==
    IF nested[l] + 1 > OthersLimit
    THEN stack' = below /\ UNCHANGED nested
    ELSE /\ nested' = [nested EXCEPT ![l] = @ + 1]
         /\ stack' = <<Receive(l, others[l])>> \o below

\* Level::othersReceive up to its loop.
OthersReceive(l, below) ==
    IF nested[l] + 1 >= OthersLimit
    THEN stack' = below /\ UNCHANGED nested
    ELSE /\ nested' = [nested EXCEPT ![l] = @ + 1]
         /\ stack' = <<Receive(l, others[l])>> \o below

\* One turn of the loop of othersSend, or its end.
SendToNext ==
    /\ TopIs("send")
    /\ LET n     == Top.next
           below == <<Send(Top.from, n + 1)>> \o Tail(stack)
       IN  IF n = NLevels THEN stack' = Tail(stack) /\ UNCHANGED nested
           ELSE IF n = Top.from THEN stack' = below /\ UNCHANGED nested
           ELSE OthersReceive(n, below)
    /\ UNCHANGED <<eventVars, dirty, others, tickVars, ops>>

\* One turn of the loop of othersReceive. No listener is removed meanwhile: the
\* loop is over the list itself, whose nodes stay valid when others are added.
PassOn ==
    /\ TopIs("receive")
    /\ Top.rest # <<>>
    /\ Fire(Head(Top.rest), <<Receive(Top.at, Tail(Top.rest))>> \o Tail(stack))
    /\ UNCHANGED <<others, nested, tickVars, ops>>

\* The filters of the next listener block the message.
PassOver ==
    /\ TopIs("receive")
    /\ Top.rest # <<>>
    /\ stack' = <<Receive(Top.at, Tail(Top.rest))>> \o Tail(stack)
    /\ UNCHANGED <<eventVars, dirty, others, nested, tickVars, ops>>

EndReceive ==
    /\ TopIs("receive")
    /\ Top.rest = <<>>
    /\ nested' = [nested EXCEPT ![Top.at] = @ - 1]
    /\ stack' = Tail(stack)
    /\ UNCHANGED <<eventVars, dirty, others, tickVars, ops>>

-----------------------------------------------------------------------------
(* The game tick *)

Due(e) == triggerTime[e] <= tick

\* Whether the first active event of level l is due.
SomeDue(l) == active[l] # <<>> /\ Due(Head(active[l]))

\* Game::handleTimer up to the inputs and blocks.
BeginTick ==
    /\ phase = "idle"
    /\ tick < MaxTick
    /\ phase' = "blocks"
    /\ dirty' = [l \in Levels |-> TRUE]
    /\ ops' = MaxOps
    /\ UNCHANGED <<eventVars, others, nested, tick, level, inLevel, stack>>

BlocksDone ==
    /\ phase = "blocks"
    /\ stack = <<>>
    /\ phase' = "events"
    /\ level' = 0
    /\ UNCHANGED <<eventVars, dirty, others, nested, tick, inLevel, stack, ops>>

\* The levels' loop of handleTimer is at level l, in no handleTimerEvents.
AtLevel(l) == phase = "events" /\ stack = <<>> /\ ~inLevel /\ level = l

EnterLevel ==
    /\ \E l \in Levels : AtLevel(l) /\ dirty[l]
    /\ inLevel' = TRUE
    /\ UNCHANGED <<eventVars, dirty, others, nested, tick, phase, level, stack, ops>>

NextLevel ==
    /\ \E l \in Levels : AtLevel(l) /\ ~dirty[l]
    /\ level' = level + 1
    /\ UNCHANGED <<eventVars, dirty, others, nested, tick, phase, inLevel, stack, ops>>

\* handleTimerEvents triggers its first event.
TriggerFirst ==
    /\ inLevel
    /\ stack = <<>>
    /\ SomeDue(level)
    /\ Fire(Head(active[level]), <<>>)
    /\ UNCHANGED <<others, nested, tickVars, ops>>

\* handleTimerEvents ends and the levels' loop restarts.
LeaveLevel ==
    /\ inLevel
    /\ stack = <<>>
    /\ ~SomeDue(level)
    /\ dirty' = [dirty EXCEPT ![level] = FALSE]
    /\ inLevel' = FALSE
    /\ level' = 0
    /\ UNCHANGED <<eventVars, others, nested, tick, phase, stack, ops>>

EndTick ==
    /\ AtLevel(NLevels)
    /\ phase' = "idle"
    /\ tick' = tick + 1
    /\ UNCHANGED <<eventVars, dirty, others, nested, level, inLevel, stack, ops>>

\* The bound on ticks is reached.
Finished == phase = "idle" /\ tick = MaxTick /\ UNCHANGED vars

Init ==
    /\ isActive    = [e \in Events |-> FALSE]
    /\ triggerTime = [e \in Events |-> -1]
    /\ active      = [l \in Levels |-> <<>>]
    /\ dirty       = [l \in Levels |-> FALSE]
    /\ others      = [l \in Levels |-> <<>>]
    /\ nested      = [l \in Levels |-> 0]
    /\ tick = 0 /\ phase = "idle" /\ level = 0 /\ inLevel = FALSE
    /\ stack = <<>> /\ ops = MaxOps

Next ==
    \/ \E e \in Events :
        \/ \E t \in Times : ActivateEvent(e, t)
        \/ DeactivateEvent(e)
        \/ CallEvent(e)
        \/ OthersAddListener(e)
    \/ \E l \in Levels : OthersSend(l)
    \/ Return
    \/ SendToNext \/ PassOn \/ PassOver \/ EndReceive
    \/ BeginTick \/ BlocksDone \/ EnterLevel \/ NextLevel
    \/ TriggerFirst \/ LeaveLevel \/ EndTick
    \/ Finished

Spec == Init /\ [][Next]_vars

\* The game tick runs to its end in one thread.
FairSpec == Spec /\ WF_vars(Next)

-----------------------------------------------------------------------------
(* Properties *)

TypeOK ==
    /\ isActive \in [Events -> BOOLEAN]
    /\ triggerTime \in [Events -> Times \cup {-1}]
    /\ active \in [Levels -> Seq(Events)]
    /\ dirty \in [Levels -> BOOLEAN]
    /\ others \in [Levels -> Seq(Events)]
    /\ nested \in [Levels -> 0 .. OthersLimit - 1]
    /\ tick \in 0 .. MaxTick
    /\ phase \in {"idle", "blocks", "events"}
    /\ level \in 0 .. NLevels
    /\ inLevel \in BOOLEAN
    /\ ops \in 0 .. MaxOps

\* An event is in the list of its level, once, exactly when it says it is active:
\* activating and deactivating look for it in the right list (level.cc:936, 969).
ActiveListsMatch ==
    \A l \in Levels :
        /\ ToSet(active[l]) = {e \in Events : isActive[e] /\ LevelOf[e] = l}
        /\ IsInjective(active[l])

\* The list of active events is ordered by trigger time and priority
\* (level.h:834), so that looking at its first event is enough.
ActiveListsOrdered ==
    \A l \in Levels : \A i, j \in 1 .. Len(active[l]) :
        i < j => LET e == active[l][i] f == active[l][j]
                 IN  \/ triggerTime[e] < triggerTime[f]
                     \/ triggerTime[e] = triggerTime[f] /\ Priority[e] >= Priority[f]

\* At the end of a game tick no level is left dirty (assert, game.cc:657) and no
\* active event is due: whatever was activated for this tick or an earlier one,
\* from whatever level, has been triggered in it (level.h:621).
NothingDueIsLeft ==
    [][phase = "events" /\ phase' = "idle" =>
          \A l \in Levels :
              /\ ~dirty[l]
              /\ \A e \in Events : isActive[e] => triggerTime[e] > tick]_vars

\* The nested calls counted are those under way and fewer than the limit
\* (level.cc:429): a level that refused a message goes on receiving later.
NestedCallsCounted ==
    \A l \in Levels : nested[l] = Cardinality(Receiving(l)) /\ nested[l] < OthersLimit

\* The tick each event is activated for, -1 if it is not.
Scheduled == [e \in Events |-> IF isActive[e] THEN triggerTime[e] ELSE -1]

\* The event whose turn it is in the tick: the outermost of the calls.
Turn == IF phase = "events" /\ stack # <<>> THEN {stack[Len(stack)].event} ELSE {}

A == INSTANCE Agenda WITH
        at   <- Scheduled,
        turn <- Turn

\* The lists, the flags of the levels and the loop that starts over keep the promise
\* of Level::activateEvent (level.h:619): they implement the Agenda, in which due
\* events have their turns by time and priority until none is left.
KeepsAgenda == A!Spec

\* A game tick comes to an end, provided that the handlers do not go on for ever.
TickEnds == phase # "idle" ~> phase = "idle"

(* A game tick cannot go on for ever: everything its steps use up is       *)
(* finite, and every step uses up some of it.                              *)

\* The turns a call has still to take: the levels of a send, the listeners of a
\* receive, each with the turn that ends the loop, and the return of a trigger.
Turns(f, kind) ==
    IF f.kind # kind THEN {}
    ELSE CASE kind = "send"    -> f.next .. NLevels
           [] kind = "receive" -> 0 .. Len(f.rest)
           [] OTHER            -> {0}

\* The turns of all the calls of one kind, counting the calls from the outermost.
TurnsLeft(s, kind) == UNION {{i} \X Turns(s[Len(s) + 1 - i], kind) : i \in 1 .. Len(s)}

NotListening == {e \in Events : ~Contains(others[LevelOf[e]], e)}
ActiveEvents == {e \in Events : isActive[e]}
DirtyLevels  == {l \in Levels : dirty[l]}
PhasesLeft   == CASE phase = "blocks" -> {1, 2} [] phase = "events" -> {1} [] OTHER -> {}
LoopLeft     == 2 * level + (IF inLevel THEN 1 ELSE 0) .. 2 * NLevels

\* What a tick uses up, the most important first: what a step leaves of the ones
\* further down does not matter.
Work ==
    << 1 .. ops, NotListening, ActiveEvents,
       TurnsLeft(stack, "send"), TurnsLeft(stack, "receive"), TurnsLeft(stack, "trigger"),
       PhasesLeft, DirtyLevels, LoopLeft >>

Less(S, T) == S \subseteq T /\ S # T

LessWork(v, w) ==
    \E i \in 1 .. Len(w) : Less(v[i], w[i]) /\ \A j \in 1 .. i - 1 : v[j] = w[j]

\* In a tick every step of the handlers, of the calls they make and of the loop over
\* the levels uses up some of the work that is left, which nothing gives back.
TickAdvances == [][phase # "idle" => LessWork(Work', Work)]_vars
=============================================================================
