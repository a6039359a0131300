# stmm-games in TLA+

TLA+ models of the core of stmm-games, a C++ library for tile based games, with
the TLC runs that check them on small instances and TLAPS proofs of what matters
most for all instances.

Paths below are relative to `src/`; `level.cc`, `game.cc` and so on are in
`libstmm-games/src`.

## The system

A `Game` owns one `Level` for each team, or a single one for all teams. A timer of
the owner (the GTK `GameWindow`) calls `Game::handleTimer`, the game tick: inputs
are dispatched, blocks move, events are triggered in the order of a queue, and at
the end the owner learns whether the game has ended. Everything runs in one thread;
what makes the code hard is not parallelism but **re-entrance**: handlers call
listeners, listeners and forced results call handlers, events send messages that
trigger events, all within one call of `handleTimer`, while lists are being walked.

| component | state | operations | hard part |
|---|---|---|---|
| Game status (`game.cc`, `level.cc` `gameStatus*`) | status, rank, finishing time of teams and mates, rank counters, winner, end flags | `gameStatusCompleted/Failed/PlayerOut/Technical`, `start`, `end`, `handleTimer` | handlers nest: a result forces others, the last one ends the game inside the call that has not stored its rank yet |
| Block control (`level.cc` `block*`) | per team the ordered list of controllable blocks, per mate the controlled block, per block its team, mate, controllability | `blockAdd/Remove/CycleControl/SetControllable/...` | back pointers between blocks and mates, waiting mates, listeners called in between |
| Event queue (`level.cc` `activateEvent`, `handleTimerEvents`) | active events by time and priority, dirty flags, listeners between events | activate, deactivate, trigger, `othersSend/Receive` | events triggered by events in the same tick, several levels, nesting |
| Listener lists (`private-listenerstk.h`) | listeners with holes, nesting depth | add, remove, call | removal during a call |
| Level animations (`level.cc` `animation*`) | delayed and running animations | add, remove, start, elapse | removal against start |
| Board and blocks (`level.cc` `board*`, `levelblock.cc`, `block.cc`) | owner of each cell, bricks of each block | add, move, fuse, freeze, modify, scroll | board and blocks mirror each other; moves are computed while others are refused |
| Input (`level.cc` key actions, `game.cc` queue) | queued inputs, pressed keys | enqueue, dispatch, open/release | inputs after the end, queue growing while it is dispatched |
| Game window (`libstmm-games-gtk/src/gamewindow.cc`) | window state, pause, timer | new, start, pause, abort, end, activation | callbacks in any order |
| Variables and events (`variable.cc`, `events/*`) | values, inhibition | set, inhibit, trigger | values read when the message arrives |
| Highscores, preferences, layouts, XML | tables and documents | insert, edit, parse | mostly sequential data |

What each part must guarantee:

- *Status*: ranks from 1 to the number of teams, given once; the winner has rank 1;
  a game nobody plays has ended; the owner is told once; results are final.
- *Control*: a mate controls a block exactly when the block says so; a mate waits
  only when no block it could control is free; lists hold the blocks they should.
- *Queue*: at the end of a tick no event that is due is left, in any level; order by
  time and priority.
- *Listeners, animations*: nothing is called after its removal, nothing is lost.
- *Board*: a cell's owner is the block that has a brick there.

The complete list of components, those not modelled included, with the reasons, is
in `PROJECT.json`; so are the hazards, each at its line, with the properties that
cover it, or a note where none does: some cases that nothing in the code prevents are
set apart by the properties (the mishaps of `BoardBlocks` and `GameWindow`).

## Modules

A module that is proved about has no RECURSIVE operator, one action per operation
and named assumptions on its constants. `...MC` modules hold what a configuration
cannot express, `...Docs` modules properties that the repository promises and the
code does not keep.

| module | what it is | proofs |
|---|---|---|
| `GameStatus`, `TeamRanking`, `GameStatusDocs` | results and ranks of the teams; the abstract ranking they implement | `GameStatusProofs`, `GameStatusEndProofs` |
| `BlockControl`, `BlockControlMC`, `BlockControlDocs` | who controls which block | `BlockControlProofs` |
| `EventQueue`, `Agenda`, `EventQueueMC` | the game tick over all levels and their events; the agenda they keep | `EventQueueProofs` |
| `ListenerStk`, `ListenerContract` | the stack of listeners under every level listener; what it promises | `ListenerStkProofs` |
| `BoardBlocks`, `BoardBlocksMC` | cells, tiles, blocks and the operations nested in one another | `BoardBlocksProofs` |
| `GameWindow`, `GameWindowMC` | screens, status, view clock and timers of the GTK window | `GameWindowProofs` |
| `ListLemmas` | lemmas about lists | in the module |

How they fit together. `GameStatus`, `EventQueue`, `BlockControl` and `BoardBlocks`
are four views of one call of `Game::handleTimer`: each keeps the state it is about
and leaves to free choice what the code of the others makes it do. `BlockControl`
and `BoardBlocks` share the operations on blocks: what `BoardBlocks` splits into a
part before and a part after the listeners is one step in `BlockControl`, whose state
changes at one point only, `blockAddCommon`, `blockRemoveCommon` or `blockFuse`
itself. The listeners of both are called through `ListenerStk`. `GameWindow` is the
owner: its `GameTick` is the `BeginTick` to `EndTick` of `GameStatus`, and
`OwnerTold` there is what lets a game end here.

**Liveness and proofs.** The provers know nothing of ENABLED and cannot do induction
over temporal formulas. A theorem about liveness therefore takes the fairness with the
condition that enables the step written out, as in
`TicksReturn == []<>~inGameTick \/ []<><<EndTick>>_vars` for `WF_vars(EndTick)`: TLC,
given each of these formulas as a PROPERTY in the configuration of the module's
liveness run, found that `FairSpec` satisfies it (no run of the project repeats this). What follows from finitely many such steps is
proved (`OwnerTold`, `NeverFrozen`); where the number of steps depends on the state
(`TickEnds`, `GameKeepsTicking`) the step of the induction is proved, and the property
stays with TLC.

## GameStatus

**State.** The system variables of teams (`finished`, `status`, `rank`, `hsRank`),
of mates (`mateStatus`; a mate's finishing time is set exactly when its status is not
playing) and of the game (`winnerTeam`, `gameOverTime`), `Game`'s members
(`rankCompleted`, `rankFailed`, `gameEnded`, `gameEndedEmitted`, `inGameTick`, `tick`)
and what the owner has seen (`endedCalls`).

**Actions.** `GameStatusCompleted`, `GameStatusFailed`, `GameStatusPlayerOut` and
`GameStatusTechnical` are the functions of `Level` with all they call. Nothing else
of the program runs inside them (variables have no listeners), so each is one step.
The code recurses: `Level::gameStatusFailed` calls `Game::gameStatusFailed`, which
may call `Level::gameStatusCompleted` of another level, and the innermost call runs
`gameHasEnded` when nobody plays any more. `Finish(C, F, Unranked)` is what such a
call does as a whole: `C` complete, `F` fail, ranks are counted from both ends, and
`Unranked` are the teams whose handler has not returned, whose rank is therefore not
stored, when `gameHasEnded` computes the highscore ranks. `BeginTick`/`EndTick` are
the frame of `handleTimer`; `Start` and `End` are the owner's calls. Asserts are not
guards.

**Bounds.** Time is the number of ticks: all that matters is that it grows. `MaxTick`
and `MaxGames` bound ticks per game and games; two ticks are enough for results in
the same and in a later tick than another result or a technical end, two games for
what `Start` has to reset.

**Runs.**

- `many_levels` (three teams of two mates, a level for each team): the type
  invariant; ranks taken from both ends, never twice; winner and rank 1; end of the game exactly with its last team; statuses of
  mates; highscore ranks a permutation; results final; refinement of `TeamRanking`. Three teams are the least with which a
  forced result leaves another team playing.
- `one_level` (two teams, one level, three ticks, two games): the owner is told of
  every end it did not ask for, and once.
- the `docs_*` runs each show one divergence from what the repository says, see
  *Findings*.

**Fairness.** `WF_vars(EndTick)`: `handleTimer` is a function that returns. Nothing
else is assumed: events may never finish a team.

**Proofs** (`GameStatusProofs` and `GameStatusEndProofs`, for any number of teams, mates, ticks and games,
assuming only `ConstantsAssumption`). `RankAccounting` is not inductive: that a
rank stays in `1..NTeams` needs that as many ranks are left as teams play, which
needs that finishing a team removes it from `Playing`, which needs the status and
the finishing time to agree. `IInv` is the conjunction of these with the type
invariant. All handlers and `End` are instances of `Finish`, so the work is done once
for `Finish`: `BeforeNumbers` says that numbering the members of a set in order
gives each its own number below the set's size, `NewRanks` that the ranks of the
completed and of the failed teams do not overlap. The refinement also needs
`RanksFilled`, that no rank is skipped, which rests on `BeforeOnto`: an injection
between finite sets of the same size is onto.

`GameStatusEndProofs` proves on top of `IInv` what the end of a game promises, with
one small invariant for each: `OverInv` adds that no team finished after the current
tick (a team that finishes, finishes now, and the first call that leaves nobody
playing ends the game), `ToldInv` that once the owner has been told the flag stays
set until the next start. That the highscore ranks are a permutation follows from
`HighscorePosDiffer`: of two teams one is before the other, and what is before the
one is strictly inside what is before the other. `FinalResults` holds because every
handler and `End` finish teams of `Playing` only. `OwnerTold` follows from `ToldInv`
and `NewsInv` (news the owner does not know are news of the tick under way) as soon as
the tick returns: `NewsIsTold` says that no other step takes the news away and
`EndTick` tells it. All
properties of the `GameStatus` runs are so proved, the last under `TicksReturn`.

**Left out.** Texts shown at the end, the interval of the game, the preferences a
game is built from.

## BlockControl

**State.** Of each `LevelBlock`: whether it is in the level, the column of its
position, `m_bControllable`, `m_nControllerTeam` and the mate that controls it
(`m_nTeam`, `m_nTeammate` and `m_nPlayer`, which change together). Of each mate:
`m_p0Controlled` and `m_nLastTimeInControl`. Of each team:
`m_oOrderedControllable` and `m_nTotInControl`, by which the level decides whether
a team has mates that wait (`Waiting`). The iterators a block keeps into the
lists are not state of their own: they are valid exactly while the block is in the
list, and an operation that would use one that is not has no step
(`ValidIterators`); `ListsHoldControllable` says that this never disables anything.

**Actions.** `Add`, `BlockRemove` (also destroy and freeze, which differ in what
happens to the bricks), `Fuse`, `Move`, `Cycle`, and the five cases of
`blockSetControllable`: `Enlarge`, `RestrictTo`, `ChangeTeam`, `MakeControllable`,
`MakeUncontrollable`. `Assign`, `HandOver` and `AssignToWaiting` are the helpers they
share. Level listeners are called in the middle of these functions; they "cannot add,
remove or change players" of blocks while the level is in such a call
(`levellisteners.h:244`), and so each operation is one step.

`RestrictOwnOnly` is an assumption on callers: a block that any team may control is
restricted to a team only while a mate of that team controls it. With it `FALSE` the
lists lose blocks, see *Findings*; the other runs and the theorems have it `TRUE`.

**Runs and bounds.**

- `blocks_two_teams` (three blocks, two teams of one mate, two columns): types;
  blocks and mates mirror each other; lists hold what they should; a mate that
  loses its block gets another if there is one; a mate comes to wait beside a free
  block only through another team (`LeftWaitingByOthers`). Two teams are needed for
  team constraints, three blocks for a list with a block in between, two columns for
  the order to matter.
- `blocks_one_team` (three blocks, one team of two mates, three times): nobody waits
  beside a free block; the longest waiting mate is served. Three times distinguish
  mates by their waiting. With several teams the first of these does not hold, and
  nothing in the repository says it should: cycling, and giving a block to all or
  other teams, free or open a block without looking for mates that wait.
  `LeftWaitingByOthers` says that with any number of teams a mate comes to wait in no
  other way.
- Blocks are interchangeable (`BlockSymmetry`): no definition depends on which is
  which, and no liveness is checked.

**Proofs** (`BlockControlProofs`, any number of blocks, teams, mates, columns and
times, callers as above). The properties are not inductive one by one: that the mate
of a block that leaves is found needs the back pointers, that its next block is one
its team may control needs the lists, that the lists change as they should needs the
blocks' constraints, and the count follows the pointers, without which a mate that waits
could be overlooked (`CountInControl`, `WaitingAreIdle`). `IInv` joins them.
`TakeOverKeeps`, `HandOverKeeps` and `AssignKeeps` show what taking and giving
control do to the mates; `AddedToLists`, `RemovedFromLists` and
`RepositionedKeepsSet` what happens to the lists; `NextFreeShape` that going round
the list misses no free block; and one lemma per operation puts them together.
`StepOK` carries the three action properties and the one-team invariant through the
same cases. All of the module's properties are proved.

**Left out.** Bricks, shapes and rows of blocks (the board); the chance by which a
mate is chosen among those waiting equally long is a free choice. The order of a list
is the code's, but no property is about it: see *Findings*.

## EventQueue

**State.** Of each event, whether it is active and its trigger time; of each level,
the list `m_oActiveEvents`, the mark `m_bDirtyEvents`, the listeners to messages of
other levels and the depth `m_nOthersNestedCalls`; of the game, the tick and where
`handleTimer` is (`phase`, `level`, `inLevel`). What runs inside is a `stack` of the
calls under way: the trigger function of an event, the loop of `Game::othersSend`
on the levels, the loop of `Level::othersReceive` on the listeners.

**Actions.** `BeginTick`, `BlocksDone`, `EnterLevel`, `NextLevel`, `TriggerFirst`,
`LeaveLevel`, `EndTick` are the steps of `Game::handleTimer` and
`Level::handleTimerEvents`. What the functions of events, blocks and inputs do is
theirs to choose: `ActivateEvent` for any time, the past included, `DeactivateEvent`,
`CallEvent` (informing listeners and `Level::triggerEvent` are the same for the
queue), `OthersAddListener`, `OthersSend`, `Return`. `SendToNext`, `PassOn`,
`PassOver` and `EndReceive` pass a message on; whether an event's filters let it
through is a free choice. Code runs only in its own level: the top of the stack says
which. Before inputs and blocks have been handled, code of any level runs.

**Runs and bounds.** Two levels with two events and one, of two priorities (the
least with an order within a level and a message between levels);
`OthersLimit = 2` in place of 10 lets a message be refused.

- `events_two_ticks` (two ticks, three operations in a tick): lists match the
  events and are ordered; nested calls are counted; the queue implements `Agenda`.
- `events_tick_ends` (one tick): the tick ends.

**Agenda.** `Agenda` says what `Level::activateEvent` and `triggerEvent` promise,
without lists, marks or a stack: each event is due at a tick or not, due events have
their turns one at a time, in each level by time and priority, and the tick ends when
nothing is due. `EventQueue` implements it (`KeepsAgenda`), where `Scheduled` is the
trigger time of the active events and `Turn` the event at the bottom of the stack.
What code inside a turn activates counts at once.

**Work.** `Work` lists what a tick uses up, the most important first: the operations
left, the events that may yet listen, the active events, the turns of the calls under
way by kind, the phases, the marked levels, and the levels the loop has still to pass.
`TickAdvances` says that every step of a tick makes one of these sets smaller and
leaves the ones before it as they are. A trigger takes its event off the active ones
before it runs, going back to the first level clears a mark first, and so on. It is
proved; of the two, the run checks `TickEnds`, which rests on it.

`MaxOps` bounds activations, calls and messages in a tick. It is not in the code:
events that activate each other for the present tick without end keep `handleTimer`
from returning, and nothing prevents it. `TickEnds` says that the loop of the tick
itself, restarting at the first level whenever a level was dirty, adds no such cycle.

**Fairness.** `WF_vars(Next)`: one thread that runs on. It covers the handlers
called in the tick (they return, within `MaxOps`) and the owner, who calls
`handleTimer` again.

**Proofs** (`EventQueueProofs`, any number of levels, priorities, ticks and operations,
and finitely many events, which `FiniteEvents` assumes and `WorkIsFinite` alone needs).
`NothingDueIsLeft`, that at the end of a tick no level is marked and no event is due, rests on three facts about the middle of a tick:
`CallersAreDirty`, every level with a trigger function under way, and every level
while inputs and blocks are handled, is marked; `CleanHasNothingDue`, in the events
phase a level that is not marked has no due event; `LowerAreClean`, the levels the
loop has passed are not marked, until one is and the loop goes back. The order of the
lists makes it enough to look at the first event. `CallsCounted` is the same for the
nested calls: the stack holds as many receive calls of a level as it has counted.

`KeepsAgendaHolds` shows step by step that the queue implements the agenda.
`TriggerFirst` is a `TakeTurn` because the first of an ordered list comes before every
other due event of its level (`FirstGoesFirst`); `EndTick` has nothing due left because
of `NothingDueIsLeft`; while a turn lasts the bottom of the stack stays
(`ChangeOfTopKeepsTurn`, `PushKeepsTurn`), so that what nested calls do is a `Change`
or nothing. `NothingDueIsLeft` is thus part of `KeepsAgenda`, and no run checks it apart.

`TickAdvancesHolds` proves that every step of a tick leaves less work, and
`WorkIsFiniteHolds` that the nine sets are finite: together they say that a tick has
finitely many steps. `WorkGoesOn` draws the conclusion as far as the provers go: under
the fairness of the tick (`TicksRun`) no amount of work stays as it is, it gets less
or the tick ends. The last step, induction on the work, is beyond them, and `TickEnds`
itself is only model-checked.

**Left out.** Which key triggers what, and who receives an input: to the tick an
input is code that runs first. The data of the single events.

## ListenerStk

**State.** `count` is `m_oListeners`, how often each listener was added. A call of the
listeners is a `PreCalled`: its vector `pre` with holes, its map `slot` into the
vector, its mark `dirty`, what the iterator of `callPre` has not reached (`todo`; the
map is unordered, so any listener may be next) and where the call is (`phase`). Calls
nest: `depth` counts those in use, the outermost first.

**Actions.** `AddListener`, `RemoveListener`; `Start` (`grabPreCalled` and the begin of
`callPre`), `CallPre`, `SkipPre`, `PreReturns`, `PreDone`; `PostBegins`, `CallPost`,
`PostReturns`, `Ends` (`freePreCalled`). Other code runs, and may call any of the
first three, inside of a listener and between Pre and Post (`CodeRuns`).

**Contract.** `ListenerContract` says what the comment of the class promises, without
vectors, holes or marks: when the Pre functions are done every registered listener has
been told; whoever was told and not removed since is told once more; in reverse order;
nobody else is. `ListenerStk` implements it, `since <- slot`: the position in the
vector serves as the time of the call.

**Run.** `listeners`: three listeners, two nested calls, four additions, which bound
the only counter. Two calls are the least for a removal to concern a call that is not
the innermost; three listeners allow a hole between two others; four additions let a
listener be removed and added again in the same call. There is no deadlock check,
since adding is bounded and the code need not do anything.

**Proofs** (`ListenerStkProofs`, any listeners, depth and number of additions).
`IInv` says that the calls in use and their phases nest (`Nested`), that the free
ones are empty, that vector and map agree (`Agree`), that only registered listeners
are held (`Held`), and the heart of the matter, `NobodyMissed` with `CleanInPre`: in
`callPre` a registered listener was called, or is still to come, or the call is marked
dirty and starts again. That no call under way reaches a removed listener
(`RemovedNotReached`) is proved from `Held`; what a run checks is the contract, which
forbids to tell a removed listener anything. The refinement follows: `PreDone` implements its abstract
counterpart because a call that finds nothing left to reach is not dirty.

## BoardBlocks

**State.** `owner` is `m_aOwner`, `tiles` the cells of `m_aBoard` that are not empty,
`level` is `m_oAllLevelBlocks`. Of each block: its management type, the set of its
visible bricks by their position on the board (`body`: position, shape and bricks of
the code in one) and `m_bNestedModificationLock`. `onlyModify` is
`m_bBoardAllowOnlyModify`. `calls` is the stack of operations under way, each a frame
that holds what the operation was asked.

**Actions.** Every operation on a block has a `...Begin`, up to its Pre listeners, a
`...Do`, what happens between Pre and Post, and `Return`. While an operation tells its
listeners (phase `pre` or `post`), the listeners, and through them the blocks and
events, may start any other operation (`CanCall`): `Add`, `Unfreeze`, `Remove` (also
destroy), `Freeze`, `Fuse`, `Move` (move and rotate), `Modify`, `Delete` (remove or
destroy a brick), `Scroll`, `Insert`, and `TileChanges` (`boardModify`,
`boardDestroy`). The scroll looks at the cells it pushes out one by one
(`ScrollPasses`) and asks their owners to freeze, or else to go (`ScrollAsks`), each
of them an operation with listeners of its own; if a cell stays owned it gives up
(`ScrollGivesUp`). What a block under way was asked for is relative to the block and
is scrolled with it (`Carried`).

Asserts are not guards. Where the code relies on its callers (a lock that is asserted
and then tested, an owner looked for before a move) the guard is the callers' duty.
Two things callers can do that nothing defends against are recorded in `mishaps`:
`owners`, when the place of a block has been taken, or is no longer on the board, when
the operation comes to use it (only assertions look; the model does not go on from
there), and `covered`, when a tile was put under a block that shall have none. The
release build is modelled: a locked block in a row that is scrolled out does nothing.

**Run and bounds.** `board`: two blocks, two cells one above the other, the types that
own nothing and that own strictly, scrolling down (tiles and blocks move) and to the
left (both cells leave, one after the other: the owner of the first can come back
while the second is looked at), insertion into the whole board, a place above the
board. `MaxDepth` bounds nested operations on blocks (two), `MaxDrift` how far outside
the board a block may be when it scrolls; scrolls and insertions are bounded by the
flag. Blocks are interchangeable, and no liveness is checked. No deadlock check: the
model stops after a mishap of owners.

**Proofs** (`BoardBlocksProofs`, any board, blocks, bodies, types, areas and bounds).
`OwnersMatch` is not inductive: that a move clears what the block owned needs that
its block is still in the level, with the bricks it was asked about, when its
listeners have returned. That is `OperationsFit`, which holds because each operation
locks its blocks, and every other operation leaves locked blocks as they are: the
lemmas on `SameBut` say what an operation leaves alone, those on `Fits` what that
means for the frames further out; the scroll is the exception, which moves blocks that
are locked and what was asked of them alike. The operations on the matrix are
computed on the set of cells a block owns (`Owned`), which is to be its `Home`: one
lemma for clearing, one for setting, one for scrolling. `AllFit` is
`OperationsFit`, written as an operator of calls, locks, level and bodies so that it
can be said of intermediate ones; `FramesOK` says that a frame holds what its operation
puts there.

**Left out.** `Block`'s shapes and brick numbers and the contents of tiles; tile
animators; what a block's own `freeze()` or `remove()` does beyond freezing or
removing; listeners called for every single tile while `boabloUnfreeze` empties its
cells (`level.cc:1067`): `boardModify` is one step.

## GameWindow

**State.** `m_eStatus` and the current screen; the game, whether it ticks, whether the
window listens to input, whether there is a highscores definition; the preferences'
edit mode; the resize timer; the view clock (`m_bNextViewTickActive`, the timers the
main loop holds, `m_bStartGameAtNextViewTick`, the numbers of `GameTiming`); and the
one-shot timers under way: the requests (`gameInterruptOut`, `gamePauseOut`, 0 ms, in
the order in which they were started), `gameEndedOut` (`waits`) and
`onButtonNewGameOut` (`newGames`).

**Actions.** The callbacks of the main loop: the buttons, a key after the end of a
game, deactivation and changes of the window's state, and the timers `ViewTick`,
`RequestOut`, `EndedOut`, `NewGameOut`. `ViewTick` contains the game tick, in which the
game may make up to two requests and may end. With `Debug` an assertion that fails
ends the program; without, the code goes on; the theorems hold for both.

The window is right as long as requests come one at a time. `mishap` remembers what
sets it off its rails: `layout`, a game that the theme cannot lay out stays behind;
`noscores`, a game without highscores ends; `overlap`, a request, an answer or the end
of a game meets the timer of an earlier request. `Regular` is the absence of the last
two, and the properties say which of them they exclude.

**Run and bounds.** `window`, liveness included: requests to pause, to restart after
a question, to abort and to quit, at most two view ticks per game tick, two requests under way (the least for an
overlap) and one waiting timer. The code starts with 4 view ticks and waits 10 calm
game ticks before it changes their number: smaller numbers reach the same
comparisons sooner. No deadlock check, since a closed window does nothing.

**Fairness.** Weak fairness of `SetUp` and of the four timers: the GTK main loop runs
a timer that is due, and each of these actions stays possible until it is taken. None
for clicks, keys or requests.

**Proofs** (`GameWindowProofs`, any requests, view tick numbers, bounds and build).
Screen, status, game and timers are related by cases, not by one formula each:
`Situation` is the disjunction of the seven in which a window can be, `SettingUp`,
`InMenu`, `Suspended`, `Starting`, `Playing`, `Leaving` and `Over`, and every callback
leads from one of them to another or to a mishap. All safety properties follow from
`Situation` and the clock (`ClockOK`).

`NeverFrozenHolds` is proved under `TimersRun`. A frozen window, the play screen with a
game that does not tick, waits for one of four timers (`FrozenWaits`): the set-up, the
new game, the view tick that starts it, or the request that stopped it. No click is
possible meanwhile (`FrozenSteps`), so that it goes on waiting for the same timer until
that runs; the new game may then leave the start to the view tick, every other timer
unfreezes the window. `ViewTicksCountDown` is the step of the induction behind
`GameKeepsTicking`: while a game goes on, the view ticks left do not stay at most `n`
without becoming less than `n`, unless game ticks keep coming. The induction on `n` is
beyond the provers and the property itself only model-checked. It speaks of steps that
can be seen in the state: with `MaxViewTicks = FirstViewTicks = 1` a game tick may
change nothing the model keeps, which the bounds of `window` rule out.

**Left out.** How `onResizedOut` lays the drawing area out again; what is painted; the contents of preferences and highscores.

## ListLemmas

Lemmas about `Min`, `Max`, `InsertAt`, `RemoveAt` and `RemoveFirst` of the community
modules: their shape, and that inserting a new element in a list without repetitions
and removing one keep it so. `SmallestExists` is the least-element principle, from
the well-foundedness of the strict subset order of the library.

## Findings

Checked by a run:

- `docs_highscore`: the last team to finish enters the in-game highscore with rank
  -1 (`game.cc:809`), since `gameHasEnded` runs before its rank is stored.
- `docs_other_completes`: with a level for each team, a failing team makes the first
  of *several* playing teams complete (`game.cc:797`), where `level.h:684` says "if
  only one other team still playing".
- `docs_lists`: restricting a block takes it out of the list of the team it is
  restricted to, unless a mate of that team had it (`level.cc:1642`, `level.h:854`).

Seen while modelling, and not worth a run:

- In a level shared by the teams the others never fail (`game.cc:752`), where
  `level.h:677` promises it.
- A variable one mate inhibits is inhibited for the whole team (`level.cc:2168`,
  `level.h:735`).
- The asserts `!m_bGameEnded` (`game.cc:741`, `game.cc:768`) do not hold when events
  of the same tick go on reporting results after a technical end.
- Ranks start from 1; `game.cc:156` and `gameproxy.h:203` say 0.
- A block that moves keeps its place in the lists until it is fused
  (`level.cc:1823`), where `level.h:857` calls them ordered.
- A scroll that is given up leaves `m_bBoardAllowOnlyModify` set and its `PreCalled` in
  use for ever (`level.cc:715`); the game is over by then.
- `blockFuse` clears the cells of the master even when it does not own them
  (`level.cc:1473`); over cells of another block it takes them away from it.
- `LevelBlock::blockModify` with a delta leaves the owners of the bricks it is not told
  to modify behind (`levelblock.cc:324`). Nobody passes one.
- `callbackModify` removes a brick and then asks whether it is visible
  (`levelblock.cc:276`): `shapeBrickVisible` asserts that the brick exists. The
  assertion passes only for the last brick of the list, whose number `brickRemove` puts
  back (`block.cc:686`).
- `brickAdd` clears its parameter `bVisible` when one shape has the position occupied,
  and so hides the brick in all later shapes (`block.cc:648`).
- `boardScroll` calls `onScrolled` while it walks `m_oAllLevelBlocks` (`level.cc:780`);
  a block that removed itself there would invalidate the iterator. None does.
- A game without highscores leaves the window in `STATUS_WAIT_KEYPRESS`
  (`gamewindow.cc:530`); `gameloader.h:59` says that the definition can be null.
- A game that cannot be laid out is left running (`gamewindow.cc:709`), and the next
  one fails the assertion at line 637.
- An animation whose remaining delay is exactly 0 is not found by `animationRemove`
  (`level.cc:2063`) and starts later.

## Not modelled

- *Animations, variables, single events*: they use the lists and the queue that are
  modelled, and to those their code is a free choice; of their own they have a list
  ordered by depth, a clamped number, a buffer.
- *Highscores, preferences, layouts, XML, files, utilities*: sequential code on data of
  unbounded shape, with unit tests; its hard part is the data.
- *Views, dialogs, sound*: input and output of the toolkit.
- *Inputs*: which key is which action. To the tick an input is code that runs first.

`PROJECT.json` names the parts with their files.
