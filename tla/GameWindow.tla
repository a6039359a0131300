----------------------------- MODULE GameWindow -----------------------------
(***************************************************************************)
(* The game window of libstmm-games-gtk (gamewindow.cc): the screens, the  *)
(* status, the game that ticks behind them and the timers that connect     *)
(* them.  Everything runs in the GTK main loop, one callback at a time,    *)
(* but almost nothing is done where it is asked for: a request of the game *)
(* or of the desktop starts a one-shot timer and its callback changes the  *)
(* screen later.  What happens between the request and the callback, and   *)
(* in which order the timers run, is left open here.                       *)
(***************************************************************************)
EXTENDS Integers, Sequences

CONSTANTS
  Interrupts,       \* the requests (INTERRUPT_TYPE) the games make, see AllInterrupts
  Debug,            \* built without NDEBUG: a failed assertion ends the program
  MaxViewTicks,     \* Game::getMaxViewTicks, at least 1
  FirstViewTicks,   \* m_nNextTotViewTicks of GameTiming::reset (4 in the code)
  CalmTicks,        \* s_nGameTicksPotentialViewTicksIncDo (10 in the code)
  MaxRequests,      \* bound: 0 ms timers under way
  MaxWaits          \* bound: gameEndedOut and onButtonNewGameOut timers under way

ASSUME ViewTicksAssumption ==
  MaxViewTicks \in Nat \ {0} /\ FirstViewTicks \in Nat \ {0} /\ CalmTicks \in Nat
ASSUME DebugAssumption == Debug \in BOOLEAN
ASSUME BoundsAssumption == MaxRequests \in Nat /\ MaxWaits \in Nat

Kinds == {"Abort", "Restart", "Quit"}

\* The requests of GameProxy::INTERRUPT_TYPE: kind, and whether to ask first.
Pause == [kind |-> "Pause", how |-> "ask"]
AllInterrupts == {Pause} \cup [kind : Kinds, how : {"ask", "act"}]
ASSUME InterruptsAssumption == Interrupts \subseteq AllInterrupts

\* The requests one game tick makes: each of the players' inputs can be one.
TickRequests == {<<>>} \cup {<<r>> : r \in Interrupts}
                  \cup {<<r, s>> : r \in Interrupts, s \in Interrupts}

Choosers == {"About", "ChooseGame", "ChooseTheme", "ChoosePlayers"}
Screens == {"Play", "Main", "Paused", "Answer", "Info", "Highscore"} \cup Choosers
Statuses == {"None", "Menu", "Play", "Wait1Sec", "WaitKeypress"}

VARIABLES
  status,       \* m_eStatus
  screen,       \* m_nCurrentScreen
  ticking,      \* m_bGameIsTicking
  listening,    \* m_refEventListener is registered with the device manager
  game,         \* m_refGame: "none", "running" (isRunning) or "ended"
  definition,   \* m_refHighscoresDefinition is not null
  editing,      \* m_refPrefs is in edit mode
  resizing,     \* m_oResizeConn is connected
  answering,    \* m_eAnsweringInterrupt, "Pause" before it is first set
  viewActive,   \* m_bNextViewTickActive
  viewTimers,   \* callbackNextViewTick timers the main loop holds
  startAtNext,  \* m_bStartGameAtNextViewTick
  gt,           \* m_oGT: tot, cur and next view ticks, and calm game ticks
  requests,     \* 0 ms timers under way, in the order they will run
  waits,        \* gameEndedOut timers under way
  newGames,     \* onButtonNewGameOut timers under way
  open,         \* the window is open: nothing has closed it or ended the program
  failed,       \* history: an assertion did not hold, and no mishap explains it
  mishap        \* history: which of the mishaps below has occurred

window == <<status, screen>>
clock == <<viewActive, viewTimers>>
play == <<ticking, listening, game, definition, editing>>
vars == <<status, screen, ticking, listening, game, definition, editing, resizing,
          answering, viewActive, viewTimers, startAtNext, gt, requests, waits,
          newGames, open, failed, mishap>>

(* The code does not expect these, and the properties set them apart:      *)
(*   layout    a game has been started that the theme cannot lay out       *)
(*   noscores  a game has ended without highscores to show                 *)
(*   overlap   a request, an answer or the end of the game has come while  *)
(*             the timer of an earlier request had not run yet             *)
(* A layout mishap only leaves a game behind that nobody ends; the others  *)
(* leave nothing to rely on, so the first of them is remembered.           *)
Mishaps == {"none", "layout", "noscores", "overlap"}
Minor == {"none", "layout"}
Happens(m) ==
  mishap' = IF mishap \in Minor /\ (m # "layout" \/ mishap = "none") THEN m ELSE mishap
\* An assertion of the code; mishap' has to be known.
Asserts(ok) ==
  /\ failed' = (failed \/ (~ok /\ mishap' \in Minor))
  /\ open' = (ok \/ ~Debug)

\* changeScreen, the only place where status and screen change.
Show(st, sc) == status' = st /\ screen' = sc

\* Faulty variant: a second timer is started while one is under way.
StartViewTimerAgain(act, n) ==
  /\ viewActive' = TRUE
  /\ viewTimers' = n + 1

\* startNextViewTickTimer, where act and n say which timers there are before.
StartViewTimer(act, n) ==
  /\ viewActive' = TRUE
  /\ viewTimers' = IF act THEN n ELSE n + 1

GameTimings == [next : Nat \ {0}, calm : Nat, tot : Nat \ {0}, cur : Nat]
\* GameTiming::reset
ResetTiming ==
  [next |-> FirstViewTicks, calm |-> 0, tot |-> FirstViewTicks, cur |-> FirstViewTicks - 1]

Init ==
  /\ status = "None" /\ screen = "Play"
  /\ ticking = FALSE /\ listening = FALSE /\ game = "none" /\ definition = FALSE
  /\ editing \in BOOLEAN
  /\ resizing = FALSE /\ answering = "Pause"
  /\ viewActive = FALSE /\ viewTimers = 0 /\ startAtNext = FALSE
  /\ gt = ResetTiming
  /\ requests = <<>> /\ waits = 0 /\ newGames = 0
  /\ open = TRUE /\ failed = FALSE /\ mishap = "none"

SetUp ==
  /\ open /\ status = "None"
  /\ Show("Menu", "Main")
  /\ UNCHANGED <<play, resizing, answering, clock, startAtNext, gt, requests,
                 waits, newGames, open, failed, mishap>>

-----------------------------------------------------------------------------
(* The play state is the game and what is attached to it: a record of the  *)
(* variables of "play" but the highscores definition.                      *)

AsItIs == [game |-> game, ticking |-> ticking, listening |-> listening, editing |-> editing]
\* Faulty variant: the event listener stays registered.
FinishedListening(tick) ==
  [game |-> IF game = "running" THEN "ended" ELSE game,
   ticking |-> tick, listening |-> listening, editing |-> TRUE]

\* endGame, and the m_bGameIsTicking that the callers set (or leave) after it
Finished(tick) ==
  [game |-> IF game = "running" THEN "ended" ELSE game,
   ticking |-> tick, listening |-> FALSE, editing |-> TRUE]
Become(p) ==
  game' = p.game /\ ticking' = p.ticking /\ listening' = p.listening /\ editing' = p.editing

(* startGame, called in play state p with act and n for the view tick      *)
(* timers; st and sc are what its caller shows when it returns true.       *)

\* Faulty variant: the start is forgotten when the old timer runs out.
StartLaterForgotten(p, n, st, sc) ==
  /\ startAtNext' = FALSE
  /\ Become(p)
  /\ viewActive' = TRUE /\ viewTimers' = n
  /\ Show(st, sc)
  /\ UNCHANGED <<definition, gt, open, failed, mishap>>

\* The old timer has to run out first: its callback starts the game.
StartLater(p, n, st, sc) ==
  /\ startAtNext' = TRUE
  /\ Become(p)
  /\ viewActive' = TRUE /\ viewTimers' = n
  /\ Show(st, sc)
  /\ UNCHANGED <<definition, gt, open, failed, mishap>>

\* No theme, no game, or one the preferences do not allow: nothing is created.
CannotCreate(p, n) ==
  /\ Become(p)
  /\ viewActive' = FALSE /\ viewTimers' = n
  /\ Show("Menu", "Info")
  /\ UNCHANGED <<definition, gt, mishap>>

\* The game has been created and started when the theme fails to lay it out.
CannotLayout(p, n) ==
  /\ Become([p EXCEPT !.game = "running"])
  /\ definition' \in BOOLEAN
  /\ viewActive' = FALSE /\ viewTimers' = n
  /\ Show("Menu", "Info")
  /\ Happens("layout")
  /\ UNCHANGED gt

StartNow(n, st, sc) ==
  /\ Become([game |-> "running", ticking |-> TRUE, listening |-> TRUE, editing |-> FALSE])
  /\ definition' \in BOOLEAN
  /\ gt' = ResetTiming
  /\ StartViewTimer(FALSE, n)
  /\ Show(st, sc)
  /\ UNCHANGED mishap

StartGame(p, act, n, st, sc) ==
  \/ act /\ StartLater(p, n, st, sc)
  \/ /\ ~act
     /\ startAtNext' = FALSE
     /\ CannotCreate(p, n) \/ CannotLayout(p, n) \/ StartNow(n, st, sc)
     /\ Asserts(~p.ticking /\ (p.game = "running" => mishap = "layout"))

ClickNewGame ==
  /\ open /\ screen = "Main" /\ newGames < MaxWaits
  /\ Show("Play", "Play")
  /\ newGames' = newGames + 1
  /\ UNCHANGED <<play, resizing, answering, clock, startAtNext, gt, requests,
                 waits, open, failed, mishap>>

\* onButtonNewGameOut, 100 ms later
NewGameOut ==
  /\ open /\ newGames > 0
  /\ newGames' = newGames - 1
  /\ StartGame(AsItIs, viewActive, viewTimers, status, screen)
  /\ UNCHANGED <<resizing, answering, requests, waits>>

-----------------------------------------------------------------------------
(* callbackNextViewTick *)

\* The timer has run out and m_bNextViewTickActive has been reset.
ViewTimerFires == open /\ viewTimers > 0

DeferredStart ==
  /\ ViewTimerFires /\ startAtNext
  /\ StartGame(AsItIs, FALSE, viewTimers - 1, status, screen)
  /\ UNCHANGED <<resizing, answering, requests, waits, newGames>>

\* The game is paused or gone: the timer is not started again.
IdleViewTick ==
  /\ ViewTimerFires /\ ~startAtNext /\ ~ticking
  /\ viewActive' = FALSE /\ viewTimers' = viewTimers - 1
  /\ UNCHANGED <<window, play, resizing, answering, startAtNext, gt, requests,
                 waits, newGames, open, failed, mishap>>

IsGameTick == gt.cur + 1 = gt.tot

\* Faulty variant: the current view tick is not counted.
DrawingTickUncounted ==
  /\ ViewTimerFires /\ ~startAtNext /\ ticking /\ ~IsGameTick
  /\ StartViewTimer(FALSE, viewTimers - 1)
  /\ UNCHANGED <<window, play, resizing, answering, startAtNext, gt, requests, waits,
                 newGames, open, failed, mishap>>

\* A view tick between two game ticks only draws.
DrawingTick ==
  /\ ViewTimerFires /\ ~startAtNext /\ ticking /\ ~IsGameTick
  /\ gt' = [gt EXCEPT !.cur = @ + 1]
  /\ StartViewTimer(FALSE, viewTimers - 1)
  /\ UNCHANGED <<window, play, resizing, answering, startAtNext, requests, waits,
                 newGames, open, failed, mishap>>

\* Faulty variant: a single view tick is decreased too.
PacedToNone(pace) ==
  LET calmEnough == pace = "fast" /\ gt.calm >= CalmTicks
  IN  [tot  |-> gt.next,
       cur  |-> 0,
       calm |-> IF pace = "fast" /\ ~calmEnough THEN gt.calm + 1 ELSE 0,
       next |-> IF pace = "slow" THEN gt.next - 1
                ELSE IF calmEnough /\ gt.next < MaxViewTicks THEN gt.next + 1
                ELSE gt.next]

\* Faulty variant: the maximum is exceeded by one.
PacedPastMax(pace) ==
  LET calmEnough == pace = "fast" /\ gt.calm >= CalmTicks
  IN  [tot  |-> gt.next,
       cur  |-> 0,
       calm |-> IF pace = "fast" /\ ~calmEnough THEN gt.calm + 1 ELSE 0,
       next |-> IF pace = "slow" /\ gt.next > 1 THEN gt.next - 1
                ELSE IF calmEnough /\ gt.next <= MaxViewTicks THEN gt.next + 1
                ELSE gt.next]

(* The view ticks of the game interval that begins, and of the next one:   *)
(* drawing the last one was slow (it took the whole view interval), fast   *)
(* (it would have fitted into a shorter one), or neither.                  *)
Paced(pace) ==
  LET calmEnough == pace = "fast" /\ gt.calm >= CalmTicks
  IN  [tot  |-> gt.next,
       cur  |-> 0,
       calm |-> IF pace = "fast" /\ ~calmEnough THEN gt.calm + 1 ELSE 0,
       next |-> IF pace = "slow" /\ gt.next > 1 THEN gt.next - 1
                ELSE IF calmEnough /\ gt.next < MaxViewTicks THEN gt.next + 1
                ELSE gt.next]

\* The requests gameInterrupt takes: it ignores them unless a game is shown.
Heard(rs) == IF status = "Play" THEN rs ELSE <<>>
Pauses(rs) == {i \in DOMAIN rs : rs[i].how = "ask"}
\* n requests, answers or game ends come at once: is the timer of an earlier
\* one under way?
Overlapping(n) == n > 1 \/ (n = 1 /\ requests # <<>>)
Overlaps(n) == IF Overlapping(n) THEN Happens("overlap") ELSE UNCHANGED mishap

(* Game::handleTimer: the inputs that the players have made request rs, in *)
(* their order, and the tick may end the game (gameEnded).  pauseGame asks *)
(* for a game that ticks, activateResizeTimer for no timer yet.            *)
GameTick ==
  /\ ViewTimerFires /\ ~startAtNext /\ ticking /\ IsGameTick
  /\ \E rs \in TickRequests, over \in BOOLEAN, pace \in {"slow", "fast", "even"} :
       LET heard == Heard(rs)
           paused == Pauses(heard) # {}
       IN  /\ game # "running" => rs = <<>> /\ ~over
           /\ Len(requests) + Len(heard) <= MaxRequests
           /\ over => waits < MaxWaits
           /\ requests' = requests \o heard
           /\ ticking' = ~paused
           /\ listening' = (listening /\ ~paused /\ ~over)
           /\ game' = IF over THEN "ended" ELSE game
           /\ editing' = (editing \/ over)
           /\ resizing' = (resizing \/ over)
           /\ waits' = IF over THEN waits + 1 ELSE waits
           /\ IF over THEN Show("Wait1Sec", "Play") ELSE UNCHANGED window
           /\ Overlaps(Len(heard) + IF over THEN 1 ELSE 0)
           /\ Asserts((\A i, j \in Pauses(heard) : i = j) /\ ~(over /\ resizing))
           /\ gt' = Paced(pace)
  /\ StartViewTimer(FALSE, viewTimers - 1)
  /\ UNCHANGED <<definition, answering, startAtNext, newGames>>

ViewTick == DeferredStart \/ IdleViewTick \/ DrawingTick \/ GameTick

-----------------------------------------------------------------------------
(* Requests: gameInterrupt from the desktop, and the 0 ms timers.          *)

\* Faulty variant: the event listener stays registered during the pause.
PauseRequestListening ==
  IF status = "Play"
  THEN /\ Len(requests) < MaxRequests
       /\ requests' = Append(requests, Pause)
       /\ ticking' = FALSE /\ UNCHANGED listening
       /\ Overlaps(1)
  ELSE UNCHANGED <<requests, ticking, listening, mishap>>

\* gameInterrupt(INTERRUPT_PAUSE) outside of a tick
PauseRequest ==
  IF status = "Play"
  THEN /\ Len(requests) < MaxRequests
       /\ requests' = Append(requests, Pause)
       /\ ticking' = FALSE /\ listening' = FALSE
       /\ Overlaps(1)
  ELSE UNCHANGED <<requests, ticking, listening, mishap>>

\* onActiveChanged
Deactivate ==
  /\ open /\ ticking /\ screen = "Play" /\ game = "running"
  /\ PauseRequest
  /\ UNCHANGED <<window, game, definition, editing, resizing, answering, clock,
                 startAtNext, gt, waits, newGames, open, failed>>

\* onWindowStateEvent, onConfigureEvent: moved, resized, minimised
Reshape ==
  /\ open /\ ticking /\ game = "running"
  /\ PauseRequest
  /\ UNCHANGED <<window, game, definition, editing, resizing, answering, clock,
                 startAtNext, gt, waits, newGames, open, failed>>

\* gamePauseOut
PauseOut ==
  /\ open /\ requests # <<>> /\ Head(requests) = Pause
  /\ requests' = Tail(requests)
  /\ Show("Menu", "Paused")
  /\ UNCHANGED <<play, resizing, answering, clock, startAtNext, gt, waits,
                 newGames, open, failed, mishap>>

\* gameInterruptOut(type, bAsk): a question first
AskOut ==
  /\ open /\ requests # <<>>
  /\ Head(requests).how = "ask" /\ Head(requests) # Pause
  /\ requests' = Tail(requests)
  /\ answering' = Head(requests).kind
  /\ Show("Menu", "Answer")
  /\ UNCHANGED <<play, resizing, clock, startAtNext, gt, waits, newGames, open,
                 failed, mishap>>

Acts(kind) ==
  /\ open /\ requests # <<>>
  /\ Head(requests) = [kind |-> kind, how |-> "act"]
  /\ requests' = Tail(requests)

\* Faulty variant: the game view ends but the game goes on ticking.
AbortOutTicking ==
  /\ Acts("Abort")
  /\ Become(Finished(ticking))
  /\ Show("Menu", "Main")
  /\ UNCHANGED <<definition, resizing, answering, clock, startAtNext, gt, waits,
                 newGames, open, failed, mishap>>

AbortOut ==
  /\ Acts("Abort")
  /\ Become(Finished(FALSE))
  /\ Show("Menu", "Main")
  /\ UNCHANGED <<definition, resizing, answering, clock, startAtNext, gt, waits,
                 newGames, open, failed, mishap>>

RestartOut ==
  /\ Acts("Restart")
  /\ StartGame(Finished(FALSE), viewActive, viewTimers, "Play", "Play")
  /\ UNCHANGED <<resizing, answering, waits, newGames>>

QuitOut ==
  /\ Acts("Quit")
  /\ open' = FALSE
  /\ UNCHANGED <<window, play, resizing, answering, clock, startAtNext, gt, waits,
                 newGames, failed, mishap>>

RequestOut == PauseOut \/ AskOut \/ AbortOut \/ RestartOut \/ QuitOut

\* onButtonAnswerYes
ClickYes ==
  /\ open /\ screen = "Answer" /\ Len(requests) < MaxRequests
  /\ requests' = Append(requests, [kind |-> answering, how |-> "act"])
  /\ Overlaps(1)
  /\ UNCHANGED <<window, play, resizing, answering, clock, startAtNext, gt, waits,
                 newGames, open, failed>>

\* resumeGame by onButtonResume or onButtonAnswerNo
Resume ==
  /\ open /\ screen \in {"Paused", "Answer"}
  /\ Overlaps(1)
  /\ Asserts(~ticking /\ game = "running")
  /\ listening' = TRUE /\ ticking' = TRUE
  /\ StartViewTimer(viewActive, viewTimers)
  /\ Show("Play", "Play")
  /\ UNCHANGED <<game, definition, editing, resizing, answering, startAtNext, gt,
                 requests, waits, newGames>>

\* onButtonAbort of the paused screen
ClickAbort ==
  /\ open /\ screen = "Paused"
  /\ Become(Finished(ticking))
  /\ Show("Menu", "Main")
  /\ Overlaps(1)
  /\ UNCHANGED <<definition, resizing, answering, clock, startAtNext, gt, requests,
                 waits, newGames, open, failed>>

-----------------------------------------------------------------------------
(* After the end of a game, and the other screens.                         *)

\* gameEndedOut, a second or more after gameEnded
EndedOut ==
  /\ open /\ waits > 0
  /\ waits' = waits - 1
  /\ Show("WaitKeypress", "Play")
  /\ UNCHANGED <<play, resizing, answering, clock, startAtNext, gt, requests,
                 newGames, open, failed, mishap>>

\* Faulty variant: the ended game goes on ticking behind the highscores.
PressKeyTicking ==
  /\ open /\ status = "WaitKeypress"
  /\ resizing' = FALSE
  /\ \/ /\ definition
        /\ \E sc \in {"Highscore", "Main"} : Show("Menu", sc)
        /\ UNCHANGED mishap
     \/ /\ Happens("noscores")
        /\ UNCHANGED window
  /\ Asserts(resizing)
  /\ UNCHANGED <<ticking, listening, game, definition, editing, answering, clock,
                 startAtNext, gt, requests, waits, newGames>>

\* Faulty variant: a key is taken before the second is over.
PressKeyEarly ==
  /\ open /\ status \in {"Wait1Sec", "WaitKeypress"}
  /\ resizing' = FALSE /\ ticking' = FALSE
  /\ \/ /\ definition
        /\ \E sc \in {"Highscore", "Main"} : Show("Menu", sc)
        /\ UNCHANGED mishap
     \/ /\ Happens("noscores")
        /\ UNCHANGED window
  /\ Asserts(resizing)
  /\ UNCHANGED <<listening, game, definition, editing, answering, clock,
                 startAtNext, gt, requests, waits, newGames>>

\* A key, a button or a touch: gameEndedShowHighscore
PressKey ==
  /\ open /\ status = "WaitKeypress"
  /\ resizing' = FALSE /\ ticking' = FALSE
  /\ \/ /\ definition
        /\ \E sc \in {"Highscore", "Main"} : Show("Menu", sc)
        /\ UNCHANGED mishap
     \/ /\ Happens("noscores")   \* no definition, loader or scores
        /\ UNCHANGED window
  /\ Asserts(resizing)
  /\ UNCHANGED <<listening, game, definition, editing, answering, clock,
                 startAtNext, gt, requests, waits, newGames>>

AfterHighscores ==
  /\ open /\ screen = "Highscore"
  /\ definition' = FALSE
  /\ Show("Menu", "Main")
  /\ UNCHANGED <<ticking, listening, game, editing, resizing, answering, clock,
                 startAtNext, gt, requests, waits, newGames, open, failed, mishap>>

\* The buttons of the main screen: the screen wanted, or the reason why not.
OpenScreen ==
  /\ open /\ screen = "Main"
  /\ \E sc \in Choosers \cup {"Info", "Highscore"} : Show("Menu", sc)
  /\ UNCHANGED <<play, resizing, answering, clock, startAtNext, gt, requests,
                 waits, newGames, open, failed, mishap>>

\* onButtonInfoOk, afterAbout and the after... of the choosers.  The players
\* screen edits a copy of the preferences, and a copy is in edit mode.
BackToMain ==
  /\ open /\ screen \in Choosers \cup {"Info"}
  /\ Show("Menu", "Main")
  /\ editing' \in {editing, editing \/ screen = "ChoosePlayers"}
  /\ UNCHANGED <<ticking, listening, game, definition, resizing, answering, clock,
                 startAtNext, gt, requests, waits, newGames, open, failed, mishap>>

\* onButtonQuit
ClickQuit ==
  /\ open /\ screen = "Main"
  /\ open' = FALSE
  /\ UNCHANGED <<window, play, resizing, answering, clock, startAtNext, gt,
                 requests, waits, newGames, failed, mishap>>

Next ==
  \/ SetUp \/ ClickNewGame \/ NewGameOut
  \/ DeferredStart \/ IdleViewTick \/ DrawingTick \/ GameTick
  \/ Deactivate \/ Reshape
  \/ PauseOut \/ AskOut \/ AbortOut \/ RestartOut \/ QuitOut
  \/ ClickYes \/ Resume \/ ClickAbort
  \/ EndedOut \/ PressKey \/ AfterHighscores \/ OpenScreen \/ BackToMain \/ ClickQuit

\* The main loop runs every timer that is due; nobody has to click anything.
Spec == Init /\ [][Next]_vars
FairSpec ==
  Spec /\ WF_vars(SetUp) /\ WF_vars(NewGameOut) /\ WF_vars(ViewTick)
       /\ WF_vars(RequestOut) /\ WF_vars(EndedOut)

-----------------------------------------------------------------------------
FlagsOK ==
  /\ ticking \in BOOLEAN /\ listening \in BOOLEAN /\ definition \in BOOLEAN
  /\ editing \in BOOLEAN /\ resizing \in BOOLEAN /\ viewActive \in BOOLEAN
  /\ startAtNext \in BOOLEAN /\ open \in BOOLEAN /\ failed \in BOOLEAN

TypeOK ==
  /\ FlagsOK
  /\ status \in Statuses /\ screen \in Screens /\ mishap \in Mishaps
  /\ game \in {"none", "running", "ended"}
  /\ answering \in Kinds \cup {"Pause"}
  /\ viewTimers \in Nat /\ waits \in Nat /\ newGames \in Nat
  /\ gt \in GameTimings
  /\ requests \in Seq(AllInterrupts)

Regular == mishap \in Minor
Larger(a, b) == IF a > b THEN a ELSE b

(* The view clock of callbackNextViewTick and startNextViewTickTimer never *)
(* stops while a game ticks or waits to be started, and never runs twice,  *)
(* which would draw and move the game at double speed: after any pausing,  *)
(* resuming and restarting within a view interval.                         *)
OneViewClock ==
  /\ viewTimers = IF viewActive THEN 1 ELSE 0
  /\ startAtNext => viewActive
  /\ ticking /\ Regular => viewActive

(* callbackNextViewTick compares m_nCurViewTick with m_nTotViewTicks for   *)
(* equality only, so that a current tick past the total would end the game *)
(* ticks.  The numbers stay in the ranges that GameTiming documents, where *)
(* the maximum is never less than what reset sets.                         *)
ViewTicksInRange ==
  LET most == Larger(FirstViewTicks, MaxViewTicks)
  IN  /\ gt.cur \in 0 .. gt.tot - 1
      /\ gt.tot \in 1 .. most /\ gt.next \in 1 .. most
      /\ gt.calm \in 0 .. CalmTicks

(* No assertion of the code fails as long as requests come one at a time   *)
(* and games can be laid out: pauseGame finds a ticking game, resumeGame   *)
(* one to resume, startGame none that runs, and the resize timer is        *)
(* started and stopped in turn.                                            *)
AssertionsHold == ~failed

(* The table above m_eStatus: what ticks, what is shown and whether the    *)
(* view is being resized, in each status.  In STATUS_PLAY a game that does *)
(* not tick is about to be started or to be left by a timer under way.     *)
StatusTable ==
  Regular =>
    /\ (waits = 1) = (status = "Wait1Sec") /\ waits <= 1
    /\ status = "Menu" => ~ticking /\ ~resizing /\ screen # "Play"
    /\ status = "Play" =>
         /\ screen = "Play" /\ ~resizing
         /\ ticking \/ newGames = 1 \/ startAtNext \/ requests # <<>>
    /\ status \in {"Wait1Sec", "WaitKeypress"} =>
         screen = "Play" /\ ticking /\ resizing /\ game = "ended"

(* Behind the Paused and the Answer screen there is a game that can be     *)
(* resumed, to which nothing is sent meanwhile, and the question on the    *)
(* screen is the one the answer will be taken for.                         *)
PausedGameWaits ==
  Regular /\ screen \in {"Paused", "Answer"} =>
    /\ game = "running" /\ ~ticking /\ ~listening
    /\ screen = "Answer" => answering # "Pause"

(* The players' input reaches exactly the games that run and tick, and     *)
(* while it does the preferences are in running mode: devices that come    *)
(* back are given to a player.                                             *)
InputGoesToPlay ==
  Regular =>
    /\ listening <=> ticking /\ game = "running"
    /\ listening => ~editing

(* A timer that runs out finds the situation that started it: the end of a *)
(* game is not announced over a menu or over another game, no request acts *)
(* on a game it did not come from, and a new game starts where it was      *)
(* asked for.                                                              *)
TimersComeInTime ==
  [][ Regular =>
        /\ waits' < waits => status = "Wait1Sec"
        /\ Len(requests') < Len(requests) =>
             \/ status = "Play" /\ game = "running"
             \/ status = "Menu" /\ screen = "Answer" /\ Head(requests).kind = answering
        /\ newGames' < newGames => status = "Play" /\ ~ticking ]_vars

(* A game that ticks gets its game ticks, however the view ticks are       *)
(* changed: the main loop runs callbackNextViewTick.                       *)
GameKeepsTicking == <>[](ticking /\ open /\ Regular) => []<><<GameTick>>_vars

(* The play screen does not stay up with a game that does not tick: it is  *)
(* started, or another screen comes.                                       *)
NeverFrozen ==
  (screen = "Play" /\ ~ticking /\ open /\ Regular)
    ~> (screen # "Play" \/ ticking \/ ~open \/ ~Regular)
=============================================================================
