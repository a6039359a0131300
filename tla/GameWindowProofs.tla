-------------------------- MODULE GameWindowProofs --------------------------
(* Proofs about GameWindow.  As long as requests come one at a time the    *)
(* window is always in one of seven situations, which its variables do not *)
(* name but which follow from them; every callback leads from one to       *)
(* another, and each property is a fact about all seven.                   *)
EXTENDS GameWindow, TLAPS

\* A game that still runs here is one that could not be laid out.
NothingRuns == game = "running" => mishap = "layout"
Quiet == requests = <<>> /\ newGames = 0 /\ ~startAtNext
Silent == ~ticking /\ ~listening

SettingUp == status = "None" /\ screen = "Play" /\ ~resizing /\ waits = 0
               /\ Quiet /\ Silent /\ NothingRuns

InMenu == /\ status = "Menu" /\ screen \notin {"Play", "Paused", "Answer"}
          /\ ~resizing /\ waits = 0
          /\ Quiet /\ Silent /\ NothingRuns

Suspended ==
  /\ status = "Menu" /\ screen \in {"Paused", "Answer"}
  /\ ~resizing /\ waits = 0 /\ newGames = 0 /\ ~startAtNext
  /\ Silent /\ game = "running" /\ ~editing
  /\ screen = "Paused" => requests = <<>>
  /\ screen = "Answer" =>
       /\ answering # "Pause"
       /\ requests = <<>> \/ requests = <<[kind |-> answering, how |-> "act"]>>

Starting ==
  /\ status = "Play" /\ screen = "Play" /\ ~resizing /\ waits = 0
  /\ requests = <<>>
  /\ (newGames = 1 /\ ~startAtNext) \/ (newGames = 0 /\ startAtNext)
  /\ Silent /\ NothingRuns

Playing ==
  /\ status = "Play" /\ screen = "Play" /\ ~resizing /\ waits = 0
  /\ newGames = 0 /\ ~startAtNext
  /\ ticking /\ listening /\ game = "running" /\ ~editing /\ viewActive
  /\ requests = <<>> \/ \E k \in Kinds : requests = <<[kind |-> k, how |-> "act"]>>

Leaving ==
  /\ status = "Play" /\ screen = "Play" /\ ~resizing /\ waits = 0
  /\ newGames = 0 /\ ~startAtNext
  /\ Silent /\ game = "running" /\ ~editing
  /\ \E r \in AllInterrupts : r.how = "ask" /\ requests = <<r>>

Over ==
  /\ (status = "Wait1Sec" /\ waits = 1) \/ (status = "WaitKeypress" /\ waits = 0)
  /\ screen = "Play" /\ resizing /\ Quiet
  /\ ticking /\ ~listening /\ game = "ended" /\ viewActive

Situation ==
  \/ SettingUp \/ InMenu \/ Suspended \/ Starting \/ Playing \/ Leaving \/ Over

\* The part of the clock that holds whatever comes.
ClockOK ==
  /\ viewTimers = IF viewActive THEN 1 ELSE 0
  /\ startAtNext => viewActive

AnswerOK == screen = "Answer" => answering \in Kinds

IInv ==
  /\ TypeOK
  /\ ClockOK
  /\ AnswerOK
  /\ ViewTicksInRange
  /\ Regular => Situation
  /\ ~failed

USE DEF vars, window, clock, play

LEMMA InterruptTypes ==
  /\ Pause \in AllInterrupts /\ Pause.how = "ask"
  /\ \A r \in AllInterrupts : r # Pause => r.kind \in Kinds
  /\ \A k \in Kinds, h \in {"ask", "act"} :
       [kind |-> k, how |-> h] \in AllInterrupts /\ [kind |-> k, how |-> h] # Pause
BY DEF Pause, AllInterrupts, Kinds

LEMMA InitIInv == ASSUME Init PROVE IInv
<1>1. gt \in GameTimings
  BY ViewTicksAssumption DEF Init, ResetTiming, GameTimings
<1>2. TypeOK
  <2>1. FlagsOK
    BY ZenonT(30) DEF Init, FlagsOK
  <2> QED
    BY <1>1, <2>1 DEF Init, TypeOK, Statuses, Screens, Kinds, Mishaps
<1>3. ClockOK /\ AnswerOK /\ ~failed
  BY DEF Init, ClockOK, AnswerOK
<1>4. ViewTicksInRange
  BY ViewTicksAssumption DEF Init, ViewTicksInRange, ResetTiming, Larger
<1>5. SettingUp
  BY DEF Init, SettingUp, Quiet, Silent, NothingRuns
<1> QED
  BY <1>2, <1>3, <1>4, <1>5 DEF IInv, Situation

LEMMA OneRequest == \A r : Append(<<>>,
     r) = <<r>> /\ Head(<<r>>) = r /\ Tail(<<r>>) = <<>> /\ <<r>> # <<>>
OBVIOUS

LEMMA AddRequest ==
  ASSUME NEW q \in Seq(AllInterrupts), NEW r \in AllInterrupts
  PROVE  Append(q, r) \in Seq(AllInterrupts)
OBVIOUS

LEMMA SetUpIInv == ASSUME IInv, SetUp PROVE IInv'
<1>1. TypeOK'
  <2>1. FlagsOK'
    BY DebugAssumption DEF IInv, TypeOK, FlagsOK, SetUp, Show
  <2> QED
    BY <2>1, InterruptTypes DEF IInv, AnswerOK, TypeOK, Statuses, Screens, Choosers,
         GameTimings, Mishaps, SetUp, Show
<1>2. ClockOK' /\ AnswerOK'
  BY InterruptTypes DEF IInv, TypeOK, ClockOK, AnswerOK, Choosers, Kinds, SetUp, Show
<1>3. ViewTicksInRange'
  BY DEF IInv, TypeOK, GameTimings, ViewTicksInRange, SetUp, Show
<1>4. ASSUME Regular' PROVE Situation' /\ ~failed'
  BY <1>4, OneRequest, InterruptTypes DEF IInv, AnswerOK, TypeOK, Statuses, Screens,
       Choosers, GameTimings, Mishaps, FlagsOK, Regular, Minor, ClockOK, Situation,
       SettingUp, InMenu, Suspended, Starting, Playing, Leaving, Over, Quiet, Silent,
       NothingRuns, SetUp, Show
<1>5. ~failed'
  BY <1>4 DEF IInv, Regular, SetUp, Show
<1> QED
  BY <1>1, <1>2, <1>3, <1>4, <1>5 DEF IInv

LEMMA ClickNewGameIInv == ASSUME IInv, ClickNewGame PROVE IInv'
<1>1. TypeOK'
  <2>1. FlagsOK'
    BY DebugAssumption DEF IInv, TypeOK, FlagsOK, ClickNewGame, Show
  <2> QED
    BY <2>1, InterruptTypes DEF IInv, AnswerOK, TypeOK, Statuses, Screens, Choosers,
         GameTimings, Mishaps, ClickNewGame, Show
<1>2. ClockOK' /\ AnswerOK'
  BY InterruptTypes DEF IInv, TypeOK, ClockOK, AnswerOK, Choosers, Kinds,
       ClickNewGame, Show
<1>3. ViewTicksInRange'
  BY DEF IInv, TypeOK, GameTimings, ViewTicksInRange, ClickNewGame, Show
<1>4. ASSUME Regular' PROVE Situation' /\ ~failed'
  BY <1>4, OneRequest, InterruptTypes DEF IInv, AnswerOK, TypeOK, Statuses, Screens,
       Choosers, GameTimings, Mishaps, FlagsOK, Regular, Minor, ClockOK, Situation,
       SettingUp, InMenu, Suspended, Starting, Playing, Leaving, Over, Quiet, Silent,
       NothingRuns, ClickNewGame, Show
<1>5. ~failed'
  BY <1>4 DEF IInv, Regular, ClickNewGame, Show
<1> QED
  BY <1>1, <1>2, <1>3, <1>4, <1>5 DEF IInv

LEMMA IdleViewTickIInv == ASSUME IInv, IdleViewTick PROVE IInv'
<1>1. TypeOK'
  <2>1. FlagsOK'
    BY DebugAssumption DEF IInv, TypeOK, FlagsOK, IdleViewTick, ViewTimerFires
  <2> QED
    BY <2>1, InterruptTypes DEF IInv, AnswerOK, TypeOK, Statuses, Screens, Choosers,
         GameTimings, Mishaps, IdleViewTick, ViewTimerFires
<1>2. ClockOK' /\ AnswerOK'
  BY InterruptTypes DEF IInv, TypeOK, ClockOK, AnswerOK, Choosers, Kinds,
       IdleViewTick, ViewTimerFires
<1>3. ViewTicksInRange'
  BY DEF IInv, TypeOK, GameTimings, ViewTicksInRange, IdleViewTick, ViewTimerFires
<1>4. ASSUME Regular' PROVE Situation' /\ ~failed'
  BY <1>4, OneRequest, InterruptTypes DEF IInv, AnswerOK, TypeOK, Statuses, Screens,
       Choosers, GameTimings, Mishaps, FlagsOK, Regular, Minor, ClockOK, Situation,
       SettingUp, InMenu, Suspended, Starting, Playing, Leaving, Over, Quiet, Silent,
       NothingRuns, IdleViewTick, ViewTimerFires
<1>5. ~failed'
  BY <1>4 DEF IInv, Regular, IdleViewTick, ViewTimerFires
<1> QED
  BY <1>1, <1>2, <1>3, <1>4, <1>5 DEF IInv

LEMMA DrawingTickIInv == ASSUME IInv, DrawingTick PROVE IInv'
<1>1. TypeOK'
  <2>1. FlagsOK'
    BY DebugAssumption DEF IInv, TypeOK, FlagsOK, DrawingTick, ViewTimerFires,
         IsGameTick, StartViewTimer
  <2> QED
    BY <2>1, InterruptTypes DEF IInv, AnswerOK, TypeOK, Statuses, Screens, Choosers,
         GameTimings, Mishaps, DrawingTick, ViewTimerFires, IsGameTick, StartViewTimer
<1>2. ClockOK' /\ AnswerOK'
  BY InterruptTypes DEF IInv, TypeOK, ClockOK, AnswerOK, Choosers, Kinds,
       DrawingTick, ViewTimerFires, IsGameTick, StartViewTimer
<1>3. ViewTicksInRange'
  BY DEF IInv, TypeOK, GameTimings, ViewTicksInRange, DrawingTick, ViewTimerFires,
       IsGameTick, StartViewTimer
<1>4. ASSUME Regular' PROVE Situation' /\ ~failed'
  BY <1>4, OneRequest, InterruptTypes DEF IInv, AnswerOK, TypeOK, Statuses, Screens,
       Choosers, GameTimings, Mishaps, FlagsOK, Regular, Minor, ClockOK, Situation,
       SettingUp, InMenu, Suspended, Starting, Playing, Leaving, Over, Quiet, Silent,
       NothingRuns, DrawingTick, ViewTimerFires, IsGameTick, StartViewTimer
<1>5. ~failed'
  BY <1>4 DEF IInv, Regular, DrawingTick, ViewTimerFires, IsGameTick, StartViewTimer
<1> QED
  BY <1>1, <1>2, <1>3, <1>4, <1>5 DEF IInv

LEMMA DeactivateIInv == ASSUME IInv, Deactivate PROVE IInv'
<1>1. TypeOK'
  <2>1. FlagsOK'
    BY DebugAssumption DEF IInv, TypeOK, FlagsOK, Deactivate, PauseRequest, Overlaps,
         Overlapping, Happens
  <2>2. requests' \in Seq(AllInterrupts)
    <3>1. requests' = requests \/ requests' = Append(requests, Pause)
      BY DEF Deactivate, PauseRequest
    <3> QED
      BY <3>1, AddRequest, InterruptTypes DEF IInv, TypeOK
  <2> QED
    BY <2>1, <2>2 DEF IInv, TypeOK, Statuses, Screens, Choosers, GameTimings,
         Mishaps, Deactivate, PauseRequest, Overlaps, Overlapping, Happens
<1>2. ClockOK' /\ AnswerOK'
  BY InterruptTypes DEF IInv, TypeOK, ClockOK, AnswerOK, Choosers, Kinds, Deactivate,
       PauseRequest, Overlaps, Overlapping, Happens
<1>3. ViewTicksInRange'
  BY DEF IInv, TypeOK, GameTimings, ViewTicksInRange, Deactivate, PauseRequest,
       Overlaps, Overlapping, Happens
<1>4. ASSUME Regular' PROVE Situation' /\ ~failed'
  <2>1. Regular /\ Situation
    BY <1>4 DEF IInv, Regular, Minor, Deactivate, PauseRequest, Overlaps,
         Overlapping, Happens
  <2>2. Playing
    BY <2>1 DEF Situation, SettingUp, InMenu, Suspended, Starting, Playing, Leaving,
         Over, Quiet, Silent, NothingRuns, Deactivate
  <2>3. requests = <<>>
    BY <1>4, <2>2 DEF Playing, Regular, Minor, Deactivate, PauseRequest, Overlaps,
         Overlapping, Happens
  <2>4. requests' = <<Pause>> /\ ~ticking' /\ ~listening'
    BY <2>2, <2>3, OneRequest DEF Playing, Deactivate, PauseRequest
  <2>5. Leaving'
    BY <2>2, <2>4, InterruptTypes DEF Playing, Leaving, Silent, Deactivate
  <2> QED
    BY <2>5 DEF Situation, IInv, Deactivate
<1>5. ~failed'
  BY <1>4 DEF IInv, Regular, Deactivate, PauseRequest, Overlaps, Overlapping, Happens
<1> QED
  BY <1>1, <1>2, <1>3, <1>4, <1>5 DEF IInv

LEMMA ReshapeIInv == ASSUME IInv, Reshape PROVE IInv'
<1>1. TypeOK'
  <2>1. FlagsOK'
    BY DebugAssumption DEF IInv, TypeOK, FlagsOK, Reshape, PauseRequest, Overlaps,
         Overlapping, Happens
  <2>2. requests' \in Seq(AllInterrupts)
    <3>1. requests' = requests \/ requests' = Append(requests, Pause)
      BY DEF Reshape, PauseRequest
    <3> QED
      BY <3>1, AddRequest, InterruptTypes DEF IInv, TypeOK
  <2> QED
    BY <2>1, <2>2 DEF IInv, TypeOK, Statuses, Screens, Choosers, GameTimings,
         Mishaps, Reshape, PauseRequest, Overlaps, Overlapping, Happens
<1>2. ClockOK' /\ AnswerOK'
  BY InterruptTypes DEF IInv, TypeOK, ClockOK, AnswerOK, Choosers, Kinds, Reshape,
       PauseRequest, Overlaps, Overlapping, Happens
<1>3. ViewTicksInRange'
  BY DEF IInv, TypeOK, GameTimings, ViewTicksInRange, Reshape, PauseRequest,
       Overlaps, Overlapping, Happens
<1>4. ASSUME Regular' PROVE Situation' /\ ~failed'
  <2>1. Regular /\ Situation
    BY <1>4 DEF IInv, Regular, Minor, Reshape, PauseRequest, Overlaps, Overlapping,
         Happens
  <2>2. Playing
    BY <2>1 DEF Situation, SettingUp, InMenu, Suspended, Starting, Playing, Leaving,
         Over, Quiet, Silent, NothingRuns, Reshape
  <2>3. requests = <<>>
    BY <1>4, <2>2 DEF Playing, Regular, Minor, Reshape, PauseRequest, Overlaps,
         Overlapping, Happens
  <2>4. requests' = <<Pause>> /\ ~ticking' /\ ~listening'
    BY <2>2, <2>3, OneRequest DEF Playing, Reshape, PauseRequest
  <2>5. Leaving'
    BY <2>2, <2>4, InterruptTypes DEF Playing, Leaving, Silent, Reshape
  <2> QED
    BY <2>5 DEF Situation, IInv, Reshape
<1>5. ~failed'
  BY <1>4 DEF IInv, Regular, Reshape, PauseRequest, Overlaps, Overlapping, Happens
<1> QED
  BY <1>1, <1>2, <1>3, <1>4, <1>5 DEF IInv

LEMMA PauseOutIInv == ASSUME IInv, PauseOut PROVE IInv'
<1>1. TypeOK'
  <2>1. FlagsOK'
    BY DebugAssumption DEF IInv, TypeOK, FlagsOK, PauseOut, Show
  <2> QED
    BY <2>1, InterruptTypes DEF IInv, AnswerOK, TypeOK, Statuses, Screens, Choosers,
         GameTimings, Mishaps, PauseOut, Show
<1>2. ClockOK' /\ AnswerOK'
  BY InterruptTypes DEF IInv, TypeOK, ClockOK, AnswerOK, Choosers, Kinds, PauseOut,
       Show
<1>3. ViewTicksInRange'
  BY DEF IInv, TypeOK, GameTimings, ViewTicksInRange, PauseOut, Show
<1>4. ASSUME Regular' PROVE Situation' /\ ~failed'
  BY <1>4, OneRequest, InterruptTypes DEF IInv, AnswerOK, TypeOK, Statuses, Screens,
       Choosers, GameTimings, Mishaps, FlagsOK, Regular, Minor, ClockOK, Situation,
       SettingUp, InMenu, Suspended, Starting, Playing, Leaving, Over, Quiet, Silent,
       NothingRuns, PauseOut, Show
<1>5. ~failed'
  BY <1>4 DEF IInv, Regular, PauseOut, Show
<1> QED
  BY <1>1, <1>2, <1>3, <1>4, <1>5 DEF IInv

LEMMA AskOutIInv == ASSUME IInv, AskOut PROVE IInv'
<1>1. TypeOK'
  <2>1. FlagsOK'
    BY DebugAssumption DEF IInv, TypeOK, FlagsOK, AskOut, Show
  <2> QED
    BY <2>1, InterruptTypes DEF IInv, AnswerOK, TypeOK, Statuses, Screens, Choosers,
         GameTimings, Mishaps, AskOut, Show
<1>2. ClockOK' /\ AnswerOK'
  BY InterruptTypes DEF IInv, TypeOK, ClockOK, AnswerOK, Choosers, Kinds, AskOut, Show
<1>3. ViewTicksInRange'
  BY DEF IInv, TypeOK, GameTimings, ViewTicksInRange, AskOut, Show
<1>4. ASSUME Regular' PROVE Situation' /\ ~failed'
  <2>1. Regular /\ Situation
    BY <1>4 DEF IInv, Regular, AskOut
  <2>2. Leaving
    BY <2>1, OneRequest, InterruptTypes DEF Situation, SettingUp, InMenu, Suspended,
         Starting, Playing, Leaving, Over, Quiet, Silent, NothingRuns, AskOut
  <2>3. PICK r \in AllInterrupts : r.how = "ask" /\ requests = <<r>>
    BY <2>2 DEF Leaving
  <2>4. requests' = <<>> /\ answering' = r.kind /\ r # Pause
    BY <2>3, OneRequest DEF AskOut
  <2>5. r.kind # "Pause"
    BY <2>4, InterruptTypes DEF Kinds
  <2>6. Suspended'
    BY <2>2, <2>4, <2>5 DEF Leaving, Suspended, Silent, AskOut, Show
  <2> QED
    BY <2>6 DEF Situation, IInv, AskOut
<1>5. ~failed'
  BY <1>4 DEF IInv, Regular, AskOut, Show
<1> QED
  BY <1>1, <1>2, <1>3, <1>4, <1>5 DEF IInv

LEMMA AbortOutIInv == ASSUME IInv, AbortOut PROVE IInv'
<1>1. TypeOK'
  <2>1. FlagsOK'
    BY DebugAssumption DEF IInv, TypeOK, FlagsOK, AbortOut, Acts, Become, Finished,
         Show
  <2> QED
    BY <2>1, InterruptTypes DEF IInv, AnswerOK, TypeOK, Statuses, Screens, Choosers,
         GameTimings, Mishaps, AbortOut, Acts, Become, Finished, Show
<1>2. ClockOK' /\ AnswerOK'
  BY InterruptTypes DEF IInv, TypeOK, ClockOK, AnswerOK, Choosers, Kinds, AbortOut,
       Acts, Become, Finished, Show
<1>3. ViewTicksInRange'
  BY DEF IInv, TypeOK, GameTimings, ViewTicksInRange, AbortOut, Acts, Become,
       Finished, Show
<1>4. ASSUME Regular' PROVE Situation' /\ ~failed'
  BY <1>4, OneRequest, InterruptTypes DEF IInv, AnswerOK, TypeOK, Statuses, Screens,
       Choosers, GameTimings, Mishaps, FlagsOK, Regular, Minor, ClockOK, Situation,
       SettingUp, InMenu, Suspended, Starting, Playing, Leaving, Over, Quiet, Silent,
       NothingRuns, AbortOut, Acts, Become, Finished, Show
<1>5. ~failed'
  BY <1>4 DEF IInv, Regular, AbortOut, Acts, Become, Finished, Show
<1> QED
  BY <1>1, <1>2, <1>3, <1>4, <1>5 DEF IInv

LEMMA QuitOutIInv == ASSUME IInv, QuitOut PROVE IInv'
<1>1. TypeOK'
  <2>1. FlagsOK'
    BY DebugAssumption DEF IInv, TypeOK, FlagsOK, QuitOut, Acts
  <2> QED
    BY <2>1, InterruptTypes DEF IInv, AnswerOK, TypeOK, Statuses, Screens, Choosers,
         GameTimings, Mishaps, QuitOut, Acts
<1>2. ClockOK' /\ AnswerOK'
  BY InterruptTypes DEF IInv, TypeOK, ClockOK, AnswerOK, Choosers, Kinds, QuitOut,
       Acts
<1>3. ViewTicksInRange'
  BY DEF IInv, TypeOK, GameTimings, ViewTicksInRange, QuitOut, Acts
<1>4. ASSUME Regular' PROVE Situation' /\ ~failed'
  BY <1>4, OneRequest, InterruptTypes DEF IInv, AnswerOK, TypeOK, Statuses, Screens,
       Choosers, GameTimings, Mishaps, FlagsOK, Regular, Minor, ClockOK, Situation,
       SettingUp, InMenu, Suspended, Starting, Playing, Leaving, Over, Quiet, Silent,
       NothingRuns, QuitOut, Acts
<1>5. ~failed'
  BY <1>4 DEF IInv, Regular, QuitOut, Acts
<1> QED
  BY <1>1, <1>2, <1>3, <1>4, <1>5 DEF IInv

LEMMA ClickYesIInv == ASSUME IInv, ClickYes PROVE IInv'
<1>1. TypeOK'
  <2>1. FlagsOK'
    BY DebugAssumption DEF IInv, TypeOK, FlagsOK, ClickYes, Overlaps, Overlapping,
         Happens
  <2>2. requests' \in Seq(AllInterrupts)
    <3>1. [kind |-> answering, how |-> "act"] \in AllInterrupts
      BY InterruptTypes DEF IInv, AnswerOK, ClickYes
    <3> QED
      BY <3>1, AddRequest DEF IInv, TypeOK, ClickYes
  <2> QED
    BY <2>1, <2>2 DEF IInv, TypeOK, Statuses, Screens, Choosers, GameTimings,
         Mishaps, ClickYes, Overlaps, Overlapping, Happens
<1>2. ClockOK' /\ AnswerOK'
  BY InterruptTypes DEF IInv, TypeOK, ClockOK, AnswerOK, Choosers, Kinds, ClickYes,
       Overlaps, Overlapping, Happens
<1>3. ViewTicksInRange'
  BY DEF IInv, TypeOK, GameTimings, ViewTicksInRange, ClickYes, Overlaps,
       Overlapping, Happens
<1>4. ASSUME Regular' PROVE Situation' /\ ~failed'
  <2>1. Regular /\ Situation
    BY <1>4 DEF IInv, Regular, Minor, ClickYes, Overlaps, Overlapping, Happens
  <2>2. Suspended
    BY <2>1 DEF Situation, SettingUp, InMenu, Suspended, Starting, Playing, Leaving,
         Over, Quiet, Silent, NothingRuns, ClickYes
  <2>3. requests = <<>>
    BY <1>4, <2>2 DEF Suspended, Regular, Minor, ClickYes, Overlaps, Overlapping,
         Happens
  <2>4. requests' = <<[kind |-> answering, how |-> "act"]>>
    BY <2>3, OneRequest DEF ClickYes
  <2>5. Suspended'
    BY <2>2, <2>4 DEF Suspended, Silent, ClickYes
  <2> QED
    BY <2>5 DEF Situation, IInv, ClickYes
<1>5. ~failed'
  BY <1>4 DEF IInv, Regular, ClickYes, Overlaps, Overlapping, Happens
<1> QED
  BY <1>1, <1>2, <1>3, <1>4, <1>5 DEF IInv

LEMMA ResumeIInv == ASSUME IInv, Resume PROVE IInv'
<1>1. TypeOK'
  <2>1. FlagsOK'
    BY DebugAssumption DEF IInv, TypeOK, FlagsOK, Resume, Overlaps, Overlapping,
         Happens, Asserts, StartViewTimer, Show
  <2> QED
    BY <2>1, InterruptTypes DEF IInv, AnswerOK, TypeOK, Statuses, Screens, Choosers,
         GameTimings, Mishaps, Resume, Overlaps, Overlapping, Happens, Asserts,
         StartViewTimer, Show
<1>2. ClockOK' /\ AnswerOK'
  BY InterruptTypes DEF IInv, TypeOK, ClockOK, AnswerOK, Choosers, Kinds, Resume,
       Overlaps, Overlapping, Happens, Asserts, StartViewTimer, Show
<1>3. ViewTicksInRange'
  BY DEF IInv, TypeOK, GameTimings, ViewTicksInRange, Resume, Overlaps, Overlapping,
       Happens, Asserts, StartViewTimer, Show
<1>4. ASSUME Regular' PROVE Situation' /\ ~failed'
  BY <1>4, OneRequest, InterruptTypes DEF IInv, AnswerOK, TypeOK, Statuses, Screens,
       Choosers, GameTimings, Mishaps, FlagsOK, Regular, Minor, ClockOK, Situation,
       SettingUp, InMenu, Suspended, Starting, Playing, Leaving, Over, Quiet, Silent,
       NothingRuns, Resume, Overlaps, Overlapping, Happens, Asserts, StartViewTimer,
       Show
<1>5. ~failed'
  BY <1>4 DEF IInv, Regular, Resume, Overlaps, Overlapping, Happens, Asserts,
       StartViewTimer, Show
<1> QED
  BY <1>1, <1>2, <1>3, <1>4, <1>5 DEF IInv

LEMMA ClickAbortIInv == ASSUME IInv, ClickAbort PROVE IInv'
<1>1. TypeOK'
  <2>1. FlagsOK'
    BY DebugAssumption DEF IInv, TypeOK, FlagsOK, ClickAbort, Become, Finished, Show,
         Overlaps, Overlapping, Happens
  <2> QED
    BY <2>1, InterruptTypes DEF IInv, AnswerOK, TypeOK, Statuses, Screens, Choosers,
         GameTimings, Mishaps, ClickAbort, Become, Finished, Show, Overlaps,
         Overlapping, Happens
<1>2. ClockOK' /\ AnswerOK'
  BY InterruptTypes DEF IInv, TypeOK, ClockOK, AnswerOK, Choosers, Kinds, ClickAbort,
       Become, Finished, Show, Overlaps, Overlapping, Happens
<1>3. ViewTicksInRange'
  BY DEF IInv, TypeOK, GameTimings, ViewTicksInRange, ClickAbort, Become, Finished,
       Show, Overlaps, Overlapping, Happens
<1>4. ASSUME Regular' PROVE Situation' /\ ~failed'
  BY <1>4, OneRequest, InterruptTypes DEF IInv, AnswerOK, TypeOK, Statuses, Screens,
       Choosers, GameTimings, Mishaps, FlagsOK, Regular, Minor, ClockOK, Situation,
       SettingUp, InMenu, Suspended, Starting, Playing, Leaving, Over, Quiet, Silent,
       NothingRuns, ClickAbort, Become, Finished, Show, Overlaps, Overlapping, Happens
<1>5. ~failed'
  BY <1>4 DEF IInv, Regular, ClickAbort, Become, Finished, Show, Overlaps,
       Overlapping, Happens
<1> QED
  BY <1>1, <1>2, <1>3, <1>4, <1>5 DEF IInv

LEMMA EndedOutIInv == ASSUME IInv, EndedOut PROVE IInv'
<1>1. TypeOK'
  <2>1. FlagsOK'
    BY DebugAssumption DEF IInv, TypeOK, FlagsOK, EndedOut, Show
  <2> QED
    BY <2>1, InterruptTypes DEF IInv, AnswerOK, TypeOK, Statuses, Screens, Choosers,
         GameTimings, Mishaps, EndedOut, Show
<1>2. ClockOK' /\ AnswerOK'
  BY InterruptTypes DEF IInv, TypeOK, ClockOK, AnswerOK, Choosers, Kinds, EndedOut,
       Show
<1>3. ViewTicksInRange'
  BY DEF IInv, TypeOK, GameTimings, ViewTicksInRange, EndedOut, Show
<1>4. ASSUME Regular' PROVE Situation' /\ ~failed'
  BY <1>4, OneRequest, InterruptTypes DEF IInv, AnswerOK, TypeOK, Statuses, Screens,
       Choosers, GameTimings, Mishaps, FlagsOK, Regular, Minor, ClockOK, Situation,
       SettingUp, InMenu, Suspended, Starting, Playing, Leaving, Over, Quiet, Silent,
       NothingRuns, EndedOut, Show
<1>5. ~failed'
  BY <1>4 DEF IInv, Regular, EndedOut, Show
<1> QED
  BY <1>1, <1>2, <1>3, <1>4, <1>5 DEF IInv

LEMMA PressKeyIInv == ASSUME IInv, PressKey PROVE IInv'
<1>1. TypeOK'
  <2>1. FlagsOK'
    BY DebugAssumption DEF IInv, TypeOK, FlagsOK, PressKey, Show, Happens, Asserts
  <2> QED
    BY <2>1, InterruptTypes DEF IInv, AnswerOK, TypeOK, Statuses, Screens, Choosers,
         GameTimings, Mishaps, PressKey, Show, Happens, Asserts
<1>2. ClockOK' /\ AnswerOK'
  BY InterruptTypes DEF IInv, TypeOK, ClockOK, AnswerOK, Choosers, Kinds, PressKey,
       Show, Happens, Asserts
<1>3. ViewTicksInRange'
  BY DEF IInv, TypeOK, GameTimings, ViewTicksInRange, PressKey, Show, Happens, Asserts
<1>4. ASSUME Regular' PROVE Situation' /\ ~failed'
  BY <1>4, OneRequest, InterruptTypes DEF IInv, AnswerOK, TypeOK, Statuses, Screens,
       Choosers, GameTimings, Mishaps, FlagsOK, Regular, Minor, ClockOK, Situation,
       SettingUp, InMenu, Suspended, Starting, Playing, Leaving, Over, Quiet, Silent,
       NothingRuns, PressKey, Show, Happens, Asserts
<1>5. ~failed'
  BY <1>4 DEF IInv, Regular, PressKey, Show, Happens, Asserts
<1> QED
  BY <1>1, <1>2, <1>3, <1>4, <1>5 DEF IInv

LEMMA AfterHighscoresIInv == ASSUME IInv, AfterHighscores PROVE IInv'
<1>1. TypeOK'
  <2>1. FlagsOK'
    BY DebugAssumption DEF IInv, TypeOK, FlagsOK, AfterHighscores, Show
  <2> QED
    BY <2>1, InterruptTypes DEF IInv, AnswerOK, TypeOK, Statuses, Screens, Choosers,
         GameTimings, Mishaps, AfterHighscores, Show
<1>2. ClockOK' /\ AnswerOK'
  BY InterruptTypes DEF IInv, TypeOK, ClockOK, AnswerOK, Choosers, Kinds,
       AfterHighscores, Show
<1>3. ViewTicksInRange'
  BY DEF IInv, TypeOK, GameTimings, ViewTicksInRange, AfterHighscores, Show
<1>4. ASSUME Regular' PROVE Situation' /\ ~failed'
  BY <1>4, OneRequest, InterruptTypes DEF IInv, AnswerOK, TypeOK, Statuses, Screens,
       Choosers, GameTimings, Mishaps, FlagsOK, Regular, Minor, ClockOK, Situation,
       SettingUp, InMenu, Suspended, Starting, Playing, Leaving, Over, Quiet, Silent,
       NothingRuns, AfterHighscores, Show
<1>5. ~failed'
  BY <1>4 DEF IInv, Regular, AfterHighscores, Show
<1> QED
  BY <1>1, <1>2, <1>3, <1>4, <1>5 DEF IInv

LEMMA OpenScreenIInv == ASSUME IInv, OpenScreen PROVE IInv'
<1>1. TypeOK'
  <2>1. FlagsOK'
    BY DebugAssumption DEF IInv, TypeOK, FlagsOK, OpenScreen, Show
  <2> QED
    BY <2>1, InterruptTypes DEF IInv, AnswerOK, TypeOK, Statuses, Screens, Choosers,
         GameTimings, Mishaps, OpenScreen, Show
<1>2. ClockOK' /\ AnswerOK'
  BY InterruptTypes DEF IInv, TypeOK, ClockOK, AnswerOK, Choosers, Kinds, OpenScreen,
       Show
<1>3. ViewTicksInRange'
  BY DEF IInv, TypeOK, GameTimings, ViewTicksInRange, OpenScreen, Show
<1>4. ASSUME Regular' PROVE Situation' /\ ~failed'
  BY <1>4, OneRequest, InterruptTypes DEF IInv, AnswerOK, TypeOK, Statuses, Screens,
       Choosers, GameTimings, Mishaps, FlagsOK, Regular, Minor, ClockOK, Situation,
       SettingUp, InMenu, Suspended, Starting, Playing, Leaving, Over, Quiet, Silent,
       NothingRuns, OpenScreen, Show
<1>5. ~failed'
  BY <1>4 DEF IInv, Regular, OpenScreen, Show
<1> QED
  BY <1>1, <1>2, <1>3, <1>4, <1>5 DEF IInv

LEMMA BackToMainIInv == ASSUME IInv, BackToMain PROVE IInv'
<1>1. TypeOK'
  <2>1. FlagsOK'
    BY DebugAssumption DEF IInv, TypeOK, FlagsOK, BackToMain, Show
  <2> QED
    BY <2>1, InterruptTypes DEF IInv, AnswerOK, TypeOK, Statuses, Screens, Choosers,
         GameTimings, Mishaps, BackToMain, Show
<1>2. ClockOK' /\ AnswerOK'
  BY InterruptTypes DEF IInv, TypeOK, ClockOK, AnswerOK, Choosers, Kinds, BackToMain,
       Show
<1>3. ViewTicksInRange'
  BY DEF IInv, TypeOK, GameTimings, ViewTicksInRange, BackToMain, Show
<1>4. ASSUME Regular' PROVE Situation' /\ ~failed'
  BY <1>4, OneRequest, InterruptTypes DEF IInv, AnswerOK, TypeOK, Statuses, Screens,
       Choosers, GameTimings, Mishaps, FlagsOK, Regular, Minor, ClockOK, Situation,
       SettingUp, InMenu, Suspended, Starting, Playing, Leaving, Over, Quiet, Silent,
       NothingRuns, BackToMain, Show
<1>5. ~failed'
  BY <1>4 DEF IInv, Regular, BackToMain, Show
<1> QED
  BY <1>1, <1>2, <1>3, <1>4, <1>5 DEF IInv

LEMMA ClickQuitIInv == ASSUME IInv, ClickQuit PROVE IInv'
<1>1. TypeOK'
  <2>1. FlagsOK'
    BY DebugAssumption DEF IInv, TypeOK, FlagsOK, ClickQuit
  <2> QED
    BY <2>1, InterruptTypes DEF IInv, AnswerOK, TypeOK, Statuses, Screens, Choosers,
         GameTimings, Mishaps, ClickQuit
<1>2. ClockOK' /\ AnswerOK'
  BY InterruptTypes DEF IInv, TypeOK, ClockOK, AnswerOK, Choosers, Kinds, ClickQuit
<1>3. ViewTicksInRange'
  BY DEF IInv, TypeOK, GameTimings, ViewTicksInRange, ClickQuit
<1>4. ASSUME Regular' PROVE Situation' /\ ~failed'
  BY <1>4, OneRequest, InterruptTypes DEF IInv, AnswerOK, TypeOK, Statuses, Screens,
       Choosers, GameTimings, Mishaps, FlagsOK, Regular, Minor, ClockOK, Situation,
       SettingUp, InMenu, Suspended, Starting, Playing, Leaving, Over, Quiet, Silent,
       NothingRuns, ClickQuit
<1>5. ~failed'
  BY <1>4 DEF IInv, Regular, ClickQuit
<1> QED
  BY <1>1, <1>2, <1>3, <1>4, <1>5 DEF IInv

(* startGame, from whichever callback: if nothing runs and nothing ticks   *)
(* when it is called, one of the four ways it takes ends in a situation.   *)
LEMMA StartGameIInv ==
  ASSUME IInv,
         NEW g \in {"none", "running", "ended"},
         NEW t \in BOOLEAN, NEW l \in BOOLEAN, NEW e \in BOOLEAN,
         NEW act \in BOOLEAN, NEW n \in Nat, NEW st \in Statuses, NEW sc \in Screens,
         StartGame([game |-> g, ticking |-> t, listening |-> l, editing |-> e],
                   act, n, st, sc),
         n = IF act THEN 1 ELSE 0,
         sc = "Answer" => answering \in Kinds,
         UNCHANGED <<resizing, answering, waits>>,
         newGames' \in Nat, requests' \in Seq(AllInterrupts),
         Regular => /\ ~t /\ ~l /\ ~resizing /\ waits = 0
                    /\ requests' = <<>> /\ newGames' = 0
                    /\ g = "running" => mishap = "layout"
                    /\ st = "Play" /\ sc = "Play"
  PROVE  IInv'
<1> DEFINE p == [game |-> g, ticking |-> t, listening |-> l, editing |-> e]
<1>1. CASE act /\ StartLater(p, n, st, sc)
  <2>1. /\ game' = g /\ ticking' = t /\ listening' = l /\ editing' = e
        /\ status' = st /\ screen' = sc
        /\ startAtNext' = TRUE /\ viewActive' = TRUE /\ viewTimers' = n
        /\ UNCHANGED <<definition, gt, open, failed, mishap>>
    BY <1>1 DEF StartLater, Become, Show
  <2>2. FlagsOK'
    BY <2>1 DEF IInv, TypeOK, FlagsOK
  <2>3. TypeOK' /\ ClockOK' /\ AnswerOK' /\ ViewTicksInRange'
    BY <1>1, <2>1, <2>2 DEF IInv, TypeOK, ClockOK, AnswerOK, ViewTicksInRange,
         GameTimings
  <2>4. ASSUME Regular' PROVE Starting'
    BY <2>1, <2>4 DEF Regular, Starting, Silent, NothingRuns
  <2> QED
    BY <2>1, <2>3, <2>4 DEF IInv, Situation
<1>2. CASE ~act /\ startAtNext' = FALSE /\ CannotCreate(p, n)
             /\ Asserts(~p.ticking /\ (p.game = "running" => mishap = "layout"))
  <2>1. /\ game' = g /\ ticking' = t /\ listening' = l /\ editing' = e
        /\ status' = "Menu" /\ screen' = "Info"
        /\ startAtNext' = FALSE /\ viewActive' = FALSE /\ viewTimers' = 0
        /\ UNCHANGED <<definition, gt, mishap>>
    BY <1>2 DEF CannotCreate, Become, Show
  <2>2. open' \in BOOLEAN /\ failed' \in BOOLEAN
    BY <1>2, DebugAssumption DEF Asserts, IInv, TypeOK, FlagsOK
  <2>3. FlagsOK'
    BY <2>1, <2>2 DEF IInv, TypeOK, FlagsOK
  <2>4. TypeOK' /\ ClockOK' /\ AnswerOK' /\ ViewTicksInRange'
    BY <1>2, <2>1, <2>3
    DEF IInv, TypeOK, ClockOK, AnswerOK, ViewTicksInRange, GameTimings, Statuses,
         Screens
  <2>5. ASSUME Regular' PROVE InMenu'
    BY <2>1, <2>5 DEF Regular, InMenu, Quiet, Silent, NothingRuns
  <2>6. ~failed'
    BY <1>2, <2>1 DEF IInv, Asserts, Regular
  <2> QED
    BY <2>4, <2>5, <2>6 DEF IInv, Situation
<1>3. CASE ~act /\ startAtNext' = FALSE /\ CannotLayout(p, n)
             /\ Asserts(~p.ticking /\ (p.game = "running" => mishap = "layout"))
  <2>1. /\ game' = "running" /\ ticking' = t /\ listening' = l /\ editing' = e
        /\ status' = "Menu" /\ screen' = "Info"
        /\ startAtNext' = FALSE /\ viewActive' = FALSE /\ viewTimers' = 0
        /\ definition' \in BOOLEAN /\ gt' = gt
        /\ mishap' = IF mishap = "none" THEN "layout" ELSE mishap
    BY <1>3 DEF CannotLayout, Become, Show, Happens, Minor
  <2>2. open' \in BOOLEAN /\ failed' \in BOOLEAN
    BY <1>3, DebugAssumption DEF Asserts, IInv, TypeOK, FlagsOK
  <2>3. FlagsOK'
    BY <2>1, <2>2 DEF IInv, TypeOK, FlagsOK
  <2>4. TypeOK' /\ ClockOK' /\ AnswerOK' /\ ViewTicksInRange'
    BY <1>3, <2>1, <2>3 DEF IInv, TypeOK, ClockOK, AnswerOK, ViewTicksInRange,
       GameTimings, Statuses, Screens, Mishaps
  <2>5. Regular' => Regular
    BY <2>1 DEF Regular, Minor
  <2>6. ASSUME Regular' PROVE InMenu'
    BY <2>1, <2>5, <2>6 DEF Regular, Minor, InMenu, Quiet, Silent, NothingRuns
  <2>7. ~failed'
    BY <1>3, <2>5 DEF IInv, Asserts, Regular
  <2> QED
    BY <2>4, <2>6, <2>7 DEF IInv, Situation
<1>4. CASE ~act /\ startAtNext' = FALSE /\ StartNow(n, st, sc)
             /\ Asserts(~p.ticking /\ (p.game = "running" => mishap = "layout"))
  <2>1. /\ game' = "running" /\ ticking' = TRUE /\ listening' = TRUE /\ editing' = FALSE
        /\ status' = st /\ screen' = sc
        /\ startAtNext' = FALSE /\ viewActive' = TRUE /\ viewTimers' = 1
        /\ definition' \in BOOLEAN /\ gt' = ResetTiming /\ mishap' = mishap
    BY <1>4 DEF StartNow, Become, Show, StartViewTimer
  <2>2. open' \in BOOLEAN /\ failed' \in BOOLEAN
    BY <1>4, DebugAssumption DEF Asserts, IInv, TypeOK, FlagsOK
  <2>3. FlagsOK'
    BY <2>1, <2>2 DEF IInv, TypeOK, FlagsOK
  <2>4. gt' \in GameTimings /\ ViewTicksInRange'
    BY <2>1, ViewTicksAssumption DEF ResetTiming, GameTimings, ViewTicksInRange,
         Larger
  <2>5. TypeOK' /\ ClockOK' /\ AnswerOK'
    BY <1>4, <2>1, <2>3, <2>4 DEF IInv, TypeOK, ClockOK, AnswerOK
  <2>6. ASSUME Regular' PROVE Playing'
    BY <2>1, <2>6 DEF Regular, Playing
  <2>7. ~failed'
    BY <1>4, <2>1 DEF IInv, Asserts, Regular
  <2> QED
    BY <2>4, <2>5, <2>6, <2>7 DEF IInv, Situation
<1> QED
  BY <1>1, <1>2, <1>3, <1>4 DEF StartGame

LEMMA NewGameOutIInv == ASSUME IInv, NewGameOut PROVE IInv'
<1>1. viewTimers \in Nat /\ viewTimers = IF viewActive THEN 1 ELSE 0
  BY DEF IInv, TypeOK, ClockOK
<1>2. newGames' \in Nat /\ requests' \in Seq(AllInterrupts)
  BY DEF IInv, TypeOK, NewGameOut
<1>3. ASSUME Regular PROVE Starting
  BY <1>3 DEF IInv, TypeOK, NewGameOut, Situation, SettingUp, InMenu, Suspended,
       Starting,
     Playing, Leaving, Over, Quiet
<1>4. ASSUME Regular
      PROVE  /\ ~ticking /\ ~listening /\ ~resizing /\ waits = 0
             /\ requests' = <<>> /\ newGames' = 0
             /\ game = "running" => mishap = "layout"
             /\ status = "Play" /\ screen = "Play"
  BY <1>3, <1>4 DEF Starting, Silent, NothingRuns, NewGameOut
<1> QED
  BY <1>1, <1>2, <1>4, StartGameIInv
  DEF IInv, TypeOK, FlagsOK, AnswerOK, NewGameOut, AsItIs

LEMMA DeferredStartIInv == ASSUME IInv, DeferredStart PROVE IInv'
<1>1. viewTimers - 1 = 0
  BY DEF IInv, TypeOK, ClockOK, DeferredStart, ViewTimerFires
<1>2. newGames' \in Nat /\ requests' \in Seq(AllInterrupts)
  BY DEF IInv, TypeOK, DeferredStart
<1>3. ASSUME Regular PROVE Starting
  BY <1>3 DEF IInv, TypeOK, DeferredStart, Situation, SettingUp, InMenu, Suspended,
       Starting,
     Playing, Leaving, Over, Quiet
<1>4. ASSUME Regular
      PROVE  /\ ~ticking /\ ~listening /\ ~resizing /\ waits = 0
             /\ requests' = <<>> /\ newGames' = 0
             /\ game = "running" => mishap = "layout"
             /\ status = "Play" /\ screen = "Play"
  BY <1>3, <1>4 DEF Starting, Silent, NothingRuns, DeferredStart
<1>5. StartGame([game |-> game, ticking |-> ticking, listening |-> listening,
                 editing |-> editing], FALSE, 0, status, screen)
  BY <1>1 DEF DeferredStart, AsItIs
<1> QED
  BY <1>2, <1>4, <1>5, StartGameIInv DEF IInv, TypeOK, FlagsOK, AnswerOK, DeferredStart

LEMMA RestartOutIInv == ASSUME IInv, RestartOut PROVE IInv'
<1>1. viewTimers \in Nat /\ viewTimers = IF viewActive THEN 1 ELSE 0
  BY DEF IInv, TypeOK, ClockOK
<1>2. newGames' \in Nat /\ requests' \in Seq(AllInterrupts) /\ requests' = Tail(requests)
  BY DEF IInv, TypeOK, RestartOut, Acts
<1>3. ASSUME Regular PROVE Suspended \/ Playing
  BY <1>3, OneRequest DEF IInv, RestartOut, Acts, Situation, SettingUp, InMenu,
       Suspended,
     Starting, Playing, Leaving, Over, Quiet
<1>4. ASSUME Regular
      PROVE  /\ ~FALSE /\ ~resizing /\ waits = 0
             /\ requests' = <<>> /\ newGames' = 0
  BY <1>2, <1>3, <1>4, OneRequest DEF Suspended, Playing, RestartOut, Acts
<1> DEFINE g == IF game = "running" THEN "ended" ELSE game
<1>5. g \in {"none", "running", "ended"} /\ g # "running"
  BY DEF IInv, TypeOK
<1>6. StartGame([game |-> g, ticking |-> FALSE, listening |-> FALSE,
     editing |-> TRUE],
                viewActive, viewTimers, "Play", "Play")
  BY DEF RestartOut, Finished
<1>7. "Play" \in Statuses /\ "Play" \in Screens /\ viewActive \in BOOLEAN
  BY DEF Statuses, Screens, IInv, TypeOK, FlagsOK
<1> HIDE DEF g
<1> QED
  BY <1>1, <1>2, <1>4, <1>5, <1>6, <1>7, StartGameIInv DEF RestartOut

-----------------------------------------------------------------------------
(* The game tick *)

LEMMA PacedOK ==
  ASSUME gt \in GameTimings, ViewTicksInRange, NEW pace \in {"slow", "fast", "even"}
  PROVE  /\ Paced(pace) \in GameTimings
         /\ Paced(pace).cur = 0 /\ Paced(pace).tot = gt.next
         /\ Paced(pace).next \in 1 .. Larger(FirstViewTicks, MaxViewTicks)
         /\ Paced(pace).calm \in 0 .. CalmTicks
<1>1. gt.next \in Nat \ {0} /\ gt.calm \in 0 .. CalmTicks
  BY DEF GameTimings, ViewTicksInRange
<1> DEFINE most == Larger(FirstViewTicks, MaxViewTicks)
<1>2. most \in Nat /\ MaxViewTicks <= most /\ gt.next \in 1 .. most
  BY ViewTicksAssumption DEF Larger, ViewTicksInRange
<1> HIDE DEF most
<1> QED
  BY <1>1, <1>2, ViewTicksAssumption DEF Paced, GameTimings, most

LEMMA TickRequestsType == ASSUME NEW rs \in TickRequests PROVE rs \in Seq(AllInterrupts)
<1>1. CASE rs = <<>>
  BY <1>1
<1>2. CASE \E r \in Interrupts : rs = <<r>>
  BY <1>2, InterruptsAssumption
<1>3. CASE \E r \in Interrupts, q \in Interrupts : rs = <<r, q>>
  BY <1>3, InterruptsAssumption
<1> QED
  BY <1>1, <1>2, <1>3 DEF TickRequests

LEMMA GameTickIInv == ASSUME IInv, GameTick PROVE IInv'
<1>1. PICK rs \in TickRequests, over \in BOOLEAN, pace \in {"slow", "fast", "even"} :
        /\ game # "running" => rs = <<>> /\ ~over
        /\ requests' = requests \o Heard(rs)
        /\ ticking' = ~(Pauses(Heard(rs)) # {})
        /\ listening' = (listening /\ ~(Pauses(Heard(rs)) # {}) /\ ~over)
        /\ game' = IF over THEN "ended" ELSE game
        /\ editing' = (editing \/ over)
        /\ resizing' = (resizing \/ over)
        /\ waits' = IF over THEN waits + 1 ELSE waits
        /\ IF over THEN Show("Wait1Sec", "Play") ELSE UNCHANGED window
        /\ Overlaps(Len(Heard(rs)) + IF over THEN 1 ELSE 0)
        /\ Asserts((\A i, j \in Pauses(Heard(rs)) : i = j) /\ ~(over /\ resizing))
        /\ gt' = Paced(pace)
  BY DEF GameTick
<1>2. Heard(rs) \in Seq(AllInterrupts)
  BY TickRequestsType DEF Heard
<1>3. viewActive' = TRUE /\ viewTimers' = 1
  BY DEF GameTick, ViewTimerFires, StartViewTimer, IInv, TypeOK, ClockOK
<1>4. FlagsOK'
  <2>1. open' \in BOOLEAN /\ failed' \in BOOLEAN
    BY <1>1, DebugAssumption DEF Asserts, IInv, TypeOK, FlagsOK
  <2>2. ticking' \in BOOLEAN /\ listening' \in BOOLEAN
    BY <1>1, Zenon
  <2>3. editing' \in BOOLEAN /\ resizing' \in BOOLEAN
    BY <1>1 DEF IInv, TypeOK, FlagsOK
  <2> QED
    BY <2>1, <2>2, <2>3, <1>3 DEF IInv, TypeOK, FlagsOK, GameTick
<1>5. gt' \in GameTimings /\ ViewTicksInRange'
  <2>1. gt \in GameTimings /\ ViewTicksInRange
    BY DEF IInv, TypeOK
  <2> DEFINE g == Paced(pace)
  <2>2. /\ g \in GameTimings /\ g.cur = 0 /\ g.tot = gt.next
        /\ g.next \in 1 .. Larger(FirstViewTicks, MaxViewTicks)
        /\ g.calm \in 0 .. CalmTicks
    BY <2>1, PacedOK
  <2>3. gt' = g
    BY <1>1
  <2> HIDE DEF g
  <2> QED
    BY <2>1, <2>2, <2>3 DEF ViewTicksInRange, GameTimings
<1>6. mishap' \in Mishaps /\ (Regular' => Regular)
  BY <1>1 DEF Overlaps, Happens, Regular, Minor, Mishaps, IInv, TypeOK
<1>7. TypeOK' /\ ClockOK' /\ AnswerOK'
  <2>1. requests' \in Seq(AllInterrupts)
    BY <1>1, <1>2 DEF IInv, TypeOK
  <2>2. /\ status' \in Statuses /\ screen' \in Screens
        /\ screen' = "Answer" => screen = "Answer"
    BY <1>1 DEF Show, Statuses, Screens, IInv, TypeOK
  <2>3. game' \in {"none", "running", "ended"} /\ waits' \in Nat
    BY <1>1 DEF IInv, TypeOK
  <2> QED
    BY <1>3, <1>4, <1>5, <1>6, <2>1, <2>2, <2>3
    DEF IInv, TypeOK, ClockOK, AnswerOK, GameTick, ViewTimerFires
<1>8. ASSUME Regular' PROVE Situation' /\ ~failed'
  <2>1. Playing \/ Over
    BY <1>6, <1>8 DEF IInv, GameTick, Situation, SettingUp, InMenu, Suspended, Starting,
       Leaving, Silent
  <2>2. CASE Over
    <3>1. rs = <<>> /\ over = FALSE
      BY <1>1, <2>2 DEF Over
    <3>2. Heard(rs) = <<>> /\ Pauses(Heard(rs)) = {}
      BY <3>1 DEF Heard, Pauses
    <3>c. requests' = <<>>
      BY <1>1, <2>2, <3>2 DEF Over, Quiet
    <3>d. ticking' /\ ~listening' /\ resizing'
      BY ONLY <1>1, <2>2, <3>2, ZenonT(60) DEF Over
    <3>a. requests' = <<>> /\ ticking' /\ ~listening' /\ resizing'
      BY <3>c, <3>d
    <3>b. UNCHANGED <<status, screen, waits, game>>
      BY <1>1, <3>1
    <3>3. Over'
      BY <1>3, <2>2, <3>a, <3>b DEF Over, Quiet, GameTick
    <3>4. ~failed'
      BY <1>1, <3>1, <3>2 DEF Asserts, IInv
    <3> QED
      BY <3>3, <3>4 DEF Situation
  <2>3. CASE Playing
    <3> DEFINE h == Heard(rs)
    <3>1. h = rs
      BY <2>3 DEF Playing, Heard
    <3>2. ~Overlapping(Len(h) + IF over THEN 1 ELSE 0)
      BY <1>1, <1>8 DEF Overlaps, Happens, Regular, Minor
    <3>3. Len(h) \in Nat
      BY <1>2
    <3>4. CASE over = TRUE
      <4>1. Len(h) = 0 /\ requests = <<>>
        BY <3>2, <3>3, <3>4 DEF Overlapping
      <4>2. h = <<>> /\ Pauses(h) = {}
        BY <1>2, <4>1 DEF Pauses
      <4>c. requests' = <<>>
        BY <1>1, <4>1, <4>2
      <4>d. ticking' /\ ~listening' /\ resizing'
        BY ONLY <1>1, <3>4, <4>2, ZenonT(60)
      <4>a. requests' = <<>> /\ ticking' /\ ~listening' /\ resizing'
        BY <4>c, <4>d
      <4>b. status' = "Wait1Sec" /\ screen' = "Play" /\ waits' = 1 /\ game' = "ended"
        BY <1>1, <2>3, <3>4 DEF Playing, Show
      <4>3. Over'
        BY <1>3, <2>3, <4>a, <4>b DEF Over, Playing, Quiet, GameTick
      <4>4. ~failed'
        BY <1>1, <2>3, <4>2 DEF Asserts, IInv, Playing
      <4> QED
        BY <4>3, <4>4 DEF Situation
    <3>5. CASE over = FALSE /\ h = <<>>
      <4>1. Pauses(h) = {}
        BY <3>5 DEF Pauses
      <4>2. requests' = requests
        BY <1>1, <3>5 DEF IInv, TypeOK
      <4>3. Playing'
        BY <1>1, <1>3, <2>3, <3>5, <4>1, <4>2 DEF Playing, GameTick
      <4>4. ~failed'
        BY <1>1, <3>5, <4>1 DEF Asserts, IInv
      <4> QED
        BY <4>3, <4>4 DEF Situation
    <3>6. CASE over = FALSE /\ h # <<>>
      <4>a. Len(h) # 0
        BY <1>2, <3>6
      <4> HIDE DEF h
      <4> DEFINE n == Len(h)
      <4>b. n \in Nat /\ n # 0 /\ ~Overlapping(n)
        BY <3>2, <3>3, <3>6, <4>a
      <4> HIDE DEF n
      <4>c. n = 1 /\ requests = <<>>
        BY <4>b DEF Overlapping
      <4>1. Len(h) = 1 /\ requests = <<>>
        BY <4>c DEF n
      <4> USE DEF h
      <4>2. PICK r \in AllInterrupts : h = <<r>>
        BY <3>1, <4>1, InterruptsAssumption DEF TickRequests
      <4>3. requests' = <<r>>
        BY <1>1, <4>1, <4>2
      <4>4. Pauses(h) = IF r.how = "ask" THEN {1} ELSE {}
        BY <4>2 DEF Pauses
      <4>5. CASE r.how = "ask"
        BY <1>1, <1>3, <2>3, <3>6, <4>3, <4>4, <4>5 DEF Situation, Playing, Leaving, Silent,
           GameTick, Asserts, IInv
      <4>6. CASE r.how # "ask"
        <5>1. \E k \in Kinds : r = [kind |-> k, how |-> "act"]
          BY <4>6 DEF AllInterrupts, Pause
        <5>2. Playing'
          BY <1>1, <1>3, <2>3, <3>6, <4>3, <4>4, <4>6, <5>1 DEF Playing, GameTick
        <5>3. ~failed'
          BY <1>1, <3>6, <4>4, <4>6 DEF Asserts, IInv
        <5> QED
          BY <5>2, <5>3 DEF Situation
      <4> QED
        BY <4>5, <4>6
    <3> QED
      BY <3>4, <3>5, <3>6
  <2> QED
    BY <2>1, <2>2, <2>3
<1>9. ~failed'
  <2>1. CASE Regular'
    BY <1>8, <2>1
  <2>2. CASE ~Regular'
    BY <1>1, <2>2 DEF Asserts, IInv, Regular
  <2> QED
    BY <2>1, <2>2
<1> QED
  BY <1>5, <1>7, <1>8, <1>9 DEF IInv

-----------------------------------------------------------------------------
LEMMA StepIInv == ASSUME IInv, [Next]_vars PROVE IInv'
<1>1. CASE UNCHANGED vars
  BY <1>1 DEF IInv, TypeOK, FlagsOK, ClockOK, AnswerOK, ViewTicksInRange, Regular,
     Situation, SettingUp, InMenu, Suspended, Starting, Playing, Leaving, Over, Quiet, Silent,
     NothingRuns
<1>2. CASE SetUp
  BY <1>2, SetUpIInv
<1>3. CASE ClickNewGame
  BY <1>3, ClickNewGameIInv
<1>4. CASE NewGameOut
  BY <1>4, NewGameOutIInv
<1>5. CASE DeferredStart
  BY <1>5, DeferredStartIInv
<1>6. CASE IdleViewTick
  BY <1>6, IdleViewTickIInv
<1>7. CASE DrawingTick
  BY <1>7, DrawingTickIInv
<1>8. CASE GameTick
  BY <1>8, GameTickIInv
<1>9. CASE Deactivate
  BY <1>9, DeactivateIInv
<1>10. CASE Reshape
  BY <1>10, ReshapeIInv
<1>11. CASE PauseOut
  BY <1>11, PauseOutIInv
<1>12. CASE AskOut
  BY <1>12, AskOutIInv
<1>13. CASE AbortOut
  BY <1>13, AbortOutIInv
<1>14. CASE RestartOut
  BY <1>14, RestartOutIInv
<1>15. CASE QuitOut
  BY <1>15, QuitOutIInv
<1>16. CASE ClickYes
  BY <1>16, ClickYesIInv
<1>17. CASE Resume
  BY <1>17, ResumeIInv
<1>18. CASE ClickAbort
  BY <1>18, ClickAbortIInv
<1>19. CASE EndedOut
  BY <1>19, EndedOutIInv
<1>20. CASE PressKey
  BY <1>20, PressKeyIInv
<1>21. CASE AfterHighscores
  BY <1>21, AfterHighscoresIInv
<1>22. CASE OpenScreen
  BY <1>22, OpenScreenIInv
<1>23. CASE BackToMain
  BY <1>23, BackToMainIInv
<1>24. CASE ClickQuit
  BY <1>24, ClickQuitIInv
<1> QED
  BY <1>1, <1>2, <1>3, <1>4, <1>5, <1>6, <1>7, <1>8, <1>9, <1>10, <1>11, <1>12, <1>13, <1>14, <1>15, <1>16, <1>17, <1>18, <1>19, <1>20, <1>21, <1>22, <1>23, <1>24 DEF Next

THEOREM Invariance == Spec => []IInv
BY InitIInv, StepIInv, PTL DEF Spec

(* Every variable of the window keeps its type, in either build and        *)
(* whatever comes when: no timer, request or game state is left undefined. *)
THEOREM TypesHold == Spec => []TypeOK
<1>1. IInv => TypeOK
  BY DEF IInv
<1> QED
  BY <1>1, Invariance, PTL

(* startNextViewTickTimer and callbackNextViewTick keep exactly one view   *)
(* clock, whatever is paused, resumed or restarted within a view interval. *)
THEOREM OneViewClockHolds == Spec => []OneViewClock
<1>1. IInv => OneViewClock
  BY DEF IInv, ClockOK, OneViewClock, Regular, Situation, SettingUp, InMenu, Suspended, Starting, Playing, Leaving, Over, Quiet, Silent,
     NothingRuns
<1> QED
  BY <1>1, Invariance, PTL

(* The adjustments of callbackNextViewTick keep the view ticks in their    *)
(* ranges for any maximum the game sets, so that the test for equality of  *)
(* the current tick with the total is enough.                              *)
THEOREM ViewTicksInRangeHolds == Spec => []ViewTicksInRange
<1>1. IInv => ViewTicksInRange
  BY DEF IInv
<1> QED
  BY <1>1, Invariance, PTL

(* The assertions in pauseGame, resumeGame, startGame and those about the  *)
(* resize timer hold if requests come one at a time and layouts succeed.   *)
THEOREM AssertionsHoldAlways == Spec => []AssertionsHold
<1>1. IInv => AssertionsHold
  BY DEF IInv, AssertionsHold
<1> QED
  BY <1>1, Invariance, PTL

(* The table of gamewindow.h that says for each status what ticks, which   *)
(* screen is shown and whether the view is being resized.                  *)
THEOREM StatusTableHolds == Spec => []StatusTable
<1>1. IInv => StatusTable
  BY DEF IInv, StatusTable, Situation, SettingUp, InMenu, Suspended, Starting, Playing, Leaving, Over, Quiet, Silent,
     NothingRuns
<1> QED
  BY <1>1, Invariance, PTL

(* Behind the Paused and Answer screens there always is a game to resume,  *)
(* however the pause came about.                                           *)
THEOREM PausedGameWaitsHolds == Spec => []PausedGameWaits
<1>1. IInv => PausedGameWaits
  BY DEF IInv, PausedGameWaits, AnswerOK, Kinds, Situation, SettingUp, InMenu, Suspended, Starting, Playing, Leaving, Over, Quiet, Silent,
     NothingRuns
<1> QED
  BY <1>1, Invariance, PTL

(* The event listener of startGame, pauseGame, resumeGame and endGame is   *)
(* registered exactly while a game runs and ticks.                         *)
THEOREM InputGoesToPlayHolds == Spec => []InputGoesToPlay
<1>1. IInv => InputGoesToPlay
  BY DEF IInv, InputGoesToPlay, Situation, SettingUp, InMenu, Suspended, Starting, Playing, Leaving, Over, Quiet, Silent,
     NothingRuns
<1> QED
  BY <1>1, Invariance, PTL

(* Each of the timers of the window finds the situation that started it:   *)
(* gameEndedOut the end of the game, gameInterruptOut and gamePauseOut the *)
(* game or the question they come from, onButtonNewGameOut the empty play  *)
(* screen.  Only in those situations is such a timer under way at all.     *)
THEOREM TimersComeInTimeHolds == Spec => TimersComeInTime
<1> DEFINE InTime ==
      Regular =>
        /\ waits' < waits => status = "Wait1Sec"
        /\ Len(requests') < Len(requests) =>
             \/ status = "Play" /\ game = "running"
             \/ status = "Menu" /\ screen = "Answer" /\ Head(requests).kind = answering
        /\ newGames' < newGames => status = "Play" /\ ~ticking
<1>1. ASSUME IInv, IInv' PROVE InTime
  <2> SUFFICES ASSUME Regular PROVE InTime
    OBVIOUS
  <2>1. Situation
    BY <1>1 DEF IInv
  <2>2. /\ waits \in Nat /\ waits' \in Nat /\ newGames \in Nat /\ newGames' \in Nat
        /\ requests \in Seq(AllInterrupts) /\ requests' \in Seq(AllInterrupts)
    BY <1>1 DEF IInv, TypeOK
  <2>3. waits' < waits => status = "Wait1Sec"
    BY <2>1, <2>2 DEF Situation, SettingUp, InMenu, Suspended, Starting, Playing, Leaving, Over, Quiet,
       Silent
  <2>4. newGames' < newGames => status = "Play" /\ ~ticking
    BY <2>1, <2>2 DEF Situation, SettingUp, InMenu, Suspended, Starting, Playing, Leaving, Over, Quiet,
       Silent
  <2>5. ASSUME Len(requests') < Len(requests)
        PROVE  \/ status = "Play" /\ game = "running"
               \/ status = "Menu" /\ screen = "Answer" /\ Head(requests).kind = answering
    <3>1. requests # <<>>
      BY <2>2, <2>5
    <3>2. Suspended \/ Playing \/ Leaving
      BY <2>1, <3>1 DEF Situation, SettingUp, InMenu, Suspended, Starting, Playing, Leaving, Over, Quiet,
       Silent
    <3> QED
      BY <3>1, <3>2, OneRequest DEF Suspended, Playing, Leaving
  <2> QED
    BY <2>3, <2>4, <2>5
<1> QED
  BY <1>1, Invariance, PTL DEF TimersComeInTime
-----------------------------------------------------------------------------
(* The play screen does not stay up with a game that does not tick: what   *)
(* has to happen then, and the timer that makes it happen, follow from the *)
(* situation.                                                              *)

Frozen == screen = "Play" /\ ~ticking /\ open /\ Regular

\* The fairness of FairSpec, with the conditions under which the callbacks can
\* run written out.  Of ViewTick only the turn that starts a game is needed; no
\* other turn is possible while startAtNext is set.
SetUpRuns == []<>~(open /\ status = "None") \/ []<><<SetUp>>_vars
NewGameRuns == []<>~(open /\ newGames > 0) \/ []<><<NewGameOut>>_vars
DeferredRuns == []<>~(open /\ viewTimers > 0 /\ startAtNext) \/ []<><<DeferredStart>>_vars
RequestsRun == []<>~(open /\ requests # <<>>) \/ []<><<RequestOut>>_vars
TimersRun == SetUpRuns /\ NewGameRuns /\ DeferredRuns /\ RequestsRun

\* What a frozen window waits for.
ForSetUp == Frozen /\ SettingUp
ForNewGame == Frozen /\ Starting /\ newGames = 1
ForViewTick == Frozen /\ Starting /\ startAtNext
ForRequest == Frozen /\ Leaving

LEMMA FrozenWaits == IInv /\ Frozen => ForSetUp \/ ForNewGame \/ ForViewTick \/ ForRequest
BY DEF IInv, Frozen, Situation, SettingUp, InMenu, Suspended, Starting, Playing, Leaving, Over,
     ForSetUp, ForNewGame, ForViewTick, ForRequest

(* None of the callbacks a user or the desktop can cause is possible in a  *)
(* frozen window, and the turns of the view clock are idle.                *)
LEMMA FrozenSteps ==
  ASSUME IInv, Frozen, [Next]_vars
  PROVE  \/ SetUp \/ NewGameOut \/ DeferredStart \/ IdleViewTick \/ PauseOut \/ AskOut
         \/ UNCHANGED vars
<1>1. Situation /\ ~ticking /\ screen = "Play"
  BY DEF IInv, Frozen
<1>2. SettingUp \/ Starting \/ Leaving
  BY <1>1 DEF Situation, InMenu, Suspended, Playing, Over
<1>3. waits = 0 /\ status \in {"None", "Play"}
  BY <1>2 DEF SettingUp, Starting, Leaving
<1>4. \A k \in Kinds : ~Acts(k)
  <2>1. requests # <<>> => Head(requests).how = "ask"
    BY <1>2, OneRequest DEF SettingUp, Starting, Leaving, Quiet
  <2> QED
    BY <2>1 DEF Acts
<1>5. ~AbortOut /\ ~RestartOut /\ ~QuitOut
  BY <1>4 DEF Kinds, AbortOut, RestartOut, QuitOut
<1>6. ~DrawingTick /\ ~GameTick /\ ~Deactivate /\ ~Reshape
  BY <1>1 DEF DrawingTick, GameTick, Deactivate, Reshape
<1>7. ~EndedOut /\ ~PressKey
  BY <1>3 DEF EndedOut, PressKey
<1>8. /\ ~ClickNewGame /\ ~ClickYes /\ ~Resume /\ ~ClickAbort /\ ~AfterHighscores
      /\ ~OpenScreen /\ ~BackToMain /\ ~ClickQuit
  BY <1>1 DEF ClickNewGame, ClickYes, Resume, ClickAbort, AfterHighscores, OpenScreen,
     BackToMain, ClickQuit, Choosers
<1> QED
  BY <1>5, <1>6, <1>7, <1>8 DEF Next

(* A window that waits goes on waiting for the same until the timer runs,  *)
(* or for the view tick after it has run.                                  *)
LEMMA SetUpComes ==
  /\ IInv /\ ForSetUp /\ [Next]_vars => ForSetUp' \/ ~Frozen'
  /\ IInv /\ ForSetUp /\ <<SetUp>>_vars => ~Frozen'
<1>1. ASSUME SetUp PROVE ~Frozen'
  BY <1>1 DEF SetUp, Show, Frozen
<1>2. ASSUME IInv, ForSetUp, [Next]_vars PROVE ForSetUp' \/ ~Frozen'
  <2>1. CASE NewGameOut \/ DeferredStart \/ PauseOut \/ AskOut
    BY <1>2, <2>1 DEF ForSetUp, SettingUp, Quiet, NewGameOut, DeferredStart, PauseOut, AskOut
  <2>2. CASE IdleViewTick \/ UNCHANGED vars
    BY <1>2, <2>2 DEF ForSetUp, Frozen, SettingUp, Quiet, Silent, NothingRuns, Regular, IdleViewTick
  <2> QED
    BY <1>1, <1>2, <2>1, <2>2, FrozenSteps DEF ForSetUp
<1> QED
  BY <1>1, <1>2

LEMMA RequestComes ==
  /\ IInv /\ ForRequest /\ [Next]_vars => ForRequest' \/ ~Frozen'
  /\ IInv /\ ForRequest /\ <<RequestOut>>_vars => ~Frozen'
<1>1. ASSUME PauseOut \/ AskOut PROVE ~Frozen'
  BY <1>1 DEF PauseOut, AskOut, Show, Frozen
<1>2. ASSUME IInv, ForRequest, [Next]_vars PROVE ForRequest' \/ ~Frozen'
  <2>1. CASE SetUp \/ NewGameOut \/ DeferredStart
    BY <1>2, <2>1 DEF ForRequest, Leaving, SetUp, NewGameOut, DeferredStart
  <2>2. CASE IdleViewTick \/ UNCHANGED vars
    BY <1>2, <2>2 DEF ForRequest, Frozen, Leaving, Silent, Regular, IdleViewTick
  <2> QED
    BY <1>1, <1>2, <2>1, <2>2, FrozenSteps DEF ForRequest
<1>3. ASSUME IInv, ForRequest, RequestOut PROVE ~Frozen'
  <2>1. PICK r \in AllInterrupts : r.how = "ask" /\ requests = <<r>>
    BY <1>3 DEF ForRequest, Leaving
  <2>2. ~AbortOut /\ ~RestartOut /\ ~QuitOut
    <3>1. Head(requests).how = "ask"
      BY <2>1, OneRequest
    <3>2. \A k \in Kinds : ~Acts(k)
      BY <3>1 DEF Acts
    <3> QED
      BY <3>2 DEF AbortOut, RestartOut, QuitOut, Kinds
  <2> QED
    BY <1>1, <1>3, <2>2 DEF RequestOut
<1> QED
  BY <1>2, <1>3

\* A game that is started, and not later, ticks or shows why it does not.
LEMMA StartEnds ==
  ASSUME NEW p, NEW n, NEW st, NEW sc, StartGame(p, FALSE, n, st, sc)
  PROVE  ~Frozen'
<1>1. CASE CannotCreate(p, n) \/ CannotLayout(p, n)
  BY <1>1 DEF CannotCreate, CannotLayout, Show, Frozen
<1>2. CASE StartNow(n, st, sc)
  BY <1>2 DEF StartNow, Become, Frozen
<1> QED
  BY <1>1, <1>2 DEF StartGame

LEMMA NewGameComes ==
  /\ IInv /\ ForNewGame /\ [Next]_vars => ForNewGame' \/ ForViewTick' \/ ~Frozen'
  /\ IInv /\ ForNewGame /\ <<NewGameOut>>_vars => ForViewTick' \/ ~Frozen'
<1>1. ASSUME IInv, ForNewGame, NewGameOut PROVE ForViewTick' \/ ~Frozen'
  <2>1. CASE viewActive /\ StartLater(AsItIs, viewTimers, status, screen)
    <3>1. IInv'
      BY <1>1, NewGameOutIInv
    <3>2. startAtNext'
      BY <2>1 DEF StartLater
    <3> QED
      BY <3>1, <3>2 DEF IInv, Frozen, ForViewTick, Situation, SettingUp, InMenu, Suspended,
           Starting, Playing, Leaving, Over, Quiet
  <2>2. CASE StartGame(AsItIs, FALSE, viewTimers, status, screen)
    BY <2>2, StartEnds
  <2> QED
    BY <1>1, <2>1, <2>2 DEF NewGameOut, StartGame
<1>2. ASSUME IInv, ForNewGame, [Next]_vars PROVE ForNewGame' \/ ForViewTick' \/ ~Frozen'
  <2>1. CASE SetUp \/ DeferredStart \/ PauseOut \/ AskOut
    BY <1>2, <2>1 DEF ForNewGame, Starting, SetUp, DeferredStart, PauseOut, AskOut
  <2>2. CASE IdleViewTick \/ UNCHANGED vars
    BY <1>2, <2>2 DEF ForNewGame, Frozen, Starting, Silent, NothingRuns, Regular, IdleViewTick
  <2> QED
    BY <1>1, <1>2, <2>1, <2>2, FrozenSteps DEF ForNewGame
<1> QED
  BY <1>1, <1>2

LEMMA ViewTickComes ==
  /\ IInv /\ ForViewTick /\ [Next]_vars => ForViewTick' \/ ~Frozen'
  /\ IInv /\ ForViewTick /\ <<DeferredStart>>_vars => ~Frozen'
<1>1. ASSUME DeferredStart PROVE ~Frozen'
  BY <1>1, StartEnds DEF DeferredStart
<1>2. ASSUME IInv, ForViewTick, [Next]_vars PROVE ForViewTick' \/ ~Frozen'
  <2>1. CASE SetUp \/ NewGameOut \/ PauseOut \/ AskOut \/ IdleViewTick
    BY <1>2, <2>1 DEF ForViewTick, Starting, SetUp, NewGameOut, PauseOut, AskOut, IdleViewTick
  <2>2. CASE UNCHANGED vars
    BY <1>2, <2>2 DEF ForViewTick, Frozen, Starting, Silent, NothingRuns, Regular
  <2> QED
    BY <1>1, <1>2, <2>1, <2>2, FrozenSteps DEF ForViewTick
<1> QED
  BY <1>1, <1>2

(* The play screen never stays up with a game that does not tick: the      *)
(* request that stopped it shows its screen, the new game starts or the    *)
(* reason why it cannot is shown.                                          *)
THEOREM NeverFrozenHolds == Spec /\ TimersRun => NeverFrozen
<1>1. IInv /\ ForSetUp => open /\ status = "None"
  BY DEF ForSetUp, Frozen, SettingUp
<1>2. IInv /\ ForRequest => open /\ requests # <<>>
  BY DEF ForRequest, Frozen, Leaving
<1>3. IInv /\ ForNewGame => open /\ newGames > 0
  BY DEF ForNewGame, Frozen
<1>4. IInv /\ ForViewTick => open /\ viewTimers > 0 /\ startAtNext
  BY DEF ForViewTick, Frozen, IInv, ClockOK
<1>5. ~Frozen => screen # "Play" \/ ticking \/ ~open \/ ~Regular
  BY DEF Frozen
<1>6. screen = "Play" /\ ~ticking /\ open /\ Regular => Frozen
  BY DEF Frozen
<1> HIDE DEF vars
<1>7. Spec /\ SetUpRuns => (ForSetUp ~> ~Frozen)
  BY <1>1, SetUpComes, Invariance, PTL DEF Spec, SetUpRuns
<1>8. Spec /\ RequestsRun => (ForRequest ~> ~Frozen)
  BY <1>2, RequestComes, Invariance, PTL DEF Spec, RequestsRun
<1>9. Spec /\ DeferredRuns => (ForViewTick ~> ~Frozen)
  BY <1>4, ViewTickComes, Invariance, PTL DEF Spec, DeferredRuns
<1>10. Spec /\ NewGameRuns => (ForNewGame ~> (ForViewTick \/ ~Frozen))
  BY <1>3, NewGameComes, Invariance, PTL DEF Spec, NewGameRuns
<1>11. Spec => [](IInv /\ Frozen => ForSetUp \/ ForNewGame \/ ForViewTick \/ ForRequest)
  BY FrozenWaits, PTL
<1> QED
  BY <1>5, <1>6, <1>7, <1>8, <1>9, <1>10, <1>11, Invariance, PTL
  DEF NeverFrozen, TimersRun

-----------------------------------------------------------------------------
(* A game that goes on ticking: the view ticks left to the next game tick. *)

Live == ticking /\ open /\ Regular
ViewTicksLeft == gt.tot - gt.cur

\* The fairness of the view tick, with what enables it written out.
ViewTicksRun == []<>~(open /\ viewTimers > 0) \/ []<><<ViewTick>>_vars

(* While a game goes on, only view ticks count: each is one less to the    *)
(* next game tick, or is it.                                               *)
LEMMA ViewTickCounts ==
  ASSUME IInv, Live, Live', [Next]_vars
  PROVE  \/ GameTick
         \/ UNCHANGED ViewTicksLeft /\ ~ViewTick
         \/ UNCHANGED vars
         \/ ViewTicksLeft' = ViewTicksLeft - 1
<1>1. viewActive /\ ~startAtNext
  BY DEF IInv, Live, Situation, SettingUp, InMenu, Suspended, Starting, Playing, Leaving,
       Over, Silent, Quiet
<1>2. ~DeferredStart /\ ~IdleViewTick
  BY <1>1 DEF Live, DeferredStart, IdleViewTick
<1>3. CASE DrawingTick
  <2>1. gt \in GameTimings
    BY DEF IInv, TypeOK
  <2>2. gt'.cur = gt.cur + 1 /\ gt'.tot = gt.tot
    BY <1>3, <2>1 DEF DrawingTick, GameTimings
  <2> QED
    BY <2>1, <2>2 DEF ViewTicksLeft, GameTimings
<1>4. ~NewGameOut /\ ~RestartOut
  <2>1. ASSUME NEW p, NEW act, NEW n, NEW st, NEW sc, act, StartGame(p, act, n, st, sc)
        PROVE  ticking' = p.ticking
    BY <2>1 DEF StartGame, StartLater, Become
  <2>2. ~RestartOut
    <3>1. ASSUME RestartOut PROVE ticking' = Finished(FALSE).ticking
      BY <1>1, <2>1, <3>1 DEF RestartOut
    <3> QED
      BY <3>1 DEF Finished, Live
  <2>3. newGames = 0
    BY DEF IInv, Live, TypeOK, Situation, SettingUp, InMenu, Suspended, Starting, Playing,
         Leaving, Over, Silent, Quiet
  <2> QED
    BY <2>2, <2>3 DEF NewGameOut
<1>5. CASE Next /\ ~ViewTick
  <2>1. UNCHANGED gt
    BY <1>4, <1>5 DEF Next, ViewTick, SetUp, ClickNewGame, Deactivate, Reshape, PauseOut,
         AskOut, AbortOut, QuitOut, ClickYes, Resume, ClickAbort, EndedOut, PressKey,
         AfterHighscores, OpenScreen, BackToMain, ClickQuit
  <2> QED
    BY <1>5, <2>1 DEF ViewTicksLeft
<1> QED
  BY <1>2, <1>3, <1>5 DEF ViewTick

(* The view ticks left in a game that goes on ticking do not stay at any   *)
(* number n for ever, unless game ticks keep coming: as far as they are at *)
(* most n from some time on, they are less from some time on.  This is the *)
(* step of the induction on n that GameKeepsTicking rests on; at n = 0     *)
(* there is nothing left, as ViewTicksLeft is at least 1.                  *)
THEOREM ViewTicksCountDown ==
  ASSUME NEW n \in Nat
  PROVE  Spec /\ ViewTicksRun =>
           (<>[]Live /\ <>[](ViewTicksLeft <= n)
              => []<><<GameTick>>_vars \/ <>[](ViewTicksLeft < n))
<1> DEFINE Most == ViewTicksLeft <= n
           Fewer == ViewTicksLeft < n
<1>1. IInv /\ Live => open /\ viewTimers > 0
  BY DEF IInv, ClockOK, Live, Situation, SettingUp, InMenu, Suspended, Starting, Playing,
       Leaving, Over, Silent
<1>2. IInv => ViewTicksLeft \in Nat \ {0}
  <2>1. ASSUME IInv PROVE ViewTicksLeft \in Nat \ {0}
    <3>1. gt.cur \in Nat /\ gt.tot \in Nat /\ gt.cur \in 0 .. gt.tot - 1
      BY <2>1 DEF IInv, TypeOK, GameTimings, ViewTicksInRange
    <3> QED
      BY <3>1 DEF ViewTicksLeft
  <2> QED
    BY <2>1
<1>3. /\ IInv /\ Live /\ Live' /\ Most /\ Fewer /\ [Next]_vars
           => Fewer' \/ <<GameTick>>_vars
      /\ IInv /\ Live /\ Live' /\ Most /\ [Next]_vars /\ <<ViewTick>>_vars
           => Fewer' \/ <<GameTick>>_vars
  <2> SUFFICES ASSUME IInv, Live, Live', Most, [Next]_vars, ~<<GameTick>>_vars
               PROVE  (Fewer => Fewer') /\ (<<ViewTick>>_vars => Fewer')
    OBVIOUS
  <2>1. ViewTicksLeft \in Nat
    BY <1>2
  <2>2. CASE UNCHANGED vars
    BY <2>2 DEF ViewTicksLeft
  <2>3. CASE UNCHANGED ViewTicksLeft /\ ~ViewTick
    BY <2>3
  <2>4. CASE ViewTicksLeft' = ViewTicksLeft - 1
    BY <2>1, <2>4
  <2> QED
    BY <2>2, <2>3, <2>4, ViewTickCounts
<1> HIDE DEF vars, Most, Fewer
<1>4. Spec /\ ViewTicksRun =>
        (<>[]Live /\ <>[]Most => []<><<GameTick>>_vars \/ <>[]Fewer)
  BY <1>1, <1>3, Invariance, PTL DEF Spec, ViewTicksRun
<1> QED
  BY <1>4 DEF Most, Fewer
=============================================================================
