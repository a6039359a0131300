SPECIFICATION FairSpec
CONSTANTS
  Interrupts <- SomeInterrupts
  Debug = TRUE
  MaxViewTicks = 2
  FirstViewTicks = 2
  CalmTicks = 0
  MaxRequests = 2
  MaxWaits = 1
INVARIANTS
  TypeOK
  OneViewClock
  ViewTicksInRange
  AssertionsHold
  StatusTable
  PausedGameWaits
  InputGoesToPlay
PROPERTIES
  TimersComeInTime
  GameKeepsTicking
  NeverFrozen
CHECK_DEADLOCK FALSE
