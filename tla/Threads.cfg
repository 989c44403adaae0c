SPECIFICATION Spec
CONSTANTS
  Units = 3
  Frac = 2
  Intervals = {3, 4}
  QueueLimit = 6
  MaxTime = 4
  MaxBegins = 2
  Files = {f1, f2}
  MaxChanges = 4
  MaxNesting = 2
INVARIANTS
  SleepsUntilNext
  LoopTypeOK
  NothingForgotten
PROPERTIES
  InterruptReturns
  Fills
  LimitKept
  MainReturns
  Stored
\* Each part may stop: the sound buffer object is deleted, the clock stops at
\* MaxTime, the application is over.
CHECK_DEADLOCK FALSE
