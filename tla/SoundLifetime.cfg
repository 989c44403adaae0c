SPECIFICATION FairSpec
CONSTANTS
  Sounds = {s1, s2}
  MaxThreads = 2
  QueueLimit = 4
INVARIANTS
  FillUsesLiveSound
PROPERTIES
  MainReturns
\* The process may have died on an event whose queue was deleted.
CHECK_DEADLOCK FALSE
