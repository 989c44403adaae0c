SPECIFICATION FairSpec
CONSTANTS
  Buffers = 2
  Rooms = {1, 3}
  Units = 1
  MaxUnits = 3
CHECK_DEADLOCK FALSE
INVARIANT
  TypeOK
  BufferIsFree
  EndAfterLast
PROPERTY
  HeardInOrder
  AppendedIsHeard
