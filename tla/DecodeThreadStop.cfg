SPECIFICATION DecodeSpec
CONSTANT Units = 3
INVARIANTS
  InterruptStopsDecoding
\* The sound buffer object is deleted in the end: the system stops.
CHECK_DEADLOCK FALSE
