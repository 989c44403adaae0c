SPECIFICATION FairSpec
CONSTANTS
  Units = 2
  DeviceUnits = 2
  Labelled = {1, 2, 4}
  PauseValues = {TRUE, FALSE}
  MaxStream = 4
INVARIANTS
  LabelsKept
  OneEventPosted
PROPERTIES
  EndIsReported
\* A label on the first unit can block StartPlay: see WavePlaybackReschedule.
CHECK_DEADLOCK FALSE
