SPECIFICATION FairSpec
CONSTANTS
  Units = 2
  DeviceUnits = 2
  Labelled = {1}
  PauseValues = {}
  MaxStream = 2
PROPERTIES
  RescheduleReturns
\* The run shows a deadlock, as a call that does not return.
CHECK_DEADLOCK FALSE
