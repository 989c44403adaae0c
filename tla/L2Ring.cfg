SPECIFICATION FairSpec
CONSTANTS
  Units = 3
  MaxStream = 4
  MaxLag = 1
INVARIANTS
  NoSlotRace
  UnlockedReadIsSafe
  NoUnitLost
PROPERTIES
  ImplementsFifo
  MainReturns
  UnitIsHeard
