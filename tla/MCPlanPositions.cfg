SPECIFICATION FairSpec
CONSTANTS
  Volumes <- MCVolumes
  Ratios <- MCRatios
  Fills <- MCChased
  BeAfter = 1
  TrailAfter = 2
  TrailTo = 1
  MaxFaults = 2
INVARIANTS CompletedIsFlat TargetNotRebooked StopIsReal
PROPERTIES EndIsSettled
CHECK_DEADLOCK FALSE
