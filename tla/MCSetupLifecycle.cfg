SPECIFICATION FairSpec
CONSTANTS
  Setups = {s1}
  Workers = {w1}
  Sweeper = sweeper
  Scanner = scanner
  Nobody = nobody
  MaxFaults = 2
INVARIANTS
  InvalidatedHasNoPlan
  ExpirableIsIndexed
PROPERTIES
  OnlyCreateReopens
  
