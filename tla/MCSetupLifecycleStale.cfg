SPECIFICATION Spec
CONSTANTS
  Setups = {s1}
  Workers = {w1}
  Sweeper = sweeper
  Scanner = scanner
  Nobody = nobody
  MaxFaults = 0
INVARIANT TerminalHasNoLivePlan
