SPECIFICATION Spec
CONSTANTS
  z1 = z1
  m1 = m1
  None = None
  Zones <- MCZones
  Matches <- MCMatches
  MaxTouches = 2
INVARIANT MarkedIndexIsComplete
PROPERTIES
  WatchedStaysListed
  EndedZoneStays
  RetestMemoryKept
