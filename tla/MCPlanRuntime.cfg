SPECIFICATION FairSpec
CONSTANTS
  PlanCount = 2
  OrderTypes <- MCOrderTypes
  Watched <- MCWatched
  MaxFaults = 1
INVARIANTS
  RecordedNotResent
  OneLivePlan
  RecordsMatchBroker
  SavedIsRestorable
PROPERTIES
  LifecycleForward
  PositionsAdopted
  CancelledIsReleased
