SPECIFICATION FairSpec
CONSTANTS
    Groups = {g1, g2}
    MaxOpen = 1
    MaxLosses = 1
    LossLimit = 2
    Clips = 2
    MaxEvents = 2
    MaxBacklog = 2
    MaxFaults = 1
INVARIANTS JournalTellsTruth LedgerAddsUp
PROPERTIES CapacityReturns
