SPECIFICATION FairSpec
CONSTANTS
  e1 = e1
  w1 = w1
  w2 = w2
  o1 = o1
  o2 = o2
  Events <- MCEvents
  Event = e1
  Tokens <- MCWorkers
  Orders <- MCOrders
  NoEvent = NoEvent
  NoToken = NoToken
  NoOrder = NoOrder
  LeaseSeconds = 2
  RetentionSeconds = 3
  PublishSeconds = 3
  CheckSeconds = 2
  Quorum = 2
  SettleSeconds = 1
  RecoverySeconds = 3
  MaxFaults = 3
  PromptSteps <- MCRecovery
INVARIANT AtMostOneOrder
PROPERTIES
  ReleaseOnlyWhenAbsent
  ImplementsOutcome
  EventuallyPast
