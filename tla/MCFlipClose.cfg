SPECIFICATION Spec
CONSTANTS
  e1 = e1
  t1 = t1
  Events <- MCEvents
  Tokens <- MCTokens
  Token = t1
  NoEvent = NoEvent
  NoToken = NoToken
  LeaseSeconds = 2
  RetentionSeconds = 4
  PublishSeconds = 3
  CheckSeconds = 1
  Quorum = 2
  ConfirmSeconds = 1
PROPERTY ClosedAtTarget
