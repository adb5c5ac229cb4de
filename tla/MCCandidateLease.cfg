SPECIFICATION LeaseSpec
CONSTANTS
  e1 = e1
  e2 = e2
  t1 = t1
  t2 = t2
  t3 = t3
  Events <- MCEvents
  Tokens <- MCTokens
  NoEvent = NoEvent
  NoToken = NoToken
  LeaseSeconds = 2
  RetentionSeconds = 3
  PublishSeconds = 3
  CheckSeconds = 2
  Quorum = 3
INVARIANTS
  LeaseTypeOK
  ExclusiveLease
  LeaseCovered
  AbsenceIsSpaced
PROPERTIES
  TerminalIsFinal
  UncertaintyIsKept
