CONSTANTS
  m1 = m1  m2 = m2
  Langs = {"go", "js", "py"}
  Msgs = {m1, m2}
  MaxBackoff = 3
  RetryLimits <- Limits
  DedupeLimit = 1
  MaxFaults = 4
SPECIFICATION FairSpec
CHECK_DEADLOCK FALSE
INVARIANTS
  DuplicatesOutsideWindow
  BackoffFollowsFailures
  GivesUpAfterFailures
  StopsReconnecting
PROPERTIES
  EventuallyHandled
