CONSTANTS
  m1 = m1  m2 = m2
  Langs = {"go"}
  Msgs = {m1}
  MaxBackoff = 2
  RetryLimits = {2}
  DedupeLimit = 2
  MaxFaults = 3
SPECIFICATION Spec
CHECK_DEADLOCK FALSE
INVARIANTS
  GoGivesUpAfterFailures
