\* Crashes, lost notifications and failed calls, and the reconciler.
CONSTANTS
  n1 = n1  n2 = n2  c1 = c1  m1 = m1  k1 = k1
  Null = Null
  Keys = {k1}
  Msgs = {m1}
  Ids = {m1}
  Nodes = {n1, n2}
  Clients = {c1}
  KeyOf <- OneKey
  Reconcile = TRUE
  Faults = {"crash", "note", "storage"}
  MaxFaults = 2
SPECIFICATION FairSpec
CHECK_DEADLOCK FALSE
INVARIANTS
  NoLostNotification
PROPERTIES
  EventuallyWritten
