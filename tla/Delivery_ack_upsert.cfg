\* A message id is reused while its first message is in flight.
CONSTANTS
  k1 = k1  k2 = k2  p1 = p1  c1 = c1  c2 = c2  m1 = m1  m2 = m2
  i1 = i1  s1 = s1  s2 = s2
  Null = Null  Reconciler = Reconciler
  Keys = {k1}  Patterns = {p1}  Match <- PatternMatchesAll
  Clients = {c1}  TopicSets = {{k1}, {p1}}
  Msgs = {m1, m2}  TargetSets = {{k1}}  Mortal = {}
  Ids = {i1}  CallerIds = {i1}
  Shards = {s1}  Shard <- OneKeyShard
  Reconcile = FALSE  Sweep = FALSE  ApiDeletes = FALSE
SPECIFICATION Spec
CHECK_DEADLOCK FALSE
PROPERTIES
  RemovedOnlyDeliveredOrExpired
