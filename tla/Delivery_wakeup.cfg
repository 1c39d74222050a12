\* Two connections, exact or wildcard, race a publish, its expiry and the sweeper.
CONSTANTS
  k1 = k1  k2 = k2  p1 = p1  c1 = c1  c2 = c2  m1 = m1  m2 = m2
  i1 = i1  s1 = s1  s2 = s2
  Null = Null  Reconciler = Reconciler
  Keys = {k1, k2}  Patterns = {p1}  Match <- PatternMatchesK1
  Clients = {c1, c2}  TopicSets = {{k1}, {p1}}
  Msgs = {m1}  TargetSets = {{k1}, {k2}}  Mortal = {m1}
  Ids = {i1}  CallerIds = {}
  Shards = {s1}  Shard <- OneKeyShard
  Reconcile = FALSE  Sweep = TRUE  ApiDeletes = FALSE
SPECIFICATION Spec
CHECK_DEADLOCK FALSE
SYMMETRY ClientsMessagesAndIds
INVARIANTS
  OnlySubscribersGet
  NoLostWakeup
  RegistryConsistent
PROPERTIES
  RemovedOnlyDeliveredOrExpired
