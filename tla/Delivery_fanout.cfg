\* A message fanned out to two keys whose flushes hold different locks, the
\* reconciler, the sweeper and DELETE requests.
CONSTANTS
  k1 = k1  k2 = k2  p1 = p1  c1 = c1  c2 = c2  m1 = m1  m2 = m2
  i1 = i1  s1 = s1  s2 = s2
  Null = Null  Reconciler = Reconciler
  Keys = {k1, k2}  Patterns = {}  Match <- PatternMatchesAll
  Clients = {c1}  TopicSets = {{k1, k2}}
  Msgs = {m1}  TargetSets = {{k1, k2}}  Mortal = {}
  Ids = {i1}  CallerIds = {}
  Shards = {s1, s2}  Shard <- TwoShards
  Reconcile = TRUE  Sweep = FALSE  ApiDeletes = TRUE
SPECIFICATION Spec
CHECK_DEADLOCK FALSE
INVARIANTS
  LocksMatchTasks
  AtMostOneUnacked
  InflightOwned
