\* Fair goroutines: a message, one connection, the sweeper, and a reconciler that may
\* take the send lock again and again or never tick.
CONSTANTS
  k1 = k1  k2 = k2  p1 = p1  c1 = c1  c2 = c2  m1 = m1  m2 = m2
  i1 = i1  s1 = s1  s2 = s2
  Null = Null  Reconciler = Reconciler
  Keys = {k1}  Patterns = {p1}  Match <- PatternMatchesAll
  Clients = {c1}  TopicSets = {{k1}, {p1}}
  Msgs = {m1}  TargetSets = {{k1}}  Mortal = {m1}
  Ids = {i1}  CallerIds = {}
  Shards = {s1}  Shard <- OneKeyShard
  Reconcile = TRUE  Sweep = TRUE  ApiDeletes = FALSE
SPECIFICATION FairSpec
CHECK_DEADLOCK FALSE
PROPERTIES
  EventuallyWritten
  ExpiredIsSwept
  ClosedIsUnregistered
  FlushesEnd
