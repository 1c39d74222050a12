CONSTANTS
  IPs = {a1, a2}
  Requests = {r1, r2, r3, r4}
  Burst = 2
  Cost = 1
  purgeEvr = 2
  MaxTime = 3
  Since = 2
  Keys = {k1}
  Msgs = {m1, m2, m3}
  Readers = {reader}
  Purger = sweeper
  size = 2
  ttl = 1
  Subjects = {u1, u2}
  Bare = {u2}
  Handshakes = {h1, h2}
  Topics = {t1}
  cacheTTL = 1
  AuthTimeout = 1
  evictEvr = 2
  Scrapes = {s1, s2}
  GaugeKeys = {g1, g2}
  Repeats = 2
  CacheTTL = 2
  ScanTime = 1
  GaugeTime = 4
  Null = null
SPECIFICATION TimedSpec
CHECK_DEADLOCK FALSE
INVARIANTS
  SpendBound
  BucketAccount
  KeepsNewest
  NothingOldReturned
PROPERTIES
  GrantIsRecent
  ScansSpaced
  KeysGaugeRecent
