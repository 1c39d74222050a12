CONSTANTS
  i1 = i1
  i2 = i2
  i3 = i3
  m1 = m1
  m2 = m2
  Null = Null
  Poison = Poison
  Keys = {k1, k2}
  Ids = {i1}
  Msgs = {m1, m2}
  Readers = {r1}
  Id <- OneId
  Life <- LifeOfMessage
  KeyTTL = 2
  MaxTime = 2
  MemKeys = {k1}
  MemIds = {i1, i2, i3}
  MemMsgs = {m1, m2, m3, m4}
  MemId <- ThreeIds
  Arrays = {a1, a2, a3}
  MaxCap = 3
SPECIFICATION BackendsSpec
INVARIANTS
  ScanComplete
PROPERTIES
  DropsOnlyDue
  ImplementsAtomicStorage
  MemoryImplementsAtomicStorage
  OrderKept
