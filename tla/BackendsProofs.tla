--------------------------- MODULE BackendsProofs ---------------------------
(***************************************************************************)
(* Both backends implement the atomic storage: Redis whatever other        *)
(* instances do between its commands, memory whatever is written in place  *)
(* while readers hold their slices.  The key TTL of Redis drops no message *)
(* before its time if no message asks for more than the TTL, and its scan  *)
(* of the keys misses none that stays; a queue in memory keeps its order.  *)
(***************************************************************************)
EXTENDS Backends, Sequences, TLAPS

(* Messages are dated when they are posted, so not in the future.          *)
DatesPast == \A m \in Msgs : date[m] <= now

(* No key expires when no TTL is configured. *)
NoTTL == KeyTTL = 0 => \A k \in Keys : deadline[k] = Never

LivesWithinTTL == \A m \in Msgs : Life[m] <= KeyTTL

(* What is stored, or about to be, was posted. *)
StoredIsDated ==
  /\ \A k \in Keys, i \in Ids : hash[k][i] \in Msgs => date[hash[k][i]] # Never
  /\ \A k \in Keys, m \in Msgs : <<k, m>> \in unstored => date[m] # Never

(* The TTL of a key covers every message queued under it. *)
TTLCoversQueue ==
  \A k \in Keys, i \in Ids :
    hash[k][i] \in Msgs /\ deadline[k] # Never => deadline[k] >= Due(hash[k][i])

TTLInv == RedisTypeOK /\ DatesPast /\ StoredIsDated /\ NoTTL /\ TTLCoversQueue

(* The steps that leave the clock, the dates and the open POSTs alone. *)
KeepsTime == UNCHANGED messageVars

-----------------------------------------------------------------------------
(* Types. *)
LEMMA InitType == Init => RedisTypeOK
BY RedisStorageAssumption DEF Init, RedisTypeOK, Empty, Never

(* SetHash keeps the types if it is given a hash and deadlines. *)
LEMMA SetHashType ==
  ASSUME NEW h \in [Keys -> [Ids -> Msgs \cup {Null, Poison}]], NEW d \in [Keys -> Int],
         SetHash(h, d)
  PROVE  /\ hash' \in [Keys -> [Ids -> Msgs \cup {Null, Poison}]]
         /\ deadline' \in [Keys -> Int]
BY DEF SetHash, Never

(* Every step of the backend and of Redis keeps the types. *)
LEMMA StepType == RedisTypeOK /\ [Next]_vars => RedisTypeOK'
<1> SUFFICES ASSUME RedisTypeOK, [Next]_vars PROVE RedisTypeOK'
  OBVIOUS
<1> USE RedisStorageAssumption DEF RedisTypeOK, messageVars, dbVars, readVars, scanVars
<1>e. [i \in Ids |-> Null] \in [Ids -> Msgs \cup {Null, Poison}]
  OBVIOUS
<1>1. CASE Tick
  BY <1>1 DEF Tick
<1>2. ASSUME NEW k \in Keys, NEW i \in Ids, Corrupt(k, i) PROVE RedisTypeOK'
  <2>1. [hash EXCEPT ![k][i] = Poison] \in [Keys -> [Ids -> Msgs \cup {Null, Poison}]]
    OBVIOUS
  <2> QED BY <2>1, <1>2, SetHashType DEF Corrupt
<1>3. ASSUME NEW k \in Keys, NEW i \in Ids, DeleteMessage(k, i) PROVE RedisTypeOK'
  <2>1. [hash EXCEPT ![k][i] = Null] \in [Keys -> [Ids -> Msgs \cup {Null, Poison}]]
    OBVIOUS
  <2> QED BY <2>1, <1>3, SetHashType DEF DeleteMessage
<1>4. ASSUME NEW m \in Msgs, NEW ks \in SUBSET Keys, Post(m, ks) PROVE RedisTypeOK'
  BY <1>4 DEF Post
<1>5. ASSUME NEW k \in Keys, NEW m \in Msgs, AddMessage(k, m) PROVE RedisTypeOK'
  <2>1. HSet(k, m) \in [Keys -> [Ids -> Msgs \cup {Null, Poison}]]
    BY DEF HSet
  <2>2. [deadline EXCEPT ![k] = Expire(k)] \in [Keys -> Int]
    BY DEF Expire
  <2> QED BY <2>1, <2>2, <1>5, SetHashType DEF AddMessage
<1>6. ASSUME NEW k \in Keys, DeleteQueue(k) \/ ExpireKey(k) PROVE RedisTypeOK'
  <2>1. [hash EXCEPT ![k] = Empty] \in [Keys -> [Ids -> Msgs \cup {Null, Poison}]]
    BY <1>e DEF Empty
  <2> QED BY <2>1, <1>6, SetHashType DEF DeleteQueue, ExpireKey
<1>7. ASSUME NEW r \in Readers, NEW k \in Keys, HGetAll(r, k) PROVE RedisTypeOK'
  BY <1>7 DEF HGetAll, Queue
<1>8. ASSUME NEW r \in Readers, NEW k \in Keys, NEW i \in Ids, HDel(r, k, i) PROVE RedisTypeOK'
  <2>1. [hash EXCEPT ![k][i] = Null] \in [Keys -> [Ids -> Msgs \cup {Null, Poison}]]
    OBVIOUS
  <2> QED BY <2>1, <1>8, SetHashType DEF HDel
<1>9. ASSUME NEW r \in Readers, ScanStart(r) PROVE RedisTypeOK'
  BY <1>9 DEF ScanStart
<1>10. ASSUME NEW r \in Readers, NEW batch \in SUBSET Keys, ScanBatch(r, batch) PROVE RedisTypeOK'
  BY <1>10 DEF ScanBatch
<1>11. CASE UNCHANGED vars
  BY <1>11 DEF vars
<1> QED BY <1>1, <1>2, <1>3, <1>4, <1>5, <1>6, <1>7, <1>8, <1>9, <1>10, <1>11 DEF Next

-----------------------------------------------------------------------------
(* The TTL. *)

(* A step that only removes fields, or adds undecodable ones, keeps what   *)
(* the TTL of every key covers.                                            *)
LEMMA RemovalKeepsTTL ==
  ASSUME TTLInv, RedisTypeOK', KeepsTime, NEW h, SetHash(h, deadline),
         \A k \in Keys, i \in Ids : h[k][i] \in Msgs => h[k][i] = hash[k][i]
  PROVE  TTLInv'
<1>1. DatesPast'
  BY DEF TTLInv, DatesPast, KeepsTime, messageVars
<1>2. NoTTL'
  BY DEF TTLInv, NoTTL, SetHash
<1>3. TTLCoversQueue'
  <2> SUFFICES ASSUME NEW k \in Keys, NEW i \in Ids, hash'[k][i] \in Msgs, deadline'[k] # Never
               PROVE  deadline'[k] >= Due(hash[k][i])'
    BY DEF TTLCoversQueue
  <2>1. hash'[k][i] = hash[k][i] /\ deadline'[k] = deadline[k]
    BY DEF SetHash
  <2>2. deadline[k] >= Due(hash[k][i])
    BY <2>1 DEF TTLInv, TTLCoversQueue
  <2>3. Due(hash[k][i])' = Due(hash[k][i])
    BY <2>1 DEF Due, KeepsTime, messageVars
  <2> QED BY <2>1, <2>2, <2>3
<1>4. StoredIsDated'
  BY DEF TTLInv, StoredIsDated, SetHash, KeepsTime, messageVars
<1> QED BY <1>1, <1>2, <1>3, <1>4 DEF TTLInv

(* A step that leaves the data alone keeps it too. *)
LEMMA NoWriteKeepsTTL ==
  ASSUME TTLInv, RedisTypeOK', KeepsTime, UNCHANGED dbVars
  PROVE  TTLInv'
BY DEF TTLInv, KeepsTime, messageVars, dbVars, StoredIsDated, DatesPast, NoTTL, TTLCoversQueue, Due

(* Nothing is queued, no message has a date. *)
LEMMA InitTTL == Init => TTLInv
<1> SUFFICES ASSUME Init PROVE TTLInv
  OBVIOUS
<1>1. RedisTypeOK
  BY InitType
<1>2. DatesPast /\ NoTTL
  BY DEF Init, DatesPast, NoTTL, Never
<1>3. TTLCoversQueue /\ StoredIsDated
  BY RedisStorageAssumption DEF Init, TTLCoversQueue, StoredIsDated, Empty
<1> QED BY <1>1, <1>2, <1>3 DEF TTLInv

(* AddMessage renews the TTL of its key for all that is queued there. *)
LEMMA AddKeepsTTL ==
  ASSUME LivesWithinTTL, TTLInv, RedisTypeOK',
         NEW k \in Keys, NEW m \in Msgs, AddMessage(k, m)
  PROVE  TTLInv'
<1> USE RedisStorageAssumption
<1>n. UNCHANGED <<now, date>>
  BY DEF AddMessage
<1>1. DatesPast'
  BY <1>n DEF TTLInv, DatesPast
<1>2. NoTTL'
  BY DEF TTLInv, NoTTL, AddMessage, SetHash, Expire, RedisTypeOK
<1>3. TTLCoversQueue'
  <2> SUFFICES ASSUME NEW l \in Keys, NEW i \in Ids, hash'[l][i] \in Msgs, deadline'[l] # Never
               PROVE  deadline'[l] >= Due(hash[l][i])'
    BY DEF TTLCoversQueue
  <2>h. hash' = HSet(k, m) /\ deadline'[l] = [deadline EXCEPT ![k] = Expire(k)][l]
    BY DEF AddMessage, SetHash
  <2>1. CASE l = k
    <3>1. KeyTTL > 0
      BY <2>1, <2>h DEF TTLInv, NoTTL, Expire, RedisTypeOK
    <3>2. deadline'[l] = now + KeyTTL
      BY <3>1, <2>1, <2>h DEF Expire, TTLInv, RedisTypeOK
    <3>3. Due(hash[l][i])' = date[hash'[l][i]] + Life[hash'[l][i]]
      BY <1>n DEF Due
    <3>4. /\ date[hash'[l][i]] <= now /\ Life[hash'[l][i]] <= KeyTTL
          /\ date[hash'[l][i]] \in Int /\ Life[hash'[l][i]] \in Int /\ now \in Int
      BY DEF TTLInv, DatesPast, LivesWithinTTL, RedisTypeOK
    <3> QED BY <3>2, <3>3, <3>4
  <2>2. CASE l # k
    <3>1. hash'[l] = hash[l] /\ deadline'[l] = deadline[l]
      BY <2>2, <2>h DEF HSet, TTLInv, RedisTypeOK
    <3>2. deadline[l] >= Due(hash[l][i])
      BY <3>1 DEF TTLInv, TTLCoversQueue
    <3>3. Due(hash[l][i])' = Due(hash[l][i])
      BY <3>1, <1>n DEF Due
    <3> QED BY <3>1, <3>2, <3>3
  <2> QED BY <2>1, <2>2
<1>4. StoredIsDated'
  <2>1. hash' = HSet(k, m) /\ unstored' \subseteq unstored /\ <<k, m>> \in unstored
    BY DEF AddMessage, SetHash
  <2> QED BY <2>1, <1>n DEF TTLInv, StoredIsDated, HSet, RedisTypeOK
<1> QED BY <1>1, <1>2, <1>3, <1>4 DEF TTLInv

(* Time goes on, or a message is dated. *)
LEMMA TimeKeepsTTL ==
  ASSUME TTLInv, RedisTypeOK', Tick \/ \E m \in Msgs, ks \in SUBSET Keys : Post(m, ks)
  PROVE  TTLInv'
<1>1. CASE Tick
  BY <1>1 DEF Tick, TTLInv, RedisTypeOK, dbVars, DatesPast, NoTTL, StoredIsDated,
              TTLCoversQueue, Due
<1>2. ASSUME NEW m \in Msgs, NEW ks \in SUBSET Keys, Post(m, ks) PROVE TTLInv'
  <2>1. DatesPast'
    BY <1>2 DEF Post, TTLInv, RedisTypeOK, DatesPast
  <2>2. NoTTL'
    BY <1>2 DEF Post, TTLInv, NoTTL, dbVars
  <2>3. TTLCoversQueue'
    BY <1>2 DEF Post, TTLInv, RedisTypeOK, StoredIsDated, TTLCoversQueue, Due, dbVars
  <2>4. StoredIsDated'
    BY <1>2 DEF Post, TTLInv, RedisTypeOK, StoredIsDated, dbVars, Never
  <2> QED BY <2>1, <2>2, <2>3, <2>4 DEF TTLInv
<1> QED BY <1>1, <1>2

(* Every step of the backend and of Redis keeps what the TTL covers. *)
LEMMA StepTTL == LivesWithinTTL /\ TTLInv /\ [Next]_vars => TTLInv'
<1> SUFFICES ASSUME LivesWithinTTL, TTLInv, [Next]_vars PROVE TTLInv'
  OBVIOUS
<1>t. RedisTypeOK /\ RedisTypeOK'
  BY StepType DEF TTLInv
<1>p. Null \notin Msgs /\ Poison \notin Msgs
  BY RedisStorageAssumption
<1>1. CASE Tick
  BY <1>1, <1>t, TimeKeepsTTL
<1>2. ASSUME NEW k \in Keys, NEW i \in Ids, Corrupt(k, i) PROVE TTLInv'
  <2> DEFINE h == [hash EXCEPT ![k][i] = Poison]
  <2>1. \A l \in Keys, j \in Ids : h[l][j] \in Msgs => h[l][j] = hash[l][j]
    BY <1>t, <1>p DEF RedisTypeOK
  <2>2. SetHash(h, deadline) /\ KeepsTime
    BY <1>2 DEF Corrupt, KeepsTime
  <2> HIDE DEF h
  <2> QED BY <2>1, <2>2, <1>t, RemovalKeepsTTL
<1>3. ASSUME NEW k \in Keys, NEW i \in Ids,
             DeleteMessage(k, i) \/ \E r \in Readers : HDel(r, k, i)
      PROVE  TTLInv'
  <2> DEFINE h == [hash EXCEPT ![k][i] = Null]
  <2>1. \A l \in Keys, j \in Ids : h[l][j] \in Msgs => h[l][j] = hash[l][j]
    BY <1>t, <1>p DEF RedisTypeOK
  <2>2. SetHash(h, deadline) /\ KeepsTime
    BY <1>3 DEF DeleteMessage, HDel, KeepsTime
  <2> HIDE DEF h
  <2> QED BY <2>1, <2>2, <1>t, RemovalKeepsTTL
<1>4. ASSUME NEW m \in Msgs, NEW ks \in SUBSET Keys, Post(m, ks) PROVE TTLInv'
  BY <1>4, <1>t, TimeKeepsTTL
<1>5. ASSUME NEW k \in Keys, NEW m \in Msgs, AddMessage(k, m) PROVE TTLInv'
  BY <1>5, <1>t, AddKeepsTTL
<1>6. ASSUME NEW k \in Keys, DeleteQueue(k) \/ ExpireKey(k) PROVE TTLInv'
  <2> DEFINE h == [hash EXCEPT ![k] = Empty]
  <2>1. \A l \in Keys, j \in Ids : h[l][j] \in Msgs => h[l][j] = hash[l][j]
    BY <1>t, <1>p DEF RedisTypeOK, Empty
  <2>2. SetHash(h, deadline) /\ KeepsTime
    BY <1>6 DEF DeleteQueue, ExpireKey, KeepsTime
  <2> HIDE DEF h
  <2> QED BY <2>1, <2>2, <1>t, RemovalKeepsTTL
<1>7. ASSUME NEW r \in Readers,
             \/ \E k \in Keys : HGetAll(r, k)
             \/ ScanStart(r) \/ \E batch \in SUBSET Keys : ScanBatch(r, batch)
      PROVE  TTLInv'
  BY <1>7, <1>t, NoWriteKeepsTTL DEF HGetAll, ScanStart, ScanBatch, KeepsTime
<1>8. CASE UNCHANGED vars
  BY <1>8, <1>t, NoWriteKeepsTTL DEF vars, KeepsTime
<1> QED BY <1>1, <1>2, <1>3, <1>4, <1>5, <1>6, <1>7, <1>8 DEF Next

(* AddMessage (redis_storage.go) renews the TTL in the transaction that    *)
(* stores a message: if no message asks for a longer life than the TTL,    *)
(* the deadline of a key is never before that of a message queued there.   *)
THEOREM TTLCorrect == LivesWithinTTL => (Spec => []TTLCoversQueue)
<1>1. TTLInv => TTLCoversQueue
  BY DEF TTLInv
<1>2. LivesWithinTTL => (TTLInv /\ [Next]_vars => TTLInv')
  BY StepTTL
<1> SUFFICES ASSUME LivesWithinTTL PROVE Spec => []TTLCoversQueue
  OBVIOUS
<1>3. TTLInv /\ [Next]_vars => TTLInv'
  BY <1>2
<1> QED BY <1>1, <1>3, InitTTL, PTL DEF Spec

(* Under the same condition the key TTL is a backstop only: Redis drops no *)
(* message that has not expired.                                           *)
THEOREM DropsCorrect == LivesWithinTTL => (Spec => DropsOnlyDue)
<1> SUFFICES ASSUME LivesWithinTTL PROVE Spec => DropsOnlyDue
  OBVIOUS
<1>1. TTLInv /\ [Next]_vars => TTLInv'
  BY StepTTL
<1>2. TTLInv => [\A k \in Keys : ExpireKey(k) => \A m \in Queue(k) : Due(m) <= now]_vars
  <2> SUFFICES ASSUME TTLInv, NEW k \in Keys, ExpireKey(k), NEW m \in Queue(k)
               PROVE  Due(m) <= now
    OBVIOUS
  <2>1. PICK i \in Ids : m = hash[k][i] /\ m \in Msgs
    BY DEF Queue
  <2>2. deadline[k] = now /\ now # Never
    BY DEF ExpireKey, TTLInv, RedisTypeOK, Never
  <2>3. deadline[k] >= Due(m)
    BY <2>1, <2>2 DEF TTLInv, TTLCoversQueue
  <2>4. Due(m) \in Int /\ now \in Int
    BY <2>1, RedisStorageAssumption DEF Due, TTLInv, RedisTypeOK
  <2> QED BY <2>2, <2>3, <2>4
<1> QED BY <1>1, <1>2, InitTTL, PTL DEF Spec, DropsOnlyDue

-----------------------------------------------------------------------------
(* The refinement.  What the storage holds: the entries that decode.       *)
Decoded(h) == [k \in Keys |-> [i \in Ids |-> IF h[k][i] \in Msgs THEN h[k][i] ELSE Null]]

NoneListed == [r \in Readers |-> {}]

(* A step that changes neither the entries that decode nor the results is  *)
(* a stutter of the atomic storage.                                        *)
LEMMA StutterRefines ==
  ASSUME Decoded(hash)' = Decoded(hash), reads' = reads
  PROVE  [Atomic!Next]_<<Decoded(hash), reads, NoneListed>>
BY DEF NoneListed

(* The commands that write, as updates of the atomic storage. *)
LEMMA AddRefines ==
  ASSUME RedisTypeOK, NEW k \in Keys, NEW m \in Msgs, AddMessage(k, m)
  PROVE  Atomic!Update
<1> USE RedisStorageAssumption
<1>1. hash' = [hash EXCEPT ![k][Id[m]] = m] /\ UNCHANGED reads /\ Id[m] \in Ids
  BY DEF AddMessage, SetHash, HSet, readVars
<1>2. Decoded(hash)' = [Decoded(hash) EXCEPT ![k][Id[m]] = m]
  BY <1>1 DEF Decoded, RedisTypeOK
<1>3. Atomic!AddMessage(k, Id[m], m)
  BY <1>2 DEF Atomic!AddMessage, Decoded
<1> QED BY <1>1, <1>3 DEF Atomic!Update

LEMMA DeleteRefines ==
  ASSUME RedisTypeOK, NEW k \in Keys, NEW i \in Ids,
         SetHash([hash EXCEPT ![k][i] = Null], deadline), UNCHANGED reads
  PROVE  Atomic!Update
<1> USE RedisStorageAssumption
<1>1. hash' = [hash EXCEPT ![k][i] = Null]
  BY DEF SetHash
<1>2. Decoded(hash)' = [Decoded(hash) EXCEPT ![k][i] = Null]
  BY <1>1 DEF Decoded, RedisTypeOK
<1>3. Atomic!DeleteMessage(k, i)
  BY <1>2 DEF Atomic!DeleteMessage, Decoded
<1> QED BY <1>3 DEF Atomic!Update

LEMMA DeleteQueueRefines ==
  ASSUME RedisTypeOK, NEW k \in Keys,
         SetHash([hash EXCEPT ![k] = Empty], deadline), UNCHANGED reads
  PROVE  Atomic!Update
<1> USE RedisStorageAssumption
<1>1. hash' = [hash EXCEPT ![k] = Empty]
  BY DEF SetHash
<1>2. Decoded(hash)' = [Decoded(hash) EXCEPT ![k] = Empty]
  BY <1>1 DEF Decoded, RedisTypeOK, Empty
<1>3. Atomic!DeleteQueue(k)
  BY <1>2 DEF Atomic!DeleteQueue, Atomic!EmptyQueue, Decoded, Empty
<1> QED BY <1>3 DEF Atomic!Update

(* HGETALL is the read of the atomic storage. *)
LEMMA ReadRefines ==
  ASSUME RedisTypeOK, NEW r \in Readers, NEW k \in Keys, HGetAll(r, k)
  PROVE  Atomic!Read
<1> USE RedisStorageAssumption
<1>1. hash' = hash /\ reads' = [reads EXCEPT ![r] = Queue(k)]
  BY DEF HGetAll, dbVars
<1>2. Queue(k) = {Decoded(hash)[k][i] : i \in Ids} \ {Null}
  BY DEF Queue, Decoded, RedisTypeOK
<1>3. Queue(k) = Atomic!GetQueue(k)
  BY <1>2 DEF Atomic!GetQueue, Decoded
<1>4. Decoded(hash)' = Decoded(hash)
  BY <1>1 DEF Decoded
<1> QED BY <1>1, <1>3, <1>4 DEF Atomic!Read, Decoded

(* Every step is a step of the atomic storage, or none that it sees. *)
LEMMA StepRefines ==
  ASSUME RedisTypeOK, [Next]_vars
  PROVE  [Atomic!Next]_<<Decoded(hash), reads, NoneListed>>
<1> DEFINE Goal == [Atomic!Next]_<<Decoded(hash), reads, NoneListed>>
<1>u. ASSUME UNCHANGED <<hash, reads>> PROVE Goal
  BY <1>u, StutterRefines DEF Decoded
<1>n. Atomic!Update \/ Atomic!Read => Goal
  BY DEF Atomic!Next
<1> SUFFICES Goal
  OBVIOUS
<1> HIDE DEF Goal
<1>1. CASE Tick
  BY <1>1, <1>u DEF Tick, dbVars, readVars
<1>2. ASSUME NEW k \in Keys, NEW i \in Ids, Corrupt(k, i) PROVE Goal
  <2>1. hash' = [hash EXCEPT ![k][i] = Poison] /\ hash[k][i] = Null /\ reads' = reads
    BY <1>2 DEF Corrupt, SetHash, readVars
  <2>2. Decoded(hash)' = Decoded(hash)
    BY <2>1, RedisStorageAssumption DEF Decoded, RedisTypeOK
  <2> QED BY <2>1, <2>2, StutterRefines DEF Goal
<1>3. ASSUME NEW k \in Keys, NEW i \in Ids, DeleteMessage(k, i) PROVE Goal
  BY <1>3, <1>n, DeleteRefines DEF DeleteMessage, readVars
<1>4. ASSUME NEW m \in Msgs, NEW ks \in SUBSET Keys, Post(m, ks) PROVE Goal
  BY <1>4, <1>u DEF Post, dbVars, readVars
<1>5. ASSUME NEW k \in Keys, NEW m \in Msgs, AddMessage(k, m) PROVE Goal
  BY <1>5, <1>n, AddRefines
<1>6. ASSUME NEW k \in Keys, DeleteQueue(k) \/ ExpireKey(k) PROVE Goal
  BY <1>6, <1>n, DeleteQueueRefines DEF DeleteQueue, ExpireKey, readVars
<1>7. ASSUME NEW r \in Readers, NEW k \in Keys, HGetAll(r, k) PROVE Goal
  BY <1>7, <1>n, ReadRefines
<1>8. ASSUME NEW r \in Readers, NEW k \in Keys, NEW i \in Ids, HDel(r, k, i) PROVE Goal
  BY <1>8, <1>n, DeleteRefines DEF HDel
<1>9. ASSUME NEW r \in Readers, ScanStart(r) \/ \E batch \in SUBSET Keys : ScanBatch(r, batch)
      PROVE  Goal
  BY <1>9, <1>u DEF ScanStart, ScanBatch, dbVars, readVars
<1>10. CASE UNCHANGED vars
  BY <1>10, <1>u DEF vars, dbVars, readVars
<1> QED
  BY <1>1, <1>2, <1>3, <1>4, <1>5, <1>6, <1>7, <1>8, <1>9, <1>10 DEF Next

(* The Redis backend (redis_storage.go) implements the storage that the    *)
(* delivery engine relies on, for any number of keys, messages, readers    *)
(* and instances: its commands are the atomic operations, undecodable      *)
(* entries are none, and the TTL of a key is a DeleteQueue.                *)
THEOREM RedisRefines == Spec => ImplementsAtomicStorage
<1>1. Init => Atomic!Init
  BY RedisStorageAssumption DEF Init, Atomic!Init, Atomic!Init_Storage, Atomic!EmptyQueue, Empty
<1>2. RedisTypeOK /\ [Next]_vars => [Atomic!Next]_<<Decoded(hash), reads, NoneListed>>
  BY StepRefines
<1>3. RedisTypeOK /\ [Next]_vars =>
        [Atomic!Next]_<<[k \in Keys |-> [i \in Ids |-> IF hash[k][i] \in Msgs THEN hash[k][i] ELSE Null]],
                        reads, [r \in Readers |-> {}]>>
  BY <1>2 DEF Decoded, NoneListed
<1> QED BY <1>1, <1>3, InitType, StepType, PTL DEF Spec, ImplementsAtomicStorage, Atomic!Spec

-----------------------------------------------------------------------------
(* GetKeys.  A key that has been there since the scan began was returned,  *)
(* or the cursor has not come to it.                                       *)
ScanSees ==
  \A r \in Readers : \A k \in through[r] :
    /\ k \in Keys /\ Exists(hash, k)
    /\ k \in found[r] \/ (cursor[r] # Null /\ k \in cursor[r])

(* A command that writes forgets the keys that it removes. *)
LEMMA WriteKeepsScan ==
  ASSUME ScanSees, NEW h, NEW d, SetHash(h, d), UNCHANGED scanVars
  PROVE  ScanSees'
BY DEF ScanSees, SetHash, scanVars, Exists

LEMMA StepScan == RedisTypeOK /\ ScanSees /\ [Next]_vars => ScanSees'
<1> SUFFICES ASSUME RedisTypeOK, ScanSees, [Next]_vars PROVE ScanSees'
  OBVIOUS
<1>1. CASE UNCHANGED <<hash, cursor, found, through>>
  BY <1>1 DEF ScanSees, Exists
<1>2. ASSUME NEW r \in Readers, ScanStart(r) PROVE ScanSees'
  <2>1. ASSUME NEW s \in Readers, NEW k \in through'[s]
        PROVE  /\ k \in Keys /\ Exists(hash, k)'
               /\ k \in found'[s] \/ (cursor'[s] # Null /\ k \in cursor'[s])
    <3>1. CASE s = r
      BY <1>2, <2>1, <3>1, RedisStorageAssumption
      DEF ScanStart, ScanSees, Exists, RedisTypeOK, dbVars
    <3>2. CASE s # r
      BY <1>2, <2>1, <3>2 DEF ScanStart, ScanSees, Exists, RedisTypeOK, dbVars
    <3> QED
      BY <3>1, <3>2
  <2> QED
    BY <2>1 DEF ScanSees
<1>3. ASSUME NEW r \in Readers, NEW batch \in SUBSET Keys, ScanBatch(r, batch) PROVE ScanSees'
  <2>0. cursor[r] \in SUBSET Keys /\ found[r] \in SUBSET Keys
    BY <1>3 DEF ScanBatch, RedisTypeOK
  <2>1. /\ found' = [found EXCEPT ![r] = @ \cup {k \in batch : Exists(hash, k)}]
        /\ cursor' = [cursor EXCEPT ![r] = IF cursor[r] \ batch = {} THEN Null ELSE cursor[r] \ batch]
        /\ UNCHANGED <<hash, through>>
    BY <1>3 DEF ScanBatch, ScanOver, dbVars
  <2>2. ASSUME NEW s \in Readers, NEW k \in through[s]
        PROVE  k \in found'[s] \/ (cursor'[s] # Null /\ k \in cursor'[s])
    <3>1. CASE s = r
      <4>1. k \in Keys /\ Exists(hash, k) /\ (k \in found[r] \/ k \in cursor[r])
        BY <2>2, <3>1 DEF ScanSees
      <4>2. CASE k \in found[r] \/ k \in batch
        BY <2>1, <3>1, <4>1, <4>2 DEF RedisTypeOK
      <4>3. CASE k \in cursor[r] \ batch
        <5>1. cursor[r] \ batch # Null /\ cursor[r] \ batch # {}
          BY <2>0, <4>3, RedisStorageAssumption
        <5> QED
          BY <2>1, <3>1, <4>3, <5>1 DEF RedisTypeOK
      <4> QED
        BY <4>1, <4>2, <4>3
    <3>2. CASE s # r
      BY <2>1, <2>2, <3>2 DEF ScanSees, RedisTypeOK
    <3> QED
      BY <3>1, <3>2
  <2> QED
    BY <2>1, <2>2 DEF ScanSees, Exists
<1>4. ASSUME NEW k \in Keys, NEW i \in Ids, Corrupt(k, i) \/ DeleteMessage(k, i) PROVE ScanSees'
  BY <1>4, WriteKeepsScan DEF Corrupt, DeleteMessage
<1>5. ASSUME NEW k \in Keys, NEW m \in Msgs, AddMessage(k, m) PROVE ScanSees'
  BY <1>5, WriteKeepsScan DEF AddMessage
<1>6. ASSUME NEW k \in Keys, DeleteQueue(k) \/ ExpireKey(k) PROVE ScanSees'
  BY <1>6, WriteKeepsScan DEF DeleteQueue, ExpireKey
<1>7. ASSUME NEW r \in Readers, NEW k \in Keys, NEW i \in Ids, HDel(r, k, i) PROVE ScanSees'
  BY <1>7, WriteKeepsScan DEF HDel
<1>8. CASE \/ Tick
           \/ \E m \in Msgs, ks \in SUBSET Keys : Post(m, ks)
           \/ \E r \in Readers, k \in Keys : HGetAll(r, k)
  BY <1>1, <1>8 DEF Tick, Post, HGetAll, dbVars, scanVars
<1>9. CASE UNCHANGED vars
  BY <1>1, <1>9 DEF vars, dbVars, scanVars
<1> QED
  BY <1>2, <1>3, <1>4, <1>5, <1>6, <1>7, <1>8, <1>9 DEF Next

(* GetKeys of the Redis backend misses no key that was there from its      *)
(* first SCAN to its last, however many batches it takes and whatever is   *)
(* written, deleted or expired between them.                               *)
THEOREM ScanCorrect == Spec => []ScanComplete
<1>1. Init => RedisTypeOK /\ ScanSees
  BY InitType DEF Init, ScanSees
<1>2. RedisTypeOK /\ ScanSees /\ [Next]_vars => (RedisTypeOK /\ ScanSees)'
  BY StepType, StepScan
<1>3. ScanSees => ScanComplete
  BY DEF ScanSees, ScanComplete
<1> QED
  BY <1>1, <1>2, <1>3, PTL DEF Spec

-----------------------------------------------------------------------------
(* The memory backend. *)
USE MemAssumption DEF Mem!MemoryStorageAssumption

(* The first n elements of an array q, as a queue: where id i is in it,    *)
(* and what is found under i.                                              *)
At(q, n, i) == {j \in 1..n : MemId[q[j]] = i}

Find(q, n, i) == IF At(q, n, i) = {} THEN Null ELSE q[CHOOSE j \in At(q, n, i) : TRUE]

(* No id is in it twice. *)
OncePerId(q, n) == \A x, y \in 1..n : MemId[q[x]] = MemId[q[y]] => x = y

(* i is before j. *)
Ahead(q, n, i, j) == \E x \in At(q, n, i), y \in At(q, n, j) : x < y

(* The CHOOSE of Find has one candidate. *)
LEMMA FindAt ==
  ASSUME NEW q, NEW n \in Nat, OncePerId(q, n), NEW i, NEW j \in At(q, n, i)
  PROVE  Find(q, n, i) = q[j]
  <1> DEFINE c == CHOOSE x \in At(q, n, i) : TRUE
  <1>1. c \in At(q, n, i)
    OBVIOUS
  <1>2. c = j
    BY <1>1 DEF At, OncePerId
  <1> QED
    BY <1>2 DEF Find

(* Of two ids only one is before the other. *)
LEMMA AheadOnce ==
  ASSUME NEW q, NEW n \in Nat, OncePerId(q, n), NEW i, NEW j, Ahead(q, n, i, j)
  PROVE  ~Ahead(q, n, j, i)
  <1> SUFFICES ASSUME Ahead(q, n, j, i) PROVE FALSE
    OBVIOUS
  <1>1. PICK x \in At(q, n, i), y \in At(q, n, j) : x < y
    BY DEF Ahead
  <1>2. PICK v \in At(q, n, j), u \in At(q, n, i) : v < u
    BY DEF Ahead
  <1>3. x = u /\ y = v
    BY DEF At, OncePerId
  <1> QED
    BY <1>1, <1>2, <1>3 DEF At

(* What can be found are the elements. *)
LEMMA FoundAll ==
  ASSUME NEW q, NEW n \in Nat, OncePerId(q, n), \A j \in 1..n : q[j] \in MemMsgs
  PROVE  {Find(q, n, i) : i \in MemIds} \ {Null} = {q[j] : j \in 1..n}
  <1>1. ASSUME NEW i \in MemIds, Find(q, n, i) # Null PROVE \E j \in 1..n : Find(q, n, i) = q[j]
    <2>1. PICK j \in At(q, n, i) : TRUE
      BY <1>1 DEF Find
    <2> QED
      BY <2>1, FindAt DEF At
  <1>2. ASSUME NEW j \in 1..n
        PROVE  MemId[q[j]] \in MemIds /\ Find(q, n, MemId[q[j]]) = q[j] /\ q[j] # Null
    <2>1. MemId[q[j]] \in MemIds /\ q[j] # Null /\ j \in At(q, n, MemId[q[j]])
      BY DEF At
    <2> QED
      BY <2>1, FindAt
  <1> QED
    BY <1>1, <1>2

(* AddMessage of an id that is queued: p is q with m in its place. *)
LEMMA ReplaceFinds ==
  ASSUME NEW q, NEW n \in Nat, OncePerId(q, n), NEW m \in MemMsgs, At(q, n, MemId[m]) # {},
         NEW p, \A j \in 1..n : p[j] = IF j \in At(q, n, MemId[m]) THEN m ELSE q[j]
  PROVE  /\ OncePerId(p, n)
         /\ \A i \in MemIds : Find(p, n, i) = IF i = MemId[m] THEN m ELSE Find(q, n, i)
         /\ \A i, j \in MemIds : Ahead(q, n, i, j) => ~Ahead(p, n, j, i)
  <1>1. \A j \in 1..n : MemId[p[j]] = MemId[q[j]]
    BY DEF At
  <1>2. \A i : At(p, n, i) = At(q, n, i)
    BY <1>1 DEF At
  <1>3. OncePerId(p, n)
    BY <1>1 DEF OncePerId
  <1>4. ASSUME NEW i \in MemIds PROVE Find(p, n, i) = IF i = MemId[m] THEN m ELSE Find(q, n, i)
    <2>1. CASE At(q, n, i) = {}
      BY <1>2, <2>1 DEF Find
    <2>2. ASSUME NEW x \in At(q, n, i) PROVE Find(p, n, i) = IF i = MemId[m] THEN m ELSE Find(q, n, i)
      <3>1. Find(p, n, i) = p[x] /\ Find(q, n, i) = q[x]
        BY <1>2, <1>3, FindAt
      <3>2. x \in 1..n /\ MemId[q[x]] = i
        BY DEF At
      <3>3. x \in At(q, n, MemId[m]) <=> i = MemId[m]
        BY <3>2 DEF At
      <3> QED
        BY <3>1, <3>2, <3>3
    <2> QED
      BY <2>1, <2>2
  <1>5. ASSUME NEW i \in MemIds, NEW j \in MemIds, Ahead(q, n, i, j) PROVE ~Ahead(p, n, j, i)
    <2>1. ~Ahead(q, n, j, i)
      BY <1>5, AheadOnce
    <2> QED
      BY <1>2, <2>1 DEF Ahead
  <1> QED
    BY <1>3, <1>4, <1>5

(* AddMessage of an id that is not: m is behind the others. *)
LEMMA AppendFinds ==
  ASSUME NEW q, NEW n \in Nat, OncePerId(q, n), NEW m \in MemMsgs, At(q, n, MemId[m]) = {},
         NEW p, \A j \in 1..n : p[j] = q[j], p[n + 1] = m
  PROVE  /\ OncePerId(p, n + 1)
         /\ \A i \in MemIds : Find(p, n + 1, i) = IF i = MemId[m] THEN m ELSE Find(q, n, i)
         /\ \A i, j \in MemIds : Ahead(q, n, i, j) => ~Ahead(p, n + 1, j, i)
  <1>1. \A j \in 1..n : MemId[q[j]] # MemId[m]
    BY DEF At
  <1>2. \A j \in 1 .. n + 1 : j \in 1..n \/ j = n + 1
    OBVIOUS
  <1>3. OncePerId(p, n + 1)
    <2> SUFFICES ASSUME NEW x \in 1 .. n + 1, NEW y \in 1 .. n + 1, MemId[p[x]] = MemId[p[y]]
                 PROVE  x = y
      BY DEF OncePerId
    <2>1. CASE x \in 1..n /\ y \in 1..n
      BY <2>1 DEF OncePerId
    <2>2. CASE x = n + 1 /\ y \in 1..n
      BY <1>1, <2>2
    <2>3. CASE y = n + 1 /\ x \in 1..n
      BY <1>1, <2>3
    <2> QED
      BY <1>2, <2>1, <2>2, <2>3
  <1>4. \A i : i # MemId[m] => At(p, n + 1, i) = At(q, n, i)
    <2>1. \A j \in 1..n : j \in 1 .. n + 1
      OBVIOUS
    <2> QED
      BY <1>2, <2>1 DEF At
  <1>5. ASSUME NEW i \in MemIds PROVE Find(p, n + 1, i) = IF i = MemId[m] THEN m ELSE Find(q, n, i)
    <2>1. CASE i = MemId[m]
      <3>1. n + 1 \in At(p, n + 1, i)
        BY <2>1 DEF At
      <3> QED
        BY <1>3, <2>1, <3>1, FindAt
    <2>2. CASE At(q, n, i) = {} /\ i # MemId[m]
      BY <1>4, <2>2 DEF Find
    <2>3. ASSUME NEW x \in At(q, n, i), i # MemId[m] PROVE Find(p, n + 1, i) = Find(q, n, i)
      <3>1. x \in At(p, n + 1, i) /\ x \in 1..n
        BY <1>4, <2>3 DEF At
      <3>2. Find(p, n + 1, i) = p[x] /\ Find(q, n, i) = q[x]
        BY <1>3, <3>1, FindAt
      <3> QED
        BY <3>1, <3>2
    <2> QED
      BY <2>1, <2>2, <2>3
  <1>6. ASSUME NEW i \in MemIds, NEW j \in MemIds, Ahead(q, n, i, j) PROVE ~Ahead(p, n + 1, j, i)
    <2>1. PICK x \in At(q, n, i), y \in At(q, n, j) : x < y
      BY <1>6 DEF Ahead
    <2>2. i # MemId[m] /\ j # MemId[m]
      BY <2>1
    <2>3. ~Ahead(q, n, j, i)
      BY <1>6, AheadOnce
    <2> QED
      BY <1>4, <2>2, <2>3 DEF Ahead
  <1> QED
    BY <1>3, <1>5, <1>6

(* DeleteMessage: the elements behind position g move up. *)
LEMMA CloseGapFinds ==
  ASSUME NEW q, NEW n \in Nat, n > 0, OncePerId(q, n), NEW i0 \in MemIds, NEW g \in At(q, n, i0),
         NEW p, \A j \in 1 .. n - 1 : p[j] = IF j >= g THEN q[j + 1] ELSE q[j]
  PROVE  /\ OncePerId(p, n - 1)
         /\ \A i \in MemIds : Find(p, n - 1, i) = IF i = i0 THEN Null ELSE Find(q, n, i)
         /\ \A i, j \in MemIds : Ahead(q, n, i, j) => ~Ahead(p, n - 1, j, i)
  <1> DEFINE src(j) == IF j >= g THEN j + 1 ELSE j
  <1>0. g \in 1..n /\ MemId[q[g]] = i0 /\ n - 1 \in Nat
    BY DEF At
  <1>1. ASSUME NEW j \in 1 .. n - 1 PROVE src(j) \in 1..n /\ src(j) # g /\ p[j] = q[src(j)]
    BY <1>0
  <1>2. \A x, y \in 1 .. n - 1 : (src(x) = src(y) => x = y) /\ (x < y => src(x) < src(y))
    BY <1>0
  <1>3. \A x \in 1..n : x # g => \E j \in 1 .. n - 1 : src(j) = x
    <2> SUFFICES ASSUME NEW x \in 1..n, x # g PROVE \E j \in 1 .. n - 1 : src(j) = x
      OBVIOUS
    <2>1. CASE x < g
      <3>1. x \in 1 .. n - 1 /\ src(x) = x
        BY <1>0, <2>1
      <3> QED
        BY <3>1
    <2>2. CASE x > g
      <3>1. x - 1 \in 1 .. n - 1 /\ src(x - 1) = x
        BY <1>0, <2>2
      <3> QED
        BY <3>1
    <2> QED
      BY <1>0, <2>1, <2>2
  <1> HIDE DEF src
  <1>4. OncePerId(p, n - 1)
    BY <1>1, <1>2 DEF OncePerId
  <1>5. ASSUME NEW i, NEW j \in At(p, n - 1, i) PROVE i # i0 /\ j \in 1 .. n - 1 /\ src(j) \in At(q, n, i)
    BY <1>0, <1>1 DEF At, OncePerId
  <1>6. ASSUME NEW i \in MemIds PROVE Find(p, n - 1, i) = IF i = i0 THEN Null ELSE Find(q, n, i)
    <2>1. CASE i = i0
      <3>1. At(p, n - 1, i) = {}
        BY <1>5, <2>1
      <3> QED
        BY <2>1, <3>1 DEF Find
    <2>2. CASE At(q, n, i) = {}
      <3>1. At(p, n - 1, i) = {}
        BY <1>5, <2>2
      <3> QED
        BY <2>2, <3>1 DEF Find
    <2>3. ASSUME NEW x \in At(q, n, i), i # i0 PROVE Find(p, n - 1, i) = Find(q, n, i)
      <3>1. x \in 1..n /\ x # g /\ MemId[q[x]] = i
        BY <1>0, <2>3 DEF At
      <3>2. PICK j \in 1 .. n - 1 : src(j) = x
        BY <1>3, <3>1
      <3>3. p[j] = q[x]
        BY <1>1, <3>2
      <3>4. j \in At(p, n - 1, i)
        BY <3>1, <3>3 DEF At
      <3>5. Find(p, n - 1, i) = p[j]
        BY <1>0, <1>4, <3>4, FindAt
      <3>6. Find(q, n, i) = q[x]
        BY FindAt
      <3> QED
        BY <3>3, <3>5, <3>6
    <2> QED
      BY <2>1, <2>2, <2>3
  <1>7. ASSUME NEW i \in MemIds, NEW j \in MemIds, Ahead(q, n, i, j) PROVE ~Ahead(p, n - 1, j, i)
    <2> SUFFICES ASSUME Ahead(p, n - 1, j, i) PROVE FALSE
      OBVIOUS
    <2>1. PICK x \in At(q, n, i), y \in At(q, n, j) : x < y
      BY <1>7 DEF Ahead
    <2>2. PICK v \in At(p, n - 1, j), u \in At(p, n - 1, i) : v < u
      BY DEF Ahead
    <2>3. src(v) \in At(q, n, j) /\ src(u) \in At(q, n, i) /\ v \in 1 .. n - 1 /\ u \in 1 .. n - 1
      BY <1>5
    <2>4. src(v) < src(u)
      BY <1>2, <2>2, <2>3
    <2>5. x = src(u) /\ y = src(v)
      BY <2>1, <2>3 DEF At, OncePerId
    <2> QED
      BY <2>1, <2>3, <2>4, <2>5 DEF At
  <1> QED
    BY <1>4, <1>6, <1>7


-----------------------------------------------------------------------------
(* The slices: s.len elements of array s.arr, from the first on. *)
MemSlices == [arr : Arrays, len : Nat] \cup {Mem!Nil}

InBounds(h, s) == s # Mem!Nil => s.len > 0 /\ s.len <= Len(h[s.arr])

Shown(h, s) == {h[s.arr][j] : j \in 1..s.len}

MemType ==
  /\ heap \in [Arrays -> Seq(MemMsgs)]
  /\ storage \in [MemKeys -> MemSlices] /\ held \in [Readers -> MemSlices]
  /\ \A k \in MemKeys : InBounds(heap, storage[k])
  /\ \A r \in Readers : InBounds(heap, held[r])

(* Nobody else has a slice of the array that a key writes to. *)
ArraysApart ==
  \A k \in MemKeys : storage[k] # Mem!Nil =>
    /\ \A l \in MemKeys : l # k => storage[l].arr # storage[k].arr
    /\ \A r \in Readers : held[r].arr # storage[k].arr

(* A queue has an id at most once. *)
IdsApart == \A k \in MemKeys : OncePerId(heap[storage[k].arr], storage[k].len)

MemInv == MemType /\ ArraysApart /\ IdsApart

LEMMA SliceType ==
  ASSUME NEW s \in MemSlices
  PROVE  /\ s.len \in Nat
         /\ s = Mem!Nil => s.len = 0 /\ s.arr \notin Arrays /\ s.arr = Null
         /\ s # Mem!Nil => s.arr \in Arrays /\ s \in [arr : Arrays, len : Nat]
  BY DEF MemSlices, Mem!Nil

(* Elements cuts a slice out of its array. *)
LEMMA ElementsAre ==
  ASSUME MemType, NEW s \in MemSlices, InBounds(heap, s), NEW j \in 1..s.len
  PROVE  Mem!Elements(s)[j] = heap[s.arr][j]
  <1>1. s # Mem!Nil /\ s.arr \in Arrays /\ s.len \in Nat
    BY SliceType
  <1>2. heap[s.arr] \in Seq(MemMsgs) /\ s.len <= Len(heap[s.arr])
    BY <1>1 DEF MemType, InBounds
  <1>3. Mem!Elements(s) = SubSeq(heap[s.arr], 1, s.len)
    BY <1>1 DEF Mem!Elements
  <1> QED
    BY <1>1, <1>2, <1>3

(* The refinement mapping and the positions in terms of arrays. *)
MappingIs ==
  /\ \A k \in MemKeys, i \in MemIds : Mem!Positions(k, i) = At(heap[storage[k].arr], storage[k].len, i)
  /\ Mem!StoreOf = [k \in MemKeys |-> [i \in MemIds |-> Find(heap[storage[k].arr], storage[k].len, i)]]
  /\ Mem!ReadsOf = [r \in Readers |-> Shown(heap, held[r])]

LEMMA Mapping == MemType => MappingIs
  <1> SUFFICES ASSUME MemType PROVE MappingIs
    OBVIOUS
  <1>1. ASSUME NEW k \in MemKeys, NEW j \in 1..storage[k].len
        PROVE  Mem!Queue(k)[j] = heap[storage[k].arr][j]
    BY ElementsAre DEF MemType, Mem!Queue
  <1>2. ASSUME NEW k \in MemKeys, NEW i
        PROVE  Mem!Positions(k, i) = At(heap[storage[k].arr], storage[k].len, i)
    BY <1>1 DEF Mem!Positions, At
  <1>3. ASSUME NEW k \in MemKeys, NEW i \in MemIds
        PROVE  (IF Mem!Positions(k, i) = {} THEN Null
                ELSE Mem!Queue(k)[CHOOSE j \in Mem!Positions(k, i) : TRUE])
               = Find(heap[storage[k].arr], storage[k].len, i)
    <2> DEFINE P == At(heap[storage[k].arr], storage[k].len, i)
    <2>1. CASE P = {}
      BY <1>2, <2>1 DEF Find
    <2>2. CASE P # {}
      <3>1. (CHOOSE j \in P : TRUE) \in P
        BY <2>2
      <3>2. (CHOOSE j \in P : TRUE) \in 1..storage[k].len
        BY <3>1 DEF At
      <3>3. Mem!Queue(k)[CHOOSE j \in P : TRUE] = heap[storage[k].arr][CHOOSE j \in P : TRUE]
        BY <1>1, <3>2
      <3> QED
        BY <1>2, <2>2, <3>3 DEF Find
    <2> QED
      BY <2>1, <2>2
  <1>4. Mem!StoreOf = [k \in MemKeys |-> [i \in MemIds |-> Find(heap[storage[k].arr], storage[k].len, i)]]
    BY <1>3 DEF Mem!StoreOf
  <1>5. ASSUME NEW r \in Readers
        PROVE  {Mem!Elements(held[r])[j] : j \in 1..held[r].len} = Shown(heap, held[r])
    <2>1. \A j \in 1..held[r].len : Mem!Elements(held[r])[j] = heap[held[r].arr][j]
      BY ElementsAre DEF MemType
    <2> QED
      BY <2>1 DEF Shown
  <1>6. Mem!ReadsOf = [r \in Readers |-> Shown(heap, held[r])]
    BY <1>5 DEF Mem!ReadsOf
  <1> QED
    BY <1>2, <1>4, <1>6 DEF MappingIs

LEMMA MappingNext == (MemType => MappingIs)'
  BY Mapping, PTL

(* Collecting garbage changes no array that has a slice. *)
LEMMA Collected ==
  ASSUME NEW h \in [Arrays -> Seq(MemMsgs)], Mem!Collect(h),
         storage' \in [MemKeys -> MemSlices], held' \in [Readers -> MemSlices]
  PROVE  /\ heap' \in [Arrays -> Seq(MemMsgs)]
         /\ \A k \in MemKeys : storage'[k] # Mem!Nil => heap'[storage'[k].arr] = h[storage'[k].arr]
         /\ \A r \in Readers : held'[r] # Mem!Nil => heap'[held'[r].arr] = h[held'[r].arr]
  <1>1. heap' = [a \in Arrays |-> IF a \in Mem!Free' THEN << >> ELSE h[a]]
    BY DEF Mem!Collect
  <1>2. heap' \in [Arrays -> Seq(MemMsgs)]
    BY <1>1
  <1>3. ASSUME NEW k \in MemKeys, storage'[k] # Mem!Nil
        PROVE  storage'[k].arr \in Arrays \ Mem!Free'
    BY <1>3, SliceType DEF Mem!Free
  <1>4. ASSUME NEW r \in Readers, held'[r] # Mem!Nil
        PROVE  held'[r].arr \in Arrays \ Mem!Free'
    BY <1>4, SliceType DEF Mem!Free
  <1> QED
    BY <1>1, <1>2, <1>3, <1>4

(* What a step is to show: the invariant, a step of the atomic storage and *)
(* the order of the queues.                                                *)
OrderStep ==
  \A k \in MemKeys, i, j \in MemIds : Mem!Before(k, i, j) => ~(Mem!Before(k, j, i))'

AtomicStep == [Mem!Atomic!Next]_<<Mem!StoreOf, Mem!ReadsOf, listed>>

(* A write to k keeps the order if it keeps that of k. *)
LEMMA WriteOrder ==
  ASSUME MemInv, NEW k \in MemKeys,
         \A l \in MemKeys, i \in MemIds : l # k => (Mem!Positions(l, i))' = Mem!Positions(l, i),
         \A i, j \in MemIds :
           Ahead(heap[storage[k].arr], storage[k].len, i, j) => ~(Mem!Before(k, j, i))'
  PROVE  OrderStep
  <1>1. \A l \in MemKeys, i \in MemIds : Mem!Positions(l, i) = At(heap[storage[l].arr], storage[l].len, i)
    BY Mapping DEF MemInv, MappingIs
  <1>2. \A l \in MemKeys, i, j \in MemIds :
          Mem!Before(l, i, j) <=> Ahead(heap[storage[l].arr], storage[l].len, i, j)
    BY <1>1 DEF Mem!Before, Ahead
  <1>3. ASSUME NEW l \in MemKeys, NEW i \in MemIds, NEW j \in MemIds, Mem!Before(l, i, j)
        PROVE  ~(Mem!Before(l, j, i))'
    <2>1. CASE l = k
      BY <1>2, <1>3, <2>1
    <2>2. CASE l # k
      <3>1. (Mem!Before(l, j, i))' <=> Mem!Before(l, j, i)
        BY <2>2 DEF Mem!Before
      <3>2. storage[l].len \in Nat /\ OncePerId(heap[storage[l].arr], storage[l].len)
        BY SliceType DEF MemInv, MemType, IdsApart
      <3> QED
        BY <1>2, <1>3, <3>1, <3>2, AheadOnce
    <2> QED
      BY <2>1, <2>2
  <1> QED
    BY <1>3 DEF OrderStep

(* A step that gives key k the slice s of array a, which nobody else has a *)
(* slice of, and writes to no other array: h are the arrays before the     *)
(* collection.                                                             *)
Writes(k, h, a, s) ==
  /\ h \in [Arrays -> Seq(MemMsgs)] /\ s \in MemSlices
  /\ storage' = [storage EXCEPT ![k] = s] /\ held' = held /\ Mem!Collect(h)
  /\ \A b \in Arrays : b # a => h[b] = heap[b]
  /\ \A l \in MemKeys : l # k /\ storage[l] # Mem!Nil => storage[l].arr # a
  /\ \A r \in Readers : held[r] # Mem!Nil => held[r].arr # a
  /\ s # Mem!Nil => s.arr = a /\ s.len > 0 /\ s.len <= Len(h[a]) /\ OncePerId(h[a], s.len)
  /\ \A i, j \in MemIds :
       Ahead(heap[storage[k].arr], storage[k].len, i, j) => ~Ahead(h[s.arr], s.len, j, i)

LEMMA KeyWrite ==
  ASSUME MemInv, NEW k \in MemKeys, NEW h, NEW a, NEW s, Writes(k, h, a, s)
  PROVE  /\ MemInv' /\ OrderStep
         /\ Mem!ReadsOf' = Mem!ReadsOf
         /\ Mem!StoreOf' = [Mem!StoreOf EXCEPT ![k] = [i \in MemIds |-> Find(h[s.arr], s.len, i)]]
  <1> USE DEF Writes
  <1>0. /\ MemType /\ ArraysApart /\ IdsApart
        /\ storage \in [MemKeys -> MemSlices] /\ held \in [Readers -> MemSlices]
        /\ storage' \in [MemKeys -> MemSlices] /\ held' \in [Readers -> MemSlices]
    BY DEF MemInv, MemType
  <1>1. /\ heap' \in [Arrays -> Seq(MemMsgs)]
        /\ \A l \in MemKeys : storage'[l] # Mem!Nil => heap'[storage'[l].arr] = h[storage'[l].arr]
        /\ \A r \in Readers : held'[r] # Mem!Nil => heap'[held'[r].arr] = h[held'[r].arr]
    BY <1>0, Collected
  <1>2. ASSUME NEW l \in MemKeys, l # k
        PROVE  /\ storage'[l] = storage[l]
               /\ storage[l] # Mem!Nil => heap'[storage[l].arr] = heap[storage[l].arr]
    <2>1. storage'[l] = storage[l]
      BY <1>0, <1>2
    <2>2. ASSUME storage[l] # Mem!Nil PROVE heap'[storage[l].arr] = heap[storage[l].arr]
      <3>1. storage[l].arr \in Arrays /\ storage[l].arr # a
        BY <1>0, <1>2, <2>2, SliceType
      <3> QED
        BY <1>1, <2>1, <2>2, <3>1
    <2> QED
      BY <2>1, <2>2
  <1>3. ASSUME NEW r \in Readers
        PROVE  held'[r] = held[r] /\ (held[r] # Mem!Nil => heap'[held[r].arr] = heap[held[r].arr])
    <2>1. ASSUME held[r] # Mem!Nil PROVE heap'[held[r].arr] = heap[held[r].arr]
      <3>1. held[r].arr \in Arrays /\ held[r].arr # a
        BY <1>0, <2>1, SliceType
      <3> QED
        BY <1>1, <2>1, <3>1
    <2> QED
      BY <2>1
  <1>4. storage'[k] = s /\ (s # Mem!Nil => heap'[a] = h[a] /\ a \in Arrays)
    BY <1>0, <1>1, SliceType
  <1>5. MemType'
    <2>1. ASSUME NEW l \in MemKeys PROVE InBounds(heap', storage'[l])
      <3>1. CASE l = k
        BY <1>4, <3>1 DEF InBounds
      <3>2. CASE l # k
        BY <1>0, <1>2, <3>2 DEF InBounds, MemType
      <3> QED
        BY <3>1, <3>2
    <2>2. ASSUME NEW r \in Readers PROVE InBounds(heap', held'[r])
      BY <1>0, <1>3 DEF InBounds, MemType
    <2> QED
      BY <1>0, <1>1, <2>1, <2>2 DEF MemType, InBounds
  <1>6. ArraysApart'
    <2> SUFFICES ASSUME NEW l \in MemKeys, storage'[l] # Mem!Nil
                 PROVE  /\ \A x \in MemKeys : x # l => storage'[x].arr # storage'[l].arr
                        /\ \A r \in Readers : held[r].arr # storage'[l].arr
      BY DEF ArraysApart
    <2>1. storage'[l].arr \in Arrays
      BY <1>0, SliceType
    <2>2. ASSUME NEW x \in MemKeys, x # l PROVE storage'[x].arr # storage'[l].arr
      <3>1. CASE x = k
        BY <1>2, <1>4, <2>1, <2>2, <3>1, SliceType
      <3>2. CASE l = k
        BY <1>0, <1>2, <1>4, <2>1, <2>2, <3>2, SliceType
      <3>3. CASE x # k /\ l # k
        BY <1>0, <1>2, <2>2, <3>3 DEF ArraysApart
      <3> QED
        BY <3>1, <3>2, <3>3
    <2>3. ASSUME NEW r \in Readers PROVE held[r].arr # storage'[l].arr
      <3>1. CASE l = k
        BY <1>0, <1>4, <2>1, <3>1, SliceType
      <3>2. CASE l # k
        BY <1>0, <1>2, <3>2 DEF ArraysApart
      <3> QED
        BY <3>1, <3>2
    <2> QED
      BY <2>2, <2>3
  <1>7. ASSUME NEW l \in MemKeys, l # k, NEW i \in MemIds
        PROVE  /\ At(heap'[storage'[l].arr], storage'[l].len, i) = At(heap[storage[l].arr], storage[l].len, i)
               /\ Find(heap'[storage'[l].arr], storage'[l].len, i)
                    = Find(heap[storage[l].arr], storage[l].len, i)
    <2>1. CASE storage[l] = Mem!Nil
      <3>1. storage'[l].len = 0 /\ storage[l].len = 0
        BY <1>0, <1>2, <1>7, <2>1, SliceType
      <3>2. /\ At(heap'[storage'[l].arr], storage'[l].len, i) = {}
            /\ At(heap[storage[l].arr], storage[l].len, i) = {}
        BY <3>1 DEF At
      <3> QED
        BY <3>2 DEF Find
    <2>2. CASE storage[l] # Mem!Nil
      BY <1>2, <1>7, <2>2
    <2> QED
      BY <2>1, <2>2
  <1>8. ASSUME NEW i \in MemIds
        PROVE  /\ At(heap'[storage'[k].arr], storage'[k].len, i) = At(h[s.arr], s.len, i)
               /\ Find(heap'[storage'[k].arr], storage'[k].len, i) = Find(h[s.arr], s.len, i)
    <2>1. CASE s = Mem!Nil
      <3>1. storage'[k].len = 0 /\ s.len = 0
        BY <1>4, <2>1, SliceType
      <3>2. At(heap'[storage'[k].arr], storage'[k].len, i) = {} /\ At(h[s.arr], s.len, i) = {}
        BY <3>1 DEF At
      <3> QED
        BY <3>2 DEF Find
    <2>2. CASE s # Mem!Nil
      BY <1>4, <2>2
    <2> QED
      BY <2>1, <2>2
  <1>9. IdsApart'
    <2> SUFFICES ASSUME NEW l \in MemKeys PROVE OncePerId(heap'[storage'[l].arr], storage'[l].len)
      BY DEF IdsApart
    <2>1. CASE storage'[l] = Mem!Nil
      <3>1. storage'[l].len = 0
        BY <1>0, <2>1, SliceType
      <3> QED
        BY <3>1 DEF OncePerId
    <2>2. CASE storage'[l] # Mem!Nil /\ l = k
      BY <1>4, <2>2
    <2>3. CASE storage'[l] # Mem!Nil /\ l # k
      BY <1>0, <1>2, <2>3 DEF IdsApart
    <2> QED
      BY <2>1, <2>2, <2>3
  <1>10. MappingIs /\ MappingIs'
    BY <1>0, <1>5, Mapping, MappingNext
  <1>11. Mem!ReadsOf' = Mem!ReadsOf
    <2>1. ASSUME NEW r \in Readers PROVE Shown(heap', held'[r]) = Shown(heap, held[r])
      <3>1. CASE held[r] = Mem!Nil
        <4>1. 1..held[r].len = {}
          BY <3>1, <1>0, SliceType
        <4> QED
          BY <1>3, <4>1 DEF Shown
      <3>2. CASE held[r] # Mem!Nil
        BY <1>3, <3>2 DEF Shown
      <3> QED
        BY <3>1, <3>2
    <2>2. /\ Mem!ReadsOf = [r \in Readers |-> Shown(heap, held[r])]
          /\ Mem!ReadsOf' = [r \in Readers |-> Shown(heap', held'[r])]
      BY <1>10 DEF MappingIs, Shown
    <2> QED
      BY <2>1, <2>2
  <1>12. Mem!StoreOf' = [Mem!StoreOf EXCEPT ![k] = [i \in MemIds |-> Find(h[s.arr], s.len, i)]]
    <2>1. /\ Mem!StoreOf = [l \in MemKeys |-> [i \in MemIds |-> Find(heap[storage[l].arr], storage[l].len, i)]]
          /\ Mem!StoreOf' = [l \in MemKeys |-> [i \in MemIds |-> Find(heap'[storage'[l].arr], storage'[l].len, i)]]
      BY <1>10 DEF MappingIs, Find, At
    <2>2. ASSUME NEW l \in MemKeys
          PROVE  Mem!StoreOf'[l] = [Mem!StoreOf EXCEPT ![k] = [i \in MemIds |-> Find(h[s.arr], s.len, i)]][l]
      <3>1. Mem!StoreOf'[l] = [i \in MemIds |-> Find(heap'[storage'[l].arr], storage'[l].len, i)]
        BY <2>1
      <3>2. CASE l = k
        BY <1>8, <2>1, <3>1, <3>2
      <3>3. CASE l # k
        BY <1>7, <2>1, <3>1, <3>3
      <3> QED
        BY <3>2, <3>3
    <2> QED
      BY <2>1, <2>2
  <1>13. /\ \A l \in MemKeys, i \in MemIds : Mem!Positions(l, i) = At(heap[storage[l].arr], storage[l].len, i)
         /\ \A l \in MemKeys, i \in MemIds : (Mem!Positions(l, i))' = At(heap'[storage'[l].arr], storage'[l].len, i)
    BY <1>10 DEF MappingIs, At
  <1>14. \A l \in MemKeys, i \in MemIds : l # k => (Mem!Positions(l, i))' = Mem!Positions(l, i)
    BY <1>7, <1>13
  <1>15. \A i \in MemIds : (Mem!Positions(k, i))' = At(h[s.arr], s.len, i)
    BY <1>8, <1>13
  <1>16. \A i, j \in MemIds : (Mem!Before(k, j, i))' <=> Ahead(h[s.arr], s.len, j, i)
    BY <1>15 DEF Mem!Before, Ahead
  <1>17. OrderStep
    BY <1>14, <1>16, WriteOrder
  <1> QED
    BY <1>5, <1>6, <1>9, <1>11, <1>12, <1>17 DEF MemInv

(* What is known of a queue before a step. *)
LEMMA QueueIs ==
  ASSUME MemInv, NEW k \in MemKeys
  PROVE  /\ storage[k] \in MemSlices /\ storage[k].len \in Nat
         /\ OncePerId(heap[storage[k].arr], storage[k].len)
         /\ \A i \in MemIds : Mem!Positions(k, i) = At(heap[storage[k].arr], storage[k].len, i)
         /\ Mem!StoreOf = [l \in MemKeys |-> [i \in MemIds |-> Find(heap[storage[l].arr], storage[l].len, i)]]
         /\ storage[k] = Mem!Nil => storage[k].len = 0
         /\ storage[k] # Mem!Nil =>
              /\ storage[k].arr \in Arrays /\ heap[storage[k].arr] \in Seq(MemMsgs)
              /\ storage[k].len > 0 /\ storage[k].len <= Len(heap[storage[k].arr])
              /\ \A l \in MemKeys : l # k => storage[l].arr # storage[k].arr
              /\ \A r \in Readers : held[r].arr # storage[k].arr
  <1>1. MemType /\ ArraysApart /\ IdsApart /\ MappingIs
    BY Mapping DEF MemInv
  <1>2. storage[k] \in MemSlices /\ InBounds(heap, storage[k])
    BY <1>1 DEF MemType
  <1>3. storage[k] # Mem!Nil => storage[k].arr \in Arrays
    BY <1>2, SliceType
  <1>4. storage[k].len \in Nat /\ (storage[k] = Mem!Nil => storage[k].len = 0)
    BY <1>2, SliceType
  <1>5. storage[k] # Mem!Nil => heap[storage[k].arr] \in Seq(MemMsgs)
    BY <1>1, <1>3 DEF MemType
  <1> QED
    BY <1>1, <1>2, <1>3, <1>4, <1>5 DEF InBounds, ArraysApart, IdsApart, MappingIs

(* A write after which key k has the message m under its id. *)
LEMMA MemAddRefines ==
  ASSUME MemInv, NEW k \in MemKeys, NEW m \in MemMsgs, NEW F,
         F = [i \in MemIds |-> IF i = MemId[m] THEN m
                               ELSE Find(heap[storage[k].arr], storage[k].len, i)],
         Mem!StoreOf' = [Mem!StoreOf EXCEPT ![k] = F],
         Mem!ReadsOf' = Mem!ReadsOf, listed' = listed
  PROVE  AtomicStep
  <1>1. Mem!StoreOf = [l \in MemKeys |-> [i \in MemIds |-> Find(heap[storage[l].arr], storage[l].len, i)]]
    BY QueueIs
  <1>2. Mem!StoreOf[k] = [i \in MemIds |-> Find(heap[storage[k].arr], storage[k].len, i)]
    BY <1>1
  <1>3. F = [Mem!StoreOf[k] EXCEPT ![MemId[m]] = m]
    BY <1>2
  <1>4. Mem!StoreOf' = [Mem!StoreOf EXCEPT ![k][MemId[m]] = m]
    BY <1>1, <1>3
  <1>5. Mem!Atomic!AddMessage(k, MemId[m], m)
    BY <1>4 DEF Mem!Atomic!AddMessage
  <1> QED
    BY <1>5 DEF AtomicStep, Mem!Atomic!Next, Mem!Atomic!Update

(* One lemma per operation. *)
LEMMA ReplaceStep ==
  ASSUME MemInv, NEW k \in MemKeys, NEW m \in MemMsgs, Mem!Positions(k, MemId[m]) # {},
         Mem!Replace(k, m), UNCHANGED <<held, listed>>
  PROVE  MemInv' /\ AtomicStep /\ OrderStep
  <1> DEFINE a == storage[k].arr
             n == storage[k].len
             q == heap[a]
             p == [j \in DOMAIN q |-> IF j \in At(q, n, MemId[m]) THEN m ELSE q[j]]
             h == [heap EXCEPT ![a] = p]
  <1>0. MemId[m] \in MemIds /\ heap \in [Arrays -> Seq(MemMsgs)]
        /\ storage \in [MemKeys -> MemSlices]
    BY DEF MemInv, MemType
  <1>1. /\ storage[k] \in MemSlices /\ n \in Nat /\ OncePerId(q, n)
        /\ Mem!Positions(k, MemId[m]) = At(q, n, MemId[m])
    BY <1>0, QueueIs
  <1>2. storage[k] # Mem!Nil
    <2>1. n # 0
      BY <1>1 DEF At
    <2> QED
      BY <2>1, QueueIs
  <1>3. /\ a \in Arrays /\ q \in Seq(MemMsgs) /\ n > 0 /\ n <= Len(q)
        /\ \A l \in MemKeys : l # k => storage[l].arr # a
        /\ \A r \in Readers : held[r].arr # a
    BY <1>2, QueueIs
  <1>4. p \in Seq(MemMsgs) /\ Len(p) = Len(q) /\ DOMAIN q = 1..Len(q)
    BY <1>3
  <1>5. h \in [Arrays -> Seq(MemMsgs)] /\ h[a] = p /\ \A b \in Arrays : b # a => h[b] = heap[b]
    BY <1>0, <1>3, <1>4
  <1>6. Mem!Collect(h) /\ storage' = storage
    BY <1>1 DEF Mem!Replace
  <1>7. \A j \in 1..n : p[j] = IF j \in At(q, n, MemId[m]) THEN m ELSE q[j]
    BY <1>1, <1>3, <1>4
  <1>8. /\ OncePerId(p, n)
        /\ \A i \in MemIds : Find(p, n, i) = IF i = MemId[m] THEN m ELSE Find(q, n, i)
        /\ \A i, j \in MemIds : Ahead(q, n, i, j) => ~Ahead(p, n, j, i)
    <2> HIDE DEF p, q, n
    <2> QED
      BY <1>1, <1>7, ReplaceFinds
  <1>9. storage' = [storage EXCEPT ![k] = storage[k]]
    BY <1>0, <1>6
  <1> HIDE DEF p, h
  <1>10. /\ MemInv' /\ OrderStep /\ Mem!ReadsOf' = Mem!ReadsOf
         /\ Mem!StoreOf' = [Mem!StoreOf EXCEPT ![k] = [i \in MemIds |-> Find(h[a], n, i)]]
    <2>1. n > 0 /\ n <= Len(h[a]) /\ OncePerId(h[a], n) /\ held' = held
      BY <1>3, <1>4, <1>5, <1>8
    <2>2. \A i, j \in MemIds : Ahead(q, n, i, j) => ~Ahead(h[a], n, j, i)
      BY <1>5, <1>8
    <2>3. /\ \A l \in MemKeys : l # k /\ storage[l] # Mem!Nil => storage[l].arr # a
          /\ \A r \in Readers : held[r] # Mem!Nil => held[r].arr # a
      BY <1>3
    <2>4. Writes(k, h, a, storage[k])
      BY <1>1, <1>5, <1>6, <1>9, <2>1, <2>2, <2>3 DEF Writes
    <2> QED
      BY <2>4, KeyWrite
  <1>11. [i \in MemIds |-> Find(h[a], n, i)]
         = [i \in MemIds |-> IF i = MemId[m] THEN m ELSE Find(q, n, i)]
    BY <1>5, <1>8
  <1>12. AtomicStep
    BY <1>10, <1>11, MemAddRefines
  <1> QED
    BY <1>10, <1>12

(* Either way of appending: in array a, which k has or nobody. *)
Appends(k, m, h, a) ==
  /\ h \in [Arrays -> Seq(MemMsgs)] /\ a \in Arrays
  /\ Mem!Collect(h) /\ UNCHANGED <<held, listed>>
  /\ storage' = [storage EXCEPT ![k] = [arr |-> a, len |-> storage[k].len + 1]]
  /\ \A b \in Arrays : b # a => h[b] = heap[b]
  /\ \A l \in MemKeys : l # k => storage[l].arr # a
  /\ \A r \in Readers : held[r].arr # a
  /\ storage[k].len + 1 <= Len(h[a])
  /\ \A j \in 1..storage[k].len : h[a][j] = heap[storage[k].arr][j]
  /\ h[a][storage[k].len + 1] = m

LEMMA AppendStep ==
  ASSUME MemInv, NEW k \in MemKeys, NEW m \in MemMsgs, Mem!Positions(k, MemId[m]) = {},
         NEW h, NEW a, Appends(k, m, h, a)
  PROVE  MemInv' /\ AtomicStep /\ OrderStep
  <1> DEFINE n == storage[k].len
             q == heap[storage[k].arr]
             s == [arr |-> a, len |-> n + 1]
  <1> USE DEF Appends
  <1>0. MemId[m] \in MemIds
    OBVIOUS
  <1>1. n \in Nat /\ OncePerId(q, n) /\ At(q, n, MemId[m]) = {}
    BY <1>0, QueueIs
  <1>2. s \in MemSlices /\ s.arr = a /\ s.len = n + 1 /\ s.len > 0 /\ s.len <= Len(h[a])
    BY <1>1 DEF MemSlices
  <1>3. /\ OncePerId(h[a], n + 1)
        /\ \A i \in MemIds : Find(h[a], n + 1, i) = IF i = MemId[m] THEN m ELSE Find(q, n, i)
        /\ \A i, j \in MemIds : Ahead(q, n, i, j) => ~Ahead(h[a], n + 1, j, i)
    <2>1. \A j \in 1..n : h[a][j] = q[j]
      OBVIOUS
    <2>2. h[a][n + 1] = m
      OBVIOUS
    <2> HIDE DEF q, n
    <2> QED
      BY <1>1, <2>1, <2>2, AppendFinds
  <1> HIDE DEF s
  <1>4. /\ MemInv' /\ OrderStep /\ Mem!ReadsOf' = Mem!ReadsOf
        /\ Mem!StoreOf' = [Mem!StoreOf EXCEPT ![k] = [i \in MemIds |-> Find(h[s.arr], s.len, i)]]
    <2>1. storage' = [storage EXCEPT ![k] = s] /\ held' = held
      BY DEF s
    <2>2. s # Mem!Nil => s.arr = a /\ s.len > 0 /\ s.len <= Len(h[a]) /\ OncePerId(h[a], s.len)
      BY <1>2, <1>3
    <2>3. \A i, j \in MemIds : Ahead(q, n, i, j) => ~Ahead(h[s.arr], s.len, j, i)
      BY <1>2, <1>3
    <2>4. /\ \A l \in MemKeys : l # k /\ storage[l] # Mem!Nil => storage[l].arr # a
          /\ \A r \in Readers : held[r] # Mem!Nil => held[r].arr # a
      OBVIOUS
    <2>5. Writes(k, h, a, s)
      BY <1>2, <2>1, <2>2, <2>3, <2>4 DEF Writes
    <2> QED
      BY <2>5, KeyWrite
  <1>5. [i \in MemIds |-> Find(h[s.arr], s.len, i)]
        = [i \in MemIds |-> IF i = MemId[m] THEN m ELSE Find(q, n, i)]
    BY <1>2, <1>3
  <1>6. AtomicStep
    BY <1>4, <1>5, MemAddRefines
  <1> QED
    BY <1>4, <1>6

LEMMA AddStep ==
  ASSUME MemInv, NEW k \in MemKeys, NEW m \in MemMsgs, Mem!AddMessage(k, m)
  PROVE  MemInv' /\ AtomicStep /\ OrderStep
  <1> DEFINE n == storage[k].len
             q == heap[storage[k].arr]
  <1>0. /\ UNCHANGED <<held, listed>> /\ heap \in [Arrays -> Seq(MemMsgs)]
        /\ storage \in [MemKeys -> MemSlices] /\ held \in [Readers -> MemSlices] /\ n \in Nat
    BY QueueIs DEF MemInv, MemType, Mem!AddMessage
  <1>1. CASE Mem!Positions(k, MemId[m]) # {}
    BY <1>0, <1>1, ReplaceStep DEF Mem!AddMessage
  <1>2. CASE Mem!Positions(k, MemId[m]) = {} /\ Mem!AppendInPlace(k, m)
    <2> DEFINE a == storage[k].arr
               h == [heap EXCEPT ![a] = [heap[a] EXCEPT ![n + 1] = m]]
    <2>1. storage[k] # Mem!Nil /\ n < Len(q)
      BY <1>2 DEF Mem!AppendInPlace
    <2>2. /\ a \in Arrays /\ q \in Seq(MemMsgs)
          /\ \A l \in MemKeys : l # k => storage[l].arr # a
          /\ \A r \in Readers : held[r].arr # a
      BY <2>1, QueueIs
    <2>3. n + 1 \in 1..Len(q)
      BY <1>0, <2>1, <2>2
    <2>4. [q EXCEPT ![n + 1] = m] \in Seq(MemMsgs) /\ Len([q EXCEPT ![n + 1] = m]) = Len(q)
      BY <2>2, <2>3
    <2>5. /\ h \in [Arrays -> Seq(MemMsgs)] /\ h[a] = [q EXCEPT ![n + 1] = m]
          /\ \A b \in Arrays : b # a => h[b] = heap[b]
      BY <1>0, <2>2, <2>4
    <2>6. h[a][n + 1] = m /\ \A j \in 1..n : h[a][j] = q[j]
      BY <1>0, <2>2, <2>3, <2>5
    <2>7. storage' = [storage EXCEPT ![k] = [arr |-> a, len |-> n + 1]]
      <3>1. storage[k] \in [arr : Arrays, len : Nat]
        BY <1>0, <2>1, SliceType
      <3>2. [storage[k] EXCEPT !.len = n + 1] = [arr |-> a, len |-> n + 1]
        BY <3>1
      <3>3. storage' = [storage EXCEPT ![k] = [storage[k] EXCEPT !.len = n + 1]]
        BY <1>2 DEF Mem!AppendInPlace
      <3> QED
        BY <3>2, <3>3
    <2>8. Mem!Collect(h)
      BY <1>2 DEF Mem!AppendInPlace
    <2>9. n + 1 <= Len(h[a])
      BY <1>0, <2>3, <2>4, <2>5
    <2> HIDE DEF h
    <2>10. Appends(k, m, h, a)
      BY <1>0, <2>2, <2>5, <2>6, <2>7, <2>8, <2>9 DEF Appends
    <2> QED
      BY <1>2, <2>10, AppendStep
  <1>3. CASE Mem!Positions(k, MemId[m]) = {} /\ Mem!AppendGrow(k, m)
    <2>1. PICK a \in Mem!Free, cap \in n + 1 .. MaxCap :
            /\ storage' = [storage EXCEPT ![k] = [arr |-> a, len |-> n + 1]]
            /\ Mem!Collect([heap EXCEPT ![a] = [j \in 1..cap |-> IF j <= n THEN Mem!Queue(k)[j] ELSE m]])
      BY <1>3 DEF Mem!AppendGrow
    <2> DEFINE p == [j \in 1..cap |-> IF j <= n THEN Mem!Queue(k)[j] ELSE m]
               h == [heap EXCEPT ![a] = p]
    <2>2. /\ a \in Arrays
          /\ \A l \in MemKeys : storage[l].arr # a
          /\ \A r \in Readers : held[r].arr # a
      BY <2>1 DEF Mem!Free
    <2>3. ASSUME NEW j \in 1..n PROVE Mem!Queue(k)[j] = q[j] /\ q[j] \in MemMsgs
      <3>1. Mem!Queue(k)[j] = q[j]
        BY ElementsAre DEF MemInv, MemType, Mem!Queue
      <3>2. storage[k] # Mem!Nil
        BY QueueIs
      <3>3. q \in Seq(MemMsgs) /\ n <= Len(q)
        BY <3>2, QueueIs
      <3> QED
        BY <1>0, <3>1, <3>3
    <2>4. cap \in Nat /\ n + 1 <= cap
      BY <1>0, <2>1
    <2>5. \A j \in 1..cap : p[j] \in MemMsgs
      BY <1>0, <2>3, <2>4
    <2>6. p \in Seq(MemMsgs) /\ Len(p) = cap
      BY <2>4, <2>5
    <2>7. p[n + 1] = m /\ \A j \in 1..n : p[j] = q[j]
      BY <1>0, <2>3, <2>4
    <2> HIDE DEF p
    <2>8. h \in [Arrays -> Seq(MemMsgs)] /\ h[a] = p /\ \A b \in Arrays : b # a => h[b] = heap[b]
      BY <1>0, <2>2, <2>6
    <2>9. Mem!Collect(h)
      BY <2>1 DEF p
    <2> HIDE DEF h
    <2>10. Appends(k, m, h, a)
      BY <1>0, <2>1, <2>2, <2>4, <2>6, <2>7, <2>8, <2>9 DEF Appends
    <2> QED
      BY <1>3, <2>10, AppendStep
  <1> QED
    BY <1>1, <1>2, <1>3 DEF Mem!AddMessage

LEMMA DeleteStep ==
  ASSUME MemInv, NEW k \in MemKeys, NEW i0 \in MemIds, Mem!DeleteMessage(k, i0)
  PROVE  MemInv' /\ AtomicStep /\ OrderStep
  <1> DEFINE a == storage[k].arr
             n == storage[k].len
             q == heap[a]
             s == Mem!Shortened(storage[k])
  <1>0. /\ heap \in [Arrays -> Seq(MemMsgs)] /\ storage \in [MemKeys -> MemSlices]
        /\ held' = held /\ listed' = listed
    BY DEF MemInv, MemType, Mem!DeleteMessage
  <1>1. PICK g \in Mem!Positions(k, i0) :
          /\ storage' = [storage EXCEPT ![k] = s]
          /\ Mem!Collect([heap EXCEPT ![a] = Mem!CloseGap(storage[k], g)])
    BY DEF Mem!DeleteMessage
  <1>2. n \in Nat /\ OncePerId(q, n) /\ g \in At(q, n, i0) /\ g \in 1..n /\ storage[k] \in MemSlices
    BY <1>1, QueueIs DEF At
  <1>3. storage[k] # Mem!Nil
    BY <1>2, QueueIs
  <1>4. /\ a \in Arrays /\ q \in Seq(MemMsgs) /\ n > 0 /\ n <= Len(q)
        /\ \A l \in MemKeys : l # k => storage[l].arr # a
        /\ \A r \in Readers : held[r].arr # a
    BY <1>3, QueueIs
  <1> DEFINE p == Mem!CloseGap(storage[k], g)
             h == [heap EXCEPT ![a] = p]
  <1>5. p = [j \in 1..Len(q) |-> IF j \in g .. n - 1 THEN q[j + 1] ELSE q[j]]
    BY <1>4 DEF Mem!CloseGap
  <1>6. \A j \in 1..Len(q) : j \in g .. n - 1 => j + 1 \in 1..Len(q)
    BY <1>2, <1>4
  <1>7. p \in Seq(MemMsgs) /\ Len(p) = Len(q)
    BY <1>4, <1>5, <1>6
  <1>8. \A j \in 1 .. n - 1 : p[j] = IF j >= g THEN q[j + 1] ELSE q[j]
    BY <1>2, <1>4, <1>5
  <1>9. /\ OncePerId(p, n - 1)
        /\ \A i \in MemIds : Find(p, n - 1, i) = IF i = i0 THEN Null ELSE Find(q, n, i)
        /\ \A i, j \in MemIds : Ahead(q, n, i, j) => ~Ahead(p, n - 1, j, i)
    <2> HIDE DEF p, q, n
    <2> QED
      BY <1>2, <1>4, <1>8, CloseGapFinds
  <1> HIDE DEF p
  <1>10. h \in [Arrays -> Seq(MemMsgs)] /\ h[a] = p /\ \A b \in Arrays : b # a => h[b] = heap[b]
    BY <1>0, <1>4, <1>7
  <1>11. /\ s \in MemSlices /\ s.len = n - 1
         /\ s # Mem!Nil => s.arr = a /\ s.len > 0
    <2>1. storage[k] \in [arr : Arrays, len : Nat]
      BY <1>2, <1>3, SliceType
    <2>2. CASE n = 1
      BY <2>2 DEF Mem!Shortened, Mem!Nil, MemSlices
    <2>3. CASE n # 1
      <3>1. s = [arr |-> a, len |-> n - 1]
        BY <2>1, <2>3 DEF Mem!Shortened
      <3>2. n - 1 \in Nat /\ n - 1 > 0
        BY <1>2, <1>4, <2>3
      <3> QED
        BY <1>4, <3>1, <3>2 DEF MemSlices
    <2> QED
      BY <2>2, <2>3
  <1> HIDE DEF s
  <1>12. \A i \in MemIds : /\ Find(h[s.arr], s.len, i) = Find(p, n - 1, i)
                           /\ At(h[s.arr], s.len, i) = At(p, n - 1, i)
    <2>1. CASE s # Mem!Nil
      BY <1>10, <1>11, <2>1
    <2>2. CASE s = Mem!Nil
      <3>1. s.len = 0 /\ n - 1 = 0
        BY <1>11, <2>2 DEF Mem!Nil
      <3>2. \A i \in MemIds : At(h[s.arr], s.len, i) = {} /\ At(p, n - 1, i) = {}
        BY <3>1 DEF At
      <3> QED
        BY <3>2 DEF Find
    <2> QED
      BY <2>1, <2>2
  <1> HIDE DEF h
  <1>13. Writes(k, h, a, s)
    <2>1. Mem!Collect(h)
      BY <1>1 DEF h, p
    <2>2. s # Mem!Nil => s.arr = a /\ s.len > 0 /\ s.len <= Len(h[a]) /\ OncePerId(h[a], s.len)
      BY <1>2, <1>4, <1>7, <1>9, <1>10, <1>11
    <2>3. \A i, j \in MemIds : Ahead(q, n, i, j) => ~Ahead(h[s.arr], s.len, j, i)
      BY <1>9, <1>12 DEF Ahead
    <2>4. /\ \A l \in MemKeys : l # k /\ storage[l] # Mem!Nil => storage[l].arr # a
          /\ \A r \in Readers : held[r] # Mem!Nil => held[r].arr # a
      BY <1>4
    <2> QED
      BY <1>0, <1>1, <1>10, <1>11, <2>1, <2>2, <2>3, <2>4 DEF Writes
  <1>14. /\ MemInv' /\ OrderStep /\ Mem!ReadsOf' = Mem!ReadsOf
         /\ Mem!StoreOf' = [Mem!StoreOf EXCEPT ![k] = [i \in MemIds |-> Find(h[s.arr], s.len, i)]]
    BY <1>13, KeyWrite
  <1>15. Mem!StoreOf = [l \in MemKeys |-> [i \in MemIds |-> Find(heap[storage[l].arr], storage[l].len, i)]]
    BY QueueIs
  <1>16. [i \in MemIds |-> Find(h[s.arr], s.len, i)] = [Mem!StoreOf[k] EXCEPT ![i0] = Null]
    <2>1. Mem!StoreOf[k] = [i \in MemIds |-> Find(q, n, i)]
      BY <1>15
    <2> QED
      BY <1>9, <1>12, <2>1
  <1>17. Mem!Atomic!DeleteMessage(k, i0)
    BY <1>14, <1>15, <1>16 DEF Mem!Atomic!DeleteMessage
  <1>18. AtomicStep
    BY <1>0, <1>14, <1>17 DEF AtomicStep, Mem!Atomic!Next, Mem!Atomic!Update
  <1> QED
    BY <1>14, <1>18

LEMMA DeleteQueueStep ==
  ASSUME MemInv, NEW k \in MemKeys, Mem!DeleteQueue(k)
  PROVE  MemInv' /\ AtomicStep /\ OrderStep
  <1> DEFINE s == Mem!Nil
  <1>0. /\ heap \in [Arrays -> Seq(MemMsgs)] /\ storage \in [MemKeys -> MemSlices]
        /\ held \in [Readers -> MemSlices] /\ held' = held /\ listed' = listed
        /\ storage' = [storage EXCEPT ![k] = s] /\ Mem!Collect(heap)
    BY DEF MemInv, MemType, Mem!DeleteQueue
  <1>1. s \in MemSlices /\ s.len = 0
    BY DEF MemSlices, Mem!Nil
  <1>2. \A i \in MemIds : At(heap[s.arr], s.len, i) = {}
    BY <1>1 DEF At
  <1>3. \A l \in MemKeys : storage[l] # Mem!Nil => storage[l].arr # Null
    BY <1>0, SliceType
  <1>4. \A r \in Readers : held[r] # Mem!Nil => held[r].arr # Null
    BY <1>0, SliceType
  <1>5. Writes(k, heap, Null, s)
    BY <1>0, <1>1, <1>2, <1>3, <1>4 DEF Writes, Ahead
  <1>6. /\ MemInv' /\ OrderStep /\ Mem!ReadsOf' = Mem!ReadsOf
        /\ Mem!StoreOf' = [Mem!StoreOf EXCEPT ![k] = [i \in MemIds |-> Find(heap[s.arr], s.len, i)]]
    BY <1>5, KeyWrite
  <1>7. [i \in MemIds |-> Find(heap[s.arr], s.len, i)] = Mem!Atomic!EmptyQueue
    BY <1>2 DEF Find, Mem!Atomic!EmptyQueue
  <1>8. Mem!Atomic!DeleteQueue(k)
    BY <1>6, <1>7 DEF Mem!Atomic!DeleteQueue
  <1>9. AtomicStep
    BY <1>0, <1>6, <1>8 DEF AtomicStep, Mem!Atomic!Next, Mem!Atomic!Update
  <1> QED
    BY <1>6, <1>9

(* The atomic storage's queue of a key are the elements of its slice. *)
LEMMA QueueShown ==
  ASSUME MemInv, NEW k \in MemKeys
  PROVE  /\ Mem!Atomic!GetQueue(k) = Shown(heap, storage[k])
         /\ Mem!Atomic!GetQueue(k) = {} <=> storage[k] = Mem!Nil
  <1> DEFINE n == storage[k].len
             q == heap[storage[k].arr]
  <1>1. n \in Nat /\ OncePerId(q, n) /\ (storage[k] = Mem!Nil => n = 0)
        /\ (storage[k] # Mem!Nil => q \in Seq(MemMsgs) /\ n > 0 /\ n <= Len(q))
    BY QueueIs
  <1>2. \A j \in 1..n : q[j] \in MemMsgs
    BY <1>1
  <1>3. Mem!StoreOf = [l \in MemKeys |-> [i \in MemIds |-> Find(heap[storage[l].arr], storage[l].len, i)]]
    BY QueueIs
  <1>4. \A i \in MemIds : Mem!StoreOf[k][i] = Find(q, n, i)
    BY <1>3
  <1>5. Mem!Atomic!GetQueue(k) = {Find(q, n, i) : i \in MemIds} \ {Null}
    BY <1>4 DEF Mem!Atomic!GetQueue
  <1>6. {Find(q, n, i) : i \in MemIds} \ {Null} = {q[j] : j \in 1..n}
    <2> HIDE DEF q, n
    <2> QED
      BY <1>1, <1>2, FoundAll
  <1>7. {q[j] : j \in 1..n} = {} <=> storage[k] = Mem!Nil
    <2>1. CASE storage[k] = Mem!Nil
      BY <1>1, <2>1
    <2>2. CASE storage[k] # Mem!Nil
      <3>1. 1 \in 1..n
        BY <1>1, <2>2
      <3> QED
        BY <2>2, <3>1
    <2> QED
      BY <2>1, <2>2
  <1> QED
    BY <1>5, <1>6, <1>7 DEF Shown

(* A step that gives reader r the slice t of an array that was free. *)
Fetches(r, h, t) ==
  /\ h \in [Arrays -> Seq(MemMsgs)] /\ t \in MemSlices
  /\ storage' = storage /\ held' = [held EXCEPT ![r] = t] /\ Mem!Collect(h)
  /\ \A b \in Arrays : b \notin Mem!Free => h[b] = heap[b]
  /\ t # Mem!Nil => t.arr \in Mem!Free /\ t.len > 0 /\ t.len <= Len(h[t.arr])

LEMMA ReaderFetch ==
  ASSUME MemInv, NEW r \in Readers, NEW h, NEW t, Fetches(r, h, t)
  PROVE  /\ MemInv' /\ OrderStep /\ Mem!StoreOf' = Mem!StoreOf
         /\ Mem!ReadsOf' = [Mem!ReadsOf EXCEPT ![r] = Shown(h, t)]
  <1> USE DEF Fetches
  <1>0. /\ MemType /\ ArraysApart /\ IdsApart
        /\ storage \in [MemKeys -> MemSlices] /\ held \in [Readers -> MemSlices]
        /\ storage' \in [MemKeys -> MemSlices] /\ held' \in [Readers -> MemSlices]
    BY DEF MemInv, MemType
  <1>1. /\ heap' \in [Arrays -> Seq(MemMsgs)]
        /\ \A l \in MemKeys : storage'[l] # Mem!Nil => heap'[storage'[l].arr] = h[storage'[l].arr]
        /\ \A x \in Readers : held'[x] # Mem!Nil => heap'[held'[x].arr] = h[held'[x].arr]
    BY <1>0, Collected
  <1>2. ASSUME NEW l \in MemKeys, storage[l] # Mem!Nil
        PROVE  /\ heap'[storage[l].arr] = heap[storage[l].arr]
               /\ storage[l].arr \in Arrays \ Mem!Free
    <2>1. storage[l].arr \in Arrays \ Mem!Free
      BY <1>0, <1>2, SliceType DEF Mem!Free
    <2> QED
      BY <1>1, <1>2, <2>1
  <1>3. ASSUME NEW x \in Readers, x # r
        PROVE  held'[x] = held[x] /\ (held[x] # Mem!Nil => heap'[held[x].arr] = heap[held[x].arr])
    <2>1. held'[x] = held[x]
      BY <1>0, <1>3
    <2>2. ASSUME held[x] # Mem!Nil PROVE heap'[held[x].arr] = heap[held[x].arr]
      <3>1. held[x].arr \in Arrays \ Mem!Free
        BY <1>0, <2>2, SliceType DEF Mem!Free
      <3> QED
        BY <1>1, <2>1, <2>2, <3>1
    <2> QED
      BY <2>1, <2>2
  <1>4. held'[r] = t /\ (t # Mem!Nil => heap'[t.arr] = h[t.arr])
    BY <1>0, <1>1
  <1>5. MemType'
    <2>1. ASSUME NEW l \in MemKeys PROVE InBounds(heap', storage'[l])
      BY <1>0, <1>2 DEF InBounds, MemType
    <2>2. ASSUME NEW x \in Readers PROVE InBounds(heap', held'[x])
      <3>1. CASE x = r
        BY <1>4, <3>1 DEF InBounds
      <3>2. CASE x # r
        BY <1>0, <1>3, <3>2 DEF InBounds, MemType
      <3> QED
        BY <3>1, <3>2
    <2> QED
      BY <1>0, <1>1, <2>1, <2>2 DEF MemType, InBounds
  <1>6. ArraysApart'
    <2> SUFFICES ASSUME NEW l \in MemKeys, storage[l] # Mem!Nil, NEW x \in Readers
                 PROVE  held'[x].arr # storage[l].arr
      BY <1>0 DEF ArraysApart
    <2>1. CASE x # r
      BY <1>0, <1>3, <2>1 DEF ArraysApart
    <2>2. CASE x = r
      BY <1>2, <1>4, <2>2, SliceType
    <2> QED
      BY <2>1, <2>2
  <1>7. ASSUME NEW l \in MemKeys, NEW i \in MemIds
        PROVE  /\ At(heap'[storage'[l].arr], storage'[l].len, i) = At(heap[storage[l].arr], storage[l].len, i)
               /\ Find(heap'[storage'[l].arr], storage'[l].len, i)
                    = Find(heap[storage[l].arr], storage[l].len, i)
    <2>1. CASE storage[l] = Mem!Nil
      <3>1. storage'[l].len = 0 /\ storage[l].len = 0
        BY <1>0, <2>1, SliceType
      <3>2. /\ At(heap'[storage'[l].arr], storage'[l].len, i) = {}
            /\ At(heap[storage[l].arr], storage[l].len, i) = {}
        BY <3>1 DEF At
      <3> QED
        BY <3>2 DEF Find
    <2>2. CASE storage[l] # Mem!Nil
      BY <1>2, <2>2
    <2> QED
      BY <2>1, <2>2
  <1>8. IdsApart'
    <2> SUFFICES ASSUME NEW l \in MemKeys PROVE OncePerId(heap'[storage'[l].arr], storage'[l].len)
      BY DEF IdsApart
    <2>1. CASE storage[l] = Mem!Nil
      <3>1. storage'[l].len = 0
        BY <1>0, <2>1, SliceType
      <3> QED
        BY <3>1 DEF OncePerId
    <2>2. CASE storage[l] # Mem!Nil
      BY <1>0, <1>2, <2>2 DEF IdsApart
    <2> QED
      BY <2>1, <2>2
  <1>9. MappingIs /\ MappingIs'
    BY <1>0, <1>5, Mapping, MappingNext
  <1>10. Mem!StoreOf' = Mem!StoreOf
    <2>1. /\ Mem!StoreOf = [l \in MemKeys |-> [i \in MemIds |-> Find(heap[storage[l].arr], storage[l].len, i)]]
          /\ Mem!StoreOf' = [l \in MemKeys |-> [i \in MemIds |-> Find(heap'[storage'[l].arr], storage'[l].len, i)]]
      BY <1>9 DEF MappingIs, Find, At
    <2> QED
      BY <1>7, <2>1
  <1>11. Mem!ReadsOf' = [Mem!ReadsOf EXCEPT ![r] = Shown(h, t)]
    <2>1. /\ Mem!ReadsOf = [x \in Readers |-> Shown(heap, held[x])]
          /\ Mem!ReadsOf' = [x \in Readers |-> Shown(heap', held'[x])]
      BY <1>9 DEF MappingIs, Shown
    <2>2. ASSUME NEW x \in Readers, x # r PROVE Shown(heap', held'[x]) = Shown(heap, held[x])
      <3>1. CASE held[x] = Mem!Nil
        <4>1. 1..held[x].len = {}
          BY <1>0, <3>1, SliceType
        <4> QED
          BY <1>3, <2>2, <4>1 DEF Shown
      <3>2. CASE held[x] # Mem!Nil
        BY <1>3, <2>2, <3>2 DEF Shown
      <3> QED
        BY <3>1, <3>2
    <2>3. Shown(heap', held'[r]) = Shown(h, t)
      <3>1. CASE t = Mem!Nil
        <4>1. 1..t.len = {}
          BY <3>1, SliceType
        <4> QED
          BY <1>4, <4>1 DEF Shown
      <3>2. CASE t # Mem!Nil
        BY <1>4, <3>2 DEF Shown
      <3> QED
        BY <3>1, <3>2
    <2> QED
      BY <2>1, <2>2, <2>3
  <1>12. OrderStep
    <2>1. /\ \A l \in MemKeys, i \in MemIds : Mem!Positions(l, i) = At(heap[storage[l].arr], storage[l].len, i)
          /\ \A l \in MemKeys, i \in MemIds :
               (Mem!Positions(l, i))' = At(heap'[storage'[l].arr], storage'[l].len, i)
      BY <1>9 DEF MappingIs, At
    <2>2. ASSUME NEW l \in MemKeys, NEW i \in MemIds, NEW j \in MemIds, Mem!Before(l, i, j)
          PROVE  ~(Mem!Before(l, j, i))'
      <3>1. (Mem!Before(l, j, i))' <=> Ahead(heap[storage[l].arr], storage[l].len, j, i)
        BY <1>7, <2>1 DEF Mem!Before, Ahead
      <3>2. Ahead(heap[storage[l].arr], storage[l].len, i, j)
        BY <2>1, <2>2 DEF Mem!Before, Ahead
      <3>3. storage[l].len \in Nat /\ OncePerId(heap[storage[l].arr], storage[l].len)
        BY QueueIs
      <3> QED
        BY <3>1, <3>2, <3>3, AheadOnce
    <2> QED
      BY <2>2 DEF OrderStep
  <1> QED
    BY <1>5, <1>6, <1>8, <1>10, <1>11, <1>12 DEF MemInv

LEMMA GetQueueStep ==
  ASSUME MemInv, NEW r \in Readers, NEW k \in MemKeys, Mem!GetQueue(r, k)
  PROVE  MemInv' /\ AtomicStep /\ OrderStep
  <1> DEFINE n == storage[k].len
             q == heap[storage[k].arr]
  <1>0. /\ heap \in [Arrays -> Seq(MemMsgs)] /\ storage' = storage /\ listed' = listed
        /\ Mem!Free \subseteq Arrays
    BY DEF MemInv, MemType, Mem!GetQueue, Mem!Free
  <1>1. \E h, t : Fetches(r, h, t) /\ Shown(h, t) = Shown(heap, storage[k])
    <2>1. CASE n = 0
      <3>1. Mem!Nil \in MemSlices /\ Mem!Nil.len = 0
        BY DEF MemSlices, Mem!Nil
      <3>2. Fetches(r, heap, Mem!Nil)
        BY <1>0, <2>1, <3>1 DEF Fetches, Mem!GetQueue
      <3>3. Shown(heap, Mem!Nil) = Shown(heap, storage[k])
        BY <2>1, <3>1 DEF Shown
      <3> QED
        BY <3>2, <3>3
    <2>2. CASE n # 0
      <3>1. PICK a \in Mem!Free :
              /\ held' = [held EXCEPT ![r] = [arr |-> a, len |-> n]]
              /\ Mem!Collect([heap EXCEPT ![a] = Mem!Queue(k)])
        BY <2>2 DEF Mem!GetQueue
      <3>2. /\ n \in Nat /\ storage[k] # Mem!Nil /\ q \in Seq(MemMsgs) /\ n > 0 /\ n <= Len(q)
        BY <2>2, QueueIs
      <3>3. Mem!Queue(k) = SubSeq(q, 1, n)
        BY <3>2 DEF Mem!Queue, Mem!Elements
      <3>4. /\ Mem!Queue(k) \in Seq(MemMsgs) /\ Len(Mem!Queue(k)) = n
            /\ \A j \in 1..n : Mem!Queue(k)[j] = q[j]
        BY <3>2, <3>3
      <3> DEFINE h == [heap EXCEPT ![a] = Mem!Queue(k)]
                 t == [arr |-> a, len |-> n]
      <3>5. h \in [Arrays -> Seq(MemMsgs)] /\ h[a] = Mem!Queue(k) /\ \A b \in Arrays : b # a => h[b] = heap[b]
        BY <1>0, <3>1, <3>4
      <3>6. t \in MemSlices /\ t.arr = a /\ t.len = n
        BY <1>0, <3>1, <3>2 DEF MemSlices
      <3> HIDE DEF h, t
      <3>7. Fetches(r, h, t)
        <4>1. Mem!Collect(h) /\ held' = [held EXCEPT ![r] = t]
          BY <3>1 DEF h, t
        <4>2. \A b \in Arrays : b \notin Mem!Free => h[b] = heap[b]
          BY <3>1, <3>5
        <4>3. t.arr \in Mem!Free /\ t.len > 0 /\ t.len <= Len(h[t.arr])
          BY <3>1, <3>2, <3>4, <3>5, <3>6
        <4> QED
          BY <1>0, <3>5, <3>6, <4>1, <4>2, <4>3 DEF Fetches
      <3>8. Shown(h, t) = Shown(heap, storage[k])
        <4>1. Shown(h, t) = {Mem!Queue(k)[j] : j \in 1..n}
          BY <3>5, <3>6 DEF Shown
        <4>2. {Mem!Queue(k)[j] : j \in 1..n} = {q[j] : j \in 1..n}
          BY <3>4
        <4> QED
          BY <4>1, <4>2 DEF Shown
      <3> QED
        BY <3>7, <3>8
    <2> QED
      BY <2>1, <2>2
  <1>2. PICK h, t : Fetches(r, h, t) /\ Shown(h, t) = Shown(heap, storage[k])
    BY <1>1
  <1>3. /\ MemInv' /\ OrderStep /\ Mem!StoreOf' = Mem!StoreOf
        /\ Mem!ReadsOf' = [Mem!ReadsOf EXCEPT ![r] = Shown(heap, storage[k])]
    BY <1>2, ReaderFetch
  <1>4. Mem!ReadsOf' = [Mem!ReadsOf EXCEPT ![r] = Mem!Atomic!GetQueue(k)]
    BY <1>3, QueueShown
  <1>5. AtomicStep
    BY <1>0, <1>3, <1>4 DEF AtomicStep, Mem!Atomic!Next, Mem!Atomic!Read
  <1> QED
    BY <1>3, <1>5

(* A step that touches no slice. *)
LEMMA UnchangedStep ==
  ASSUME MemInv, UNCHANGED <<heap, storage, held>>
  PROVE  MemInv' /\ OrderStep /\ Mem!StoreOf' = Mem!StoreOf /\ Mem!ReadsOf' = Mem!ReadsOf
  <1>1. MemInv'
    BY DEF MemInv, MemType, ArraysApart, IdsApart, InBounds
  <1>2. Mem!StoreOf' = Mem!StoreOf /\ Mem!ReadsOf' = Mem!ReadsOf
    BY DEF Mem!StoreOf, Mem!ReadsOf, Mem!Positions, Mem!Queue, Mem!Elements
  <1>3. \A l \in MemKeys, i \in MemIds : (Mem!Positions(l, i))' = Mem!Positions(l, i)
    BY DEF Mem!Positions, Mem!Queue, Mem!Elements
  <1>4. OrderStep
    <2> SUFFICES ASSUME NEW l \in MemKeys, NEW i \in MemIds, NEW j \in MemIds, Mem!Before(l, i, j)
                 PROVE  ~(Mem!Before(l, j, i))'
      BY DEF OrderStep
    <2>1. /\ Mem!Before(l, i, j) <=> Ahead(heap[storage[l].arr], storage[l].len, i, j)
          /\ (Mem!Before(l, j, i))' <=> Ahead(heap[storage[l].arr], storage[l].len, j, i)
      BY <1>3, QueueIs DEF Mem!Before, Ahead
    <2>2. storage[l].len \in Nat /\ OncePerId(heap[storage[l].arr], storage[l].len)
      BY QueueIs
    <2> QED
      BY <2>1, <2>2, AheadOnce
  <1> QED
    BY <1>1, <1>2, <1>4

LEMMA GetKeysStep ==
  ASSUME MemInv, NEW r \in Readers, Mem!GetKeys(r)
  PROVE  MemInv' /\ AtomicStep /\ OrderStep
  <1>1. MemInv' /\ OrderStep /\ Mem!StoreOf' = Mem!StoreOf /\ Mem!ReadsOf' = Mem!ReadsOf
    BY UnchangedStep DEF Mem!GetKeys
  <1>2. {k \in MemKeys : storage[k] # Mem!Nil} = Mem!Atomic!GetKeys
    BY QueueShown DEF Mem!Atomic!GetKeys
  <1>3. listed' = [listed EXCEPT ![r] = Mem!Atomic!GetKeys]
    BY <1>2 DEF Mem!GetKeys
  <1>4. AtomicStep
    BY <1>1, <1>3 DEF AtomicStep, Mem!Atomic!Next, Mem!Atomic!Read
  <1> QED
    BY <1>1, <1>4

LEMMA MemStep ==
  ASSUME MemInv, [Mem!Next]_(Mem!vars)
  PROVE  MemInv' /\ AtomicStep /\ OrderStep
  <1>1. CASE UNCHANGED Mem!vars
    <2>1. UNCHANGED <<heap, storage, held>> /\ listed' = listed
      BY <1>1 DEF Mem!vars
    <2> QED
      BY <2>1, UnchangedStep DEF AtomicStep
  <1> QED
    BY <1>1, AddStep, DeleteStep, DeleteQueueStep, GetQueueStep, GetKeysStep DEF Mem!Next

LEMMA MemInit == Mem!Init => MemInv /\ Mem!Atomic!Init
  <1> SUFFICES ASSUME Mem!Init PROVE MemInv /\ Mem!Atomic!Init
    OBVIOUS
  <1>1. Mem!Nil \in MemSlices /\ Mem!Nil.len = 0 /\ Mem!Nil.arr = Null
    BY DEF MemSlices, Mem!Nil
  <1>2. << >> \in Seq(MemMsgs)
    OBVIOUS
  <1>3. MemType
    BY <1>1, <1>2 DEF Mem!Init, MemType, InBounds
  <1>4. ArraysApart
    BY DEF Mem!Init, ArraysApart
  <1>5. IdsApart
    BY <1>1 DEF Mem!Init, IdsApart, OncePerId
  <1>6. MappingIs
    BY <1>3, Mapping
  <1>7. ASSUME NEW k \in MemKeys, NEW i \in MemIds PROVE Find(heap[storage[k].arr], storage[k].len, i) = Null
    <2>1. storage[k].len = 0
      BY <1>1 DEF Mem!Init
    <2>2. At(heap[storage[k].arr], storage[k].len, i) = {}
      BY <2>1 DEF At
    <2> QED
      BY <2>2 DEF Find
  <1>8. Mem!StoreOf = [k \in MemKeys |-> [i \in MemIds |-> Null]]
    BY <1>6, <1>7 DEF MappingIs
  <1>9. ASSUME NEW r \in Readers PROVE Shown(heap, held[r]) = {}
    <2>1. 1..held[r].len = {}
      BY <1>1 DEF Mem!Init
    <2> QED
      BY <2>1 DEF Shown
  <1>10. Mem!ReadsOf = [r \in Readers |-> {}]
    BY <1>6, <1>9 DEF MappingIs
  <1>11. listed = [r \in Readers |-> {}]
    BY DEF Mem!Init
  <1> QED
    BY <1>3, <1>4, <1>5, <1>8, <1>10, <1>11
       DEF MemInv, Mem!Atomic!Init, Mem!Atomic!Init_Storage, Mem!Atomic!EmptyQueue

(* The memory backend (memory_storage.go) implements the storage that the  *)
(* delivery engine relies on, for any number of keys, messages, readers    *)
(* and arrays and any capacities: in-place writes stay unseen.             *)
THEOREM MemoryRefines == Mem!Spec => MemoryImplementsAtomicStorage
  <1>1. MemInv /\ [Mem!Next]_(Mem!vars) => MemInv' /\ [Mem!Atomic!Next]_<<Mem!StoreOf, Mem!ReadsOf, listed>>
    BY MemStep DEF AtomicStep
  <1> QED
    BY <1>1, MemInit, PTL
       DEF Mem!Spec, MemoryImplementsAtomicStorage, Mem!ImplementsAtomicStorage, Mem!Atomic!Spec

(* No operation puts a message before one that was ahead of it. *)
THEOREM OrderCorrect == Mem!Spec => OrderKept
  <1>1. MemInv /\ [Mem!Next]_(Mem!vars) => MemInv' /\ OrderStep
    BY MemStep
  <1>2. OrderKept <=> [][OrderStep]_(Mem!vars)
    BY DEF OrderKept, Mem!OrderKept, OrderStep
  <1> QED
    BY <1>1, <1>2, MemInit, PTL DEF Mem!Spec

=============================================================================
