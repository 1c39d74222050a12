---------------------------- MODULE RedisStorage ----------------------------
(***************************************************************************)
(* The Redis backend (redis_storage.go): a hash per key with a field per   *)
(* message id, and a TTL on the key that every AddMessage renews.  A Redis *)
(* command, or a MULTI/EXEC pipeline, is one step; GetQueue and GetKeys    *)
(* are several, so other goroutines and other instances come in between.   *)
(*                                                                         *)
(* SetQueue is left out: no production code calls it.                      *)
(***************************************************************************)
EXTENDS Integers, FiniteSets

CONSTANTS
  Keys, Ids, Msgs, Null,
  Id,       \* Id[m]: the id of message m
  Life,     \* Life[m]: the message's expire
  KeyTTL,   \* config.RedisKeyTTL, 0 when there is none
  Poison,   \* an entry that decodeMessage rejects, written by something else
  Readers,  \* callers of GetQueue and GetKeys
  MaxTime   \* bound on the clock

ASSUME RedisStorageAssumption ==
  /\ Id \in [Msgs -> Ids]
  /\ Life \in [Msgs -> Nat]
  /\ KeyTTL \in Nat /\ MaxTime \in Nat
  /\ Null \notin Msgs \cup Keys \cup {Poison} /\ Poison \notin Msgs
  /\ \A ks \in SUBSET Keys : ks # Null

Never == -1

VARIABLES
  now,
  date,      \* date[m]: Message.date, Never before the POST
  unstored,  \* <<k, m>>: the task of m's POST has m still to add to k
  hash,      \* hash[k][i]: the field of id i in the hash of key k
  deadline,  \* deadline[k]: when the hash of k expires, Never if it does not
  reads,     \* reads[r]: the messages r's last HGETALL returned
  drop,      \* drop[r]: <<k, i>> fields of it that were undecodable
  cursor,    \* cursor[r]: keys r's SCAN has not come to, Null when it is over
  found,     \* found[r]: what it returned so far
  (* history, read by no action *)
  through    \* through[r]: keys that were there all the time since its start

messageVars == <<now, date, unstored>>
dbVars == <<hash, deadline>>
readVars == <<reads, drop>>
scanVars == <<cursor, found>>
vars == <<messageVars, dbVars, readVars, scanVars, through>>

RedisTypeOK ==
  /\ now \in 0..MaxTime
  /\ date \in [Msgs -> Int]
  /\ unstored \in SUBSET (Keys \X Msgs)
  /\ hash \in [Keys -> [Ids -> Msgs \cup {Null, Poison}]]
  /\ deadline \in [Keys -> Int]
  /\ reads \in [Readers -> SUBSET Msgs]
  /\ drop \in [Readers -> SUBSET (Keys \X Ids)]
  /\ cursor \in [Readers -> (SUBSET Keys) \cup {Null}]
  /\ found \in [Readers -> SUBSET Keys]

Empty == [i \in Ids |-> Null]

Exists(h, k) == h[k] # Empty

Init ==
  /\ now = 0
  /\ date = [m \in Msgs |-> Never]
  /\ unstored = {}
  /\ hash = [k \in Keys |-> Empty]
  /\ deadline = [k \in Keys |-> Never]
  /\ reads = [r \in Readers |-> {}] /\ drop = [r \in Readers |-> {}]
  /\ cursor = [r \in Readers |-> Null] /\ found = [r \in Readers |-> {}]
  /\ through = [r \in Readers |-> {}]

-----------------------------------------------------------------------------
(* Redis: a hash without fields does not exist and has no TTL; one whose   *)
(* TTL has run out is removed before time goes on.                         *)

SetHash(h, d) ==
  /\ hash' = h
  /\ deadline' = [k \in Keys |-> IF Exists(h, k) THEN d[k] ELSE Never]
  /\ through' = [r \in Readers |-> {k \in through[r] : Exists(h, k)}]

ExpireKey(k) ==
  /\ deadline[k] = now
  /\ SetHash([hash EXCEPT ![k] = Empty], deadline)
  /\ UNCHANGED <<messageVars, readVars, scanVars>>

Tick ==
  /\ now < MaxTime /\ \A k \in Keys : deadline[k] # now
  /\ now' = now + 1
  /\ UNCHANGED <<date, unstored, dbVars, readVars, scanVars, through>>

(* Something else writes an entry that is not a message. *)
Corrupt(k, i) ==
  /\ hash[k][i] = Null
  /\ SetHash([hash EXCEPT ![k][i] = Poison], deadline)
  /\ UNCHANGED <<messageVars, readVars, scanVars>>

-----------------------------------------------------------------------------
(* A POST dates its message and its task stores it later. *)
Post(m, ks) ==
  /\ date[m] = Never
  /\ date' = [date EXCEPT ![m] = now]
  /\ unstored' = unstored \cup (ks \X {m})
  /\ UNCHANGED <<now, dbVars, readVars, scanVars, through>>

(* Mutant: the TTL is set when the key is created and not renewed. *)
ExpireOnce(k) == IF deadline[k] = Never THEN now + KeyTTL ELSE deadline[k]

Expire(k) == IF KeyTTL > 0 THEN now + KeyTTL ELSE deadline[k]

HSet(k, m) == [hash EXCEPT ![k][Id[m]] = m]

(* HSET and EXPIRE in one transaction. *)
AddMessage(k, m) ==
  /\ <<k, m>> \in unstored
  /\ unstored' = unstored \ {<<k, m>>}
  /\ SetHash(HSet(k, m), [deadline EXCEPT ![k] = Expire(k)])
  /\ UNCHANGED <<now, date, readVars, scanVars>>

DeleteMessage(k, i) ==
  /\ SetHash([hash EXCEPT ![k][i] = Null], deadline)
  /\ UNCHANGED <<messageVars, readVars, scanVars>>

DeleteQueue(k) ==
  /\ SetHash([hash EXCEPT ![k] = Empty], deadline)
  /\ UNCHANGED <<messageVars, readVars, scanVars>>

(* GetQueue: HGETALL, then an HDEL for every field that does not decode. *)

(* Mutant: an entry is returned although it does not decode. *)
QueueUndecoded(k) == {hash[k][i] : i \in Ids} \ {Null}

Queue(k) == {hash[k][i] : i \in Ids} \cap Msgs

HGetAll(r, k) ==
  /\ drop[r] = {}
  /\ reads' = [reads EXCEPT ![r] = Queue(k)]
  /\ drop' = [drop EXCEPT ![r] = {<<k, i>> : i \in {j \in Ids : hash[k][j] = Poison}}]
  /\ UNCHANGED <<messageVars, dbVars, scanVars, through>>

HDel(r, k, i) ==
  /\ <<k, i>> \in drop[r]
  /\ drop' = [drop EXCEPT ![r] = @ \ {<<k, i>>}]
  /\ SetHash([hash EXCEPT ![k][i] = Null], deadline)
  /\ UNCHANGED <<messageVars, reads, scanVars>>

(* GetKeys: SCAN returns the keys in batches, in an order of Redis' own,   *)
(* until the cursor is 0.                                                  *)
ScanStart(r) ==
  /\ cursor[r] = Null
  /\ cursor' = [cursor EXCEPT ![r] = Keys]
  /\ found' = [found EXCEPT ![r] = {}]
  /\ through' = [through EXCEPT ![r] = {k \in Keys : Exists(hash, k)}]
  /\ UNCHANGED <<messageVars, dbVars, readVars>>

(* Mutant: an empty batch ends the loop. *)
ScanOverEmptyBatch(batch, rest) == rest = {} \/ \A k \in batch : ~Exists(hash, k)

ScanOver(batch, rest) == rest = {}

ScanBatch(r, batch) ==
  /\ cursor[r] # Null /\ batch # {} /\ batch \subseteq cursor[r]
  /\ found' = [found EXCEPT ![r] = @ \cup {k \in batch : Exists(hash, k)}]
  /\ cursor' = [cursor EXCEPT ![r] =
       IF ScanOver(batch, @ \ batch) THEN Null ELSE @ \ batch]
  /\ UNCHANGED <<messageVars, dbVars, readVars, through>>

-----------------------------------------------------------------------------
Next ==
  \/ Tick
  \/ \E k \in Keys, i \in Ids : Corrupt(k, i) \/ DeleteMessage(k, i)
  \/ \E m \in Msgs, ks \in SUBSET Keys : Post(m, ks)
  \/ \E k \in Keys, m \in Msgs : AddMessage(k, m)
  \/ \E k \in Keys : DeleteQueue(k) \/ ExpireKey(k)
  \/ \E r \in Readers, k \in Keys : HGetAll(r, k)
  \/ \E r \in Readers, k \in Keys, i \in Ids : HDel(r, k, i)
  \/ \E r \in Readers : ScanStart(r) \/ \E batch \in SUBSET Keys : ScanBatch(r, batch)

Spec == Init /\ [][Next]_vars

-----------------------------------------------------------------------------
(* The Redis backend implements the promise of the Storage interface, but  *)
(* for GetKeys, which is not one step: an undecodable entry counts as no   *)
(* entry, and the TTL as a DeleteQueue.                                    *)
Atomic == INSTANCE AtomicStorage WITH
  store <- [k \in Keys |-> [i \in Ids |-> IF hash[k][i] \in Msgs THEN hash[k][i] ELSE Null]],
  listed <- [r \in Readers |-> {}]

ImplementsAtomicStorage == Atomic!Spec

(* GetKeys lists every key that had messages all the time from its start   *)
(* to its end, so the sweeper and the backlog of a wildcard subscriber     *)
(* miss only keys that appear while they run.                              *)
ScanComplete == \A r \in Readers : cursor[r] = Null => through[r] \subseteq found[r]

Due(m) == date[m] + Life[m]

(* RedisKeyTTL is "a backstop so abandoned keys are reclaimed": Redis does *)
(* not drop a message before its own expire is over.  It holds when no     *)
(* message asks for more than the TTL.                                     *)
DropsOnlyDue ==
  [][\A k \in Keys : ExpireKey(k) => \A m \in Queue(k) : Due(m) <= now]_vars
=============================================================================
