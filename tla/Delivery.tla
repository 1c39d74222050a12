------------------------------ MODULE Delivery ------------------------------
(***************************************************************************)
(* The delivery engine of one Goctopus instance with the default           *)
(* configuration: memory storage (no notifications, no storage errors) and *)
(* history off.  Publishing, connecting, reconciling, acknowledging,       *)
(* expiring, deleting and disconnecting interleave at the granularity of   *)
(* the code's critical sections: g.mu, the sharded send locks, client.imu  *)
(* and the storage's own lock.                                             *)
(*                                                                         *)
(* A flush (sendMessages) runs in a task: the task of a POST is named by   *)
(* its message, the task of a new connection by the connection, and the    *)
(* reconcile goroutine by Reconciler.                                      *)
(***************************************************************************)
EXTENDS Connections, Integers, FiniteSets

CONSTANTS
  TopicSets,   \* what the authorizer may answer: sets of topics
  TargetSets,  \* what a POST may target: sets of keys
  Mortal,      \* messages that may expire: the others outlive the behaviour
  CallerIds,   \* ids that callers supply as message_id and may reuse
  Shards,      \* the send locks
  Shard,       \* Shard[k]: the send lock of key k (fnv hash modulo their number)
  Reconciler,  \* the reconcile goroutine
  Reconcile,   \* BOOLEAN: config.ReconcileInterval > 0
  Sweep,       \* BOOLEAN: the behaviour is long enough for the sweeper to tick
  ApiDeletes   \* BOOLEAN: backends issue DELETE requests

Proc == Msgs \cup Clients \cup {Reconciler}

ASSUME DeliveryAssumption ==
  /\ TopicSets \subseteq SUBSET Topics
  /\ TargetSets \subseteq SUBSET Keys
  /\ Mortal \subseteq Msgs
  /\ CallerIds \subseteq Ids
  /\ Shard \in [Keys -> Shards]
  /\ Msgs \cap Clients = {} /\ Reconciler \notin Msgs \cup Clients
  /\ Null \notin Proc
  /\ Reconcile \in BOOLEAN /\ Sweep \in BOOLEAN /\ ApiDeletes \in BOOLEAN

VARIABLES
  (* messages *)
  idOf,        \* idOf[m]: Message.id, Null before the POST
  targets,     \* targets[m]: the keys of the POST
  expired,     \* messages whose expiry has passed
  (* tasks *)
  pc,          \* where a task is in sendMessages, or "start" between flushes
  todo,        \* targets of a POST, or topics of a connection, still to handle
  keys,        \* keys resolved from topics, still to flush
  key,         \* the key being flushed
  conns,       \* the snapshot of its connections
  queue,       \* messages of the snapshot of its queue still to send
  msg,         \* the message being sent
  left,        \* connections msg has still to be sent to
  to,          \* the connection being written to
  sendLocks,   \* sendLocks[s]: the task that holds send lock s, or Null
  (* the wire and the clients behind it *)
  owed,        \* owed[c][i]: copies of id i written to c whose ACK is not read
  got,         \* got[c]: messages ever written to c
  reader,      \* readLoop of a connection
  ack,         \* ack[c]: the <<key, id>> handleAck is about to delete
  (* sweeper and DELETE requests *)
  sweepKeys, sweepKey, sweepQueue,
  purge        \* keys a DELETE of everything has still to delete

messageVars == <<idOf, targets, expired>>
taskVars == <<pc, todo, keys, key>>
sendVars == <<conns, queue, msg, left, to>>
wireVars == <<owed, got>>
readVars == <<reader, ack>>
sweepVars == <<sweepKeys, sweepKey, sweepQueue>>

vars == <<store, registryVars, clientVars, messageVars, taskVars, sendVars,
          sendLocks, wireVars, readVars, sweepVars, purge>>

PC == {"start", "lock", "read", "next", "mark", "write", "clear", "close"}
ReaderState == {"none", "reading", "acked", "exiting", "done"}

(* Every variable keeps its type. *)
TypeOK ==
  /\ store \in StoreType
  /\ ConnectionsType
  /\ idOf \in [Msgs -> Ids \cup {Null}]
  /\ targets \in [Msgs -> SUBSET Keys]
  /\ expired \in SUBSET Msgs
  /\ pc \in [Proc -> PC]
  /\ todo \in [Proc -> SUBSET Topics]
  /\ keys \in [Proc -> SUBSET Keys]
  /\ key \in [Proc -> Keys \cup {Null}]
  /\ conns \in [Proc -> SUBSET Clients]
  /\ queue \in [Proc -> SUBSET Msgs]
  /\ msg \in [Proc -> Msgs \cup {Null}]
  /\ left \in [Proc -> SUBSET Clients]
  /\ to \in [Proc -> Clients \cup {Null}]
  /\ sendLocks \in [Shards -> Proc \cup {Null}]
  /\ owed \in [Clients -> [Ids -> Nat]]
  /\ got \in [Clients -> SUBSET Msgs]
  /\ reader \in [Clients -> ReaderState]
  /\ ack \in [Clients -> (Keys \X Ids) \cup {Null}]
  /\ sweepKeys \in SUBSET Keys
  /\ sweepKey \in Keys \cup {Null}
  /\ sweepQueue \in SUBSET Msgs
  /\ purge \in SUBSET Keys

Init ==
  /\ Init_Storage
  /\ Init_Connections
  /\ idOf = [m \in Msgs |-> Null]
  /\ targets = [m \in Msgs |-> {}]
  /\ expired = {}
  /\ pc = [t \in Proc |-> "start"]
  /\ todo = [t \in Proc |-> {}]
  /\ keys = [t \in Proc |-> {}]
  /\ key = [t \in Proc |-> Null]
  /\ conns = [t \in Proc |-> {}]
  /\ queue = [t \in Proc |-> {}]
  /\ msg = [t \in Proc |-> Null]
  /\ left = [t \in Proc |-> {}]
  /\ to = [t \in Proc |-> Null]
  /\ sendLocks = [s \in Shards |-> Null]
  /\ owed = [c \in Clients |-> [i \in Ids |-> 0]]
  /\ got = [c \in Clients |-> {}]
  /\ reader = [c \in Clients |-> "none"]
  /\ ack = [c \in Clients |-> Null]
  /\ sweepKeys = {} /\ sweepKey = Null /\ sweepQueue = {}
  /\ purge = {}

-----------------------------------------------------------------------------
(* Messages: a POST is accepted and its task scheduled; time passes.  A    *)
(* POST that is refused (its body, its credentials) changes nothing.       *)

FreshId(i) == i \notin CallerIds /\ \A m \in Msgs : idOf[m] # i

handlePost(m, i, ks) ==
  /\ idOf[m] = Null
  /\ i \in CallerIds \/ FreshId(i)
  /\ idOf' = [idOf EXCEPT ![m] = i]
  /\ targets' = [targets EXCEPT ![m] = ks]
  /\ todo' = [todo EXCEPT ![m] = ks]
  /\ UNCHANGED <<store, registryVars, clientVars, expired, pc, keys, key, sendVars,
                 sendLocks, wireVars, readVars, sweepVars, purge>>

Expire(m) ==
  /\ m \in Mortal /\ idOf[m] # Null /\ m \notin expired
  /\ expired' = expired \cup {m}
  /\ UNCHANGED <<store, registryVars, clientVars, idOf, targets, taskVars, sendVars,
                 sendLocks, wireVars, readVars, sweepVars, purge>>

-----------------------------------------------------------------------------
(* What leads a task to flush a key. *)

(* The task of a POST: queue the message under its next target, flush it. *)
NextTarget(m, k) ==
  /\ pc[m] = "start" /\ k \in todo[m]
  /\ AddMessage(k, idOf[m], m)
  /\ todo' = [todo EXCEPT ![m] = @ \ {k}]
  /\ key' = [key EXCEPT ![m] = k]
  /\ pc' = [pc EXCEPT ![m] = "lock"]
  /\ UNCHANGED <<registryVars, clientVars, messageVars, keys, sendVars,
                 sendLocks, wireVars, readVars, sweepVars, purge>>

(* A websocket handshake that the authorizer accepted: the connection is   *)
(* registered, its reader and its flush of the backlog are started.  One   *)
(* that is refused (rate limit, origin, authorizer, upgrade) changes       *)
(* nothing here.                                                           *)
handleWs(c, ts) ==
  /\ reader[c] = "none"
  /\ register(c, ts)
  /\ reader' = [reader EXCEPT ![c] = "reading"]
  /\ todo' = [todo EXCEPT ![c] = ts]
  /\ UNCHANGED <<store, clientVars, messageVars, pc, keys, key, sendVars,
                 sendLocks, wireVars, ack, sweepVars, purge>>

(* Mutant: a wildcard subscriber gets no backlog. *)
backlogExactOnly(t) == {t} \ Patterns

backlog(t) == IF hasWildcard(t) THEN storageKeysMatching(t) ELSE {t}

(* The task of a connection: resolve its next topic to keys. *)
NextTopic(c, t) ==
  /\ pc[c] = "start" /\ keys[c] = {} /\ t \in todo[c]
  /\ todo' = [todo EXCEPT ![c] = @ \ {t}]
  /\ keys' = [keys EXCEPT ![c] = backlog(t)]
  /\ UNCHANGED <<store, registryVars, clientVars, messageVars, pc, key, sendVars,
                 sendLocks, wireVars, readVars, sweepVars, purge>>

(* The reconcile goroutine: a tick snapshots the registry, then every      *)
(* wildcard topic is resolved against the storage.                         *)
reconcileTick ==
  /\ Reconcile
  /\ pc[Reconciler] = "start" /\ todo[Reconciler] = {} /\ keys[Reconciler] = {}
  /\ todo' = [todo EXCEPT ![Reconciler] = {p \in Patterns : Conns[p] # {}}]
  /\ keys' = [keys EXCEPT ![Reconciler] = {k \in Keys : Conns[k] # {}}]
  /\ UNCHANGED <<store, registryVars, clientVars, messageVars, pc, key, sendVars,
                 sendLocks, wireVars, readVars, sweepVars, purge>>

reconcileResolve(p) ==
  /\ pc[Reconciler] = "start" /\ p \in todo[Reconciler]
  /\ todo' = [todo EXCEPT ![Reconciler] = @ \ {p}]
  /\ keys' = [keys EXCEPT ![Reconciler] = @ \cup storageKeysMatching(p)]
  /\ UNCHANGED <<store, registryVars, clientVars, messageVars, pc, key, sendVars,
                 sendLocks, wireVars, readVars, sweepVars, purge>>

(* Both then flush the keys they found, one by one. *)
NextKey(t, k) ==
  /\ pc[t] = "start" /\ k \in keys[t]
  /\ t = Reconciler => todo[t] = {}
  /\ keys' = [keys EXCEPT ![t] = @ \ {k}]
  /\ key' = [key EXCEPT ![t] = k]
  /\ pc' = [pc EXCEPT ![t] = "lock"]
  /\ UNCHANGED <<store, registryVars, clientVars, messageVars, todo, sendVars,
                 sendLocks, wireVars, readVars, sweepVars, purge>>

-----------------------------------------------------------------------------
(* sendMessages(key[t]), one action per critical section.                  *)

(* Mutant: the send lock is not released. *)
unlockNothing(t) == UNCHANGED sendLocks

unlock(t) == sendLocks' = [sendLocks EXCEPT ![Shard[key[t]]] = Null]

(* The return of sendMessages, whose deferred call unlocks. *)
Return(t) ==
  /\ unlock(t)
  /\ pc' = [pc EXCEPT ![t] = "start"]
  /\ key' = [key EXCEPT ![t] = Null]
  /\ conns' = [conns EXCEPT ![t] = {}]
  /\ UNCHANGED <<todo, keys, msg, left, to>>

lockFree(t) == sendLocks[Shard[key[t]]] = Null

(* The send lock is taken and the registry read.  Taking the lock commutes *)
(* with every step of another task up to the read, so the two are one      *)
(* action; with no connection to serve the lock is released at once.       *)
Lock(t) ==
  /\ pc[t] = "lock" /\ lockFree(t)
  /\ clientsForKey(key[t]) # {}
  /\ sendLocks' = [sendLocks EXCEPT ![Shard[key[t]]] = t]
  /\ conns' = [conns EXCEPT ![t] = clientsForKey(key[t])]
  /\ pc' = [pc EXCEPT ![t] = "read"]
  /\ UNCHANGED <<store, registryVars, clientVars, messageVars, todo, keys, key,
                 queue, msg, left, to, wireVars, readVars, sweepVars, purge>>

NoConns(t) ==
  /\ pc[t] = "lock" /\ lockFree(t)
  /\ clientsForKey(key[t]) = {}
  /\ pc' = [pc EXCEPT ![t] = "start"]
  /\ key' = [key EXCEPT ![t] = Null]
  /\ UNCHANGED <<store, registryVars, clientVars, messageVars, todo, keys, sendVars,
                 sendLocks, wireVars, readVars, sweepVars, purge>>

(* The storage is read without g.mu: the queue may have changed since the  *)
(* registry was read, and changes while it is being sent.                  *)
ReadQueue(t) ==
  /\ pc[t] = "read" /\ GetQueue(key[t]) # {}
  /\ queue' = [queue EXCEPT ![t] = GetQueue(key[t])]
  /\ pc' = [pc EXCEPT ![t] = "next"]
  /\ UNCHANGED <<store, registryVars, clientVars, messageVars, todo, keys, key,
                 conns, msg, left, to, sendLocks, wireVars, readVars, sweepVars, purge>>

NoMsgs(t) ==
  /\ pc[t] = "read" /\ GetQueue(key[t]) = {}
  /\ Return(t)
  /\ UNCHANGED <<store, registryVars, clientVars, messageVars, queue,
                 wireVars, readVars, sweepVars, purge>>

(* Messages and connections are taken in any order: memory keeps insertion *)
(* order, Redis the order of dates, and the map of patterns has none.      *)
NextMsg(t, m) ==
  /\ pc[t] = "next" /\ m \in queue[t] /\ m \notin expired
  /\ queue' = [queue EXCEPT ![t] = @ \ {m}]
  /\ msg' = [msg EXCEPT ![t] = m]
  /\ left' = [left EXCEPT ![t] = conns[t]]
  /\ pc' = [pc EXCEPT ![t] = "mark"]
  /\ UNCHANGED <<store, registryVars, clientVars, messageVars, todo, keys, key,
                 conns, to, sendLocks, wireVars, readVars, sweepVars, purge>>

SkipExpired(t, m) ==
  /\ pc[t] = "next" /\ m \in queue[t] /\ m \in expired
  /\ queue' = [queue EXCEPT ![t] = @ \ {m}]
  /\ UNCHANGED <<store, registryVars, clientVars, messageVars, taskVars,
                 conns, msg, left, to, sendLocks, wireVars, readVars, sweepVars, purge>>

EndFlush(t) ==
  /\ pc[t] = "next" /\ queue[t] = {}
  /\ Return(t)
  /\ UNCHANGED <<store, registryVars, clientVars, messageVars, queue,
                 wireVars, readVars, sweepVars, purge>>

(* The loop over connections moves on, or the loop over messages does. *)
DoneWith(t, c) ==
  LET last == left[t] = {c}
  IN  /\ left' = [left EXCEPT ![t] = @ \ {c}]
      /\ to' = [to EXCEPT ![t] = Null]
      /\ msg' = [msg EXCEPT ![t] = IF last THEN Null ELSE @]
      /\ pc' = [pc EXCEPT ![t] = IF last THEN "next" ELSE "mark"]
      /\ UNCHANGED <<todo, keys, key, conns, queue>>

Mark(t, c) ==
  /\ pc[t] = "mark" /\ c \in left[t] /\ canMark(c, idOf[msg[t]])
  /\ markInflight(c, idOf[msg[t]], key[t])
  /\ to' = [to EXCEPT ![t] = c]
  /\ pc' = [pc EXCEPT ![t] = "write"]
  /\ UNCHANGED <<store, registryVars, closed, messageVars, todo, keys, key,
                 conns, queue, msg, left, sendLocks, wireVars, readVars, sweepVars, purge>>

SkipClient(t, c) ==
  /\ pc[t] = "mark" /\ c \in left[t] /\ ~canMark(c, idOf[msg[t]])
  /\ DoneWith(t, c)
  /\ UNCHANGED <<store, registryVars, clientVars, messageVars,
                 sendLocks, wireVars, readVars, sweepVars, purge>>

oweAck(c, i) == owed' = [owed EXCEPT ![c][i] = @ + 1]

(* writeMessage succeeds, which it cannot on a closed connection, ... *)
WriteOk(t) ==
  LET c == to[t]
      m == msg[t]
  IN  /\ pc[t] = "write" /\ c \notin closed
      /\ oweAck(c, idOf[m])
      /\ got' = [got EXCEPT ![c] = @ \cup {m}]
      /\ DoneWith(t, c)
      /\ UNCHANGED <<store, registryVars, clientVars, messageVars,
                     sendLocks, readVars, sweepVars, purge>>

(* ... or fails at any time: a reset, or the write deadline. *)
WriteFail(t) ==
  /\ pc[t] = "write"
  /\ pc' = [pc EXCEPT ![t] = "clear"]
  /\ UNCHANGED <<store, registryVars, clientVars, messageVars, todo, keys, key,
                 sendVars, sendLocks, wireVars, readVars, sweepVars, purge>>

(* Mutant: the entry stays when the write has failed. *)
KeepInflight(t) ==
  /\ pc[t] = "clear"
  /\ pc' = [pc EXCEPT ![t] = "close"]
  /\ UNCHANGED <<store, registryVars, clientVars, messageVars, todo, keys, key,
                 sendVars, sendLocks, wireVars, readVars, sweepVars, purge>>

ClearInflight(t) ==
  /\ pc[t] = "clear"
  /\ clearInflight(to[t], idOf[msg[t]])
  /\ pc' = [pc EXCEPT ![t] = "close"]
  /\ UNCHANGED <<store, registryVars, closed, messageVars, todo, keys, key,
                 sendVars, sendLocks, wireVars, readVars, sweepVars, purge>>

CloseConn(t) ==
  /\ pc[t] = "close"
  /\ close(to[t])
  /\ DoneWith(t, to[t])
  /\ UNCHANGED <<store, registryVars, inflight, messageVars,
                 sendLocks, wireVars, readVars, sweepVars, purge>>

-----------------------------------------------------------------------------
(* The connection's reader.  A client ACKs each copy it is sent at most    *)
(* once; handleAck of any other id only counts it.                         *)

(* The client: an ACK of a copy that it was sent. *)
clientAcks(c, i) ==
  /\ owed[c][i] > 0
  /\ owed' = [owed EXCEPT ![c][i] = @ - 1]

takeInflight(c, i) ==
  LET k == inflight[c][i]
  IN  /\ reader[c] = "reading" /\ clientAcks(c, i)
      /\ clearInflight(c, i)
      /\ ack' = [ack EXCEPT ![c] = IF k = Null THEN Null ELSE <<k, i>>]
      /\ reader' = [reader EXCEPT ![c] = IF k = Null THEN @ ELSE "acked"]
      /\ UNCHANGED <<store, registryVars, closed, messageVars, taskVars, sendVars,
                     sendLocks, got, sweepVars, purge>>

AckDelete(c) ==
  /\ reader[c] = "acked"
  /\ DeleteMessage(ack[c][1], ack[c][2])
  /\ ack' = [ack EXCEPT ![c] = Null]
  /\ reader' = [reader EXCEPT ![c] = "reading"]
  /\ UNCHANGED <<registryVars, clientVars, messageVars, taskVars, sendVars,
                 sendLocks, wireVars, sweepVars, purge>>

(* The read fails or the client says goodbye: removeClient closes the      *)
(* connection, then unregisters it.                                        *)
ReadExit(c) ==
  /\ reader[c] = "reading"
  /\ close(c)
  /\ reader' = [reader EXCEPT ![c] = "exiting"]
  /\ UNCHANGED <<store, registryVars, inflight, messageVars, taskVars, sendVars,
                 sendLocks, wireVars, ack, sweepVars, purge>>

removeClient(c) ==
  /\ reader[c] = "exiting"
  /\ unregister(c)
  /\ reader' = [reader EXCEPT ![c] = "done"]
  /\ UNCHANGED <<store, clientVars, messageVars, taskVars, sendVars,
                 sendLocks, wireVars, ack, sweepVars, purge>>

(* pingLoop closes a connection it cannot write a ping to, and every       *)
(* connection when the instance stops.                                     *)
PingFail(c) ==
  /\ reader[c] # "none" /\ c \notin closed
  /\ close(c)
  /\ UNCHANGED <<store, registryVars, inflight, messageVars, taskVars, sendVars,
                 sendLocks, wireVars, readVars, sweepVars, purge>>

-----------------------------------------------------------------------------
(* The sweeper: the keys, then the queue of each key, then each expired    *)
(* message of that queue are separate storage operations.                  *)

(* Mutant: only keys somebody is connected to are swept. *)
sweepTickConnected ==
  /\ Sweep /\ sweepKeys = {} /\ sweepKey = Null
  /\ sweepKeys' = {k \in GetKeys : Conns[k] # {}}
  /\ UNCHANGED <<store, registryVars, clientVars, messageVars, taskVars, sendVars,
                 sendLocks, wireVars, readVars, sweepKey, sweepQueue, purge>>

sweepTick ==
  /\ Sweep /\ sweepKeys = {} /\ sweepKey = Null
  /\ sweepKeys' = GetKeys
  /\ UNCHANGED <<store, registryVars, clientVars, messageVars, taskVars, sendVars,
                 sendLocks, wireVars, readVars, sweepKey, sweepQueue, purge>>

sweepRead(k) ==
  /\ sweepKey = Null /\ k \in sweepKeys
  /\ sweepKeys' = sweepKeys \ {k}
  /\ sweepQueue' = GetQueue(k)
  /\ sweepKey' = IF GetQueue(k) = {} THEN Null ELSE k
  /\ UNCHANGED <<store, registryVars, clientVars, messageVars, taskVars, sendVars,
                 sendLocks, wireVars, readVars, purge>>

(* Mutant: whatever is queued is swept. *)
mustSweepAll(m) == TRUE

mustSweep(m) == m \in expired

sweepMsg(m) ==
  /\ m \in sweepQueue
  /\ IF mustSweep(m) THEN DeleteMessage(sweepKey, idOf[m]) ELSE UNCHANGED store
  /\ sweepQueue' = sweepQueue \ {m}
  /\ sweepKey' = IF sweepQueue = {m} THEN Null ELSE sweepKey
  /\ UNCHANGED <<registryVars, clientVars, messageVars, taskVars, sendVars,
                 sendLocks, wireVars, readVars, sweepKeys, purge>>

-----------------------------------------------------------------------------
(* DELETE requests: by key and id, by key, or everything, key by key.      *)

othersUnchanged == UNCHANGED <<registryVars, clientVars, messageVars, taskVars,
                     sendVars, sendLocks, wireVars, readVars, sweepVars>>

deleteMsgById(k, i) ==
  /\ ApiDeletes /\ store[k][i] # Null
  /\ DeleteMessage(k, i)
  /\ UNCHANGED purge /\ othersUnchanged

deleteMsgQueue(k) ==
  /\ ApiDeletes /\ k \in GetKeys
  /\ DeleteQueue(k)
  /\ UNCHANGED purge /\ othersUnchanged

deleteAll ==
  /\ ApiDeletes /\ purge = {}
  /\ purge' = GetKeys
  /\ UNCHANGED store /\ othersUnchanged

deleteAllNext(k) ==
  /\ k \in purge
  /\ DeleteQueue(k)
  /\ purge' = purge \ {k}
  /\ othersUnchanged

-----------------------------------------------------------------------------
(* The environment (backends, clients, the network, the clock), and the    *)
(* goroutines of the instance.                                             *)

Publish == \E m \in Msgs, i \in Ids, ks \in TargetSets : handlePost(m, i, ks)

Environment ==
  \/ Publish
  \/ \E m \in Msgs : Expire(m)
  \/ \E c \in Clients, ts \in TopicSets : handleWs(c, ts)
  \/ \E c \in Clients, i \in Ids : takeInflight(c, i)
  \/ \E c \in Clients : ReadExit(c) \/ PingFail(c)
  \/ \E k \in Keys, i \in Ids : deleteMsgById(k, i)
  \/ \E k \in Keys : deleteMsgQueue(k)
  \/ deleteAll

(* Every step of a task but the one that waits for a lock. *)
Start(t) ==
  \/ t \in Msgs /\ \E k \in Keys : NextTarget(t, k)
  \/ t \in Clients /\ \E p \in Topics : NextTopic(t, p)
  \/ t = Reconciler /\ (reconcileTick \/ \E p \in Patterns : reconcileResolve(p))
  \/ t \notin Msgs /\ \E k \in Keys : NextKey(t, k)

Acquire(t) == Lock(t) \/ NoConns(t)

Send(t) ==
  \/ ReadQueue(t) \/ NoMsgs(t) \/ EndFlush(t)
  \/ \E m \in Msgs : NextMsg(t, m) \/ SkipExpired(t, m)
  \/ \E c \in Clients : Mark(t, c) \/ SkipClient(t, c)
  \/ WriteOk(t) \/ WriteFail(t) \/ ClearInflight(t) \/ CloseConn(t)

Reader(c) == AckDelete(c) \/ removeClient(c)

Sweeper ==
  \/ sweepTick
  \/ \E k \in Keys : sweepRead(k)
  \/ \E m \in Msgs : sweepMsg(m)

Next ==
  \/ Environment
  \/ \E t \in Proc : Start(t) \/ Acquire(t) \/ Send(t)
  \/ \E c \in Clients : Reader(c)
  \/ Sweeper
  \/ \E k \in Keys : deleteAllNext(k)

Spec == Init /\ [][Next]_vars

(* Goroutines that can run do run.  A task that waits for a send lock gets *)
(* it although others keep taking it, because a Go mutex serves a waiter   *)
(* that has starved for a millisecond first.  A write ends, by its         *)
(* deadline if need be, and a read on a closed connection fails; nothing   *)
(* is assumed of publishers, clients and the network, nor of the ticks of  *)
(* the reconciler: delivery is not to depend on them.                      *)
Fairness ==
  /\ \A t \in Msgs \cup Clients : WF_vars(Start(t))
  /\ WF_vars(\E p \in Patterns : reconcileResolve(p))
  /\ WF_vars(\E k \in Keys : NextKey(Reconciler, k))
  /\ \A t \in Proc : SF_vars(Acquire(t)) /\ WF_vars(Send(t))
  /\ \A c \in Clients : WF_vars(Reader(c)) /\ WF_vars(c \in closed /\ ReadExit(c))
  /\ WF_vars(Sweeper)

FairSpec == Spec /\ Fairness

-----------------------------------------------------------------------------
(* Safety. *)

Holding(t) == pc[t] \notin {"start", "lock"}
Writing(t) == pc[t] \in {"write", "clear"}

(* sendLock "serializes delivery": the tasks between the lock and the      *)
(* return of sendMessages are exactly the holders of the send locks, so no *)
(* lock is leaked by an early return and no two flushes of one key overlap.*)
LocksMatchTasks ==
  /\ \A t \in Proc : Holding(t) => sendLocks[Shard[key[t]]] = t
  /\ \A s \in Shards : sendLocks[s] # Null =>
       Holding(sendLocks[s]) /\ Shard[key[sendLocks[s]]] = s

(* A connection is never sent a second copy of an id while it has not      *)
(* acknowledged the first, whatever keys the copies were queued under and  *)
(* however the flushes of those keys interleave (markInflight).            *)
AtMostOneUnacked == \A c \in Clients, i \in Ids : owed[c][i] <= 1

WriterOwnsEntry ==
  \A t \in Proc : Writing(t) => /\ inflight[to[t]][idOf[msg[t]]] = key[t]
                                /\ owed[to[t]][idOf[msg[t]]] = 0

WritersApart ==
  \A t, u \in Proc : t # u /\ Writing(t) /\ Writing(u) /\ to[t] = to[u]
                     => idOf[msg[t]] # idOf[msg[u]]

CopyOwnsEntry ==
  \A c \in Clients, i \in Ids :
    owed[c][i] # 0 => owed[c][i] = 1 /\ inflight[c][i] # Null

EntryOwned ==
  \A c \in Clients, i \in Ids :
    inflight[c][i] # Null =>
      owed[c][i] = 1 \/ \E t \in Proc : Writing(t) /\ to[t] = c /\ idOf[msg[t]] = i

OneOwner == WriterOwnsEntry /\ WritersApart /\ CopyOwnsEntry

(* Why it holds: the in-flight entry of an id belongs to the task that is  *)
(* writing it, until the copy is on the wire; then to the copy, until its  *)
(* ACK is read.  And no entry is left behind that has no owner, which      *)
(* would keep the id from the connection for good: a write that failed     *)
(* gives its entry up.                                                     *)
InflightOwned == OneOwner /\ EntryOwned

(* The registry lists a connection under exactly the topics it asked for,  *)
(* from handleWs to removeClient, and a wildcard topic is looked at by     *)
(* clientsForKey exactly as long as somebody is connected to it.           *)
RegistryConsistent ==
  /\ \A t \in Topics, c \in Clients :
       c \in Conns[t] <=> t \in connKeys[c] /\ reader[c] \notin {"none", "done"}
  /\ patterns = {p \in Patterns : Conns[p] # {}}

Subscribed(c, k) == \E t \in connKeys[c] : keyMatches(t, k)

(* A message only ever reaches connections whose topics cover a key it was *)
(* published to: neither a snapshot that has become stale nor a reused     *)
(* task or id leads a message to somebody else.                            *)
OnlySubscribersGet ==
  \A c \in Clients, m \in Msgs : m \in got[c] => \E k \in targets[m] : Subscribed(c, k)

(* The flushes that will still look at message m of key k for connection c *)
FlushPending(c, k, m) ==
  \/ \E t \in Proc : pc[t] = "lock" /\ key[t] = k
  \/ \E t \in Proc : /\ key[t] = k /\ c \in conns[t]
                     /\ \/ pc[t] = "read"
                        \/ m \in queue[t]
                        \/ msg[t] = m /\ c \in left[t]
  \/ k \in keys[c] \/ \E t \in todo[c] : keyMatches(t, k)

(* No wake-up is lost: while a live message waits for an open connection   *)
(* that covers its key, either it was sent to that connection, or a flush  *)
(* that will send it is under way, or a failed write is about to close the *)
(* connection.  Connecting, publishing and disconnecting race here without *)
(* a common lock, and nothing but these flushes would ever send it.        *)
NoLostWakeup ==
  \A k \in Keys, i \in Ids, c \in Clients :
    LET m == store[k][i]
    IN  m # Null /\ m \notin expired /\ c \in clientsForKey(k) \ closed
        => \/ m \in got[c] \/ inflight[c][i] # Null
           \/ FlushPending(c, k, m)
           \/ \E t \in Proc : pc[t] \in {"clear", "close"} /\ to[t] = c

(* An upsert supersedes a message, it does not remove it. *)
Removed(k, m) == m \in GetQueue(k) /\ store'[k][idOf[m]] = Null

(* "it is only removed from the queue when the client ACKs it (handleAck)  *)
(* or it expires (sweepExpired)" (sendMessages): without DELETE requests,  *)
(* a message leaves a queue only if it was written to some connection or   *)
(* has expired.                                                            *)
RemovedOnlyDeliveredOrExpired ==
  [][\A k \in Keys, m \in Msgs :
       Removed(k, m) => m \in expired \/ \E c \in Clients : m \in got[c]]_vars

-----------------------------------------------------------------------------
(* Liveness, under Fairness. *)

Waiting(c, k, m) ==
  m \in GetQueue(k) \ expired /\ c \in clientsForKey(k) \ closed

(* "Goctopus writes it to every connected client for that key": a message  *)
(* that stays queued is written to every connection that stays open,       *)
(* whichever of the two came first.                                        *)
EventuallyWritten ==
  \A c \in Clients, k \in Keys, m \in Msgs :
    Waiting(c, k, m) ~> (m \in got[c] \/ ~Waiting(c, k, m))

(* "expired messages are removed by the background sweeper", also for keys *)
(* nobody ever connects to.                                                *)
ExpiredIsSwept ==
  \A k \in Keys, m \in Msgs :
    (m \in GetQueue(k) /\ m \in expired) ~> m \notin GetQueue(k)

(* A connection closed by a failed write, a failed ping or its reader is   *)
(* unregistered: "readLoop's defer unregisters it" (sendMessages).         *)
ClosedIsUnregistered ==
  \A c \in Clients : c \in closed ~> (\A t \in Topics : c \notin Conns[t])

(* Every flush ends: the send locks, the slow clients they wait for and    *)
(* the reconciler that keeps taking them never block a task for ever.      *)
FlushesEnd == \A t \in Proc : pc[t] # "start" ~> pc[t] = "start"

=============================================================================
