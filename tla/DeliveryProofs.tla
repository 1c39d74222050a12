--------------------------- MODULE DeliveryProofs ---------------------------
(***************************************************************************)
(* Proofs that Delivery keeps its types and its safety invariants for any  *)
(* sets of keys, ids, messages, connections, patterns and locks.           *)
(***************************************************************************)
EXTENDS Delivery, TLAPS

(* What a task's and a reader's place in the code says about its locals. *)
TaskShape ==
  /\ \A t \in Proc :
       /\ pc[t] # "start" => key[t] \in Keys
       /\ pc[t] \in {"mark", "write", "clear", "close"} => msg[t] \in Msgs
       /\ pc[t] \in {"write", "clear", "close"} => to[t] \in left[t]
  /\ \A c \in Clients : reader[c] = "acked" => ack[c] \in Keys \X Ids
  /\ sweepQueue # {} => sweepKey \in Keys

(* A message was posted under the id it is stored, queued and sent with,   *)
(* and for the key whose queue it is in.                                   *)
PostedFor(m, k) == idOf[m] \in Ids /\ k \in targets[m]

QueuesHoldPosted ==
  /\ \A k \in Keys, i \in Ids :
       store[k][i] # Null => idOf[store[k][i]] = i /\ PostedFor(store[k][i], k)
  /\ \A m \in Msgs : \A k \in todo[m] : PostedFor(m, k)
  /\ \A t \in Proc : \A m \in queue[t] :
       PostedFor(m, key[t]) /\ pc[t] \notin {"start", "lock", "read"}
  /\ \A t \in Proc : msg[t] # Null =>
       PostedFor(msg[t], key[t]) /\ pc[t] \notin {"start", "lock", "read", "next"}

USE StorageAssumption, ConnectionsAssumption, DeliveryAssumption

-----------------------------------------------------------------------------
(* Types. *)

LEMMA InitType == Init => TypeOK /\ TaskShape
  BY DEF Init, Init_Storage, Init_Connections, TypeOK, StoreType, EmptyQueue,
         ConnectionsType, TaskShape, PC, ReaderState

LEMMA GetQueueType ==
  ASSUME TypeOK, NEW k \in Keys
  PROVE  GetQueue(k) \in SUBSET Msgs
  BY DEF TypeOK, StoreType, GetQueue

LEMMA ClientsForKeyType ==
  ASSUME TypeOK, NEW k \in Keys
  PROVE  clientsForKey(k) \in SUBSET Clients
  BY DEF TypeOK, ConnectionsType, Topics, clientsForKey

(* Updating one entry of a table of tables keeps its type. *)
LEMMA AddMessageType ==
  ASSUME store \in StoreType, NEW k, NEW i, NEW m \in Msgs, AddMessage(k, i, m)
  PROVE  store' \in StoreType
  BY DEF StoreType, AddMessage

LEMMA DeleteMessageType ==
  ASSUME store \in StoreType, NEW k, NEW i, DeleteMessage(k, i)
  PROVE  store' \in StoreType
  BY DEF StoreType, DeleteMessage

InflightType == [Clients -> [Ids -> Keys \cup {Null}]]

LEMMA MarkInflightType ==
  ASSUME inflight \in InflightType, NEW c, NEW i, NEW k \in Keys, markInflight(c, i, k)
  PROVE  inflight' \in InflightType
  BY DEF InflightType, markInflight

LEMMA ClearInflightType ==
  ASSUME inflight \in InflightType, NEW c, NEW i, clearInflight(c, i)
  PROVE  inflight' \in InflightType
  BY DEF InflightType, clearInflight

LEMMA OwedIncreaseType ==
  ASSUME owed \in [Clients -> [Ids -> Nat]], NEW c \in Clients, NEW i, oweAck(c, i)
  PROVE  owed' \in [Clients -> [Ids -> Nat]]
  <1>1. CASE i \in Ids
    BY <1>1 DEF oweAck
  <1>2. CASE i \notin Ids
    <2>1. [owed[c] EXCEPT ![i] = @ + 1] = owed[c]
      BY <1>2
    <2> QED
      BY <2>1 DEF oweAck
  <1> QED
    BY <1>1, <1>2

LEMMA OwedDecreaseType ==
  ASSUME owed \in [Clients -> [Ids -> Nat]], NEW c \in Clients, NEW i \in Ids,
         owed[c][i] > 0, owed' = [owed EXCEPT ![c][i] = @ - 1]
  PROVE  owed' \in [Clients -> [Ids -> Nat]]
  OBVIOUS

LEMMA StepType == TypeOK /\ TaskShape /\ [Next]_vars => (TypeOK /\ TaskShape)'
  <1> SUFFICES ASSUME TypeOK, TaskShape, [Next]_vars PROVE (TypeOK /\ TaskShape)'
    OBVIOUS
  <1> USE DEF TypeOK, TaskShape, StoreType, InflightType, ConnectionsType, PC, ReaderState, Proc, Topics,
              registryVars, clientVars, messageVars, taskVars, sendVars, wireVars,
              readVars, sweepVars
  <1>1. ASSUME NEW m \in Msgs, NEW i \in Ids, NEW ks \in TargetSets, handlePost(m, i, ks) PROVE (TypeOK /\ TaskShape)'
    BY <1>1 DEF handlePost
  <1>2. ASSUME NEW m \in Msgs, Expire(m) PROVE (TypeOK /\ TaskShape)'
    BY <1>2 DEF Expire
  <1>3. ASSUME NEW c \in Clients, NEW ts \in TopicSets, handleWs(c, ts) PROVE (TypeOK /\ TaskShape)'
    BY <1>3 DEF handleWs, register, hasWildcard
  <1>4. ASSUME NEW c \in Clients, NEW i \in Ids, takeInflight(c, i) PROVE (TypeOK /\ TaskShape)'
    <2>1. inflight' \in InflightType
      BY <1>4, ClearInflightType DEF takeInflight, clientAcks
    <2>2. owed' \in [Clients -> [Ids -> Nat]]
      BY <1>4, OwedDecreaseType DEF takeInflight, clientAcks
    <2> QED
      BY <1>4, <2>1, <2>2 DEF takeInflight, clientAcks
  <1>5. ASSUME NEW c \in Clients, ReadExit(c) PROVE (TypeOK /\ TaskShape)'
    BY <1>5 DEF ReadExit, close
  <1>6. ASSUME NEW c \in Clients, PingFail(c) PROVE (TypeOK /\ TaskShape)'
    BY <1>6 DEF PingFail, close
  <1>7. ASSUME NEW k \in Keys, NEW i \in Ids, deleteMsgById(k, i) PROVE (TypeOK /\ TaskShape)'
    BY <1>7 DEF deleteMsgById, DeleteMessage, othersUnchanged
  <1>8. ASSUME NEW k \in Keys, deleteMsgQueue(k) PROVE (TypeOK /\ TaskShape)'
    BY <1>8 DEF deleteMsgQueue, DeleteQueue, EmptyQueue, othersUnchanged
  <1>9. ASSUME deleteAll PROVE (TypeOK /\ TaskShape)'
    BY <1>9 DEF deleteAll, GetKeys, othersUnchanged
  <1>10. ASSUME NEW m \in Msgs, NEW k \in Keys, NextTarget(m, k) PROVE (TypeOK /\ TaskShape)'
    <2>1. store' \in StoreType
      BY <1>10, AddMessageType DEF NextTarget
    <2> QED
      BY <1>10, <2>1 DEF NextTarget
  <1>11. ASSUME NEW c \in Clients, NEW p \in Topics, NextTopic(c, p) PROVE (TypeOK /\ TaskShape)'
    BY <1>11 DEF NextTopic, backlog, storageKeysMatching, GetKeys, hasWildcard
  <1>12. ASSUME reconcileTick PROVE (TypeOK /\ TaskShape)'
    BY <1>12 DEF reconcileTick
  <1>13. ASSUME NEW p \in Patterns, reconcileResolve(p) PROVE (TypeOK /\ TaskShape)'
    BY <1>13 DEF reconcileResolve, storageKeysMatching, GetKeys
  <1>14. ASSUME NEW t \in Proc, NEW k \in Keys, NextKey(t, k) PROVE (TypeOK /\ TaskShape)'
    BY <1>14 DEF NextKey
  <1>15. ASSUME NEW t \in Proc, Lock(t) PROVE (TypeOK /\ TaskShape)'
    BY <1>15, ClientsForKeyType DEF Lock
  <1>16. ASSUME NEW t \in Proc, NoConns(t) PROVE (TypeOK /\ TaskShape)'
    BY <1>16 DEF NoConns
  <1>17. ASSUME NEW t \in Proc, ReadQueue(t) PROVE (TypeOK /\ TaskShape)'
    BY <1>17, GetQueueType DEF ReadQueue
  <1>18. ASSUME NEW t \in Proc, NoMsgs(t) PROVE (TypeOK /\ TaskShape)'
    BY <1>18 DEF NoMsgs, Return, unlock
  <1>19. ASSUME NEW t \in Proc, EndFlush(t) PROVE (TypeOK /\ TaskShape)'
    BY <1>19 DEF EndFlush, Return, unlock
  <1>20. ASSUME NEW t \in Proc, NEW m \in Msgs, NextMsg(t, m) PROVE (TypeOK /\ TaskShape)'
    BY <1>20 DEF NextMsg
  <1>21. ASSUME NEW t \in Proc, NEW m \in Msgs, SkipExpired(t, m) PROVE (TypeOK /\ TaskShape)'
    BY <1>21 DEF SkipExpired
  <1>22. ASSUME NEW t \in Proc, NEW c \in Clients, Mark(t, c) PROVE (TypeOK /\ TaskShape)'
    <2>1. inflight' \in InflightType
      BY <1>22, MarkInflightType DEF Mark
    <2> QED
      BY <1>22, <2>1 DEF Mark
  <1>23. ASSUME NEW t \in Proc, NEW c \in Clients, SkipClient(t, c) PROVE (TypeOK /\ TaskShape)'
    BY <1>23 DEF SkipClient, DoneWith
  <1>24. ASSUME NEW t \in Proc, WriteOk(t) PROVE (TypeOK /\ TaskShape)'
    <2>1. to[t] \in Clients
      BY <1>24 DEF WriteOk
    <2>2. owed' \in [Clients -> [Ids -> Nat]]
      BY <1>24, <2>1, OwedIncreaseType DEF WriteOk
    <2> QED
      <3>1. TypeOK'
        <4>1. got' \in [Clients -> SUBSET Msgs]
          BY <1>24, <2>1 DEF WriteOk
        <4>2. /\ pc' \in [Proc -> PC] /\ left' \in [Proc -> SUBSET Clients]
              /\ msg' \in [Proc -> Msgs \cup {Null}] /\ to' \in [Proc -> Clients \cup {Null}]
          BY <1>24 DEF WriteOk, DoneWith
        <4> QED
          BY <1>24, <2>2, <4>1, <4>2 DEF WriteOk, DoneWith
      <3>2. TaskShape'
        BY <1>24, <2>1 DEF WriteOk, DoneWith
      <3> QED
        BY <3>1, <3>2
  <1>25. ASSUME NEW t \in Proc, WriteFail(t) PROVE (TypeOK /\ TaskShape)'
    BY <1>25 DEF WriteFail
  <1>26. ASSUME NEW t \in Proc, ClearInflight(t) PROVE (TypeOK /\ TaskShape)'
    <2>1. inflight' \in InflightType
      BY <1>26, ClearInflightType DEF ClearInflight
    <2> QED
      BY <1>26, <2>1 DEF ClearInflight
  <1>27. ASSUME NEW t \in Proc, CloseConn(t) PROVE (TypeOK /\ TaskShape)'
    BY <1>27 DEF CloseConn, close, DoneWith
  <1>28. ASSUME NEW c \in Clients, AckDelete(c) PROVE (TypeOK /\ TaskShape)'
    BY <1>28 DEF AckDelete, DeleteMessage
  <1>29. ASSUME NEW c \in Clients, removeClient(c) PROVE (TypeOK /\ TaskShape)'
    BY <1>29 DEF removeClient, unregister
  <1>30. ASSUME sweepTick PROVE (TypeOK /\ TaskShape)'
    BY <1>30 DEF sweepTick, GetKeys
  <1>31. ASSUME NEW k \in Keys, sweepRead(k) PROVE (TypeOK /\ TaskShape)'
    BY <1>31, GetQueueType DEF sweepRead
  <1>32. ASSUME NEW m \in Msgs, sweepMsg(m) PROVE (TypeOK /\ TaskShape)'
    <2>1. store' \in StoreType
      BY <1>32, DeleteMessageType DEF sweepMsg
    <2> QED
      BY <1>32, <2>1 DEF sweepMsg
  <1>33. ASSUME NEW k \in Keys, deleteAllNext(k) PROVE (TypeOK /\ TaskShape)'
    BY <1>33 DEF deleteAllNext, DeleteQueue, EmptyQueue, othersUnchanged
  <1>34. CASE UNCHANGED vars
    BY <1>34 DEF vars
  <1> HIDE DEF TypeOK, TaskShape, StoreType, InflightType, ConnectionsType, PC, ReaderState, Proc, Topics,
               registryVars, clientVars, messageVars, taskVars, sendVars, wireVars,
               readVars, sweepVars
  <1>35. CASE Environment
    BY <1>1, <1>2, <1>3, <1>4, <1>5, <1>6, <1>7, <1>8, <1>9, <1>35 DEF Environment, Publish
  <1>36. ASSUME NEW t \in Proc, Start(t) PROVE (TypeOK /\ TaskShape)'
    BY <1>10, <1>11, <1>12, <1>13, <1>14, <1>36 DEF Start
  <1>37. ASSUME NEW t \in Proc, Acquire(t) PROVE (TypeOK /\ TaskShape)'
    BY <1>15, <1>16, <1>37 DEF Acquire
  <1>38. ASSUME NEW t \in Proc, Send(t) PROVE (TypeOK /\ TaskShape)'
    BY <1>17, <1>18, <1>19, <1>20, <1>21, <1>22, <1>23, <1>24, <1>25, <1>26, <1>27, <1>38 DEF Send
  <1>39. ASSUME NEW c \in Clients, Reader(c) PROVE (TypeOK /\ TaskShape)'
    BY <1>28, <1>29, <1>39 DEF Reader
  <1>40. CASE Sweeper
    BY <1>30, <1>31, <1>32, <1>40 DEF Sweeper
  <1> QED
    BY <1>33, <1>34, <1>35, <1>36, <1>37, <1>38, <1>39, <1>40 DEF Next

(* Every variable keeps its type for any sizes of the constants, under any *)
(* interleaving of the handlers, tasks, readers and the sweeper.           *)
THEOREM TypeCorrect == Spec => []TypeOK
  <1>1. TypeOK /\ TaskShape /\ [Next]_vars => (TypeOK /\ TaskShape)'
    BY StepType
  <1> QED
    BY <1>1, InitType, PTL DEF Spec

LEMMA ShapeCorrect == Spec => [](TypeOK /\ TaskShape)
  <1>1. TypeOK /\ TaskShape /\ [Next]_vars => (TypeOK /\ TaskShape)'
    BY StepType
  <1> QED
    BY <1>1, InitType, PTL DEF Spec

-----------------------------------------------------------------------------
(* The send locks. *)

LEMMA StepLocks ==
  TypeOK /\ TaskShape /\ LocksMatchTasks /\ [Next]_vars => LocksMatchTasks'
  <1> SUFFICES ASSUME TypeOK, TaskShape, LocksMatchTasks, [Next]_vars
               PROVE  LocksMatchTasks'
    OBVIOUS
  <1> USE DEF LocksMatchTasks, Holding
  <1>0. /\ pc \in [Proc -> PC] /\ key \in [Proc -> Keys \cup {Null}]
        /\ sendLocks \in [Shards -> Proc \cup {Null}]
        /\ \A t \in Proc : pc[t] # "start" => key[t] \in Keys
    BY DEF TypeOK, TaskShape
  <1>1. CASE UNCHANGED <<pc, key, sendLocks>>
    BY <1>1
  <1>2. ASSUME NEW m \in Msgs, NEW k \in Keys, NextTarget(m, k) PROVE LocksMatchTasks'
    BY <1>0, <1>2 DEF NextTarget, Proc
  <1>3. ASSUME NEW t \in Proc, NEW k \in Keys, NextKey(t, k) PROVE LocksMatchTasks'
    BY <1>0, <1>3 DEF NextKey
  <1>4. ASSUME NEW t \in Proc, Lock(t) PROVE LocksMatchTasks'
    BY <1>0, <1>4 DEF Lock, lockFree
  <1>5. ASSUME NEW t \in Proc, NoConns(t) PROVE LocksMatchTasks'
    BY <1>0, <1>5 DEF NoConns
  <1>6. ASSUME NEW t \in Proc, Holding(t), Return(t) PROVE LocksMatchTasks'
    BY <1>0, <1>6 DEF Return, unlock
  <1>7. ASSUME NEW t \in Proc, Holding(t), UNCHANGED <<key, sendLocks>>,
               NEW l \in PC \ {"start", "lock"}, pc' = [pc EXCEPT ![t] = l]
        PROVE  LocksMatchTasks'
    BY <1>0, <1>7
  <1>8. ASSUME NEW t \in Proc, Send(t) PROVE LocksMatchTasks'
    <2>1. CASE NoMsgs(t) \/ EndFlush(t)
      BY <2>1, <1>6 DEF NoMsgs, EndFlush
    <2>2. ASSUME NEW c \in Clients, SkipClient(t, c) PROVE LocksMatchTasks'
      BY <2>2, <1>7 DEF SkipClient, DoneWith, PC
    <2>3. CASE WriteOk(t) \/ CloseConn(t)
      BY <2>3, <1>7 DEF WriteOk, CloseConn, DoneWith, PC
    <2>4. CASE ReadQueue(t) \/ WriteFail(t) \/ ClearInflight(t)
      BY <2>4, <1>7 DEF ReadQueue, WriteFail, ClearInflight, PC
    <2>5. ASSUME NEW m \in Msgs, NextMsg(t, m) \/ SkipExpired(t, m) PROVE LocksMatchTasks'
      BY <2>5, <1>1, <1>7 DEF NextMsg, SkipExpired, taskVars, PC
    <2>6. ASSUME NEW c \in Clients, Mark(t, c) PROVE LocksMatchTasks'
      BY <2>6, <1>7 DEF Mark, PC
    <2> QED
      BY <1>8, <2>1, <2>2, <2>3, <2>4, <2>5, <2>6 DEF Send
  <1>9. ASSUME NEW t \in Proc, Start(t) PROVE LocksMatchTasks'
    <2>1. ASSUME NEW p \in Topics, NextTopic(t, p) \/ reconcileResolve(p)
          PROVE  LocksMatchTasks'
      BY <2>1, <1>1 DEF NextTopic, reconcileResolve
    <2>2. CASE reconcileTick
      BY <2>2, <1>1 DEF reconcileTick
    <2> QED
      BY <1>9, <1>2, <1>3, <2>1, <2>2 DEF Start, Topics
  <1>10. CASE Environment
    BY <1>10, <1>1 DEF Environment, Publish, handlePost, Expire, handleWs, takeInflight, clientAcks,
       ReadExit, PingFail, deleteMsgById, deleteMsgQueue, deleteAll, othersUnchanged, taskVars
  <1>11. ASSUME NEW c \in Clients, Reader(c) PROVE LocksMatchTasks'
    BY <1>11, <1>1 DEF Reader, AckDelete, removeClient, taskVars
  <1>12. CASE Sweeper \/ \E k \in Keys : deleteAllNext(k)
    BY <1>12, <1>1 DEF Sweeper, sweepTick, sweepRead, sweepMsg, deleteAllNext,
       othersUnchanged, taskVars
  <1>13. CASE UNCHANGED vars
    BY <1>13, <1>1 DEF vars, taskVars
  <1> QED
    BY <1>4, <1>5, <1>8, <1>9, <1>10, <1>11, <1>12, <1>13 DEF Next, Acquire

(* sendLock serializes the flushes of a key: the tasks inside sendMessages *)
(* are exactly the holders of the locks, whatever return they leave by.    *)
THEOREM LocksCorrect == Spec => []LocksMatchTasks
  <1>1. Init => LocksMatchTasks
    BY DEF Init, LocksMatchTasks, Holding
  <1>2. TypeOK /\ TaskShape /\ LocksMatchTasks /\ [Next]_vars => LocksMatchTasks'
    BY StepLocks
  <1> QED
    BY <1>1, <1>2, ShapeCorrect, PTL DEF Spec

-----------------------------------------------------------------------------
(* The way of a flush. *)

(* A flush that holds a lock serves somebody, and one that is at a message *)
(* has a connection left for it.                                           *)
FlushHasWork ==
  \A t \in Proc : /\ Holding(t) => conns[t] # {}
                  /\ pc[t] = "mark" => left[t] # {}

Shrinks(s, r) == r \subseteq s /\ r # s

(* The steps of a write that failed. *)
PastMark == {<<"mark", "write">>, <<"write", "clear">>, <<"clear", "close">>}

(* A flush comes closer to its return: it has read the queue, or there are *)
(* fewer messages left, or as many and fewer connections for the one at    *)
(* hand, or as many of both and less of a failing write.                   *)
MovesOn(t) ==
  \/ pc[t] = "read" /\ pc'[t] \in {"next", "start"}
  \/ pc[t] = "next" /\ queue[t] = {} /\ pc'[t] = "start"
  \/ pc[t] = "next" /\ Shrinks(queue[t], queue'[t]) /\ pc'[t] \in {"next", "mark"}
  \/ /\ pc[t] \in {"mark", "write", "close"} /\ Shrinks(left[t], left'[t])
     /\ queue'[t] = queue[t]
     /\ pc'[t] = IF left'[t] = {} THEN "next" ELSE "mark"
  \/ <<pc[t], pc'[t]>> \in PastMark /\ queue'[t] = queue[t] /\ left'[t] = left[t]

StaysPut(t) == UNCHANGED <<pc[t], key[t], conns[t], queue[t], msg[t], left[t], to[t]>>

HoldersMoveOn == \A t \in Proc : Holding(t) => StaysPut(t) \/ MovesOn(t)

FlushesShorten == [][HoldersMoveOn]_vars

LEMMA StepHasWork ==
  TypeOK /\ TaskShape /\ FlushHasWork /\ [Next]_vars => FlushHasWork'
  <1> SUFFICES ASSUME TypeOK, TaskShape, FlushHasWork, [Next]_vars
               PROVE  FlushHasWork'
    OBVIOUS
  <1> USE DEF FlushHasWork, Holding
  <1>0. /\ pc \in [Proc -> PC] /\ conns \in [Proc -> SUBSET Clients]
        /\ left \in [Proc -> SUBSET Clients]
        /\ \A t \in Proc : pc[t] \in {"write", "close"} => to[t] \in left[t]
    BY DEF TypeOK, TaskShape
  <1>1. CASE UNCHANGED <<pc, conns, left>>
    BY <1>1
  <1>2. ASSUME NEW t \in Proc, UNCHANGED left, \/ pc' = [pc EXCEPT ![t] = "start"]
                                               \/ pc' = [pc EXCEPT ![t] = "lock"],
               \A u \in Proc : u # t => conns'[u] = conns[u]
        PROVE  FlushHasWork'
    BY <1>0, <1>2
  <1>3. ASSUME NEW t \in Proc, Start(t) PROVE FlushHasWork'
    <2>1. ASSUME NEW m \in Msgs, NEW k \in Keys, NextTarget(m, k) PROVE FlushHasWork'
      BY <2>1, <1>2 DEF NextTarget, sendVars, Proc
    <2>2. ASSUME NEW k \in Keys, NextKey(t, k) PROVE FlushHasWork'
      BY <2>2, <1>2 DEF NextKey, sendVars
    <2>3. ASSUME NEW p \in Topics, NextTopic(t, p) \/ reconcileResolve(p)
          PROVE  FlushHasWork'
      BY <2>3, <1>1 DEF NextTopic, reconcileResolve, sendVars
    <2>4. CASE reconcileTick
      BY <2>4, <1>1 DEF reconcileTick, sendVars
    <2> QED
      BY <1>3, <2>1, <2>2, <2>3, <2>4 DEF Start, Topics
  <1>4. ASSUME NEW t \in Proc, Lock(t) PROVE FlushHasWork'
    <2> DEFINE C == clientsForKey(key[t])
    <2>1. /\ C # {} /\ conns' = [conns EXCEPT ![t] = C] /\ pc' = [pc EXCEPT ![t] = "read"]
          /\ left' = left
      BY <1>4 DEF Lock
    <2> HIDE DEF C
    <2> QED
      BY <1>0, <2>1
  <1>5. ASSUME NEW t \in Proc, NoConns(t) PROVE FlushHasWork'
    BY <1>5, <1>2 DEF NoConns, sendVars
  <1>6. ASSUME NEW t \in Proc, Return(t) PROVE FlushHasWork'
    BY <1>0, <1>6 DEF Return
  <1>7. ASSUME NEW t \in Proc, NEW c \in left[t], Holding(t), DoneWith(t, c)
        PROVE  FlushHasWork'
    BY <1>0, <1>7 DEF DoneWith
  <1>8. ASSUME NEW t \in Proc, Holding(t), UNCHANGED <<conns, left>>,
               NEW l \in PC \ {"mark"}, pc' = [pc EXCEPT ![t] = l]
        PROVE  FlushHasWork'
    BY <1>0, <1>8
  <1>9. ASSUME NEW t \in Proc, Send(t) PROVE FlushHasWork'
    <2>1. CASE NoMsgs(t) \/ EndFlush(t)
      BY <2>1, <1>6 DEF NoMsgs, EndFlush
    <2>2. ASSUME NEW c \in Clients, SkipClient(t, c) PROVE FlushHasWork'
      BY <2>2, <1>7 DEF SkipClient
    <2>3. CASE WriteOk(t) \/ CloseConn(t)
      BY <2>3, <1>0, <1>7 DEF WriteOk, CloseConn
    <2>4. CASE ReadQueue(t) \/ WriteFail(t) \/ ClearInflight(t)
      BY <2>4, <1>8 DEF ReadQueue, WriteFail, ClearInflight, PC, sendVars
    <2>5. ASSUME NEW m \in Msgs, NextMsg(t, m) PROVE FlushHasWork'
      BY <2>5, <1>0 DEF NextMsg
    <2>6. ASSUME NEW m \in Msgs, SkipExpired(t, m) PROVE FlushHasWork'
      BY <2>6, <1>1 DEF SkipExpired, taskVars
    <2>7. ASSUME NEW c \in Clients, Mark(t, c) PROVE FlushHasWork'
      BY <2>7, <1>8 DEF Mark, PC
    <2> QED
      BY <1>9, <2>1, <2>2, <2>3, <2>4, <2>5, <2>6, <2>7 DEF Send
  <1>10. CASE Environment
    BY <1>10, <1>1 DEF Environment, Publish, handlePost, Expire, handleWs, takeInflight, clientAcks,
       ReadExit, PingFail, deleteMsgById, deleteMsgQueue, deleteAll, othersUnchanged,
       taskVars, sendVars
  <1>11. ASSUME NEW c \in Clients, Reader(c) PROVE FlushHasWork'
    BY <1>11, <1>1 DEF Reader, AckDelete, removeClient, taskVars, sendVars
  <1>12. CASE Sweeper \/ \E k \in Keys : deleteAllNext(k)
    BY <1>12, <1>1 DEF Sweeper, sweepTick, sweepRead, sweepMsg, deleteAllNext,
       othersUnchanged, taskVars, sendVars
  <1>13. CASE UNCHANGED vars
    BY <1>13, <1>1 DEF vars, taskVars, sendVars
  <1> QED
    BY <1>3, <1>4, <1>5, <1>9, <1>10, <1>11, <1>12, <1>13 DEF Next, Acquire

LEMMA HasWorkCorrect == Spec => []FlushHasWork
  <1>1. Init => FlushHasWork
    BY DEF Init, FlushHasWork, Holding
  <1>2. TypeOK /\ TaskShape /\ FlushHasWork /\ [Next]_vars => FlushHasWork'
    BY StepHasWork
  <1> QED
    BY <1>1, <1>2, ShapeCorrect, PTL DEF Spec

LEMMA StepMovesOn ==
  TypeOK /\ TaskShape /\ [Next]_vars => HoldersMoveOn
  <1> SUFFICES ASSUME TypeOK, TaskShape, [Next]_vars, NEW t \in Proc, Holding(t)
               PROVE  StaysPut(t) \/ MovesOn(t)
    BY DEF HoldersMoveOn
  <1> DEFINE Goal == StaysPut(t) \/ MovesOn(t)
  <1>0. /\ pc \in [Proc -> PC] /\ key \in [Proc -> Keys \cup {Null}]
        /\ conns \in [Proc -> SUBSET Clients]
        /\ queue \in [Proc -> SUBSET Msgs] /\ msg \in [Proc -> Msgs \cup {Null}]
        /\ left \in [Proc -> SUBSET Clients] /\ to \in [Proc -> Clients \cup {Null}]
        /\ pc[t] \in {"write", "close"} => to[t] \in left[t]
    BY DEF TypeOK, TaskShape
  <1>1. CASE UNCHANGED <<pc, key, sendVars>>
    BY <1>1 DEF StaysPut, sendVars
  <1>2. ASSUME NEW u \in Proc, Start(u) \/ Acquire(u) PROVE Goal
    <2>1. ASSUME NEW v \in Proc, NEW k \in Keys, NextTarget(v, k) \/ NextKey(v, k)
          PROVE  Goal
      BY <2>1, <1>0 DEF NextTarget, NextKey, StaysPut, Holding, sendVars
    <2>2. ASSUME NEW p \in Topics, NextTopic(u, p) \/ reconcileResolve(p) PROVE Goal
      BY <2>2, <1>1 DEF NextTopic, reconcileResolve
    <2>3. CASE reconcileTick
      BY <2>3, <1>1 DEF reconcileTick
    <2>4. CASE Lock(u)
      BY <2>4, <1>0 DEF Lock, StaysPut, Holding
    <2>5. CASE NoConns(u)
      BY <2>5, <1>0 DEF NoConns, StaysPut, Holding, sendVars
    <2> QED
      BY <1>2, <2>1, <2>2, <2>3, <2>4, <2>5 DEF Start, Acquire, Topics
  <1>3. ASSUME NEW u \in Proc, Send(u), u # t PROVE Goal
    <2>1. CASE NoMsgs(u) \/ EndFlush(u)
      BY <2>1, <1>0, <1>3 DEF NoMsgs, EndFlush, Return, StaysPut
    <2>2. ASSUME NEW c \in Clients, DoneWith(u, c) PROVE Goal
      BY <2>2, <1>0, <1>3 DEF DoneWith, StaysPut
    <2>3. CASE ReadQueue(u) \/ WriteFail(u) \/ ClearInflight(u)
      BY <2>3, <1>0, <1>3 DEF ReadQueue, WriteFail, ClearInflight, StaysPut, sendVars
    <2>4. ASSUME NEW m \in Msgs, NextMsg(u, m) \/ SkipExpired(u, m) PROVE Goal
      BY <2>4, <1>0, <1>3 DEF NextMsg, SkipExpired, StaysPut, taskVars
    <2>5. ASSUME NEW c \in Clients, Mark(u, c) PROVE Goal
      BY <2>5, <1>0, <1>3 DEF Mark, StaysPut
    <2>6. CASE WriteOk(u) \/ CloseConn(u)
      <3>1. DoneWith(u, to[u]) /\ to[u] \in Clients
        BY <2>6, <1>0 DEF WriteOk, CloseConn, TypeOK, TaskShape
      <3> QED
        BY <3>1, <2>2
    <2> QED
      BY <1>3, <2>1, <2>2, <2>3, <2>4, <2>5, <2>6 DEF Send, SkipClient
  <1>4. CASE Send(t)
    <2> USE DEF MovesOn
    <2>1. CASE NoMsgs(t) \/ EndFlush(t)
      BY <2>1, <1>0 DEF NoMsgs, EndFlush, Return
    <2>2. ASSUME NEW c \in left[t], DoneWith(t, c), pc[t] \in {"mark", "write", "close"}
          PROVE  Goal
      <3>1. /\ left'[t] = left[t] \ {c} /\ queue'[t] = queue[t]
            /\ pc'[t] = IF left[t] = {c} THEN "next" ELSE "mark"
        BY <2>2, <1>0 DEF DoneWith
      <3>2. Shrinks(left[t], left'[t])
        BY <3>1, <2>2 DEF Shrinks
      <3>3. left'[t] = {} <=> left[t] = {c}
        BY <3>1, <2>2
      <3> QED
        BY <2>2, <3>1, <3>2, <3>3
    <2>3. CASE ReadQueue(t) \/ WriteFail(t) \/ ClearInflight(t)
      BY <2>3, <1>0 DEF ReadQueue, WriteFail, ClearInflight, PastMark, sendVars
    <2>4. ASSUME NEW m \in Msgs, NextMsg(t, m) \/ SkipExpired(t, m) PROVE Goal
      BY <2>4, <1>0 DEF NextMsg, SkipExpired, Shrinks, taskVars
    <2>5. ASSUME NEW c \in Clients, Mark(t, c) PROVE Goal
      BY <2>5, <1>0 DEF Mark, PastMark
    <2>6. ASSUME NEW c \in Clients, SkipClient(t, c) PROVE Goal
      BY <2>6, <2>2 DEF SkipClient
    <2>7. CASE WriteOk(t) \/ CloseConn(t)
      BY <2>7, <1>0, <2>2 DEF WriteOk, CloseConn
    <2> QED
      BY <1>4, <2>1, <2>3, <2>4, <2>5, <2>6, <2>7 DEF Send
  <1>5. CASE Environment
    BY <1>5, <1>1 DEF Environment, Publish, handlePost, Expire, handleWs, takeInflight, clientAcks,
       ReadExit, PingFail, deleteMsgById, deleteMsgQueue, deleteAll, othersUnchanged, taskVars
  <1>6. ASSUME NEW c \in Clients, Reader(c) PROVE Goal
    BY <1>6, <1>1 DEF Reader, AckDelete, removeClient, taskVars
  <1>7. CASE Sweeper \/ \E k \in Keys : deleteAllNext(k)
    BY <1>7, <1>1 DEF Sweeper, sweepTick, sweepRead, sweepMsg, deleteAllNext,
       othersUnchanged, taskVars
  <1>8. CASE UNCHANGED vars
    BY <1>8, <1>1 DEF vars, taskVars
  <1> QED
    BY <1>2, <1>3, <1>4, <1>5, <1>6, <1>7, <1>8 DEF Next

(* The heart of FlushesEnd: a flush that holds a send lock always has a    *)
(* step of its own to take, and each one brings it closer to its return.   *)
(* It works off what it read: nothing that is published, connected, closed *)
(* or deleted meanwhile, and no other flush, lengthens or disturbs it.     *)
THEOREM FlushProgress == Spec => []FlushHasWork /\ FlushesShorten
  <1>1. TypeOK /\ TaskShape /\ [Next]_vars => HoldersMoveOn
    BY StepMovesOn
  <1>2. FlushesShorten <=> [][HoldersMoveOn]_vars
    BY DEF FlushesShorten
  <1> QED
    BY <1>1, <1>2, ShapeCorrect, HasWorkCorrect, PTL DEF Spec

-----------------------------------------------------------------------------
(* Queues and tasks hold posted messages only. *)

LEMMA StepPosted ==
  TypeOK /\ TaskShape /\ QueuesHoldPosted /\ [Next]_vars => QueuesHoldPosted'
  <1> SUFFICES ASSUME TypeOK, TaskShape, QueuesHoldPosted, [Next]_vars
               PROVE  QueuesHoldPosted'
    OBVIOUS
  <1> USE DEF QueuesHoldPosted, PostedFor
  <1>0. /\ store \in StoreType
        /\ idOf \in [Msgs -> Ids \cup {Null}] /\ targets \in [Msgs -> SUBSET Keys]
        /\ pc \in [Proc -> PC] /\ key \in [Proc -> Keys \cup {Null}]
        /\ todo \in [Proc -> SUBSET Topics]
        /\ queue \in [Proc -> SUBSET Msgs] /\ msg \in [Proc -> Msgs \cup {Null}]
        /\ \A t \in Proc : pc[t] # "start" => key[t] \in Keys
    BY DEF TypeOK, TaskShape
  <1>1. CASE UNCHANGED <<store, idOf, targets, todo, pc, key, queue, msg>>
    BY <1>1
  <1>2. ASSUME NEW m \in Msgs, NEW i \in Ids, NEW ks \in TargetSets, handlePost(m, i, ks)
        PROVE  QueuesHoldPosted'
    BY <1>0, <1>2 DEF handlePost, taskVars, sendVars, StoreType, Proc
  <1>3. ASSUME UNCHANGED <<idOf, targets, pc, key, queue, msg>>,
               \A m \in Msgs : todo'[m] = todo[m],
               \A k \in Keys, i \in Ids : store'[k][i] \in {store[k][i], Null}
        PROVE  QueuesHoldPosted'
    BY <1>0, <1>3
  <1>4. ASSUME NEW k, NEW i, DeleteMessage(k, i)
        PROVE  \A l \in Keys, j \in Ids : store'[l][j] \in {store[l][j], Null}
    BY <1>0, <1>4 DEF DeleteMessage, StoreType
  <1>5. ASSUME NEW k, DeleteQueue(k)
        PROVE  \A l \in Keys, j \in Ids : store'[l][j] \in {store[l][j], Null}
    BY <1>0, <1>5 DEF DeleteQueue, EmptyQueue, StoreType
  <1>6. ASSUME NEW m \in Msgs, NEW k \in Keys, NextTarget(m, k) PROVE QueuesHoldPosted'
    <2>1. \A l \in Keys, j \in Ids : store'[l][j] # store[l][j] =>
            l = k /\ j = idOf[m] /\ store'[l][j] = m
      BY <1>0, <1>6 DEF NextTarget, AddMessage, StoreType
    <2>2. PostedFor(m, k) /\ pc[m] = "start"
      BY <1>6 DEF NextTarget
    <2>3. /\ UNCHANGED <<idOf, targets, queue, msg>>
          /\ \A t \in Proc : t # m => pc'[t] = pc[t] /\ key'[t] = key[t]
          /\ \A t \in Proc : todo'[t] \subseteq todo[t]
      BY <1>0, <1>6 DEF NextTarget, messageVars, sendVars, Proc
    <2>4. \A l \in Keys, j \in Ids : store'[l][j] # Null =>
            idOf[store'[l][j]] = j /\ PostedFor(store'[l][j], l)
      BY <2>1, <2>2
    <2> QED
      BY <2>2, <2>3, <2>4 DEF Proc
  <1>7. ASSUME NEW t \in Proc, Start(t) PROVE QueuesHoldPosted'
    <2>1. ASSUME NEW k \in Keys, NextKey(t, k) PROVE QueuesHoldPosted'
      BY <1>0, <2>1 DEF NextKey, messageVars, sendVars
    <2>2. ASSUME t \in Clients, NEW p \in Topics, NextTopic(t, p) PROVE QueuesHoldPosted'
      BY <1>0, <1>3, <2>2 DEF NextTopic, messageVars, sendVars
    <2>3. ASSUME NEW p \in Patterns, reconcileResolve(p) PROVE QueuesHoldPosted'
      BY <1>0, <1>3, <2>3 DEF reconcileResolve, messageVars, sendVars, Proc
    <2>4. CASE reconcileTick
      BY <1>0, <1>3, <2>4 DEF reconcileTick, messageVars, sendVars, Proc
    <2> QED
      BY <1>6, <1>7, <2>1, <2>2, <2>3, <2>4 DEF Start
  <1>8. ASSUME NEW t \in Proc, Acquire(t) PROVE QueuesHoldPosted'
    BY <1>0, <1>8 DEF Acquire, Lock, NoConns, messageVars, sendVars
  <1>9. ASSUME NEW t \in Proc, Send(t) PROVE QueuesHoldPosted'
    <2>1. CASE NoMsgs(t) \/ EndFlush(t)
      BY <1>0, <2>1 DEF NoMsgs, EndFlush, Return, messageVars
    <2>2. CASE ReadQueue(t)
      BY <1>0, <2>2 DEF ReadQueue, GetQueue, messageVars
    <2>3. ASSUME NEW m \in Msgs, NextMsg(t, m) \/ SkipExpired(t, m) PROVE QueuesHoldPosted'
      BY <1>0, <2>3 DEF NextMsg, SkipExpired, messageVars, taskVars
    <2>4. ASSUME NEW c \in Clients, Mark(t, c) PROVE QueuesHoldPosted'
      BY <1>0, <2>4 DEF Mark, messageVars
    <2>5. ASSUME NEW c, DoneWith(t, c), UNCHANGED <<store, messageVars>>,
                 pc[t] \in {"mark", "write", "close"}
          PROVE  QueuesHoldPosted'
      BY <1>0, <2>5 DEF DoneWith, messageVars
    <2>6. ASSUME NEW c \in Clients, SkipClient(t, c) PROVE QueuesHoldPosted'
      BY <2>5, <2>6 DEF SkipClient
    <2>7. CASE WriteOk(t) \/ CloseConn(t)
      BY <2>5, <2>7 DEF WriteOk, CloseConn
    <2>8. CASE WriteFail(t) \/ ClearInflight(t)
      BY <1>0, <2>8 DEF WriteFail, ClearInflight, messageVars, sendVars
    <2> QED
      BY <1>9, <2>1, <2>2, <2>3, <2>4, <2>6, <2>7, <2>8 DEF Send
  <1>10. CASE Environment
    <2> USE DEF messageVars, taskVars, sendVars
    <2>1. ASSUME NEW c \in Clients, NEW ts \in TopicSets, handleWs(c, ts)
          PROVE  QueuesHoldPosted'
      BY <1>0, <1>3, <2>1 DEF handleWs
    <2>2. ASSUME NEW k \in Keys, NEW i \in Ids, deleteMsgById(k, i) PROVE QueuesHoldPosted'
      BY <1>3, <1>4, <2>2 DEF deleteMsgById, othersUnchanged
    <2>3. ASSUME NEW k \in Keys, deleteMsgQueue(k) PROVE QueuesHoldPosted'
      BY <1>3, <1>5, <2>3 DEF deleteMsgQueue, othersUnchanged
    <2>4. CASE \/ \E m \in Msgs : Expire(m)
               \/ \E c \in Clients, i \in Ids : takeInflight(c, i)
               \/ \E c \in Clients : ReadExit(c) \/ PingFail(c)
               \/ deleteAll
      BY <1>1, <2>4 DEF Expire, takeInflight, clientAcks, ReadExit, PingFail, deleteAll, othersUnchanged
    <2> QED
      BY <1>10, <1>2, <2>1, <2>2, <2>3, <2>4 DEF Environment, Publish
  <1>11. ASSUME NEW c \in Clients, Reader(c) PROVE QueuesHoldPosted'
    <2> USE DEF messageVars, taskVars, sendVars
    <2>1. CASE AckDelete(c)
      BY <1>3, <1>4, <2>1 DEF AckDelete
    <2>2. CASE removeClient(c)
      BY <1>1, <2>2 DEF removeClient
    <2> QED
      BY <1>11, <2>1, <2>2 DEF Reader
  <1>12. CASE Sweeper
    <2> USE DEF messageVars, taskVars, sendVars
    <2>1. ASSUME NEW m \in Msgs, sweepMsg(m) PROVE QueuesHoldPosted'
      BY <1>1, <1>3, <1>4, <2>1 DEF sweepMsg
    <2>2. CASE sweepTick \/ \E k \in Keys : sweepRead(k)
      BY <1>1, <2>2 DEF sweepTick, sweepRead
    <2> QED
      BY <1>12, <2>1, <2>2 DEF Sweeper
  <1>13. ASSUME NEW k \in Keys, deleteAllNext(k) PROVE QueuesHoldPosted'
    BY <1>3, <1>5, <1>13 DEF deleteAllNext, othersUnchanged, messageVars, taskVars, sendVars
  <1>14. CASE UNCHANGED vars
    BY <1>14, <1>1 DEF vars, messageVars, taskVars, sendVars
  <1> QED
    BY <1>7, <1>8, <1>9, <1>10, <1>11, <1>12, <1>13, <1>14 DEF Next

LEMMA PostedCorrect == Spec => []QueuesHoldPosted
  <1>1. Init => QueuesHoldPosted
    BY DEF Init, Init_Storage, EmptyQueue, QueuesHoldPosted, PostedFor, Proc
  <1>2. TypeOK /\ TaskShape /\ QueuesHoldPosted /\ [Next]_vars => QueuesHoldPosted'
    BY StepPosted
  <1> QED
    BY <1>1, <1>2, ShapeCorrect, PTL DEF Spec

-----------------------------------------------------------------------------
(* In-flight entries. *)

LEMMA StepInflight ==
  TypeOK /\ TaskShape /\ QueuesHoldPosted /\ OneOwner /\ [Next]_vars => OneOwner'
  <1> SUFFICES ASSUME TypeOK, TaskShape, QueuesHoldPosted, OneOwner, [Next]_vars
               PROVE  OneOwner'
    OBVIOUS
  <1> USE DEF OneOwner, WriterOwnsEntry, WritersApart, CopyOwnsEntry, Writing
  <1>0. /\ idOf \in [Msgs -> Ids \cup {Null}]
        /\ pc \in [Proc -> PC] /\ key \in [Proc -> Keys \cup {Null}]
        /\ msg \in [Proc -> Msgs \cup {Null}] /\ to \in [Proc -> Clients \cup {Null}]
        /\ inflight \in [Clients -> [Ids -> Keys \cup {Null}]]
        /\ owed \in [Clients -> [Ids -> Nat]]
    BY DEF TypeOK, ConnectionsType
  <1>a. \A t \in Proc : pc[t] \in {"mark", "write", "clear", "close"} =>
          msg[t] \in Msgs /\ idOf[msg[t]] \in Ids /\ key[t] \in Keys
    BY DEF TaskShape, QueuesHoldPosted, PostedFor
  <1>b. \A t \in Proc : pc[t] \in {"write", "clear", "close"} => to[t] \in Clients
    BY DEF TypeOK, TaskShape
  <1>1. CASE UNCHANGED <<idOf, pc, key, msg, to, inflight, owed>>
    BY <1>1
  <1>2. ASSUME NEW m \in Msgs, NEW i \in Ids, NEW ks \in TargetSets, handlePost(m, i, ks)
        PROVE  OneOwner'
    <2>1. \A t \in Proc : Writing(t) => idOf'[msg[t]] = idOf[msg[t]]
      BY <1>0, <1>a, <1>2 DEF handlePost
    <2> QED
      BY <1>2, <2>1 DEF handlePost, sendVars, clientVars, wireVars
  (* A step of a task that is not writing before or after it. *)
  <1>3. ASSUME NEW t \in Proc, ~Writing(t), ~Writing(t)',
               UNCHANGED <<idOf, inflight, owed>>,
               \A u \in Proc \ {t} : /\ pc'[u] = pc[u] /\ key'[u] = key[u]
                                     /\ msg'[u] = msg[u] /\ to'[u] = to[u]
        PROVE  OneOwner'
    BY <1>3
  <1>4. ASSUME NEW t \in Proc, Start(t) PROVE OneOwner'
    <2> USE DEF messageVars, sendVars, clientVars, wireVars
    <2>1. ASSUME NEW k \in Keys, NextKey(t, k) \/ NextTarget(t, k) PROVE OneOwner'
      BY <1>0, <1>3, <2>1 DEF NextKey, NextTarget
    <2>2. ASSUME NEW p \in Topics, NextTopic(t, p) \/ reconcileResolve(p) PROVE OneOwner'
      BY <1>1, <2>2 DEF NextTopic, reconcileResolve
    <2>3. CASE reconcileTick
      BY <1>1, <2>3 DEF reconcileTick
    <2> QED
      BY <1>4, <2>1, <2>2, <2>3 DEF Start, Topics
  <1>5. ASSUME NEW t \in Proc, Acquire(t) PROVE OneOwner'
    BY <1>0, <1>3, <1>5 DEF Acquire, Lock, NoConns, messageVars, sendVars, clientVars, wireVars
  <1>6. ASSUME NEW t \in Proc, Send(t) PROVE OneOwner'
    <2> USE DEF messageVars, sendVars, clientVars, wireVars, taskVars
    <2>1. CASE NoMsgs(t) \/ EndFlush(t)
      BY <1>0, <1>3, <2>1 DEF NoMsgs, EndFlush, Return
    <2>2. CASE ReadQueue(t)
      BY <1>0, <1>3, <2>2 DEF ReadQueue
    <2>3. ASSUME NEW m \in Msgs, NextMsg(t, m) \/ SkipExpired(t, m) PROVE OneOwner'
      BY <1>0, <1>1, <1>3, <2>3 DEF NextMsg, SkipExpired
    <2>4. ASSUME NEW c \in Clients, SkipClient(t, c) PROVE OneOwner'
      BY <1>0, <1>3, <2>4 DEF SkipClient, DoneWith
    <2>5. CASE CloseConn(t)
      BY <1>0, <1>3, <2>5 DEF CloseConn, DoneWith
    <2>6. ASSUME NEW c \in Clients, Mark(t, c) PROVE OneOwner'
      <3> DEFINE i == idOf[msg[t]]
      <3>1. /\ inflight[c][i] = Null /\ owed[c][i] = 0 /\ i \in Ids /\ key[t] \in Keys
            /\ \A u \in Proc : Writing(u) /\ to[u] = c => idOf[msg[u]] # i
        BY <1>0, <1>a, <2>6 DEF Mark, canMark
      <3>2. /\ inflight'[c][i] = key[t]
            /\ \A d \in Clients, j \in Ids : d # c \/ j # i => inflight'[d][j] = inflight[d][j]
        BY <1>0, <2>6, <3>1 DEF Mark, markInflight
      <3>3. /\ pc'[t] = "write" /\ to'[t] = c
            /\ \A u \in Proc \ {t} : pc'[u] = pc[u] /\ to'[u] = to[u]
            /\ UNCHANGED <<idOf, msg, key, owed>>
        BY <1>0, <2>6 DEF Mark
      <3> QED
        <4>1. WriterOwnsEntry'
          BY <1>0, <1>a, <1>b, <3>1, <3>2, <3>3
        <4>2. WritersApart'
          BY <3>1, <3>3
        <4>3. CopyOwnsEntry'
          BY <1>0, <3>1, <3>2, <3>3
        <4> QED
          BY <4>1, <4>2, <4>3
    <2>7. CASE WriteOk(t)
      <3> DEFINE i == idOf[msg[t]]
                 c == to[t]
      <3>1. c \in Clients /\ i \in Ids /\ inflight[c][i] \in Keys /\ owed[c][i] = 0
        BY <1>0, <1>a, <1>b, <2>7 DEF WriteOk
      <3>2. /\ owed'[c][i] = 1
            /\ \A d \in Clients, j \in Ids : d # c \/ j # i => owed'[d][j] = owed[d][j]
        BY <1>0, <2>7, <3>1 DEF WriteOk, oweAck
      <3>3. /\ Writing(t) /\ ~Writing(t)'
            /\ \A u \in Proc \ {t} : pc'[u] = pc[u] /\ to'[u] = to[u] /\ msg'[u] = msg[u]
            /\ UNCHANGED <<idOf, key, inflight>>
        BY <1>0, <2>7 DEF WriteOk, DoneWith
      <3> QED
        <4>1. WriterOwnsEntry'
          BY <1>0, <1>a, <1>b, <3>1, <3>2, <3>3
        <4>2. WritersApart'
          BY <3>1, <3>3
        <4>3. CopyOwnsEntry'
          <5> SUFFICES ASSUME NEW d \in Clients, NEW j \in Ids, owed'[d][j] # 0
                       PROVE  owed'[d][j] = 1 /\ inflight'[d][j] # Null
            BY DEF CopyOwnsEntry
          <5>1. CASE d = c /\ j = i
            BY <5>1, <3>1, <3>2, <3>3
          <5>2. CASE d # c \/ j # i
            BY <5>2, <1>b, <3>2, <3>3
          <5> QED
            BY <5>1, <5>2
        <4> QED
          BY <4>1, <4>2, <4>3
    <2>8. CASE WriteFail(t)
      BY <1>0, <2>8 DEF WriteFail
    <2>9. CASE ClearInflight(t)
      <3> DEFINE i == idOf[msg[t]]
                 c == to[t]
      <3>1. c \in Clients /\ i \in Ids /\ owed[c][i] = 0
        BY <1>0, <1>a, <1>b, <2>9 DEF ClearInflight
      <3>2. \A d \in Clients, j \in Ids : d # c \/ j # i => inflight'[d][j] = inflight[d][j]
        BY <1>0, <2>9, <3>1 DEF ClearInflight, clearInflight
      <3>3. /\ Writing(t) /\ ~Writing(t)'
            /\ \A u \in Proc \ {t} : pc'[u] = pc[u]
            /\ UNCHANGED <<idOf, msg, to, key, owed>>
        BY <1>0, <2>9 DEF ClearInflight
      <3> QED
        <4>1. WriterOwnsEntry'
          BY <1>0, <1>a, <1>b, <3>1, <3>2, <3>3
        <4>2. WritersApart'
          BY <3>1, <3>3
        <4>3. CopyOwnsEntry'
          BY <1>0, <3>1, <3>2, <3>3
        <4> QED
          BY <4>1, <4>2, <4>3
    <2> QED
      BY <1>6, <2>1, <2>2, <2>3, <2>4, <2>5, <2>6, <2>7, <2>8, <2>9 DEF Send
  <1>7. ASSUME NEW c \in Clients, NEW i \in Ids, takeInflight(c, i) PROVE OneOwner'
    <2>1. owed[c][i] = 1 /\ owed'[c][i] = 0
      BY <1>0, <1>7 DEF takeInflight, clientAcks
    <2>2. \A d \in Clients, j \in Ids : d # c \/ j # i =>
            owed'[d][j] = owed[d][j] /\ inflight'[d][j] = inflight[d][j]
      BY <1>0, <1>7 DEF takeInflight, clientAcks, clearInflight
    <2>3. UNCHANGED <<idOf, pc, key, msg, to>>
      BY <1>7 DEF takeInflight, clientAcks, messageVars, sendVars, taskVars
    <2>4. \A t \in Proc : Writing(t) => to[t] # c \/ idOf[msg[t]] # i
      BY <2>1
    <2> QED
      <3>1. WriterOwnsEntry'
        BY <1>a, <1>b, <2>2, <2>3, <2>4
      <3>2. WritersApart'
        BY <2>3
      <3>3. CopyOwnsEntry'
        BY <2>1, <2>2
      <3> QED
        BY <3>1, <3>2, <3>3
  <1>8. CASE Environment
    <2> USE DEF messageVars, taskVars, sendVars, clientVars, wireVars
    <2>1. CASE \/ \E m \in Msgs : Expire(m)
               \/ \E c \in Clients, ts \in TopicSets : handleWs(c, ts)
               \/ \E c \in Clients : ReadExit(c) \/ PingFail(c)
               \/ \E k \in Keys, i \in Ids : deleteMsgById(k, i)
               \/ \E k \in Keys : deleteMsgQueue(k)
               \/ deleteAll
      BY <1>1, <2>1 DEF Expire, handleWs, ReadExit, PingFail, deleteMsgById, deleteMsgQueue,
         deleteAll, othersUnchanged
    <2> QED
      BY <1>2, <1>7, <1>8, <2>1 DEF Environment, Publish
  <1>9. ASSUME NEW c \in Clients, Reader(c) PROVE OneOwner'
    BY <1>1, <1>9 DEF Reader, AckDelete, removeClient, messageVars, taskVars, sendVars,
       clientVars, wireVars
  <1>10. CASE Sweeper \/ \E k \in Keys : deleteAllNext(k)
    BY <1>1, <1>10 DEF Sweeper, sweepTick, sweepRead, sweepMsg, deleteAllNext,
       othersUnchanged, messageVars, taskVars, sendVars, clientVars, wireVars
  <1>11. CASE UNCHANGED vars
    BY <1>1, <1>11 DEF vars, messageVars, taskVars, sendVars, clientVars, wireVars
  <1> QED
    BY <1>4, <1>5, <1>6, <1>8, <1>9, <1>10, <1>11 DEF Next

LEMMA OneOwnerCorrect == Spec => []OneOwner
  <1>1. Init => OneOwner
    BY DEF Init, OneOwner, WriterOwnsEntry, WritersApart, CopyOwnsEntry, Writing
  <1>2. TypeOK /\ TaskShape /\ QueuesHoldPosted /\ OneOwner /\ [Next]_vars => OneOwner'
    BY StepInflight
  <1> QED
    BY <1>1, <1>2, ShapeCorrect, PostedCorrect, PTL DEF Spec

(* No entry loses its owner. *)
LEMMA StepEntry ==
  TypeOK /\ TaskShape /\ QueuesHoldPosted /\ OneOwner /\ EntryOwned /\ [Next]_vars => EntryOwned'
  <1> SUFFICES ASSUME TypeOK, TaskShape, QueuesHoldPosted, OneOwner, EntryOwned, [Next]_vars
               PROVE  EntryOwned'
    OBVIOUS
  <1> USE DEF EntryOwned, Writing
  <1>0. /\ idOf \in [Msgs -> Ids \cup {Null}]
        /\ pc \in [Proc -> PC]
        /\ msg \in [Proc -> Msgs \cup {Null}] /\ to \in [Proc -> Clients \cup {Null}]
        /\ inflight \in [Clients -> [Ids -> Keys \cup {Null}]]
        /\ owed \in [Clients -> [Ids -> Nat]]
    BY DEF TypeOK, ConnectionsType
  <1>a. \A t \in Proc : pc[t] \in {"mark", "write", "clear", "close"} =>
          msg[t] \in Msgs /\ idOf[msg[t]] \in Ids
    BY DEF TaskShape, QueuesHoldPosted, PostedFor
  <1>b. \A t \in Proc : Writing(t) => to[t] \in Clients /\ owed[to[t]][idOf[msg[t]]] = 0
    BY DEF TypeOK, TaskShape, OneOwner, WriterOwnsEntry
  <1>1. CASE UNCHANGED <<idOf, pc, msg, to, inflight, owed>>
    BY <1>1
  <1>2. ASSUME NEW m \in Msgs, NEW i \in Ids, NEW ks \in TargetSets, handlePost(m, i, ks)
        PROVE  EntryOwned'
    <2>1. \A t \in Proc : Writing(t) => idOf'[msg[t]] = idOf[msg[t]]
      BY <1>0, <1>a, <1>2 DEF handlePost
    <2> QED
      BY <1>2, <2>1 DEF handlePost, sendVars, clientVars, wireVars
  (* A step of a task that is not writing before it. *)
  <1>3. ASSUME NEW t \in Proc, ~Writing(t), UNCHANGED <<idOf, inflight, owed>>,
               \A u \in Proc \ {t} : pc'[u] = pc[u] /\ msg'[u] = msg[u] /\ to'[u] = to[u]
        PROVE  EntryOwned'
    <2> SUFFICES ASSUME NEW d \in Clients, NEW j \in Ids, inflight[d][j] # Null, owed[d][j] # 1
                 PROVE  \E u \in Proc : Writing(u)' /\ to'[u] = d /\ idOf[msg'[u]] = j
      BY <1>3
    <2>1. PICK u \in Proc : Writing(u) /\ to[u] = d /\ idOf[msg[u]] = j
      OBVIOUS
    <2> QED
      BY <1>3, <2>1
  <1>4. ASSUME NEW t \in Proc, Start(t) PROVE EntryOwned'
    <2> USE DEF messageVars, sendVars, clientVars, wireVars
    <2>1. ASSUME NEW k \in Keys, NextKey(t, k) \/ NextTarget(t, k) PROVE EntryOwned'
      BY <1>0, <1>3, <2>1 DEF NextKey, NextTarget
    <2>2. ASSUME NEW p \in Topics, NextTopic(t, p) \/ reconcileResolve(p) PROVE EntryOwned'
      BY <1>1, <2>2 DEF NextTopic, reconcileResolve
    <2>3. CASE reconcileTick
      BY <1>1, <2>3 DEF reconcileTick
    <2> QED
      BY <1>4, <2>1, <2>2, <2>3 DEF Start, Topics
  <1>5. ASSUME NEW t \in Proc, Acquire(t) PROVE EntryOwned'
    BY <1>0, <1>3, <1>5 DEF Acquire, Lock, NoConns, messageVars, sendVars, clientVars, wireVars
  <1>6. ASSUME NEW t \in Proc, Send(t) PROVE EntryOwned'
    <2> USE DEF messageVars, sendVars, clientVars, wireVars, taskVars
    <2>1. CASE NoMsgs(t) \/ EndFlush(t)
      <3>1. /\ ~Writing(t) /\ UNCHANGED <<idOf, inflight, owed>>
            /\ \A u \in Proc \ {t} : pc'[u] = pc[u] /\ msg'[u] = msg[u] /\ to'[u] = to[u]
        BY <1>0, <2>1 DEF NoMsgs, EndFlush, Return
      <3> QED
        BY <1>3, <3>1
    <2>2. CASE ReadQueue(t)
      <3>1. /\ ~Writing(t) /\ UNCHANGED <<idOf, inflight, owed, msg, to>>
            /\ \A u \in Proc \ {t} : pc'[u] = pc[u]
        BY <1>0, <2>2 DEF ReadQueue
      <3> QED
        BY <1>3, <3>1
    <2>3. ASSUME NEW m \in Msgs, NextMsg(t, m) \/ SkipExpired(t, m) PROVE EntryOwned'
      <3>1. /\ ~Writing(t) /\ UNCHANGED <<idOf, inflight, owed, to>>
            /\ \A u \in Proc \ {t} : pc'[u] = pc[u] /\ msg'[u] = msg[u]
        BY <1>0, <2>3 DEF NextMsg, SkipExpired
      <3> QED
        BY <1>3, <3>1
    <2>4. ASSUME NEW c \in Clients, SkipClient(t, c) PROVE EntryOwned'
      <3>1. /\ ~Writing(t) /\ UNCHANGED <<idOf, inflight, owed>>
            /\ \A u \in Proc \ {t} : pc'[u] = pc[u] /\ msg'[u] = msg[u] /\ to'[u] = to[u]
        BY <1>0, <2>4 DEF SkipClient, DoneWith
      <3> QED
        BY <1>3, <3>1
    <2>5. CASE CloseConn(t)
      <3>1. /\ ~Writing(t) /\ UNCHANGED <<idOf, inflight, owed>>
            /\ \A u \in Proc \ {t} : pc'[u] = pc[u] /\ msg'[u] = msg[u] /\ to'[u] = to[u]
        BY <1>0, <2>5 DEF CloseConn, DoneWith
      <3> QED
        BY <1>3, <3>1
    <2>6. ASSUME NEW c \in Clients, Mark(t, c) PROVE EntryOwned'
      <3> SUFFICES ASSUME NEW d \in Clients, NEW j \in Ids, inflight'[d][j] # Null, owed'[d][j] # 1
                   PROVE  \E u \in Proc : Writing(u)' /\ to'[u] = d /\ idOf'[msg'[u]] = j
        OBVIOUS
      <3>1. /\ ~Writing(t) /\ pc'[t] = "write" /\ to'[t] = c
            /\ \A u \in Proc \ {t} : pc'[u] = pc[u] /\ to'[u] = to[u]
            /\ UNCHANGED <<idOf, msg, owed>>
        BY <1>0, <2>6 DEF Mark
      <3>2. CASE d = c /\ j = idOf[msg[t]]
        BY <3>1, <3>2
      <3>3. CASE d # c \/ j # idOf[msg[t]]
        <4>1. inflight[d][j] # Null
          BY <1>0, <2>6, <3>3 DEF Mark, markInflight
        <4>2. PICK u \in Proc : Writing(u) /\ to[u] = d /\ idOf[msg[u]] = j
          BY <3>1, <4>1
        <4> QED
          BY <3>1, <4>2
      <3> QED
        BY <3>2, <3>3
    <2>7. CASE WriteOk(t)
      <3> SUFFICES ASSUME NEW d \in Clients, NEW j \in Ids, inflight'[d][j] # Null, owed'[d][j] # 1
                   PROVE  \E u \in Proc : Writing(u)' /\ to'[u] = d /\ idOf'[msg'[u]] = j
        OBVIOUS
      <3>1. /\ Writing(t) /\ to[t] \in Clients /\ idOf[msg[t]] \in Ids
            /\ owed[to[t]][idOf[msg[t]]] = 0
            /\ \A u \in Proc \ {t} : pc'[u] = pc[u] /\ to'[u] = to[u] /\ msg'[u] = msg[u]
            /\ UNCHANGED <<idOf, inflight>>
        BY <1>0, <1>a, <1>b, <2>7 DEF WriteOk, DoneWith
      <3>2. d # to[t] \/ j # idOf[msg[t]]
        BY <1>0, <2>7, <3>1 DEF WriteOk, oweAck
      <3>3. owed'[d][j] = owed[d][j]
        BY <1>0, <2>7, <3>1, <3>2 DEF WriteOk, oweAck
      <3>4. PICK u \in Proc : Writing(u) /\ to[u] = d /\ idOf[msg[u]] = j
        BY <3>1, <3>3
      <3> QED
        BY <3>1, <3>2, <3>4
    <2>8. CASE WriteFail(t)
      BY <1>0, <2>8 DEF WriteFail
    <2>9. CASE ClearInflight(t)
      <3> SUFFICES ASSUME NEW d \in Clients, NEW j \in Ids, inflight'[d][j] # Null, owed'[d][j] # 1
                   PROVE  \E u \in Proc : Writing(u)' /\ to'[u] = d /\ idOf'[msg'[u]] = j
        OBVIOUS
      <3>1. /\ Writing(t) /\ to[t] \in Clients /\ idOf[msg[t]] \in Ids
            /\ \A u \in Proc \ {t} : pc'[u] = pc[u]
            /\ UNCHANGED <<idOf, to, msg, owed>>
        BY <1>0, <1>a, <1>b, <2>9 DEF ClearInflight
      <3>2. (d # to[t] \/ j # idOf[msg[t]]) /\ inflight[d][j] # Null
        BY <1>0, <2>9, <3>1 DEF ClearInflight, clearInflight
      <3>3. PICK u \in Proc : Writing(u) /\ to[u] = d /\ idOf[msg[u]] = j
        BY <3>1, <3>2
      <3> QED
        BY <3>1, <3>2, <3>3
    <2> QED
      BY <1>6, <2>1, <2>2, <2>3, <2>4, <2>5, <2>6, <2>7, <2>8, <2>9 DEF Send
  <1>7. ASSUME NEW c \in Clients, NEW i \in Ids, takeInflight(c, i) PROVE EntryOwned'
    <2>1. UNCHANGED <<idOf, pc, msg, to>>
      BY <1>7 DEF takeInflight, messageVars, sendVars, taskVars
    <2> SUFFICES ASSUME NEW d \in Clients, NEW j \in Ids, inflight'[d][j] # Null, owed'[d][j] # 1
                 PROVE  \E u \in Proc : Writing(u) /\ to[u] = d /\ idOf[msg[u]] = j
      BY <2>1
    <2>2. inflight[d][j] # Null /\ owed'[d][j] = owed[d][j]
      BY <1>0, <1>7 DEF takeInflight, clientAcks, clearInflight
    <2> QED
      BY <2>2
  <1>8. CASE Environment
    <2> USE DEF messageVars, taskVars, sendVars, clientVars, wireVars
    <2>1. CASE \/ \E m \in Msgs : Expire(m)
               \/ \E c \in Clients, ts \in TopicSets : handleWs(c, ts)
               \/ \E c \in Clients : ReadExit(c) \/ PingFail(c)
               \/ \E k \in Keys, i \in Ids : deleteMsgById(k, i)
               \/ \E k \in Keys : deleteMsgQueue(k)
               \/ deleteAll
      BY <1>1, <2>1 DEF Expire, handleWs, ReadExit, PingFail, deleteMsgById, deleteMsgQueue,
         deleteAll, othersUnchanged
    <2> QED
      BY <1>2, <1>7, <1>8, <2>1 DEF Environment, Publish
  <1>9. ASSUME NEW c \in Clients, Reader(c) PROVE EntryOwned'
    BY <1>1, <1>9 DEF Reader, AckDelete, removeClient, messageVars, taskVars, sendVars,
       clientVars, wireVars
  <1>10. CASE Sweeper \/ \E k \in Keys : deleteAllNext(k)
    BY <1>1, <1>10 DEF Sweeper, sweepTick, sweepRead, sweepMsg, deleteAllNext,
       othersUnchanged, messageVars, taskVars, sendVars, clientVars, wireVars
  <1>11. CASE UNCHANGED vars
    BY <1>1, <1>11 DEF vars, messageVars, taskVars, sendVars, clientVars, wireVars
  <1> QED
    BY <1>4, <1>5, <1>6, <1>8, <1>9, <1>10, <1>11 DEF Next

(* The in-flight entry of an id is owned by the task that writes it, then  *)
(* by the copy on the wire, until its ACK is read, and no entry is left    *)
(* behind without an owner (markInflight, takeInflight, clearInflight).    *)
THEOREM InflightCorrect == Spec => []InflightOwned
  <1>1. Init => EntryOwned
    BY DEF Init, Init_Connections, EntryOwned
  <1>2. TypeOK /\ TaskShape /\ QueuesHoldPosted /\ OneOwner /\ EntryOwned /\ [Next]_vars
          => EntryOwned'
    BY StepEntry
  <1>3. OneOwner /\ EntryOwned => InflightOwned
    BY DEF InflightOwned
  <1> QED
    BY <1>1, <1>2, <1>3, ShapeCorrect, PostedCorrect, OneOwnerCorrect, PTL DEF Spec

(* "A message is written to a given connection at most once while awaiting *)
(* its ACK", for any number of keys, connections and concurrent flushes,   *)
(* with reused ids, DELETE requests and the reconciler.                    *)
THEOREM AtMostOnceWhileUnacked == Spec => []AtMostOneUnacked
  <1>1. TypeOK /\ OneOwner => AtMostOneUnacked
    BY DEF TypeOK, OneOwner, CopyOwnsEntry, AtMostOneUnacked
  <1> QED
    BY <1>1, TypeCorrect, OneOwnerCorrect, PTL

-----------------------------------------------------------------------------
(* The registry. *)

LEMMA StepRegistry ==
  TypeOK /\ RegistryConsistent /\ [Next]_vars => RegistryConsistent'
  <1> SUFFICES ASSUME TypeOK, RegistryConsistent, [Next]_vars PROVE RegistryConsistent'
    OBVIOUS
  <1> USE DEF RegistryConsistent
  <1>0. /\ Conns \in [Topics -> SUBSET Clients] /\ patterns \in SUBSET Patterns
        /\ connKeys \in [Clients -> SUBSET Topics]
        /\ reader \in [Clients -> ReaderState]
    BY DEF TypeOK, ConnectionsType
  <1>1. CASE UNCHANGED <<registryVars, reader>>
    BY <1>1 DEF registryVars
  <1>2. ASSUME NEW c \in Clients, NEW ts \in TopicSets, handleWs(c, ts)
        PROVE  RegistryConsistent'
    <2>1. ts \subseteq Topics
      BY DEF Topics
    <2>2. /\ Conns' = [t \in Topics |-> IF t \in ts THEN Conns[t] \cup {c} ELSE Conns[t]]
          /\ patterns' = patterns \cup {t \in ts : t \in Patterns}
          /\ connKeys' = [connKeys EXCEPT ![c] = ts]
          /\ reader[c] = "none" /\ reader' = [reader EXCEPT ![c] = "reading"]
      BY <1>2 DEF handleWs, register, hasWildcard
    <2>3. ASSUME NEW t \in Topics, NEW d \in Clients
          PROVE  d \in Conns'[t] <=> t \in connKeys'[d] /\ reader'[d] \notin {"none", "done"}
      <3>1. CASE d = c
        BY <1>0, <2>1, <2>2, <3>1
      <3>2. CASE d # c
        BY <1>0, <2>1, <2>2, <3>2
      <3> QED BY <3>1, <3>2
    <2>4. patterns' = {p \in Patterns : Conns'[p] # {}}
      BY <1>0, <2>1, <2>2 DEF Topics
    <2> QED
      BY <2>3, <2>4
  <1>3. ASSUME NEW c \in Clients, removeClient(c) PROVE RegistryConsistent'
    <2>1. /\ Conns' = [t \in Topics |-> IF t \in connKeys[c] THEN Conns[t] \ {c} ELSE Conns[t]]
          /\ patterns' = patterns \ {t \in connKeys[c] : Conns[t] \ {c} = {}}
          /\ connKeys' = connKeys
          /\ reader' = [reader EXCEPT ![c] = "done"]
      BY <1>3 DEF removeClient, unregister
    <2>2. ASSUME NEW t \in Topics, NEW d \in Clients
          PROVE  d \in Conns'[t] <=> t \in connKeys'[d] /\ reader'[d] \notin {"none", "done"}
      <3>1. CASE d = c
        BY <1>0, <2>1, <3>1
      <3>2. CASE d # c
        BY <1>0, <2>1, <3>2
      <3> QED BY <3>1, <3>2
    <2>3. ASSUME NEW p \in Patterns PROVE p \in patterns' <=> Conns'[p] # {}
      <3>1. p \in Topics /\ (p \in patterns <=> Conns[p] # {})
        BY DEF Topics
      <3>2. CASE p \in connKeys[c]
        BY <2>1, <3>1, <3>2
      <3>3. CASE p \notin connKeys[c]
        BY <2>1, <3>1, <3>3
      <3> QED BY <3>2, <3>3
    <2>4. patterns' \subseteq Patterns
      BY <1>0, <2>1
    <2>5. patterns' = {p \in Patterns : Conns'[p] # {}}
      BY <2>3, <2>4
    <2> QED
      BY <2>2, <2>5
  <1>4. ASSUME NEW c \in Clients, UNCHANGED registryVars,
               reader[c] \notin {"none", "done"},
               reader' = reader \/ \E r \in {"reading", "acked", "exiting"} :
                                      reader' = [reader EXCEPT ![c] = r]
        PROVE  RegistryConsistent'
    BY <1>0, <1>4 DEF registryVars
  <1>5. ASSUME NEW c \in Clients, NEW i \in Ids, takeInflight(c, i) PROVE RegistryConsistent'
    BY <1>0, <1>4, <1>5 DEF takeInflight, clientAcks
  <1>6. CASE Environment
    BY <1>1, <1>2, <1>4, <1>5, <1>6 DEF Environment, Publish, handlePost, Expire, ReadExit,
       PingFail, deleteMsgById, deleteMsgQueue, deleteAll, othersUnchanged, readVars
  <1>7. ASSUME NEW c \in Clients, Reader(c) PROVE RegistryConsistent'
    BY <1>3, <1>4, <1>7 DEF Reader, AckDelete
  <1>8. ASSUME NEW t \in Proc, Start(t) \/ Acquire(t) PROVE RegistryConsistent'
    BY <1>1, <1>8 DEF Start, Acquire, NextTarget, NextTopic, reconcileTick,
       reconcileResolve, NextKey, Lock, NoConns, readVars
  <1>9. ASSUME NEW t \in Proc, Send(t) PROVE RegistryConsistent'
    BY <1>1, <1>9 DEF Send, ReadQueue, NoMsgs, EndFlush, NextMsg, SkipExpired, Mark,
       SkipClient, WriteOk, WriteFail, ClearInflight, CloseConn, readVars
  <1>10. CASE Sweeper \/ \E k \in Keys : deleteAllNext(k)
    BY <1>1, <1>10 DEF Sweeper, sweepTick, sweepRead, sweepMsg, deleteAllNext,
       othersUnchanged, readVars
  <1>11. CASE UNCHANGED vars
    BY <1>1, <1>11 DEF vars, readVars
  <1> QED
    BY <1>6, <1>7, <1>8, <1>9, <1>10, <1>11 DEF Next

(* Conns and patterns agree with the connections that are registered,      *)
(* however registrations and removals interleave (handleWs, removeClient). *)
THEOREM RegistryCorrect == Spec => []RegistryConsistent
  <1>1. Init => RegistryConsistent
    BY DEF Init, Init_Connections, RegistryConsistent, Topics
  <1>2. TypeOK /\ RegistryConsistent /\ [Next]_vars => RegistryConsistent'
    BY StepRegistry
  <1> QED
    BY <1>1, <1>2, TypeCorrect, PTL DEF Spec

-----------------------------------------------------------------------------
(* Who gets a message. *)

(* A snapshot of connections stays a set of subscribers of its key: the    *)
(* topics of a connection and the targets of a message are set once.       *)
SnapshotsSubscribed ==
  /\ \A c \in Clients : reader[c] = "none" => connKeys[c] = {}
  /\ \A m \in Msgs : idOf[m] = Null => targets[m] = {}
  /\ \A t \in Proc : Holding(t) => \A c \in conns[t] : Subscribed(c, key[t])
  /\ \A t \in Proc : pc[t] \in {"mark", "write", "clear", "close"} => left[t] \subseteq conns[t]

LEMMA StepSnapshots ==
  TypeOK /\ TaskShape /\ RegistryConsistent /\ SnapshotsSubscribed /\ [Next]_vars
    => SnapshotsSubscribed'
  <1> SUFFICES ASSUME TypeOK, TaskShape, RegistryConsistent, SnapshotsSubscribed, [Next]_vars
               PROVE  SnapshotsSubscribed'
    OBVIOUS
  <1> USE DEF SnapshotsSubscribed, Holding, Subscribed
  <1>0. /\ idOf \in [Msgs -> Ids \cup {Null}] /\ targets \in [Msgs -> SUBSET Keys]
        /\ pc \in [Proc -> PC] /\ key \in [Proc -> Keys \cup {Null}]
        /\ conns \in [Proc -> SUBSET Clients] /\ left \in [Proc -> SUBSET Clients]
        /\ connKeys \in [Clients -> SUBSET Topics] /\ reader \in [Clients -> ReaderState]
        /\ \A t \in Proc : pc[t] # "start" => key[t] \in Keys
    BY DEF TypeOK, TaskShape, ConnectionsType
  <1>1. CASE UNCHANGED <<idOf, targets, pc, key, conns, left, connKeys, reader>>
    BY <1>1
  <1>2. ASSUME NEW m \in Msgs, NEW i \in Ids, NEW ks \in TargetSets, handlePost(m, i, ks)
        PROVE  SnapshotsSubscribed'
    BY <1>0, <1>2 DEF handlePost, sendVars, registryVars, readVars
  <1>3. ASSUME NEW c \in Clients, NEW ts \in TopicSets, handleWs(c, ts)
        PROVE  SnapshotsSubscribed'
    <2>1. /\ \A d \in Clients \ {c} : connKeys'[d] = connKeys[d] /\ reader'[d] = reader[d]
          /\ connKeys[c] = {} /\ reader'[c] = "reading"
      BY <1>0, <1>3 DEF handleWs, register
    <2>2. UNCHANGED <<idOf, targets, pc, key, conns, left>>
      BY <1>3 DEF handleWs, messageVars, sendVars
    <2> QED
      BY <1>0, <2>1, <2>2
  <1>4. ASSUME UNCHANGED <<idOf, targets, pc, key, conns, left, connKeys>>,
               NEW c \in Clients, NEW r \in ReaderState \ {"none"},
               reader' = [reader EXCEPT ![c] = r]
        PROVE  SnapshotsSubscribed'
    BY <1>0, <1>4
  <1>5. ASSUME UNCHANGED <<idOf, targets, connKeys, reader>>, NEW t \in Proc,
               \A u \in Proc \ {t} : /\ pc'[u] = pc[u] /\ key'[u] = key[u]
                                     /\ conns'[u] = conns[u] /\ left'[u] = left[u],
               Holding(t)' => \A c \in conns'[t] : Subscribed(c, key'[t]),
               pc'[t] \in {"mark", "write", "clear", "close"} => left'[t] \subseteq conns'[t]
        PROVE  SnapshotsSubscribed'
    BY <1>5
  <1>6. ASSUME NEW t \in Proc, Start(t) PROVE SnapshotsSubscribed'
    <2> USE DEF messageVars, sendVars, registryVars, readVars
    <2>1. ASSUME NEW k \in Keys, NextKey(t, k) \/ NextTarget(t, k) PROVE SnapshotsSubscribed'
      BY <1>0, <1>5, <2>1 DEF NextKey, NextTarget
    <2>2. ASSUME NEW p \in Topics, NextTopic(t, p) \/ reconcileResolve(p)
          PROVE  SnapshotsSubscribed'
      BY <1>1, <2>2 DEF NextTopic, reconcileResolve
    <2>3. CASE reconcileTick
      BY <1>1, <2>3 DEF reconcileTick
    <2> QED
      BY <1>6, <2>1, <2>2, <2>3 DEF Start, Topics
  <1>7. ASSUME NEW t \in Proc, Acquire(t) PROVE SnapshotsSubscribed'
    <2> USE DEF messageVars, sendVars, registryVars, readVars
    <2>1. ASSUME Lock(t) PROVE SnapshotsSubscribed'
      <3>1. \A c \in clientsForKey(key[t]) : Subscribed(c, key[t])
        <4>1. key[t] \in Keys /\ keyMatches(key[t], key[t])
          BY <1>0, <2>1 DEF Lock, keyMatches, hasWildcard
        <4>2. \A p \in Topics : \A c \in Conns[p] : c \in Clients /\ p \in connKeys[c]
          BY DEF RegistryConsistent, TypeOK, ConnectionsType
        <4>3. patterns \subseteq Topics /\ Keys \subseteq Topics
          BY DEF TypeOK, ConnectionsType, Topics
        <4> QED
          BY <4>1, <4>2, <4>3 DEF clientsForKey
      <3> QED
        BY <1>0, <1>5, <2>1, <3>1 DEF Lock
    <2>2. ASSUME NoConns(t) PROVE SnapshotsSubscribed'
      BY <1>0, <1>5, <2>2 DEF NoConns
    <2> QED
      BY <1>7, <2>1, <2>2 DEF Acquire
  <1>8. ASSUME NEW t \in Proc, Send(t) PROVE SnapshotsSubscribed'
    <2> USE DEF messageVars, sendVars, taskVars, registryVars, readVars
    <2>1. CASE NoMsgs(t) \/ EndFlush(t)
      BY <1>0, <1>5, <2>1 DEF NoMsgs, EndFlush, Return
    <2>2. CASE ReadQueue(t) \/ WriteFail(t) \/ ClearInflight(t)
      BY <1>0, <1>5, <2>2 DEF ReadQueue, WriteFail, ClearInflight
    <2>3. ASSUME NEW m \in Msgs, NextMsg(t, m) \/ SkipExpired(t, m) PROVE SnapshotsSubscribed'
      BY <1>0, <1>1, <1>5, <2>3 DEF NextMsg, SkipExpired
    <2>4. ASSUME NEW c \in Clients, Mark(t, c) PROVE SnapshotsSubscribed'
      BY <1>0, <1>5, <2>4 DEF Mark
    <2>5. ASSUME NEW c, DoneWith(t, c), pc[t] \in {"mark", "write", "close"},
                 UNCHANGED <<messageVars, registryVars, readVars>>
          PROVE  SnapshotsSubscribed'
      BY <1>0, <1>5, <2>5 DEF DoneWith
    <2>6. ASSUME NEW c \in Clients, SkipClient(t, c) PROVE SnapshotsSubscribed'
      BY <2>5, <2>6 DEF SkipClient
    <2>7. CASE WriteOk(t) \/ CloseConn(t)
      BY <2>5, <2>7 DEF WriteOk, CloseConn
    <2> QED
      BY <1>8, <2>1, <2>2, <2>3, <2>4, <2>6, <2>7 DEF Send
  <1>9. CASE Environment
    <2> USE DEF messageVars, sendVars, taskVars, registryVars, readVars
    <2>1. ASSUME NEW c \in Clients, NEW i \in Ids, takeInflight(c, i)
          PROVE  SnapshotsSubscribed'
      BY <1>0, <1>1, <1>4, <2>1 DEF takeInflight, clientAcks, ReaderState
    <2>2. ASSUME NEW c \in Clients, ReadExit(c) PROVE SnapshotsSubscribed'
      BY <1>4, <2>2 DEF ReadExit, ReaderState
    <2>3. CASE \/ \E m \in Msgs : Expire(m)
               \/ \E c \in Clients : PingFail(c)
               \/ \E k \in Keys, i \in Ids : deleteMsgById(k, i)
               \/ \E k \in Keys : deleteMsgQueue(k)
               \/ deleteAll
      BY <1>1, <2>3 DEF Expire, PingFail, deleteMsgById, deleteMsgQueue, deleteAll,
         othersUnchanged
    <2> QED
      BY <1>2, <1>3, <1>9, <2>1, <2>2, <2>3 DEF Environment, Publish
  <1>10. ASSUME NEW c \in Clients, Reader(c) PROVE SnapshotsSubscribed'
    BY <1>4, <1>10 DEF Reader, AckDelete, removeClient, unregister, ReaderState, messageVars,
       sendVars, taskVars, registryVars
  <1>11. CASE Sweeper \/ \E k \in Keys : deleteAllNext(k)
    BY <1>1, <1>11 DEF Sweeper, sweepTick, sweepRead, sweepMsg, deleteAllNext,
       othersUnchanged, messageVars, sendVars, taskVars, registryVars, readVars
  <1>12. CASE UNCHANGED vars
    BY <1>1, <1>12 DEF vars, messageVars, sendVars, taskVars, registryVars, readVars
  <1> QED
    BY <1>6, <1>7, <1>8, <1>9, <1>10, <1>11, <1>12 DEF Next

LEMMA StepAudience ==
  TypeOK /\ TaskShape /\ QueuesHoldPosted /\ SnapshotsSubscribed /\ OnlySubscribersGet
    /\ [Next]_vars => OnlySubscribersGet'
  <1> SUFFICES ASSUME TypeOK, TaskShape, QueuesHoldPosted, SnapshotsSubscribed,
                      OnlySubscribersGet, [Next]_vars
               PROVE  OnlySubscribersGet'
    OBVIOUS
  <1> USE DEF OnlySubscribersGet, Subscribed
  <1>0. /\ idOf \in [Msgs -> Ids \cup {Null}] /\ targets \in [Msgs -> SUBSET Keys]
        /\ got \in [Clients -> SUBSET Msgs]
        /\ connKeys \in [Clients -> SUBSET Topics] /\ reader \in [Clients -> ReaderState]
    BY DEF TypeOK, ConnectionsType
  <1>1. CASE UNCHANGED <<got, targets, connKeys>>
    BY <1>1
  <1>2. ASSUME NEW m \in Msgs, NEW i \in Ids, NEW ks \in TargetSets, handlePost(m, i, ks)
        PROVE  OnlySubscribersGet'
    BY <1>0, <1>2 DEF handlePost, SnapshotsSubscribed, registryVars, wireVars
  <1>3. ASSUME NEW c \in Clients, NEW ts \in TopicSets, handleWs(c, ts)
        PROVE  OnlySubscribersGet'
    BY <1>0, <1>3 DEF handleWs, register, SnapshotsSubscribed, messageVars, wireVars
  <1>4. ASSUME NEW t \in Proc, WriteOk(t) PROVE OnlySubscribersGet'
    <2>1. /\ to[t] \in Clients /\ msg[t] \in Msgs
          /\ key[t] \in targets[msg[t]] /\ Subscribed(to[t], key[t])
      BY <1>4 DEF WriteOk, TypeOK, TaskShape, QueuesHoldPosted, PostedFor,
         SnapshotsSubscribed, Holding
    <2> QED
      BY <1>0, <1>4, <2>1 DEF WriteOk, messageVars, registryVars
  <1>5. CASE Environment
    BY <1>1, <1>2, <1>3, <1>5 DEF Environment, Publish, Expire, takeInflight, clientAcks, ReadExit,
       PingFail, deleteMsgById, deleteMsgQueue, deleteAll, othersUnchanged,
       messageVars, registryVars, wireVars
  <1>6. ASSUME NEW t \in Proc, Start(t) \/ Acquire(t) PROVE OnlySubscribersGet'
    BY <1>1, <1>6 DEF Start, Acquire, NextTarget, NextTopic, reconcileTick,
       reconcileResolve, NextKey, Lock, NoConns, messageVars, registryVars, wireVars
  <1>7. ASSUME NEW t \in Proc, Send(t) PROVE OnlySubscribersGet'
    BY <1>1, <1>4, <1>7 DEF Send, ReadQueue, NoMsgs, EndFlush, NextMsg, SkipExpired, Mark,
       SkipClient, WriteFail, ClearInflight, CloseConn, messageVars, registryVars, wireVars
  <1>8. ASSUME NEW c \in Clients, Reader(c) PROVE OnlySubscribersGet'
    BY <1>1, <1>8 DEF Reader, AckDelete, removeClient, unregister, messageVars,
       registryVars, wireVars
  <1>9. CASE Sweeper \/ \E k \in Keys : deleteAllNext(k)
    BY <1>1, <1>9 DEF Sweeper, sweepTick, sweepRead, sweepMsg, deleteAllNext,
       othersUnchanged, messageVars, registryVars, wireVars
  <1>10. CASE UNCHANGED vars
    BY <1>1, <1>10 DEF vars, messageVars, registryVars, wireVars
  <1> QED
    BY <1>5, <1>6, <1>7, <1>8, <1>9, <1>10 DEF Next

(* A message reaches only connections that subscribed to one of its keys,  *)
(* exactly or by a pattern: the snapshots sendMessages works on may be     *)
(* stale, but they are never anybody else's.                               *)
THEOREM AudienceCorrect == Spec => []OnlySubscribersGet
  <1>1. Init => SnapshotsSubscribed /\ OnlySubscribersGet
    BY DEF Init, Init_Connections, SnapshotsSubscribed, OnlySubscribersGet, Holding
  <1>2. TypeOK /\ TaskShape /\ RegistryConsistent /\ SnapshotsSubscribed /\ [Next]_vars
          => SnapshotsSubscribed'
    BY StepSnapshots
  <1>3. TypeOK /\ TaskShape /\ QueuesHoldPosted /\ SnapshotsSubscribed /\ OnlySubscribersGet
          /\ [Next]_vars => OnlySubscribersGet'
    BY StepAudience
  <1> QED
    BY <1>1, <1>2, <1>3, ShapeCorrect, RegistryCorrect, PostedCorrect, PTL DEF Spec

-----------------------------------------------------------------------------
(* Wake-ups.  An id that goctopus generated names one message for ever, so *)
(* the copy an ACK stands for is a copy of the message that is queued.     *)

GeneratedIdsApart ==
  \A m, n \in Msgs : idOf[m] = idOf[n] /\ idOf[m] \notin CallerIds \cup {Null} => m = n

(* A copy on the wire, and an ACK being handled, are of a message that was *)
(* written to the connection.                                              *)
WroteId(c, i) == \E m \in got[c] : idOf[m] = i

CopiesWritten ==
  /\ \A c \in Clients, i \in Ids : owed[c][i] # 0 => WroteId(c, i)
  /\ \A c \in Clients : reader[c] = "acked" => WroteId(c, ack[c][2])

LEMMA StepIds == TypeOK /\ GeneratedIdsApart /\ [Next]_vars => GeneratedIdsApart'
  <1> SUFFICES ASSUME TypeOK, GeneratedIdsApart, [Next]_vars PROVE GeneratedIdsApart'
    OBVIOUS
  <1> USE DEF GeneratedIdsApart
  <1>1. CASE UNCHANGED idOf
    BY <1>1
  <1>2. ASSUME NEW m \in Msgs, NEW i \in Ids, NEW ks \in TargetSets, handlePost(m, i, ks)
        PROVE  GeneratedIdsApart'
    BY <1>2 DEF handlePost, FreshId, TypeOK
  <1>3. CASE Environment
    BY <1>1, <1>2, <1>3 DEF Environment, Publish, Expire, handleWs, takeInflight, clientAcks, ReadExit,
       PingFail, deleteMsgById, deleteMsgQueue, deleteAll, othersUnchanged, messageVars
  <1>4. ASSUME NEW t \in Proc, Start(t) \/ Acquire(t) PROVE GeneratedIdsApart'
    BY <1>1, <1>4 DEF Start, Acquire, NextTarget, NextTopic, reconcileTick,
       reconcileResolve, NextKey, Lock, NoConns, messageVars
  <1>5. ASSUME NEW t \in Proc, Send(t) PROVE GeneratedIdsApart'
    BY <1>1, <1>5 DEF Send, ReadQueue, NoMsgs, EndFlush, NextMsg, SkipExpired, Mark,
       SkipClient, WriteOk, WriteFail, ClearInflight, CloseConn, messageVars
  <1>6. ASSUME NEW c \in Clients, Reader(c) PROVE GeneratedIdsApart'
    BY <1>1, <1>6 DEF Reader, AckDelete, removeClient, messageVars
  <1>7. CASE Sweeper \/ \E k \in Keys : deleteAllNext(k)
    BY <1>1, <1>7 DEF Sweeper, sweepTick, sweepRead, sweepMsg, deleteAllNext,
       othersUnchanged, messageVars
  <1>8. CASE UNCHANGED vars
    BY <1>1, <1>8 DEF vars, messageVars
  <1> QED
    BY <1>3, <1>4, <1>5, <1>6, <1>7, <1>8 DEF Next

LEMMA StepCopies ==
  TypeOK /\ TaskShape /\ QueuesHoldPosted /\ OneOwner /\ CopiesWritten /\ [Next]_vars
    => CopiesWritten'
  <1> SUFFICES ASSUME TypeOK, TaskShape, QueuesHoldPosted, OneOwner, CopiesWritten,
                      [Next]_vars
               PROVE  CopiesWritten'
    OBVIOUS
  <1> USE DEF CopiesWritten, WroteId
  <1>0. /\ idOf \in [Msgs -> Ids \cup {Null}]
        /\ owed \in [Clients -> [Ids -> Nat]] /\ got \in [Clients -> SUBSET Msgs]
        /\ reader \in [Clients -> ReaderState]
        /\ ack \in [Clients -> (Keys \X Ids) \cup {Null}]
        /\ \A c \in Clients : reader[c] = "acked" => ack[c][2] \in Ids
    BY DEF TypeOK, TaskShape
  <1>1. CASE UNCHANGED <<idOf, owed, got, reader, ack>>
    BY <1>1
  <1>2. ASSUME NEW m \in Msgs, NEW i \in Ids, NEW ks \in TargetSets, handlePost(m, i, ks)
        PROVE  CopiesWritten'
    <2>1. \A n \in Msgs : idOf[n] # Null => idOf'[n] = idOf[n]
      BY <1>0, <1>2 DEF handlePost
    <2>2. \A c \in Clients, j \in Ids : WroteId(c, j) => WroteId(c, j)'
      BY <1>0, <1>2, <2>1 DEF handlePost, wireVars
    <2> QED
      BY <1>0, <1>2, <2>2 DEF handlePost, wireVars, readVars
  <1>3. ASSUME UNCHANGED <<idOf, owed, got>>, NEW c \in Clients, NEW r \in ReaderState,
               r # "acked", reader' = [reader EXCEPT ![c] = r],
               \A d \in Clients \ {c} : ack'[d] = ack[d]
        PROVE  CopiesWritten'
    BY <1>0, <1>3
  <1>4. ASSUME NEW c \in Clients, NEW i \in Ids, takeInflight(c, i) PROVE CopiesWritten'
    <2>1. owed[c][i] # 0 /\ owed[c][i] = 1 /\ inflight[c][i] # Null
      BY <1>0, <1>4 DEF takeInflight, clientAcks, OneOwner, CopyOwnsEntry
    <2>2. /\ UNCHANGED <<idOf, got>>
          /\ \A d \in Clients, j \in Ids : owed'[d][j] # 0 => owed[d][j] # 0
          /\ reader' = [reader EXCEPT ![c] = "acked"]
          /\ ack' = [ack EXCEPT ![c] = <<inflight[c][i], i>>]
      BY <1>0, <1>4, <2>1 DEF takeInflight, clientAcks, messageVars
    <2> QED
      BY <1>0, <2>1, <2>2
  <1>5. ASSUME NEW t \in Proc, WriteOk(t) PROVE CopiesWritten'
    <2> DEFINE c == to[t]
               i == idOf[msg[t]]
    <2>1. c \in Clients /\ msg[t] \in Msgs /\ i \in Ids
      BY <1>5 DEF WriteOk, TypeOK, TaskShape, QueuesHoldPosted, PostedFor
    <2>2. /\ UNCHANGED <<idOf, reader, ack>>
          /\ msg[t] \in got'[c] /\ \A d \in Clients : got[d] \subseteq got'[d]
          /\ \A d \in Clients, j \in Ids : d # c \/ j # i => owed'[d][j] = owed[d][j]
      BY <1>0, <1>5, <2>1 DEF WriteOk, oweAck, messageVars, readVars
    <2> QED
      BY <1>0, <2>1, <2>2
  <1>6. CASE Environment
    <2>1. ASSUME NEW c \in Clients, NEW ts \in TopicSets, handleWs(c, ts) PROVE CopiesWritten'
      BY <1>3, <2>1 DEF handleWs, messageVars, wireVars, ReaderState
    <2>2. ASSUME NEW c \in Clients, ReadExit(c) PROVE CopiesWritten'
      BY <1>3, <2>2 DEF ReadExit, messageVars, wireVars, ReaderState
    <2>3. CASE \/ \E m \in Msgs : Expire(m)
               \/ \E c \in Clients : PingFail(c)
               \/ \E k \in Keys, i \in Ids : deleteMsgById(k, i)
               \/ \E k \in Keys : deleteMsgQueue(k)
               \/ deleteAll
      BY <1>1, <2>3 DEF Expire, PingFail, deleteMsgById, deleteMsgQueue, deleteAll,
         othersUnchanged, messageVars, wireVars, readVars
    <2> QED
      BY <1>2, <1>4, <1>6, <2>1, <2>2, <2>3 DEF Environment, Publish
  <1>7. ASSUME NEW t \in Proc, Start(t) \/ Acquire(t) PROVE CopiesWritten'
    BY <1>1, <1>7 DEF Start, Acquire, NextTarget, NextTopic, reconcileTick,
       reconcileResolve, NextKey, Lock, NoConns, messageVars, wireVars, readVars
  <1>8. ASSUME NEW t \in Proc, Send(t) PROVE CopiesWritten'
    BY <1>1, <1>5, <1>8 DEF Send, ReadQueue, NoMsgs, EndFlush, NextMsg, SkipExpired, Mark,
       SkipClient, WriteFail, ClearInflight, CloseConn, messageVars, wireVars, readVars
  <1>9. ASSUME NEW c \in Clients, Reader(c) PROVE CopiesWritten'
    BY <1>0, <1>3, <1>9 DEF Reader, AckDelete, removeClient, messageVars, wireVars, ReaderState
  <1>10. CASE Sweeper \/ \E k \in Keys : deleteAllNext(k)
    BY <1>1, <1>10 DEF Sweeper, sweepTick, sweepRead, sweepMsg, deleteAllNext,
       othersUnchanged, messageVars, wireVars, readVars
  <1>11. CASE UNCHANGED vars
    BY <1>1, <1>11 DEF vars, messageVars, wireVars, readVars
  <1> QED
    BY <1>6, <1>7, <1>8, <1>9, <1>10, <1>11 DEF Next

LEMMA CopiesCorrect == Spec => [](GeneratedIdsApart /\ CopiesWritten)
  <1>1. Init => GeneratedIdsApart /\ CopiesWritten
    BY DEF Init, GeneratedIdsApart, CopiesWritten
  <1>2. TypeOK /\ GeneratedIdsApart /\ [Next]_vars => GeneratedIdsApart'
    BY StepIds
  <1>3. TypeOK /\ TaskShape /\ QueuesHoldPosted /\ OneOwner /\ CopiesWritten /\ [Next]_vars
          => CopiesWritten'
    BY StepCopies
  <1> QED
    BY <1>1, <1>2, <1>3, ShapeCorrect, PostedCorrect, OneOwnerCorrect, PTL DEF Spec

(* What NoLostWakeup says of one message and one connection. *)
TaskWillSend(t, c, k, m) ==
  \/ pc[t] = "lock" /\ key[t] = k
  \/ /\ key[t] = k /\ c \in conns[t]
     /\ \/ pc[t] = "read"
        \/ m \in queue[t]
        \/ msg[t] = m /\ c \in left[t]

AboutToClose(t, c) == pc[t] \in {"clear", "close"} /\ to[t] = c

Backlogged(c, k) == k \in keys[c] \/ \E p \in todo[c] : keyMatches(p, k)

Woken(k, i, c) ==
  \/ store[k][i] \in got[c] \/ inflight[c][i] # Null
  \/ \E t \in Proc : TaskWillSend(t, c, k, store[k][i]) \/ AboutToClose(t, c)
  \/ Backlogged(c, k)

MustWake(k, i, c) ==
  store[k][i] \notin expired \cup {Null} /\ c \in clientsForKey(k) \ closed

(* NoLostWakeup for the ids that goctopus generated, whatever callers do   *)
(* with theirs.                                                            *)
GeneratedWoken ==
  \A k \in Keys, i \in Ids \ CallerIds, c \in Clients : MustWake(k, i, c) => Woken(k, i, c)

LEMMA WokenCovers == CallerIds = {} /\ GeneratedWoken => NoLostWakeup
  BY DEF GeneratedWoken, MustWake, Woken, TaskWillSend, AboutToClose, Backlogged,
         NoLostWakeup, FlushPending

(* A connection is looked up for a key exactly if it has a matching topic  *)
(* and is registered.                                                      *)
LEMMA ClientsForKeyMeans ==
  ASSUME TypeOK, RegistryConsistent, NEW k \in Keys, NEW c \in Clients
  PROVE  c \in clientsForKey(k) <=> Subscribed(c, k) /\ reader[c] \notin {"none", "done"}
  <1>0. /\ patterns \subseteq Patterns /\ connKeys \in [Clients -> SUBSET Topics]
        /\ Keys \subseteq Topics /\ Patterns \subseteq Topics
    BY DEF TypeOK, ConnectionsType, Topics
  <1>1. ASSUME c \in clientsForKey(k) PROVE Subscribed(c, k) /\ reader[c] \notin {"none", "done"}
    <2>1. PICK p \in Topics : c \in Conns[p] /\ keyMatches(p, k)
      <3>1. k \in Topics /\ keyMatches(k, k)
        BY <1>0 DEF keyMatches, hasWildcard
      <3>2. CASE c \in Conns[k]
        BY <3>1, <3>2
      <3>3. CASE c \notin Conns[k]
        BY <1>0, <1>1, <3>3 DEF clientsForKey
      <3> QED
        BY <3>2, <3>3
    <2> QED
      BY <2>1 DEF RegistryConsistent, Subscribed
  <1>2. ASSUME Subscribed(c, k), reader[c] \notin {"none", "done"} PROVE c \in clientsForKey(k)
    <2>1. PICK p \in Topics : p \in connKeys[c] /\ keyMatches(p, k)
      BY <1>0, <1>2 DEF Subscribed
    <2>2. c \in Conns[p]
      BY <1>2, <2>1 DEF RegistryConsistent
    <2>3. CASE p = k
      BY <2>2, <2>3 DEF clientsForKey
    <2>4. CASE p # k
      <3>1. p \in Patterns
        BY <2>1, <2>4 DEF keyMatches, hasWildcard
      <3>2. p \in patterns
        BY <2>2, <3>1 DEF RegistryConsistent
      <3> QED
        BY <2>1, <2>2, <3>2 DEF clientsForKey
    <2> QED
      BY <2>3, <2>4
  <1> QED
    BY <1>1, <1>2

AudienceMeans ==
  \A k \in Keys, c \in Clients :
    c \in clientsForKey(k) <=> Subscribed(c, k) /\ reader[c] \notin {"none", "done"}

LEMMA AudienceMeansNext == (TypeOK /\ RegistryConsistent => AudienceMeans)'
  <1>1. TypeOK /\ RegistryConsistent => AudienceMeans
    BY ClientsForKeyMeans DEF AudienceMeans
  <1> QED
    BY <1>1, PTL

(* What a step of the environment, a reader or the sweeper leaves alone. *)
LEMMA WokenKept ==
  ASSUME NEW k \in Keys, NEW i \in Ids, NEW c \in Clients, Woken(k, i, c),
         store'[k][i] = store[k][i], inflight'[c][i] = inflight[c][i],
         UNCHANGED <<pc, key, conns, queue, msg, left, to, got>>,
         keys'[c] = keys[c], todo'[c] = todo[c]
  PROVE  Woken(k, i, c)'
  BY DEF Woken, TaskWillSend, AboutToClose, Backlogged

(* What a step of one task has to keep. *)
LEMMA WokenByTask ==
  ASSUME NEW k \in Keys, NEW i \in Ids, NEW c \in Clients, Woken(k, i, c),
         NEW t \in Proc,
         store'[k][i] = store[k][i], got[c] \subseteq got'[c],
         inflight[c][i] # Null => Woken(k, i, c)',
         \A u \in Proc \ {t} :
           /\ pc'[u] = pc[u] /\ key'[u] = key[u] /\ conns'[u] = conns[u]
           /\ queue'[u] = queue[u] /\ msg'[u] = msg[u] /\ left'[u] = left[u] /\ to'[u] = to[u],
         TaskWillSend(t, c, k, store[k][i]) => Woken(k, i, c)',
         AboutToClose(t, c) => Woken(k, i, c)',
         Backlogged(c, k) => Woken(k, i, c)'
  PROVE  Woken(k, i, c)'
  <1>1. CASE store[k][i] \in got[c]
    BY <1>1 DEF Woken
  <1>2. ASSUME NEW u \in Proc, u # t,
               TaskWillSend(u, c, k, store[k][i]) \/ AboutToClose(u, c)
        PROVE  Woken(k, i, c)'
    BY <1>2 DEF Woken, TaskWillSend, AboutToClose
  <1> QED
    BY <1>1, <1>2 DEF Woken

LEMMA StepWoken ==
  TypeOK /\ TaskShape /\ QueuesHoldPosted /\ RegistryConsistent /\ RegistryConsistent'
    /\ GeneratedIdsApart /\ CopiesWritten /\ GeneratedWoken /\ TypeOK' /\ [Next]_vars
    => GeneratedWoken'
  <1> SUFFICES ASSUME TypeOK, TaskShape, QueuesHoldPosted, RegistryConsistent,
                      RegistryConsistent', GeneratedIdsApart, CopiesWritten, GeneratedWoken, TypeOK', [Next]_vars,
                      NEW k \in Keys, NEW i \in Ids \ CallerIds, NEW c \in Clients,
                      MustWake(k, i, c)'
               PROVE  Woken(k, i, c)'
    BY DEF GeneratedWoken
  <1> DEFINE m == store[k][i]
             Goal == Woken(k, i, c)'
  <1> SUFFICES Goal
    OBVIOUS
  <1>0. /\ store \in [Keys -> [Ids -> Msgs \cup {Null}]]
        /\ idOf \in [Msgs -> Ids \cup {Null}]
        /\ pc \in [Proc -> PC] /\ key \in [Proc -> Keys \cup {Null}]
        /\ todo \in [Proc -> SUBSET Topics] /\ keys \in [Proc -> SUBSET Keys]
        /\ conns \in [Proc -> SUBSET Clients] /\ queue \in [Proc -> SUBSET Msgs]
        /\ msg \in [Proc -> Msgs \cup {Null}] /\ left \in [Proc -> SUBSET Clients]
        /\ to \in [Proc -> Clients \cup {Null}]
        /\ inflight \in [Clients -> [Ids -> Keys \cup {Null}]]
        /\ got \in [Clients -> SUBSET Msgs]
        /\ \A t \in Proc : pc[t] # "start" => key[t] \in Keys
    BY DEF TypeOK, TaskShape, ConnectionsType, StoreType
  <1>w. ASSUME store'[k][i] = m, expired \subseteq expired', closed \subseteq closed',
               UNCHANGED registryVars
        PROVE  MustWake(k, i, c) /\ Woken(k, i, c)
    <2>1. MustWake(k, i, c)
      BY <1>w DEF MustWake, clientsForKey, registryVars
    <2> QED
      BY <2>1 DEF GeneratedWoken
  <1>m. m # Null => m \in Msgs /\ idOf[m] = i
    BY <1>0 DEF QueuesHoldPosted
  <1>n. store'[k][i] # Null
    BY DEF MustWake
  <1> HIDE DEF Goal, m
  (* Steps that change nothing the property looks at, or delete. *)
  <1>1. ASSUME store'[k][i] \in {m, Null}, inflight'[c][i] = inflight[c][i],
               expired \subseteq expired', closed \subseteq closed', UNCHANGED registryVars,
               UNCHANGED <<pc, key, conns, queue, msg, left, to, got>>,
               keys'[c] = keys[c], todo'[c] = todo[c]
        PROVE  Goal
    BY <1>1, <1>w, <1>n, WokenKept DEF Goal, m
  <1>2. ASSUME NEW l, NEW j, DeleteMessage(l, j) PROVE store'[k][i] \in {m, Null}
    BY <1>0, <1>2 DEF DeleteMessage, m
  <1>3. ASSUME NEW l, DeleteQueue(l) PROVE store'[k][i] \in {m, Null}
    BY <1>0, <1>3 DEF DeleteQueue, EmptyQueue, m
  <1>4. ASSUME NEW d \in Clients, NEW ts \in TopicSets, handleWs(d, ts) PROVE Goal
    <2>1. store'[k][i] = m /\ UNCHANGED <<closed, expired, inflight, pc, keys>>
      BY <1>4 DEF handleWs, clientVars, messageVars, m
    <2>2. AudienceMeans /\ AudienceMeans'
      BY ClientsForKeyMeans, AudienceMeansNext DEF AudienceMeans
    <2>3. c \in clientsForKey(k)' /\ Subscribed(c, k)'
      BY <2>2 DEF MustWake, AudienceMeans
    <2>4. CASE d = c
      <3>1. connKeys'[c] = ts /\ todo'[c] = ts
        BY <1>0, <1>4, <2>4 DEF handleWs, register, TypeOK, ConnectionsType, Proc
      <3> QED
        BY <2>3, <3>1 DEF Subscribed, Goal, Woken, Backlogged
    <2>5. CASE d # c
      <3>1. connKeys'[c] = connKeys[c] /\ reader'[c] = reader[c] /\ todo'[c] = todo[c]
        BY <1>0, <1>4, <2>5 DEF handleWs, register, TypeOK, ConnectionsType, Proc
      <3>2. c \in clientsForKey(k)
        BY <2>2, <2>3, <3>1 DEF AudienceMeans, Subscribed
      <3>3. Woken(k, i, c)
        BY <2>1, <3>2 DEF GeneratedWoken, MustWake, m
      <3> QED
        BY <1>4, <2>1, <3>1, <3>3, WokenKept DEF handleWs, sendVars, wireVars, Goal, m
    <2> QED
      BY <2>4, <2>5
  <1>5. ASSUME NEW d \in Clients, removeClient(d) PROVE Goal
    <2>1. AudienceMeans /\ AudienceMeans'
      BY ClientsForKeyMeans, AudienceMeansNext DEF AudienceMeans
    <2>2. store'[k][i] = m /\ UNCHANGED <<closed, expired, inflight, keys, todo, connKeys>>
      BY <1>5 DEF removeClient, unregister, clientVars, messageVars, taskVars, m
    <2>3. \A e \in Clients : reader'[e] \in {reader[e], "done"}
      BY <1>5 DEF removeClient, TypeOK
    <2>4. c \in clientsForKey(k)
      BY <2>1, <2>2, <2>3 DEF MustWake, AudienceMeans, Subscribed
    <2>5. Woken(k, i, c)
      BY <2>2, <2>4 DEF GeneratedWoken, MustWake, m
    <2> QED
      BY <1>5, <2>2, <2>5, WokenKept DEF removeClient, taskVars, sendVars, wireVars, Goal, m
  <1>6. ASSUME NEW d \in Clients, NEW j \in Ids, takeInflight(d, j) PROVE Goal
    <2>1. CASE d # c \/ j # i
      <3>1. inflight'[c][i] = inflight[c][i]
        BY <1>0, <1>6, <2>1 DEF takeInflight, clientAcks, clearInflight
      <3> QED
        BY <1>1, <1>6, <3>1 DEF takeInflight, clientAcks, messageVars, taskVars, sendVars, m
    <2>2. CASE d = c /\ j = i
      <3>1. PICK n \in got[c] : idOf[n] = i
        <4>1. owed[c][i] \in Nat /\ owed[c][i] > 0
          BY <1>6, <2>2 DEF takeInflight, clientAcks, TypeOK
        <4> QED
          BY <4>1 DEF CopiesWritten, WroteId
      <3>2. store'[k][i] = m /\ got' = got
        BY <1>6 DEF takeInflight, clientAcks, m
      <3>3. n = m
        BY <1>0, <1>m, <1>n, <3>1, <3>2 DEF GeneratedIdsApart
      <3> QED
        BY <3>1, <3>2, <3>3 DEF Goal, Woken
    <2> QED
      BY <2>1, <2>2
  <1>7. CASE Environment
    <2> USE DEF messageVars, taskVars, sendVars, clientVars, wireVars
    <2>1. ASSUME NEW n \in Msgs, NEW j \in Ids, NEW ks \in TargetSets, handlePost(n, j, ks)
          PROVE  Goal
      <3>1. todo'[c] = todo[c]
        BY <1>0, <2>1 DEF handlePost, Proc
      <3> QED
        BY <1>1, <2>1, <3>1 DEF handlePost, m
    <2>2. ASSUME NEW n \in Msgs, Expire(n) PROVE Goal
      BY <1>1, <2>2 DEF Expire, m
    <2>3. ASSUME NEW d \in Clients, ReadExit(d) \/ PingFail(d) PROVE Goal
      BY <1>1, <2>3 DEF ReadExit, PingFail, close, m
    <2>4. ASSUME NEW l \in Keys, NEW j \in Ids, deleteMsgById(l, j) PROVE Goal
      BY <1>1, <1>2, <2>4 DEF deleteMsgById, othersUnchanged
    <2>5. ASSUME NEW l \in Keys, deleteMsgQueue(l) PROVE Goal
      BY <1>1, <1>3, <2>5 DEF deleteMsgQueue, othersUnchanged
    <2>6. CASE deleteAll
      BY <1>1, <2>6 DEF deleteAll, othersUnchanged, m
    <2> QED
      BY <1>4, <1>6, <1>7, <2>1, <2>2, <2>3, <2>4, <2>5, <2>6 DEF Environment, Publish
  <1>8. ASSUME NEW d \in Clients, Reader(d) PROVE Goal
    BY <1>1, <1>2, <1>5, <1>8 DEF Reader, AckDelete, messageVars, taskVars, sendVars,
       clientVars, wireVars
  <1>9. CASE Sweeper
    <2> USE DEF messageVars, taskVars, sendVars, clientVars, wireVars
    <2>1. ASSUME NEW n \in Msgs, sweepMsg(n) PROVE Goal
      BY <1>1, <1>2, <2>1 DEF sweepMsg, m
    <2>2. CASE sweepTick \/ \E l \in Keys : sweepRead(l)
      BY <1>1, <2>2 DEF sweepTick, sweepRead, m
    <2> QED
      BY <1>9, <2>1, <2>2 DEF Sweeper
  <1>10. ASSUME NEW l \in Keys, deleteAllNext(l) PROVE Goal
    BY <1>1, <1>3, <1>10 DEF deleteAllNext, othersUnchanged, messageVars, taskVars, sendVars,
       clientVars, wireVars
  <1>11. CASE UNCHANGED vars
    BY <1>1, <1>11 DEF vars, messageVars, taskVars, sendVars, clientVars, wireVars, m
  (* Steps of a task. *)
  <1>12. ASSUME NEW t \in Proc, store'[k][i] = m, UNCHANGED <<registryVars, expired>>,
                closed \subseteq closed', got[c] \subseteq got'[c],
                keys'[c] = keys[c], todo'[c] = todo[c],
                \A u \in Proc \ {t} :
                  /\ pc'[u] = pc[u] /\ key'[u] = key[u] /\ conns'[u] = conns[u]
                  /\ queue'[u] = queue[u] /\ msg'[u] = msg[u]
                  /\ left'[u] = left[u] /\ to'[u] = to[u],
                inflight[c][i] # Null => Goal,
                m \in Msgs /\ idOf[m] = i /\ MustWake(k, i, c) /\ TaskWillSend(t, c, k, m) => Goal,
                AboutToClose(t, c) => Goal
         PROVE  Goal
    <2>1. Backlogged(c, k) => Goal
      BY <1>12 DEF Backlogged, Goal, Woken
    <2>2. MustWake(k, i, c) /\ Woken(k, i, c)
      BY <1>12, <1>w
    <2>3. m \in Msgs /\ idOf[m] = i
      BY <1>m, <2>2 DEF MustWake, m
    <2> QED
      BY <1>12, <2>1, <2>2, <2>3, WokenByTask DEF Goal, m
  <1>13. ASSUME inflight'[c][i] # Null PROVE Goal
    BY <1>13 DEF Goal, Woken
  <1>14. ASSUME NEW t \in Proc, store'[k][i] = m,
                TaskWillSend(t, c, k, m)' \/ AboutToClose(t, c)'
         PROVE  Goal
    <2>1. TaskWillSend(t, c, k, store[k][i])' \/ AboutToClose(t, c)'
      BY <1>14 DEF TaskWillSend, m
    <2> QED
      BY <2>1 DEF Goal, Woken
  <1>15. ASSUME NEW n \in Msgs, NEW l \in Keys, NextTarget(n, l) PROVE Goal
    <2> USE DEF messageVars, clientVars, registryVars, sendVars, wireVars
    <2>0. /\ n \in Proc /\ pc[n] = "start" /\ pc'[n] = "lock" /\ key'[n] = l
          /\ keys'[c] = keys[c] /\ todo'[c] = todo[c]
          /\ \A u \in Proc \ {n} : pc'[u] = pc[u] /\ key'[u] = key[u]
          /\ UNCHANGED <<registryVars, clientVars, messageVars, sendVars, got>>
      BY <1>0, <1>15 DEF NextTarget, Proc
    <2>1. CASE l = k /\ idOf[n] = i
      BY <2>0, <2>1 DEF Goal, Woken, TaskWillSend
    <2>2. CASE l # k \/ idOf[n] # i
      <3>1. store'[k][i] = m
        BY <1>0, <1>15, <2>2 DEF NextTarget, AddMessage, m
      <3>2. m \in Msgs => ~TaskWillSend(n, c, k, m)
        BY <1>0, <2>0 DEF TaskWillSend, QueuesHoldPosted
      <3>3. ~AboutToClose(n, c)
        BY <2>0 DEF AboutToClose
      <3> QED
        BY <1>12, <1>13, <2>0, <3>1, <3>2, <3>3
    <2> QED
      BY <2>1, <2>2
  <1>16. ASSUME NEW t \in Proc, NEW l \in Keys, NextKey(t, l) PROVE Goal
    <2> USE DEF messageVars, clientVars, registryVars, sendVars, wireVars
    <2>0. /\ pc[t] = "start" /\ pc'[t] = "lock" /\ key'[t] = l
          /\ keys' = [keys EXCEPT ![t] = @ \ {l}]
          /\ \A u \in Proc \ {t} : pc'[u] = pc[u] /\ key'[u] = key[u]
          /\ UNCHANGED <<store, registryVars, clientVars, messageVars, sendVars, got, todo>>
      BY <1>0, <1>16 DEF NextKey
    <2>1. CASE l = k
      BY <2>0, <2>1 DEF Goal, Woken, TaskWillSend
    <2>2. CASE l # k
      <3>1. m \in Msgs => ~TaskWillSend(t, c, k, m)
        BY <1>0, <2>0 DEF TaskWillSend, QueuesHoldPosted
      <3>2. ~AboutToClose(t, c)
        BY <2>0 DEF AboutToClose
      <3>3. MustWake(k, i, c) /\ Woken(k, i, c)
        BY <1>w, <2>0 DEF m
      <3>4. Backlogged(c, k) => Backlogged(c, k)'
        BY <1>0, <2>0, <2>2 DEF Backlogged, Proc
      <3>5. Backlogged(c, k) => Goal
        BY <3>4 DEF Goal, Woken
      <3>6. m \in Msgs
        BY <1>m, <3>3 DEF MustWake, m
      <3> QED
        BY <1>13, <2>0, <3>1, <3>2, <3>3, <3>5, <3>6, WokenByTask DEF Goal, m
    <2> QED
      BY <2>1, <2>2
  <1>17. ASSUME NEW d \in Clients, NEW p \in Topics, NextTopic(d, p) PROVE Goal
    <2> USE DEF messageVars, clientVars, registryVars, sendVars, wireVars
    <2>0. /\ keys[d] = {}
          /\ todo' = [todo EXCEPT ![d] = @ \ {p}]
          /\ keys' = [keys EXCEPT ![d] = backlog(p)]
          /\ UNCHANGED <<store, registryVars, clientVars, messageVars, pc, key, sendVars, got>>
      BY <1>17 DEF NextTopic
    <2>1. MustWake(k, i, c) /\ Woken(k, i, c)
      BY <1>w, <2>0 DEF m
    <2>2. k \in GetKeys
      BY <2>1 DEF MustWake, GetKeys, GetQueue
    <2>3. keyMatches(p, k) => k \in backlog(p)
      BY <2>2 DEF backlog, storageKeysMatching, keyMatches
    <2>4. Backlogged(c, k) => Backlogged(c, k)'
      BY <1>0, <2>0, <2>3 DEF Backlogged, Proc
    <2> QED
      BY <2>0, <2>1, <2>4 DEF Goal, Woken, TaskWillSend, AboutToClose
  <1>18. CASE reconcileTick \/ \E p \in Patterns : reconcileResolve(p)
    <2>1. keys'[c] = keys[c] /\ todo'[c] = todo[c]
      BY <1>0, <1>18 DEF reconcileTick, reconcileResolve, Proc
    <2> QED
      BY <1>1, <1>18, <2>1 DEF reconcileTick, reconcileResolve, messageVars, clientVars,
         sendVars, wireVars, m
  <1>19. ASSUME NEW t \in Proc, Acquire(t) PROVE Goal
    <2> USE DEF messageVars, clientVars, registryVars, sendVars, wireVars
    <2>0. /\ pc[t] = "lock" /\ ~AboutToClose(t, c) /\ store'[k][i] = m
          /\ \A u \in Proc \ {t} : pc'[u] = pc[u] /\ key'[u] = key[u] /\ conns'[u] = conns[u]
          /\ UNCHANGED <<registryVars, clientVars, expired, got, keys, todo, queue, msg, left, to>>
      BY <1>0, <1>19 DEF Acquire, Lock, NoConns, AboutToClose, m
    <2>1. ASSUME MustWake(k, i, c), TaskWillSend(t, c, k, m), m \in Msgs PROVE Goal
      <3>1. key[t] = k /\ c \in clientsForKey(k)
        BY <1>0, <2>0, <2>1 DEF TaskWillSend, MustWake, QueuesHoldPosted
      <3>2. pc'[t] = "read" /\ c \in conns'[t] /\ key'[t] = k
        BY <1>0, <1>19, <3>1 DEF Acquire, Lock, NoConns
      <3> QED
        BY <1>14, <2>0, <3>2 DEF TaskWillSend
    <2> QED
      BY <1>12, <1>13, <2>0, <2>1
  <1>20. ASSUME NEW t \in Proc, ReadQueue(t) PROVE Goal
    <2> USE DEF messageVars, clientVars, registryVars, wireVars
    <2>0. /\ pc[t] = "read" /\ ~AboutToClose(t, c) /\ store'[k][i] = m
          /\ \A u \in Proc \ {t} : pc'[u] = pc[u] /\ queue'[u] = queue[u]
          /\ UNCHANGED <<registryVars, clientVars, expired, got, keys, todo, key, conns, msg, left, to>>
      BY <1>0, <1>20 DEF ReadQueue, AboutToClose, m
    <2>1. ASSUME MustWake(k, i, c), TaskWillSend(t, c, k, m), m \in Msgs PROVE Goal
      <3>1. key[t] = k /\ c \in conns[t]
        BY <2>0, <2>1 DEF TaskWillSend
      <3>2. m \in queue'[t]
        BY <1>0, <1>20, <2>1, <3>1 DEF ReadQueue, GetQueue, m
      <3> QED
        BY <1>14, <2>0, <3>1, <3>2 DEF TaskWillSend, m
    <2> QED
      BY <1>12, <1>13, <2>0, <2>1
  <1>21. ASSUME NEW t \in Proc, NoMsgs(t) \/ EndFlush(t) PROVE Goal
    <2> USE DEF messageVars, clientVars, registryVars, wireVars
    <2>0. /\ pc[t] \in {"read", "next"} /\ ~AboutToClose(t, c) /\ store'[k][i] = m
          /\ \A u \in Proc \ {t} : pc'[u] = pc[u] /\ key'[u] = key[u] /\ conns'[u] = conns[u]
          /\ UNCHANGED <<registryVars, clientVars, expired, got, keys, todo, queue, msg, left, to>>
      BY <1>0, <1>21 DEF NoMsgs, EndFlush, Return, AboutToClose, m
    <2>1. ASSUME MustWake(k, i, c), TaskWillSend(t, c, k, m), m \in Msgs PROVE FALSE
      <3>1. key[t] = k /\ m \in GetQueue(k) /\ msg[t] = Null
        BY <1>0, <2>0, <2>1 DEF TaskWillSend, QueuesHoldPosted, GetQueue, m
      <3> QED
        BY <1>21, <2>1, <3>1 DEF NoMsgs, EndFlush, TaskWillSend
    <2> QED
      BY <1>12, <1>13, <2>0, <2>1
  <1>22. ASSUME NEW t \in Proc, NEW n \in Msgs, NextMsg(t, n) PROVE Goal
    <2> USE DEF messageVars, clientVars, registryVars, wireVars
    <2>0. /\ pc[t] = "next" /\ msg[t] = Null /\ ~AboutToClose(t, c) /\ store'[k][i] = m
          /\ \A u \in Proc \ {t} : /\ pc'[u] = pc[u] /\ queue'[u] = queue[u]
                                   /\ msg'[u] = msg[u] /\ left'[u] = left[u]
          /\ queue'[t] = queue[t] \ {n} /\ msg'[t] = n /\ left'[t] = conns[t]
          /\ UNCHANGED <<registryVars, clientVars, expired, got, keys, todo, key, conns, to>>
      BY <1>0, <1>22 DEF NextMsg, AboutToClose, QueuesHoldPosted, m
    <2>1. ASSUME TaskWillSend(t, c, k, m), m \in Msgs PROVE Goal
      <3>1. key[t] = k /\ c \in conns[t] /\ m \in queue[t]
        BY <2>0, <2>1 DEF TaskWillSend
      <3> QED
        BY <1>14, <2>0, <3>1 DEF TaskWillSend, m
    <2> QED
      BY <1>12, <1>13, <2>0, <2>1
  <1>23. ASSUME NEW t \in Proc, NEW n \in Msgs, SkipExpired(t, n) PROVE Goal
    <2> USE DEF messageVars, clientVars, registryVars, wireVars, taskVars
    <2>0. /\ pc[t] = "next" /\ n \in expired /\ ~AboutToClose(t, c) /\ store'[k][i] = m
          /\ \A u \in Proc \ {t} : queue'[u] = queue[u]
          /\ queue'[t] = queue[t] \ {n}
          /\ UNCHANGED <<registryVars, clientVars, expired, got, keys, todo, pc, key, conns,
                         msg, left, to>>
      BY <1>0, <1>23 DEF SkipExpired, AboutToClose, m
    <2>1. ASSUME MustWake(k, i, c), TaskWillSend(t, c, k, m) PROVE Goal
      BY <1>14, <2>0, <2>1 DEF TaskWillSend, MustWake, m
    <2> QED
      BY <1>12, <1>13, <2>0, <2>1
  <1>24. ASSUME NEW t \in Proc, NEW d \in Clients, Mark(t, d) PROVE Goal
    <2> USE DEF messageVars, registryVars, wireVars
    <2>0. /\ pc[t] = "mark" /\ pc'[t] = "write" /\ ~AboutToClose(t, c) /\ store'[k][i] = m
          /\ \A u \in Proc \ {t} : pc'[u] = pc[u] /\ to'[u] = to[u]
          /\ key[t] \in Keys
          /\ UNCHANGED <<registryVars, closed, expired, got, keys, todo, key, conns, queue,
                         msg, left>>
      BY <1>0, <1>24 DEF Mark, AboutToClose, m
    <2>1. ASSUME inflight[c][i] # Null PROVE Goal
      BY <1>0, <1>13, <1>24, <2>0, <2>1 DEF Mark, markInflight
    <2>2. ASSUME TaskWillSend(t, c, k, m) PROVE Goal
      BY <1>14, <2>0, <2>2 DEF TaskWillSend, m
    <2> QED
      BY <1>12, <2>0, <2>1, <2>2
  (* The loop over the connections moves on from d. *)
  <1>25. ASSUME NEW t \in Proc, NEW d \in Clients, DoneWith(t, d), store'[k][i] = m,
                pc[t] \in {"mark", "write", "close"},
                UNCHANGED <<registryVars, expired>>, closed \subseteq closed',
                got[c] \subseteq got'[c], inflight[c][i] # Null => Goal,
                AboutToClose(t, c) => Goal,
                MustWake(k, i, c) /\ m \in Msgs /\ idOf[m] = i /\ msg[t] = m /\ d = c => Goal
         PROVE  Goal
    <2>0. /\ \A u \in Proc \ {t} : pc'[u] = pc[u] /\ left'[u] = left[u] /\ to'[u] = to[u]
                                   /\ msg'[u] = msg[u]
          /\ left'[t] = left[t] \ {d}
          /\ left'[t] # {} => msg'[t] = msg[t]
          /\ UNCHANGED <<keys, todo, key, conns, queue>>
      BY <1>0, <1>25 DEF DoneWith
    <2>1. ASSUME MustWake(k, i, c), TaskWillSend(t, c, k, m), m \in Msgs, idOf[m] = i PROVE Goal
      <3>1. CASE msg[t] = m /\ d = c
        BY <1>25, <2>1, <3>1
      <3>2. CASE msg[t] = m /\ c \in left[t] /\ d # c
        BY <1>14, <1>25, <2>0, <2>1, <3>2 DEF TaskWillSend, m
      <3>3. CASE m \in queue[t]
        BY <1>14, <1>25, <2>0, <2>1, <3>3 DEF TaskWillSend, m
      <3> QED
        BY <1>25, <2>1, <3>1, <3>2, <3>3 DEF TaskWillSend
    <2> QED
      BY <1>12, <1>25, <2>0, <2>1
  <1>26. ASSUME NEW t \in Proc, NEW d \in Clients, SkipClient(t, d) PROVE Goal
    <2>1. ASSUME MustWake(k, i, c), m \in Msgs, idOf[m] = i, msg[t] = m, d = c PROVE Goal
      <3>1. inflight[c][i] # Null
        BY <1>26, <2>1 DEF SkipClient, canMark, MustWake
      <3> QED
        BY <1>13, <1>26, <3>1 DEF SkipClient, clientVars
    <2> QED
      BY <1>13, <1>25, <1>26, <2>1 DEF SkipClient, AboutToClose, clientVars, messageVars,
         wireVars, m
  <1>27. ASSUME NEW t \in Proc, WriteOk(t) PROVE Goal
    <2>1. to[t] \in Clients
      BY <1>27 DEF WriteOk, TypeOK, TaskShape
    <2>2. ASSUME m \in Msgs, msg[t] = m, to[t] = c PROVE Goal
      <3>1. m \in got'[c] /\ store'[k][i] = m
        BY <1>0, <1>27, <2>2 DEF WriteOk, m
      <3> QED
        BY <3>1 DEF Goal, Woken
    <2>3. got[c] \subseteq got'[c]
      BY <1>0, <1>27 DEF WriteOk
    <2> QED
      BY <1>13, <1>25, <1>27, <2>1, <2>2, <2>3 DEF WriteOk, AboutToClose, clientVars,
         messageVars, m
  <1>28. ASSUME NEW t \in Proc, WriteFail(t) PROVE Goal
    <2> USE DEF messageVars, clientVars, registryVars, wireVars, sendVars
    <2>0. /\ pc[t] = "write" /\ pc'[t] = "clear" /\ ~AboutToClose(t, c) /\ store'[k][i] = m
          /\ \A u \in Proc \ {t} : pc'[u] = pc[u]
          /\ UNCHANGED <<registryVars, clientVars, expired, got, keys, todo, key, sendVars>>
      BY <1>0, <1>28 DEF WriteFail, AboutToClose, m
    <2>1. ASSUME TaskWillSend(t, c, k, m) PROVE Goal
      BY <1>14, <2>0, <2>1 DEF TaskWillSend, m
    <2> QED
      BY <1>12, <1>13, <2>0, <2>1
  <1>29. ASSUME NEW t \in Proc, ClearInflight(t) PROVE Goal
    <2> USE DEF messageVars, registryVars, wireVars, sendVars
    <2>0. /\ pc[t] = "clear" /\ pc'[t] = "close" /\ store'[k][i] = m
          /\ \A u \in Proc \ {t} : pc'[u] = pc[u]
          /\ UNCHANGED <<registryVars, closed, expired, got, keys, todo, key, sendVars>>
      BY <1>0, <1>29 DEF ClearInflight, m
    <2>1. ASSUME to[t] = c PROVE Goal
      BY <1>14, <2>0, <2>1 DEF AboutToClose
    <2>2. ASSUME inflight[c][i] # Null, to[t] # c PROVE Goal
      BY <1>0, <1>13, <1>29, <2>2 DEF ClearInflight, clearInflight
    <2>3. ASSUME TaskWillSend(t, c, k, m) PROVE Goal
      BY <1>14, <2>0, <2>3 DEF TaskWillSend, m
    <2> QED
      BY <1>12, <2>0, <2>1, <2>2, <2>3 DEF AboutToClose
  <1>30. ASSUME NEW t \in Proc, CloseConn(t) PROVE Goal
    <2>1. to[t] \in Clients /\ to[t] # c
      BY <1>30 DEF CloseConn, close, MustWake, TypeOK, TaskShape
    <2> QED
      BY <1>13, <1>25, <1>30, <2>1 DEF CloseConn, close, AboutToClose, messageVars, wireVars, m
  <1>31. ASSUME NEW t \in Proc, Send(t) PROVE Goal
    BY <1>20, <1>21, <1>22, <1>23, <1>24, <1>26, <1>27, <1>28, <1>29, <1>30, <1>31 DEF Send
  <1>32. ASSUME NEW t \in Proc, Start(t) PROVE Goal
    BY <1>15, <1>16, <1>17, <1>18, <1>32 DEF Start
  <1> QED
    BY <1>7, <1>8, <1>9, <1>10, <1>11, <1>19, <1>31, <1>32 DEF Next

(* A message with a generated id that waits for an open connection is sent *)
(* to it without a further event (handleWs, the task of a POST and         *)
(* sendMessages), also when other ids are reused by callers.               *)
THEOREM GeneratedWakeup == Spec => []GeneratedWoken
  <1>1. Init => GeneratedWoken
    BY DEF Init, Init_Storage, EmptyQueue, GeneratedWoken, MustWake
  <1>2. TypeOK /\ TaskShape /\ QueuesHoldPosted /\ RegistryConsistent /\ RegistryConsistent'
          /\ GeneratedIdsApart /\ CopiesWritten /\ GeneratedWoken /\ TypeOK' /\ [Next]_vars
          => GeneratedWoken'
    BY StepWoken
  <1> QED
    BY <1>1, <1>2, ShapeCorrect, RegistryCorrect, PostedCorrect, CopiesCorrect, PTL DEF Spec

(* No wake-up is lost between handleWs, the task of a POST, the reader and *)
(* sendMessages, for any number of keys, connections and locks, if callers *)
(* leave the ids to goctopus.  With a reused id an ACK of the message that *)
(* was replaced hides the one that replaced it (see ack_upsert).           *)
THEOREM WakeupCorrect ==
  ASSUME CallerIds = {}
  PROVE  Spec => []NoLostWakeup
  <1>1. GeneratedWoken => NoLostWakeup
    BY WokenCovers
  <1> QED
    BY <1>1, GeneratedWakeup, PTL

-----------------------------------------------------------------------------
(* What leaves a queue. *)

PurgeOnRequest == purge # {} => ApiDeletes

LEMMA PurgeCorrect == Spec => []PurgeOnRequest
  <1> USE DEF PurgeOnRequest
  <1>1. Init => PurgeOnRequest
    BY DEF Init
  <1>2. ASSUME PurgeOnRequest, [Next]_vars PROVE PurgeOnRequest'
    <2>1. CASE UNCHANGED purge
      BY <1>2, <2>1
    <2>2. CASE Environment
      BY <1>2, <2>1, <2>2 DEF Environment, Publish, handlePost, Expire, handleWs, takeInflight, clientAcks,
         ReadExit, PingFail, deleteMsgById, deleteMsgQueue, deleteAll
    <2>3. ASSUME NEW t \in Proc, Start(t) \/ Acquire(t) PROVE PurgeOnRequest'
      BY <2>1, <2>3 DEF Start, Acquire, NextTarget, NextTopic, reconcileTick,
         reconcileResolve, NextKey, Lock, NoConns
    <2>4. ASSUME NEW t \in Proc, Send(t) PROVE PurgeOnRequest'
      BY <2>1, <2>4 DEF Send, ReadQueue, NoMsgs, EndFlush, NextMsg, SkipExpired, Mark,
         SkipClient, WriteOk, WriteFail, ClearInflight, CloseConn
    <2>5. ASSUME NEW c \in Clients, Reader(c) PROVE PurgeOnRequest'
      BY <2>1, <2>5 DEF Reader, AckDelete, removeClient
    <2>6. CASE Sweeper
      BY <2>1, <2>6 DEF Sweeper, sweepTick, sweepRead, sweepMsg
    <2>7. ASSUME NEW k \in Keys, deleteAllNext(k) PROVE PurgeOnRequest'
      BY <1>2, <2>7 DEF deleteAllNext
    <2>8. CASE UNCHANGED vars
      BY <2>1, <2>8 DEF vars
    <2> QED
      BY <1>2, <2>2, <2>3, <2>4, <2>5, <2>6, <2>7, <2>8 DEF Next
  <1> QED
    BY <1>1, <1>2, PTL DEF Spec

(* The steps in which a DELETE request removes m from the queue of k. *)
DeletedByRequest(k, m) ==
  deleteMsgById(k, idOf[m]) \/ deleteMsgQueue(k) \/ deleteAllNext(k)

(* Removed or replaced. *)
Leaves(k, m) == m \in GetQueue(k) /\ store'[k][idOf[m]] # m

Written(m) == \E c \in Clients : m \in got[c]

LeavesJustified ==
  \A k \in Keys, m \in Msgs :
    Leaves(k, m) /\ idOf[m] \notin CallerIds => m \in expired \/ Written(m) \/ DeletedByRequest(k, m)

(* A message with a generated id leaves a queue only in an expired state,  *)
(* written to some connection, or by a DELETE that names it or its queue,  *)
(* whatever callers do with the ids they choose.                           *)
GeneratedLeaveJustified == [][LeavesJustified]_vars

LEMMA StepLeaves ==
  TypeOK /\ TaskShape /\ QueuesHoldPosted /\ GeneratedIdsApart /\ CopiesWritten /\ [Next]_vars
    => LeavesJustified
  <1> SUFFICES ASSUME TypeOK, TaskShape, QueuesHoldPosted, GeneratedIdsApart, CopiesWritten,
                      [Next]_vars, NEW k \in Keys, NEW m \in Msgs, Leaves(k, m),
                      idOf[m] \notin CallerIds
               PROVE  m \in expired \/ Written(m) \/ DeletedByRequest(k, m)
    BY DEF LeavesJustified
  <1> DEFINE Goal == m \in expired \/ Written(m) \/ DeletedByRequest(k, m)
             i == idOf[m]
  <1> SUFFICES Goal
    OBVIOUS
  <1>0. store \in [Keys -> [Ids -> Msgs \cup {Null}]] /\ idOf \in [Msgs -> Ids \cup {Null}]
        /\ got \in [Clients -> SUBSET Msgs]
    BY DEF TypeOK, StoreType
  <1>1. i \in Ids /\ i \notin CallerIds /\ store[k][i] = m /\ store'[k][i] # m
    <2>1. PICK j \in Ids : store[k][j] = m
      BY DEF Leaves, GetQueue
    <2> QED
      BY <2>1 DEF QueuesHoldPosted, Leaves
  <1>2. \A n \in Msgs : idOf[n] = i => n = m
    BY <1>0, <1>1 DEF GeneratedIdsApart
  <1>a. DeletedByRequest(k, m) <=> deleteMsgById(k, i) \/ deleteMsgQueue(k) \/ deleteAllNext(k)
    BY DEF DeletedByRequest
  <1> HIDE DEF Goal, i
  <1>3. CASE UNCHANGED store
    BY <1>1, <1>3
  <1>4. ASSUME NEW c \in Clients, AckDelete(c) PROVE Goal
    <2>1. ack[c][2] = i
      BY <1>0, <1>1, <1>4 DEF AckDelete, DeleteMessage
    <2>2. PICK n \in got[c] : idOf[n] = i
      BY <1>4, <2>1 DEF AckDelete, CopiesWritten, WroteId
    <2> QED
      BY <1>0, <1>2, <2>2 DEF Goal, Written
  <1>5. ASSUME NEW n \in Msgs, sweepMsg(n) PROVE Goal
    <2>1. n \in expired /\ idOf[n] = i
      BY <1>0, <1>1, <1>5 DEF sweepMsg, mustSweep, DeleteMessage
    <2> QED
      BY <1>2, <2>1 DEF Goal
  <1>6. ASSUME NEW n \in Msgs, NEW l \in Keys, NextTarget(n, l) PROVE Goal
    <2>1. CASE store' = [store EXCEPT ![l][idOf[n]] = n]
      <3>1. idOf[n] = i
        BY <1>0, <1>1, <2>1
      <3> QED
        BY <1>0, <1>1, <1>2, <2>1, <3>1
    <2> QED
      BY <1>3, <1>6, <2>1 DEF NextTarget, AddMessage
  <1>b. ASSUME NEW l \in Keys, NEW j \in Ids, deleteMsgById(l, j) PROVE Goal
    <2>1. l = k /\ j = i
      BY <1>0, <1>1, <1>b DEF deleteMsgById, DeleteMessage
    <2> QED
      BY <1>a, <1>b, <2>1 DEF Goal
  <1>c. ASSUME NEW l \in Keys, deleteMsgQueue(l) \/ deleteAllNext(l) PROVE Goal
    <2>1. l = k
      BY <1>0, <1>1, <1>c DEF deleteMsgQueue, deleteAllNext, DeleteQueue
    <2> QED
      BY <1>a, <1>c, <2>1 DEF Goal
  <1>7. CASE Environment
    <2>1. CASE UNCHANGED store
      BY <1>3, <2>1
    <2> QED
      BY <1>7, <1>b, <1>c, <2>1 DEF Environment, Publish, handlePost, Expire, handleWs, takeInflight, clientAcks,
         ReadExit, PingFail, deleteAll
  <1>8. ASSUME NEW t \in Proc, Start(t) \/ Acquire(t) PROVE Goal
    BY <1>3, <1>6, <1>8 DEF Start, Acquire, NextTopic, reconcileTick,
       reconcileResolve, NextKey, Lock, NoConns
  <1>9. ASSUME NEW t \in Proc, Send(t) PROVE Goal
    BY <1>3, <1>9 DEF Send, ReadQueue, NoMsgs, EndFlush, NextMsg, SkipExpired, Mark,
       SkipClient, WriteOk, WriteFail, ClearInflight, CloseConn
  <1>10. ASSUME NEW c \in Clients, Reader(c) PROVE Goal
    BY <1>3, <1>4, <1>10 DEF Reader, removeClient
  <1>11. CASE Sweeper
    BY <1>3, <1>5, <1>11 DEF Sweeper, sweepTick, sweepRead
  <1>13. CASE UNCHANGED vars
    BY <1>3, <1>13 DEF vars
  <1> QED
    BY <1>7, <1>8, <1>9, <1>10, <1>11, <1>c, <1>13 DEF Next

(* A message whose id goctopus generated is kept until it expired, was     *)
(* written to somebody or a DELETE asked for it: an ACK and the sweeper    *)
(* delete by id what they saw earlier, and that is still what they saw,    *)
(* also while callers reuse the ids they choose and delete what they like. *)
THEOREM GeneratedRemoval == Spec => GeneratedLeaveJustified
  <1>1. TypeOK /\ TaskShape /\ QueuesHoldPosted /\ GeneratedIdsApart /\ CopiesWritten
          /\ [Next]_vars => LeavesJustified
    BY StepLeaves
  <1>2. GeneratedLeaveJustified <=> [][LeavesJustified]_vars
    BY DEF GeneratedLeaveJustified
  <1> QED
    BY <1>1, <1>2, ShapeCorrect, PostedCorrect, CopiesCorrect, PTL DEF Spec

RemovalJustified ==
  \A k \in Keys, m \in Msgs :
    Removed(k, m) => m \in expired \/ \E c \in Clients : m \in got[c]

LEMMA LeavesCovers ==
  CallerIds = {} /\ ~ApiDeletes /\ PurgeOnRequest /\ LeavesJustified => RemovalJustified
  <1> SUFFICES ASSUME CallerIds = {}, ~ApiDeletes, PurgeOnRequest, LeavesJustified,
                      NEW k \in Keys, NEW m \in Msgs, Removed(k, m)
               PROVE  m \in expired \/ Written(m)
    BY DEF RemovalJustified, Written
  <1>1. Leaves(k, m)
    BY StorageAssumption DEF Removed, Leaves
  <1>2. ~DeletedByRequest(k, m)
    BY DEF DeletedByRequest, deleteMsgById, deleteMsgQueue, deleteAllNext, PurgeOnRequest
  <1> QED
    BY <1>1, <1>2 DEF LeavesJustified

(* "it is only removed from the queue when the client ACKs it (handleAck)  *)
(* or it expires (sweepExpired)", if no backend deletes messages and       *)
(* callers leave the ids to goctopus; both are needed (a DELETE removes    *)
(* what it likes; run ack_upsert shows what a reused id does).             *)
THEOREM RemovalCorrect ==
  ASSUME CallerIds = {}, ~ApiDeletes
  PROVE  Spec => RemovedOnlyDeliveredOrExpired
  <1>1. PurgeOnRequest /\ LeavesJustified => RemovalJustified
    BY LeavesCovers
  <1>2. TypeOK /\ TaskShape /\ QueuesHoldPosted /\ GeneratedIdsApart /\ CopiesWritten
          /\ [Next]_vars => LeavesJustified
    BY StepLeaves
  <1>3. RemovedOnlyDeliveredOrExpired <=> [][RemovalJustified]_vars
    BY DEF RemovedOnlyDeliveredOrExpired, RemovalJustified
  <1> QED
    BY <1>1, <1>2, <1>3, ShapeCorrect, PostedCorrect, CopiesCorrect, PurgeCorrect, PTL DEF Spec

=============================================================================
