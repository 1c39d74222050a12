--------------------------- MODULE ClusterProofs ---------------------------
(***************************************************************************)
(* A proof that no wake-up is lost between the instances but by a fault,   *)
(* and then only until the next one of the same key on the same instance,  *)
(* for any numbers of instances, connections, messages, keys and faults,   *)
(* with the reconciler and without: every message that stays queued was    *)
(* written to each connection of its key, or is about to be.               *)
(***************************************************************************)
EXTENDS Cluster, TLAPS

USE ClusterAssumption, StorageAssumption

FlushState == {"idle", "due", "read", "send"}

(* Every variable keeps its type; an open connection is on an instance.    *)
ClusterType ==
  /\ store \in StoreType
  /\ faults \in Nat
  /\ up \subseteq Nodes
  /\ post \in [Msgs -> {"none", "accepted", "queued", "notified", "lost"}]
  /\ at \in [Msgs -> Nodes \cup {Null}]
  /\ home \in [Clients -> Nodes \cup {Null}]
  /\ open \subseteq Clients
  /\ inflight \in [Clients -> SUBSET Msgs]
  /\ got \in [Clients -> SUBSET Msgs]
  /\ pc \in [Flushes -> FlushState]
  /\ conns \in [Flushes -> SUBSET Clients]
  /\ left \in [Flushes -> SUBSET (Clients \X Msgs)]

LEMMA InitType == Init => ClusterType
  BY DEF Init, ClusterType, Init_Storage, StoreType, EmptyQueue, FlushState

LEMMA QueueType == ASSUME ClusterType, NEW k \in Keys PROVE GetQueue(k) \subseteq Msgs
  BY DEF ClusterType, StoreType, GetQueue

(* The two updates of the store, on the queue of their key and the others. *)
LEMMA StoreKept ==
  ASSUME store \in StoreType, NEW m \in Msgs
  PROVE  /\ AddMessage(KeyOf[m], m, m) =>
              /\ store' \in StoreType
              /\ \A p \in Msgs : p # m => (p \in GetQueue(KeyOf[p])' => p \in GetQueue(KeyOf[p]))
         /\ DeleteMessage(KeyOf[m], m) =>
              /\ store' \in StoreType
              /\ \A p \in Msgs : p \in GetQueue(KeyOf[p])' => p \in GetQueue(KeyOf[p])
  <1> DEFINE Same(p) == p \in GetQueue(KeyOf[p])' => p \in GetQueue(KeyOf[p])
  <1>1. KeyOf[m] \in Keys /\ \A p \in Msgs : KeyOf[p] \in Keys
    OBVIOUS
  <1>2. /\ store \in [Keys -> [Msgs -> Msgs \cup {Null}]]
        /\ StoreType = [Keys -> [Msgs -> Msgs \cup {Null}]]
    BY DEF StoreType
  <1>3. ASSUME NEW v \in Msgs \cup {Null}, store' = [store EXCEPT ![KeyOf[m]][m] = v]
        PROVE  /\ store' \in StoreType
               /\ \A p \in Msgs : p # v => Same(p)
    <2>1. store' \in StoreType
      BY <1>1, <1>2, <1>3
    <2>2. ASSUME NEW p \in Msgs, p # v, p \in GetQueue(KeyOf[p])' PROVE p \in GetQueue(KeyOf[p])
      <3>1. PICK i \in Msgs : store'[KeyOf[p]][i] = p
        BY <2>2 DEF GetQueue
      <3>2. store[KeyOf[p]][i] = p
        BY <1>1, <1>2, <1>3, <2>2, <3>1
      <3> QED
        BY <3>2 DEF GetQueue
    <2> QED
      BY <2>1, <2>2
  <1> QED
    BY <1>3 DEF AddMessage, DeleteMessage

(* What a flush is for. *)
LEMMA FlushFor ==
  ASSUME NEW f \in Flushes
  PROVE  /\ keyFor(f) \in Keys
         /\ f \in Msgs => nodeOf(f) = at[f] /\ keyFor(f) = KeyOf[f]
         /\ f \in Clients => nodeOf(f) = home[f] /\ keyFor(f) = KeyOf[f]
         /\ f \in Notes => nodeOf(f) = f[1] /\ keyFor(f) = KeyOf[f[2]]
         /\ f \in Notes \cup Ticks => nodeOf(f) = f[1]
  BY DEF Flushes, Notes, Ticks, keyFor, nodeOf

LEMMA StepType == ClusterType /\ [Next]_vars => ClusterType'
  <1> SUFFICES ASSUME ClusterType, [Next]_vars PROVE ClusterType'
    OBVIOUS
  <1> USE DEF ClusterType, FlushState, postVars, connVars, flushVars, NoFault, Fault
  <1>1. ASSUME NEW n \in Nodes, NEW m \in Msgs, handlePost(n, m) PROVE ClusterType'
    BY <1>1 DEF handlePost
  <1>2. ASSUME NEW n \in Nodes, NEW c \in Clients, handleWs(n, c) PROVE ClusterType'
    BY <1>2 DEF handleWs, Flushes
  <1>3. ASSUME NEW c \in Clients, Disconnect(c) PROVE ClusterType'
    BY <1>3 DEF Disconnect
  <1>4. ASSUME NEW c \in Clients, NEW m \in Msgs, handleAck(c, m) PROVE ClusterType'
    <2>1. store' \in StoreType
      BY <1>4, StoreKept DEF handleAck
    <2>2. faults' \in Nat
      BY <1>4 DEF handleAck
    <2> QED
      BY <1>4, <2>1, <2>2 DEF handleAck
  <1>5. ASSUME NEW m \in Msgs, queueMessage(m) PROVE ClusterType'
    <2>1. store' \in StoreType
      BY <1>5, StoreKept DEF queueMessage
    <2>2. faults' \in Nat
      BY <1>5 DEF queueMessage
    <2> QED
      BY <1>5, <2>1, <2>2 DEF queueMessage
  <1>6. ASSUME NEW m \in Msgs, notify(m) PROVE ClusterType'
    <2>1. pc' \in [Flushes -> FlushState] /\ faults' \in Nat
      BY <1>6 DEF notify
    <2> QED
      BY <1>6, <2>1 DEF notify
  <1>7. ASSUME NEW n \in Nodes, NEW k \in Keys, reconcile(n, k) PROVE ClusterType'
    BY <1>7 DEF reconcile
  <1>8. ASSUME NEW f \in Flushes, Lock(f) PROVE ClusterType'
    <2>1. clientsForKey(f) \subseteq Clients
      BY DEF clientsForKey
    <2> QED
      BY <1>8, <2>1 DEF Lock, Return
  <1>9. ASSUME NEW f \in Flushes, ReadQueue(f) PROVE ClusterType'
    <2>1. conns[f] \X GetQueue(keyFor(f)) \subseteq Clients \X Msgs
      BY FlushFor, QueueType
    <2> QED
      BY <1>9, <2>1 DEF ReadQueue
  <1>10. ASSUME NEW f \in Flushes, ReadError(f) PROVE ClusterType'
    BY <1>10 DEF ReadError, Return, afterError
  <1>11. ASSUME NEW f \in Flushes, NEW c \in Clients, NEW m \in Msgs, SendNext(f, c, m)
         PROVE  ClusterType'
    <2>1. /\ inflight' \in [Clients -> SUBSET Msgs] /\ got' \in [Clients -> SUBSET Msgs]
      BY <1>11 DEF SendNext
    <2>2. /\ left' \in [Flushes -> SUBSET (Clients \X Msgs)] /\ pc' \in [Flushes -> FlushState]
      BY <1>11 DEF SendNext
    <2> QED
      BY <1>11, <2>1, <2>2 DEF SendNext
  <1>12. ASSUME NEW n \in Nodes, Crash(n) PROVE ClusterType'
    BY <1>12 DEF Crash
  <1>13. ASSUME NEW n \in Nodes, Restart(n) PROVE ClusterType'
    BY <1>13 DEF Restart
  <1>14. CASE UNCHANGED vars
    BY <1>14 DEF vars
  <1> QED
    BY <1>1, <1>2, <1>3, <1>4, <1>5, <1>6, <1>7, <1>8, <1>9, <1>10, <1>11, <1>12, <1>13, <1>14
    DEF Next, Task, Flush

-----------------------------------------------------------------------------
(* What NoLostNotification rests on: an open connection is on an instance  *)
(* that runs and so is told, the flush of a POST's own task is not asked   *)
(* for before the notification goes out, and what awaits its ACK was       *)
(* written.                                                                *)
OpenAtHome == \A c \in open : home[c] \in up

FlushAfterPost == \A m \in Msgs : post[m] \in {"none", "accepted", "queued"} => pc[m] = "idle"

InflightWritten == \A c \in Clients : inflight[c] \subseteq got[c]

Footing == OpenAtHome /\ FlushAfterPost /\ InflightWritten

LEMMA StepFooting == ClusterType /\ Footing /\ [Next]_vars => Footing'
  <1> SUFFICES ASSUME ClusterType, Footing, [Next]_vars PROVE Footing'
    OBVIOUS
  <1>0. /\ faults \in Nat /\ up \subseteq Nodes /\ open \subseteq Clients
        /\ post \in [Msgs -> {"none", "accepted", "queued", "notified", "lost"}]
        /\ home \in [Clients -> Nodes \cup {Null}]
        /\ inflight \in [Clients -> SUBSET Msgs] /\ got \in [Clients -> SUBSET Msgs]
        /\ pc \in [Flushes -> FlushState] /\ Msgs \subseteq Flushes /\ Clients \subseteq Flushes
        /\ Ticks \subseteq Flushes
    BY DEF ClusterType, Flushes
  <1> USE DEF postVars, connVars, flushVars, NoFault, Fault
  <1>1. ASSUME NEW n \in Nodes, NEW m \in Msgs, handlePost(n, m) PROVE Footing'
    BY <1>0, <1>1 DEF handlePost, Footing, OpenAtHome, FlushAfterPost, InflightWritten
  <1>2. ASSUME NEW n \in Nodes, NEW c \in Clients, handleWs(n, c) PROVE Footing'
    BY <1>0, <1>2 DEF handleWs, Footing, OpenAtHome, FlushAfterPost, InflightWritten
  <1>3. ASSUME NEW c \in Clients, Disconnect(c) PROVE Footing'
    BY <1>0, <1>3 DEF Disconnect, Footing, OpenAtHome, FlushAfterPost, InflightWritten
  <1>4. ASSUME NEW c \in Clients, NEW m \in Msgs, handleAck(c, m) PROVE Footing'
    <2>1. /\ UNCHANGED <<up, postVars, home, open, got, pc>>
          /\ inflight' = [inflight EXCEPT ![c] = @ \ {m}]
      BY <1>0, <1>4 DEF handleAck
    <2> QED
      BY <1>0, <2>1 DEF Footing, OpenAtHome, FlushAfterPost, InflightWritten
  <1>5. ASSUME NEW m \in Msgs, queueMessage(m) PROVE Footing'
    <2>1. /\ UNCHANGED <<up, connVars, pc>> /\ post[m] = "accepted"
          /\ post' = [post EXCEPT ![m] = "queued"]
      BY <1>0, <1>5 DEF queueMessage
    <2> QED
      BY <1>0, <2>1 DEF Footing, OpenAtHome, FlushAfterPost, InflightWritten
  <1>6. ASSUME NEW m \in Msgs, notify(m) PROVE Footing'
    <2>1. /\ UNCHANGED <<up, connVars>>
          /\ post' = [post EXCEPT ![m] = "notified"]
          /\ \A p \in Msgs : p # m => pc'[p] = pc[p]
      BY <1>0, <1>6 DEF notify, asked, Notes
    <2> QED
      BY <1>0, <2>1 DEF Footing, OpenAtHome, FlushAfterPost, InflightWritten
  <1>7. ASSUME NEW n \in Nodes, NEW k \in Keys, reconcile(n, k) PROVE Footing'
    <2>1. /\ UNCHANGED <<up, postVars, connVars>>
          /\ pc' = [pc EXCEPT ![<<n, k>>] = "due"] /\ <<n, k>> \notin Msgs
      BY <1>7 DEF reconcile, Ticks
    <2> QED
      BY <1>0, <2>1 DEF Footing, OpenAtHome, FlushAfterPost, InflightWritten
  <1>8. ASSUME NEW f \in Flushes, Lock(f) \/ ReadQueue(f) \/ ReadError(f) PROVE Footing'
    <2>1. /\ UNCHANGED <<up, postVars, connVars>>
          /\ pc[f] # "idle" /\ \A g \in Flushes : g # f => pc'[g] = pc[g]
      BY <1>0, <1>8 DEF Lock, Return, ReadQueue, ReadError
    <2> QED
      BY <1>0, <2>1 DEF Footing, OpenAtHome, FlushAfterPost, InflightWritten
  <1>9. ASSUME NEW f \in Flushes, NEW c \in Clients, NEW m \in Msgs, SendNext(f, c, m)
        PROVE  Footing'
    <2>1. /\ UNCHANGED <<up, postVars, home, open>>
          /\ pc[f] # "idle" /\ \A g \in Flushes : g # f => pc'[g] = pc[g]
      BY <1>0, <1>9 DEF SendNext
    <2>2. InflightWritten'
      BY <1>0, <1>9 DEF SendNext, Footing, InflightWritten
    <2> QED
      BY <1>0, <2>1, <2>2 DEF Footing, OpenAtHome, FlushAfterPost
  <1>10. ASSUME NEW n \in Nodes, Crash(n) PROVE Footing'
    <2>1. /\ UNCHANGED <<at, home, inflight, got>> /\ open' = {c \in open : home[c] # n}
          /\ up' = up \ {n}
          /\ \A g \in Flushes : pc[g] = "idle" => pc'[g] = "idle"
          /\ \A m \in Msgs : post'[m] \in {"none", "accepted", "queued"} => post'[m] = post[m]
      BY <1>0, <1>10 DEF Crash
    <2> QED
      BY <1>0, <2>1 DEF Footing, OpenAtHome, FlushAfterPost, InflightWritten
  <1>11. ASSUME NEW n \in Nodes, Restart(n) PROVE Footing'
    BY <1>0, <1>11 DEF Restart, Footing, OpenAtHome, FlushAfterPost, InflightWritten
  <1>12. CASE UNCHANGED vars
    BY <1>12 DEF vars, Footing, OpenAtHome, FlushAfterPost, InflightWritten
  <1> QED
    BY <1>1, <1>2, <1>3, <1>4, <1>5, <1>6, <1>7, <1>8, <1>9, <1>10, <1>11, <1>12
    DEF Next, Task, Flush

-----------------------------------------------------------------------------
(* What flush f would still do for c and m. *)
Sees(f, c, m) ==
  \/ pc[f] = "due"
  \/ pc[f] = "read" /\ c \in conns[f]
  \/ pc[f] = "send" /\ <<c, m>> \in left[f]

Covers(f, c, m) == nodeOf(f) = home[c] /\ keyFor(f) = KeyOf[m] /\ Sees(f, c, m)

Missed(c, m) == <<home[c], KeyOf[m]>> \in missed

Cared(c, m) == m \in got[c] \/ WillSee(c, m) \/ post[m] = "queued" \/ Missed(c, m)

LEMMA WillSeeIs ==
  ASSUME NEW c, NEW m
  PROVE  WillSee(c, m) <=> \E f \in Flushes : Covers(f, c, m)
  BY DEF WillSee, Covers, Sees

LEMMA StepNotified ==
  ClusterType /\ Footing /\ NoLostNotification /\ [Next]_vars => NoLostNotification'
  <1> SUFFICES ASSUME ClusterType, Footing, NoLostNotification, [Next]_vars,
                      NEW c \in Clients, NEW m \in Msgs, Waiting(c, m)'
               PROVE  Cared(c, m)'
    BY DEF NoLostNotification, Cared, Missed
  <1>0. /\ faults \in Nat /\ up \subseteq Nodes /\ open \subseteq Clients
        /\ post \in [Msgs -> {"none", "accepted", "queued", "notified", "lost"}]
        /\ at \in [Msgs -> Nodes \cup {Null}]
        /\ home \in [Clients -> Nodes \cup {Null}]
        /\ inflight \in [Clients -> SUBSET Msgs] /\ got \in [Clients -> SUBSET Msgs]
        /\ pc \in [Flushes -> FlushState] /\ conns \in [Flushes -> SUBSET Clients]
        /\ left \in [Flushes -> SUBSET (Clients \X Msgs)]
        /\ store \in [Keys -> [Msgs -> Msgs \cup {Null}]]
        /\ Msgs \subseteq Flushes /\ Clients \subseteq Flushes /\ Ticks \subseteq Flushes
        /\ Notes \subseteq Flushes /\ Ticks \cap Msgs = {} /\ Ticks \cap Clients = {}
        /\ Ticks \cap Notes = {}
        /\ KeyOf[m] \in Keys
    BY DEF ClusterType, Flushes, StoreType, Notes, Ticks
  <1> USE DEF postVars, connVars, flushVars, NoFault, Fault
  <1>1. ASSUME Waiting(c, m),
               m \in got[c] \/ post[m] = "queued" \/ Missed(c, m) => Cared(c, m)',
               \A f \in Flushes : Covers(f, c, m) => Cared(c, m)'
        PROVE  Cared(c, m)'
    <2>1. Cared(c, m)
      BY <1>1 DEF NoLostNotification, Cared, Missed
    <2> QED
      BY <1>1, <2>1, WillSeeIs DEF Cared
  <1>2. ASSUME NEW f \in Flushes, Covers(f, c, m)' PROVE Cared(c, m)'
    <2>1. (\E g \in Flushes : Covers(g, c, m)) => WillSee(c, m)
      BY WillSeeIs
    <2>2. (\E g \in Flushes : Covers(g, c, m))' => WillSee(c, m)'
      BY DEF WillSee, Covers, Sees
    <2> QED
      BY <1>2, <2>2 DEF Cared
  (* Steps that leave the connections, and what f covers, alone. *)
  <1>3. ASSUME Waiting(c, m), UNCHANGED <<home, at, got>>,
               post[m] = "queued" \/ Missed(c, m) => Cared(c, m)',
               \A f \in Flushes : nodeOf(f) = home[c] /\ keyFor(f) = KeyOf[m] =>
                  (Sees(f, c, m) => Sees(f, c, m)' \/ m \in got'[c])
        PROVE  Cared(c, m)'
    <2>1. m \in got'[c] => Cared(c, m)'
      BY DEF Cared
    <2>2. ASSUME NEW f \in Flushes, Covers(f, c, m) PROVE Cared(c, m)'
      <3>1. Sees(f, c, m)' \/ m \in got'[c]
        BY <1>3, <2>2 DEF Covers
      <3>2. nodeOf(f)' = nodeOf(f) /\ keyFor(f)' = keyFor(f)
        BY <1>3 DEF nodeOf, keyFor
      <3> QED
        BY <1>2, <1>3, <2>1, <2>2, <3>1, <3>2 DEF Covers
    <2> QED
      BY <1>1, <1>3, <2>1, <2>2
  <1>4. ASSUME UNCHANGED <<store, open>> PROVE Waiting(c, m)
    BY <1>4 DEF Waiting, GetQueue
  <1>5. ASSUME NEW n \in Nodes, NEW p \in Msgs, handlePost(n, p) PROVE Cared(c, m)'
    <2>1. Waiting(c, m)
      BY <1>4, <1>5 DEF handlePost
    <2>2. /\ UNCHANGED <<home, open, got, pc, conns, left, missed>>
          /\ pc[p] = "idle" /\ post[p] = "none"
          /\ at' = [at EXCEPT ![p] = n] /\ post' = [post EXCEPT ![p] = "accepted"]
      BY <1>5 DEF handlePost, Footing, FlushAfterPost
    <2>3. m \in got[c] \/ post[m] = "queued" \/ Missed(c, m) => Cared(c, m)'
      BY <1>0, <2>2 DEF Cared, Missed
    <2>4. ASSUME NEW f \in Flushes, Covers(f, c, m) PROVE Cared(c, m)'
      <3>1. f # p
        BY <2>2, <2>4 DEF Covers, Sees
      <3>2. nodeOf(f)' = nodeOf(f) /\ keyFor(f)' = keyFor(f)
        BY <1>0, <2>2, <3>1 DEF nodeOf, keyFor
      <3>3. Covers(f, c, m)'
        BY <2>2, <2>4, <3>2 DEF Covers, Sees
      <3> QED
        BY <1>2, <3>3
    <2> QED
      BY <1>1, <2>1, <2>3, <2>4
  <1>6. ASSUME NEW n \in Nodes, NEW d \in Clients, handleWs(n, d) PROVE Cared(c, m)'
    <2>1. /\ UNCHANGED <<store, at, post, got, conns, left>> /\ home[d] = Null
          /\ home' = [home EXCEPT ![d] = n] /\ open' = open \cup {d}
          /\ pc' = [pc EXCEPT ![d] = "due"] /\ missed' = missed \ {<<n, KeyOf[d]>>}
      BY <1>6 DEF handleWs
    <2>2. CASE c = d
      <3>1. /\ nodeOf(d)' = home'[d] /\ keyFor(d)' = KeyOf[d]
            /\ pc'[d] = "due" /\ KeyOf[d] = KeyOf[m]
        BY <1>0, <2>1, <2>2 DEF nodeOf, keyFor, Waiting
      <3>2. d \in Flushes /\ Covers(d, c, m)'
        BY <1>0, <2>2, <3>1 DEF Covers, Sees
      <3> QED
        BY <1>2, <3>2
    <2>3. CASE c # d
      <3>1. Waiting(c, m) /\ home[c] \in Nodes /\ home'[c] = home[c]
        BY <1>0, <2>1, <2>3 DEF Waiting, GetQueue, Footing, OpenAtHome
      <3>2. m \in got[c] \/ post[m] = "queued" => Cared(c, m)'
        BY <2>1 DEF Cared
      <3>4. ASSUME Missed(c, m) PROVE Cared(c, m)'
        <4>1. CASE <<home[c], KeyOf[m]>> = <<n, KeyOf[d]>>
          <5>1. nodeOf(d)' = n /\ keyFor(d)' = KeyOf[d] /\ pc'[d] = "due"
            BY <1>0, <2>1 DEF nodeOf, keyFor
          <5>2. home[c] = n /\ KeyOf[m] = KeyOf[d]
            BY <4>1
          <5>3. d \in Flushes /\ Covers(d, c, m)'
            BY <1>0, <3>1, <5>1, <5>2 DEF Covers, Sees
          <5> QED
            BY <1>2, <5>3
        <4>2. CASE <<home[c], KeyOf[m]>> # <<n, KeyOf[d]>>
          BY <2>1, <3>1, <3>4, <4>2 DEF Missed, Cared
        <4> QED
          BY <4>1, <4>2
      <3>3. ASSUME NEW f \in Flushes, Covers(f, c, m) PROVE Cared(c, m)'
        <4>1. f # d
          BY <1>0, <2>1, <3>1, <3>3 DEF Covers, nodeOf
        <4>2. nodeOf(f)' = nodeOf(f) /\ keyFor(f)' = keyFor(f)
          BY <1>0, <2>1, <4>1 DEF nodeOf, keyFor
        <4>3. Covers(f, c, m)'
          BY <1>0, <2>1, <3>1, <3>3, <4>1, <4>2 DEF Covers, Sees
        <4> QED
          BY <1>2, <4>3
      <3> QED
        BY <1>1, <3>1, <3>2, <3>3, <3>4
    <2> QED
      BY <2>2, <2>3
  <1>7. ASSUME NEW d \in Clients, Disconnect(d) PROVE Cared(c, m)'
    <2>1. /\ UNCHANGED <<store, home, at, got, post, pc, conns, left, missed>> /\ open' \subseteq open
      BY <1>7 DEF Disconnect
    <2>2. Waiting(c, m)
      BY <2>1 DEF Waiting, GetQueue
    <2> QED
      BY <1>3, <2>1, <2>2 DEF Sees, Cared, Missed
  <1>8. ASSUME NEW d \in Clients, NEW p \in Msgs, handleAck(d, p) PROVE Cared(c, m)'
    <2>1. /\ UNCHANGED <<home, open, at, got, post, pc, conns, left, missed>>
          /\ DeleteMessage(KeyOf[p], p) \/ UNCHANGED store
      BY <1>0, <1>8 DEF handleAck
    <2>2. Waiting(c, m)
      <3>1. m \in GetQueue(KeyOf[m])' => m \in GetQueue(KeyOf[m])
        <4>1. CASE DeleteMessage(KeyOf[p], p)
          BY <4>1, StoreKept DEF ClusterType
        <4>2. CASE UNCHANGED store
          BY <4>2 DEF GetQueue
        <4> QED
          BY <2>1, <4>1, <4>2
      <3> QED
        BY <2>1, <3>1 DEF Waiting
    <2> QED
      BY <1>3, <2>1, <2>2 DEF Sees, Cared, Missed
  <1>9. ASSUME NEW p \in Msgs, queueMessage(p) PROVE Cared(c, m)'
    <2>1. /\ UNCHANGED <<home, open, at, got, pc, conns, left, missed>>
          /\ post' = [post EXCEPT ![p] = "queued"]
          /\ AddMessage(KeyOf[p], p, p) \/ UNCHANGED store
      BY <1>0, <1>9 DEF queueMessage
    <2>2. CASE m = p
      BY <1>0, <2>1, <2>2 DEF Cared
    <2>3. CASE m # p
      <3>1. m \in GetQueue(KeyOf[m])' => m \in GetQueue(KeyOf[m])
        <4>1. CASE AddMessage(KeyOf[p], p, p)
          BY <2>3, <4>1, StoreKept DEF ClusterType
        <4>2. CASE UNCHANGED store
          BY <4>2 DEF GetQueue
        <4> QED
          BY <2>1, <4>1, <4>2
      <3>2. Waiting(c, m) /\ post'[m] = post[m]
        BY <1>0, <2>1, <2>3, <3>1 DEF Waiting
      <3> QED
        BY <1>3, <2>1, <3>2 DEF Sees, Cared, Missed
    <2> QED
      BY <2>2, <2>3
  <1>10. ASSUME NEW p \in Msgs, notify(p) PROVE Cared(c, m)'
    <2>1. PICK deaf \in SUBSET up :
            /\ pc' = [f \in Flushes |-> IF f \in asked(p, deaf) THEN "due" ELSE pc[f]]
            /\ missed' = (missed \cup Woken(deaf, p)) \ Woken({nodeOf(f) : f \in asked(p, deaf)}, p)
      BY <1>10 DEF notify
    <2>2. /\ UNCHANGED <<store, home, open, at, got, conns, left>>
          /\ post' = [post EXCEPT ![p] = "notified"]
      BY <1>10 DEF notify
    <2>3. Waiting(c, m) /\ home[c] \in up /\ home[c] \in Nodes
      <3>1. Waiting(c, m)
        BY <1>4, <2>2
      <3> QED
        BY <1>0, <3>1 DEF Footing, OpenAtHome, Waiting
    <2>4. ASSUME NEW f \in asked(p, deaf)
          PROVE  /\ f \in Flushes /\ keyFor(f) = KeyOf[p] /\ pc'[f] = "due"
                 /\ nodeOf(f)' = nodeOf(f) /\ keyFor(f)' = keyFor(f)
      <3>1. CASE f = p
        BY <1>0, <2>1, <2>2, <3>1 DEF asked, keyFor, nodeOf
      <3>2. CASE f \in up \X {p}
        <4>1. f \in Notes /\ f[2] = p /\ f \notin Msgs \cup Clients
          BY <1>0, <3>2 DEF Notes
        <4> QED
          BY <1>0, <2>1, <2>2, <4>1 DEF keyFor, nodeOf
      <3> QED
        BY <3>1, <3>2 DEF asked
    <2>5. CASE KeyOf[m] = KeyOf[p]
      <3>1. CASE \E f \in asked(p, deaf) : nodeOf(f) = home[c]
        <4>1. PICK f \in asked(p, deaf) : nodeOf(f) = home[c]
          BY <3>1
        <4>2. f \in Flushes /\ Covers(f, c, m)'
          BY <2>2, <2>4, <2>5, <4>1 DEF Covers, Sees
        <4> QED
          BY <1>2, <4>2
      <3>2. CASE ~ \E f \in asked(p, deaf) : nodeOf(f) = home[c]
        <4>1. home[c] \in deaf
          <5> SUFFICES ASSUME home[c] \notin deaf PROVE FALSE
            OBVIOUS
          <5>0. PICK f : f = <<home[c], p>>
            OBVIOUS
          <5>1. f \in asked(p, deaf) /\ f \in Notes /\ f[1] = home[c]
            BY <2>3, <5>0 DEF asked, Notes
          <5>2. nodeOf(f) = home[c]
            BY <1>0, <5>1 DEF nodeOf
          <5> QED
            BY <3>2, <5>1, <5>2
        <4>2. <<home[c], KeyOf[m]>> \in Woken(deaf, p)
          BY <2>5, <4>1 DEF Woken
        <4>3. <<home[c], KeyOf[m]>> \notin Woken({nodeOf(f) : f \in asked(p, deaf)}, p)
          BY <3>2 DEF Woken
        <4>4. <<home[c], KeyOf[m]>> \in missed'
          BY <2>1, <4>2, <4>3
        <4> QED
          BY <2>2, <4>4 DEF Cared, Missed
      <3> QED
        BY <3>1, <3>2
    <2>6. CASE KeyOf[m] # KeyOf[p]
      <3>1. post'[m] = post[m]
        BY <1>0, <2>2, <2>6
      <3>2. <<home[c], KeyOf[m]>> \notin Woken({nodeOf(f) : f \in asked(p, deaf)}, p)
        BY <2>6 DEF Woken
      <3>3. Missed(c, m) => Missed(c, m)'
        BY <2>1, <2>2, <3>2 DEF Missed
      <3>4. ASSUME NEW f \in Flushes, Sees(f, c, m) PROVE Sees(f, c, m)'
        BY <1>0, <2>1, <2>2, <3>4 DEF Sees
      <3> QED
        BY <1>3, <2>2, <2>3, <3>1, <3>3, <3>4 DEF Cared
    <2> QED
      BY <2>5, <2>6
  <1>11. ASSUME NEW n \in Nodes, NEW k \in Keys, reconcile(n, k) PROVE Cared(c, m)'
    <2>1. /\ UNCHANGED <<store, home, open, at, got, post, conns, left>>
          /\ pc' = [pc EXCEPT ![<<n, k>>] = "due"] /\ pc[<<n, k>>] = "idle"
          /\ missed' = missed \ {<<n, k>>}
      BY <1>11 DEF reconcile
    <2>2. PICK g : g = <<n, k>>
      OBVIOUS
    <2>3. g \in Ticks /\ g \in Flushes /\ g[1] = n /\ g[2] = k
      BY <1>0, <2>2 DEF Ticks
    <2>4. pc' = [pc EXCEPT ![g] = "due"] /\ pc[g] = "idle" /\ missed' = missed \ {g}
      BY <2>1, <2>2
    <2>5. Waiting(c, m)
      BY <1>4, <2>1
    <2>6. ASSUME NEW f \in Flushes, Sees(f, c, m) PROVE Sees(f, c, m)'
      BY <1>0, <2>1, <2>3, <2>4, <2>6 DEF Sees
    <2>7. ASSUME Missed(c, m) PROVE Cared(c, m)'
      <3>1. CASE <<home[c], KeyOf[m]>> = g
        <4>1. home[c] = n /\ KeyOf[m] = k
          BY <2>2, <3>1
        <4>2. nodeOf(g)' = n /\ keyFor(g)' = k
          BY <1>0, <2>3 DEF nodeOf, keyFor
        <4>3. pc'[g] = "due"
          BY <1>0, <2>3, <2>4
        <4>4. Covers(g, c, m)'
          BY <2>1, <4>1, <4>2, <4>3 DEF Covers, Sees
        <4> QED
          BY <1>2, <2>3, <4>4
      <3>2. CASE <<home[c], KeyOf[m]>> # g
        BY <2>1, <2>4, <2>7, <3>2 DEF Missed, Cared
      <3> QED
        BY <3>1, <3>2
    <2>8. post[m] = "queued" => Cared(c, m)'
      BY <2>1 DEF Cared
    <2> QED
      BY <1>3, <2>1, <2>5, <2>6, <2>7, <2>8
  <1>12. ASSUME NEW g \in Flushes, Lock(g) PROVE Cared(c, m)'
    <2>1. /\ UNCHANGED <<store, home, open, at, got, post, left, missed>>
          /\ \A f \in Flushes : f # g => pc'[f] = pc[f] /\ conns'[f] = conns[f]
          /\ pc[g] = "due"
          /\ clientsForKey(g) # {} => pc'[g] = "read" /\ conns'[g] = clientsForKey(g)
      BY <1>0, <1>12 DEF Lock, Return
    <2>2. Waiting(c, m)
      BY <1>4, <2>1
    <2>3. ASSUME nodeOf(g) = home[c], keyFor(g) = KeyOf[m] PROVE Sees(g, c, m)'
      <3>1. c \in clientsForKey(g)
        BY <2>2, <2>3 DEF clientsForKey, Waiting
      <3> QED
        BY <2>1, <3>1 DEF Sees
    <2>4. ASSUME NEW f \in Flushes, nodeOf(f) = home[c], keyFor(f) = KeyOf[m], Sees(f, c, m)
          PROVE  Sees(f, c, m)'
      BY <2>1, <2>3, <2>4 DEF Sees
    <2> QED
      BY <1>3, <2>1, <2>2, <2>4 DEF Cared, Missed
  <1>13. ASSUME NEW g \in Flushes, ReadQueue(g) PROVE Cared(c, m)'
    <2> DEFINE pairs == conns[g] \X GetQueue(keyFor(g))
    <2>1. /\ UNCHANGED <<store, home, open, at, got, post, missed>>
          /\ \A f \in Flushes : f # g => pc'[f] = pc[f] /\ conns'[f] = conns[f] /\ left'[f] = left[f]
          /\ pc[g] = "read" /\ left'[g] = pairs
          /\ pairs # {} => pc'[g] = "send"
      BY <1>0, <1>13 DEF ReadQueue
    <2>2. Waiting(c, m)
      BY <1>4, <2>1
    <2>3. ASSUME keyFor(g) = KeyOf[m], Sees(g, c, m) PROVE Sees(g, c, m)'
      <3>1. <<c, m>> \in pairs
        BY <2>1, <2>2, <2>3 DEF Sees, Waiting
      <3> QED
        BY <2>1, <3>1 DEF Sees
    <2>4. ASSUME NEW f \in Flushes, nodeOf(f) = home[c], keyFor(f) = KeyOf[m], Sees(f, c, m)
          PROVE  Sees(f, c, m)'
      BY <2>1, <2>3, <2>4 DEF Sees
    <2> QED
      BY <1>3, <2>1, <2>2, <2>4 DEF Cared, Missed
  <1>14. ASSUME NEW g \in Flushes, NEW d \in Clients, NEW p \in Msgs, SendNext(g, d, p)
         PROVE  Cared(c, m)'
    <2>1. /\ UNCHANGED <<store, home, open, at, post, conns, missed>>
          /\ \A f \in Flushes : f # g => pc'[f] = pc[f] /\ left'[f] = left[f]
          /\ pc[g] = "send" /\ left'[g] = left[g] \ {<<d, p>>}
          /\ left[g] # {<<d, p>>} => pc'[g] = "send"
          /\ got[c] \subseteq got'[c]
          /\ d \in open => p \in got'[d] \/ p \in inflight[d]
          /\ got[d] \subseteq got'[d]
      BY <1>0, <1>14 DEF SendNext
    <2>2. Waiting(c, m)
      BY <1>4, <2>1
    <2>3. ASSUME Sees(g, c, m) PROVE Sees(g, c, m)' \/ m \in got'[c]
      <3>1. CASE <<c, m>> = <<d, p>>
        BY <2>1, <2>2, <3>1 DEF Waiting, Footing, InflightWritten
      <3>2. CASE <<c, m>> # <<d, p>>
        BY <2>1, <2>3, <3>2 DEF Sees
      <3> QED
        BY <3>1, <3>2
    <2>4. ASSUME NEW f \in Flushes, Covers(f, c, m) PROVE Cared(c, m)'
      <3>1. Sees(f, c, m)' \/ m \in got'[c]
        BY <2>1, <2>3, <2>4 DEF Sees, Covers
      <3>2. nodeOf(f)' = nodeOf(f) /\ keyFor(f)' = keyFor(f)
        BY <2>1 DEF nodeOf, keyFor
      <3>3. CASE m \in got'[c]
        BY <3>3 DEF Cared
      <3>4. CASE Sees(f, c, m)'
        <4>1. Covers(f, c, m)'
          BY <2>1, <2>4, <3>2, <3>4 DEF Covers
        <4> QED
          BY <1>2, <4>1
      <3> QED
        BY <3>1, <3>3, <3>4
    <2>5. m \in got[c] \/ post[m] = "queued" \/ Missed(c, m) => Cared(c, m)'
      BY <2>1 DEF Cared, Missed
    <2> QED
      BY <1>1, <2>2, <2>4, <2>5
  <1>15. ASSUME NEW g \in Flushes, ReadError(g) PROVE Cared(c, m)'
    <2>1. /\ UNCHANGED <<store, home, open, at, got, post, left>>
          /\ \A f \in Flushes : f # g => pc'[f] = pc[f] /\ conns'[f] = conns[f]
          /\ missed' = missed \cup {<<nodeOf(g), keyFor(g)>>}
      BY <1>0, <1>15 DEF ReadError, Return
    <2>2. Waiting(c, m)
      BY <1>4, <2>1
    <2>3. CASE nodeOf(g) = home[c] /\ keyFor(g) = KeyOf[m]
      BY <2>1, <2>3 DEF Cared, Missed
    <2>4. CASE ~(nodeOf(g) = home[c] /\ keyFor(g) = KeyOf[m])
      <3>1. ASSUME NEW f \in Flushes, nodeOf(f) = home[c], keyFor(f) = KeyOf[m], Sees(f, c, m)
            PROVE  Sees(f, c, m)'
        <4>1. f # g
          BY <2>4, <3>1
        <4> QED
          BY <2>1, <3>1, <4>1 DEF Sees
      <3>2. post[m] = "queued" \/ Missed(c, m) => Cared(c, m)'
        BY <2>1 DEF Cared, Missed
      <3> QED
        BY <1>3, <2>1, <2>2, <3>1, <3>2
    <2> QED
      BY <2>3, <2>4
  <1>16. ASSUME NEW n \in Nodes, Crash(n) PROVE Cared(c, m)'
    <2> DEFINE mine == {f \in Flushes : nodeOf(f) = n}
               untold == {p \in Msgs : at[p] = n /\ post[p] = "queued"}
    <2>1. /\ UNCHANGED <<store, at, home, got>> /\ open' = {d \in open : home[d] # n}
          /\ \A f \in Flushes \ mine : pc'[f] = pc[f] /\ conns'[f] = conns[f] /\ left'[f] = left[f]
          /\ missed' = missed \cup UNION {Woken(Nodes, p) : p \in untold}
      BY <1>0, <1>16 DEF Crash
    <2>2. post' = [p \in Msgs |-> IF at[p] = n /\ post[p] # "notified" THEN "lost" ELSE post[p]]
      BY <1>16 DEF Crash
    <2>3. Waiting(c, m) /\ home[c] # n /\ home[c] \in Nodes
      BY <1>0, <2>1 DEF Waiting, GetQueue, Footing, OpenAtHome
    <2>4. ASSUME NEW f \in Flushes, nodeOf(f) = home[c], Sees(f, c, m) PROVE Sees(f, c, m)'
      BY <2>1, <2>3, <2>4 DEF Sees
    <2>5. Missed(c, m) => Cared(c, m)'
      BY <2>1 DEF Cared, Missed
    <2>6. ASSUME post[m] = "queued" PROVE Cared(c, m)'
      <3>1. CASE at[m] = n
        <4>1. m \in untold /\ <<home[c], KeyOf[m]>> \in Woken(Nodes, m)
          BY <2>3, <2>6, <3>1 DEF Woken
        <4> HIDE DEF untold
        <4>2. <<home[c], KeyOf[m]>> \in missed'
          BY <2>1, <4>1
        <4> QED
          BY <2>1, <4>2 DEF Cared, Missed
      <3>2. CASE at[m] # n
        BY <2>2, <2>6, <3>2 DEF Cared
      <3> QED
        BY <3>1, <3>2
    <2> QED
      BY <1>3, <2>1, <2>3, <2>4, <2>5, <2>6
  <1>17. ASSUME NEW n \in Nodes, Restart(n) PROVE Cared(c, m)'
    <2>1. UNCHANGED <<store, home, open, at, got, post, pc, conns, left, missed>>
      BY <1>17 DEF Restart
    <2>2. Waiting(c, m)
      BY <1>4, <2>1
    <2> QED
      BY <1>3, <2>1, <2>2 DEF Sees, Cared, Missed
  <1>18. CASE UNCHANGED vars
    <2>1. UNCHANGED <<store, home, open, at, got, post, pc, conns, left, missed>>
      BY <1>18 DEF vars
    <2>2. Waiting(c, m)
      BY <1>4, <2>1
    <2> QED
      BY <1>3, <2>1, <2>2 DEF Sees, Cared, Missed
  <1> QED
    BY <1>5, <1>6, <1>7, <1>8, <1>9, <1>10, <1>11, <1>12, <1>13, <1>14, <1>15, <1>16, <1>17, <1>18
    DEF Next, Task, Flush

(* Every queued message was written to each open connection of its key,    *)
(* wherever the two are, or a flush that will write it is under way on the *)
(* connection's instance, or the notification is still to be published, or *)
(* that instance missed a wake-up for the key since the last that it had:  *)
(* for every number of instances, connections, messages, keys and faults.  *)
THEOREM NotificationCorrect == Spec => []NoLostNotification
  <1> DEFINE Inv == ClusterType /\ Footing /\ NoLostNotification
  <1>1. Init => Inv
    <2>1. Init => Footing
      BY DEF Init, Footing, OpenAtHome, FlushAfterPost, InflightWritten, Flushes
    <2>2. Init => NoLostNotification
      BY DEF Init, NoLostNotification, Waiting
    <2> QED
      BY <2>1, <2>2, InitType
  <1>2. Inv /\ [Next]_vars => Inv'
    BY StepType, StepFooting, StepNotified
  <1> QED
    BY <1>1, <1>2, PTL DEF Spec

=============================================================================
