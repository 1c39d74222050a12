------------------------------ MODULE Cluster ------------------------------
(***************************************************************************)
(* Several instances over one Redis: a message POSTed to one instance is   *)
(* delivered by the one its client is connected to, which learns of it     *)
(* from a pub/sub notification, from its own reconciler or when the client *)
(* connects.  Instances crash, notifications get lost and calls of the     *)
(* storage fail, at most MaxFaults times.                                  *)
(*                                                                         *)
(* Delivery has the steps of one flush in full; here a flush is three: the *)
(* registry, the queue, and each write.  A message and a connection have   *)
(* one key each, ids are those of the messages, nothing expires.           *)
(***************************************************************************)
EXTENDS Storage, Integers

CONSTANTS
  Nodes,      \* instances
  Clients,    \* connections, each used once
  KeyOf,      \* KeyOf[x]: the key of message or connection x
  Reconcile,  \* BOOLEAN: config.ReconcileInterval > 0
  Faults,     \* which faults happen: a subset of {"crash", "note", "storage"}
  MaxFaults   \* bound on their number

(* Flushes are named by what asked for them: a POST's own task by the      *)
(* message, the task of a new connection by the connection, the task of a  *)
(* notification by the instance and the message, and the reconciler's by   *)
(* the instance and the key.                                               *)
Notes == Nodes \X Msgs
Ticks == Nodes \X Keys
Flushes == Msgs \cup Clients \cup Notes \cup Ticks

ASSUME ClusterAssumption ==
  /\ Ids = Msgs
  /\ KeyOf \in [Msgs \cup Clients -> Keys]
  /\ Msgs \cap Clients = {} /\ Msgs \cap Keys = {}
  /\ (Msgs \cup Clients) \cap (Notes \cup Ticks) = {}
  /\ Null \notin Nodes \cup Flushes
  /\ Reconcile \in BOOLEAN
  /\ Faults \subseteq {"crash", "note", "storage"}
  /\ MaxFaults \in Nat

VARIABLES
  faults,    \* faults so far
  up,        \* instances that run
  post,      \* post[m]: how far the task of m's POST is
  at,        \* at[m]: the instance m was POSTed to
  home,      \* home[c]: the instance c is connected to
  open,      \* connections that are registered and not closed
  inflight,  \* inflight[c]: messages sent to c that await their ACK
  got,       \* got[c]: messages ever written to c
  pc,        \* pc[f]: "idle", "due", "read" or "send"
  conns,     \* conns[f]: the snapshot of the registry
  left,      \* left[f]: <<c, m>>: f has still to send m to c
  (* history, read by no action *)
  missed     \* <<n, k>>: n missed a wake-up for k and none came since

postVars == <<post, at>>
connVars == <<home, open, inflight, got>>
flushVars == <<pc, conns, left>>
vars == <<store, faults, up, postVars, connVars, flushVars, missed>>

Init ==
  /\ Init_Storage
  /\ faults = 0
  /\ up = Nodes
  /\ post = [m \in Msgs |-> "none"]
  /\ at = [m \in Msgs |-> Null]
  /\ home = [c \in Clients |-> Null]
  /\ open = {}
  /\ inflight = [c \in Clients |-> {}]
  /\ got = [c \in Clients |-> {}]
  /\ pc = [f \in Flushes |-> "idle"]
  /\ conns = [f \in Flushes |-> {}]
  /\ left = [f \in Flushes |-> {}]
  /\ missed = {}

(* Where a flush runs, and the key it is for. *)
nodeOf(f) == CASE f \in Msgs -> at[f]
               [] f \in Clients -> home[f]
               [] OTHER -> f[1]

keyFor(f) == CASE f \in Msgs \cup Clients -> KeyOf[f]
               [] f \in Notes -> KeyOf[f[2]]
               [] OTHER -> f[2]

(* Every fault uses up the bound; a step without one leaves it. *)
Fault(kind) == kind \in Faults /\ faults < MaxFaults /\ faults' = faults + 1
NoFault == UNCHANGED faults

-----------------------------------------------------------------------------
(* Backends and clients.  202 is answered before the task has run. *)

handlePost(n, m) ==
  /\ n \in up /\ post[m] = "none"
  /\ post' = [post EXCEPT ![m] = "accepted"]
  /\ at' = [at EXCEPT ![m] = n]
  /\ NoFault
  /\ UNCHANGED <<store, up, connVars, flushVars, missed>>

handleWs(n, c) ==
  /\ n \in up /\ home[c] = Null
  /\ home' = [home EXCEPT ![c] = n]
  /\ open' = open \cup {c}
  /\ pc' = [pc EXCEPT ![c] = "due"]
  /\ missed' = missed \ {<<n, KeyOf[c]>>}
  /\ NoFault
  /\ UNCHANGED <<store, up, postVars, inflight, got, conns, left>>

Disconnect(c) ==
  /\ c \in open
  /\ open' = open \ {c}
  /\ NoFault
  /\ UNCHANGED <<store, up, postVars, home, inflight, got, flushVars, missed>>

(* handleAck: the in-flight entry goes also when the storage then fails. *)
handleAck(c, m) ==
  /\ c \in open /\ m \in inflight[c]
  /\ inflight' = [inflight EXCEPT ![c] = @ \ {m}]
  /\ \/ DeleteMessage(KeyOf[m], m) /\ NoFault
     \/ Fault("storage") /\ UNCHANGED store
  /\ UNCHANGED <<up, postVars, home, open, got, flushVars, missed>>

-----------------------------------------------------------------------------
(* The task of a POST: store the message (an error is logged, no more),    *)
(* notify the other instances, flush.                                      *)

queueMessage(m) ==
  /\ post[m] = "accepted"
  /\ post' = [post EXCEPT ![m] = "queued"]
  /\ \/ AddMessage(KeyOf[m], m, m) /\ NoFault
     \/ Fault("storage") /\ UNCHANGED store
  /\ UNCHANGED <<up, at, connVars, flushVars, missed>>

(* Mutant: the publishing instance flushes, the others are not told. *)
askedOwn(m, deaf) == {m}

(* The flushes that message m asks for once it is stored. *)
asked(m, deaf) == {m} \cup ((up \ deaf) \X {m})

Woken(nodes, m) == nodes \X {KeyOf[m]}

(* Redis hands a notification to the instances subscribed at that moment,  *)
(* the publisher included; each schedules a flush.  Some do not get it.    *)
notify(m) ==
  /\ post[m] = "queued"
  /\ post' = [post EXCEPT ![m] = "notified"]
  /\ \E deaf \in SUBSET up :
       /\ IF deaf = {} THEN NoFault ELSE Fault("note")
       /\ pc' = [f \in Flushes |-> IF f \in asked(m, deaf) THEN "due" ELSE pc[f]]
       /\ missed' = (missed \cup Woken(deaf, m)) \ Woken({nodeOf(f) : f \in asked(m, deaf)}, m)
  /\ UNCHANGED <<store, up, at, connVars, conns, left>>

-----------------------------------------------------------------------------
(* The reconciler of an instance asks for a flush of the keys it serves. *)
reconcile(n, k) ==
  /\ Reconcile /\ n \in up
  /\ pc[<<n, k>>] = "idle"
  /\ \E c \in open : home[c] = n /\ KeyOf[c] = k
  /\ pc' = [pc EXCEPT ![<<n, k>>] = "due"]
  /\ missed' = missed \ {<<n, k>>}
  /\ NoFault
  /\ UNCHANGED <<store, up, postVars, connVars, conns, left>>

-----------------------------------------------------------------------------
(* sendMessages.  The send lock keeps flushes of a key apart within an     *)
(* instance.                                                               *)

SendLockFree(f) ==
  \A g \in Flushes : pc[g] \in {"read", "send"} =>
                       nodeOf(g) # nodeOf(f) \/ keyFor(g) # keyFor(f)

clientsForKey(f) == {c \in open : home[c] = nodeOf(f) /\ KeyOf[c] = keyFor(f)}

Return(f, p) ==
  /\ pc' = [pc EXCEPT ![f] = p]
  /\ conns' = [conns EXCEPT ![f] = {}]
  /\ UNCHANGED left

Lock(f) ==
  /\ pc[f] = "due" /\ SendLockFree(f)
  /\ IF clientsForKey(f) = {}
     THEN Return(f, "idle")
     ELSE /\ pc' = [pc EXCEPT ![f] = "read"]
          /\ conns' = [conns EXCEPT ![f] = clientsForKey(f)]
          /\ UNCHANGED left
  /\ NoFault
  /\ UNCHANGED <<store, up, postVars, connVars, missed>>

ReadQueue(f) ==
  LET pairs == conns[f] \X GetQueue(keyFor(f))
  IN  /\ pc[f] = "read"
      /\ pc' = [pc EXCEPT ![f] = IF pairs = {} THEN "idle" ELSE "send"]
      /\ left' = [left EXCEPT ![f] = pairs]
      /\ conns' = [conns EXCEPT ![f] = {}]
      /\ NoFault
      /\ UNCHANGED <<store, up, postVars, connVars, missed>>

(* Mutant: the reconciler ends with the first error of the storage. *)
afterErrorOff(f) == IF f \in Ticks THEN "off" ELSE "idle"

afterError(f) == "idle"

ReadError(f) ==
  /\ pc[f] = "read"
  /\ Fault("storage")
  /\ Return(f, afterError(f))
  /\ missed' = missed \cup {<<nodeOf(f), keyFor(f)>>}
  /\ UNCHANGED <<store, up, postVars, connVars>>

(* The next message to the next connection: markInflight and the write. *)
SendNext(f, c, m) ==
  LET sends == c \in open /\ m \notin inflight[c]
  IN  /\ pc[f] = "send" /\ <<c, m>> \in left[f]
      /\ inflight' = [inflight EXCEPT ![c] = IF sends THEN @ \cup {m} ELSE @]
      /\ got' = [got EXCEPT ![c] = IF sends THEN @ \cup {m} ELSE @]
      /\ left' = [left EXCEPT ![f] = @ \ {<<c, m>>}]
      /\ pc' = [pc EXCEPT ![f] = IF left[f] = {<<c, m>>} THEN "idle" ELSE @]
      /\ NoFault
      /\ UNCHANGED <<store, up, postVars, home, open, conns, missed>>

-----------------------------------------------------------------------------
(* A crash ends the instance's connections, tasks and subscription; the    *)
(* store survives it.                                                      *)

Crash(n) ==
  LET mine == {f \in Flushes : nodeOf(f) = n}
      untold == {m \in Msgs : at[m] = n /\ post[m] = "queued"}
  IN  /\ n \in up /\ Fault("crash")
      /\ up' = up \ {n}
      /\ open' = {c \in open : home[c] # n}
      /\ post' = [m \in Msgs |-> IF at[m] = n /\ post[m] # "notified" THEN "lost" ELSE post[m]]
      /\ pc' = [f \in Flushes |-> IF f \in mine THEN "idle" ELSE pc[f]]
      /\ conns' = [f \in Flushes |-> IF f \in mine THEN {} ELSE conns[f]]
      /\ left' = [f \in Flushes |-> IF f \in mine THEN {} ELSE left[f]]
      /\ missed' = missed \cup UNION {Woken(Nodes, m) : m \in untold}
      /\ UNCHANGED <<store, at, home, inflight, got>>

Restart(n) ==
  /\ n \notin up
  /\ up' = up \cup {n}
  /\ NoFault
  /\ UNCHANGED <<store, postVars, connVars, flushVars, missed>>

-----------------------------------------------------------------------------
Task(m) == queueMessage(m) \/ notify(m)

Flush(f) ==
  \/ ReadQueue(f) \/ ReadError(f)
  \/ \E c \in Clients, m \in Msgs : SendNext(f, c, m)

Next ==
  \/ \E n \in Nodes, m \in Msgs : handlePost(n, m)
  \/ \E n \in Nodes, c \in Clients : handleWs(n, c)
  \/ \E c \in Clients : Disconnect(c) \/ \E m \in Msgs : handleAck(c, m)
  \/ \E m \in Msgs : Task(m)
  \/ \E n \in Nodes, k \in Keys : reconcile(n, k)
  \/ \E f \in Flushes : Lock(f) \/ Flush(f)
  \/ \E n \in Nodes : Crash(n) \/ Restart(n)

Spec == Init /\ [][Next]_vars

(* Goroutines run, the reconciler ticks, and a flush that waits for a send *)
(* lock gets it (a Go mutex serves a starving waiter).  Nothing is assumed *)
(* of backends, clients, faults and restarts.                              *)
Fairness ==
  /\ \A m \in Msgs : WF_vars(Task(m))
  /\ \A n \in Nodes, k \in Keys : WF_vars(reconcile(n, k))
  /\ \A f \in Flushes : SF_vars(Lock(f)) /\ WF_vars(Flush(f))

FairSpec == Spec /\ Fairness

-----------------------------------------------------------------------------
Waiting(c, m) == m \in GetQueue(KeyOf[m]) /\ c \in open /\ KeyOf[c] = KeyOf[m]

(* "every instance is notified and flushes that key to its own             *)
(* locally-connected clients" (README): a message that stays queued is     *)
(* written to every connection that stays open, on whichever instance the  *)
(* two are, whatever faults happened, because the instances reconcile.     *)
EventuallyWritten ==
  \A c \in Clients, m \in Msgs : Waiting(c, m) ~> (m \in got[c] \/ ~Waiting(c, m))

(* The instance that a connection is on would send it message m: a flush   *)
(* that has not yet read what it needs, or has, is under way.              *)
WillSee(c, m) ==
  \E f \in Flushes :
    /\ nodeOf(f) = home[c] /\ keyFor(f) = KeyOf[m]
    /\ \/ pc[f] = "due"
       \/ pc[f] = "read" /\ c \in conns[f]
       \/ pc[f] = "send" /\ <<c, m>> \in left[f]

(* No wake-up is lost between instances: a queued message was sent to a    *)
(* connection, or the instance of that connection is about to, or the      *)
(* notification is still to come; unless a fault kept a wake-up for the    *)
(* key from this very instance (it did not hear, could not read the queue, *)
(* or the publisher crashed before it told), and then until the next one,  *)
(* be it of another message, a new connection or the reconciler.           *)
NoLostNotification ==
  \A c \in Clients, m \in Msgs :
    Waiting(c, m) => \/ m \in got[c] \/ WillSee(c, m) \/ post[m] = "queued"
                     \/ <<home[c], KeyOf[m]>> \in missed
=============================================================================
