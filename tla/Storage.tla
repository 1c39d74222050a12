------------------------------ MODULE Storage ------------------------------
(***************************************************************************)
(* What the Storage interface (storage.go) promises the delivery engine:   *)
(* every key holds at most one message per message id, and each operation  *)
(* is one atomic step, because the backends synchronise themselves.        *)
(*                                                                         *)
(* A message stands for one accepted POST: its payload, date and expiry    *)
(* are what tell two messages with the same id apart.  The order of a      *)
(* queue is not promised (memory keeps the order of insertion, Redis sorts *)
(* by date), so a queue is the set of its messages here.                   *)
(***************************************************************************)
CONSTANTS
  Keys,   \* concrete keys a backend publishes to
  Ids,    \* message ids (uuids)
  Msgs,   \* messages: one per accepted POST
  Null    \* "no such entry"

ASSUME StorageAssumption == Null \notin Keys \cup Ids \cup Msgs

VARIABLE store \* store[k][i]: the message with id i queued under key k

StoreType == [Keys -> [Ids -> Msgs \cup {Null}]]

EmptyQueue == [i \in Ids |-> Null]

Init_Storage == store = [k \in Keys |-> EmptyQueue]

-----------------------------------------------------------------------------
(* Reads. *)

GetQueue(k) == {store[k][i] : i \in Ids} \ {Null}

(* Keys whose queue is empty are not listed: both backends drop a key with *)
(* its last message.                                                       *)
GetKeys == {k \in Keys : GetQueue(k) # {}}

-----------------------------------------------------------------------------
(* Updates.  AddMessage is an upsert by id. *)

AddMessage(k, i, m) == store' = [store EXCEPT ![k][i] = m]

DeleteMessage(k, i) == store' = [store EXCEPT ![k][i] = Null]

DeleteQueue(k) == store' = [store EXCEPT ![k] = EmptyQueue]

=============================================================================
