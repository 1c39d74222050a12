--------------------------- MODULE AtomicStorage ---------------------------
(***************************************************************************)
(* What a storage backend promises (storage.go): Storage as a state        *)
(* machine, with the results its callers keep.  The engine works on the    *)
(* result of a GetQueue for as long as its clients take, without a lock,   *)
(* so a result is the queue of one instant and no later operation changes  *)
(* it.                                                                     *)
(***************************************************************************)
EXTENDS Storage

CONSTANTS
  Readers,  \* goroutines that keep the results of their reads
  Id        \* Id[m]: the id of message m

VARIABLES
  reads,  \* reads[r]: the messages r's last GetQueue returned
  listed  \* listed[r]: the keys r's last GetKeys returned

Init ==
  /\ Init_Storage
  /\ reads = [r \in Readers |-> {}]
  /\ listed = [r \in Readers |-> {}]

Update ==
  /\ UNCHANGED <<reads, listed>>
  /\ \/ \E k \in Keys, m \in Msgs : AddMessage(k, Id[m], m)
     \/ \E k \in Keys, i \in Ids : DeleteMessage(k, i)
     \/ \E k \in Keys : DeleteQueue(k)

Read ==
  /\ UNCHANGED store
  /\ \E r \in Readers :
       \/ \E k \in Keys : reads' = [reads EXCEPT ![r] = GetQueue(k)] /\ UNCHANGED listed
       \/ listed' = [listed EXCEPT ![r] = GetKeys] /\ UNCHANGED reads

Next == Update \/ Read

Spec == Init /\ [][Next]_<<store, reads, listed>>
=============================================================================
