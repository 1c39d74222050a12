----------------------------- MODULE MCBackends -----------------------------
(***************************************************************************)
(* Instances for TLC of the two storage backends: a behaviour is one of    *)
(* the backend in use while the other stays as it began.                   *)
(***************************************************************************)
EXTENDS Backends

CONSTANTS i1, i2, i3, m1, m2

(* Redis: two messages re-published under one id, the longer one as long   *)
(* as the TTL of a key.                                                    *)
OneId == [m \in Msgs |-> i1]
LifeOfMessage == [m \in Msgs |-> IF m = m1 THEN 2 ELSE 1]

(* Memory: one key with three ids, two messages share the last. *)
ThreeIds == [m \in MemMsgs |-> CASE m = m1 -> i1 [] m = m2 -> i2 [] OTHER -> i3]

VARIABLE backend

memoryVars == <<heap, storage, held, listed>>

BackendsInit == backend \in {"memory", "redis"} /\ Init /\ Mem!Init

BackendsNext ==
  /\ UNCHANGED backend
  /\ \/ backend = "redis" /\ Next /\ UNCHANGED memoryVars
     \/ backend = "memory" /\ Mem!Next /\ UNCHANGED vars

BackendsSpec == BackendsInit /\ [][BackendsNext]_<<backend, vars, memoryVars>>
=============================================================================
