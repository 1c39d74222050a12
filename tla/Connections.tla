---------------------------- MODULE Connections ----------------------------
(***************************************************************************)
(* The connection registry of an instance (Goctopus.Conns and .patterns,   *)
(* guarded by g.mu) and the part of a client (client.go) that its imu      *)
(* guards: the closed flag and the in-flight set.  Every operator below is *)
(* one critical section of the code, so it is one atomic step for the      *)
(* modules that use it.                                                    *)
(*                                                                         *)
(* A Clients value is one websocket connection, used once: a client that   *)
(* reconnects is another value.                                            *)
(***************************************************************************)
EXTENDS Storage

CONSTANTS
  Clients,   \* connections
  Patterns,  \* wildcard subscription keys, such as "org.*"
  Match      \* path.Match: the pairs <<pattern, key>> that match

Topics == Keys \cup Patterns

ASSUME ConnectionsAssumption ==
  /\ Keys \cap Patterns = {}
  /\ Match \subseteq Patterns \X Keys
  /\ Null \notin Clients \cup Patterns

VARIABLES
  Conns,     \* Conns[t]: the connections registered under topic t
  patterns,  \* the wildcard topics that have a connection
  connKeys,  \* connKeys[c]: client.keys, the topics the authorizer returned
  closed,    \* connections whose closed flag is set
  inflight   \* inflight[c][i]: the key id i was sent for and awaits its ACK

registryVars == <<Conns, patterns, connKeys>>
clientVars == <<closed, inflight>>

ConnectionsType ==
  /\ Conns \in [Topics -> SUBSET Clients]
  /\ patterns \in SUBSET Patterns
  /\ connKeys \in [Clients -> SUBSET Topics]
  /\ closed \in SUBSET Clients
  /\ inflight \in [Clients -> [Ids -> Keys \cup {Null}]]

Init_Connections ==
  /\ Conns = [t \in Topics |-> {}]
  /\ patterns = {}
  /\ connKeys = [c \in Clients |-> {}]
  /\ closed = {}
  /\ inflight = [c \in Clients |-> [i \in Ids |-> Null]]

-----------------------------------------------------------------------------
(* Topics. *)

hasWildcard(t) == t \in Patterns

keyMatches(t, k) == \/ ~hasWildcard(t) /\ t = k
                    \/ hasWildcard(t) /\ <<t, k>> \in Match

(* Mutant: patterns are not matched against the key. *)
clientsForKeyAnyPattern(k) == Conns[k] \cup UNION {Conns[p] : p \in patterns}

(* The connections a message published to key k is for. *)
clientsForKey(k) ==
  Conns[k] \cup UNION {Conns[p] : p \in {q \in patterns : keyMatches(q, k)}}

(* The backlog a wildcard subscriber is sent when it connects. *)
storageKeysMatching(p) == {k \in GetKeys : keyMatches(p, k)}

-----------------------------------------------------------------------------
(* The registry: handleWs adds a connection under all of its topics in one *)
(* critical section, removeClient takes it out in another.                 *)

register(c, ts) ==
  /\ Conns' = [t \in Topics |-> IF t \in ts THEN Conns[t] \cup {c} ELSE Conns[t]]
  /\ patterns' = patterns \cup {t \in ts : hasWildcard(t)}
  /\ connKeys' = [connKeys EXCEPT ![c] = ts]

(* Mutant: the wildcard topic is dropped although others still use it. *)
unregisterDropsPattern(c) ==
  /\ Conns' = [t \in Topics |-> IF t \in connKeys[c] THEN Conns[t] \ {c} ELSE Conns[t]]
  /\ patterns' = patterns \ connKeys[c]
  /\ UNCHANGED connKeys

(* Mutant: the wildcard topics of the connection are forgotten. *)
unregisterExactOnly(c) ==
  /\ Conns' = [t \in Topics |-> IF t \in connKeys[c] \ Patterns
                               THEN Conns[t] \ {c} ELSE Conns[t]]
  /\ UNCHANGED <<patterns, connKeys>>

unregister(c) ==
  /\ Conns' = [t \in Topics |-> IF t \in connKeys[c] THEN Conns[t] \ {c} ELSE Conns[t]]
  /\ patterns' = patterns \ {t \in connKeys[c] : Conns[t] \ {c} = {}}
  /\ UNCHANGED connKeys

-----------------------------------------------------------------------------
(* The client: markInflight is split into its test and its update. *)

(* Mutant: an id already in flight is sent again. *)
canMarkTwice(c, i) == c \notin closed

canMark(c, i) == c \notin closed /\ inflight[c][i] = Null

markInflight(c, i, k) == inflight' = [inflight EXCEPT ![c][i] = k]

clearInflight(c, i) == inflight' = [inflight EXCEPT ![c][i] = Null]

close(c) == closed' = closed \cup {c}

=============================================================================
