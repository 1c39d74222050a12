----------------------------- MODULE AuthCache -----------------------------
(***************************************************************************)
(* The proxy authorizer (proxy_authorizer.go): a handshake is answered     *)
(* from the cache or asks the auth backend, whose answer is cached when it *)
(* arrives.  The backend may change its mind at any moment, also while an  *)
(* answer is on its way.                                                   *)
(*                                                                         *)
(* A subject is what the backend tells apart.  Those in Bare send neither  *)
(* a Cookie nor an Authorization header and have no cache key; the hashes  *)
(* of the others are taken to be distinct.                                 *)
(***************************************************************************)
EXTENDS Integers, FiniteSets

CONSTANTS
  Subjects, Bare,
  Handshakes,
  Topics,     \* what Export may return: the e-mail and the organization
  cacheTTL,   \* config.AuthCacheTTL, 0 when there is no cache
  AuthTimeout,\* config.AuthTimeout, never 0 (which would be no timeout)
  evictEvr,   \* every so many puts the expired entries are evicted
  MaxTime,    \* bound on the clock
  Null

AuthCacheAssumption ==
  /\ Bare \subseteq Subjects
  /\ cacheTTL \in Nat /\ AuthTimeout \in Nat /\ AuthTimeout > 0 /\ MaxTime \in Nat
  /\ evictEvr \in Nat /\ evictEvr > 0
  /\ Null \notin Subjects

Never == -1

VARIABLES
  clock,
  truth,    \* truth[s]: the topics the backend grants subject s now
  subject,  \* subject[h]: who sends handshake h
  state,    \* state[h]: "idle", "asked", "decided", "accepted", "rejected"
  askedAt,  \* askedAt[h]: when the backend was asked
  keys,     \* keys[h]: the answer on its way, then what h was granted
  cache,    \* cache[k]: [keys, exp], or Null
  puts,
  (* history, read by no action *)
  until     \* until[s][ts]: the last instant at which ts was right for s and
            \* was changed, Never if there is none

askVars == <<subject, state, askedAt, keys>>
cacheVars == <<cache, puts>>
vars == <<clock, truth, askVars, cacheVars, until>>

Init ==
  /\ clock = 0
  /\ truth \in [Subjects -> SUBSET Topics]
  /\ subject \in [Handshakes -> Subjects]
  /\ state = [h \in Handshakes |-> "idle"]
  /\ askedAt = [h \in Handshakes |-> 0]
  /\ keys = [h \in Handshakes |-> {}]
  /\ cache = [s \in Subjects |-> Null]
  /\ puts = 0
  /\ until = [s \in Subjects |-> [ts \in SUBSET Topics |-> Never]]

-----------------------------------------------------------------------------
(* The environment.  A call of the backend lasts AuthTimeout at most.      *)
Tick ==
  /\ clock < MaxTime
  /\ \A h \in Handshakes : state[h] \in {"asked", "decided"} => clock < askedAt[h] + AuthTimeout
  /\ clock' = clock + 1
  /\ UNCHANGED <<truth, askVars, cacheVars, until>>

Change(s, ts) ==
  /\ truth[s] # ts
  /\ truth' = [truth EXCEPT ![s] = ts]
  /\ until' = [until EXCEPT ![s][truth[s]] = clock]
  /\ UNCHANGED <<clock, askVars, cacheVars>>

Decide(h) ==
  /\ state[h] = "asked"
  /\ state' = [state EXCEPT ![h] = "decided"]
  /\ keys' = [keys EXCEPT ![h] = truth[subject[h]]]
  /\ UNCHANGED <<clock, truth, subject, askedAt, cacheVars, until>>

-----------------------------------------------------------------------------
(* The hash of the credentials, Null when there are none. *)
cacheKey(s) == IF s \in Bare THEN Null ELSE s

(* Mutant: an entry is used until it is evicted. *)
validUntilEvicted(e) == TRUE

valid(e) == clock <= e.exp

Hit(s) ==
  /\ cacheTTL > 0 /\ cacheKey(s) # Null
  /\ cache[cacheKey(s)] # Null
  /\ valid(cache[cacheKey(s)])

cacheGet(h) ==
  /\ state[h] = "idle" /\ Hit(subject[h])
  /\ state' = [state EXCEPT ![h] = "accepted"]
  /\ keys' = [keys EXCEPT ![h] = cache[cacheKey(subject[h])].keys]
  /\ UNCHANGED <<clock, truth, subject, askedAt, cacheVars, until>>

Ask(h) ==
  /\ state[h] = "idle" /\ ~Hit(subject[h])
  /\ state' = [state EXCEPT ![h] = "asked"]
  /\ askedAt' = [askedAt EXCEPT ![h] = clock]
  /\ UNCHANGED <<clock, truth, subject, keys, cacheVars, until>>

evict(c) == [k \in Subjects |-> IF c[k] # Null /\ clock > c[k].exp THEN Null ELSE c[k]]

cachePut(s, ks) ==
  IF cacheTTL > 0 /\ cacheKey(s) # Null
  THEN LET c == [cache EXCEPT ![cacheKey(s)] = [keys |-> ks, exp |-> clock + cacheTTL]]
       IN  /\ puts' = puts + 1
           /\ cache' = IF (puts + 1) % evictEvr = 0 THEN evict(c) ELSE c
  ELSE UNCHANGED cacheVars

(* The answer arrives.  One without topics refuses, and is not cached. *)
Answer(h) ==
  /\ state[h] = "decided"
  /\ IF keys[h] = {}
     THEN state' = [state EXCEPT ![h] = "rejected"] /\ UNCHANGED cacheVars
     ELSE state' = [state EXCEPT ![h] = "accepted"] /\ cachePut(subject[h], keys[h])
  /\ UNCHANGED <<clock, truth, subject, askedAt, keys, until>>

(* The call fails: refused, cut off, not JSON, or timed out. *)
Fail(h) ==
  /\ state[h] \in {"asked", "decided"}
  /\ state' = [state EXCEPT ![h] = "rejected"]
  /\ UNCHANGED <<clock, truth, subject, askedAt, keys, cacheVars, until>>

-----------------------------------------------------------------------------
Authorize(h) == cacheGet(h) \/ Ask(h)

Return(h) == Answer(h) \/ Fail(h)

Next ==
  \/ Tick
  \/ \E s \in Subjects, ts \in SUBSET Topics : Change(s, ts)
  \/ \E h \in Handshakes : Decide(h) \/ Authorize(h) \/ Return(h)

Spec == Init /\ [][Next]_vars

-----------------------------------------------------------------------------
RightWithin(s, ts, age) ==
  \/ truth[s] = ts
  \/ until[s][ts] # Never /\ until[s][ts] >= clock - age

(* A handshake is granted only what the backend would have answered for    *)
(* the same subject at some instant of the last AuthCacheTTL + AuthTimeout *)
(* (an answer is cached from when it arrived, not from when it was given), *)
(* and never the topics of somebody else.                                  *)
GrantIsRecent ==
  [][\A h \in Handshakes :
       state[h] # "accepted" /\ state'[h] = "accepted" =>
         keys'[h] # {} /\ RightWithin(subject[h], keys'[h], cacheTTL + AuthTimeout)]_vars
=============================================================================
