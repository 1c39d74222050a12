---------------------------- MODULE TimedProofs ----------------------------
(***************************************************************************)
(* Proofs about the components that keep state for a while, those MCTimed  *)
(* has instances of: the rate limiter, the authorizer's cache, the keys    *)
(* gauge and the history, each for every value of its constants.           *)
(***************************************************************************)
EXTENDS Timed, Sequences, FiniteSetTheorems, WellFoundedInduction, TLAPS

-----------------------------------------------------------------------------
(* The rate limiter: the bound on what an address may spend, for any       *)
(* burst, cost, rate, number of requests and order in which they get the   *)
(* lock.                                                                   *)

(* No reading of the clock is ahead of it. *)
ReadingsPast ==
  \A a \in IPs : last[a] <= clock /\ purgedAt[a] <= clock /\ (spent[a] > 0 => clock >= Since)

CallersPast == \A r \in Requests : now[r] <= clock

(* A bucket holds no more than the burst.  It may be negative, when a      *)
(* request overtook another one, but by no more than what the clock will   *)
(* add by now.                                                             *)
Capped == \A a \in IPs : tokens[a] <= Burst
NoDebt == \A a \in IPs : tokens[a] + (clock - last[a]) >= 0

LimiterInv ==
  /\ RateLimiterTypeOK
  /\ CallersPast /\ ReadingsPast /\ Capped /\ NoDebt
  /\ BucketAccount

-----------------------------------------------------------------------------
(* The account and the debt give the bound of SpendBound.                  *)
LEMMA InvImpliesBound == LimiterInv => SpendBound
<1> SUFFICES ASSUME LimiterInv, NEW a \in IPs
             PROVE  spent[a] <= Burst + Elapsed + overtaken[a]
  BY DEF SpendBound
<1>t. /\ spent[a] \in Nat /\ overtaken[a] \in Nat /\ tokens[a] \in Int
      /\ last[a] \in Int /\ purgedAt[a] \in Int /\ clock \in Int
      /\ Burst \in Nat /\ Since \in Nat
  BY RateLimiterAssumption DEF LimiterInv, RateLimiterTypeOK
<1>p. /\ purgedAt[a] <= clock /\ (spent[a] > 0 => clock >= Since)
      /\ tokens[a] + (clock - last[a]) >= 0
  BY DEF LimiterInv, ReadingsPast, NoDebt
<1>1. CASE spent[a] = 0
  BY <1>1, <1>t DEF Elapsed
<1>2. CASE spent[a] > 0 /\ a \in buckets
  <2>1. spent[a] + tokens[a] <= Burst + (last[a] - Since) + overtaken[a]
    BY <1>2 DEF LimiterInv, BucketAccount
  <2> QED BY <2>1, <1>2, <1>t, <1>p DEF Elapsed
<1>3. CASE spent[a] > 0 /\ a \notin buckets
  <2>1. spent[a] <= (purgedAt[a] - Since) + overtaken[a]
    BY <1>3 DEF LimiterInv, BucketAccount
  <2> QED BY <2>1, <1>3, <1>t, <1>p DEF Elapsed
<1> QED BY <1>1, <1>2, <1>3, <1>t

(* Before the first request every bucket is empty and nothing is spent.    *)
LEMMA InitInv == Init => LimiterInv
<1> SUFFICES ASSUME Init PROVE LimiterInv
  OBVIOUS
<1> USE RateLimiterAssumption DEF Init
<1>1. RateLimiterTypeOK
  BY DEF RateLimiterTypeOK
<1>2. CallersPast /\ ReadingsPast /\ Capped /\ NoDebt
  BY DEF CallersPast, ReadingsPast, Capped, NoDebt
<1>3. BucketAccount
  BY DEF BucketAccount
<1> QED BY <1>1, <1>2, <1>3 DEF LimiterInv

-----------------------------------------------------------------------------
(* One bucket, in numbers: s spent, k tokens, l its last reading, g the    *)
(* overtaken time; the request reads the clock at t and finds h tokens,    *)
(* of which it takes c.                                                    *)

(* A bucket that is there keeps its account.                               *)
LEMMA AccountKept ==
  ASSUME NEW s \in Nat, NEW k \in Int, NEW l \in Int, NEW g \in Nat, NEW t \in Int,
         NEW c \in Nat, NEW h \in Int, NEW s2 \in Nat,
         s > 0 => s + k <= Burst + (l - Since) + g,
         h <= Burst, h <= k + (t - l),
         s2 = (IF t >= Since THEN s + c ELSE s), s2 > 0
  PROVE  s2 + (h - c) <= Burst + (t - Since) + g
BY RateLimiterAssumption

(* A bucket that is purged has refilled: its account without tokens.       *)
LEMMA AccountPurged ==
  ASSUME NEW s \in Nat, NEW k \in Int, NEW l \in Int, NEW g \in Nat, NEW t \in Int,
         s + k <= Burst + (l - Since) + g, k + (t - l) >= Burst
  PROVE  s <= (t - Since) + g
BY RateLimiterAssumption

(* A bucket that begins anew with reading t after a purge with reading p.  *)
LEMMA AccountFresh ==
  ASSUME NEW s \in Nat, NEW g \in Nat, NEW t \in Int, NEW p \in Int,
         NEW c \in Nat, NEW s2 \in Nat, NEW g2 \in Nat,
         s > 0 => s <= (p - Since) + g,
         g2 = (IF p > t THEN g + (p - t) ELSE g),
         s2 = (IF t >= Since THEN s + c ELSE s), s2 > 0
  PROVE  s2 + (Burst - c) <= Burst + (t - Since) + g2
BY RateLimiterAssumption

-----------------------------------------------------------------------------
(* The clock ticks. *)
LEMMA TickInv == LimiterInv /\ Tick => LimiterInv'
<1> SUFFICES ASSUME LimiterInv, Tick PROVE LimiterInv'
  OBVIOUS
<1> USE RateLimiterAssumption DEF LimiterInv, Tick, requestVars, bucketVars, historyVars
<1>1. RateLimiterTypeOK'
  BY DEF RateLimiterTypeOK
<1>2. CallersPast'
  BY DEF RateLimiterTypeOK, CallersPast
<1>3. ReadingsPast'
  BY DEF RateLimiterTypeOK, ReadingsPast
<1>4. NoDebt'
  BY DEF RateLimiterTypeOK, NoDebt
<1>5. BucketAccount'
  BY DEF BucketAccount
<1>6. Capped'
  BY DEF Capped
<1> QED BY <1>1, <1>2, <1>3, <1>4, <1>5, <1>6

(* A request reads the clock. *)
LEMMA ReadClockInv ==
  ASSUME NEW r \in Requests, LimiterInv, ReadClock(r)
  PROVE  LimiterInv'
<1> USE RateLimiterAssumption DEF LimiterInv, ReadClock, bucketVars, historyVars
<1>1. RateLimiterTypeOK'
  BY DEF RateLimiterTypeOK
<1>2. CallersPast'
  BY DEF RateLimiterTypeOK, CallersPast
<1>3. ReadingsPast'
  BY DEF ReadingsPast
<1>4. NoDebt'
  BY DEF NoDebt
<1>5. BucketAccount'
  BY DEF BucketAccount
<1>6. Capped'
  BY DEF Capped
<1> QED BY <1>1, <1>2, <1>3, <1>4, <1>5, <1>6

(* A request gets the lock: the account is kept for its own bucket and for *)
(* the purged ones.                                                        *)
LEMMA AllowInv ==
  ASSUME NEW r \in Requests, LimiterInv, Allow(r)
  PROVE  LimiterInv'
<1> DEFINE a == ip[r]
           t == now[r]
           purged == IF (ops + 1) % purgeEvr = 0 THEN purge(t) ELSE {}
           fresh == a \notin buckets \/ a \in purged
           have == IF fresh THEN Burst ELSE refill(a, t)
           take == IF have >= Cost THEN Cost ELSE 0
           at == IF a \in purged THEN t ELSE purgedAt[a]
<1>type. RateLimiterTypeOK
  BY DEF LimiterInv
<1>a. a \in IPs /\ t \in 0..MaxTime /\ t <= clock
  BY <1>type DEF RateLimiterTypeOK, LimiterInv, CallersPast
<1>purged. /\ purged \subseteq buckets
           /\ \A b \in purged : tokens[b] + (t - last[b]) >= Burst
  BY DEF purge
<1>step. /\ caller' = [caller EXCEPT ![r] = "done"]
         /\ ops' = ops + 1
         /\ buckets' = (buckets \ purged) \cup {a}
         /\ tokens' = [tokens EXCEPT ![a] = have - take]
         /\ last' = [last EXCEPT ![a] = t]
         /\ spent' = [spent EXCEPT ![a] = IF t >= Since THEN spent[a] + take ELSE spent[a]]
         /\ purgedAt' = [b \in IPs |-> IF b \in purged THEN t ELSE purgedAt[b]]
         /\ overtaken' = [overtaken EXCEPT ![a] =
              IF fresh /\ at > t THEN overtaken[a] + (at - t) ELSE overtaken[a]]
         /\ UNCHANGED <<clock, ip, now>>
  BY DEF Allow
<1> HIDE DEF purged
<1>num. /\ Burst \in Nat /\ Cost \in Nat /\ Cost > 0 /\ Burst >= Cost /\ Since \in Nat
        /\ MaxTime \in Nat /\ clock \in 0..MaxTime /\ ops \in Nat
        /\ \A b \in IPs : /\ tokens[b] \in Int /\ last[b] \in 0..MaxTime
                          /\ spent[b] \in Nat /\ purgedAt[b] \in 0..MaxTime
                          /\ overtaken[b] \in Nat
  BY <1>type, RateLimiterAssumption DEF RateLimiterTypeOK
<1>have. /\ have \in Int /\ have <= Burst
         /\ ~fresh => have <= tokens[a] + (t - last[a])
         /\ ~fresh => have = Burst \/ have = tokens[a] + (t - last[a])
  BY <1>a, <1>num DEF refill
<1> DEFINE h == have
           c == take
<1>take. c \in Nat /\ (c = 0 \/ (c = Cost /\ h >= Cost)) /\ (fresh => c = Cost /\ h = Burst)
  BY <1>have, <1>num
<1>at. at \in 0..MaxTime /\ at <= clock
  BY <1>a, <1>num DEF LimiterInv, ReadingsPast
<1> HIDE DEF have, take, at, h, c
<1>new. /\ \A b \in IPs : b # a => /\ tokens'[b] = tokens[b] /\ last'[b] = last[b]
                                  /\ spent'[b] = spent[b] /\ overtaken'[b] = overtaken[b]
        /\ tokens'[a] = have - take /\ last'[a] = t
        /\ spent'[a] = IF t >= Since THEN spent[a] + take ELSE spent[a]
        /\ overtaken'[a] = IF fresh /\ at > t THEN overtaken[a] + (at - t) ELSE overtaken[a]
        /\ \A b \in IPs : purgedAt'[b] = IF b \in purged THEN t ELSE purgedAt[b]
  BY <1>step, <1>type, <1>a DEF RateLimiterTypeOK
<1>1. RateLimiterTypeOK'
  <2>1. (have - take) \in Int
    BY <1>have, <1>take DEF h, c
  <2>2. (IF t >= Since THEN spent[a] + take ELSE spent[a]) \in Nat
    BY <1>take, <1>num, <1>a DEF c
  <2>3. (IF fresh /\ at > t THEN overtaken[a] + (at - t) ELSE overtaken[a]) \in Nat
    BY <1>at, <1>num, <1>a
  <2> QED BY <2>1, <2>2, <2>3, <1>step, <1>type, <1>a, <1>purged, <1>num DEF RateLimiterTypeOK
<1>2. CallersPast'
  BY <1>step DEF LimiterInv, CallersPast
<1>3. ReadingsPast'
  <2> SUFFICES ASSUME NEW b \in IPs
               PROVE  last'[b] <= clock /\ purgedAt'[b] <= clock /\ (spent'[b] > 0 => clock >= Since)
    BY <1>step DEF ReadingsPast
  <2>1. last[b] <= clock /\ purgedAt[b] <= clock /\ (spent[b] > 0 => clock >= Since)
    BY DEF LimiterInv, ReadingsPast
  <2>2. CASE b # a
    BY <2>1, <2>2, <1>new, <1>a
  <2>3. CASE b = a
    BY <2>1, <2>3, <1>new, <1>a, <1>num
  <2> QED BY <2>2, <2>3
<1>4. NoDebt'
  <2> SUFFICES ASSUME NEW b \in IPs PROVE tokens'[b] + (clock - last'[b]) >= 0
    BY <1>step DEF NoDebt
  <2>1. tokens[b] + (clock - last[b]) >= 0
    BY DEF LimiterInv, NoDebt
  <2>2. CASE b # a
    BY <2>1, <2>2, <1>new
  <2>3. CASE b = a
    <3>1. CASE fresh
      BY <3>1, <2>3, <1>new, <1>take, <1>num, <1>a DEF h, c
    <3>2. CASE ~fresh /\ have - take >= 0
      BY <3>2, <2>3, <1>new, <1>take, <1>have, <1>num, <1>a DEF h, c
    <3>3. CASE ~fresh /\ have - take < 0
      <4>1. take = 0 /\ have = tokens[a] + (t - last[a])
        BY <3>3, <1>take, <1>have, <1>num, <1>a DEF h, c
      <4> QED BY <4>1, <2>1, <2>3, <1>new, <1>num, <1>a
    <3>4. (have - take) \in Int
      BY <1>have, <1>take DEF h, c
    <3> QED BY <3>1, <3>2, <3>3, <3>4
  <2> QED BY <2>2, <2>3
<1>5. BucketAccount'
  <2> SUFFICES ASSUME NEW b \in IPs, spent'[b] > 0
               PROVE  IF b \in buckets'
                      THEN spent'[b] + tokens'[b] <= Burst + (last'[b] - Since) + overtaken'[b]
                      ELSE spent'[b] <= (purgedAt'[b] - Since) + overtaken'[b]
    BY DEF BucketAccount
  <2>old. spent[b] > 0 =>
            IF b \in buckets
            THEN spent[b] + tokens[b] <= Burst + (last[b] - Since) + overtaken[b]
            ELSE spent[b] <= (purgedAt[b] - Since) + overtaken[b]
    BY DEF LimiterInv, BucketAccount
  <2>1. CASE b # a /\ b \in purged
    <3>0. /\ spent[b] \in Nat /\ tokens[b] \in Int /\ last[b] \in Int /\ overtaken[b] \in Nat
          /\ t \in Int /\ spent[b] > 0 /\ b \in buckets /\ tokens[b] + (t - last[b]) >= Burst
      BY <2>1, <1>new, <1>purged, <1>num, <1>a
    <3>1. spent[b] <= (t - Since) + overtaken[b]
      BY <3>0, <2>old, AccountPurged
    <3> QED BY <3>1, <2>1, <1>new, <1>step, <1>a
  <2>2. CASE b # a /\ b \notin purged
    BY <2>2, <2>old, <1>new, <1>step, <1>a
  <2>3. CASE b = a /\ ~fresh
    <3>1. spent[a] > 0 => spent[a] + tokens[a] <= Burst + (last[a] - Since) + overtaken[a]
      BY <2>3, <2>old
    <3>2. spent'[a] + (have - take) <= Burst + (t - Since) + overtaken[a]
      <4>1. spent'[a] \in Nat
        BY <1>1, <1>a DEF RateLimiterTypeOK
      <4>2. take \in Nat /\ have \in Int
        BY <1>take, <1>have DEF c
      <4>3. /\ spent[a] \in Nat /\ tokens[a] \in Int /\ last[a] \in Int /\ overtaken[a] \in Nat
            /\ t \in Int
        BY <1>num, <1>a
      <4>4. have <= Burst /\ have <= tokens[a] + (t - last[a]) /\ spent'[a] > 0
        BY <2>3, <1>have
      <4>5. spent'[a] = IF t >= Since THEN spent[a] + take ELSE spent[a]
        BY <1>new
      <4> HIDE DEF fresh, t, a
      <4> QED BY <4>1, <4>2, <4>3, <4>4, <4>5, <3>1, AccountKept
    <3> QED BY <3>2, <2>3, <1>new, <1>step, <1>a
  <2>4. CASE b = a /\ fresh
    <3>1. spent[a] > 0 => spent[a] <= (at - Since) + overtaken[a]
      <4>1. CASE a \in purged
        <5>0. /\ spent[a] \in Nat /\ tokens[a] \in Int /\ last[a] \in Int /\ overtaken[a] \in Nat
              /\ t \in Int /\ a \in buckets /\ tokens[a] + (t - last[a]) >= Burst
          BY <4>1, <1>purged, <1>num, <1>a
        <5>1. spent[a] > 0 => spent[a] <= (t - Since) + overtaken[a]
          BY <5>0, <2>4, <2>old, AccountPurged
        <5>2. at = t
          BY <4>1 DEF at
        <5> QED BY <5>1, <5>2
      <4>2. CASE a \notin purged
        BY <4>2, <2>4, <2>old DEF at
      <4> QED BY <4>1, <4>2
    <3>2. spent'[a] + (Burst - take) <= Burst + (t - Since) + overtaken'[a]
      <4>1. spent'[a] \in Nat /\ overtaken'[a] \in Nat
        BY <1>1, <1>a DEF RateLimiterTypeOK
      <4>2. take \in Nat
        BY <1>take DEF c
      <4>3. /\ overtaken'[a] = IF at > t THEN overtaken[a] + (at - t) ELSE overtaken[a]
            /\ at \in Int /\ t \in Int /\ spent[a] \in Nat /\ overtaken[a] \in Nat
        BY <2>4, <1>new, <1>at, <1>a, <1>num
      <4> HIDE DEF fresh, t, a
      <4> QED BY <4>1, <4>2, <4>3, <3>1, <2>4, <1>new, AccountFresh
    <3> QED BY <3>2, <2>4, <1>new, <1>step, <1>a, <1>take DEF h, c
  <2> QED BY <2>1, <2>2, <2>3, <2>4
<1>6. Capped'
  <2> SUFFICES ASSUME NEW b \in IPs PROVE tokens'[b] <= Burst
    BY DEF Capped
  <2>1. CASE b # a
    BY <2>1, <1>new DEF LimiterInv, Capped
  <2>2. CASE b = a
    BY <2>2, <1>new, <1>have, <1>take, <1>num DEF h, c
  <2> QED BY <2>1, <2>2
<1> QED BY <1>1, <1>2, <1>3, <1>4, <1>5, <1>6 DEF LimiterInv

-----------------------------------------------------------------------------
(* Every step of the limiter keeps the invariant. *)
LEMMA StepInv == LimiterInv /\ [Next]_vars => LimiterInv'
<1> SUFFICES ASSUME LimiterInv, [Next]_vars PROVE LimiterInv'
  OBVIOUS
<1>1. CASE Tick
  BY <1>1, TickInv
<1>2. ASSUME NEW r \in Requests, ReadClock(r) PROVE LimiterInv'
  BY <1>2, ReadClockInv
<1>3. ASSUME NEW r \in Requests, Allow(r) PROVE LimiterInv'
  BY <1>3, AllowInv
<1>4. CASE UNCHANGED vars
  BY <1>4 DEF vars, requestVars, bucketVars, historyVars, LimiterInv, RateLimiterTypeOK,
              CallersPast, ReadingsPast, Capped, NoDebt, BucketAccount
<1> QED BY <1>1, <1>2, <1>3, <1>4 DEF Next

(* Allow (ratelimit.go): no request's reading and no bucket's is ahead of  *)
(* the clock, a bucket never holds more than the burst, and when requests  *)
(* overtake each other it never owes more than the clock adds by now.      *)
THEOREM LimiterReadingsCorrect ==
  Spec => [](RateLimiterTypeOK /\ CallersPast /\ ReadingsPast /\ Capped /\ NoDebt)
<1>1. LimiterInv => RateLimiterTypeOK /\ CallersPast /\ ReadingsPast /\ Capped /\ NoDebt
  BY DEF LimiterInv
<1> QED BY <1>1, InitInv, StepInv, PTL DEF Spec

(* Allow (ratelimit.go): what was spent and what is left of a bucket never *)
(* exceed the burst and what was added up to its last reading.             *)
THEOREM AccountCorrect == Spec => []BucketAccount
<1>1. LimiterInv => BucketAccount
  BY DEF LimiterInv
<1> QED BY <1>1, InitInv, StepInv, PTL DEF Spec

(* Allow (ratelimit.go): an address is allowed the burst and what the rate *)
(* adds in any window, in whatever order requests get the lock, and        *)
(* purging costs exactly the time by which purges overtook requests.       *)
THEOREM SpendBounded == Spec => []SpendBound
BY InvImpliesBound, InitInv, StepInv, PTL DEF Spec

-----------------------------------------------------------------------------
USE TimedCache

(* The authorizer.  Times are instants, and every reading of the clock is  *)
(* of the past.                                                            *)
Entries == [keys : SUBSET Topics, exp : Nat]

AuthType ==
  /\ clock \in Nat
  /\ truth \in [Subjects -> SUBSET Topics]
  /\ subject \in [Handshakes -> Subjects]
  /\ state \in [Handshakes -> {"idle", "asked", "decided", "accepted", "rejected"}]
  /\ askedAt \in [Handshakes -> Nat]
  /\ granted \in [Handshakes -> SUBSET Topics]
  /\ cache \in [Subjects -> Entries \cup {Null}]
  /\ puts \in Nat
  /\ lastRight \in [Subjects -> [SUBSET Topics -> Int]]

(* ts was right for s at some instant from t on. *)
RightSince(s, ts, t) == truth[s] = ts \/ (lastRight[s][ts] >= 0 /\ lastRight[s][ts] >= t)

(* A call of the backend ends in time, and its answer was right since the  *)
(* backend was asked.                                                      *)
CallInTime ==
  \A h \in Handshakes :
    /\ state[h] \in {"asked", "decided"} => askedAt[h] <= clock /\ clock <= askedAt[h] + AuthTimeout
    /\ state[h] = "decided" => RightSince(subject[h], granted[h], askedAt[h])

(* An entry of the cache has topics, was put there no later than now and   *)
(* was right when the call that brought it was made.                       *)
EntryRecent ==
  \A s \in Subjects : cache[s] # Null =>
    /\ cache[s].keys # {}
    /\ cache[s].exp <= clock + cacheTTL
    /\ RightSince(s, cache[s].keys, cache[s].exp - (cacheTTL + AuthTimeout))

AuthInv == AuthType /\ CallInTime /\ EntryRecent

LEMMA AuthInit == A!Init => AuthInv
  BY DEF A!AuthCacheAssumption, A!Init, AuthInv, AuthType, CallInTime, EntryRecent, A!Never

(* What cachePut leaves of an entry: itself, nothing, or the new one. *)
LEMMA PutEntry ==
  ASSUME AuthType, NEW s \in Subjects, NEW ks \in SUBSET Topics,
         A!cachePut(s, ks)
  PROVE  /\ puts' \in Nat
         /\ cache' \in [Subjects -> Entries \cup {Null}]
         /\ \A u \in Subjects : \/ cache'[u] = cache[u] \/ cache'[u] = Null
                                \/ u = s /\ cache'[u] = [keys |-> ks, exp |-> clock + cacheTTL]
  BY DEF A!AuthCacheAssumption, AuthType, A!cachePut, A!cacheKey, A!evict, A!cacheVars, Entries

LEMMA AuthStep ==
  AuthInv /\ [A!Next]_(A!vars) => AuthInv'
  <1> SUFFICES ASSUME AuthInv, [A!Next]_(A!vars) PROVE AuthInv'
    OBVIOUS
  <1> USE DEF A!AuthCacheAssumption, A!askVars, A!cacheVars
  <1>0. AuthType /\ CallInTime /\ EntryRecent
    BY DEF AuthInv
  (* Steps that touch neither the cache nor what is right. *)
  <1>1. ASSUME UNCHANGED <<clock, truth, cache, lastRight>> PROVE EntryRecent'
    BY <1>0, <1>1 DEF EntryRecent, RightSince
  <1>2. CASE A!Tick
    <2>0. /\ clock' = clock + 1
          /\ UNCHANGED <<truth, subject, state, askedAt, granted, cache, puts, lastRight>>
      BY <1>2 DEF A!Tick
    <2>1. AuthType'
      <3>1. clock' \in Nat
        BY <1>0, <2>0 DEF AuthType
      <3> QED
        BY <1>0, <2>0, <3>1 DEF AuthType
    <2>2. CallInTime'
      BY <1>0, <1>2 DEF A!Tick, AuthType, CallInTime, RightSince
    <2>3. EntryRecent'
      BY <1>0, <1>2 DEF A!Tick, AuthType, EntryRecent, RightSince, Entries
    <2> QED
      BY <2>1, <2>2, <2>3 DEF AuthInv
  <1>3. ASSUME NEW s \in Subjects, NEW ts \in SUBSET Topics, A!Change(s, ts) PROVE AuthInv'
    <2>1. /\ truth' = [truth EXCEPT ![s] = ts]
          /\ lastRight' = [lastRight EXCEPT ![s][truth[s]] = clock]
          /\ UNCHANGED <<clock, subject, state, askedAt, granted, cache, puts>>
      BY <1>3 DEF A!Change
    <2>2. AuthType'
      <3>1. truth' \in [Subjects -> SUBSET Topics]
        BY <1>0, <2>1 DEF AuthType
      <3>2. lastRight' \in [Subjects -> [SUBSET Topics -> Int]]
        <4>0. /\ lastRight \in [Subjects -> [SUBSET Topics -> Int]] /\ clock \in Nat
              /\ truth \in [Subjects -> SUBSET Topics]
          BY <1>0 DEF AuthType
        <4>1. clock \in Int /\ truth[s] \in SUBSET Topics
          BY <4>0
        <4>2. ASSUME NEW T, NEW f \in [Subjects -> [T -> Int]], NEW x \in T, NEW v \in Int
              PROVE  [f EXCEPT ![s][x] = v] \in [Subjects -> [T -> Int]]
          OBVIOUS
        <4> QED
          BY <2>1, <4>0, <4>1, <4>2
      <3> QED
        BY <1>0, <2>1, <3>1, <3>2 DEF AuthType
    <2>3. ASSUME NEW u \in Subjects, NEW us \in SUBSET Topics, NEW t \in Int, t <= clock,
                 RightSince(u, us, t)
          PROVE  RightSince(u, us, t)'
      BY <1>0, <2>1, <2>3 DEF AuthType, RightSince
    <2>4. CallInTime'
      BY <1>0, <2>1, <2>3 DEF AuthType, CallInTime
    <2>5. EntryRecent'
      <3> SUFFICES ASSUME NEW u \in Subjects, cache[u] # Null
                   PROVE  /\ cache[u].keys # {}
                          /\ cache[u].exp <= clock + cacheTTL
                          /\ RightSince(u, cache[u].keys, cache[u].exp - (cacheTTL + AuthTimeout))'
        BY <2>1 DEF EntryRecent
      <3>1. /\ cache[u].keys \in SUBSET Topics /\ cache[u].exp \in Nat /\ clock \in Nat
            /\ cache[u].keys # {} /\ cache[u].exp <= clock + cacheTTL
            /\ RightSince(u, cache[u].keys, cache[u].exp - (cacheTTL + AuthTimeout))
        BY <1>0 DEF AuthType, EntryRecent, Entries
      <3>2. PICK us, t : us = cache[u].keys /\ t = cache[u].exp - (cacheTTL + AuthTimeout)
        OBVIOUS
      <3>3. RightSince(u, us, t)' /\ us = cache'[u].keys /\ t = cache'[u].exp - (cacheTTL + AuthTimeout)
        BY <2>1, <2>3, <3>1, <3>2
      <3> QED
        BY <3>1, <3>2, <3>3, <2>1 DEF RightSince
    <2> QED
      BY <2>2, <2>4, <2>5 DEF AuthInv
  <1>4. ASSUME NEW h \in Handshakes, A!Decide(h) PROVE AuthInv'
    <2>1. AuthType'
      BY <1>0, <1>4 DEF A!Decide, AuthType
    <2>2. CallInTime'
      BY <1>0, <1>4 DEF A!Decide, AuthType, CallInTime, RightSince
    <2>3. EntryRecent'
      BY <1>1, <1>4 DEF A!Decide
    <2> QED
      BY <2>1, <2>2, <2>3 DEF AuthInv
  <1>5. ASSUME NEW h \in Handshakes, A!cacheGet(h) PROVE AuthInv'
    <2>1. AuthType'
      BY <1>0, <1>5 DEF A!cacheGet, A!Hit, A!cacheKey, AuthType, Entries
    <2>2. CallInTime'
      BY <1>0, <1>5 DEF A!cacheGet, AuthType, CallInTime, RightSince
    <2>3. EntryRecent'
      BY <1>1, <1>5 DEF A!cacheGet
    <2> QED
      BY <2>1, <2>2, <2>3 DEF AuthInv
  <1>6. ASSUME NEW h \in Handshakes, A!Ask(h) \/ A!Fail(h) PROVE AuthInv'
    <2>0. /\ UNCHANGED <<clock, truth, subject, granted, cache, puts, lastRight>>
          /\ \/ askedAt' = [askedAt EXCEPT ![h] = clock] /\ state' = [state EXCEPT ![h] = "asked"]
             \/ UNCHANGED askedAt /\ state' = [state EXCEPT ![h] = "rejected"]
      BY <1>6 DEF A!Ask, A!Fail
    <2>1. AuthType'
      <3>0. /\ clock \in Nat /\ askedAt \in [Handshakes -> Nat]
            /\ state \in [Handshakes -> {"idle", "asked", "decided", "accepted", "rejected"}]
        BY <1>0 DEF AuthType
      <3>1. askedAt' \in [Handshakes -> Nat]
        BY <2>0, <3>0
      <3>2. state' \in [Handshakes -> {"idle", "asked", "decided", "accepted", "rejected"}]
        BY <2>0, <3>0
      <3> QED
        BY <1>0, <2>0, <3>1, <3>2 DEF AuthType
    <2>2. CallInTime'
      <3> SUFFICES ASSUME NEW g \in Handshakes
                   PROVE  /\ state'[g] \in {"asked", "decided"}
                               => askedAt'[g] <= clock /\ clock <= askedAt'[g] + AuthTimeout
                          /\ state'[g] = "decided" => RightSince(subject[g], granted[g], askedAt'[g])
        BY <2>0 DEF CallInTime, RightSince
      <3>0. clock \in Nat /\ AuthTimeout \in Nat
        BY <1>0 DEF AuthType
      <3>1. CASE g # h
        <4>1. state'[g] = state[g] /\ askedAt'[g] = askedAt[g]
          BY <1>0, <2>0, <3>1 DEF AuthType
        <4> QED
          BY <1>0, <4>1 DEF CallInTime
      <3>2. CASE g = h
        <4>1. state'[g] = "rejected" \/ (state'[g] = "asked" /\ askedAt'[g] = clock)
          BY <1>0, <2>0, <3>2 DEF AuthType
        <4> QED
          BY <3>0, <4>1
      <3> QED
        BY <3>1, <3>2
    <2>3. EntryRecent'
      BY <1>1, <1>6 DEF A!Ask, A!Fail
    <2> QED
      BY <2>1, <2>2, <2>3 DEF AuthInv
  <1>7. ASSUME NEW h \in Handshakes, A!Answer(h) PROVE AuthInv'
    <2>0. /\ state[h] = "decided" /\ UNCHANGED <<clock, truth, subject, askedAt, granted, lastRight>>
          /\ state' \in {[state EXCEPT ![h] = "rejected"], [state EXCEPT ![h] = "accepted"]}
      BY <1>7 DEF A!Answer
    <2>1. CallInTime'
      BY <1>0, <2>0 DEF AuthType, CallInTime, RightSince
    <2>2. CASE UNCHANGED <<cache, puts>>
      BY <1>0, <1>1, <2>0, <2>1, <2>2 DEF AuthType, AuthInv
    <2>3. CASE granted[h] # {} /\ A!cachePut(subject[h], granted[h])
      <3>1. subject[h] \in Subjects /\ granted[h] \in SUBSET Topics
        BY <1>0 DEF AuthType
      <3>2. /\ puts' \in Nat
            /\ cache' \in [Subjects -> Entries \cup {Null}]
            /\ \A u \in Subjects :
                 \/ cache'[u] = cache[u] \/ cache'[u] = Null
                 \/ u = subject[h] /\ cache'[u] = [keys |-> granted[h], exp |-> clock + cacheTTL]
        BY <1>0, <2>3, <3>1, PutEntry
      <3>3. AuthType'
        BY <1>0, <2>0, <3>1, <3>2 DEF AuthType
      <3>4. ASSUME NEW u \in Subjects, cache'[u] # Null
            PROVE  /\ cache'[u].keys # {}
                   /\ cache'[u].exp <= clock + cacheTTL
                   /\ RightSince(u, cache[u].keys, cache[u].exp - (cacheTTL + AuthTimeout))'
        <4>1. CASE cache'[u] = cache[u]
          BY <1>0, <2>0, <3>4, <4>1 DEF EntryRecent, RightSince
        <4>2. CASE u = subject[h] /\ cache'[u] = [keys |-> granted[h], exp |-> clock + cacheTTL]
          <5>1. /\ askedAt[h] \in Nat /\ clock <= askedAt[h] + AuthTimeout /\ clock \in Nat
                /\ RightSince(u, granted[h], askedAt[h])
                /\ lastRight[u][granted[h]] \in Int
            BY <1>0, <2>0, <3>1, <4>2 DEF CallInTime, AuthType
          <5>2. cache'[u].keys = granted[h] /\ cache'[u].exp = clock + cacheTTL
            BY <4>2
          <5> QED
            BY <2>0, <2>3, <5>1, <5>2 DEF RightSince
        <4> QED
          BY <3>2, <3>4, <4>1, <4>2
      <3>5. EntryRecent'
        BY <2>0, <3>4 DEF EntryRecent
      <3> QED
        BY <2>1, <3>3, <3>5 DEF AuthInv
    <2> QED
      BY <1>7, <2>2, <2>3 DEF A!Answer
  <1>8. CASE UNCHANGED A!vars
    BY <1>0, <1>8 DEF A!vars, AuthInv, AuthType, CallInTime, EntryRecent, RightSince
  <1> QED
    BY <1>2, <1>3, <1>4, <1>5, <1>6, <1>7, <1>8 DEF A!Next, A!Authorize, A!Return

(* Whoever is granted topics, from the cache or by the backend, had a      *)
(* right to them within AuthCacheTTL + AuthTimeout: for every number of    *)
(* subjects, handshakes and topics, every TTL and timeout and however the  *)
(* backend changes its mind.                                               *)
THEOREM GrantCorrect == A!Spec => GrantIsRecent
  <1> DEFINE Recent ==
        \A h \in Handshakes :
          state[h] # "accepted" /\ state'[h] = "accepted" =>
            granted'[h] # {} /\ A!RightWithin(subject[h], granted'[h], cacheTTL + AuthTimeout)
  <1>1. ASSUME AuthInv, [A!Next]_(A!vars) PROVE [Recent]_(A!vars)
    <2> SUFFICES ASSUME A!Next, NEW h \in Handshakes, state[h] # "accepted", state'[h] = "accepted"
                 PROVE  granted'[h] # {} /\ A!RightWithin(subject[h], granted'[h], cacheTTL + AuthTimeout)
      BY <1>1
    <2>0. AuthType /\ CallInTime /\ EntryRecent
      BY <1>1 DEF AuthInv
    <2> USE DEF A!AuthCacheAssumption
    <2>1. A!cacheGet(h) \/ A!Answer(h)
      BY <2>0 DEF A!Next, A!Tick, A!Change, A!Decide, A!Authorize, A!Ask, A!Return, A!Fail,
         A!cacheGet, A!Answer, A!askVars, AuthType
    <2>2. CASE A!cacheGet(h)
      <3>1. /\ cache[subject[h]] # Null /\ clock <= cache[subject[h]].exp
            /\ granted'[h] = cache[subject[h]].keys
        BY <2>0, <2>2 DEF A!cacheGet, A!Hit, A!valid, A!cacheKey, AuthType
      <3>2. /\ cache[subject[h]].keys \in SUBSET Topics /\ cache[subject[h]].exp \in Nat
            /\ lastRight[subject[h]][cache[subject[h]].keys] \in Int /\ clock \in Nat
            /\ cache[subject[h]].keys # {}
            /\ RightSince(subject[h], cache[subject[h]].keys, cache[subject[h]].exp - (cacheTTL + AuthTimeout))
        BY <2>0, <3>1 DEF AuthType, EntryRecent, Entries
      <3> QED
        BY <3>1, <3>2 DEF RightSince, A!RightWithin, A!Never
    <2>3. CASE A!Answer(h)
      <3>1. granted'[h] = granted[h] /\ granted[h] # {} /\ state[h] = "decided"
        BY <2>0, <2>3 DEF A!Answer, AuthType
      <3>2. /\ askedAt[h] \in Nat /\ clock <= askedAt[h] + AuthTimeout /\ clock \in Nat
            /\ RightSince(subject[h], granted[h], askedAt[h])
            /\ lastRight[subject[h]][granted[h]] \in Int
        BY <2>0, <3>1 DEF CallInTime, AuthType
      <3> QED
        BY <3>1, <3>2 DEF RightSince, A!RightWithin, A!Never
    <2> QED
      BY <2>1, <2>2, <2>3
  <1>2. GrantIsRecent <=> [][Recent]_(A!vars)
    BY DEF GrantIsRecent, A!GrantIsRecent
  <1> QED
    BY <1>1, <1>2, AuthInit, AuthStep, PTL DEF A!Spec

-----------------------------------------------------------------------------
HIDE TimedCache
USE TimedGauge

(* The keys gauge.  Its module counts as this one does. *)
LEMMA SameCount ==
  ASSUME NEW S
  PROVE  (G!IsFiniteSet(S) <=> IsFiniteSet(S)) /\ G!Cardinality(S) = Cardinality(S)
  BY DEF G!IsFiniteSet, IsFiniteSet, G!Cardinality, Cardinality

(* Pairs that hold every key of one set, and only keys of *)
(* another one, each a bounded number of times.                            *)
LEMMA CountBounds ==
  ASSUME NEW all \in SUBSET GaugeKeys, NEW some \in SUBSET GaugeKeys,
         NEW pairs \in SUBSET (some \X (1..Repeats)), \A k \in all : <<k, 1>> \in pairs
  PROVE  Cardinality(all) <= Cardinality(pairs) /\ Cardinality(pairs) <= Cardinality(some) * Repeats
  <1> USE DEF G!MetricsAssumption
  <1>0. IsFiniteSet(GaugeKeys)
    BY SameCount
  <1>1. IsFiniteSet(all) /\ IsFiniteSet(some)
    BY <1>0, FS_Subset
  <1>2. IsFiniteSet(1..Repeats) /\ Cardinality(1..Repeats) = Repeats
    BY FS_Interval
  <1>3. IsFiniteSet(some \X (1..Repeats)) /\ Cardinality(some \X (1..Repeats)) = Cardinality(some) * Repeats
    BY <1>1, <1>2, FS_Product
  <1>4. IsFiniteSet(pairs) /\ Cardinality(pairs) <= Cardinality(some) * Repeats
    BY <1>3, FS_Subset
  <1>5. IsFiniteSet({1}) /\ Cardinality({1}) = 1
    BY FS_Singleton
  <1>6. Cardinality(all \X {1}) = Cardinality(all) * 1 /\ Cardinality(all) \in Nat
    BY <1>1, <1>5, FS_Product, FS_CardinalityType
  <1>7. all \X {1} \in SUBSET pairs
    OBVIOUS
  <1>8. Cardinality(all \X {1}) <= Cardinality(pairs)
    BY <1>4, <1>7, FS_Subset
  <1> QED
    BY <1>4, <1>6, <1>8

GaugeType ==
  /\ clock \in Nat /\ stored \in SUBSET GaugeKeys
  /\ changed \in [GaugeKeys -> Int] /\ \A k \in GaugeKeys : changed[k] >= -1
  /\ pc \in [Scrapes -> {"idle", "lock", "scan", "scanned", "done"}]
  /\ keysMu \in Scrapes \cup {Null}
  /\ keysAt \in Int /\ keysAt >= -1 /\ keysAt <= clock
  /\ cursor \in SUBSET GaugeKeys /\ found \in SUBSET (GaugeKeys \X (1..Repeats))
  /\ DOMAIN result = Scrapes
  /\ scanAt \in Int /\ scanAt >= -1 /\ scanAt <= clock
  /\ failed \in BOOLEAN

(* Only the scrape that holds the mutex asks the storage; when nobody does *)
(* the time of the cache is not before that of the last call.              *)
OneScan ==
  /\ \A s \in Scrapes : pc[s] \in {"scan", "scanned"} => keysMu = s
  /\ keysMu # Null => scanAt >= 0 /\ clock <= scanAt + ScanTime
  /\ keysMu # Null => pc[keysMu] \in {"scan", "scanned"}
  /\ keysMu = Null => keysAt >= scanAt

(* Every key that is there since before t was found, or will be, and what  *)
(* was found was there at some time from t on.                             *)
FoundSince(t) ==
  /\ \A k \in stored : changed[k] < t => k \in cursor \/ <<k, 1>> \in found
  /\ \A e \in found : e[1] \in stored \/ (changed[e[1]] >= 0 /\ changed[e[1]] >= t)

(* So it is while a call is under way; and when none is, for the value     *)
(* that its result left in the cache.                                      *)
ScanSound ==
  /\ keysMu # Null => FoundSince(scanAt)
  /\ \A s \in Scrapes : pc[s] = "scanned" => cursor = {}
  /\ keysMu = Null /\ keysAt >= 0 /\ ~failed =>
       cursor = {} /\ keysVal = Cardinality(found) /\ FoundSince(keysAt - ScanTime)

GaugeInv == GaugeType /\ OneScan /\ ScanSound

LEMMA GaugeInit == G!Init => GaugeInv
  <1> SUFFICES ASSUME G!Init PROVE GaugeInv
    OBVIOUS
  <1> USE DEF G!MetricsAssumption, G!Init, G!Never
  <1>1. GaugeType
    <2>1. failed \in BOOLEAN /\ pc \in [Scrapes -> {"idle", "lock", "scan", "scanned", "done"}]
      OBVIOUS
    <2>2. /\ DOMAIN result = Scrapes /\ changed \in [GaugeKeys -> Int]
          /\ clock \in Nat /\ \A k \in GaugeKeys : changed[k] >= -1
      OBVIOUS
    <2>3. keysAt \in Int /\ keysAt >= -1 /\ keysAt <= clock /\ scanAt = keysAt
      OBVIOUS
    <2> QED
      BY <2>1, <2>2, <2>3 DEF GaugeType
  <1>2. OneScan
    BY DEF OneScan
  <1>3. ScanSound
    BY DEF ScanSound
  <1> QED
    BY <1>1, <1>2, <1>3 DEF GaugeInv

(* What was found stays sound when a key comes or goes now. *)
LEMMA FoundKept ==
  ASSUME GaugeType, NEW k \in GaugeKeys, NEW t \in Int, t <= clock, FoundSince(t),
         changed' = [changed EXCEPT ![k] = clock], UNCHANGED <<cursor, found>>,
         \A j \in GaugeKeys : j # k => (j \in stored' <=> j \in stored), stored' \in SUBSET GaugeKeys
  PROVE  FoundSince(t)'
  <1>1. ASSUME NEW j \in stored', changed'[j] < t PROVE j \in cursor \/ <<j, 1>> \in found
    <2>1. j # k
      BY <1>1 DEF GaugeType
    <2> QED
      BY <1>1, <2>1 DEF GaugeType, FoundSince
  <1>2. ASSUME NEW e \in found
        PROVE  e[1] \in stored' \/ (changed'[e[1]] >= 0 /\ changed'[e[1]] >= t)
    <2>1. e[1] \in GaugeKeys
      BY <1>2 DEF GaugeType
    <2>2. CASE e[1] = k
      BY <2>2 DEF GaugeType
    <2>3. CASE e[1] # k
      BY <2>1, <2>3, <1>2 DEF GaugeType, FoundSince
    <2> QED
      BY <2>2, <2>3
  <1> QED
    BY <1>1, <1>2 DEF FoundSince

(* It is sound for every earlier instant, too. *)
LEMMA FoundEarlier ==
  ASSUME GaugeType, NEW t \in Int, NEW u \in Int, u <= t, FoundSince(t)
  PROVE  FoundSince(u)
  BY DEF GaugeType, FoundSince

LEMMA GaugeStep ==
  GaugeInv /\ [G!Next]_(G!vars) => GaugeInv'
  <1> SUFFICES ASSUME GaugeInv, [G!Next]_(G!vars) PROVE GaugeInv'
    OBVIOUS
  <1> USE DEF G!MetricsAssumption, G!storeVars, G!scrapeVars, G!cacheVars, G!scanVars
  <1>0. GaugeType /\ OneScan /\ ScanSound
    BY DEF GaugeInv
  <1>1. CASE G!Tick
    <2>0. /\ clock' = clock + 1
          /\ UNCHANGED <<stored, changed, pc, keysMu, keysVal, keysAt, cursor, found, result, scanAt, failed>>
          /\ \A s \in Scrapes : pc[s] \in {"scan", "scanned"} => clock < scanAt + ScanTime
      BY <1>1 DEF G!Tick
    <2>1. GaugeType'
      BY <1>0, <2>0 DEF GaugeType
    <2>2. OneScan'
      BY <1>0, <2>0 DEF GaugeType, OneScan
    <2>3. ScanSound'
      BY <1>0, <2>0 DEF ScanSound, FoundSince
    <2> QED
      BY <2>1, <2>2, <2>3 DEF GaugeInv
  <1>2. ASSUME NEW k \in GaugeKeys, G!Appear(k) \/ G!Disappear(k) PROVE GaugeInv'
    <2>0. /\ changed' = [changed EXCEPT ![k] = clock]
          /\ stored' \in SUBSET GaugeKeys
          /\ \A j \in GaugeKeys : j # k => (j \in stored' <=> j \in stored)
          /\ UNCHANGED <<clock, pc, keysMu, keysVal, keysAt, cursor, found, result, scanAt, failed>>
      BY <1>0, <1>2 DEF G!Appear, G!Disappear, GaugeType
    <2>1. GaugeType'
      BY <1>0, <2>0 DEF GaugeType
    <2>2. OneScan'
      BY <1>0, <2>0 DEF OneScan
    <2>3. ASSUME NEW t \in Int, t <= clock, FoundSince(t) PROVE FoundSince(t)'
      BY <1>0, <2>0, <2>3, FoundKept
    <2>4. ASSUME keysMu # Null PROVE FoundSince(scanAt)'
      <3>1. PICK t \in Int : t = scanAt
        BY <1>0 DEF GaugeType
      <3>2. FoundSince(t)'
        BY <1>0, <2>3, <2>4, <3>1 DEF ScanSound, GaugeType
      <3> QED
        BY <2>0, <3>1, <3>2 DEF FoundSince
    <2>5. ASSUME keysMu = Null, keysAt >= 0, ~failed PROVE FoundSince(keysAt - ScanTime)'
      <3>1. PICK t \in Int : t = keysAt - ScanTime
        BY <1>0 DEF GaugeType
      <3>2. FoundSince(t)'
        BY <1>0, <2>3, <2>5, <3>1 DEF ScanSound, GaugeType
      <3> QED
        BY <2>0, <3>1, <3>2 DEF FoundSince
    <2>6. ScanSound'
      BY <1>0, <2>0, <2>4, <2>5 DEF ScanSound
    <2> QED
      BY <2>1, <2>2, <2>6 DEF GaugeInv
  <1>3. ASSUME NEW s \in Scrapes, G!handleMetrics(s) PROVE GaugeInv'
    <2>0. /\ pc[s] = "idle" /\ pc' = [pc EXCEPT ![s] = "lock"]
          /\ UNCHANGED <<clock, stored, changed, keysMu, keysVal, keysAt, cursor, found, result, scanAt, failed>>
      BY <1>3 DEF G!handleMetrics
    <2> QED
      BY <1>0, <2>0 DEF GaugeInv, GaugeType, OneScan, ScanSound, FoundSince
  <1>4. ASSUME NEW s \in Scrapes, G!UseCached(s) PROVE GaugeInv'
    <2>0. /\ pc[s] = "lock" /\ pc' = [pc EXCEPT ![s] = "done"]
          /\ result' = [result EXCEPT ![s] = keysVal]
          /\ UNCHANGED <<clock, stored, changed, keysMu, keysVal, keysAt, cursor, found, scanAt, failed>>
      BY <1>4 DEF G!UseCached, G!Return
    <2> QED
      BY <1>0, <2>0 DEF GaugeInv, GaugeType, OneScan, ScanSound, FoundSince
  <1>5. ASSUME NEW s \in Scrapes, G!Scan(s) PROVE GaugeInv'
    <2>0. /\ pc[s] = "lock" /\ pc' = [pc EXCEPT ![s] = "scan"]
          /\ keysMu = Null /\ keysMu' = s /\ scanAt' = clock
          /\ cursor' = GaugeKeys /\ found' = {}
          /\ UNCHANGED <<clock, stored, changed, keysVal, keysAt, result, failed>>
      BY <1>5 DEF G!Scan
    <2>1. GaugeType'
      BY <1>0, <2>0 DEF GaugeType
    <2>2. \A r \in Scrapes : pc[r] \notin {"scan", "scanned"}
      BY <1>0, <2>0 DEF OneScan
    <2>3. OneScan'
      BY <1>0, <2>0, <2>2 DEF GaugeType, OneScan
    <2>4. ScanSound'
      BY <1>0, <2>0, <2>2 DEF GaugeType, ScanSound, FoundSince
    <2> QED
      BY <2>1, <2>3, <2>4 DEF GaugeInv
  <1>6. ASSUME NEW s \in Scrapes, NEW batch \in SUBSET GaugeKeys,
               NEW again \in SUBSET (GaugeKeys \X (2..Repeats)), G!GetKeys(s, batch, again)
        PROVE  GaugeInv'
    <2>0. /\ pc[s] = "scan"
          /\ pc' = [pc EXCEPT ![s] = IF batch = cursor THEN "scanned" ELSE "scan"]
          /\ batch \subseteq cursor /\ cursor' = cursor \ batch
          /\ again \subseteq stored \X (2..Repeats)
          /\ found' = found \cup ((batch \cap stored) \X {1}) \cup again
          /\ UNCHANGED <<clock, stored, changed, keysMu, keysVal, keysAt, result, scanAt, failed>>
      BY <1>6 DEF G!GetKeys
    <2>1. again \subseteq GaugeKeys \X (1..Repeats) /\ ((batch \cap stored) \X {1}) \subseteq GaugeKeys \X (1..Repeats)
      BY <1>0
    <2>2. GaugeType'
      BY <1>0, <2>0, <2>1 DEF GaugeType
    <2>3. keysMu = s /\ keysMu # Null
      BY <1>0, <2>0 DEF OneScan
    <2>4. OneScan'
      BY <1>0, <2>0, <2>3 DEF GaugeType, OneScan
    <2>5. FoundSince(scanAt)
      BY <1>0, <2>3 DEF ScanSound
    <2>6. ASSUME NEW j \in stored, changed[j] < scanAt PROVE j \in cursor' \/ <<j, 1>> \in found'
      BY <2>0, <2>5, <2>6 DEF FoundSince
    <2>7. ASSUME NEW e \in found' PROVE e[1] \in stored \/ (changed[e[1]] >= 0 /\ changed[e[1]] >= scanAt)
      BY <2>0, <2>5, <2>7 DEF FoundSince
    <2>8. FoundSince(scanAt)'
      BY <2>0, <2>6, <2>7 DEF FoundSince
    <2>9. \A r \in Scrapes : pc'[r] = "scanned" => cursor' = {}
      BY <1>0, <2>0, <2>3 DEF OneScan, GaugeType
    <2>10. ScanSound'
      BY <2>0, <2>3, <2>8, <2>9 DEF ScanSound
    <2> QED
      BY <2>2, <2>4, <2>10 DEF GaugeInv
  <1>7. ASSUME NEW s \in Scrapes, NEW err \in BOOLEAN, G!GotKeys(s, err) PROVE GaugeInv'
    <2>0. /\ pc[s] \in {"scan", "scanned"} /\ (~err => pc[s] = "scanned")
          /\ pc' = [pc EXCEPT ![s] = "done"]
          /\ keysMu' = Null /\ keysAt' = clock /\ failed' = err
          /\ ~err => keysVal' = Cardinality(found)
          /\ result' = [result EXCEPT ![s] = keysVal']
          /\ UNCHANGED <<clock, stored, changed, cursor, found, scanAt>>
      BY <1>7, SameCount DEF G!GotKeys, G!Return, G!readAt
    <2>1. /\ keysMu = s /\ keysMu # Null /\ scanAt >= 0 /\ clock <= scanAt + ScanTime
      BY <1>0, <2>0 DEF OneScan
    <2>2. GaugeType'
      BY <1>0, <2>0, <2>1 DEF GaugeType
    <2>3. \A r \in Scrapes : pc'[r] \notin {"scan", "scanned"}
      BY <1>0, <2>0, <2>1 DEF GaugeType, OneScan
    <2>4. OneScan'
      BY <1>0, <2>0, <2>3 DEF GaugeType, OneScan
    <2>5. ASSUME ~err PROVE cursor = {}
      BY <1>0, <2>0, <2>5 DEF ScanSound
    <2>6. FoundSince(clock - ScanTime)
      <3>1. PICK t \in Int, u \in Int : t = scanAt /\ u = clock - ScanTime
        BY <1>0 DEF GaugeType
      <3>2. FoundSince(t) /\ u <= t
        BY <1>0, <2>1, <3>1 DEF ScanSound, GaugeType
      <3>3. FoundSince(u)
        BY <1>0, <3>2, FoundEarlier
      <3> QED
        BY <3>1, <3>3
    <2>7. FoundSince(keysAt - ScanTime)'
      BY <2>0, <2>6 DEF FoundSince
    <2>8. ScanSound'
      BY <2>0, <2>3, <2>5, <2>7 DEF ScanSound
    <2> QED
      BY <2>2, <2>4, <2>8 DEF GaugeInv
  <1>8. CASE UNCHANGED G!vars
    BY <1>0, <1>8 DEF G!vars, GaugeInv, GaugeType, OneScan, ScanSound, FoundSince
  <1> QED
    BY <1>1, <1>2, <1>3, <1>4, <1>5, <1>6, <1>7, <1>8 DEF G!Next

(* GetKeys is called once per TTL at most, however many scrapes overlap,   *)
(* whatever the TTL and the duration of a call, and also while it fails.   *)
THEOREM ScansCorrect == G!Spec => ScansSpaced
  <1> DEFINE Spaced == scanAt' # scanAt /\ scanAt # G!Never => scanAt' >= scanAt + CacheTTL
  <1>1. ASSUME GaugeInv, [G!Next]_(G!vars) PROVE [Spaced]_(G!vars)
    <2> SUFFICES ASSUME G!Next, scanAt' # scanAt, scanAt # G!Never PROVE scanAt' >= scanAt + CacheTTL
      BY <1>1
    <2>1. PICK s \in Scrapes : G!Scan(s)
      BY DEF G!Next, G!Tick, G!Appear, G!Disappear, G!handleMetrics, G!UseCached, G!Scan, G!GetKeys,
         G!GotKeys, G!scanVars
    <2>2. keysMu = Null /\ scanAt' = clock /\ ~G!cached
      BY <2>1 DEF G!Scan
    <2>3. keysAt >= scanAt /\ keysAt \in Int /\ scanAt \in Int /\ clock \in Int /\ scanAt >= 0
      BY <1>1, <2>2 DEF GaugeInv, GaugeType, OneScan, G!Never
    <2> QED
      BY <2>2, <2>3 DEF G!cached, G!Never, G!MetricsAssumption
  <1>2. ScansSpaced <=> [][Spaced]_(G!vars)
    BY DEF ScansSpaced, G!ScansSpaced
  <1> QED
    BY <1>1, <1>2, GaugeInit, GaugeStep, PTL DEF G!Spec

(* What a complete call has found is counted within the bounds.            *)
LEMMA FoundCounted ==
  ASSUME GaugeType, NEW t \in Int, FoundSince(t), cursor = {}
  PROVE  /\ Cardinality(G!AllAlong(t)) <= Cardinality(found)
         /\ Cardinality(found) <= Cardinality(G!Lately(t)) * Repeats
  <1>1. G!AllAlong(t) \in SUBSET GaugeKeys /\ G!Lately(t) \in SUBSET GaugeKeys
    BY DEF GaugeType, G!AllAlong, G!Lately
  <1>2. \A k \in G!AllAlong(t) : <<k, 1>> \in found
    BY DEF FoundSince, G!AllAlong
  <1>3. ASSUME NEW e \in found PROVE e \in G!Lately(t) \X (1..Repeats)
    <2>1. e \in GaugeKeys \X (1..Repeats)
      BY <1>3 DEF GaugeType
    <2>2. e[1] \in G!Lately(t)
      BY <1>3, <2>1 DEF FoundSince, G!Lately, G!Never, GaugeType
    <2> QED
      BY <2>1, <2>2
  <1>4. found \in SUBSET (G!Lately(t) \X (1..Repeats))
    BY <1>3
  <1> QED
    BY <1>1, <1>2, <1>4, CountBounds

(* Unless the last call of GetKeys failed, a scrape counts every key that  *)
(* was there throughout the last TTL and duration of a call and none that  *)
(* was not there at any time of it, however keys come and go between the   *)
(* batches and whatever a SCAN repeats: for every set of keys, every       *)
(* number of scrapes, every TTL and every bound on the duration of a call. *)
THEOREM GaugeCorrect == G!Spec => KeysGaugeRecent
  <1> DEFINE Recent ==
        \A s \in Scrapes :
          LET t == clock - (CacheTTL + ScanTime)
          IN  pc[s] # "done" /\ pc'[s] = "done" /\ ~failed' =>
                /\ G!Cardinality(G!AllAlong(t)) <= result'[s]
                /\ result'[s] <= G!Cardinality(G!Lately(t)) * Repeats
  <1>1. ASSUME GaugeInv, [G!Next]_(G!vars) PROVE [Recent]_(G!vars)
    <2> USE DEF G!MetricsAssumption
    <2>0. GaugeType /\ OneScan /\ ScanSound
      BY <1>1 DEF GaugeInv
    <2>t. PICK t \in Int : t = clock - (CacheTTL + ScanTime)
      BY <2>0 DEF GaugeType
    <2> SUFFICES ASSUME G!Next, NEW s \in Scrapes, pc[s] # "done", pc'[s] = "done", ~failed'
                 PROVE  /\ Cardinality(G!AllAlong(t)) <= result'[s]
                        /\ result'[s] <= Cardinality(G!Lately(t)) * Repeats
      BY <1>1, <2>t, SameCount
    <2>1. G!UseCached(s) \/ \E err \in BOOLEAN : G!GotKeys(s, err)
      BY <2>0 DEF G!Next, G!Tick, G!Appear, G!Disappear, G!handleMetrics, G!UseCached, G!Scan,
         G!GetKeys, G!GotKeys, G!Return, G!scrapeVars, GaugeType
    <2>2. CASE G!UseCached(s)
      <3>1. /\ result'[s] = keysVal /\ ~failed /\ keysAt # G!Never /\ clock - keysAt < CacheTTL
            /\ keysMu = Null
        BY <2>0, <2>2 DEF G!UseCached, G!Return, G!cached, GaugeType
      <3>2. PICK u \in Int : u = keysAt - ScanTime
        BY <2>0 DEF GaugeType
      <3>3. keysAt >= 0 /\ FoundSince(u) /\ cursor = {} /\ keysVal = Cardinality(found)
        BY <2>0, <3>1, <3>2 DEF GaugeType, ScanSound, G!Never
      <3>4. t <= u
        BY <2>0, <2>t, <3>1, <3>2 DEF GaugeType
      <3>5. FoundSince(t)
        BY <2>0, <3>3, <3>4, FoundEarlier
      <3> QED
        BY <2>0, <3>1, <3>3, <3>5, FoundCounted
    <2>3. CASE \E err \in BOOLEAN : G!GotKeys(s, err)
      <3>1. /\ result'[s] = Cardinality(found) /\ pc[s] = "scanned"
        BY <2>0, <2>3, SameCount DEF G!GotKeys, G!Return, GaugeType
      <3>2. PICK u \in Int : u = scanAt
        BY <2>0 DEF GaugeType
      <3>3. /\ clock <= scanAt + ScanTime /\ FoundSince(u) /\ cursor = {}
        BY <2>0, <3>1, <3>2 DEF OneScan, ScanSound
      <3>4. t <= u
        BY <2>0, <2>t, <3>2, <3>3 DEF GaugeType
      <3>5. FoundSince(t)
        BY <2>0, <3>3, <3>4, FoundEarlier
      <3> QED
        BY <2>0, <3>1, <3>3, <3>5, FoundCounted
    <2> QED
      BY <2>1, <2>2, <2>3
  <1>2. KeysGaugeRecent <=> [][Recent]_(G!vars)
    BY DEF KeysGaugeRecent, G!KeysGaugeRecent
  <1> QED
    BY <1>1, <1>2, GaugeInit, GaugeStep, PTL DEF G!Spec

-----------------------------------------------------------------------------
HIDE TimedGauge

(* The history.  prune and cut keep the end of a buffer. *)

HistEntry == [m : Msgs, at : Nat]

(* An entry was added no earlier than its time, and those behind it later; *)
(* c and b are the callers' states and the instants of adding.             *)
AgedBy(s, c, b) ==
  \A i \in 1..Len(s) :
    /\ c[s[i].m] = "done" /\ s[i].at <= b[s[i].m]
    /\ \A j \in i..Len(s) : b[s[i].m] <= b[s[j].m]

LEMMA AgedEnd ==
  ASSUME NEW s \in Seq(HistEntry), NEW c, NEW b, AgedBy(s, c, b),
         NEW p \in Seq(HistEntry), NEW q \in 1 .. Len(s) + 1, Len(p) = Len(s) - q + 1,
         \A j \in 1 .. Len(s) - q + 1 : p[j] = s[q - 1 + j]
  PROVE  AgedBy(p, c, b)
  <1>0. Len(s) \in Nat
    OBVIOUS
  <1>2. ASSUME NEW i \in 1..Len(p) PROVE q - 1 + i \in 1..Len(s) /\ p[i] = s[q - 1 + i]
    BY <1>0
  <1> SUFFICES ASSUME NEW i \in 1..Len(p)
               PROVE  /\ c[p[i].m] = "done" /\ p[i].at <= b[p[i].m]
                      /\ \A j \in i..Len(p) : b[p[i].m] <= b[p[j].m]
    BY DEF AgedBy
  <1>3. c[p[i].m] = "done" /\ p[i].at <= b[p[i].m]
    BY <1>2 DEF AgedBy
  <1>4. ASSUME NEW j \in i..Len(p) PROVE b[p[i].m] <= b[p[j].m]
    <2>1. j \in 1..Len(p) /\ q - 1 + j \in q - 1 + i .. Len(s)
      BY <1>0, <1>2
    <2> QED
      BY <1>2, <2>1 DEF AgedBy
  <1> QED
    BY <1>3, <1>4

USE TimedHistory

LEMMA LeastOf == ASSUME NEW S \in SUBSET Nat, S # {} PROVE \E x \in S : \A y \in S : x <= y
  <1>1. \E x \in S : \A y \in S : ~(<<y, x>> \in OpToRel(<, Nat))
    BY NatLessThanWellFounded, WFMin
  <1>2. ASSUME NEW x \in Nat, NEW y \in Nat, ~(<<y, x>> \in OpToRel(<, Nat)) PROVE x <= y
    BY <1>2 DEF OpToRel
  <1> QED
    BY <1>1, <1>2

(* What remains begins with the first entry that is young enough, and each *)
(* one before it is too old.                                               *)
LEMMA PruneKeepsEnd ==
  ASSUME NEW s \in Seq(HistEntry), NEW t \in Int
  PROVE  \E q \in 1 .. Len(s) + 1 :
           /\ H!prune(s, t) \in Seq(HistEntry)
           /\ Len(H!prune(s, t)) = Len(s) - q + 1
           /\ \A j \in 1 .. Len(s) - q + 1 : H!prune(s, t)[j] = s[q - 1 + j]
           /\ \A i \in 1 .. q - 1 : ttl > 0 /\ s[i].at < t - ttl
           /\ ttl > 0 /\ q <= Len(s) => s[q].at >= t - ttl
  <1> DEFINE young == {j \in 1..Len(s) : s[j].at >= t - ttl}
             first == CHOOSE j \in young : \A i \in young : j <= i
  <1>0. ttl \in Nat /\ Len(s) \in Nat /\ \A j \in 1..Len(s) : s[j] \in HistEntry /\ s[j].at \in Nat
    <2>1. ttl \in Nat /\ Len(s) \in Nat /\ \A j \in 1..Len(s) : s[j] \in HistEntry
      BY DEF H!HistoryAssumption
    <2>2. \A e \in HistEntry : e.at \in Nat
      BY DEF HistEntry
    <2> QED
      BY <2>1, <2>2
  <1>1. CASE ttl = 0
    <2>1. H!prune(s, t) = s
      BY <1>1 DEF H!prune
    <2> WITNESS 1 \in 1 .. Len(s) + 1
    <2> QED
      BY <1>0, <1>1, <2>1
  <1>2. CASE ttl # 0 /\ young = {}
    <2>1. H!prune(s, t) = << >>
      BY <1>2 DEF H!prune
    <2>2. \A i \in 1..Len(s) : s[i].at < t - ttl
      BY <1>0, <1>2
    <2> WITNESS Len(s) + 1 \in 1 .. Len(s) + 1
    <2> QED
      BY <1>0, <1>2, <2>1, <2>2
  <1>3. CASE ttl # 0 /\ young # {}
    <2>1. H!prune(s, t) = SubSeq(s, first, Len(s))
      BY <1>3 DEF H!prune
    <2>2. first \in young /\ \A i \in young : first <= i
      <3>1. young \in SUBSET Nat
        BY <1>0
      <3>2. \E x \in young : \A y \in young : x <= y
        BY <1>3, <3>1, LeastOf
      <3> HIDE DEF young
      <3> QED
        BY <3>2
    <2>3. first \in 1..Len(s) /\ s[first].at >= t - ttl
      BY <2>2
    <2> HIDE DEF first
    <2>4. \A i \in 1 .. first - 1 : s[i].at < t - ttl
      <3> SUFFICES ASSUME NEW i \in 1 .. first - 1, s[i].at >= t - ttl PROVE FALSE
        BY <1>0, <2>3
      <3>1. i \in young /\ i < first
        BY <1>0, <2>3
      <3> QED
        BY <1>0, <2>2, <2>3, <3>1
    <2>5. /\ SubSeq(s, first, Len(s)) \in Seq(HistEntry)
          /\ Len(SubSeq(s, first, Len(s))) = Len(s) - first + 1
          /\ \A j \in 1 .. Len(s) - first + 1 : SubSeq(s, first, Len(s))[j] = s[first - 1 + j]
      BY <1>0, <2>3
    <2> first \in 1 .. Len(s) + 1
      BY <1>0, <2>3
    <2> WITNESS first \in 1 .. Len(s) + 1
    <2> QED
      BY <1>0, <1>3, <2>1, <2>3, <2>4, <2>5
  <1> QED
    BY <1>1, <1>2, <1>3

(* No more than size entries remain, and all of them if they are no more. *)
LEMMA CutKeepsEnd ==
  ASSUME NEW s \in Seq(HistEntry)
  PROVE  \E q \in 1 .. Len(s) + 1 :
           /\ H!cut(s) \in Seq(HistEntry)
           /\ Len(H!cut(s)) = Len(s) - q + 1
           /\ \A j \in 1 .. Len(s) - q + 1 : H!cut(s)[j] = s[q - 1 + j]
           /\ Len(H!cut(s)) <= size
           /\ q > 1 => Len(H!cut(s)) = size
  <1>0. size \in Nat /\ size > 0 /\ Len(s) \in Nat
    BY DEF H!HistoryAssumption
  <1>1. CASE Len(s) > size
    <2> DEFINE q == Len(s) - size + 1
    <2>1. H!cut(s) = SubSeq(s, q, Len(s)) /\ q \in 1..Len(s)
      BY <1>0, <1>1 DEF H!cut
    <2>2. Len(s) - q + 1 = size
      BY <1>0
    <2> HIDE DEF q
    <2>3. /\ SubSeq(s, q, Len(s)) \in Seq(HistEntry)
          /\ Len(SubSeq(s, q, Len(s))) = Len(s) - q + 1
          /\ \A j \in 1 .. Len(s) - q + 1 : SubSeq(s, q, Len(s))[j] = s[q - 1 + j]
      BY <1>0, <2>1
    <2> q \in 1 .. Len(s) + 1
      BY <1>0, <2>1
    <2> WITNESS q \in 1 .. Len(s) + 1
    <2> QED
      BY <1>0, <2>1, <2>2, <2>3
  <1>2. CASE Len(s) <= size
    <2>1. H!cut(s) = s
      BY <1>0, <1>2 DEF H!cut
    <2> WITNESS 1 \in 1 .. Len(s) + 1
    <2> QED
      BY <1>0, <1>2, <2>1
  <1> QED
    BY <1>0, <1>1, <1>2

LEMMA SuffixIs ==
  ASSUME NEW s \in Seq(HistEntry), NEW t \in Seq(HistEntry), Len(s) <= Len(t),
         \A j \in 1..Len(s) : s[j] = t[Len(t) - Len(s) + j]
  PROVE  H!IsSuffix(s, t)
  <1>1. ASSUME NEW u \in Seq(HistEntry)
        PROVE  /\ H!Reverse(u) \in Seq(HistEntry) /\ Len(H!Reverse(u)) = Len(u)
               /\ \A i \in 1..Len(u) : H!Reverse(u)[i] = u[Len(u) - i + 1]
    <2>1. Len(u) \in Nat /\ \A i \in 1..Len(u) : Len(u) - i + 1 \in 1..Len(u)
      OBVIOUS
    <2> QED
      BY <2>1 DEF H!Reverse
  <1> DEFINE a == SubSeq(H!Reverse(s), 1, Len(s))
             b == SubSeq(H!Reverse(t), 1, Len(s))
  <1>2. Len(s) \in Nat /\ Len(t) \in Nat
    OBVIOUS
  <1>3. /\ a \in Seq(HistEntry) /\ Len(a) = Len(s)
        /\ \A i \in 1..Len(s) : a[i] = s[Len(s) - i + 1]
    BY <1>1, <1>2
  <1>4. /\ b \in Seq(HistEntry) /\ Len(b) = Len(s)
        /\ \A i \in 1..Len(s) : b[i] = t[Len(t) - i + 1]
    BY <1>1, <1>2
  <1>5. ASSUME NEW i \in 1..Len(s) PROVE s[Len(s) - i + 1] = t[Len(t) - i + 1]
    <2>1. Len(s) - i + 1 \in 1..Len(s) /\ Len(t) - Len(s) + (Len(s) - i + 1) = Len(t) - i + 1
      BY <1>2
    <2> QED
      BY <2>1
  <1>6. a = b
    BY <1>3, <1>4, <1>5
  <1> QED
    BY <1>1, <1>6 DEF H!IsSuffix, H!IsPrefix

(* Buffer s is the end of t, and what is missing is beyond size entries or *)
(* was older than the TTL.                                                 *)
Kept(s, t) ==
  /\ s \in Seq(HistEntry) /\ t \in Seq(HistEntry) /\ Len(s) <= Len(t)
  /\ \A j \in 1..Len(s) : s[j] = t[Len(t) - Len(s) + j]
  /\ \A j \in 1 .. Len(t) - Len(s) : j <= Len(t) - size \/ (ttl > 0 /\ t[j].at < clock - ttl)

LEMMA KeptPrune ==
  ASSUME clock \in Nat, NEW s, NEW t, Kept(s, t), NEW n \in Nat, n <= clock
  PROVE  Kept(H!prune(s, n), t) /\ Len(H!prune(s, n)) <= Len(s)
  <1> DEFINE p == H!prune(s, n)
  <1>0. n \in Int
    OBVIOUS
  <1>1. s \in Seq(HistEntry) /\ t \in Seq(HistEntry) /\ Len(s) \in Nat /\ Len(t) \in Nat
    BY DEF Kept
  <1>2. PICK q \in 1 .. Len(s) + 1 :
          /\ p \in Seq(HistEntry)
          /\ Len(p) = Len(s) - q + 1
          /\ \A j \in 1 .. Len(s) - q + 1 : p[j] = s[q - 1 + j]
          /\ \A i \in 1 .. q - 1 : ttl > 0 /\ s[i].at < n - ttl
    BY <1>0, <1>1, PruneKeepsEnd
  <1> HIDE DEF p
  <1>3. ASSUME NEW j \in 1..Len(p) PROVE p[j] = t[Len(t) - Len(p) + j]
    <2>1. q - 1 + j \in 1..Len(s) /\ p[j] = s[q - 1 + j]
      BY <1>1, <1>2
    <2>2. s[q - 1 + j] = t[Len(t) - Len(s) + (q - 1 + j)]
      BY <2>1 DEF Kept
    <2> QED
      BY <1>1, <1>2, <2>1, <2>2
  <1>4. ASSUME NEW j \in 1 .. Len(t) - Len(p) 
        PROVE  j <= Len(t) - size \/ (ttl > 0 /\ t[j].at < clock - ttl)
    <2>1. CASE j <= Len(t) - Len(s)
      BY <1>1, <2>1 DEF Kept
    <2>2. CASE j > Len(t) - Len(s)
      <3> DEFINE i == j - (Len(t) - Len(s))
      <3>1. i \in 1..Len(s) /\ i \in 1 .. q - 1 /\ Len(t) - Len(s) + i = j
        BY <1>1, <1>2, <2>2
      <3>2. s[i] = t[j]
        BY <3>1 DEF Kept
      <3>3. ttl > 0 /\ s[i].at < n - ttl
        BY <1>2, <3>1
      <3>4. s[i].at \in Nat /\ ttl \in Nat
        <4>1. s[i] \in HistEntry
          BY <1>1, <3>1
        <4> QED
          BY <4>1 DEF HistEntry, H!HistoryAssumption
      <3> DEFINE at == s[i].at
      <3>5. t[j].at = at /\ at \in Nat /\ ttl \in Nat /\ at < n - ttl
        BY <3>2, <3>3, <3>4
      <3> HIDE DEF at
      <3>6. at < clock - ttl
        BY <3>5
      <3> QED
        BY <3>3, <3>5, <3>6
    <2> QED
      BY <1>1, <1>2, <2>1, <2>2
  <1>5. Len(p) <= Len(s) /\ Len(p) <= Len(t)
    BY <1>1, <1>2 DEF Kept
  <1>6. Kept(p, t)
    BY <1>1, <1>2, <1>3, <1>4, <1>5 DEF Kept
  <1> QED
    BY <1>5, <1>6 DEF p

LEMMA KeptAppend ==
  ASSUME clock \in Nat, NEW s, NEW t, Kept(s, t), NEW e \in HistEntry
  PROVE  Kept(Append(s, e), Append(t, e))
  <1> DEFINE u == Append(s, e)
             v == Append(t, e)
  <1>1. /\ s \in Seq(HistEntry) /\ t \in Seq(HistEntry) /\ Len(s) \in Nat /\ Len(t) \in Nat
        /\ Len(s) <= Len(t) /\ size \in Nat
    BY DEF Kept, H!HistoryAssumption
  <1>2. /\ u \in Seq(HistEntry) /\ v \in Seq(HistEntry)
        /\ Len(u) = Len(s) + 1 /\ Len(v) = Len(t) + 1
        /\ \A j \in 1..Len(s) : u[j] = s[j]
        /\ \A j \in 1..Len(t) : v[j] = t[j]
        /\ u[Len(s) + 1] = e /\ v[Len(t) + 1] = e
    BY <1>1
  <1> HIDE DEF u, v
  <1>3. ASSUME NEW j \in 1..Len(u) PROVE u[j] = v[Len(v) - Len(u) + j]
    <2>1. CASE j = Len(s) + 1
      BY <1>1, <1>2, <2>1
    <2>2. CASE j \in 1..Len(s)
      <3>1. s[j] = t[Len(t) - Len(s) + j] /\ Len(t) - Len(s) + j \in 1..Len(t)
        BY <1>1, <2>2 DEF Kept
      <3> QED
        BY <1>1, <1>2, <2>2, <3>1
    <2> QED
      BY <1>1, <1>2, <2>1, <2>2
  <1>4. ASSUME NEW j \in 1 .. Len(v) - Len(u)
        PROVE  j <= Len(v) - size \/ (ttl > 0 /\ v[j].at < clock - ttl)
    <2>1. j \in 1 .. Len(t) - Len(s) /\ j \in 1..Len(t)
      BY <1>1, <1>2
    <2>2. j <= Len(t) - size \/ (ttl > 0 /\ t[j].at < clock - ttl)
      BY <2>1 DEF Kept
    <2> QED
      BY <1>1, <1>2, <2>1, <2>2
  <1>5. Kept(u, v)
    BY <1>1, <1>2, <1>3, <1>4 DEF Kept
  <1> QED
    BY <1>5 DEF u, v

LEMMA KeptCut ==
  ASSUME clock \in Nat, NEW s, NEW t, Kept(s, t)
  PROVE  Kept(H!cut(s), t) /\ Len(H!cut(s)) <= size
  <1> DEFINE p == H!cut(s)
  <1>1. /\ s \in Seq(HistEntry) /\ t \in Seq(HistEntry) /\ Len(s) \in Nat /\ Len(t) \in Nat
        /\ Len(s) <= Len(t) /\ size \in Nat
    BY DEF Kept, H!HistoryAssumption
  <1>2. PICK q \in 1 .. Len(s) + 1 :
          /\ p \in Seq(HistEntry)
          /\ Len(p) = Len(s) - q + 1
          /\ \A j \in 1 .. Len(s) - q + 1 : p[j] = s[q - 1 + j]
          /\ Len(p) <= size
          /\ q > 1 => Len(p) = size
    BY <1>1, CutKeepsEnd
  <1> HIDE DEF p
  <1>3. ASSUME NEW j \in 1..Len(p) PROVE p[j] = t[Len(t) - Len(p) + j]
    <2>1. q - 1 + j \in 1..Len(s) /\ p[j] = s[q - 1 + j]
      BY <1>1, <1>2
    <2>2. s[q - 1 + j] = t[Len(t) - Len(s) + (q - 1 + j)]
      BY <2>1 DEF Kept
    <2> QED
      BY <1>1, <1>2, <2>1, <2>2
  <1>4. ASSUME NEW j \in 1 .. Len(t) - Len(p) 
        PROVE  j <= Len(t) - size \/ (ttl > 0 /\ t[j].at < clock - ttl)
    <2>1. CASE q = 1
      BY <1>1, <1>2, <2>1 DEF Kept
    <2>2. CASE q > 1
      BY <1>1, <1>2, <2>2
    <2> QED
      BY <1>2, <2>1, <2>2
  <1>5. Kept(p, t)
    BY <1>1, <1>2, <1>3, <1>4 DEF Kept
  <1> QED
    BY <1>2, <1>5 DEF p

LEMMA AgedPrune ==
  ASSUME NEW s \in Seq(HistEntry), NEW c, NEW b \in [Msgs -> Nat],
         AgedBy(s, c, b), NEW n \in Nat
  PROVE  /\ AgedBy(H!prune(s, n), c, b)
         /\ ttl > 0 => \A j \in 1..Len(H!prune(s, n)) : b[H!prune(s, n)[j].m] >= n - ttl
  <1> DEFINE p == H!prune(s, n)
  <1>0. n \in Int /\ Len(s) \in Nat /\ ttl \in Nat
    BY DEF H!HistoryAssumption
  <1>1. PICK q \in 1 .. Len(s) + 1 :
          /\ p \in Seq(HistEntry)
          /\ Len(p) = Len(s) - q + 1
          /\ \A j \in 1 .. Len(s) - q + 1 : p[j] = s[q - 1 + j]
          /\ ttl > 0 /\ q <= Len(s) => s[q].at >= n - ttl
    BY <1>0, PruneKeepsEnd
  <1> HIDE DEF p
  <1>2. AgedBy(p, c, b)
    BY <1>1, AgedEnd
  <1>3. ASSUME ttl > 0, NEW j \in 1..Len(p) PROVE b[p[j].m] >= n - ttl
    <2>1. q \in 1..Len(s) /\ q - 1 + j \in q..Len(s) /\ p[j] = s[q - 1 + j]
      BY <1>0, <1>1
    <2>2. s[q].at >= n - ttl /\ s[q].at <= b[s[q].m] /\ b[s[q].m] <= b[p[j].m]
      BY <1>1, <1>3, <2>1 DEF AgedBy
    <2>3. s[q].at \in Nat /\ b[s[q].m] \in Nat /\ b[p[j].m] \in Nat
      <3>1. s[q] \in HistEntry /\ p[j] \in HistEntry
        BY <1>1, <2>1
      <3> QED
        BY <3>1 DEF HistEntry
    <2> QED
      BY <1>0, <2>2, <2>3
  <1> QED
    BY <1>2, <1>3 DEF p

LEMMA AgedCut ==
  ASSUME NEW s \in Seq(HistEntry), NEW c, NEW b, AgedBy(s, c, b)
  PROVE  AgedBy(H!cut(s), c, b)
  <1> DEFINE p == H!cut(s)
  <1>1. PICK q \in 1 .. Len(s) + 1 :
          /\ p \in Seq(HistEntry)
          /\ Len(p) = Len(s) - q + 1
          /\ \A j \in 1 .. Len(s) - q + 1 : p[j] = s[q - 1 + j]
    BY CutKeepsEnd
  <1> HIDE DEF p
  <1>2. AgedBy(p, c, b)
    BY <1>1, AgedEnd
  <1> QED
    BY <1>2 DEF p

(* A message m is added at instant t, after everything in buffer s. *)
LEMMA AgedAppend ==
  ASSUME NEW s \in Seq(HistEntry), NEW c \in [H!Callers -> {"idle", "read", "done"}],
         NEW b \in [Msgs -> Nat], AgedBy(s, c, b),
         NEW m \in Msgs, c[m] = "read", NEW t \in Nat, \A x \in Msgs : b[x] <= t,
         NEW n \in Nat, n <= t
  PROVE  AgedBy(Append(s, [m |-> m, at |-> n]), [c EXCEPT ![m] = "done"], [b EXCEPT ![m] = t])
  <1> DEFINE e == [m |-> m, at |-> n]
             u == Append(s, e)
             d == [c EXCEPT ![m] = "done"]
             a == [b EXCEPT ![m] = t]
  <1>1. /\ e \in HistEntry /\ e.m = m /\ e.at = n
    BY DEF HistEntry
  <1>2. m \in H!Callers
    BY DEF H!Callers
  <1>3. /\ d[m] = "done" /\ a[m] = t
        /\ \A x \in Msgs : x # m => d[x] = c[x] /\ a[x] = b[x]
    BY <1>2 DEF H!Callers
  <1> HIDE DEF e, d, a
  <1>4. /\ Len(s) \in Nat /\ Len(u) = Len(s) + 1 /\ u[Len(s) + 1] = e
        /\ \A i \in 1..Len(s) : u[i] = s[i]
    BY <1>1
  <1> HIDE DEF u
  <1>5. ASSUME NEW i \in 1..Len(s)
        PROVE  /\ s[i].m \in Msgs /\ d[s[i].m] = "done" /\ a[s[i].m] = b[s[i].m] /\ b[s[i].m] \in Nat
               /\ s[i].at <= b[s[i].m]
    <2>1. s[i] \in HistEntry /\ c[s[i].m] = "done" /\ s[i].at <= b[s[i].m]
      BY <1>4 DEF AgedBy
    <2>2. s[i].m \in Msgs
      BY <2>1 DEF HistEntry
    <2> QED
      BY <1>3, <2>1, <2>2
  <1>6. AgedBy(u, d, a)
    <2> SUFFICES ASSUME NEW i \in 1..Len(u)
                 PROVE  /\ d[u[i].m] = "done" /\ u[i].at <= a[u[i].m]
                        /\ \A j \in i..Len(u) : a[u[i].m] <= a[u[j].m]
      BY DEF AgedBy
    <2>1. CASE i = Len(s) + 1
      <3>1. u[i] = e /\ \A j \in i..Len(u) : j = i
        BY <1>4, <2>1
      <3> QED
        BY <1>1, <1>3, <3>1
    <2>2. CASE i \in 1..Len(s)
      <3>1. d[u[i].m] = "done" /\ u[i].at <= a[u[i].m]
        BY <1>4, <1>5, <2>2
      <3>2. ASSUME NEW j \in i..Len(u) PROVE a[u[i].m] <= a[u[j].m]
        <4>1. CASE j = Len(s) + 1
          BY <1>1, <1>3, <1>4, <1>5, <2>2, <4>1
        <4>2. CASE j \in i..Len(s)
          <5>1. j \in 1..Len(s) /\ b[s[i].m] <= b[s[j].m]
            BY <1>4, <2>2, <4>2 DEF AgedBy
          <5> QED
            BY <1>4, <1>5, <2>2, <5>1
        <4> QED
          BY <1>4, <2>2, <4>1, <4>2
      <3> QED
        BY <3>1, <3>2
    <2> QED
      BY <1>4, <2>1, <2>2
  <1> QED
    BY <1>6 DEF u, e, d, a

HistType ==
  /\ clock \in Nat
  /\ hCaller \in [H!Callers -> {"idle", "read", "done"}]
  /\ hNow \in [H!Callers -> Nat]
  /\ byKey \in [Keys -> Seq(HistEntry)] /\ added \in [Keys -> Seq(HistEntry)]
  /\ out \in [Readers -> Seq(Msgs)]
  /\ born \in [Msgs -> Nat]

ReadingsOfPast ==
  /\ \A x \in H!Callers : hNow[x] <= clock
  /\ \A m \in Msgs : born[m] <= clock

BuffersKept == \A k \in Keys : Kept(byKey[k], added[k]) /\ Len(byKey[k]) <= size

BuffersAged == \A k \in Keys : AgedBy(byKey[k], hCaller, born)

(* What a reader was answered was young enough, and stays so: a message is *)
(* added once.                                                             *)
AnswersYoung ==
  \A r \in Readers :
    /\ hCaller[r] # "done" => out[r] = << >>
    /\ \A j \in 1..Len(out[r]) : /\ hCaller[out[r][j]] = "done"
                                 /\ ttl > 0 => born[out[r][j]] >= hNow[r] - ttl

HistInv == HistType /\ ReadingsOfPast /\ BuffersKept /\ BuffersAged /\ AnswersYoung

LEMMA HistInit == H!Init => HistInv
  <1> SUFFICES ASSUME H!Init PROVE HistInv
    OBVIOUS
  <1> USE DEF H!Init, H!HistoryAssumption
  <1>1. HistType
    BY DEF HistType
  <1>2. ReadingsOfPast
    BY DEF ReadingsOfPast, H!Callers
  <1>3. BuffersKept
    BY DEF BuffersKept, Kept
  <1>4. BuffersAged
    BY DEF BuffersAged, AgedBy
  <1>5. AnswersYoung
    BY DEF AnswersYoung
  <1> QED
    BY <1>1, <1>2, <1>3, <1>4, <1>5 DEF HistInv

LEMMA HistStep == HistInv /\ [H!Next]_(H!vars) => HistInv'
  <1> SUFFICES ASSUME HistInv, [H!Next]_(H!vars) PROVE HistInv'
    OBVIOUS
  <1>0. HistType /\ ReadingsOfPast /\ BuffersKept /\ BuffersAged /\ AnswersYoung
    BY DEF HistInv
  <1>c. /\ Purger \in H!Callers /\ Msgs \subseteq H!Callers /\ Readers \subseteq H!Callers
        /\ Purger \notin Msgs /\ Purger \notin Readers /\ Msgs \cap Readers = {}
        /\ ttl \in Nat /\ size \in Nat
    BY DEF H!Callers, H!HistoryAssumption
  <1>1. CASE H!Tick
    <2>0. clock' = clock + 1 /\ UNCHANGED <<hCaller, hNow, byKey, out, added, born>>
      BY <1>1 DEF H!Tick
    <2>1. HistType' /\ ReadingsOfPast'
      BY <1>0, <2>0 DEF HistType, ReadingsOfPast
    <2>2. ASSUME NEW k \in Keys PROVE Kept(byKey[k], added[k])'
      <3>1. Kept(byKey[k], added[k]) /\ clock \in Nat
        BY <1>0 DEF BuffersKept, HistType
      <3>2. ASSUME NEW j \in 1 .. Len(added[k]) - Len(byKey[k]),
                   ttl > 0, added[k][j].at < clock - ttl
            PROVE  added[k][j].at < clock' - ttl
        <4>1. added[k][j].at \in Nat
          <5>0. added[k] \in Seq(HistEntry) /\ byKey[k] \in Seq(HistEntry)
            BY <3>1 DEF Kept
          <5>1. j \in 1..Len(added[k])
            BY <5>0
          <5>2. added[k][j] \in HistEntry
            BY <5>0, <5>1
          <5> QED
            BY <5>2 DEF HistEntry
        <4> QED
          BY <1>c, <2>0, <3>1, <3>2, <4>1
      <3> QED
        BY <2>0, <3>1, <3>2 DEF Kept
    <2>3. BuffersKept' /\ BuffersAged' /\ AnswersYoung'
      BY <1>0, <2>0, <2>2 DEF BuffersKept, BuffersAged, AgedBy, AnswersYoung
    <2> QED
      BY <2>1, <2>3 DEF HistInv
  <1>2. ASSUME NEW x \in H!Callers, H!ReadClock(x) PROVE HistInv'
    <2>0. /\ hCaller[x] = "idle" /\ hCaller' = [hCaller EXCEPT ![x] = "read"]
          /\ hNow' = [hNow EXCEPT ![x] = clock]
          /\ UNCHANGED <<clock, byKey, out, added, born>>
      BY <1>2 DEF H!ReadClock
    <2>1. HistType' /\ ReadingsOfPast'
      BY <1>0, <2>0 DEF HistType, ReadingsOfPast
    <2>2. BuffersKept'
      BY <1>0, <2>0 DEF BuffersKept, Kept
    <2>3. \A y : hCaller[y] = "done" /\ y \in H!Callers => hCaller'[y] = "done"
      BY <1>0, <2>0 DEF HistType
    <2>4. BuffersAged'
      <3> SUFFICES ASSUME NEW k \in Keys, NEW i \in 1..Len(byKey[k])
                   PROVE  /\ hCaller'[byKey[k][i].m] = "done"
                          /\ byKey[k][i].at <= born[byKey[k][i].m]
                          /\ \A j \in i..Len(byKey[k]) : born[byKey[k][i].m] <= born[byKey[k][j].m]
        BY <2>0 DEF BuffersAged, AgedBy
      <3>1. byKey[k][i].m \in H!Callers
        <4>1. byKey[k][i] \in HistEntry
          BY <1>0 DEF HistType
        <4> QED
          BY <4>1, <1>c DEF HistEntry
      <3> QED
        BY <1>0, <2>3, <3>1 DEF BuffersAged, AgedBy
    <2>5. AnswersYoung'
      <3> SUFFICES ASSUME NEW r \in Readers
                   PROVE  /\ hCaller'[r] # "done" => out[r] = << >>
                          /\ \A j \in 1..Len(out[r]) :
                               /\ hCaller'[out[r][j]] = "done"
                               /\ ttl > 0 => born[out[r][j]] >= hNow'[r] - ttl
        BY <2>0 DEF AnswersYoung
      <3>1. out[r] \in Seq(Msgs)
        BY <1>0 DEF HistType
      <3>2. CASE r = x
        <4>1. out[r] = << >>
          BY <1>0, <2>0, <3>2 DEF AnswersYoung
        <4> QED
          BY <4>1
      <3>3. CASE r # x
        <4>1. hNow'[r] = hNow[r] /\ hCaller'[r] = hCaller[r]
          BY <1>0, <1>c, <2>0, <3>3 DEF HistType
        <4>2. \A j \in 1..Len(out[r]) : out[r][j] \in H!Callers
          BY <1>c, <3>1
        <4> QED
          BY <1>0, <2>3, <4>1, <4>2 DEF AnswersYoung
      <3> QED
        BY <3>2, <3>3
    <2> QED
      BY <2>1, <2>2, <2>4, <2>5 DEF HistInv
  <1>3. ASSUME NEW k \in Keys, NEW m \in Msgs, H!add(k, m) PROVE HistInv'
    <2> DEFINE e == [m |-> m, at |-> hNow[m]]
               p == H!prune(byKey[k], hNow[m])
    <2>0. /\ hCaller[m] = "read" /\ hCaller' = [hCaller EXCEPT ![m] = "done"]
          /\ byKey' = [byKey EXCEPT ![k] = H!cut(Append(p, e))]
          /\ added' = [added EXCEPT ![k] = Append(added[k], e)]
          /\ born' = [born EXCEPT ![m] = clock]
          /\ UNCHANGED <<clock, hNow, out>>
      BY <1>3 DEF H!add
    <2>1. /\ clock \in Nat /\ hNow[m] \in Nat /\ hNow[m] <= clock
          /\ byKey \in [Keys -> Seq(HistEntry)] /\ added \in [Keys -> Seq(HistEntry)]
          /\ hCaller \in [H!Callers -> {"idle", "read", "done"}] /\ born \in [Msgs -> Nat]
          /\ \A x \in Msgs : born[x] <= clock
      BY <1>0, <1>c DEF HistType, ReadingsOfPast
    <2>2. e \in HistEntry
      BY <2>1 DEF HistEntry
    <2>3. Kept(p, added[k])
      BY <1>0, <2>1, KeptPrune DEF BuffersKept
    <2>4. p \in Seq(HistEntry)
      BY <2>3 DEF Kept
    <2>5. /\ Kept(H!cut(Append(p, e)), Append(added[k], e)) /\ Len(H!cut(Append(p, e))) <= size
      <3>1. Kept(Append(p, e), Append(added[k], e))
        BY <2>1, <2>2, <2>3, KeptAppend
      <3> QED
        BY <2>1, <3>1, KeptCut
    <2>6. AgedBy(H!cut(Append(p, e)), hCaller', born')
      <3>1. AgedBy(p, hCaller, born)
        BY <1>0, <2>1, AgedPrune DEF BuffersAged
      <3>2. AgedBy(Append(p, e), hCaller', born')
        BY <2>0, <2>1, <2>4, <3>1, AgedAppend
      <3>3. Append(p, e) \in Seq(HistEntry)
        BY <2>2, <2>4
      <3> QED
        BY <3>2, <3>3, AgedCut
    <2>7. /\ byKey'[k] = H!cut(Append(p, e)) /\ added'[k] = Append(added[k], e)
          /\ \A l \in Keys : l # k => byKey'[l] = byKey[l] /\ added'[l] = added[l]
      BY <2>0, <2>1
    <2> HIDE DEF p, e
    <2>8. HistType'
      <3>1. H!cut(Append(p, e)) \in Seq(HistEntry) /\ Append(added[k], e) \in Seq(HistEntry)
        BY <2>5 DEF Kept
      <3> QED
        BY <1>0, <2>0, <2>1, <3>1 DEF HistType
    <2>9. ReadingsOfPast'
      BY <1>0, <2>0, <2>1 DEF ReadingsOfPast
    <2>10. BuffersKept'
      <3> SUFFICES ASSUME NEW l \in Keys PROVE Kept(byKey[l], added[l])' /\ Len(byKey'[l]) <= size
        BY DEF BuffersKept
      <3>1. ASSUME Kept(byKey'[l], added'[l]) PROVE Kept(byKey[l], added[l])'
        BY <2>0, <3>1 DEF Kept
      <3> QED
        BY <1>0, <2>5, <2>7, <3>1 DEF BuffersKept
    <2>11. \A x \in Msgs : hCaller[x] = "done" => hCaller'[x] = "done" /\ born'[x] = born[x]
      BY <2>0, <2>1
    <2>12. BuffersAged'
      <3> SUFFICES ASSUME NEW l \in Keys PROVE AgedBy(byKey'[l], hCaller', born')
        BY DEF BuffersAged, AgedBy
      <3>1. CASE l = k
        BY <2>6, <2>7, <3>1
      <3>2. CASE l # k
        <4>1. AgedBy(byKey[l], hCaller, born) /\ byKey'[l] = byKey[l]
          BY <1>0, <2>7, <3>2 DEF BuffersAged
        <4>2. \A i \in 1..Len(byKey[l]) : byKey[l][i].m \in Msgs
          <5>1. \A i \in 1..Len(byKey[l]) : byKey[l][i] \in HistEntry
            BY <2>1
          <5> QED
            BY <5>1 DEF HistEntry
        <4>3. \A i \in 1..Len(byKey[l]) : \A j \in i..Len(byKey[l]) : j \in 1..Len(byKey[l])
          BY <2>1
        <4> QED
          BY <2>11, <4>1, <4>2, <4>3 DEF AgedBy
      <3> QED
        BY <3>1, <3>2
    <2>13. AnswersYoung'
      <3>1. \A r \in Readers : hCaller'[r] = hCaller[r]
        BY <1>c, <2>0, <2>1
      <3>2. \A r \in Readers : \A j \in 1..Len(out[r]) : out[r][j] \in Msgs
        BY <1>0 DEF HistType
      <3> QED
        BY <1>0, <2>0, <2>11, <3>1, <3>2 DEF AnswersYoung
    <2> QED
      BY <2>8, <2>9, <2>10, <2>12, <2>13 DEF HistInv
  (* Pruning buffers, all of them or some. *)
  <1>4. ASSUME UNCHANGED <<clock, hNow, added, born>>, HistType', AnswersYoung',
               \A x \in Msgs : hCaller'[x] = hCaller[x],
               \A k \in Keys : \/ byKey'[k] = byKey[k]
                               \/ \E n \in Nat : n <= clock /\ byKey'[k] = H!prune(byKey[k], n)
        PROVE  HistInv'
    <2>1. ReadingsOfPast'
      BY <1>0, <1>4 DEF ReadingsOfPast
    <2>2. ASSUME NEW k \in Keys
          PROVE  Kept(byKey'[k], added[k]) /\ Len(byKey'[k]) <= size /\ AgedBy(byKey'[k], hCaller, born)
      <3>1. /\ Kept(byKey[k], added[k]) /\ Len(byKey[k]) <= size /\ AgedBy(byKey[k], hCaller, born)
            /\ byKey[k] \in Seq(HistEntry) /\ clock \in Nat /\ born \in [Msgs -> Nat]
        BY <1>0 DEF BuffersKept, BuffersAged, HistType
      <3>2. ASSUME NEW n \in Nat, n <= clock, byKey'[k] = H!prune(byKey[k], n)
            PROVE  /\ Kept(byKey'[k], added[k]) /\ Len(byKey'[k]) <= size
                   /\ AgedBy(byKey'[k], hCaller, born)
        <4>1. Kept(byKey'[k], added[k]) /\ Len(byKey'[k]) <= Len(byKey[k])
          BY <3>1, <3>2, KeptPrune
        <4>2. AgedBy(byKey'[k], hCaller, born)
          BY <3>1, <3>2, AgedPrune
        <4>3. Len(byKey'[k]) \in Nat /\ Len(byKey[k]) \in Nat
          BY <3>1, <4>1 DEF Kept
        <4> QED
          BY <1>c, <3>1, <4>1, <4>2, <4>3
      <3> QED
        BY <1>4, <3>1, <3>2
    <2>3. BuffersKept'
      <3> SUFFICES ASSUME NEW l \in Keys PROVE Kept(byKey[l], added[l])' /\ Len(byKey'[l]) <= size
        BY DEF BuffersKept
      <3>1. Kept(byKey'[l], added[l]) /\ Len(byKey'[l]) <= size
        BY <2>2
      <3> QED
        BY <1>4, <3>1 DEF Kept
    <2>4. BuffersAged'
      <3> SUFFICES ASSUME NEW l \in Keys PROVE AgedBy(byKey'[l], hCaller', born')
        BY DEF BuffersAged, AgedBy
      <3>1. AgedBy(byKey'[l], hCaller, born)
        BY <2>2
      <3>2. \A i \in 1..Len(byKey'[l]) : byKey'[l][i].m \in Msgs
        <4>1. byKey'[l] \in Seq(HistEntry)
          BY <2>2 DEF Kept
        <4>2. \A i \in 1..Len(byKey'[l]) : byKey'[l][i] \in HistEntry
          BY <4>1
        <4> QED
          BY <4>2 DEF HistEntry
      <3> QED
        BY <1>4, <3>1, <3>2 DEF AgedBy
    <2> QED
      BY <1>4, <2>1, <2>3, <2>4 DEF HistInv
  <1>5. ASSUME NEW k \in Keys, NEW r \in Readers, H!get(k, r) PROVE HistInv'
    <2> DEFINE p == H!prune(byKey[k], hNow[r])
    <2>0. /\ hCaller[r] = "read" /\ hCaller' = [hCaller EXCEPT ![r] = "done"]
          /\ byKey' = [byKey EXCEPT ![k] = p]
          /\ out' = [out EXCEPT ![r] = [j \in 1..Len(p) |-> p[j].m]]
          /\ UNCHANGED <<clock, hNow, added, born>>
      BY <1>5 DEF H!get, H!toReturn
    <2>1. /\ clock \in Nat /\ hNow[r] \in Nat /\ hNow[r] <= clock
          /\ byKey \in [Keys -> Seq(HistEntry)] /\ out \in [Readers -> Seq(Msgs)]
          /\ hCaller \in [H!Callers -> {"idle", "read", "done"}] /\ born \in [Msgs -> Nat]
      BY <1>0, <1>c DEF HistType, ReadingsOfPast
    <2>2. /\ AgedBy(p, hCaller, born)
          /\ ttl > 0 => \A j \in 1..Len(p) : born[p[j].m] >= hNow[r] - ttl
      BY <1>0, <2>1, AgedPrune DEF BuffersAged
    <2>3. p \in Seq(HistEntry)
      <3>1. Kept(p, added[k])
        BY <1>0, <2>1, KeptPrune DEF BuffersKept
      <3> QED
        BY <3>1 DEF Kept
    <2>4. \A l \in Keys : \/ byKey'[l] = byKey[l]
                          \/ \E n \in Nat : n <= clock /\ byKey'[l] = H!prune(byKey[l], n)
      BY <2>0, <2>1
    <2> HIDE DEF p
    <2>5. Len(p) \in Nat /\ \A j \in 1..Len(p) : p[j].m \in Msgs
      <3>1. Len(p) \in Nat /\ \A j \in 1..Len(p) : p[j] \in HistEntry
        BY <2>3
      <3> QED
        BY <3>1 DEF HistEntry
    <2>6. PICK o : o = [j \in 1..Len(p) |-> p[j].m]
      OBVIOUS
    <2>7. /\ o \in Seq(Msgs) /\ Len(o) = Len(p) /\ \A j \in 1..Len(p) : o[j] = p[j].m
      BY <2>5, <2>6
    <2>8. /\ out' \in [Readers -> Seq(Msgs)] /\ out'[r] = o
          /\ \A q \in Readers : q # r => out'[q] = out[q]
      BY <2>0, <2>1, <2>6, <2>7
    <2>9. HistType'
      <3>1. byKey' \in [Keys -> Seq(HistEntry)]
        BY <2>0, <2>1, <2>3
      <3>2. hCaller' \in [H!Callers -> {"idle", "read", "done"}]
        BY <2>0, <2>1
      <3> QED
        BY <1>0, <2>0, <2>8, <3>1, <3>2 DEF HistType
    <2>10. \A x \in H!Callers : x # r => hCaller'[x] = hCaller[x]
      BY <2>0, <2>1
    <2>11. AnswersYoung'
      <3> SUFFICES ASSUME NEW q \in Readers
                   PROVE  /\ hCaller'[q] # "done" => out'[q] = << >>
                          /\ \A j \in 1..Len(out'[q]) :
                               /\ hCaller'[out'[q][j]] = "done"
                               /\ ttl > 0 => born[out'[q][j]] >= hNow[q] - ttl
        BY <2>0 DEF AnswersYoung
      <3>1. CASE q = r
        <4>1. hCaller'[r] = "done"
          BY <1>c, <2>0, <2>1
        <4>2. \A j \in 1..Len(p) : hCaller[p[j].m] = "done" /\ p[j].m # r
          BY <1>c, <2>2, <2>5 DEF AgedBy
        <4>3. \A j \in 1..Len(p) : hCaller'[p[j].m] = "done"
          BY <1>c, <2>5, <2>10, <4>2
        <4> QED
          BY <2>2, <2>7, <2>8, <3>1, <4>1, <4>3
      <3>2. CASE q # r
        <4>1. \A j \in 1..Len(out[q]) : out[q][j] \in H!Callers /\ out[q][j] # r
          BY <1>c, <2>1
        <4>2. out'[q] = out[q] /\ hCaller'[q] = hCaller[q]
          BY <1>c, <2>8, <2>10, <3>2
        <4> QED
          BY <1>0, <2>10, <4>1, <4>2 DEF AnswersYoung
      <3> QED
        BY <3>1, <3>2
    <2>12. \A x \in Msgs : hCaller'[x] = hCaller[x]
      BY <1>c, <2>10
    <2> QED
      BY <1>4, <2>0, <2>4, <2>9, <2>11, <2>12
  <1>6. CASE H!purge
    <2>0. /\ hCaller' = [hCaller EXCEPT ![Purger] = "idle"]
          /\ byKey' = [k \in Keys |-> H!prune(byKey[k], hNow[Purger])]
          /\ UNCHANGED <<clock, hNow, out, added, born>>
      BY <1>6 DEF H!purge
    <2>1. hNow[Purger] \in Nat /\ hNow[Purger] <= clock /\ clock \in Nat
      BY <1>0, <1>c DEF HistType, ReadingsOfPast
    <2>2. \A x \in Msgs \cup Readers : hCaller'[x] = hCaller[x]
      BY <1>0, <1>c, <2>0 DEF HistType
    <2>3. HistType'
      <3>1. \A k \in Keys : H!prune(byKey[k], hNow[Purger]) \in Seq(HistEntry)
        <4>1. ASSUME NEW k \in Keys PROVE Kept(H!prune(byKey[k], hNow[Purger]), added[k])
          BY <1>0, <2>1, KeptPrune DEF BuffersKept
        <4> QED
          BY <4>1 DEF Kept
      <3>2. byKey' \in [Keys -> Seq(HistEntry)]
        BY <2>0, <3>1
      <3>3. hCaller' \in [H!Callers -> {"idle", "read", "done"}]
        BY <1>0, <2>0 DEF HistType
      <3> QED
        BY <1>0, <2>0, <3>2, <3>3 DEF HistType
    <2>4. AnswersYoung'
      <3>1. \A r \in Readers : \A j \in 1..Len(out[r]) : out[r][j] \in Msgs
        BY <1>0 DEF HistType
      <3> QED
        BY <1>0, <2>0, <2>2, <3>1 DEF AnswersYoung
    <2> QED
      BY <1>4, <2>0, <2>1, <2>2, <2>3, <2>4
  <1>7. CASE UNCHANGED H!vars
    <2>1. UNCHANGED <<clock, hCaller, hNow, byKey, out, added, born>>
      BY <1>7 DEF H!vars
    <2>2. HistType' /\ AnswersYoung'
      BY <1>0, <2>1 DEF HistType, AnswersYoung
    <2> QED
      BY <1>4, <2>1, <2>2
  <1> QED
    BY <1>1, <1>2, <1>3, <1>5, <1>6, <1>7 DEF H!Next

(* What is kept of a key are its newest entries without gaps, and none of  *)
(* them goes before its time: for every number of keys, messages and       *)
(* readers, every size and TTL, and however the callers overtake another.  *)
THEOREM NewestKept == H!Spec => []KeepsNewest
  <1>1. HistInv => KeepsNewest
    <2> SUFFICES ASSUME HistInv, NEW k \in Keys
                 PROVE  /\ H!IsSuffix(byKey[k], added[k]) /\ Len(byKey[k]) <= size
                        /\ \A j \in 1..Len(added[k]) :
                             j > Len(added[k]) - size /\ (ttl = 0 \/ added[k][j].at >= clock - ttl)
                               => Len(byKey[k]) > Len(added[k]) - j
      BY DEF KeepsNewest, H!KeepsNewest
    <2>1. Kept(byKey[k], added[k]) /\ Len(byKey[k]) <= size /\ clock \in Nat
      BY DEF HistInv, BuffersKept, HistType
    <2>2. H!IsSuffix(byKey[k], added[k])
      BY <2>1, SuffixIs DEF Kept
    <2>3. ASSUME NEW j \in 1..Len(added[k]), j > Len(added[k]) - size,
                 ttl = 0 \/ added[k][j].at >= clock - ttl
          PROVE  Len(byKey[k]) > Len(added[k]) - j
      <3>1. /\ added[k] \in Seq(HistEntry) /\ Len(added[k]) \in Nat /\ Len(byKey[k]) \in Nat
            /\ size \in Nat /\ ttl \in Nat
        BY <2>1 DEF Kept, H!HistoryAssumption
      <3>2. added[k][j] \in HistEntry
        BY <3>1
      <3>3. added[k][j].at \in Nat
        BY <3>2 DEF HistEntry
      <3>4. ASSUME j \in 1 .. Len(added[k]) - Len(byKey[k]) PROVE FALSE
        <4>1. j <= Len(added[k]) - size \/ (ttl > 0 /\ added[k][j].at < clock - ttl)
          BY <2>1, <3>4 DEF Kept
        <4> QED
          BY <2>1, <2>3, <3>1, <3>3, <4>1
      <3> QED
        BY <3>1, <3>4
    <2> QED
      BY <2>1, <2>2, <2>3
  <1> QED
    BY <1>1, HistInit, HistStep, PTL DEF H!Spec

(* No request is answered with a message that was added more than the TTL  *)
(* before it, although prune looks at the first entries only and entries   *)
(* are not in the order of their times.                                    *)
THEOREM AnswersCorrect == H!Spec => []NothingOldReturned
  <1>1. HistInv => NothingOldReturned
    BY DEF HistInv, AnswersYoung, NothingOldReturned, H!NothingOldReturned
  <1> QED
    BY <1>1, HistInit, HistStep, PTL DEF H!Spec

=============================================================================
