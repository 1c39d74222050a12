---------------------------- MODULE RateLimiter ----------------------------
(***************************************************************************)
(* The token-bucket limiter (ratelimit.go) that every API request and      *)
(* websocket handshake passes.  Allow reads the clock before it takes      *)
(* rl.mu, so requests may be applied in another order than that of their   *)
(* readings.                                                               *)
(*                                                                         *)
(* The unit of tokens is what one tick of the clock adds, so that a        *)
(* request costs Cost = 1 / rate units and the arithmetic is on integers.  *)
(***************************************************************************)
EXTENDS Integers, FiniteSets

CONSTANTS
  IPs,       \* client addresses, the keys of the buckets
  Requests,  \* calls of Allow
  Burst,     \* bucket capacity
  Cost,      \* what one request takes
  purgeEvr,  \* every so many calls the idle buckets are purged
  MaxTime,   \* bound on the clock
  Since      \* the instant from which SpendBound counts

(* newRateLimiter raises the burst to one request at least. *)
ASSUME RateLimiterAssumption ==
  /\ Cost \in Nat /\ Cost > 0
  /\ Burst \in Nat /\ Burst >= Cost
  /\ purgeEvr \in Nat /\ purgeEvr > 0
  /\ MaxTime \in Nat /\ Since \in Nat

VARIABLES
  clock,
  caller,    \* caller[r]: "idle", "read" between the clock and the lock, "done"
  ip,        \* ip[r]: the bucket request r is for
  now,       \* now[r]: its reading of the clock
  ops,       \* calls so far
  buckets,   \* addresses that have a bucket
  tokens,    \* tokens[a], last[a]: the bucket of address a
  last,
  (* history, read by no action *)
  spent,     \* spent[a]: taken by requests that read the clock at Since or later
  purgedAt,  \* purgedAt[a]: the reading with which a's bucket was last purged
  overtaken  \* overtaken[a]: by how much purges overtook requests of a

requestVars == <<caller, ip, now>>
bucketVars == <<ops, buckets, tokens, last>>
historyVars == <<spent, purgedAt, overtaken>>
vars == <<clock, requestVars, bucketVars, historyVars>>

RateLimiterTypeOK ==
  /\ clock \in 0..MaxTime
  /\ caller \in [Requests -> {"idle", "read", "done"}]
  /\ ip \in [Requests -> IPs]
  /\ now \in [Requests -> 0..MaxTime]
  /\ ops \in Nat
  /\ buckets \in SUBSET IPs
  /\ tokens \in [IPs -> Int]
  /\ last \in [IPs -> 0..MaxTime]
  /\ spent \in [IPs -> Nat]
  /\ purgedAt \in [IPs -> 0..MaxTime]
  /\ overtaken \in [IPs -> Nat]

Init ==
  /\ clock = 0
  /\ caller = [r \in Requests |-> "idle"]
  /\ ip \in [Requests -> IPs]
  /\ now = [r \in Requests |-> 0]
  /\ ops = 0
  /\ buckets = {}
  /\ tokens = [a \in IPs |-> 0]
  /\ last = [a \in IPs |-> 0]
  /\ spent = [a \in IPs |-> 0]
  /\ purgedAt = [a \in IPs |-> 0]
  /\ overtaken = [a \in IPs |-> 0]

-----------------------------------------------------------------------------
Tick ==
  /\ clock < MaxTime
  /\ clock' = clock + 1
  /\ UNCHANGED <<requestVars, bucketVars, historyVars>>

ReadClock(r) ==
  /\ caller[r] = "idle"
  /\ caller' = [caller EXCEPT ![r] = "read"]
  /\ now' = [now EXCEPT ![r] = clock]
  /\ UNCHANGED <<clock, ip, bucketVars, historyVars>>

(* Mutant: the refill is not cut at the capacity. *)
refillUncapped(a, t) == tokens[a] + (t - last[a])

refill(a, t) ==
  LET sum == tokens[a] + (t - last[a])
  IN  IF sum > Burst THEN Burst ELSE sum

(* Mutant: a bucket is dropped although it has not refilled. *)
purgeUnfilled(t) == {a \in buckets : tokens[a] >= Cost}

(* The buckets that purge drops: the ones that have fully refilled. *)
purge(t) == {a \in buckets : tokens[a] + (t - last[a]) >= Burst}

(* The critical section of Allow for a request of address a. *)
Allow(r) ==
  LET a == ip[r]
      t == now[r]
      purged == IF (ops + 1) % purgeEvr = 0 THEN purge(t) ELSE {}
      fresh == a \notin buckets \/ a \in purged
      have == IF fresh THEN Burst ELSE refill(a, t)
      take == IF have >= Cost THEN Cost ELSE 0
      at == IF a \in purged THEN t ELSE purgedAt[a]
  IN  /\ caller[r] = "read"
      /\ caller' = [caller EXCEPT ![r] = "done"]
      /\ ops' = ops + 1
      /\ buckets' = (buckets \ purged) \cup {a}
      /\ tokens' = [tokens EXCEPT ![a] = have - take]
      /\ last' = [last EXCEPT ![a] = t]
      /\ spent' = [spent EXCEPT ![a] = IF t >= Since THEN @ + take ELSE @]
      /\ purgedAt' = [b \in IPs |-> IF b \in purged THEN t ELSE purgedAt[b]]
      /\ overtaken' = [overtaken EXCEPT ![a] = IF fresh /\ at > t THEN @ + (at - t) ELSE @]
      /\ UNCHANGED <<clock, ip, now>>

Next == Tick \/ \E r \in Requests : ReadClock(r) \/ Allow(r)

Spec == Init /\ [][Next]_vars

-----------------------------------------------------------------------------
(* What README and config.go promise of --rate-limit and --rate-burst: in  *)
(* any window that begins at Since, an address is allowed the burst and    *)
(* what the rate adds in the window, in whatever order the requests get    *)
(* the lock.  Purging costs exactly the time by which purges overtook      *)
(* requests of that address that had already read the clock.               *)
Elapsed == IF clock > Since THEN clock - Since ELSE 0

SpendBound == \A a \in IPs : spent[a] <= Burst + Elapsed + overtaken[a]

(* Why it holds: what was spent and what is left in a bucket never exceed  *)
(* the burst and what was added up to the bucket's last reading; for a     *)
(* purged bucket the reading of the purge takes its place.                 *)
BucketAccount ==
  \A a \in IPs :
    spent[a] > 0 =>
      IF a \in buckets
      THEN spent[a] + tokens[a] <= Burst + (last[a] - Since) + overtaken[a]
      ELSE spent[a] <= (purgedAt[a] - Since) + overtaken[a]
=============================================================================
