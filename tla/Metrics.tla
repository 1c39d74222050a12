------------------------------ MODULE Metrics ------------------------------
(***************************************************************************)
(* The goctopus_keys gauge (metrics.go): a scrape of /metrics returns the  *)
(* cached number of keys or, under keysMu, asks the storage for it, which  *)
(* takes time and may fail.  Scrapes arrive concurrently while keys come   *)
(* and go.                                                                 *)
(***************************************************************************)
EXTENDS Integers, FiniteSets

CONSTANTS
  Scrapes,
  Keys,
  Repeats,    \* how often a SCAN of Redis returns a key, at most; memory: once
  CacheTTL,   \* ten seconds in the code
  ScanTime,   \* what GetKeys takes at most
  MaxTime,    \* bound on the clock
  Null

MetricsAssumption ==
  /\ CacheTTL \in Nat /\ ScanTime \in Nat /\ MaxTime \in Nat
  /\ IsFiniteSet(Keys)
  /\ Repeats \in Nat /\ Repeats > 0
  /\ Null \notin Scrapes

Never == -1

VARIABLES
  clock,
  stored,   \* keys that have messages
  pc,       \* pc[s]: "idle", "lock", "scan", "scanned", "done"
  keysMu,   \* the scrape that holds the mutex, or Null
  keysVal, keysAt,
  cursor,   \* keys that the last GetKeys has not come to
  found,    \* what it returned: <<k, n>> is one occurrence of key k in it
  result,   \* result[s]: what the scrape returned
  scanAt,   \* when the last call of GetKeys began
  (* history, read by no action *)
  changed,  \* changed[k]: the last instant at which key k came or went
  failed    \* whether the last call of GetKeys failed

storeVars == <<stored, changed>>
scrapeVars == <<pc, keysMu, result>>
cacheVars == <<keysVal, keysAt>>
scanVars == <<cursor, found, scanAt>>
vars == <<clock, storeVars, scrapeVars, cacheVars, scanVars, failed>>

Init ==
  /\ clock = 0
  /\ stored \in SUBSET Keys
  /\ pc = [s \in Scrapes |-> "idle"]
  /\ keysMu = Null
  /\ keysVal = 0 /\ keysAt = Never
  /\ cursor = {} /\ found = {}
  /\ result = [s \in Scrapes |-> Never]
  /\ scanAt = Never
  /\ changed = [k \in Keys |-> Never]
  /\ failed = FALSE

-----------------------------------------------------------------------------
Tick ==
  /\ clock < MaxTime
  /\ \A s \in Scrapes : pc[s] \in {"scan", "scanned"} => clock < scanAt + ScanTime
  /\ clock' = clock + 1
  /\ UNCHANGED <<storeVars, scrapeVars, cacheVars, scanVars, failed>>

(* The first message of a key is queued, or its last one goes. *)
Appear(k) ==
  /\ k \notin stored
  /\ stored' = stored \cup {k}
  /\ changed' = [changed EXCEPT ![k] = clock]
  /\ UNCHANGED <<clock, scrapeVars, cacheVars, scanVars, failed>>

Disappear(k) ==
  /\ k \in stored
  /\ stored' = stored \ {k}
  /\ changed' = [changed EXCEPT ![k] = clock]
  /\ UNCHANGED <<clock, scrapeVars, cacheVars, scanVars, failed>>

handleMetrics(s) ==
  /\ pc[s] = "idle"
  /\ pc' = [pc EXCEPT ![s] = "lock"]
  /\ UNCHANGED <<clock, storeVars, keysMu, result, cacheVars, scanVars, failed>>

(* Mutant: a value once read is never read again. *)
cachedForever == keysAt # Never

cached == keysAt # Never /\ clock - keysAt < CacheTTL

Return(s, v) ==
  /\ result' = [result EXCEPT ![s] = v]
  /\ pc' = [pc EXCEPT ![s] = "done"]

UseCached(s) ==
  /\ pc[s] = "lock" /\ keysMu = Null /\ cached
  /\ Return(s, keysVal)
  /\ UNCHANGED <<clock, storeVars, keysMu, cacheVars, scanVars, failed>>

(* The mutex is held, and the storage asked. *)
Scan(s) ==
  /\ pc[s] = "lock" /\ keysMu = Null /\ ~cached
  /\ keysMu' = s
  /\ pc' = [pc EXCEPT ![s] = "scan"]
  /\ cursor' = Keys /\ found' = {} /\ scanAt' = clock
  /\ UNCHANGED <<clock, storeVars, result, cacheVars, failed>>

(* GetKeys: a SCAN in batches, which appends what each one returns.  Redis *)
(* promises no more than that a key which stays is returned: one that the  *)
(* cursor has passed may be returned again, and is counted again.  Memory  *)
(* is one batch.                                                           *)
GetKeys(s, batch, again) ==
  /\ pc[s] = "scan" /\ batch # {} /\ batch \subseteq cursor
  /\ again \subseteq stored \X (2..Repeats)
  /\ found' = found \cup ((batch \cap stored) \X {1}) \cup again
  /\ cursor' = cursor \ batch
  /\ pc' = [pc EXCEPT ![s] = IF batch = cursor THEN "scanned" ELSE "scan"]
  /\ UNCHANGED <<clock, storeVars, keysMu, result, cacheVars, scanAt, failed>>

(* Mutant: the time is noted only when there was no error. *)
readAtSuccess(err) == IF err THEN keysAt ELSE clock

readAt(err) == clock

(* A batch may fail, and GetKeys with it. *)
GotKeys(s, err) ==
  /\ pc[s] = "scanned" \/ (err /\ pc[s] = "scan")
  /\ keysMu' = Null
  /\ keysVal' = IF err THEN keysVal ELSE Cardinality(found)
  /\ keysAt' = readAt(err)
  /\ failed' = err
  /\ Return(s, keysVal')
  /\ UNCHANGED <<clock, storeVars, scanVars>>

Next ==
  \/ Tick
  \/ \E k \in Keys : Appear(k) \/ Disappear(k)
  \/ \E s \in Scrapes :
       \/ handleMetrics(s) \/ UseCached(s) \/ Scan(s)
       \/ \E batch \in SUBSET Keys, again \in SUBSET (Keys \X (2..Repeats)) :
            GetKeys(s, batch, again)
       \/ \E err \in BOOLEAN : GotKeys(s, err)

Spec == Init /\ [][Next]_vars

-----------------------------------------------------------------------------
(* "Cache it with a short TTL so frequent scrapes can't turn /metrics into *)
(* a SCAN-amplification load on the backend": however scrapes overlap, and *)
(* also while the storage fails, GetKeys is called once per TTL at most.   *)
ScansSpaced ==
  [][scanAt' # scanAt /\ scanAt # Never => scanAt' >= scanAt + CacheTTL]_vars

(* Keys that have been there since before instant t, and keys that were    *)
(* there at some time since.                                               *)
AllAlong(t) == {k \in stored : changed[k] < t}
Lately(t) == stored \cup {k \in Keys : changed[k] # Never /\ changed[k] >= t}

(* "Current number of keys with queued messages": no number that was ever  *)
(* right, since keys come and go during a SCAN.  But unless the last call  *)
(* of GetKeys failed, a scrape counts every key that was there throughout  *)
(* the last TTL and duration of a call, and counts none that was not there *)
(* at any time of it, nor one more often than the SCAN repeats it.         *)
KeysGaugeRecent ==
  [][\A s \in Scrapes :
       LET t == clock - (CacheTTL + ScanTime)
       IN  pc[s] # "done" /\ pc'[s] = "done" /\ ~failed' =>
             /\ Cardinality(AllAlong(t)) <= result'[s]
             /\ result'[s] <= Cardinality(Lately(t)) * Repeats]_vars
=============================================================================
