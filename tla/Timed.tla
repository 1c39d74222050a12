------------------------------- MODULE Timed -------------------------------
(***************************************************************************)
(* The components that keep state for a while: the rate limiter's buckets, *)
(* the history, the authorizer's cache and the keys gauge.  They share the *)
(* clock and nothing else.                                                 *)
(***************************************************************************)
EXTENDS RateLimiter

CONSTANTS
  Keys, Msgs, Readers, Purger, size, ttl,
  Subjects, Bare, Handshakes, Topics, cacheTTL, AuthTimeout, evictEvr,
  Scrapes, GaugeKeys, Repeats, CacheTTL, ScanTime, GaugeTime,
  Null

VARIABLES
  hCaller, hNow, byKey, out, added, born,
  truth, subject, state, askedAt, granted, cache, puts, lastRight,
  stored, changed, pc, keysMu, keysVal, keysAt, cursor, found, result, scanAt, failed

H == INSTANCE History WITH caller <- hCaller, now <- hNow
A == INSTANCE AuthCache WITH keys <- granted, until <- lastRight
G == INSTANCE Metrics WITH Keys <- GaugeKeys, MaxTime <- GaugeTime

ASSUME TimedHistory == H!HistoryAssumption
ASSUME TimedCache == A!AuthCacheAssumption
ASSUME TimedGauge == G!MetricsAssumption

(* history.go: the newest entries of a key are kept while they are young.  *)
KeepsNewest == H!KeepsNewest

(* history.go: nothing added more than a TTL before a request is returned. *)
NothingOldReturned == H!NothingOldReturned

(* proxy_authorizer.go: a grant was right within the cache's TTL and the   *)
(* timeout of a call.                                                      *)
GrantIsRecent == A!GrantIsRecent

(* metrics.go: GetKeys is called once per TTL at most. *)
ScansSpaced == G!ScansSpaced

(* metrics.go: the gauge counts the keys of a TTL and a call of GetKeys.    *)
KeysGaugeRecent == G!KeysGaugeRecent
=============================================================================
