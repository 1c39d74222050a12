# Goctopus: TLA+ models, model checking and proofs

Goctopus accepts messages from backends over HTTP and pushes them to websocket
clients. This directory models it at the granularity of its critical sections,
one module per component, checks the modules with TLC on small instances, and
proves with TLAPS, for instances of any size, every safety property that the
passing runs check, the two refinements included.

## The system

| Component (source) | State | Operations | Interacts with |
|---|---|---|---|
| Delivery engine (`engine.go`, `server.go`) | `Conns`, `patterns` (under `g.mu`), 256 send locks, work queue | `handlePost`, `handleWs`, `sendMessages`, `reconcileLoop`, `sweepExpired`, `handleDelete`, `Stop` | storage, connections, worker pool |
| Connection (`client.go`) | `closed`, `inflight` (under `imu`), write lock | `markInflight`, `takeInflight`, `clearInflight`, `close`, `readLoop`, `pingLoop`, `removeClient` | engine (both ways), storage on ACK |
| Storage (`storage.go`, `memory_storage.go`, `redis_storage.go`) | messages by key and id | `AddMessage` (upsert), `GetQueue`, `DeleteMessage`, `DeleteQueue`, `GetKeys`, `Notify`, `Subscribe` | engine; other instances through Redis |
| Messages and topics (`message.go`, `topics.go`) | id, keys, expiry | `unmarshal`, `targets`, `isExpired`, `keyMatches` | all of the above |
| Worker pool and shutdown (`engine.go`, `main.go`) | bounded channel of tasks | `schedule`, `worker`, `Stop` | every handler |
| Rate limiter (`ratelimit.go`) | token bucket per IP | `Allow`, `purge` | handshakes, requests |
| History (`history.go`) | bounded buffer per key | `add`, `get`, `purge` | publish task, sweeper |
| Authorizer (`proxy_authorizer.go`) | cache of answers | `Authorize`, `cacheGet`, `cachePut` | handshakes |
| Front end, metrics (`server.go`, `metrics.go`) | counters | routing, credentials, gauges | registry, storage |
| Client SDKs (`clients/`) | ids seen, backoff | `Run`, `session`, `markSeen` | the wire protocol |

What is hard in it: no lock is held from the registration of a connection or
the queueing of a message to its delivery. A flush (`sendMessages`) takes the
send lock of its key, copies the registry under `g.mu`, copies the queue, and
then sends for as long as clients take, while connections come, fail and leave,
messages are acknowledged, expire, are deleted or are replaced under the same
id. Flushes are started by publishing, by connecting and by the reconciler.
`PROJECT.json` lists each of these hazards at its line.

What makes each component correct:

* engine: no message is left waiting with nobody to send it; flushes end; a
  message is removed only when delivered or expired;
* connection: at most one unacknowledged copy of an id; a closed connection is
  unregistered; frames do not mix, writers end, a live peer is not cut off;
* registry: exact under races, and a message reaches subscribers only;
* storage: every operation is atomic, and a result is the queue of one instant
  that no later operation changes; the TTL of a key is a backstop only;
* several instances: a message published to one reaches clients of the other;
* worker pool: a task is run once; workers drain the queue and leave;
* rate limiter: burst plus rate bounds what an address may spend in any window;
* history: the newest entries, kept while they are young and not returned
  after they are old;
* authorizer: a grant was right for that subject not long ago;
* front end: no effect without the checks meant for it;
* clients: duplicates are dropped, nothing is dropped that was not handled,
  and delays follow the failures.

## Modules

* **`Storage`**: what the engine relies on. `store[k][i]` is the message with id
  `i` queued under `k`. Each operation is one step because both backends
  synchronise themselves. A queue is a set: the interface promises no order.
* **`Connections`** (extends `Storage`): the registry and the part of `client`
  that `imu` guards. Every operator is one critical section. A `Clients` value
  is one websocket connection, so a reconnecting client is another value.
  `path.Match` is a constant relation `Match` between patterns and keys.
* **`Delivery`** (extends `Connections`): one instance in its default
  configuration. A task is named by what started it: a message (the task of
  `handlePost`), a connection (the task of `handleWs`) or `Reconciler`.
* **`AtomicStorage`** (extends `Storage`): the abstract specification of a
  backend: `Storage` as a state machine with the results its callers keep.
* **`MemoryStorage`**: the memory backend with its slices and backing arrays.
  A slice is an array and a length; `append` writes in place or moves to a new
  array, `DeleteMessage` closes the gap in place, `GetQueue` copies. Arrays
  that nothing refers to are reused (`Collect`).
* **`RedisStorage`**: the Redis backend. A command or a MULTI/EXEC pipeline is
  a step; `GetQueue` (HGETALL, then HDEL of every undecodable field) and
  `GetKeys` (SCAN in batches) are several. A key whose TTL is over is removed
  by `ExpireKey` before time goes on.
* **`Cluster`** (extends `Storage`): several instances over one Redis, with
  notifications, reconcilers, crashes and restarts, lost notifications and
  storage errors. It has the steps of a flush that other instances can come
  between (registry, queue, each write); `Delivery` has them all. `missed` is
  history: the keys for which an instance missed the last wake-up.
* **`WorkerPool`**: the tasks of requests, the bounded channel, the overflow
  goroutines, panics, the workers, `srv.Shutdown`, `Stop` and the exit.
* **`RateLimiter`**: token buckets. `Allow` reads the clock before it takes the
  lock, so it is two steps. Tokens are counted in units of what one tick adds,
  so that the floats of the code become integers.
* **`History`**: the buffers of recent messages, with the same split between
  the clock and the lock.
* **`AuthCache`**: the proxy authorizer: cache, calls of the auth backend,
  their timeout, eviction. `truth` is what the backend would answer now, and
  may change at any moment.
* **`FrontEnd`**: routing, limiter, Basic Auth, origin, authorizer and the
  status of every handler. A request is a record of what the checks look at,
  the list it sends as `X-Forwarded-For` included; `config` is the part of the
  configuration that they depend on, and the reverse proxy with what it does to
  the headers (overwrite, append, `X-Real-IP`).
* **`Metrics`**: the cached number of keys behind `goctopus_keys`. `GetKeys` is
  the SCAN of the Redis backend: batches between which keys come and go, and
  which may repeat keys that the code counts again.
* **`Wire`**: the frames of one connection: the write lock, write and read
  deadlines, pings and pongs. A write is two halves, so that it can stop in
  the middle. Deadlines are the time left to them. A responsive peer takes up
  to `FrameTime` for a frame, so that writers wait for one another; `ahead` are
  those that a starving ping has before it in the line for `wmu`.
* **`ClientSDK`**: the Go, JavaScript and Python clients against the server's
  side of the protocol. `lang` picks the code a behaviour follows where the
  three differ: what counts as unlimited retries, when a stop is noticed, and
  which sockets it closes. The server forgets an acknowledged message
  (`AckRead`) before it deletes it (`AckDelete`), and may send it in between.
* **`Timed`** and **`Backends`**: components side by side, for `MCTimed` and
  `TimedProofs` (rate limiter, history, authorizer, gauge) and for `MCBackends`
  and `BackendsProofs` (memory and Redis).
* **`MC...`**: constants for TLC; `MCTimed` and `MCBackends` put several
  components into one run. **`...Proofs`**: the proofs, see below.

How they compose: `Delivery` and `Cluster` extend `Storage`, whose operators
are the actions of `AtomicStorage`; `MemoryStorage` and `RedisStorage` are shown
to implement `AtomicStorage` (`MemoryImplementsAtomicStorage`,
`ImplementsAtomicStorage`), so what the engine
relies on is what the backends do. `Delivery` extends `Connections`. The other
modules meet at an interface that each states in its header: a task of
`WorkerPool` is one of `Delivery`'s, the server of `ClientSDK` does what
`Delivery` shows of it, the buckets of `FrontEnd` are those of `RateLimiter`.

How `Delivery` corresponds to the code:

| Code | Model |
|---|---|
| `handlePost`; its task | `handlePost`; `NextTarget` (queue one target), then a flush |
| `handleWs`; its task | `handleWs` (register, start reader); `NextTopic` (resolve a topic), `NextKey`, then a flush |
| `reconcileLoop` | `reconcileTick`, `reconcileResolve`, `NextKey`, then a flush |
| `sendMessages` | `Lock`/`NoConns`, `ReadQueue`/`NoMsgs`, `NextMsg`/`SkipExpired`, `Mark`/`SkipClient`, `WriteOk`/`WriteFail`, `ClearInflight`, `CloseConn`, `EndFlush` |
| `readLoop`, `handleAck`, `removeClient` | `takeInflight`, `AckDelete`, `ReadExit`, `removeClient` |
| `pingLoop` | `PingFail` |
| `sweepExpired`, `sweepKey` | `sweepTick`, `sweepRead`, `sweepMsg` |
| `handleDelete` | `deleteMsgById`, `deleteMsgQueue`, `deleteAll`, `deleteAllNext` |
| time, `isExpired` | `Expire` adds the message to `expired` |

`pc`, `todo`, `keys`, `key`, `conns`, `queue`, `msg`, `left` and `to` are the
locals of a task. Two variables are not in the program: `owed[c][i]` counts the
copies of id `i` written to `c` whose ACK has not been read (the wire and the
client behind it), and `got[c]` remembers what was ever written to `c`.

Abstractions: taking the send lock and reading the registry are one action
(nothing another task does in between depends on the lock being taken earlier);
messages of a queue and connections of a snapshot are served in any order;
requests that are refused, metrics and logs are left out (`FrontEnd`,
`Metrics`); memory storage has no errors and no notifications (`Cluster` has
both); history is off by default (`History`). A client acknowledges a
copy at most once (`clientAcks`); `handleAck` of an id that is not in flight
changes nothing but a counter. Wildcard topics and published keys are disjoint.

How the other modules correspond to the code:

| Code | Model |
|---|---|
| `MemoryStorage` methods | one action each, under `s.mu`; `AddMessage` replaces, appends in place or grows |
| `RedisStorage.AddMessage` | `AddMessage` (HSET and EXPIRE in one transaction), after the `Post` that dates the message |
| `RedisStorage.GetQueue`, `GetKeys` | `HGetAll`, `HDel`; `ScanStart`, `ScanBatch` |
| `Notify`, `Subscribe` | `notify`: every instance that runs gets a flush, but for those that miss it |
| `schedule`, `worker`, `runTask` | `schedule`; `Take`, `SeeDone`, `WorkerExit`; `TaskEnds` (returns or panics), `OverflowEnds` |
| `main` after a signal, `Stop` | `Signal`, `Shutdown` (drained or timed out; the context is cancelled with it), `Stop`, `Exit` |
| `Allow`, `purge` | `ReadClock`, then `Allow` with `refill` and, every `purgeEvr` calls, `purge` |
| `history.add`, `get`, `purge` | `ReadClock`, then the method under `h.mu`, with `prune` and `cut` |
| `Authorize`, `cacheGet`, `cachePut` | a handshake that finds a valid entry or asks; `Return` of the HTTP client with an answer, an error or its timeout |
| `ServeHTTP`, `handleHTTP`, `handleWs`, `handlePost`, `handleDelete`, `clientIP`, `originAllowed` | `handle`: one step per check that others can come between |
| `goctopus_keys` of `newMetrics` | a scrape: `handleMetrics`, `UseCached` or `Scan`, `GetKeys` per batch, `GotKeys` |
| `writeMessage`, `writePing`, `readLoop`, `pingLoop` | `LockWrite`, `WriteHead`, `WriteTail`, `WriteError`, `close`; `writePing`, `readExit` |
| `Run`, `session`, `connect`, `onclose`, `markSeen` of the clients | `DialOk`, `DialFail`, `Receive` (ACK, de-duplicate, handle), `AckFail`, `Drop`, `WaitOver`, `Stop` |

## Runs

Ten runs check what holds, two what does not. Deadlock is not checked where the
system rests when its inputs are used up; the liveness properties state what
must not block. The backends never rest, and TLC checks them for deadlock.

| Run | Instance | Shows |
|---|---|---|
| `wakeup` | `Delivery`: 2 connections on a key or a pattern, 2 keys, 1 message that may expire, sweeper, no reconciler | `NoLostWakeup`, `RegistryConsistent`, `OnlySubscribersGet`, `RemovedOnlyDeliveredOrExpired` |
| `fanout` | `Delivery`: 1 connection on 2 keys with a lock each, 1 message fanned out to both, reconciler, DELETE | `LocksMatchTasks`, `AtMostOneUnacked`, `InflightOwned` |
| `live` | `Delivery`: 1 connection on a key or a pattern, 1 message that may expire, sweeper, reconciler, fairness | `EventuallyWritten`, `ExpiredIsSwept`, `ClosedIsUnregistered`, `FlushesEnd` |
| `backends` | `MemoryStorage`: 1 key, 4 messages with 3 ids, arrays of up to 3 elements, 1 reader; `RedisStorage`: 2 keys, 2 messages with one id that live as long as the TTL or less, undecodable entries, 1 reader | `MemoryImplementsAtomicStorage`, `OrderKept`; `ImplementsAtomicStorage`, `DropsOnlyDue`, `ScanComplete` |
| `cluster` | `Cluster`: 2 instances, 1 connection, 1 message, 2 faults of any kind, reconciler, fairness | `NoLostNotification`, `EventuallyWritten`, whatever faults |
| `pool` | `WorkerPool`: 2 POSTs, 1 handshake, 2 workers, a queue of 1, tasks that may be stuck, fairness | `TaskInOnePlace`, `NoPostStranded`, `RequestsAnswered`, `TasksRun`, `StoppedIsClosed` |
| `timed` | `RateLimiter`: 2 addresses, 4 requests, burst 2, purge every 2 calls; `History`: 3 messages in a buffer of 2, TTL 1, a reader, the purger; `AuthCache`: 2 subjects, one without credentials, 2 handshakes, eviction every 2 puts; `Metrics`: 2 keys, 2 scrapes, scans in batches of up to 1 tick that return a key twice at most, a TTL of 2 | `SpendBound`, `BucketAccount`; `KeepsNewest`, `NothingOldReturned`; `GrantIsRecent`; `ScansSpaced`, `KeysGaugeRecent` |
| `front` | `FrontEnd`: 2 requests of 2 clients, directly or behind a trusted proxy of each kind, credentials configured, not configured or waived, variants of every field a check looks at, burst 1 | `EffectsAuthorized`, `LimitedPerClient` |
| `wire` | `Wire`: 2 flushes that write again and again, pings both ways, a peer that takes a tick for a frame and one for an answer, or may stall or leave, fairness | `FramesApart`, `WritersEnd`, `LivePeerKept` |
| `sdk` | `ClientSDK`: the three clients, retries limited to 0 or 2 or not given, 2 messages and a window of 1, dropped connections, lost ACKs, messages sent again, stops, fairness | `DuplicatesOutsideWindow`, `BackoffFollowsFailures`, `GivesUpAfterFailures`, `StopsReconnecting`, `EventuallyHandled` |
| `ack_upsert` | `Delivery`: 2 messages with one id, 1 connection | violates `RemovedOnlyDeliveredOrExpired`, see below |
| `sdk_go_giveup` | `ClientSDK`: the Go client, 2 retries | violates `GoGivesUpAfterFailures`, see below |

`timed` and `backends` are about components that share nothing but a clock, or
of which a process has one. A variable (`focus`, `backend`) picks one component
in the initial state and only that one moves, so the states are the sum of
theirs and every component is checked as if alone.

What some of the properties allow. `SpendBound` has a term `overtaken`: a purge
with a later reading of the clock may drop the bucket of a request that has
already read it, and that time is granted twice. `GrantIsRecent` allows
`AuthCacheTTL + AuthTimeout`: an answer is cached from when it arrived.
`StopsReconnecting` allows the session that a Go or Python client is dialing when
it is stopped, and one of the JavaScript client closed while it waits: `close()`
does not cancel the reconnect timer (`goctopus.js:85`), so it opens one more
socket, which nobody closes. `KeysGaugeRecent` bounds the gauge by the keys that
were there throughout a TTL and a scan and by those that were there at any time
of them (each as often as a SCAN repeats it): a SCAN shows no single instant.
`LimitedPerClient` is about the proxies that `SafeHeaders` describes: since the
first hop of `X-Forwarded-For` counts, one that appends to the header lets its
clients choose their bucket. `FramesApart` allows a frame behind the half frame
of a writer that has failed and is about to close the connection.
`LivePeerKept` asks that a frame of every flush fits into the read timeout
beside the ping interval and the answer (`InTime`). `NoLostNotification` excuses an instance
only for a key of which it missed a wake-up itself, and only until the next one. `TasksRun` assumes that no task blocks its worker for ever, which a
write timeout gives; `RequestsAnswered` and the others do not.

The bounds. In `Delivery` every race is between two tasks, or a task and a
reader, the sweeper or a DELETE, about one id; the instances hold one more task
than that. Two connections are needed where one's removal affects the other's
topic, two keys where flushes of different locks meet at one connection, two
messages where one replaces the other. `Mortal`, `Sweep`, `Reconcile` and
`ApiDeletes` switch inputs and tickers off where a run is not about them.
`wakeup` and `front` use symmetry; liveness runs use none. Elsewhere the limits
under test (burst, queue, buffer, window, TTL) are 1 or 2 (3 for the back-off,
which then caps a doubling in its middle; 4 to 6 for the deadlines of `Wire`,
which must leave room for the frames before a ping), so that they are
reached and passed, with one caller more than the limit and a clock (`MaxTime`)
that runs past a TTL or to the end of the window; faults are bounded by
`MaxFaults`, which covers a fault, and a second one while the first is being
made good.

Fairness: weak for the steps of goroutines, since the Go scheduler runs every
one of them; strong for taking a mutex (`Lock`, `LockWrite`), since a Go mutex
in starvation mode hands itself to the waiter. In `Delivery` a write ends (write
deadline) and a read on a closed connection fails; the reconciler ends a round
it has begun but may never tick, so that `EventuallyWritten` holds without its
help and `FlushesEnd` against its competition. `Cluster` adds the ticks of the
reconciler, but not restarts. In `WorkerPool` handlers, workers, ping loops and
`main` run, and tasks may block for ever. In `Wire` time passes (strongly fair,
because a writer at its deadline holds it up), the ping ticker ticks, writes and
reads return by their deadlines, and a responsive peer lets writes through and
answers. In `ClientSDK` the client runs and the server delivers; faults are
finite, their timing is free. Nothing is assumed of publishers, other peers,
the auth backend or the network.

Each property of a passing run has a mutant in `PROJECT.json`: a plausible bug
(marked "Mutant" in the modules) under which the run fails.

### Where code and documents disagree

Two runs check a statement of the repository that TLC refutes:

* `ack_upsert`: a message "is only removed from the queue when the client ACKs
  it or it expires" (`engine.go:250`). One re-published under an id in flight
  is removed, unsent, by the ACK of its predecessor.
* `sdk_go_giveup`: "keeps reconnecting until ctx is cancelled (or MaxRetries is
  exhausted)" (`goctopus.go:62`). The Go client never resets its retries,
  because `session` returns only errors.

Others were met while modelling. The models show them, but no run is kept:

* `README.md:216` "Unacked messages are re-delivered when the client
  reconnects": the first ACK of any connection of a key removes the message
  for all (`AckDelete`).
* `client.go:195` "removes the acknowledged message from every key this
  connection is registered under": only from the recorded key.
* `engine.go:484` "a message added concurrently is never clobbered": one
  re-published under the expired message's id is (`sweepMsg` deletes by id).
* `engine.go:113` "this never produces duplicates for connected clients": a
  queue read before an ACK is sent after it.
* `README.md:131` "a message is re-sent if its ACK times out": nothing times out
  an in-flight entry. It also refuses a message re-published under its id after
  the first expired or was deleted.
* `metrics.go:67` "Current number of websocket connections": the gauge adds up
  the registry, so a connection counts once per topic.
* `README.md:164`, a message waits for its `expire`: not if `RedisKeyTTL` is
  shorter. `DropsOnlyDue` holds because no `Life` exceeds `KeyTTL`.
* `README.md:222` "every instance is notified": one lost notification leaves a
  message unsent when there is no reconciler, which is the default; and
  `README.md:210` "A backend POST queues a message": 202 is answered before, so a
  storage error or a crash loses it (`queueMessage`, `Crash` of `Cluster`).
* `main.go:231` "drain in-flight requests before exiting": the task of an
  answered POST may still be queued at `Exit` of `WorkerPool`.
* `fuzz_test.go:5` "parsing arbitrary POST bodies never panics": the body `null`
  does (`unmarshal` of `FrontEnd`); net/http recovers.
* `README.md:196` "`GET /ws` (also `/`)": `/` is the API.
* `client.go:22` "frames never interleave on the wire": a write that stops half
  way at its deadline gives `wmu` back before its caller closes the connection
  (`WriteError`, then `close`); a writer that waits sets a new deadline, and its
  frame follows half a frame.
* `ratelimit.go:93` "only safe behind a trusted reverse proxy that sets them": one
  that appends to `X-Forwarded-For` sets it too, and the first hop is then
  whatever the client sent (`clientIP`).

## Proofs

Each proof module proves, from the named assumptions on the constants only, that
an inductive invariant holds initially and is kept by every action, and derives
the properties from it. A property is seldom inductive; the tables name what was
added. Liveness is not proved. `Spec` is the component's specification.

`DeliveryProofs`. The assumptions: sets of names are disjoint, `Null` is none of
them, `Shard` maps keys to locks.

| Theorem | States | Argument |
|---|---|---|
| `TypeCorrect` | `[]TypeOK` | with `TaskShape`: what a task's place says about its locals (a flushing task has a key, a sending one a message and a connection) |
| `LocksCorrect` | `[]LocksMatchTasks` | inductive given the types: only `Lock` takes and only `Return` frees, and a holder's key does not change |
| `FlushProgress` | `[]FlushHasWork`, `FlushesShorten` | see below |
| `InflightCorrect`, `AtMostOnceWhileUnacked` | `[]InflightOwned`, `[]AtMostOneUnacked` | see below |
| `RegistryCorrect` | `[]RegistryConsistent` | inductive: `register` and `unregister` are the only updates |
| `AudienceCorrect` | `[]OnlySubscribersGet` | with `SnapshotsSubscribed`: topics of a connection and targets of a message are set once, so a stale snapshot still holds subscribers |
| `GeneratedWakeup` | `[]GeneratedWoken` | see below |
| `WakeupCorrect` | `CallerIds = {}`: `[]NoLostWakeup` | from `GeneratedWakeup` |
| `GeneratedRemoval` | `GeneratedLeaveJustified` | whatever deletes by id (an ACK, the sweeper) holds the id of a message that was written or has expired, and a generated id has one message |
| `RemovalCorrect` | `CallerIds = {}`, `~ApiDeletes`: `RemovedOnlyDeliveredOrExpired` | from `GeneratedRemoval`; `PurgeOnRequest` for a DELETE of everything under way |

`FlushProgress` is what a safety proof can say of `FlushesEnd`. `FlushHasWork`:
a task that holds a lock has connections to serve, and one at a message has one
left for it, so that some action of `Send` is open to it. `FlushesShorten`: each
step of such a task leaves fewer messages of its snapshot, or as many and fewer
connections, or less of a failing write; a step of anybody else leaves all of
its locals alone. With finite sets and `WF_vars(Send(t))` the lock is released.

`AtMostOneUnacked` alone is not inductive: a task between `markInflight` and
the write would add a copy. `InflightOwned` adds the owner of each entry: the
task that writes an id has its entry, no two tasks write the same id to the
same connection, and a copy on the wire has its entry. Its induction needs that
ids in flight are ids of posted messages, which is `QueuesHoldPosted`.

`GeneratedWoken` is `NoLostWakeup` for the ids that goctopus generates, whatever
callers do with the ids they choose. It needs `GeneratedIdsApart` (one message
per generated id) and `CopiesWritten` (an entry in flight, a copy or an ACK of
an id belongs to a message that was written, or to the task that is writing it):
without them an ACK could be that of another message. `GeneratedLeaveJustified`
says of the same messages that they leave a queue, removed or replaced, only
written, expired or in a step of a `DELETE` request. The hypotheses of
`WakeupCorrect` and `RemovalCorrect` cannot be dropped: with ids chosen by
callers, the ACK of a replaced message deletes its successor, as `ack_upsert`
shows, and a `DELETE` removes what it likes.

`BackendsProofs`. The assumptions: `Null`, `Poison`, messages, keys and arrays are
told apart, every message has an id, capacities are positive.

| Theorem | States | Argument |
|---|---|---|
| `RedisRefines` | `Spec => ImplementsAtomicStorage` | every step is an `AtomicStorage` step or leaves the entries that decode alone; `RedisTypeOK` suffices |
| `TTLCorrect` | `LivesWithinTTL => (Spec => []TTLCoversQueue)` | with `DatesPast`, `StoredIsDated`: a message is stored no earlier than it was dated, and storing it renews the TTL |
| `DropsCorrect` | `LivesWithinTTL => (Spec => DropsOnlyDue)` | from the invariant of the former |
| `ScanCorrect` | `[]ScanComplete` | `ScanSees`: a key that has been there since the scan began was returned, or the cursor has not come to it |
| `MemoryRefines` | `Mem!Spec => MemoryImplementsAtomicStorage` | `MemInv`, below |
| `OrderCorrect` | `Mem!Spec => OrderKept` | the same invariant: each write keeps the relative positions of the ids that stay |

`TTLCoversQueue` says that the deadline of a key is not before that of a message
queued under it. `LivesWithinTTL` (no message asks for more than `RedisKeyTTL`)
cannot be dropped: a longer message is dropped early. The refinement needs one
`ExpireKey` per key: two keys that expire at the same instant are two
`DeleteQueue`s. `GetKeys` of Redis is no single step and is left out of its
refinement; `ScanComplete` says what it promises instead.

The memory backend writes into arrays in place while readers use slices they got
before. `MemInv` is why that goes unseen: `ArraysApart` (nobody else has a slice
of the array that a key's slice is of), `IdsApart` (a queue has an id at most
once, so that the mapping `StoreOf` is well defined) and the bounds of every
slice. The lemmas first treat the three in-place operations on one array
(`ReplaceFinds`, `AppendFinds`, `CloseGapFinds`), then what a write to one key
does to the mapping (`KeyWrite`).

`TimedProofs`. The assumptions are those of the four modules: positive cost and
period, a burst of one request at least, natural numbers for TTLs and timeouts,
distinct names.

| Theorem | States | Argument |
|---|---|---|
| `LimiterReadingsCorrect` | `[](RateLimiterTypeOK /\ CallersPast /\ ReadingsPast /\ Capped /\ NoDebt)` | the part of the invariant below that is about readings and tokens: readings are not ahead of the clock, a bucket holds at most the burst |
| `AccountCorrect` | `[]BucketAccount` | what was spent plus what is left never exceeds burst, elapsed time and `overtaken` |
| `SpendBounded` | `[]SpendBound` | from the account and `NoDebt` |
| `NewestKept` | `[]KeepsNewest` | `BuffersKept`: a buffer is the end of what was added, and what is missing is beyond `size` or old; `prune` and `cut` only shorten it from the front |
| `AnswersCorrect` | `[]NothingOldReturned` | `BuffersAged`: an entry was added no earlier than its own time and no later than those behind it, so that the first one `prune` keeps vouches for the rest |
| `GrantCorrect` | `GrantIsRecent` | `CallInTime` (a call's answer was right after it was made, and calls end) and `EntryRecent` (an entry was right within TTL and timeout of its expiry) |
| `ScansCorrect`, `GaugeCorrect` | `ScansSpaced`, `KeysGaugeRecent` | `OneScan` (the scrape that scans has the lock, and the time it stores is not before its scan), `ScanSound` (what the cursor has passed and what is found), `FoundSince` (the number stored counts what was there all through the scan, and nothing that was not there at all) |

`SpendBound` says nothing of the tokens left, so it is not inductive. The
invariant `LimiterInv` adds the account of each bucket, that readings are past
(`CallersPast`, `ReadingsPast`), and `NoDebt`: a reading older than the bucket's
takes tokens away, but never more than the clock has added since, so a negative
bucket cannot hide an overspent one.

The other components:

| Module | Theorem | States | Argument |
|---|---|---|---|
| `WorkerPoolProofs` | `OnePlaceCorrect` | `[]TaskInOnePlace` | `Placed`: the counts of the property as statements about positions, workers and sets; cardinalities only in the last step |
| | `PostsRun` | `[]NoPostStranded` | `PoolShut`: workers stay in their select until `Shutdown` returned, which after a drain has answered every POST; a worker leaves only when it finds the queue empty |
| `ClusterProofs` | `NotificationCorrect` | `[]NoLostNotification` | inductive with `Footing`: an open connection is on an instance that runs, the POST's own flush comes after its notification, what awaits an ACK was written. Every fault that drops a wake-up enters it in `missed`; a crash closes the connections of its instance |
| `WireProofs` | `FramesCorrect` | `FramesApart` | `FrameOwned`: the writer inside a frame has the lock, and an incomplete frame is its own or that of a writer that failed |
| | `LivePeerCorrect` | `[]LivePeerKept` | `PongInTime`, below |
| `FrontEndProofs` | `AuthorizedCorrect` | `[]EffectsAuthorized` | `ChecksPassed`: a request in a phase has passed the checks before it, the grant of the authorizer included |
| | `LimitCorrect` | `[]LimitedPerClient` | `Paid`: tokens, refills and requests between the limiter and the look at their credentials balance, per client |
| `ClientSDKProofs` | `GivesUpCorrect` | `[]GivesUpAfterFailures` | `RetriesCounted`: retries are the failures in a row, which is what the Go client lacks |
| | `StopCorrect` | `[]StopsReconnecting` | `StopBudget`: the sessions opened since the stop, plus the one that a dial or a timer under way may still open, are within the bound |
| | `BackoffCorrect` | `[]BackoffFollowsFailures` | `BackoffGrows`, below |
| | `DedupeCorrect` | `[]DuplicatesOutsideWindow` | `RememberedLast`: what is remembered are the last `DedupeLimit` calls; so calls in a window differ, and are as many messages (counted by a bijection) |

`PongInTime` says that the read deadline is further away than the pong that will
renew it: the one on its way, or the one that the next ping asks for. For that it
follows the ping from its tick (interval, then a frame of every flush, its own
frame and the answer are still to come) through the line for `wmu` (the frames of
the flushes that are `ahead`, and what is left of the one on the wire) to its
write. The number of frames ahead is the cardinality of a set that each flush
leaves when it gets the lock (`LineFacts`, `SlotsFacts`).

`BackoffFollowsFailures` speaks of the delay while a client waits; `BackoffGrows`
adds the next one: it is `Capped(Power[fails])`, and so it is after the
capped doubling (`CappedDoubles`). That the recursive function `Power` doubles
needs an induction over the naturals, and the library's rules for it have an
operator parameter that the provers do not instantiate. `InductionSet` states it
with a set instead: a set that has 0 and with each number the next holds all of
them, because the numbers outside it would have a least one (`WFMin`). The
function itself exists because it does up to every bound (`DoublingExists`,
`DoublingUnique`).

Assumptions the proofs made explicit, all of them what the code ensures: a pool
has a worker (`engine.go:78` panics otherwise), the timeout of an auth call is
positive, flushes are named apart from one
another and from the kinds of frame, and the cursor of a scan that is over is no
set of keys.

Only model-checked:

* the liveness properties (`EventuallyWritten` of `Delivery` and `Cluster`,
  `ExpiredIsSwept`, `ClosedIsUnregistered`, `FlushesEnd`, `RequestsAnswered`,
  `TasksRun`, `StoppedIsClosed`, `WritersEnd`, `EventuallyHandled`): the prover
  does not handle fairness.

Every invariant and action property of the passing runs is proved.

## Plan

The modules are written and their safety properties proved. What could follow
are measures like that of `FlushProgress` for the other liveness properties: the
tasks of `WorkerPool`, the writers of `Wire`, a round of the sweeper.

## Not modelled

* Configuration, flags and logging: read once at the start, no state. The
  settings that matter are constants of the modules.
* The text of JSON, compression, TLS and frame sizes: what is checked is whether
  a body or an entry decodes and what is wrong with it.
* `SetQueue` of both backends: only tests call it.
* Counters, histograms and the connections gauge of the metrics: nothing reads
  them.
* The dummy authorizer, which keeps no state; collisions of the hash that keys
  the authorizer's cache; an `AllowedOrigins` of `*`, which is the constant
  `AllowedOrigins` being all `Origins`.
* The JSON that a GET of keys, queues or history returns; `FrontEnd` has their
  status, `History` what is in the last.
