------------------------------ MODULE FrontEnd ------------------------------
(***************************************************************************)
(* The HTTP front end (server.go): routing, the rate limit, Basic Auth for *)
(* the JSON API, the origin check and the authorizer for websockets, and   *)
(* the answer of every handler.  Requests are handled concurrently; a step *)
(* of one is a check that reads or changes what others see, and the call   *)
(* of the authorizer takes time.                                           *)
(*                                                                         *)
(* What the handlers do to queues and connections is in Delivery; here     *)
(* effects records which of them ran.  A bucket is a number of requests    *)
(* (RateLimiter has its clock).                                            *)
(***************************************************************************)
EXTENDS Integers, Sequences, FiniteSets

CONSTANTS
  Requests,
  Inputs,             \* what a request may be: records of RequestType
  Clients,            \* the machines requests come from
  Proxy,              \* the address of the reverse proxy
  Origins, AllowedOrigins, NoOrigin,
  RateLimit,          \* BOOLEAN: config.RateLimit > 0
  RateBurst,
  MaxRefills,         \* bound on what the clock adds to a bucket
  Configs             \* configurations to start with: records of ConfigType

Paths == {"/", "/ws", "/ws/", "/healthz", "/readyz", "/metrics", "/version", "other"}
Methods == {"GET", "POST", "DELETE", "PUT"}
(* What may be wrong with the body of a POST; a correct one has no defect. *)
Defects == {"unreadable", "null", "no target", "no value", "bad expire", "bad id"}
(* What may be wrong with the parameters of a DELETE. *)
Queries == {"ok", "id but no key", "bad id"}

Addresses == Clients \cup {Proxy}

(* credsSet: Login and Password are both configured.  proxy: whether there *)
(* is a reverse proxy, and which header it sets: it overwrites             *)
(* X-Forwarded-For, appends to it, or sets X-Real-IP and leaves the other. *)
ConfigType ==
  [credsSet : BOOLEAN, InsecureNoAuth : BOOLEAN, TrustProxyHeaders : BOOLEAN,
   proxy : {"none", "overwrite", "append", "real-ip"}]

(* xff: what the client itself sends as X-Forwarded-For. *)
RequestType ==
  [path : Paths, method : Methods, client : Clients, creds : {"none", "wrong", "right"},
   origin : Origins \cup {NoOrigin}, upgrade : BOOLEAN, body : SUBSET Defects, query : Queries,
   xff : Seq(Addresses)]

ASSUME FrontEndAssumption ==
  /\ Inputs \subseteq RequestType /\ Configs \subseteq ConfigType
  /\ AllowedOrigins \subseteq Origins /\ NoOrigin \notin Origins
  /\ Proxy \notin Clients
  /\ RateBurst \in Nat /\ MaxRefills \in Nat
  /\ RateLimit \in BOOLEAN

NotYet == 0     \* no answer so far
Aborted == 1    \* the handler panicked: net/http closes the connection

VARIABLES
  config,    \* the configuration, which does not change
  req,       \* req[r]: the request, once it has arrived
  phase,     \* phase[r]: the check that request r is at
  status,    \* status[r]: the answer
  tokens,    \* tokens[a]: requests that address a may still make
  (* history, read by no action *)
  effects,   \* <<r, what>>: the effects requests have had
  used,      \* used[c]: requests of client c that passed the limiter
  refills,   \* refills[a]: tokens the clock has added for a
  asked,     \* asked[c]: times c's credentials were checked or forwarded
  granted    \* requests that the authorizer granted topics

limitVars == <<tokens, used, refills>>
authVars == <<asked, granted>>
vars == <<config, req, phase, status, effects, limitVars, authVars>>

Init ==
  /\ config \in Configs
  /\ req \in [Requests -> Inputs]
  /\ phase = [r \in Requests |-> "none"]
  /\ status = [r \in Requests |-> NotYet]
  /\ tokens = [a \in Addresses |-> RateBurst]
  /\ effects = {}
  /\ used = [c \in Clients |-> 0]
  /\ refills = [a \in Addresses |-> 0]
  /\ asked = [c \in Clients |-> 0]
  /\ granted = {}

-----------------------------------------------------------------------------
Go(r, p) == phase' = [phase EXCEPT ![r] = p] /\ UNCHANGED <<config, req, status>>

Answer(r, s) ==
  /\ status' = [status EXCEPT ![r] = s]
  /\ phase' = [phase EXCEPT ![r] = "done"]
  /\ UNCHANGED <<config, req>>

Does(r, what) == effects' = effects \cup {<<r, what>>}

Refill(a) ==
  /\ refills[a] < MaxRefills /\ tokens[a] < RateBurst
  /\ tokens' = [tokens EXCEPT ![a] = @ + 1]
  /\ refills' = [refills EXCEPT ![a] = @ + 1]
  /\ UNCHANGED <<config, req, phase, status, effects, used, authVars>>

(* Where a request starts: handleHTTP and handleWs begin with the limiter; *)
(* the probes pass neither it nor authentication.                          *)
entry(path) == IF path \in {"/", "/ws", "/ws/"} THEN "limit" ELSE "done"

(* What a probe may answer: the storage behind /readyz may not respond.    *)
probe(path) ==
  CASE path = "other" -> {404}
    [] path = "/readyz" -> {200, 503}
    [] OTHER -> {200}

ServeHTTP(r) ==
  /\ phase[r] = "none"
  /\ \/ entry(req[r].path) # "done" /\ Go(r, entry(req[r].path))
     \/ entry(req[r].path) = "done" /\ \E s \in probe(req[r].path) : Answer(r, s)
  /\ UNCHANGED <<effects, limitVars, authVars>>

-----------------------------------------------------------------------------
Proxied == config.proxy # "none"

remoteAddr(r) == IF Proxied THEN Proxy ELSE req[r].client

(* The headers as they arrive; an empty sequence is no header. *)
XForwardedFor(r) ==
  CASE config.proxy = "overwrite" -> <<req[r].client>>
    [] config.proxy = "append" -> Append(req[r].xff, req[r].client)
    [] OTHER -> req[r].xff

XRealIP(r) == IF config.proxy = "real-ip" THEN <<req[r].client>> ELSE << >>

(* Mutant: the headers of the proxy are ignored. *)
clientIPRemote(r) == remoteAddr(r)

(* The first hop is taken for the client. *)
clientIP(r) ==
  IF config.TrustProxyHeaders /\ XForwardedFor(r) # << >> THEN Head(XForwardedFor(r))
  ELSE IF config.TrustProxyHeaders /\ XRealIP(r) # << >> THEN Head(XRealIP(r))
  ELSE remoteAddr(r)

afterLimit(r) == IF req[r].path = "/" THEN "auth" ELSE "origin"

allow(r) ==
  /\ phase[r] = "limit"
  /\ IF ~RateLimit
     THEN Go(r, afterLimit(r)) /\ UNCHANGED <<tokens, used>>
     ELSE IF tokens[clientIP(r)] > 0
     THEN /\ Go(r, afterLimit(r))
          /\ tokens' = [tokens EXCEPT ![clientIP(r)] = @ - 1]
          /\ used' = [used EXCEPT ![req[r].client] = @ + 1]
     ELSE Answer(r, 429) /\ UNCHANGED <<tokens, used>>
  /\ UNCHANGED <<effects, refills, authVars>>

-----------------------------------------------------------------------------
(* The JSON API. *)

(* Mutant: without configured credentials everybody is let in. *)
verdictOpen(r) ==
  IF config.InsecureNoAuth \/ ~config.credsSet THEN 200
  ELSE IF req[r].creds = "none" THEN 401
  ELSE IF req[r].creds = "wrong" THEN 403 ELSE 200

verdict(r) ==
  IF config.InsecureNoAuth THEN 200
  ELSE IF ~config.credsSet \/ req[r].creds = "none" THEN 401
  ELSE IF req[r].creds = "wrong" THEN 403 ELSE 200

authorizeBackend(r) ==
  /\ phase[r] = "auth"
  /\ asked' = [asked EXCEPT ![req[r].client] = @ + 1]
  /\ IF verdict(r) = 200 THEN Go(r, "api") ELSE Answer(r, verdict(r))
  /\ UNCHANGED <<effects, limitVars, granted>>

(* json.Unmarshal(b, &m) with a null body makes the receiver nil, which    *)
(* targets dereferences; every other defect is an error.                   *)
unmarshal(body) ==
  IF "unreadable" \in body THEN 400
  ELSE IF "null" \in body THEN Aborted
  ELSE IF body # {} THEN 400 ELSE 202

handlePost(r) ==
  /\ phase[r] = "api" /\ req[r].method = "POST"
  /\ Answer(r, unmarshal(req[r].body))
  /\ IF unmarshal(req[r].body) = 202 THEN Does(r, "publish") ELSE UNCHANGED effects
  /\ UNCHANGED <<limitVars, authVars>>

(* Keys, messages, presence or history; the storage may fail. *)
handleGet(r) ==
  /\ phase[r] = "api" /\ req[r].method = "GET"
  /\ \/ Answer(r, 200) /\ Does(r, "read")
     \/ Answer(r, 400) /\ UNCHANGED effects
  /\ UNCHANGED <<limitVars, authVars>>

(* A storage error of DeleteMessage or GetKeys is reported. *)
handleDelete(r) ==
  /\ phase[r] = "api" /\ req[r].method = "DELETE"
  /\ \/ req[r].query = "ok" /\ Answer(r, 200) /\ Does(r, "delete")
     \/ Answer(r, 400) /\ UNCHANGED effects
  /\ UNCHANGED <<limitVars, authVars>>

handleMethodNotAllowed(r) ==
  /\ phase[r] = "api" /\ req[r].method \notin {"POST", "GET", "DELETE"}
  /\ Answer(r, 405)
  /\ UNCHANGED <<effects, limitVars, authVars>>

-----------------------------------------------------------------------------
(* handleWs. *)

originAllowed(o) == o = NoOrigin \/ AllowedOrigins = {} \/ o \in AllowedOrigins

(* Mutant: a request of an allowed origin needs no authorizer. *)
checkOriginOnly(r) ==
  /\ phase[r] = "origin"
  /\ IF originAllowed(req[r].origin) THEN Go(r, "upgrade") ELSE Answer(r, 403)
  /\ UNCHANGED <<effects, limitVars, authVars>>

checkOrigin(r) ==
  /\ phase[r] = "origin"
  /\ IF originAllowed(req[r].origin) THEN Go(r, "authorize") ELSE Answer(r, 403)
  /\ UNCHANGED <<effects, limitVars, authVars>>

(* The authorizer is given the request and grants topics or fails. *)
Authorize(r) ==
  /\ phase[r] = "authorize"
  /\ asked' = [asked EXCEPT ![req[r].client] = @ + 1]
  /\ \/ Go(r, "upgrade") /\ granted' = granted \cup {r}
     \/ Answer(r, 401) /\ UNCHANGED granted
  /\ UNCHANGED <<effects, limitVars>>

(* The handshake, then the connection is registered. *)
upgrade(r) ==
  /\ phase[r] = "upgrade"
  /\ \/ req[r].upgrade /\ Answer(r, 101) /\ Does(r, "connect")
     \/ Answer(r, 400) /\ UNCHANGED effects
  /\ UNCHANGED <<limitVars, authVars>>

-----------------------------------------------------------------------------
handle(r) ==
  \/ ServeHTTP(r) \/ allow(r) \/ authorizeBackend(r)
  \/ handlePost(r) \/ handleGet(r) \/ handleDelete(r) \/ handleMethodNotAllowed(r)
  \/ checkOrigin(r) \/ Authorize(r) \/ upgrade(r)

Next == (\E r \in Requests : handle(r)) \/ (\E a \in Addresses : Refill(a))

Spec == Init /\ [][Next]_vars

-----------------------------------------------------------------------------
(* "The whole JSON API is a backend-only surface: it must be authenticated,*)
(* not just POST" and "It fails closed" (server.go): whatever is           *)
(* configured, an API effect has a caller with the configured credentials; *)
(* a connection was let through by the origin list and granted its topics  *)
(* by the authorizer; and a request that was refused has had no effect.    *)
EffectsAuthorized ==
  \A e \in effects :
    LET q == req[e[1]]
    IN  /\ status[e[1]] \in {101, 200, 202}
        /\ IF e[2] = "connect"
           THEN originAllowed(q.origin) /\ e[1] \in granted
           ELSE config.InsecureNoAuth \/ (config.credsSet /\ q.creds = "right")

(* Trusting the headers is "only safe behind a trusted reverse proxy that  *)
(* sets them" (ratelimit.go), which takes more than the name says: since   *)
(* the first hop counts, it must overwrite X-Forwarded-For, or no client   *)
(* may send one.                                                           *)
SafeHeaders ==
  /\ config.TrustProxyHeaders = Proxied
  /\ Proxied => config.proxy = "overwrite" \/ \A r \in Requests : req[r].xff = << >>

(* "per-client-IP request rate" (README, config.go), directly or behind    *)
(* such a proxy: the limiter stands before every check of credentials, a   *)
(* client has no more of them than its burst and what was refilled for it, *)
(* and is refused only after it has itself been allowed a burst, whatever  *)
(* other clients do.                                                       *)
LimitedPerClient ==
  RateLimit /\ SafeHeaders =>
    \A c \in Clients :
      /\ asked[c] <= RateBurst + refills[c]
      /\ (\E r \in Requests : status[r] = 429 /\ req[r].client = c) => used[c] >= RateBurst

=============================================================================
