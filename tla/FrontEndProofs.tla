--------------------------- MODULE FrontEndProofs ---------------------------
(***************************************************************************)
(* Proofs that no effect of a request escapes its checks, and that the     *)
(* rate limit bounds and protects each client, for any requests, clients   *)
(* and configuration.                                                      *)
(***************************************************************************)
EXTENDS FrontEnd, FiniteSetTheorems, TLAPS

Phases == {"none", "limit", "auth", "api", "origin", "authorize", "upgrade", "done"}

(* Every variable keeps its type. *)
FrontEndType ==
  /\ config \in Configs
  /\ req \in [Requests -> Inputs]
  /\ phase \in [Requests -> Phases]
  /\ status \in [Requests -> Int]
  /\ tokens \in [Addresses -> Nat] /\ refills \in [Addresses -> Nat]
  /\ effects \subseteq Requests \X {"publish", "read", "delete", "connect"}
  /\ used \in [Clients -> Nat] /\ asked \in [Clients -> Nat]
  /\ granted \subseteq Requests

USE FrontEndAssumption

LEMMA RequestClient == FrontEndType => \A r \in Requests : req[r].client \in Clients
  BY DEF FrontEndType, RequestType

LEMMA InitType == Init => FrontEndType
  BY DEF Init, FrontEndType, Phases, NotYet

(* The two ways a handler goes on. *)
LEMMA GoType ==
  ASSUME FrontEndType, NEW r, NEW p \in Phases, Go(r, p)
  PROVE  /\ config' \in Configs /\ req' \in [Requests -> Inputs]
         /\ phase' \in [Requests -> Phases] /\ status' \in [Requests -> Int]
  BY DEF Go, FrontEndType

LEMMA AnswerType ==
  ASSUME FrontEndType, NEW r, NEW s \in Int, Answer(r, s)
  PROVE  /\ config' \in Configs /\ req' \in [Requests -> Inputs]
         /\ phase' \in [Requests -> Phases] /\ status' \in [Requests -> Int]
  BY DEF Answer, FrontEndType, Phases

LEMMA StepType == FrontEndType /\ [Next]_vars => FrontEndType'
  <1> SUFFICES ASSUME FrontEndType, [Next]_vars PROVE FrontEndType'
    OBVIOUS
  <1> DEFINE Control == /\ config' \in Configs /\ req' \in [Requests -> Inputs]
                        /\ phase' \in [Requests -> Phases] /\ status' \in [Requests -> Int]
  <1>0. \A r \in Requests : req[r].client \in Clients /\ clientIP(r) \in Addresses
    <2> SUFFICES ASSUME NEW r \in Requests PROVE clientIP(r) \in Addresses
      BY RequestClient
    <2>1. req[r].client \in Addresses /\ req[r].xff \in Seq(Addresses) /\ remoteAddr(r) \in Addresses
      <3>1. req[r] \in RequestType /\ req[r].client \in Clients
        BY RequestClient DEF FrontEndType
      <3>2. req[r].xff \in Seq(Addresses)
        BY <3>1 DEF RequestType
      <3> QED
        BY <3>1, <3>2 DEF remoteAddr, Addresses
    <2>2. XForwardedFor(r) \in Seq(Addresses) /\ XRealIP(r) \in Seq(Addresses)
      BY <2>1 DEF XForwardedFor, XRealIP
    <2> QED
      BY <2>1, <2>2 DEF clientIP
  <1>1. ASSUME Control, UNCHANGED <<effects, limitVars, authVars>> PROVE FrontEndType'
    BY <1>1 DEF FrontEndType, limitVars, authVars
  <1>2. ASSUME Control, NEW r \in Requests, UNCHANGED <<effects, limitVars>>,
               asked' = [asked EXCEPT ![req[r].client] = @ + 1], granted' \subseteq Requests
        PROVE  FrontEndType'
    BY <1>0, <1>2 DEF FrontEndType, limitVars
  <1>3. ASSUME Control, NEW r \in Requests, UNCHANGED <<limitVars, authVars>>,
               NEW what \in {"publish", "read", "delete", "connect"}, Does(r, what)
        PROVE  FrontEndType'
    BY <1>3 DEF FrontEndType, limitVars, authVars, Does
  <1>4. ASSUME NEW r \in Requests, NEW p \in Phases, Go(r, p) PROVE Control
    BY <1>4, GoType
  <1>5. ASSUME NEW r \in Requests, NEW s \in Int, Answer(r, s) PROVE Control
    BY <1>5, AnswerType
  <1> HIDE DEF Control
  <1>6. ASSUME NEW r \in Requests, ServeHTTP(r) PROVE FrontEndType'
    BY <1>1, <1>4, <1>5, <1>6 DEF ServeHTTP, entry, probe, Phases
  <1>7. ASSUME NEW r \in Requests, allow(r) PROVE FrontEndType'
    <2>1. Control
      BY <1>4, <1>5, <1>7 DEF allow, afterLimit, Phases
    <2>2. CASE UNCHANGED <<tokens, used>>
      BY <1>1, <1>7, <2>1, <2>2 DEF allow, limitVars
    <2>3. CASE /\ tokens[clientIP(r)] > 0
               /\ tokens' = [tokens EXCEPT ![clientIP(r)] = @ - 1]
               /\ used' = [used EXCEPT ![req[r].client] = @ + 1]
      BY <1>0, <1>7, <2>1, <2>3 DEF allow, FrontEndType, Control, authVars
    <2> QED
      BY <1>7, <2>2, <2>3 DEF allow
  <1>8. ASSUME NEW r \in Requests, authorizeBackend(r) PROVE FrontEndType'
    <2>1. verdict(r) \in Int
      BY DEF verdict
    <2>2. Control
      BY <1>4, <1>5, <1>8, <2>1 DEF authorizeBackend, Phases
    <2> QED
      BY <1>2, <1>8, <2>2 DEF authorizeBackend, FrontEndType
  <1>9. ASSUME NEW r \in Requests, handlePost(r) PROVE FrontEndType'
    BY <1>1, <1>3, <1>5, <1>9 DEF handlePost, unmarshal, Aborted
  <1>10. ASSUME NEW r \in Requests,
                handleGet(r) \/ handleDelete(r) \/ handleMethodNotAllowed(r) \/ upgrade(r)
         PROVE  FrontEndType'
    BY <1>1, <1>3, <1>5, <1>10 DEF handleGet, handleDelete, handleMethodNotAllowed, upgrade
  <1>11. ASSUME NEW r \in Requests, checkOrigin(r) PROVE FrontEndType'
    BY <1>1, <1>4, <1>5, <1>11 DEF checkOrigin, Phases
  <1>12. ASSUME NEW r \in Requests, Authorize(r) PROVE FrontEndType'
    <2>1. Control
      BY <1>4, <1>5, <1>12 DEF Authorize, Phases
    <2> QED
      BY <1>2, <1>12, <2>1 DEF Authorize, FrontEndType
  <1>13. ASSUME NEW a \in Addresses, Refill(a) PROVE FrontEndType'
    BY <1>13 DEF Refill, FrontEndType, authVars
  <1>14. CASE UNCHANGED vars
    BY <1>14 DEF vars, limitVars, authVars, FrontEndType
  <1> QED
    BY <1>6, <1>7, <1>8, <1>9, <1>10, <1>11, <1>12, <1>13, <1>14 DEF Next, handle

LEMMA TypeCorrect == Spec => []FrontEndType
  <1>1. FrontEndType /\ [Next]_vars => FrontEndType'
    BY StepType
  <1> QED
    BY <1>1, InitType, PTL DEF Spec

-----------------------------------------------------------------------------
(* A request that has reached a phase has passed the checks before it, and *)
(* has had no effect before it is done.                                    *)
ApiAllowed(r) == config.InsecureNoAuth \/ (config.credsSet /\ req[r].creds = "right")

ChecksPassed ==
  \A r \in Requests :
    /\ phase[r] = "api" => ApiAllowed(r)
    /\ phase[r] \in {"authorize", "upgrade"} => originAllowed(req[r].origin)
    /\ phase[r] = "upgrade" => r \in granted

(* EffectsAuthorized, effect by effect. *)
Whats == {"publish", "read", "delete", "connect"}

Justified(r, what) ==
  IF what = "connect" THEN originAllowed(req[r].origin) /\ r \in granted ELSE ApiAllowed(r)

Acknowledged(r) == phase[r] = "done" /\ status[r] \in {101, 200, 202}

EffectsChecked ==
  \A r \in Requests, what \in Whats :
    <<r, what>> \in effects => Justified(r, what) /\ Acknowledged(r)

LEMMA StepChecked ==
  FrontEndType /\ ChecksPassed /\ EffectsChecked /\ [Next]_vars
    => (ChecksPassed /\ EffectsChecked)'
  <1> SUFFICES ASSUME FrontEndType, ChecksPassed, EffectsChecked, [Next]_vars
               PROVE  (ChecksPassed /\ EffectsChecked)'
    OBVIOUS
  <1> DEFINE Goal == (ChecksPassed /\ EffectsChecked)'
  <1> SUFFICES Goal
    OBVIOUS
  <1>0. phase \in [Requests -> Phases] /\ status \in [Requests -> Int]
    BY DEF FrontEndType
  (* A request goes on without an effect. *)
  <1>1. ASSUME UNCHANGED <<config, req>>, UNCHANGED effects, granted \subseteq granted',
               NEW r \in Requests, NEW p \in Phases, phase' = [phase EXCEPT ![r] = p],
               phase[r] # "done", \A q \in Requests : q # r => status'[q] = status[q],
               p = "api" => ApiAllowed(r),
               p \in {"authorize", "upgrade"} => originAllowed(req[r].origin),
               p = "upgrade" => r \in granted'
        PROVE  Goal
    <2>1. ASSUME NEW q \in Requests, NEW what \in Whats, <<q, what>> \in effects
          PROVE  Justified(q, what)' /\ Acknowledged(q)'
      <3>1. Justified(q, what) /\ Acknowledged(q)
        BY <2>1 DEF EffectsChecked
      <3>2. q # r
        BY <1>1, <3>1 DEF Acknowledged
      <3>3. Acknowledged(q)'
        BY <1>0, <1>1, <3>1, <3>2 DEF Acknowledged
      <3>4. Justified(q, what)'
        BY <1>1, <3>1 DEF Justified, ApiAllowed
      <3> QED
        BY <3>3, <3>4
    <2>2. ChecksPassed'
      <3> SUFFICES ASSUME NEW q \in Requests
                   PROVE  /\ phase'[q] = "api" => ApiAllowed(q)
                          /\ phase'[q] \in {"authorize", "upgrade"} => originAllowed(req[q].origin)
                          /\ phase'[q] = "upgrade" => q \in granted'
        BY <1>1 DEF ChecksPassed, ApiAllowed
      <3>1. CASE q = r
        BY <1>0, <1>1, <3>1
      <3>2. CASE q # r
        BY <1>0, <1>1, <3>2 DEF ChecksPassed
      <3> QED
        BY <3>1, <3>2
    <2>3. EffectsChecked'
      BY <1>1, <2>1 DEF EffectsChecked
    <2> QED
      BY <2>2, <2>3
  (* A request is answered after an effect. *)
  <1>2. ASSUME UNCHANGED <<config, req>>, UNCHANGED granted,
               NEW r \in Requests, phase' = [phase EXCEPT ![r] = "done"],
               NEW s \in {101, 200, 202}, status' = [status EXCEPT ![r] = s],
               NEW what \in Whats, Does(r, what), Justified(r, what)
        PROVE  Goal
    <2>1. ChecksPassed'
      BY <1>0, <1>2 DEF ChecksPassed, ApiAllowed
    <2>2. ASSUME NEW q \in Requests, NEW w \in Whats, <<q, w>> \in effects'
          PROVE  Justified(q, w)' /\ Acknowledged(q)'
      <3>1. CASE q = r /\ w = what
        BY <1>0, <1>2, <3>1 DEF Justified, ApiAllowed, Acknowledged
      <3>2. CASE q # r \/ w # what
        <4>1. Justified(q, w) /\ Acknowledged(q)
          BY <1>2, <2>2, <3>2 DEF Does, EffectsChecked
        <4>2. Justified(q, w)'
          BY <1>2, <4>1 DEF Justified, ApiAllowed
        <4>3. Acknowledged(q)'
          BY <1>0, <1>2, <4>1 DEF Acknowledged
        <4> QED
          BY <4>2, <4>3
      <3> QED
        BY <3>1, <3>2
    <2>3. EffectsChecked'
      BY <2>2 DEF EffectsChecked
    <2> QED
      BY <2>1, <2>3
  <1>3. ASSUME NEW r \in Requests, NEW s, Answer(r, s), phase[r] # "done", UNCHANGED <<effects, granted>>
        PROVE  Goal
    BY <1>0, <1>1, <1>3 DEF Answer, Phases
  <1>g. ASSUME NEW r \in Requests, NEW p \in Phases, Go(r, p), phase[r] # "done",
               UNCHANGED effects, granted \subseteq granted',
               p = "api" => ApiAllowed(r),
               p \in {"authorize", "upgrade"} => originAllowed(req[r].origin),
               p = "upgrade" => r \in granted'
        PROVE  Goal
    BY <1>0, <1>1, <1>g DEF Go
  <1> HIDE DEF Goal
  <1> USE DEF authVars
  <1>4. ASSUME NEW r \in Requests, ServeHTTP(r) \/ allow(r) PROVE Goal
    BY <1>g, <1>3, <1>4 DEF ServeHTTP, allow, entry, afterLimit, Phases
  <1>5. ASSUME NEW r \in Requests, authorizeBackend(r) PROVE Goal
    <2>1. verdict(r) = 200 => ApiAllowed(r)
      BY DEF verdict, ApiAllowed, FrontEndType, RequestType
    <2> QED
      BY <1>g, <1>3, <1>5, <2>1 DEF authorizeBackend, Phases
  <1>6. ASSUME NEW r \in Requests, phase[r] = "api" PROVE ApiAllowed(r)
    BY <1>6 DEF ChecksPassed
  <1>7. ASSUME NEW r \in Requests, handlePost(r) PROVE Goal
    <2>1. CASE unmarshal(req[r].body) = 202
      BY <1>2, <1>6, <1>7, <2>1 DEF handlePost, Answer, Justified, Whats
    <2>2. CASE unmarshal(req[r].body) # 202
      BY <1>3, <1>7, <2>2 DEF handlePost
    <2> QED
      BY <2>1, <2>2
  <1>8. ASSUME NEW r \in Requests, handleGet(r) PROVE Goal
    BY <1>2, <1>3, <1>6, <1>8 DEF handleGet, Answer, Justified, Whats
  <1>9. ASSUME NEW r \in Requests, handleDelete(r) PROVE Goal
    BY <1>2, <1>3, <1>6, <1>9 DEF handleDelete, Answer, Justified, Whats
  <1>10. ASSUME NEW r \in Requests, handleMethodNotAllowed(r) PROVE Goal
    BY <1>3, <1>10 DEF handleMethodNotAllowed
  <1>11. ASSUME NEW r \in Requests, checkOrigin(r) PROVE Goal
    BY <1>g, <1>3, <1>11 DEF checkOrigin, Phases
  <1>12. ASSUME NEW r \in Requests, Authorize(r) PROVE Goal
    <2>1. originAllowed(req[r].origin) /\ phase[r] # "done"
      BY <1>12 DEF Authorize, ChecksPassed
    <2> QED
      BY <1>g, <1>3, <1>12, <2>1 DEF Authorize, Phases
  <1>13. ASSUME NEW r \in Requests, upgrade(r) PROVE Goal
    <2>1. originAllowed(req[r].origin) /\ r \in granted
      BY <1>13 DEF upgrade, ChecksPassed
    <2> QED
      BY <1>2, <1>3, <1>13, <2>1 DEF upgrade, Answer, Justified, Whats
  <1>14. CASE UNCHANGED <<config, req, phase, effects, granted, status>>
    BY <1>14 DEF Goal, ChecksPassed, EffectsChecked, Justified, Acknowledged, ApiAllowed
  <1>15. CASE (\E a \in Addresses : Refill(a)) \/ UNCHANGED vars
    BY <1>14, <1>15 DEF Refill, vars
  <1> QED
    BY <1>4, <1>5, <1>7, <1>8, <1>9, <1>10, <1>11, <1>12, <1>13, <1>15 DEF Next, handle

(* The JSON API "fails closed": whatever is configured and however the     *)
(* requests interleave, nothing is published, read or deleted without the  *)
(* configured credentials, nobody connects past the origin list or without *)
(* a grant of the authorizer, and what was refused has had no effect.      *)
THEOREM AuthorizedCorrect == Spec => []EffectsAuthorized
  <1>1. Init => ChecksPassed /\ EffectsChecked
    BY DEF Init, ChecksPassed, EffectsChecked
  <1>2. FrontEndType /\ ChecksPassed /\ EffectsChecked /\ [Next]_vars
          => (ChecksPassed /\ EffectsChecked)'
    BY StepChecked
  <1>3. FrontEndType /\ EffectsChecked => EffectsAuthorized
    <2> SUFFICES ASSUME FrontEndType, EffectsChecked, NEW e \in effects
                 PROVE  /\ status[e[1]] \in {101, 200, 202}
                        /\ IF e[2] = "connect"
                           THEN originAllowed(req[e[1]].origin) /\ e[1] \in granted
                           ELSE ApiAllowed(e[1])
      BY DEF EffectsAuthorized, ApiAllowed
    <2>1. /\ e[1] \in Requests /\ e[2] \in {"publish", "read", "delete", "connect"}
          /\ e = <<e[1], e[2]>>
      BY DEF FrontEndType
    <2>2. PICK r \in Requests, what \in Whats : r = e[1] /\ what = e[2] /\ <<r, what>> \in effects
      BY <2>1 DEF Whats
    <2>3. Justified(r, what) /\ Acknowledged(r)
      BY <2>2 DEF EffectsChecked
    <2> QED
      BY <2>2, <2>3 DEF Justified, Acknowledged
  <1> QED
    BY <1>1, <1>2, <1>3, TypeCorrect, PTL DEF Spec

-----------------------------------------------------------------------------
(* The rate limit.  Requests of a client that have passed the limiter and  *)
(* whose credentials have not been looked at: each has paid for that.      *)
Unasked(c) ==
  {r \in Requests : req[r].client = c /\ phase[r] \in {"auth", "origin", "authorize"}}

Paid(c) ==
  /\ tokens[c] + used[c] = RateBurst + refills[c]
  /\ IsFiniteSet(Unasked(c))
  /\ asked[c] + Cardinality(Unasked(c)) <= used[c]
  /\ \A r \in Requests : status[r] = 429 /\ req[r].client = c => used[c] >= RateBurst

AllPaid == \A c \in Clients : Paid(c)

LimitPerClient == RateLimit /\ SafeHeaders

(* A step that neither uses the limiter nor looks at credentials. *)
LEMMA PaidKept ==
  ASSUME FrontEndType, NEW c \in Clients, Paid(c), UNCHANGED <<limitVars, asked, req>>,
         Unasked(c)' \subseteq Unasked(c),
         \A r \in Requests : status'[r] = 429 => status[r] = 429
  PROVE  Paid(c)'
  <1>1. IsFiniteSet(Unasked(c)') /\ Cardinality(Unasked(c)') <= Cardinality(Unasked(c))
    BY FS_Subset DEF Paid
  <1>2. Cardinality(Unasked(c)) \in Nat /\ Cardinality(Unasked(c)') \in Nat
    BY <1>1, FS_CardinalityType DEF Paid
  <1>3. asked[c] \in Nat /\ used[c] \in Nat
    BY DEF FrontEndType
  <1>4. /\ tokens'[c] + used'[c] = RateBurst + refills'[c]
        /\ asked'[c] = asked[c] /\ used'[c] = used[c]
    BY DEF Paid, limitVars
  <1>5. asked[c] + Cardinality(Unasked(c)') <= used[c]
    BY <1>1, <1>2, <1>3 DEF Paid
  <1>6. \A r \in Requests : status'[r] = 429 /\ req'[r].client = c => used'[c] >= RateBurst
    BY <1>4 DEF Paid
  <1> QED
    BY <1>1, <1>4, <1>5, <1>6 DEF Paid

(* What a new phase of one request means for the unasked ones. *)
LEMMA UnaskedKept ==
  ASSUME FrontEndType, NEW r \in Requests, NEW p, UNCHANGED req,
         phase' = [phase EXCEPT ![r] = p],
         p \in {"auth", "origin", "authorize"} => phase[r] \in {"auth", "origin", "authorize"},
         NEW c
  PROVE  Unasked(c)' \subseteq Unasked(c)
  BY DEF Unasked, FrontEndType

LEMMA UnaskedGrows ==
  ASSUME FrontEndType, NEW r \in Requests, NEW p \in {"auth", "origin"}, UNCHANGED req,
         phase[r] = "limit", phase' = [phase EXCEPT ![r] = p], NEW c
  PROVE  /\ req[r].client = c => r \notin Unasked(c) /\ Unasked(c)' = Unasked(c) \cup {r}
         /\ req[r].client # c => Unasked(c)' = Unasked(c)
  BY DEF Unasked, FrontEndType

LEMMA AllowPaid ==
  ASSUME FrontEndType, LimitPerClient, NEW r \in Requests, allow(r), NEW c \in Clients, Paid(c)
  PROVE  Paid(c)'
  <1>0. /\ tokens \in [Addresses -> Nat] /\ refills \in [Addresses -> Nat]
        /\ used \in [Clients -> Nat] /\ asked \in [Clients -> Nat]
        /\ status \in [Requests -> Int] /\ phase \in [Requests -> Phases]
        /\ Clients \subseteq Addresses
    BY DEF FrontEndType, Addresses
  <1>1. clientIP(r) = req[r].client /\ req[r].client \in Clients
    <2>1. req[r].client \in Clients /\ req[r].xff \in Seq(Addresses) /\ config \in ConfigType
      BY RequestClient DEF FrontEndType, RequestType
    <2>2. CASE config.proxy = "none" \/ ~config.TrustProxyHeaders
      <3>1. ~config.TrustProxyHeaders /\ config.proxy = "none"
        BY <2>1, <2>2 DEF LimitPerClient, SafeHeaders, Proxied, ConfigType
      <3> QED
        BY <2>1, <3>1 DEF Proxied, clientIP, remoteAddr
    <2>3. CASE config.proxy = "overwrite"
      <3>1. config.TrustProxyHeaders
        BY <2>1, <2>3 DEF LimitPerClient, SafeHeaders, Proxied, ConfigType
      <3> QED
        BY <2>1, <2>3, <3>1 DEF clientIP, XForwardedFor
    <2>4. CASE config.proxy \in {"append", "real-ip"} /\ config.TrustProxyHeaders
      <3>1. req[r].xff = << >>
        BY <2>4 DEF LimitPerClient, SafeHeaders, Proxied
      <3> QED
        BY <2>1, <2>4, <3>1 DEF clientIP, XForwardedFor, XRealIP
    <2> QED
      BY <2>1, <2>2, <2>3, <2>4 DEF ConfigType
  <1>2. CASE tokens[req[r].client] > 0
    <2>1. /\ phase[r] = "limit" /\ phase' = [phase EXCEPT ![r] = afterLimit(r)]
          /\ tokens' = [tokens EXCEPT ![req[r].client] = @ - 1]
          /\ used' = [used EXCEPT ![req[r].client] = @ + 1]
          /\ UNCHANGED <<req, status, refills, asked>>
      BY <1>1, <1>2 DEF allow, Go, LimitPerClient, authVars
    <2>2. afterLimit(r) \in {"auth", "origin"}
      BY DEF afterLimit
    <2>3. CASE req[r].client = c
      <3>1. r \notin Unasked(c) /\ Unasked(c)' = Unasked(c) \cup {r}
        BY <2>1, <2>2, <2>3, UnaskedGrows
      <3>2. /\ IsFiniteSet(Unasked(c)')
            /\ Cardinality(Unasked(c)') = Cardinality(Unasked(c)) + 1
        BY <3>1, FS_AddElement DEF Paid
      <3>3. Cardinality(Unasked(c)) \in Nat
        BY FS_CardinalityType DEF Paid
      <3>4. tokens'[c] = tokens[c] - 1 /\ used'[c] = used[c] + 1
        BY <1>0, <2>1, <2>3
      <3>5. /\ tokens[c] \in Nat /\ used[c] \in Nat /\ asked[c] \in Nat /\ refills[c] \in Nat
            /\ tokens[c] + used[c] = RateBurst + refills[c]
            /\ asked[c] + Cardinality(Unasked(c)) <= used[c]
        BY <1>0 DEF Paid
      <3>6. /\ tokens'[c] + used'[c] = RateBurst + refills'[c]
            /\ asked'[c] + Cardinality(Unasked(c)') <= used'[c]
        BY <2>1, <3>2, <3>3, <3>4, <3>5
      <3>7. \A q \in Requests : status'[q] = 429 /\ req'[q].client = c => used'[c] >= RateBurst
        BY <2>1, <3>4, <3>5 DEF Paid
      <3> QED
        BY <3>2, <3>6, <3>7 DEF Paid
    <2>4. CASE req[r].client # c
      <3>1. Unasked(c)' = Unasked(c)
        BY <2>1, <2>2, <2>4, UnaskedGrows
      <3>2. /\ tokens'[c] = tokens[c] /\ used'[c] = used[c]
            /\ refills'[c] = refills[c] /\ asked'[c] = asked[c]
        BY <1>0, <2>1, <2>4
      <3> QED
        BY <2>1, <3>1, <3>2 DEF Paid
    <2> QED
      BY <2>3, <2>4
  <1>3. CASE ~(tokens[req[r].client] > 0)
    <2>1. /\ phase' = [phase EXCEPT ![r] = "done"]
          /\ status' = [status EXCEPT ![r] = 429]
          /\ UNCHANGED <<req, limitVars, asked>>
      BY <1>1, <1>3 DEF allow, Answer, LimitPerClient, limitVars, authVars
    <2>2. Unasked(c)' \subseteq Unasked(c)
      BY <2>1, UnaskedKept
    <2>3. CASE req[r].client = c
      <3>1. used[c] >= RateBurst
        BY <1>0, <1>3, <2>3 DEF Paid
      <3>2. IsFiniteSet(Unasked(c)') /\ Cardinality(Unasked(c)') <= Cardinality(Unasked(c))
        BY <2>2, FS_Subset DEF Paid
      <3>3. Cardinality(Unasked(c)) \in Nat /\ Cardinality(Unasked(c)') \in Nat
        BY <3>2, FS_CardinalityType DEF Paid
      <3>4. /\ tokens'[c] + used'[c] = RateBurst + refills'[c]
            /\ asked'[c] = asked[c] /\ used'[c] = used[c]
        BY <2>1 DEF Paid, limitVars
      <3>5. asked[c] + Cardinality(Unasked(c)') <= used[c]
        BY <1>0, <3>2, <3>3 DEF Paid
      <3> QED
        BY <3>1, <3>2, <3>4, <3>5 DEF Paid
    <2>4. CASE req[r].client # c
      <3>1. \A q \in Requests : status'[q] = 429 /\ req'[q].client = c => used'[c] >= RateBurst
        BY <1>0, <2>1, <2>4 DEF Paid, limitVars
      <3>2. Unasked(c)' = Unasked(c)
        BY <1>0, <2>1, <2>4 DEF Unasked
      <3> QED
        BY <2>1, <3>1, <3>2 DEF Paid, limitVars
    <2> QED
      BY <2>3, <2>4
  <1> QED
    BY <1>2, <1>3

(* The credentials of a request are looked at. *)
LEMMA AskPaid ==
  ASSUME FrontEndType, NEW r \in Requests, phase[r] \in {"auth", "authorize"},
         NEW p \in {"api", "upgrade", "done"}, phase' = [phase EXCEPT ![r] = p],
         asked' = [asked EXCEPT ![req[r].client] = @ + 1], UNCHANGED <<req, limitVars>>,
         \A q \in Requests : status'[q] = 429 => status[q] = 429,
         NEW c \in Clients, Paid(c)
  PROVE  Paid(c)'
  <1>0. UNCHANGED req
    OBVIOUS
  <1>a. /\ req[r].client = c => r \in Unasked(c) /\ Unasked(c)' = Unasked(c) \ {r}
        /\ req[r].client # c => Unasked(c)' = Unasked(c)
    BY <1>0 DEF Unasked, FrontEndType
  <1>1. CASE req[r].client = c
    <2>1. r \in Unasked(c) /\ Unasked(c)' = Unasked(c) \ {r}
      BY <1>1, <1>a
    <2>2. /\ IsFiniteSet(Unasked(c)')
          /\ Cardinality(Unasked(c)') = Cardinality(Unasked(c)) - 1
      BY <2>1, FS_RemoveElement DEF Paid
    <2>3. Cardinality(Unasked(c)) \in Nat
      BY FS_CardinalityType DEF Paid
    <2>4. asked'[c] = asked[c] + 1 /\ asked[c] \in Nat /\ used[c] \in Nat
      BY <1>1 DEF FrontEndType
    <2>5. asked'[c] + Cardinality(Unasked(c)') <= used[c]
      BY <2>2, <2>3, <2>4 DEF Paid
    <2> QED
      BY <2>2, <2>5 DEF Paid, limitVars
  <1>2. CASE req[r].client # c
    <2>1. Unasked(c)' = Unasked(c) /\ asked'[c] = asked[c]
      BY <1>2, <1>a DEF FrontEndType
    <2> QED
      BY <2>1 DEF Paid, limitVars
  <1> QED
    BY <1>1, <1>2

LEMMA StepPaid == LimitPerClient /\ FrontEndType /\ AllPaid /\ [Next]_vars => AllPaid'
  <1> SUFFICES ASSUME LimitPerClient, FrontEndType, AllPaid, [Next]_vars, NEW c \in Clients
               PROVE  Paid(c)'
    BY DEF AllPaid
  <1>0. Paid(c) /\ status \in [Requests -> Int] /\ phase \in [Requests -> Phases]
    BY DEF AllPaid, FrontEndType
  <1>1. ASSUME NEW r \in Requests, NEW s \in Int, s # 429, Answer(r, s),
               UNCHANGED <<limitVars, authVars>>
        PROVE  Paid(c)'
    <2>1. Unasked(c)' \subseteq Unasked(c)
      BY <1>1, UnaskedKept DEF Answer
    <2>2. \A q \in Requests : status'[q] = 429 => status[q] = 429
      BY <1>0, <1>1 DEF Answer
    <2> QED
      BY <1>0, <1>1, <2>1, <2>2, PaidKept DEF Answer, authVars
  <1>2. ASSUME NEW r \in Requests, NEW p, Go(r, p), UNCHANGED <<limitVars, authVars>>,
               p \in {"auth", "origin", "authorize"} => phase[r] \in {"auth", "origin", "authorize"}
        PROVE  Paid(c)'
    <2>1. Unasked(c)' \subseteq Unasked(c)
      BY <1>2, UnaskedKept DEF Go
    <2> QED
      BY <1>0, <1>2, <2>1, PaidKept DEF Go, authVars
  <1>3. ASSUME NEW r \in Requests, ServeHTTP(r) PROVE Paid(c)'
    <2>1. CASE entry(req[r].path) # "done" /\ Go(r, entry(req[r].path))
      BY <1>2, <1>3, <2>1 DEF ServeHTTP, entry
    <2>2. ASSUME NEW s \in probe(req[r].path), Answer(r, s) PROVE Paid(c)'
      BY <1>1, <1>3, <2>2 DEF ServeHTTP, probe
    <2> QED
      BY <1>3, <2>1, <2>2 DEF ServeHTTP
  <1>4. ASSUME NEW r \in Requests, allow(r) PROVE Paid(c)'
    BY <1>0, <1>4, AllowPaid
  <1>5. ASSUME NEW r \in Requests, authorizeBackend(r) PROVE Paid(c)'
    <2>1. verdict(r) \in Int /\ verdict(r) # 429
      BY DEF verdict
    <2>2. CASE Go(r, "api")
      BY <1>0, <1>5, <2>2, AskPaid DEF authorizeBackend, Go
    <2>3. CASE Answer(r, verdict(r))
      <3>1. \A q \in Requests : status'[q] = 429 => status[q] = 429
        BY <1>0, <2>1, <2>3 DEF Answer
      <3>2. /\ phase[r] = "auth" /\ phase' = [phase EXCEPT ![r] = "done"]
            /\ asked' = [asked EXCEPT ![req[r].client] = @ + 1]
            /\ UNCHANGED <<req, limitVars>>
        BY <1>5, <2>3 DEF authorizeBackend, Answer
      <3> QED
        BY <1>0, <3>1, <3>2, AskPaid
    <2> QED
      BY <1>5, <2>2, <2>3 DEF authorizeBackend
  <1>6. ASSUME NEW r \in Requests, handlePost(r) PROVE Paid(c)'
    <2>1. unmarshal(req[r].body) \in Int /\ unmarshal(req[r].body) # 429
      BY DEF unmarshal, Aborted
    <2> QED
      BY <1>1, <1>6, <2>1 DEF handlePost
  <1>7. ASSUME NEW r \in Requests,
               handleGet(r) \/ handleDelete(r) \/ handleMethodNotAllowed(r) \/ upgrade(r)
        PROVE  Paid(c)'
    BY <1>1, <1>7 DEF handleGet, handleDelete, handleMethodNotAllowed, upgrade
  <1>8. ASSUME NEW r \in Requests, checkOrigin(r) PROVE Paid(c)'
    BY <1>1, <1>2, <1>8 DEF checkOrigin
  <1>9. ASSUME NEW r \in Requests, Authorize(r) PROVE Paid(c)'
    <2>1. CASE Go(r, "upgrade")
      <3>1. /\ phase[r] = "authorize" /\ phase' = [phase EXCEPT ![r] = "upgrade"]
            /\ asked' = [asked EXCEPT ![req[r].client] = @ + 1]
            /\ UNCHANGED <<req, status, limitVars>>
        BY <1>9, <2>1 DEF Authorize, Go
      <3> QED
        BY <1>0, <3>1, AskPaid
    <2>2. CASE Answer(r, 401)
      <3>1. \A q \in Requests : status'[q] = 429 => status[q] = 429
        BY <1>0, <2>2 DEF Answer
      <3>2. /\ phase[r] = "authorize" /\ phase' = [phase EXCEPT ![r] = "done"]
            /\ asked' = [asked EXCEPT ![req[r].client] = @ + 1]
            /\ UNCHANGED <<req, limitVars>>
        BY <1>9, <2>2 DEF Authorize, Answer
      <3> QED
        BY <1>0, <3>1, <3>2, AskPaid
    <2> QED
      BY <1>9, <2>1, <2>2 DEF Authorize
  <1>10. ASSUME NEW a \in Addresses, Refill(a) PROVE Paid(c)'
    <2>1. tokens'[c] + used'[c] = RateBurst + refills'[c]
      BY <1>0, <1>10 DEF Refill, Paid, FrontEndType, Addresses
    <2> QED
      BY <1>0, <1>10, <2>1 DEF Refill, Paid, Unasked, authVars
  <1>11. CASE UNCHANGED vars
    BY <1>0, <1>11 DEF vars, limitVars, authVars, Paid, Unasked
  <1> QED
    BY <1>3, <1>4, <1>5, <1>6, <1>7, <1>8, <1>9, <1>10, <1>11 DEF Next, handle

(* The rate limit is per client, directly or behind a trusted proxy whose  *)
(* header no client can lead: it stands before every look at credentials, and nobody is  *)
(* refused because of what others sent, for any number of requests.        *)
THEOREM LimitCorrect == Spec => []LimitedPerClient
  <1>1. Init => (LimitPerClient => AllPaid)
    <2> SUFFICES ASSUME Init, NEW c \in Clients PROVE Paid(c)
      BY DEF AllPaid
    <2>1. Unasked(c) = {}
      BY DEF Init, Unasked
    <2> QED
      BY <2>1, FS_EmptySet DEF Init, Paid, Addresses, NotYet
  <1>2. FrontEndType /\ (LimitPerClient => AllPaid) /\ [Next]_vars => (LimitPerClient => AllPaid)'
    <2> SUFFICES ASSUME FrontEndType, LimitPerClient => AllPaid, [Next]_vars, LimitPerClient'
                 PROVE  AllPaid'
      OBVIOUS
    <2>1. UNCHANGED <<config, req>>
      BY DEF Next, handle, ServeHTTP, allow, authorizeBackend, handlePost, handleGet, handleDelete,
         handleMethodNotAllowed, checkOrigin, Authorize, upgrade, Go, Answer, Refill, vars
    <2>2. LimitPerClient
      BY <2>1 DEF LimitPerClient, SafeHeaders, Proxied
    <2> QED
      BY <2>2, StepPaid
  <1>3. FrontEndType /\ (LimitPerClient => AllPaid) => LimitedPerClient
    <2> SUFFICES ASSUME FrontEndType, AllPaid, NEW c \in Clients
                 PROVE  /\ asked[c] <= RateBurst + refills[c]
                        /\ (\E r \in Requests : status[r] = 429 /\ req[r].client = c)
                             => used[c] >= RateBurst
      BY DEF LimitedPerClient, LimitPerClient
    <2>1. Paid(c) /\ Cardinality(Unasked(c)) \in Nat
      BY FS_CardinalityType DEF AllPaid, Paid
    <2>2. asked[c] \in Nat /\ used[c] \in Nat /\ tokens[c] \in Nat /\ refills[c] \in Nat
      BY DEF FrontEndType, Addresses
    <2> QED
      BY <2>1, <2>2 DEF Paid
  <1> QED
    BY <1>1, <1>2, <1>3, TypeCorrect, PTL DEF Spec

=============================================================================
