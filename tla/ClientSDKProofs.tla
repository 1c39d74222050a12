-------------------------- MODULE ClientSDKProofs --------------------------
(***************************************************************************)
(* Proofs about the reference clients, for any messages, limits and        *)
(* numbers of faults: which duplicates reach the application, how long a   *)
(* client waits, when it gives up, and which sessions a stopped one still  *)
(* opens.                                                                  *)
(***************************************************************************)
EXTENDS ClientSDK, FiniteSetTheorems, WellFoundedInduction, TLAPS

(* The variables that the properties are about keep their types. *)
ClientType ==
  /\ lang \in Langs /\ maxRetries \in RetryLimits
  /\ phase \in {"dialing", "open", "waiting", "ended"}
  /\ retries \in Nat /\ fails \in Nat /\ late \in Nat
  /\ seenOrder \in Seq(Msgs) /\ calls \in Seq(Msgs)

USE ClientAssumption

LEMMA InitType == Init => ClientType
  BY DEF Init, ClientType

(* The end of a session, whichever way it came about. *)
LEMMA SessionEnds ==
  ASSUME ClientType, EndSession
  PROVE  /\ fails' = fails + 1 /\ fails' \in Nat /\ retries' \in Nat
         /\ \/ phase' = "ended" /\ (Exhausted \/ stopped)
            \/ phase' = "waiting" /\ (Limited => retries' = retries + 1)
         /\ late' = late
  BY DEF ClientType, EndSession, Finished, retryVars

LEMMA StepType == ClientType /\ [Next]_vars => ClientType'
  <1> SUFFICES ASSUME ClientType, [Next]_vars PROVE ClientType'
    OBVIOUS
  <1> USE DEF ClientType, options, retryVars, seenVars, stopVars, clientVars
  <1>1. ASSUME DialFail \/ Drop \/ (\E m \in Msgs : AckFail(m)) PROVE ClientType'
    <2>1. EndSession /\ UNCHANGED <<lang, maxRetries, seenOrder, calls>>
      BY <1>1 DEF DialFail, Drop, AckFail, afterAckFail
    <2> QED
      BY <2>1, SessionEnds
  <1>2. CASE DialOk
    BY <1>2 DEF DialOk, reset
  <1>3. CASE WaitOver
    BY <1>3 DEF WaitOver, afterWait
  <1>4. CASE Stop
    BY <1>4 DEF Stop
  <1>5. ASSUME NEW m \in Msgs, Deliver(m) \/ AckRead(m) \/ AckDelete(m) PROVE ClientType'
    BY <1>5 DEF Deliver, AckRead, AckDelete
  <1>6. ASSUME NEW m \in Msgs, Receive(m) PROVE ClientType'
    <2>1. seenOrder' \in Seq(Msgs) /\ calls' \in Seq(Msgs)
      <3>1. seenOrder \in Seq(Msgs) /\ calls \in Seq(Msgs)
        OBVIOUS
      <3>2. Len(seenOrder) >= DedupeLimit => Tail(seenOrder) \in Seq(Msgs)
        OBVIOUS
      <3>3. remember(m) \in Seq(Msgs)
        <4>1. CASE Len(seenOrder) >= DedupeLimit
          BY <3>2, <4>1 DEF remember
        <4>2. CASE ~(Len(seenOrder) >= DedupeLimit)
          BY <3>1, <4>2 DEF remember
        <4> QED
          BY <4>1, <4>2
      <3>4. Append(calls, m) \in Seq(Msgs)
        BY <3>1
      <3>5. \/ UNCHANGED <<seenOrder, calls>>
            \/ seenOrder' = remember(m) /\ calls' = Append(calls, m)
        BY <1>6 DEF Receive, markSeen
      <3> QED
        BY <3>1, <3>3, <3>4, <3>5
    <2> QED
      BY <1>6, <2>1 DEF Receive
  <1>7. CASE UNCHANGED vars
    BY <1>7 DEF vars
  <1> QED
    BY <1>1, <1>2, <1>3, <1>4, <1>5, <1>6, <1>7 DEF Next, Client

-----------------------------------------------------------------------------
(* Giving up.  Without the resets, which Go leaves out, retries would not  *)
(* be the number of attempts that failed in a row.                         *)
RetriesCounted == lang # "go" /\ phase # "ended" /\ Limited => retries = fails

GiveUpInv == ClientType /\ RetriesCounted /\ GivesUpAfterFailures

(* A client that was not stopped gives up only after more than MaxRetries  *)
(* failures since a connection was open, JavaScript, or not at all,        *)
(* Python, for every limit and any order of failures, connections, stops.  *)
THEOREM GivesUpCorrect == Spec => []GivesUpAfterFailures
  <1>1. Init => GiveUpInv
    BY InitType DEF Init, GiveUpInv, RetriesCounted, GivesUpAfterFailures, GivesUpEarly
  <1>2. GiveUpInv /\ [Next]_vars => GiveUpInv'
    <2> SUFFICES ASSUME GiveUpInv, [Next]_vars PROVE RetriesCounted' /\ GivesUpAfterFailures'
      BY StepType DEF GiveUpInv
    <2>0. ClientType /\ RetriesCounted /\ GivesUpAfterFailures
      BY DEF GiveUpInv
    <2> USE DEF options, retryVars, stopVars, clientVars, RetriesCounted, GivesUpAfterFailures,
            GivesUpEarly, Limited
    <2>1. ASSUME DialFail \/ Drop \/ (\E m \in Msgs : AckFail(m))
          PROVE  RetriesCounted' /\ GivesUpAfterFailures'
      <3>1. EndSession /\ UNCHANGED <<lang, maxRetries, stopped>> /\ phase # "ended"
        BY <2>1 DEF DialFail, Drop, AckFail
      <3>2. /\ fails' = fails + 1 /\ fails' \in Nat /\ retries' \in Nat
            /\ \/ phase' = "ended" /\ (Exhausted \/ stopped)
               \/ phase' = "waiting" /\ (Limited => retries' = retries + 1)
        BY <2>0, <3>1, SessionEnds
      <3>3. maxRetries \in Nat \cup {Infinity} /\ retries \in Nat /\ fails \in Nat
        BY <2>0 DEF ClientType
      <3> QED
        BY <2>0, <3>1, <3>2, <3>3 DEF Exhausted, Infinity
    <2>2. CASE DialOk
      BY <2>0, <2>2 DEF DialOk, reset
    <2>3. CASE WaitOver
      BY <2>0, <2>3 DEF WaitOver, afterWait
    <2>4. CASE Stop
      BY <2>0, <2>4 DEF Stop
    <2>5. ASSUME NEW m \in Msgs, Deliver(m) \/ AckRead(m) \/ AckDelete(m) \/ Receive(m)
          PROVE  RetriesCounted' /\ GivesUpAfterFailures'
      BY <2>0, <2>5 DEF Deliver, AckRead, AckDelete, Receive
    <2>6. CASE UNCHANGED vars
      BY <2>0, <2>6 DEF vars
    <2> QED
      BY <2>1, <2>2, <2>3, <2>4, <2>5, <2>6 DEF Next, Client
  <1> QED
    BY <1>1, <1>2, PTL DEF Spec, GiveUpInv

(* Stopping.  A session may still open if the client is dialing and nobody *)
(* closed that socket, or if JavaScript's timer is running.                *)
Opening ==
  IF (phase = "dialing" /\ ~closing) \/ (phase = "waiting" /\ lang = "js") THEN 1 ELSE 0

StopBudget ==
  /\ closing => stopped /\ lang = "js"
  /\ ~stopped => late = 0
  /\ stopped => late + Opening <= Unstopped

LEMMA StepStop == ClientType /\ StopBudget /\ [Next]_vars => StopBudget'
  <1> SUFFICES ASSUME ClientType, StopBudget, [Next]_vars PROVE StopBudget'
    OBVIOUS
  <1>0. late \in Nat /\ phase \in {"dialing", "open", "waiting", "ended"} /\ lang \in {"go", "js", "py"}
    BY DEF ClientType
  <1> USE DEF options, stopVars, clientVars, StopBudget, Opening, Unstopped
  <1>1. ASSUME DialFail \/ Drop \/ (\E m \in Msgs : AckFail(m)) PROVE StopBudget'
    <2>1. EndSession /\ UNCHANGED <<lang, stopped, closing, stopAt>>
      BY <1>1 DEF DialFail, Drop, AckFail
    <2>2. /\ late' = late /\ phase' \in {"waiting", "ended"}
          /\ stopped /\ lang = "js" => phase' = "ended"
      BY <2>1 DEF EndSession, Finished
    <2> QED
      BY <1>0, <2>1, <2>2
  <1>2. CASE DialOk
    BY <1>0, <1>2 DEF DialOk
  <1>3. CASE WaitOver
    BY <1>0, <1>3 DEF WaitOver, afterWait
  <1>4. CASE Stop
    <2>1. /\ UNCHANGED <<lang, phase, late>> /\ late = 0 /\ stopAt' = phase
          /\ phase # "ended" /\ stopped'
      BY <1>4 DEF Stop
    <2>2. closing' <=> lang = "js" /\ phase # "waiting"
      BY <1>4 DEF Stop
    <2>3. Opening' <= Unstopped'
      BY <1>0, <2>1, <2>2
    <2> QED
      BY <1>0, <2>1, <2>2, <2>3
  <1>5. ASSUME NEW m \in Msgs, Deliver(m) \/ AckRead(m) \/ AckDelete(m) \/ Receive(m)
        PROVE  StopBudget'
    BY <1>0, <1>5 DEF Deliver, AckRead, AckDelete, Receive
  <1>6. CASE UNCHANGED vars
    BY <1>0, <1>6 DEF vars
  <1> QED
    BY <1>1, <1>2, <1>3, <1>4, <1>5, <1>6 DEF Next, Client

(* A client that was stopped opens no session but the one it was dialing   *)
(* (Go, Python) or the one that its timer was to dial (JavaScript), and    *)
(* after that none, for every limit and any order of failures.             *)
THEOREM StopCorrect == Spec => []StopsReconnecting
  <1>1. Init => StopBudget
    BY DEF Init, StopBudget
  <1>2. ClientType /\ StopBudget => StopsReconnecting
    BY DEF ClientType, StopBudget, StopsReconnecting, Opening, Unstopped
  <1> QED
    BY <1>1, <1>2, InitType, StepType, StepStop, PTL DEF Spec

-----------------------------------------------------------------------------
(* Induction over the naturals, for a set instead of an operator: a set of *)
(* naturals has a least element, because < is well founded.                *)
LEMMA LeastElement ==
  ASSUME NEW T, T \subseteq Nat, T # {}
  PROVE  \E x \in T : \A y \in T : x <= y
  <1> DEFINE Less == {p \in Nat \X Nat : p[1] < p[2]}
  <1>1. OpToRel(<, Nat) = Less
    BY DEF OpToRel
  <1>2. IsWellFoundedOn(Less, Nat)
    BY <1>1, NatLessThanWellFounded
  <1>3. PICK x \in T : \A y \in T : <<y, x>> \notin Less
    <2> HIDE DEF Less
    <2> QED
      BY <1>2, WFMin
  <1>4. ASSUME NEW y \in T PROVE x <= y
    <2>1. x \in Nat /\ y \in Nat /\ <<y, x>> \in Nat \X Nat
      OBVIOUS
    <2>2. ~(y < x)
      BY <1>3, <2>1
    <2> QED
      BY <2>1, <2>2
  <1> QED
    BY <1>4

LEMMA InductionSet ==
  ASSUME NEW S, 0 \in S, \A n \in Nat : n \in S => n + 1 \in S
  PROVE  Nat \subseteq S
  <1> SUFFICES ASSUME Nat \ S # {} PROVE FALSE
    OBVIOUS
  <1>1. PICK x \in Nat \ S : \A y \in Nat \ S : x <= y
    BY LeastElement
  <1>2. x # 0 /\ x - 1 \in Nat /\ x - 1 \in S
    BY <1>1
  <1>3. (x - 1) + 1 \in S /\ (x - 1) + 1 = x
    BY <1>2
  <1> QED
    BY <1>3

-----------------------------------------------------------------------------
(* The recursive definition of Power has a solution: its beginnings exist, *)
(* one continues the other, and their ends make up the function.           *)
Doubling(g, n) ==
  g \in [0..n -> Nat] /\ g[0] = 1 /\ \A i \in 1..n : g[i] = 2 * g[i - 1]

LEMMA DoublingExists == \A n \in Nat : \E g : Doubling(g, n)
  <1> DEFINE S == {n \in Nat : \E g : Doubling(g, n)}
  <1>1. 0 \in S
    <2>1. Doubling([i \in 0..0 |-> 1], 0)
      BY DEF Doubling
    <2> QED
      BY <2>1
  <1>2. ASSUME NEW n \in Nat, n \in S PROVE n + 1 \in S
    <2>1. PICK g : Doubling(g, n)
      BY <1>2
    <2> DEFINE h == [i \in 0 .. n + 1 |-> IF i <= n THEN g[i] ELSE 2 * g[n]]
    <2>2. h \in [0 .. n + 1 -> Nat]
      BY <2>1 DEF Doubling
    <2>3. h[0] = 1
      BY <2>1 DEF Doubling
    <2>4. ASSUME NEW i \in 1 .. n + 1 PROVE h[i] = 2 * h[i - 1]
      <3>1. CASE i <= n
        BY <2>1, <3>1 DEF Doubling
      <3>2. CASE i = n + 1
        BY <2>1, <3>2 DEF Doubling
      <3> QED
        BY <3>1, <3>2
    <2> HIDE DEF h
    <2>5. Doubling(h, n + 1)
      BY <2>2, <2>3, <2>4 DEF Doubling
    <2> QED
      BY <2>5
  <1> HIDE DEF S
  <1>3. Nat \subseteq S
    BY <1>1, <1>2, InductionSet
  <1> QED
    BY <1>3 DEF S

LEMMA DoublingUnique ==
  ASSUME NEW m \in Nat, NEW h, Doubling(h, m)
  PROVE  \A n \in Nat : \A g : n <= m /\ Doubling(g, n) => g[n] = h[n]
  <1> DEFINE S == {n \in Nat : \A g : n <= m /\ Doubling(g, n) => g[n] = h[n]}
  <1>1. 0 \in S
    BY DEF Doubling
  <1>2. ASSUME NEW n \in Nat, n \in S PROVE n + 1 \in S
    <2>1. ASSUME NEW g, n + 1 <= m, Doubling(g, n + 1) PROVE g[n + 1] = h[n + 1]
      <3> DEFINE f == [i \in 0..n |-> g[i]]
      <3>1. Doubling(f, n)
        <4>1. f \in [0..n -> Nat] /\ f[0] = 1
          <5>1. g \in [0 .. n + 1 -> Nat] /\ g[0] = 1
            BY <2>1 DEF Doubling
          <5>2. \A i \in 0..n : i \in 0 .. n + 1
            OBVIOUS
          <5>3. \A i \in 0..n : g[i] \in Nat
            BY <5>1, <5>2
          <5> QED
            BY <5>1, <5>3
        <4>2. ASSUME NEW i \in 1..n PROVE f[i] = 2 * f[i - 1]
          <5>1. i \in 1 .. n + 1 /\ i \in 0..n /\ i - 1 \in 0..n
            OBVIOUS
          <5>2. g[i] = 2 * g[i - 1]
            BY <2>1, <5>1 DEF Doubling
          <5>3. f[i] = g[i] /\ f[i - 1] = g[i - 1]
            BY <5>1
          <5> QED
            BY <5>2, <5>3
        <4> HIDE DEF f
        <4> QED
          BY <4>1, <4>2 DEF Doubling
      <3>2. f[n] = g[n]
        OBVIOUS
      <3> HIDE DEF f
      <3>3. n <= m /\ \A e : n <= m /\ Doubling(e, n) => e[n] = h[n]
        BY <1>2, <2>1
      <3>4. f[n] = h[n]
        BY <3>1, <3>3
      <3>5. g[n + 1] = 2 * g[n]
        BY <2>1 DEF Doubling
      <3>6. h[n + 1] = 2 * h[n]
        BY <2>1 DEF Doubling
      <3> QED
        BY <3>2, <3>4, <3>5, <3>6
    <2> QED
      BY <2>1
  <1> HIDE DEF S
  <1>3. Nat \subseteq S
    BY <1>1, <1>2, InductionSet
  <1> QED
    BY <1>3 DEF S

(* Power of a sum of one is twice the power, and powers are positive. *)
LEMMA PowerDoubles ==
  /\ Power[0] = 1
  /\ \A n \in Nat : Power[n] \in Nat /\ Power[n] > 0 /\ Power[n + 1] = 2 * Power[n]
  <1> DEFINE G(n) == CHOOSE g : Doubling(g, n)
             f == [n \in Nat |-> G(n)[n]]
  <1>1. \A n \in Nat : Doubling(G(n), n)
    BY DoublingExists
  <1> HIDE DEF G
  <1>2. f[0] = 1
    BY <1>1 DEF Doubling
  <1>3. ASSUME NEW n \in Nat, n # 0 PROVE f[n] = 2 * f[n - 1]
    <2>1. n - 1 \in Nat /\ n - 1 <= n
      BY <1>3
    <2>2. G(n)[n] = 2 * G(n)[n - 1]
      BY <1>1, <1>3 DEF Doubling
    <2>3. G(n - 1)[n - 1] = G(n)[n - 1]
      BY <1>1, <2>1, DoublingUnique
    <2> QED
      BY <2>1, <2>2, <2>3
  <1>4. f = [n \in Nat |-> IF n = 0 THEN 1 ELSE 2 * f[n - 1]]
    BY <1>2, <1>3
  <1> HIDE DEF f
  <1>5. Power = [n \in Nat |-> IF n = 0 THEN 1 ELSE 2 * Power[n - 1]]
    BY <1>4 DEF Power
  <1>6. Power[0] = 1
    BY <1>5
  <1>7. ASSUME NEW n \in Nat PROVE Power[n + 1] = 2 * Power[n]
    <2>1. n + 1 \in Nat /\ n + 1 # 0 /\ (n + 1) - 1 = n
      OBVIOUS
    <2>2. Power[n + 1] = 2 * Power[(n + 1) - 1]
      BY <1>5, <2>1
    <2> QED
      BY <2>1, <2>2
  <1>8. \A n \in Nat : Power[n] \in Nat /\ Power[n] > 0
    <2> DEFINE S == {n \in Nat : Power[n] \in Nat /\ Power[n] > 0}
    <2>1. 0 \in S
      BY <1>6
    <2>2. ASSUME NEW n \in Nat, n \in S PROVE n + 1 \in S
      <3>1. Power[n + 1] = 2 * Power[n] /\ Power[n] \in Nat /\ Power[n] > 0
        BY <1>7, <2>2
      <3> QED
        BY <3>1
    <2> HIDE DEF S
    <2>3. Nat \subseteq S
      BY <2>1, <2>2, InductionSet
    <2> QED
      BY <2>3 DEF S
  <1> QED
    BY <1>6, <1>7, <1>8

-----------------------------------------------------------------------------
(* The delay.  JavaScript doubles it when a session ends, Python when the  *)
(* wait is over; so what the next attempt would wait is, but for Python    *)
(* while it waits, one doubling ahead of the delay.                        *)
BackoffGrows ==
  lang # "go" /\ phase # "ended" =>
    /\ phase = "waiting" => fails > 0 /\ delay = Capped(Power[fails - 1])
    /\ phase = "open" => fails = 0
    /\ backoff = IF lang # "js" /\ phase = "waiting" THEN delay ELSE Capped(Power[fails])

LEMMA CappedDoubles ==
  ASSUME NEW n \in Nat, backoff = Capped(Power[n])
  PROVE  Doubled = Capped(Power[n + 1])
  <1>1. Power[n] \in Nat /\ Power[n] > 0 /\ Power[n + 1] = 2 * Power[n]
    BY PowerDoubles
  <1> QED
    BY <1>1 DEF Doubled, Capped

LEMMA StepBackoff == ClientType /\ BackoffGrows /\ [Next]_vars => BackoffGrows'
  <1> SUFFICES ASSUME ClientType, BackoffGrows, [Next]_vars, lang' # "go", phase' # "ended"
               PROVE  BackoffGrows'
    BY DEF BackoffGrows
  <1>0. fails \in Nat /\ lang \in {"go", "js", "py"}
    BY DEF ClientType
  <1> USE DEF options, retryVars, stopVars, clientVars
  <1>1. ASSUME DialFail \/ Drop \/ (\E m \in Msgs : AckFail(m)) PROVE BackoffGrows'
    <2>1. /\ EndSession /\ lang' = lang /\ lang # "go"
          /\ phase \in {"dialing", "open"}
      BY <1>1 DEF DialFail, Drop, AckFail
    <2>2. backoff = Capped(Power[fails])
      BY <2>1 DEF BackoffGrows
    <2>3. /\ phase' = "waiting" /\ fails' = fails + 1 /\ delay' = backoff
          /\ backoff' = IF lang = "js" THEN Doubled ELSE backoff
      BY <2>1 DEF EndSession
    <2>4. Doubled = Capped(Power[fails + 1])
      BY <1>0, <2>2, CappedDoubles
    <2>5. (fails + 1) - 1 = fails /\ fails + 1 > 0
      BY <1>0
    <2>6. Capped(Power[fails' - 1]) = Capped(Power[fails])
      BY <2>3, <2>5
    <2>7. delay' = Capped(Power[fails' - 1])
      BY <2>2, <2>3, <2>6
    <2>8. backoff' = IF lang' # "js" /\ phase' = "waiting" THEN delay' ELSE Capped(Power[fails'])
      BY <2>1, <2>3, <2>4
    <2> QED
      BY <2>3, <2>5, <2>7, <2>8 DEF BackoffGrows, Capped
  <1>2. CASE DialOk
    <2>1. Capped(Power[0]) = 1
      BY PowerDoubles DEF Capped
    <2> QED
      BY <1>2, <2>1 DEF DialOk, reset, BackoffGrows, Capped
  <1>3. CASE WaitOver
    <2>1. /\ phase = "waiting" /\ UNCHANGED <<lang, fails>> /\ phase' = "dialing"
          /\ backoff' = IF lang = "js" THEN backoff ELSE Doubled
      BY <1>3 DEF WaitOver, afterWait
    <2>2. /\ fails - 1 \in Nat /\ (fails - 1) + 1 = fails /\ delay = Capped(Power[fails - 1])
          /\ backoff = IF lang # "js" THEN delay ELSE Capped(Power[fails])
      BY <1>0, <2>1 DEF BackoffGrows
    <2>3. lang # "js" => Doubled = Capped(Power[fails])
      BY <2>2, CappedDoubles
    <2> QED
      BY <2>1, <2>2, <2>3 DEF BackoffGrows, Capped
  <1>4. CASE Stop
    BY <1>4 DEF Stop, BackoffGrows, Capped
  <1>5. ASSUME NEW m \in Msgs, Deliver(m) \/ AckRead(m) \/ AckDelete(m) \/ Receive(m)
        PROVE  BackoffGrows'
    BY <1>5 DEF Deliver, AckRead, AckDelete, Receive, BackoffGrows, Capped
  <1>6. CASE UNCHANGED vars
    BY <1>6 DEF vars, BackoffGrows, Capped
  <1> QED
    BY <1>1, <1>2, <1>3, <1>4, <1>5, <1>6 DEF Next, Client

(* The delay before the n-th attempt in a row is 2^(n-1) or the limit, in  *)
(* JavaScript and Python, for every limit and any number of failures; a    *)
(* connection that was open starts it anew.                                *)
THEOREM BackoffCorrect == Spec => []BackoffFollowsFailures
  <1>1. Init => BackoffGrows
    <2>1. Capped(Power[0]) = 1
      BY PowerDoubles DEF Capped
    <2> QED
      BY <2>1 DEF Init, BackoffGrows
  <1>2. BackoffGrows => BackoffFollowsFailures
    BY DEF BackoffGrows, BackoffFollowsFailures
  <1> QED
    BY <1>1, <1>2, InitType, StepType, StepBackoff, PTL DEF Spec

-----------------------------------------------------------------------------
(* De-duplication: what is remembered are the last DedupeLimit calls, or   *)
(* all of them, so that no call repeats one of the DedupeLimit before it.  *)
RememberedLast ==
  /\ Len(seenOrder) = IF Len(calls) < DedupeLimit THEN Len(calls) ELSE DedupeLimit
  /\ \A n \in 1..Len(seenOrder) : seenOrder[n] = calls[Len(calls) - Len(seenOrder) + n]

NoRepeatInWindow ==
  \A i, j \in 1..Len(calls) : i < j /\ j - i <= DedupeLimit => calls[i] # calls[j]

DedupeInv == ClientType /\ RememberedLast /\ NoRepeatInWindow

(* Where one of the last calls is remembered. *)
LEMMA WindowPlace ==
  ASSUME NEW c \in Nat, NEW s \in Nat, NEW d \in Nat, s = IF c < d THEN c ELSE d,
         NEW i \in 1..c, (c + 1) - i <= d
  PROVE  i - (c - s) \in 1..s /\ c - s + (i - (c - s)) = i
  OBVIOUS

LEMMA StepDedupe == DedupeInv /\ [Next]_vars => DedupeInv'
  <1> SUFFICES ASSUME DedupeInv, [Next]_vars PROVE RememberedLast' /\ NoRepeatInWindow'
    BY StepType DEF DedupeInv
  <1>0. ClientType /\ RememberedLast /\ NoRepeatInWindow
    BY DEF DedupeInv
  <1>1. ASSUME UNCHANGED <<seenOrder, calls>> PROVE RememberedLast' /\ NoRepeatInWindow'
    BY <1>0, <1>1 DEF RememberedLast, NoRepeatInWindow
  <1>2. ASSUME NEW m \in Msgs, m \notin Seen, seenOrder' = remember(m), calls' = Append(calls, m)
        PROVE  RememberedLast' /\ NoRepeatInWindow'
    <2> DEFINE s == Len(seenOrder)
               c == Len(calls)
    <2>1. /\ seenOrder \in Seq(Msgs) /\ calls \in Seq(Msgs) /\ s \in Nat /\ c \in Nat
          /\ DedupeLimit \in Nat /\ DedupeLimit > 0
      BY <1>0 DEF ClientType
    <2>2. /\ s = IF c < DedupeLimit THEN c ELSE DedupeLimit
          /\ \A n \in 1..s : seenOrder[n] = calls[c - s + n]
      BY <1>0 DEF RememberedLast
    <2>3. /\ Len(calls') = c + 1 /\ calls'[c + 1] = m
          /\ \A n \in 1..c : calls'[n] = calls[n]
      BY <1>2, <2>1
    <2>4. RememberedLast'
      <3>1. CASE s >= DedupeLimit
        <4>1. /\ seenOrder' = Append(Tail(seenOrder), m) /\ s = DedupeLimit /\ c >= DedupeLimit
          BY <1>2, <2>1, <2>2, <3>1 DEF remember
        <4>2. /\ Tail(seenOrder) \in Seq(Msgs) /\ Len(Tail(seenOrder)) = s - 1
              /\ \A n \in 1 .. s - 1 : Tail(seenOrder)[n] = seenOrder[n + 1]
          BY <2>1, <4>1
        <4>3. /\ Len(seenOrder') = s /\ seenOrder'[s] = m
              /\ \A n \in 1 .. s - 1 : seenOrder'[n] = seenOrder[n + 1]
          BY <2>1, <4>1, <4>2
        <4>4. ASSUME NEW n \in 1..s PROVE seenOrder'[n] = calls'[(c + 1) - s + n]
          <5>1. CASE n = s
            BY <2>1, <2>3, <4>3, <5>1
          <5>2. CASE n \in 1 .. s - 1
            <6>1. n + 1 \in 1..s /\ c - s + (n + 1) \in 1..c /\ (c + 1) - s + n = c - s + (n + 1)
              BY <2>1, <4>1, <5>2
            <6>2. seenOrder'[n] = calls[c - s + (n + 1)]
              BY <2>2, <4>3, <5>2, <6>1
            <6> QED
              BY <2>3, <6>1, <6>2
          <5> QED
            BY <2>1, <5>1, <5>2
        <4>5. Len(seenOrder') = IF Len(calls') < DedupeLimit THEN Len(calls') ELSE DedupeLimit
          BY <2>1, <2>3, <4>1, <4>3
        <4>6. \A n \in 1..Len(seenOrder') : seenOrder'[n] = calls'[Len(calls') - Len(seenOrder') + n]
          BY <2>3, <4>3, <4>4
        <4> QED
          BY <4>5, <4>6 DEF RememberedLast
      <3>2. CASE s < DedupeLimit
        <4>1. seenOrder' = Append(seenOrder, m) /\ s = c
          BY <1>2, <2>1, <2>2, <3>2 DEF remember
        <4>2. /\ Len(seenOrder') = s + 1 /\ seenOrder'[s + 1] = m
              /\ \A n \in 1..s : seenOrder'[n] = seenOrder[n]
          BY <2>1, <4>1
        <4>3. ASSUME NEW n \in 1 .. s + 1 PROVE seenOrder'[n] = calls'[(c + 1) - (s + 1) + n]
          <5>1. (c + 1) - (s + 1) + n = n
            BY <2>1, <4>1
          <5>2. CASE n = s + 1
            BY <2>3, <4>1, <4>2, <5>1, <5>2
          <5>3. CASE n \in 1..s
            <6>1. c - s + n = n
              BY <2>1, <4>1, <5>3
            <6>2. seenOrder[n] = calls[n]
              BY <2>2, <5>3, <6>1
            <6> QED
              BY <2>3, <4>1, <4>2, <5>1, <5>3, <6>2
          <5> QED
            BY <2>1, <5>2, <5>3
        <4>4. Len(seenOrder') = IF Len(calls') < DedupeLimit THEN Len(calls') ELSE DedupeLimit
          BY <2>1, <2>3, <3>2, <4>1, <4>2
        <4>5. \A n \in 1..Len(seenOrder') : seenOrder'[n] = calls'[Len(calls') - Len(seenOrder') + n]
          BY <2>3, <4>2, <4>3
        <4> QED
          BY <4>4, <4>5 DEF RememberedLast
      <3> QED
        BY <2>1, <3>1, <3>2
    <2>5. ASSUME NEW i \in 1..c, (c + 1) - i <= DedupeLimit PROVE calls[i] # m
      <3>1. i - (c - s) \in 1..s /\ c - s + (i - (c - s)) = i
        <4> HIDE DEF s, c
        <4> QED
          BY <2>1, <2>2, <2>5, WindowPlace
      <3>2. seenOrder[i - (c - s)] = calls[i]
        BY <2>2, <3>1
      <3> QED
        BY <1>2, <3>1, <3>2 DEF Seen
    <2>6. NoRepeatInWindow'
      <3> SUFFICES ASSUME NEW i \in 1..Len(calls'), NEW j \in 1..Len(calls'),
                          i < j, j - i <= DedupeLimit
                   PROVE  calls'[i] # calls'[j]
        BY DEF NoRepeatInWindow
      <3>1. CASE j = c + 1
        BY <2>1, <2>3, <2>5, <3>1
      <3>2. CASE j \in 1..c
        BY <1>0, <2>1, <2>3, <3>2 DEF NoRepeatInWindow
      <3> QED
        BY <2>1, <2>3, <3>1, <3>2
    <2> QED
      BY <2>4, <2>6
  <1>3. ASSUME NEW m \in Msgs, Receive(m) PROVE RememberedLast' /\ NoRepeatInWindow'
    BY <1>1, <1>2, <1>3 DEF Receive, markSeen, seenVars
  <1>4. ASSUME NEW m \in Msgs, Deliver(m) \/ AckRead(m) \/ AckDelete(m) \/ AckFail(m)
        PROVE  RememberedLast' /\ NoRepeatInWindow'
    BY <1>1, <1>4 DEF Deliver, AckRead, AckDelete, AckFail, afterAckFail, seenVars, clientVars
  <1>5. CASE DialOk \/ WaitOver \/ DialFail \/ Drop \/ Stop
    BY <1>1, <1>5 DEF DialOk, WaitOver, DialFail, Drop, Stop, seenVars
  <1>6. CASE UNCHANGED vars
    BY <1>1, <1>6 DEF vars, seenVars
  <1> QED
    BY <1>3, <1>4, <1>5, <1>6 DEF Next, Client

(* Distinct calls in a row are as many messages. *)
LEMMA WindowCounted ==
  ASSUME ClientType, NoRepeatInWindow, NEW i \in 1..Len(calls), NEW j \in 1..Len(calls),
         i < j, calls[i] = calls[j]
  PROVE  Cardinality({calls[n] : n \in i + 1 .. j - 1}) >= DedupeLimit
  <1> DEFINE I == i + 1 .. j - 1
             W == i + 1 .. i + DedupeLimit
             S == {calls[n] : n \in I}
  <1>0. calls \in Seq(Msgs) /\ Len(calls) \in Nat /\ DedupeLimit \in Nat /\ DedupeLimit > 0
    BY DEF ClientType
  <1>1. j - i > DedupeLimit
    BY <1>0 DEF NoRepeatInWindow
  <1>2. W \subseteq I /\ W \subseteq 1..Len(calls)
    BY <1>0, <1>1
  <1>3. IsFiniteSet(I) /\ Cardinality(W) = DedupeLimit
    <2>1. i + 1 \in Int /\ j - 1 \in Int /\ i + DedupeLimit \in Int
      BY <1>0
    <2>2. IsFiniteSet(I)
      BY <2>1, FS_Interval
    <2>3. Cardinality(W) = IF i + 1 > i + DedupeLimit THEN 0 ELSE (i + DedupeLimit) - (i + 1) + 1
      BY <2>1, FS_Interval
    <2> QED
      BY <1>0, <2>2, <2>3
  <1>4. \A n, l \in W : calls[n] = calls[l] => n = l
    <2> SUFFICES ASSUME NEW n \in W, NEW l \in W, n < l PROVE calls[n] # calls[l]
      BY <1>0
    <2>1. n \in 1..Len(calls) /\ l \in 1..Len(calls) /\ l - n <= DedupeLimit
      BY <1>0, <1>2
    <2> QED
      BY <2>1 DEF NoRepeatInWindow
  <1> HIDE DEF I, W
  <1>5. IsFiniteSet(S)
    <2>1. [n \in I |-> calls[n]] \in Surjection(I, S)
      BY DEF Surjection
    <2> HIDE DEF S
    <2> QED
      BY <1>3, <2>1, FS_Surjection
  <1>6. Cardinality(W) <= Cardinality(S)
    <2>1. [n \in W |-> calls[n]] \in Injection(W, S)
      BY <1>2, <1>4 DEF Injection, IsInjective
    <2> HIDE DEF S
    <2> QED
      BY <1>5, <2>1, FS_Injection
  <1>7. Cardinality(S) \in Nat
    BY <1>5, FS_CardinalityType
  <1> QED
    BY <1>0, <1>3, <1>6, <1>7 DEF I

(* The application is called twice for a message only with calls for       *)
(* DedupeLimit others in between: for every limit, every number of         *)
(* messages and of faults.                                                 *)
THEOREM DedupeCorrect == Spec => []DuplicatesOutsideWindow
  <1>1. Init => DedupeInv
    BY InitType DEF Init, DedupeInv, RememberedLast, NoRepeatInWindow
  <1>2. DedupeInv => DuplicatesOutsideWindow
    BY WindowCounted DEF DedupeInv, DuplicatesOutsideWindow
  <1> QED
    BY <1>1, <1>2, StepDedupe, PTL DEF Spec

=============================================================================
