----------------------------- MODULE ClientSDK -----------------------------
(***************************************************************************)
(* The reference clients in Go, JavaScript and Python (clients/) against   *)
(* the server's protocol: they connect, acknowledge and de-duplicate       *)
(* messages, and reconnect with a growing delay.                           *)
(*                                                                         *)
(* The server side is what Delivery shows of it: on each connection a      *)
(* queued message is in flight at most once; its ACK ends that, and the    *)
(* message is dequeued some time later.  The server never sends a close    *)
(* frame, so a connection ends with an error.                              *)
(***************************************************************************)
EXTENDS Integers, Sequences, FiniteSets, SequencesExt

CONSTANTS
  Langs,        \* clients considered: a subset of {"go", "js", "py"}
  Msgs,         \* messages, by their ids
  MaxBackoff,   \* in units of MinBackoff
  RetryLimits,  \* values of MaxRetries
  DedupeLimit,
  MaxFaults     \* bound on failed dials, dropped connections and messages sent again

Infinity == -1  \* maxRetries that was not given

ASSUME ClientAssumption ==
  /\ Langs \subseteq {"go", "js", "py"}
  /\ MaxBackoff \in Nat /\ MaxBackoff > 0
  /\ RetryLimits \subseteq Nat \cup {Infinity} /\ MaxFaults \in Nat
  /\ DedupeLimit \in Nat /\ DedupeLimit > 0

VARIABLES
  lang,
  maxRetries,
  phase,      \* "dialing", "open", "waiting" or "ended"
  stopped,    \* the application called close or stop, or cancelled ctx
  closing,    \* JavaScript's close has closed the socket
  backoff,
  retries,
  delay,      \* the upper end of the jittered delay while waiting
  seenOrder,  \* ids remembered, oldest first; the map seen has the same ids
  calls,      \* calls of the application's handler
  (* the server and the wire *)
  queue,      \* messages queued
  sent,       \* messages in flight on this connection
  wire,       \* of them, the ones the client has not read
  acks,       \* ACKs the server has not read
  dequeuing,  \* messages whose ACK it has read and which it is about to delete
  faults,
  (* history, read by no action *)
  fails,      \* sessions that ended since one was open, and that one
  stopAt,     \* the phase in which the client was stopped
  late        \* sessions opened since

options == <<lang, maxRetries>>
retryVars == <<backoff, retries, delay>>
seenVars == <<seenOrder, calls>>
serverVars == <<queue, sent, wire, acks, dequeuing>>
stopVars == <<stopped, closing, stopAt>>
vars == <<options, phase, stopVars, retryVars, seenVars, serverVars, faults, fails, late>>

Init ==
  /\ lang \in Langs /\ maxRetries \in RetryLimits
  /\ phase = "dialing"
  /\ stopped = FALSE /\ closing = FALSE
  /\ backoff = 1 /\ retries = 0 /\ delay = 0
  /\ seenOrder = << >> /\ calls = << >>
  /\ queue = Msgs /\ sent = {} /\ wire = {} /\ acks = {} /\ dequeuing = {}
  /\ faults = 0
  /\ fails = 0 /\ late = 0 /\ stopAt = "never"

-----------------------------------------------------------------------------
(* The end of a session, or of an attempt to connect. *)

(* Mutant: the delay grows without limit. *)
DoubledUncapped == backoff * 2

Doubled == IF backoff * 2 > MaxBackoff THEN MaxBackoff ELSE backoff * 2

(* Go takes 0 as unlimited, JavaScript Infinity, and Python has no limit. *)
Limited == (lang = "go" /\ maxRetries > 0) \/ (lang = "js" /\ maxRetries # Infinity)

Exhausted == Limited /\ retries >= maxRetries

(* Mutant: the end of a session does not look whether the client stopped. *)
FinishedExhausted == Exhausted

(* Go looks at ctx when it waits, JavaScript and Python before. *)
Finished == Exhausted \/ (stopped /\ lang # "go")

EndSession ==
  /\ fails' = fails + 1
  /\ IF Finished
     THEN phase' = "ended" /\ UNCHANGED retryVars
     ELSE /\ phase' = "waiting"
          /\ delay' = backoff
          /\ retries' = IF Limited THEN retries + 1 ELSE retries
          /\ backoff' = IF lang = "js" THEN Doubled ELSE backoff
  /\ sent' = {} /\ wire' = {} /\ acks' = {}
  /\ UNCHANGED <<queue, dequeuing, late>>

Fault == faults < MaxFaults /\ faults' = faults + 1

(* A dial ends with an error also when its socket is closed or its ctx     *)
(* cancelled.                                                              *)
DialFail ==
  /\ phase = "dialing"
  /\ IF closing \/ (stopped /\ lang = "go") THEN UNCHANGED faults ELSE Fault
  /\ EndSession
  /\ UNCHANGED <<options, stopVars, seenVars>>

(* Mutant: the delay is not reset by a connection that opens. *)
resetNever == UNCHANGED <<backoff, retries>>

(* Run would reset them after a session without an error, and there is     *)
(* none: session returns only errors.                                      *)
reset ==
  IF lang = "go" THEN UNCHANGED <<backoff, retries>> ELSE backoff' = 1 /\ retries' = 0

DialOk ==
  /\ phase = "dialing" /\ ~closing
  /\ phase' = "open"
  /\ reset
  /\ fails' = 0
  /\ late' = IF stopped THEN late + 1 ELSE late
  /\ UNCHANGED <<options, stopVars, delay, seenVars, serverVars, faults>>

Drop ==
  /\ phase = "open"
  /\ IF closing THEN UNCHANGED faults ELSE Fault
  /\ EndSession
  /\ UNCHANGED <<options, stopVars, seenVars>>

(* The delay is over.  The JavaScript timer opens a socket whatever        *)
(* happened in the meantime.                                               *)
afterWait == IF stopped /\ lang # "js" THEN "ended" ELSE "dialing"

WaitOver ==
  /\ phase = "waiting"
  /\ phase' = afterWait
  /\ backoff' = IF lang = "js" THEN backoff ELSE Doubled
  /\ delay' = 0
  /\ UNCHANGED <<options, stopVars, retries, seenVars, serverVars, faults, fails, late>>

(* JavaScript's close closes the socket there is; while the client waits   *)
(* it is the old one, closed already.                                      *)
Stop ==
  /\ ~stopped /\ phase # "ended"
  /\ stopped' = TRUE
  /\ closing' = (lang = "js" /\ phase # "waiting")
  /\ stopAt' = phase
  /\ UNCHANGED <<options, phase, retryVars, seenVars, serverVars, faults, fails, late>>

-----------------------------------------------------------------------------
(* The server. *)

clientVars == <<options, phase, stopVars, retryVars, seenVars, fails, late>>

Deliver(m) ==
  /\ phase = "open" /\ m \in queue \ sent
  /\ sent' = sent \cup {m}
  /\ wire' = wire \cup {m}
  /\ IF m \in dequeuing THEN Fault ELSE UNCHANGED faults
  /\ UNCHANGED <<clientVars, queue, acks, dequeuing>>

(* takeInflight: until the message is gone it may be sent once more.       *)
AckRead(m) ==
  /\ phase = "open" /\ m \in acks
  /\ acks' = acks \ {m}
  /\ sent' = sent \ {m}
  /\ dequeuing' = dequeuing \cup {m}
  /\ UNCHANGED <<clientVars, queue, wire, faults>>

(* It is deleted, and no flush has it in an older copy of the queue.  The  *)
(* connection may have ended by then.                                      *)
AckDelete(m) ==
  /\ m \in dequeuing
  /\ dequeuing' = dequeuing \ {m}
  /\ queue' = queue \ {m}
  /\ UNCHANGED <<clientVars, sent, wire, acks, faults>>

-----------------------------------------------------------------------------
(* A message arrives: it is acknowledged, then handled if it is new. *)

Seen == {seenOrder[j] : j \in 1..Len(seenOrder)}

(* Mutant: the newest id is forgotten when the limit is reached. *)
rememberNewestDropped(m) ==
  IF Len(seenOrder) >= DedupeLimit THEN seenOrder ELSE Append(seenOrder, m)

remember(m) ==
  IF Len(seenOrder) >= DedupeLimit THEN Append(Tail(seenOrder), m) ELSE Append(seenOrder, m)

markSeen(m) ==
  IF m \in Seen THEN UNCHANGED seenVars
  ELSE seenOrder' = remember(m) /\ calls' = Append(calls, m)

Receive(m) ==
  /\ phase = "open" /\ m \in wire
  /\ wire' = wire \ {m}
  /\ acks' = acks \cup {m}
  /\ markSeen(m)
  /\ UNCHANGED <<options, phase, stopVars, retryVars, queue, sent, dequeuing, faults, fails,
                 late>>

(* Mutant: the id is remembered although its ACK could not be written. *)
afterAckFailSeen(m) ==
  /\ seenOrder' = IF m \in Seen THEN seenOrder ELSE remember(m)
  /\ UNCHANGED calls

afterAckFail(m) == UNCHANGED seenVars

(* In Go an ACK that cannot be written ends the session first. *)
AckFail(m) ==
  /\ lang = "go" /\ phase = "open" /\ m \in wire
  /\ Fault
  /\ afterAckFail(m)
  /\ EndSession
  /\ UNCHANGED <<options, stopVars>>

-----------------------------------------------------------------------------
Client == DialOk \/ WaitOver \/ \E m \in Msgs : Receive(m)

Next ==
  \/ Client
  \/ DialFail \/ Drop \/ Stop
  \/ \E m \in Msgs : Deliver(m) \/ AckRead(m) \/ AckDelete(m) \/ AckFail(m)

Spec == Init /\ [][Next]_vars

(* The client runs, the server delivers what is queued, and the network    *)
(* fails finitely often.                                                   *)
FairSpec ==
  /\ Spec /\ WF_vars(Client)
  /\ \A m \in Msgs : WF_vars(Deliver(m)) /\ WF_vars(Receive(m))

-----------------------------------------------------------------------------
(* "de-duplicate re-deliveries": the application is called twice for a     *)
(* message only if it was called for DedupeLimit others in between,        *)
(* however connections break and ACKs get lost.                            *)
DuplicatesOutsideWindow ==
  \A i, j \in 1..Len(calls) :
    i < j /\ calls[i] = calls[j] =>
      Cardinality({calls[n] : n \in i + 1 .. j - 1}) >= DedupeLimit

(* At-least-once up to the application: it is called for every message     *)
(* that is queued, unless it stops the client or the retries run out.      *)
EventuallyHandled ==
  \A m \in Msgs : m \in queue ~> (Contains(calls, m) \/ stopped \/ phase = "ended")

(* The sessions that a client may still open when it is stopped: the one   *)
(* that it is dialing (JavaScript closes that socket), and the one that    *)
(* JavaScript's timer will dial, whose socket nobody closes.               *)
Unstopped ==
  IF stopAt = (IF lang = "js" THEN "waiting" ELSE "dialing") THEN 1 ELSE 0

(* "Connect and keep reconnecting until stop() is called" (Python): what   *)
(* ends after that is not followed by another session, whatever the client *)
(* was doing and however its sessions end.                                 *)
StopsReconnecting == stopped => late <= Unstopped

(* Powers of two, as a function that proofs can unfold. *)
Power[n \in Nat] == IF n = 0 THEN 1 ELSE 2 * Power[n - 1]

Capped(n) == IF n > MaxBackoff THEN MaxBackoff ELSE n

(* "Exponential backoff": the delay doubles with every attempt that fails, *)
(* up to its limit, and starts anew after a connection that was open.  The *)
(* Go client does not start anew.                                          *)
BackoffFollowsFailures ==
  phase = "waiting" /\ lang # "go" => delay = Capped(Power[fails - 1])

GivesUpEarly == phase = "ended" /\ ~stopped /\ ~(Limited /\ fails > maxRetries)

(* "Maximum reconnect attempts before giving up" (goctopus.d.ts): a client *)
(* that was not stopped ends only when so many attempts in a row have      *)
(* failed; a connection that was open starts the count anew.               *)
GivesUpAfterFailures == lang # "go" => ~GivesUpEarly

(* "Run connects and keeps reconnecting until ctx is cancelled (or         *)
(* MaxRetries is exhausted)" (goctopus.go), read the same way.  It does    *)
(* not hold: the count is never reset.                                     *)
GoGivesUpAfterFailures == lang = "go" => ~GivesUpEarly
=============================================================================
