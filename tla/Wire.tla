-------------------------------- MODULE Wire --------------------------------
(***************************************************************************)
(* The frames of one connection (client.go): flushes, the ping loop and    *)
(* the reader write under wmu and a write deadline, the reader reads under *)
(* a read deadline that every frame renews.  A write may stop half way:    *)
(* the deadline passes, or the connection is closed under it.              *)
(*                                                                         *)
(* Deadlines and tickers are the time left to them; 0 means due.           *)
(***************************************************************************)
EXTENDS Integers, FiniteSets

CONSTANTS
  Flushes,      \* flushes that may have messages for this connection
  PingInterval, ReadTimeout, WriteTimeout,
  PongDelay,    \* what a responsive peer takes to answer a ping
  FrameTime,    \* and to read a frame, at most
  ClientPings,  \* BOOLEAN: the peer sends pings of its own
  Null

ASSUME WireAssumption ==
  /\ {PingInterval, ReadTimeout, WriteTimeout, PongDelay} \subseteq Nat \ {0}
  /\ FrameTime \in Nat
  /\ IsFiniteSet(Flushes)
  /\ ClientPings \in BOOLEAN
  /\ Flushes \cap {"ping", "pong"} = {}
  /\ Null \notin Flushes \cup {"ping", "pong"}

(* pingLoop and readLoop write pings and pongs. *)
Writers == Flushes \cup {"ping", "pong"}
Never == -1

VARIABLES
  responsive, \* whether the peer reads and answers pings in time
  wmu,       \* the writer that holds the write lock, or Null
  ahead,     \* writers that were in line for wmu when the ping loop got in line
  pc,        \* pc[w]: "idle", "lock", "head", "tail", "fail", "done"
  partial,   \* the writer whose frame is incomplete on the wire, or Null
  closed,
  writeLeft, \* to the write deadline, Never before the first write
  readLeft,  \* to the read deadline
  pingLeft,  \* to the next tick of the ping loop
  pongLeft   \* to the peer's answer to a ping, Never if it owes none

writeVars == <<wmu, ahead, pc, partial, writeLeft>>
timeVars == <<readLeft, pingLeft, pongLeft>>
vars == <<responsive, writeVars, closed, timeVars>>

Init ==
  /\ responsive \in BOOLEAN
  /\ wmu = Null /\ ahead = {}
  /\ pc = [w \in Writers |-> "idle"]
  /\ partial = Null
  /\ closed = FALSE
  /\ writeLeft = Never
  /\ readLeft = ReadTimeout
  /\ pingLeft = PingInterval
  /\ pongLeft = Never

-----------------------------------------------------------------------------
Less(n) == IF n > 0 THEN n - 1 ELSE n

(* Mutant: a write has no deadline. *)
writeFailsClosed(w) == closed

writeFails(w) == closed \/ writeLeft = 0

(* Since the holder of wmu set the write deadline. *)
writeAge == WriteTimeout - writeLeft

(* Time passes up to the next deadline that somebody waits for.  A peer    *)
(* that is responsive takes a frame within FrameTime and answers a ping    *)
(* within PongDelay; what waits for a lock that is free gets it at once.   *)
Tick ==
  /\ wmu # Null /\ ~closed => ~writeFails(wmu)
  /\ pc["ping"] = "idle" /\ ~closed => pingLeft > 0
  /\ pc["pong"] = "idle" /\ ~closed => readLeft > 0
  /\ responsive => /\ pongLeft = 0 => pc["pong"] # "idle"
                   /\ wmu = Null => \A w \in Writers : pc[w] # "lock"
                   /\ wmu # Null => writeAge < FrameTime
  /\ writeLeft' = Less(writeLeft)
  /\ readLeft' = Less(readLeft)
  /\ pingLeft' = Less(pingLeft)
  /\ pongLeft' = Less(pongLeft)
  /\ UNCHANGED <<responsive, wmu, ahead, pc, partial, closed>>

At(w, from, next) == pc[w] = from /\ pc' = [pc EXCEPT ![w] = next]

(* A flush whose markInflight succeeded calls writeMessage. *)
writeMessage(f) ==
  /\ ~closed /\ At(f, "idle", "lock")
  /\ UNCHANGED <<responsive, wmu, ahead, partial, closed, writeLeft, timeVars>>

(* The ping loop ticks; a ticker keeps its period. *)
writePing ==
  /\ ~closed /\ pingLeft = 0 /\ At("ping", "idle", "lock")
  /\ pingLeft' = PingInterval
  /\ ahead' = {w \in Writers : pc[w] = "lock"}
  /\ UNCHANGED <<responsive, wmu, partial, closed, writeLeft, readLeft, pongLeft>>

(* Mutant: the write lock is taken only for messages. *)
wmuFreeForPings(w) == wmu = Null \/ w \in {"ping", "pong"}

wmuFree(w) == wmu = Null

(* A mutex serves a waiter that has starved for a millisecond before later *)
(* ones, here the ping loop.                                               *)
LockWrite(w) ==
  /\ wmuFree(w) /\ At(w, "lock", "head")
  /\ pc["ping"] = "lock" => w \in ahead \cup {"ping"}
  /\ wmu' = w
  /\ ahead' = ahead \ {w}
  /\ writeLeft' = WriteTimeout
  /\ UNCHANGED <<responsive, partial, closed, timeVars>>

WriteHead(w) ==
  /\ ~closed /\ At(w, "head", "tail")
  /\ partial' = w
  /\ UNCHANGED <<responsive, wmu, ahead, closed, writeLeft, timeVars>>

WriteTail(w) ==
  /\ ~closed /\ At(w, "tail", "idle")
  /\ partial' = Null
  /\ wmu' = Null
  /\ pongLeft' = IF w = "ping" /\ pongLeft = Never THEN PongDelay ELSE pongLeft
  /\ readLeft' = IF w = "pong" THEN ReadTimeout ELSE readLeft  \* the loop reads on
  /\ UNCHANGED <<responsive, ahead, closed, writeLeft, pingLeft>>

(* The error is returned, and the lock given back, before the caller acts. *)
WriteError(w) ==
  /\ writeFails(w) /\ (At(w, "head", "fail") \/ At(w, "tail", "fail"))
  /\ wmu' = Null
  /\ UNCHANGED <<responsive, ahead, partial, closed, writeLeft, timeVars>>

close(w) ==
  /\ At(w, "fail", "done")
  /\ closed' = TRUE
  /\ UNCHANGED <<responsive, wmu, ahead, partial, writeLeft, timeVars>>

-----------------------------------------------------------------------------
(* The reader, which does not read while it writes a pong.                 *)
Reading == pc["pong"] = "idle" /\ ~closed /\ readLeft > 0

(* Mutant: pongs do not renew the read deadline. *)
renewNothing == readLeft

renew == ReadTimeout

readPong ==
  /\ Reading /\ pongLeft # Never
  /\ pongLeft' = Never
  /\ readLeft' = renew
  /\ UNCHANGED <<responsive, writeVars, closed, pingLeft>>

readPing ==
  /\ ClientPings /\ Reading /\ At("pong", "idle", "lock")
  /\ UNCHANGED <<responsive, wmu, ahead, partial, closed, writeLeft, timeVars>>

(* The read fails: the deadline, or a peer that is not responsive leaves.  *)
readExit ==
  /\ ~closed /\ (readLeft = 0 \/ ~responsive) /\ At("pong", "idle", "done")
  /\ closed' = TRUE
  /\ UNCHANGED <<responsive, wmu, ahead, partial, writeLeft, timeVars>>

-----------------------------------------------------------------------------
Step(w) == WriteHead(w) \/ WriteTail(w) \/ WriteError(w) \/ close(w)

Next ==
  \/ Tick
  \/ \E f \in Flushes : writeMessage(f)
  \/ writePing \/ readPong \/ readPing \/ readExit
  \/ \E w \in Writers : LockWrite(w) \/ Step(w)

Spec == Init /\ [][Next]_vars

(* Time passes, tickers tick, a mutex is handed to whoever waits, a write  *)
(* and a read end: by their deadlines if the peer does nothing.            *)
FairSpec ==
  /\ Spec
  /\ SF_vars(Tick) /\ WF_vars(writePing) /\ WF_vars(readLeft = 0 /\ readExit)
  /\ WF_vars(responsive /\ readPong)
  /\ \A w \in Writers :
       /\ SF_vars(LockWrite(w)) /\ WF_vars(WriteError(w)) /\ WF_vars(close(w))
       /\ WF_vars(responsive /\ (WriteHead(w) \/ WriteTail(w)))

-----------------------------------------------------------------------------
Begins(w) == pc[w] = "head" /\ pc'[w] = "tail"
Ends(w) == pc[w] = "tail" /\ pc'[w] = "idle"

(* What wmu gives: a frame is ended by the writer that began it, and when  *)
(* one begins no other writer is inside a frame.  It is less than "frames  *)
(* never interleave on the wire" (client.go): the last frame may be half a *)
(* frame whose writer has failed, since a write gives wmu back before its  *)
(* caller closes the connection, and the next one sets a new deadline.     *)
FramesApart ==
  [][\A w \in Writers : /\ Ends(w) => partial = w
                        /\ Begins(w) => partial = Null \/ pc[partial] = "fail"]_vars

(* A peer that reads a frame within FrameTime and answers a ping within    *)
(* PongDelay keeps its connection for ever, although pings wait behind a   *)
(* message of every flush and whatever pings of its own it sends: "pongs   *)
(* reset the read deadline (keepalive)" (readLoop).                        *)
InTime ==
  /\ FrameTime < WriteTimeout
  /\ PingInterval + PongDelay + FrameTime * (Cardinality(Flushes) + 1) < ReadTimeout

LivePeerKept == responsive /\ InTime => ~closed

(* "bounds a write so a stuck/slow client can't pin the per-key send lock  *)
(* or a worker indefinitely" (setWriteDeadline): every writer ends, also   *)
(* the ones that wait for others.                                          *)
WritersEnd == \A f \in Flushes : pc[f] = "lock" ~> pc[f] \in {"idle", "done"}

=============================================================================
