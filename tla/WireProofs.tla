----------------------------- MODULE WireProofs -----------------------------
(***************************************************************************)
(* Proofs about the frames of a connection: no writer is inside another's  *)
(* frame, and a peer that reads and answers pings is not given up, for any *)
(* intervals and any number of flushes that write to it.                   *)
(***************************************************************************)
EXTENDS Wire, FiniteSetTheorems, TLAPS

(* Every variable keeps its type. *)
WireType ==
  /\ responsive \in BOOLEAN /\ closed \in BOOLEAN
  /\ ahead \subseteq Writers
  /\ wmu \in Writers \cup {Null} /\ partial \in Writers \cup {Null}
  /\ pc \in [Writers -> {"idle", "lock", "head", "tail", "fail", "done"}]
  /\ writeLeft \in Nat \cup {Never} /\ pongLeft \in Nat \cup {Never}
  /\ readLeft \in Nat /\ pingLeft \in Nat

USE WireAssumption

LEMMA LessType ==
  /\ \A n \in Nat : Less(n) \in Nat
  /\ \A n \in Nat \cup {Never} : Less(n) \in Nat \cup {Never}
  BY DEF Less, Never

LEMMA InitType == Init => WireType
  BY DEF Init, WireType, Never

LEMMA StepType == WireType /\ [Next]_vars => WireType'
  <1> SUFFICES ASSUME WireType, [Next]_vars PROVE WireType'
    OBVIOUS
  <1> USE DEF WireType, writeVars, timeVars, At
  <1>1. CASE Tick
    BY <1>1, LessType DEF Tick
  <1>2. ASSUME NEW f \in Flushes, writeMessage(f) PROVE WireType'
    BY <1>2 DEF writeMessage
  <1>3. CASE writePing
    BY <1>3 DEF writePing
  <1>4. CASE readPong
    BY <1>4 DEF readPong, renew, Never
  <1>5. CASE readPing
    BY <1>5 DEF readPing
  <1>6. CASE readExit
    BY <1>6 DEF readExit
  <1>7. ASSUME NEW w \in Writers, LockWrite(w) PROVE WireType'
    BY <1>7 DEF LockWrite
  <1>8. ASSUME NEW w \in Writers, WriteHead(w) PROVE WireType'
    BY <1>8 DEF WriteHead
  <1>9. ASSUME NEW w \in Writers, WriteTail(w) PROVE WireType'
    BY <1>9 DEF WriteTail
  <1>10. ASSUME NEW w \in Writers, WriteError(w) PROVE WireType'
    BY <1>10 DEF WriteError
  <1>11. ASSUME NEW w \in Writers, close(w) PROVE WireType'
    BY <1>11 DEF close
  <1>12. CASE UNCHANGED vars
    BY <1>12 DEF vars
  <1> QED
    BY <1>1, <1>2, <1>3, <1>4, <1>5, <1>6, <1>7, <1>8, <1>9, <1>10, <1>11, <1>12
    DEF Next, Step

-----------------------------------------------------------------------------
(* The write lock is held by the writer that is inside the frame, and an   *)
(* incomplete frame is that of a writer in its second half or of one whose *)
(* write has failed, unless the connection is closed already.              *)
FrameOwned ==
  /\ \A w \in Writers : /\ pc[w] \in {"head", "tail"} => wmu = w
                        /\ pc[w] = "tail" => partial = w
  /\ wmu # Null => pc[wmu] \in {"head", "tail"}
  /\ partial # Null => closed \/ pc[partial] \in {"tail", "fail"}

LEMMA StepFrame == WireType /\ FrameOwned /\ [Next]_vars => FrameOwned'
  <1> SUFFICES ASSUME WireType, FrameOwned, [Next]_vars PROVE FrameOwned'
    OBVIOUS
  <1>0. /\ pc \in [Writers -> {"idle", "lock", "head", "tail", "fail", "done"}]
        /\ wmu \in Writers \cup {Null} /\ partial \in Writers \cup {Null}
        /\ Null \notin Writers
    BY DEF WireType, Writers
  <1> USE DEF FrameOwned, writeVars, timeVars, At
  <1>1. CASE UNCHANGED <<pc, wmu, partial, closed>>
    BY <1>1
  (* A writer moves outside its frame. *)
  <1>2. ASSUME NEW w \in Writers, NEW from \in {"idle", "lock"},
               NEW next \in {"lock", "done"}, At(w, from, next), closed => closed',
               UNCHANGED <<wmu, partial>>
        PROVE  FrameOwned'
    BY <1>0, <1>2
  <1>3. ASSUME NEW w \in Writers, LockWrite(w) PROVE FrameOwned'
    BY <1>0, <1>3 DEF LockWrite, wmuFree
  <1>4. ASSUME NEW w \in Writers, WriteHead(w) PROVE FrameOwned'
    BY <1>0, <1>4 DEF WriteHead
  <1>5. ASSUME NEW w \in Writers, WriteTail(w) PROVE FrameOwned'
    BY <1>0, <1>5 DEF WriteTail
  <1>6. ASSUME NEW w \in Writers, WriteError(w) PROVE FrameOwned'
    BY <1>0, <1>6 DEF WriteError
  <1>7. ASSUME NEW w \in Writers, close(w) PROVE FrameOwned'
    BY <1>0, <1>7 DEF close
  <1>8. CASE (\E f \in Flushes : writeMessage(f)) \/ writePing \/ readPing \/ readExit
    BY <1>2, <1>8 DEF writeMessage, writePing, readPing, readExit, Writers
  <1>9. CASE Tick \/ readPong \/ UNCHANGED vars
    BY <1>1, <1>9 DEF Tick, readPong, vars
  <1> QED
    BY <1>3, <1>4, <1>5, <1>6, <1>7, <1>8, <1>9 DEF Next, Step

LEMMA FrameCorrect == Spec => [](WireType /\ FrameOwned)
  <1>1. Init => WireType /\ FrameOwned
    BY InitType DEF Init, FrameOwned
  <1>2. WireType /\ FrameOwned /\ [Next]_vars => (WireType /\ FrameOwned)'
    BY StepType, StepFrame
  <1> QED
    BY <1>1, <1>2, PTL DEF Spec

LEMMA StepApart ==
  ASSUME WireType, FrameOwned, [Next]_vars, NEW w \in Writers
  PROVE  (Ends(w) => partial = w) /\ (Begins(w) => partial = Null \/ pc[partial] = "fail")
  <1>0. /\ pc \in [Writers -> {"idle", "lock", "head", "tail", "fail", "done"}]
        /\ partial \in Writers \cup {Null} /\ Null \notin Writers
    BY DEF WireType, Writers
  <1>1. Ends(w) => partial = w
    BY DEF Ends, FrameOwned
  <1>2. ASSUME Begins(w) PROVE ~closed
    <2>1. CASE \E v \in Writers : WriteHead(v)
      BY <2>1 DEF WriteHead
    <2>2. CASE UNCHANGED pc
      BY <1>2, <2>2 DEF Begins
    (* No other action takes a writer to the second half of its frame. *)
    <2>3. ASSUME NEW v \in Writers, NEW from, NEW next, next # "tail", At(v, from, next)
          PROVE  FALSE
      BY <1>0, <1>2, <2>3 DEF Begins, At
    <2>4. ~(writePing \/ readPing \/ readExit \/ \E f \in Flushes : writeMessage(f))
      BY <2>3 DEF writePing, readPing, readExit, writeMessage, Writers
    <2>5. ~\E v \in Writers : LockWrite(v) \/ WriteTail(v) \/ WriteError(v) \/ close(v)
      BY <2>3 DEF LockWrite, WriteTail, WriteError, close
    <2>6. Tick \/ readPong \/ UNCHANGED vars => UNCHANGED pc
      BY DEF Tick, readPong, vars, writeVars
    <2> QED
      BY <2>1, <2>2, <2>4, <2>5, <2>6 DEF Next, Step
  <1>3. ASSUME Begins(w), partial # Null PROVE pc[partial] = "fail"
    <2>1. wmu = w /\ pc[w] = "head"
      BY <1>3 DEF Begins, FrameOwned
    <2>2. pc[partial] = "tail" => wmu = partial
      BY <1>0, <1>3 DEF FrameOwned
    <2> QED
      BY <1>2, <1>3, <2>1, <2>2 DEF FrameOwned
  <1> QED
    BY <1>1, <1>3

(* "All frame writes go through wmu" (client.go): no writer ends a frame   *)
(* into which another one has written, and none begins a frame while       *)
(* another is inside its own, for any number of flushes and whatever write *)
(* fails half way.                                                         *)
THEOREM FramesCorrect == Spec => FramesApart
  <1>1. WireType /\ FrameOwned /\ [Next]_vars =>
          [\A w \in Writers : /\ Ends(w) => partial = w
                              /\ Begins(w) => partial = Null \/ pc[partial] = "fail"]_vars
    BY StepApart
  <1>2. FramesApart <=>
          [][\A w \in Writers : /\ Ends(w) => partial = w
                                /\ Begins(w) => partial = Null \/ pc[partial] = "fail"]_vars
    BY DEF FramesApart
  <1> QED
    BY <1>1, <1>2, FrameCorrect, PTL DEF Spec

-----------------------------------------------------------------------------
(* What a ping may have to wait for: n frames of flushes, and its own.     *)
Slots(n) == FrameTime * (n + 1)

Line == ahead \cap Flushes
N == Cardinality(Flushes)

(* What the frame on the wire may still take. *)
FrameLeft == IF wmu = Null THEN 0 ELSE FrameTime - writeAge

LEMMA SlotsFacts ==
  /\ \A n \in Nat : /\ Slots(n) \in Nat /\ Slots(n) >= FrameTime
                    /\ Slots(n + 1) = Slots(n) + FrameTime
  /\ \A m, n \in Nat : m <= n => Slots(m) <= Slots(n)
  <1> FrameTime \in Nat
    OBVIOUS
  <1>1. \A a, n \in Nat : a * n \in Nat /\ a * (n + 1) = a * n + a
    OBVIOUS
  <1>2. \A a, m, n \in Nat : m <= n => a * (m + 1) <= a * (n + 1)
    OBVIOUS
  <1> QED
    BY <1>1, <1>2 DEF Slots

LEMMA LineFacts ==
  /\ N \in Nat
  /\ \A S \in SUBSET Flushes : Cardinality(S) \in Nat /\ Cardinality(S) <= N
  /\ \A S \in SUBSET Flushes : \A f \in Flushes \ S : Cardinality(S) + 1 <= N
  /\ \A S \in SUBSET Flushes : \A f \in S : Cardinality(S) = Cardinality(S \ {f}) + 1
  <1>0. IsFiniteSet(Flushes)
    OBVIOUS
  <1>1. \A S \in SUBSET Flushes :
          IsFiniteSet(S) /\ Cardinality(S) \in Nat /\ Cardinality(S) <= N
    BY <1>0, FS_Subset, FS_CardinalityType DEF N
  <1>2. ASSUME NEW S \in SUBSET Flushes, NEW f \in Flushes \ S
        PROVE  Cardinality(S) + 1 <= N
    <2>1. Cardinality(S \cup {f}) = Cardinality(S) + 1
      BY <1>1, <1>2, FS_AddElement
    <2> QED
      BY <1>1, <1>2, <2>1
  <1>3. ASSUME NEW S \in SUBSET Flushes, NEW f \in S
        PROVE  Cardinality(S) = Cardinality(S \ {f}) + 1
    BY <1>1, <1>3, FS_RemoveElement
  <1> QED
    BY <1>0, <1>1, <1>2, <1>3, FS_CardinalityType DEF N

(* No write deadline passes, and while the ping waits the ones before it   *)
(* are still in line.                                                      *)
WritesInTime ==
  /\ \A w \in Writers : pc[w] # "fail"
  /\ wmu # Null => writeLeft \in Nat /\ writeAge <= FrameTime /\ writeAge >= 0
  /\ {pc["ping"], pc["pong"]} \subseteq {"idle", "lock", "head", "tail"}
  /\ pc["ping"] = "lock" => \A w \in ahead : pc[w] = "lock"

(* The read deadline stays ahead of the pong that will renew it: the one   *)
(* that is on its way, or the one that the next ping will ask for when it  *)
(* is due, when the frames before it are written, when it is written.      *)
PongInTime ==
  pc["pong"] = "idle" =>
    /\ pongLeft # Never => readLeft > pongLeft
    /\ pongLeft = Never =>
         /\ pc["ping"] = "idle" => readLeft > pingLeft + PongDelay + Slots(N)
         /\ pc["ping"] = "lock" => readLeft > PongDelay + Slots(Cardinality(Line)) + FrameLeft
         /\ pc["ping"] \in {"head", "tail"} => readLeft > PongDelay + FrameLeft

KeptInv ==
  /\ ~closed /\ pingLeft <= PingInterval /\ pongLeft <= PongDelay
  /\ WritesInTime /\ PongInTime

LEMMA InitKept == Init /\ InTime => KeptInv
  <1> SUFFICES ASSUME Init, InTime PROVE KeptInv
    OBVIOUS
  <1>1. WritesInTime
    BY DEF Init, WritesInTime, Writers
  <1>2. PongInTime
    BY LineFacts, SlotsFacts DEF Init, PongInTime, InTime, Slots, N, Writers
  <1> QED
    BY <1>1, <1>2 DEF Init, KeptInv, Never

(* A deadline that has just been renewed is far enough. *)
LEMMA Renewed ==
  ASSUME WireType, FrameOwned, InTime, KeptInv, pc["pong"] = "idle"
  PROVE  /\ ReadTimeout > PongDelay
         /\ ReadTimeout > PingInterval + PongDelay + Slots(N)
         /\ pc["ping"] = "lock" =>
              ReadTimeout > PongDelay + Slots(Cardinality(Line)) + FrameLeft
         /\ FrameLeft \in 0..FrameTime
         /\ ReadTimeout > PongDelay + FrameLeft
  <1>1. /\ ReadTimeout > PingInterval + PongDelay + Slots(N) /\ N \in Nat
        /\ Slots(N) \in Nat /\ Slots(N) >= FrameTime /\ FrameTime \in Nat
        /\ {ReadTimeout, PingInterval, PongDelay, WriteTimeout} \subseteq Nat \ {0}
    BY LineFacts, SlotsFacts DEF InTime, Slots, N
  <1>2. FrameLeft \in 0..FrameTime
    BY <1>1 DEF FrameLeft, KeptInv, WritesInTime, writeAge
  <1>3. ASSUME pc["ping"] = "lock"
        PROVE  ReadTimeout > PongDelay + Slots(Cardinality(Line)) + FrameLeft
    <2>1. Line \in SUBSET Flushes /\ Cardinality(Line) \in Nat /\ Cardinality(Line) <= N
      BY LineFacts DEF Line
    <2>2. Slots(Cardinality(Line)) \in Nat /\ Slots(Cardinality(Line)) <= Slots(N)
      BY <1>1, <2>1, SlotsFacts
    <2>3. CASE wmu = Null
      BY <1>1, <2>2, <2>3 DEF FrameLeft
    <2>4. CASE wmu # Null
      <3>1. wmu \in Flushes \ Line
        BY <1>3, <2>4 DEF WireType, FrameOwned, Writers, KeptInv, WritesInTime, Line
      <3>2. Cardinality(Line) + 1 <= N
        BY <2>1, <3>1, LineFacts
      <3>3. Slots(Cardinality(Line)) + FrameTime <= Slots(N)
        BY <1>1, <2>1, <3>2, SlotsFacts
      <3> QED
        BY <1>1, <1>2, <2>2, <3>3
    <2> QED
      BY <2>3, <2>4
  <1> QED
    BY <1>1, <1>2, <1>3

(* A write does not fail. *)
LEMMA NoFailure ==
  ASSUME WireType, FrameOwned, InTime, KeptInv, NEW w \in Writers
  PROVE  ~WriteError(w) /\ ~close(w)
  <1>1. /\ pc[w] # "fail" /\ ~closed
        /\ wmu # Null => writeLeft \in Nat /\ WriteTimeout - writeLeft <= FrameTime
    BY DEF KeptInv, WritesInTime, writeAge
  <1>2. ~close(w)
    BY <1>1 DEF close, At
  <1>3. ASSUME WriteError(w) PROVE FALSE
    <2>1. wmu = w /\ w # Null
      BY <1>3 DEF WriteError, At, FrameOwned, Writers
    <2>2. writeLeft = 0
      BY <1>1, <1>3 DEF WriteError, writeFails
    <2> QED
      BY <1>1, <2>1, <2>2 DEF InTime
  <1> QED
    BY <1>2, <1>3

LEMMA StepWrites ==
  ASSUME WireType, FrameOwned, responsive, InTime, KeptInv, [Next]_vars
  PROVE  (~closed)' /\ WritesInTime'
  <1>0. /\ pc \in [Writers -> {"idle", "lock", "head", "tail", "fail", "done"}]
        /\ "ping" \in Writers /\ "pong" \in Writers
        /\ wmu \in Writers \cup {Null} /\ Null \notin Writers /\ ahead \subseteq Writers
        /\ readLeft \in Nat /\ writeLeft \in Nat \cup {Never}
        /\ FrameTime \in Nat /\ WriteTimeout \in Nat /\ FrameTime < WriteTimeout
    BY DEF WireType, Writers, InTime
  <1>1. ~closed /\ WritesInTime /\ PongInTime
    BY DEF KeptInv
  <1> USE DEF writeVars, timeVars, At, writeAge, Never
  <1>2. CASE Tick
    BY <1>0, <1>1, <1>2 DEF Tick, Less, writeFails, WritesInTime
  <1>3. ASSUME NEW f \in Flushes, writeMessage(f) PROVE (~closed)' /\ WritesInTime'
    <2>1. f \in Writers /\ f # "ping" /\ f # "pong"
      BY DEF Writers
    <2> QED
      BY <1>0, <1>1, <1>3, <2>1 DEF writeMessage, WritesInTime
  <1>4. CASE writePing
    BY <1>0, <1>1, <1>4 DEF writePing, WritesInTime
  <1>5. CASE readPong
    BY <1>0, <1>1, <1>5 DEF readPong, WritesInTime
  <1>6. CASE readPing
    BY <1>0, <1>1, <1>6 DEF readPing, WritesInTime
  <1>7. ASSUME readExit PROVE FALSE
    <2>1. pc["pong"] = "idle" /\ readLeft = 0
      BY <1>7 DEF readExit
    <2>2. readLeft > 0
      <3>1. Slots(N) \in Nat /\ Slots(Cardinality(Line)) \in Nat
        BY LineFacts, SlotsFacts DEF Line
      <3>2. FrameLeft >= 0 /\ FrameLeft \in Int
        BY <2>1, Renewed
      <3>3. pingLeft \in Nat /\ PongDelay \in Nat /\ pongLeft \in Nat \cup {Never}
        BY DEF WireType
      <3> QED
        BY <1>0, <1>1, <2>1, <3>1, <3>2, <3>3 DEF PongInTime, WritesInTime
    <2> QED
      BY <2>1, <2>2
  <1>8. ASSUME NEW w \in Writers, LockWrite(w) PROVE (~closed)' /\ WritesInTime'
    BY <1>0, <1>1, <1>8 DEF LockWrite, wmuFree, WritesInTime
  <1>9. ASSUME NEW w \in Writers, WriteHead(w) PROVE (~closed)' /\ WritesInTime'
    BY <1>0, <1>1, <1>9 DEF WriteHead, WritesInTime
  <1>10. ASSUME NEW w \in Writers, WriteTail(w) PROVE (~closed)' /\ WritesInTime'
    BY <1>0, <1>1, <1>10 DEF WriteTail, WritesInTime
  <1>11. ASSUME NEW w \in Writers, WriteError(w) \/ close(w) PROVE FALSE
    BY <1>11, NoFailure
  <1>12. CASE UNCHANGED vars
    BY <1>1, <1>12 DEF vars, WritesInTime
  <1> QED
    BY <1>2, <1>3, <1>4, <1>5, <1>6, <1>7, <1>8, <1>9, <1>10, <1>11, <1>12 DEF Next, Step

LEMMA StepBounds ==
  ASSUME WireType, KeptInv, [Next]_vars
  PROVE  (pingLeft <= PingInterval /\ pongLeft <= PongDelay)'
  <1>1. /\ pingLeft \in Nat /\ pongLeft \in Nat \cup {Never}
        /\ PingInterval \in Nat /\ PongDelay \in Nat
        /\ pingLeft <= PingInterval /\ pongLeft <= PongDelay
    BY DEF WireType, KeptInv
  <1>2. pingLeft' \in {pingLeft, Less(pingLeft), PingInterval}
    BY DEF Next, Step, vars, timeVars, Tick, writeMessage, writePing, readPong, readPing,
       readExit, LockWrite, WriteHead, WriteTail, WriteError, close
  <1>3. pongLeft' \in {pongLeft, Less(pongLeft), PongDelay, Never}
    BY DEF Next, Step, vars, timeVars, Tick, writeMessage, writePing, readPong, readPing,
       readExit, LockWrite, WriteHead, WriteTail, WriteError, close
  <1> QED
    BY <1>1, <1>2, <1>3 DEF Less, Never

LEMMA StepPong ==
  ASSUME WireType, FrameOwned, responsive, InTime, KeptInv, [Next]_vars, WireType'
  PROVE  PongInTime'
  <1> SUFFICES ASSUME pc'["pong"] = "idle" PROVE PongInTime'
    BY DEF PongInTime
  <1>0. /\ pc \in [Writers -> {"idle", "lock", "head", "tail", "fail", "done"}]
        /\ "ping" \in Writers /\ "pong" \in Writers /\ Null \notin Writers
        /\ wmu \in Writers \cup {Null}
        /\ readLeft \in Nat /\ pingLeft \in Nat /\ pongLeft \in Nat \cup {Never}
        /\ writeLeft \in Nat \cup {Never} /\ FrameTime \in Nat
        /\ {PingInterval, ReadTimeout, WriteTimeout, PongDelay} \subseteq Nat \ {0}
        /\ pingLeft <= PingInterval /\ pongLeft <= PongDelay
    BY DEF WireType, Writers, KeptInv
  <1>1. ~closed /\ WritesInTime /\ PongInTime
    BY DEF KeptInv
  <1>n. /\ N \in Nat /\ Slots(N) \in Nat /\ Slots(N) >= FrameTime
        /\ Line \in SUBSET Flushes /\ Cardinality(Line) \in Nat /\ Cardinality(Line) <= N
        /\ Slots(Cardinality(Line)) \in Nat /\ Slots(Cardinality(Line)) <= Slots(N)
        /\ Slots(Cardinality(Line)) >= FrameTime
    BY LineFacts, SlotsFacts DEF Line
  <1>r. ReadTimeout > PingInterval + PongDelay + Slots(N)
    BY DEF InTime, Slots, N
  <1> USE DEF writeVars, timeVars, At
  <1>i. ASSUME UNCHANGED <<pc, wmu, ahead, writeLeft, readLeft, pingLeft, pongLeft>>
        PROVE  PongInTime'
    BY <1>1, <1>i DEF PongInTime, Line, FrameLeft, writeAge
  <1>2. CASE Tick
    <2>1. /\ UNCHANGED <<pc, wmu, ahead>> /\ pc["pong"] = "idle"
          /\ readLeft' = Less(readLeft) /\ pingLeft' = Less(pingLeft)
          /\ pongLeft' = Less(pongLeft) /\ writeLeft' = Less(writeLeft)
          /\ pongLeft # 0
          /\ pc["ping"] = "idle" => pingLeft > 0
          /\ Cardinality(Line') = Cardinality(Line)
      BY <1>1, <1>2 DEF Tick, Line
    <2>2. wmu # Null => FrameLeft \in Nat /\ FrameLeft > 0 /\ FrameLeft' = FrameLeft - 1
      BY <1>0, <1>1, <1>2, <2>1 DEF Tick, FrameLeft, writeAge, writeFails, WritesInTime, Less
    <2>3. pc["ping"] \in {"lock", "head", "tail"} => wmu # Null
      BY <1>0, <1>2 DEF Tick, FrameOwned
    <2> QED
      BY <1>0, <1>1, <1>n, <2>1, <2>2, <2>3 DEF PongInTime, Less, Never
  <1>3. ASSUME NEW f \in Flushes, writeMessage(f) PROVE PongInTime'
    <2>1. f \in Writers /\ f # "ping" /\ f # "pong"
      BY DEF Writers
    <2>2. pc'["ping"] = pc["ping"] /\ pc'["pong"] = pc["pong"]
      BY <1>0, <1>3, <2>1 DEF writeMessage
    <2> QED
      BY <1>1, <1>3, <2>2 DEF writeMessage, PongInTime, Line, FrameLeft, writeAge
  <1>4. CASE writePing
    <2>1. /\ pingLeft = 0 /\ pc["ping"] = "idle" /\ pc'["ping"] = "lock"
          /\ pc["pong"] = "idle" /\ UNCHANGED <<wmu, writeLeft, readLeft, pongLeft>>
          /\ ahead' = {w \in Writers : pc[w] = "lock"}
      BY <1>0, <1>4 DEF writePing
    <2>2. /\ Line' \in SUBSET Flushes /\ Cardinality(Line') \in Nat /\ Cardinality(Line') <= N
          /\ Slots(Cardinality(Line')) \in Nat
          /\ Slots(Cardinality(Line')) <= Slots(N)
          /\ Slots(Cardinality(Line') + 1) = Slots(Cardinality(Line')) + FrameTime
      <3>1. Line' \in SUBSET Flushes
        BY DEF Line
      <3> QED
        BY <1>n, <3>1, LineFacts, SlotsFacts
    <2>3. FrameLeft' = FrameLeft /\ FrameLeft \in 0..FrameTime
      BY <2>1, Renewed DEF FrameLeft, writeAge
    <2>4. Slots(Cardinality(Line')) + FrameLeft <= Slots(N)
      <3>1. CASE wmu = Null
        BY <1>n, <2>2, <3>1 DEF FrameLeft
      <3>2. CASE wmu # Null
        <4>1. wmu \in Flushes \ Line'
          BY <1>0, <2>1, <3>2 DEF FrameOwned, Writers, Line
        <4>2. Cardinality(Line') + 1 <= N
          BY <2>2, <4>1, LineFacts
        <4>3. Slots(Cardinality(Line') + 1) <= Slots(N)
          BY <1>n, <2>2, <4>2, SlotsFacts
        <4> QED
          BY <1>0, <1>n, <2>2, <2>3, <4>3
      <3> QED
        BY <3>1, <3>2
    <2> QED
      BY <1>0, <1>1, <1>n, <2>1, <2>2, <2>3, <2>4 DEF PongInTime
  <1>5. CASE readPong
    <2>1. /\ UNCHANGED <<pc, wmu, ahead, writeLeft, pingLeft>>
          /\ pongLeft' = Never /\ readLeft' = ReadTimeout /\ pc["pong"] = "idle"
      BY <1>5 DEF readPong, renew
    <2>2. Line' = Line /\ FrameLeft' = FrameLeft
      BY <2>1 DEF Line, FrameLeft, writeAge
    <2> QED
      BY <1>0, <1>n, <1>r, <2>1, <2>2, Renewed DEF PongInTime
  <1>6. CASE readPing
    BY <1>0, <1>6 DEF readPing
  <1>7. ASSUME readExit PROVE FALSE
    BY <1>0, <1>7 DEF readExit
  <1>8. ASSUME NEW w \in Writers, LockWrite(w) PROVE PongInTime'
    <2>1. /\ wmu = Null /\ wmu' = w /\ pc[w] = "lock" /\ pc' = [pc EXCEPT ![w] = "head"]
          /\ ahead' = ahead \ {w} /\ writeLeft' = WriteTimeout
          /\ UNCHANGED <<readLeft, pingLeft, pongLeft>>
          /\ pc["ping"] = "lock" => w \in ahead \cup {"ping"}
      BY <1>8 DEF LockWrite, wmuFree
    <2>2. w # "pong" /\ pc["pong"] = "idle"
      BY <1>0, <2>1
    <2>3. FrameLeft = 0 /\ FrameLeft' = FrameTime
      BY <1>0, <2>1 DEF FrameLeft, writeAge
    <2>4. CASE w = "ping"
      BY <1>0, <1>1, <1>n, <2>1, <2>2, <2>3, <2>4 DEF PongInTime
    <2>5. CASE w # "ping" /\ pc["ping"] # "lock"
      <3>1. pc'["ping"] = pc["ping"] /\ pc["ping"] = "idle"
        BY <1>0, <1>1, <2>1, <2>5 DEF WritesInTime, FrameOwned
      <3> QED
        BY <1>0, <1>1, <1>n, <2>1, <2>2, <2>3, <3>1 DEF PongInTime
    <2>6. CASE w # "ping" /\ pc["ping"] = "lock"
      <3>1. w \in Line /\ Line' = Line \ {w} /\ pc'["ping"] = "lock"
        BY <1>0, <2>1, <2>2, <2>6 DEF Line, Writers
      <3>2. /\ Line' \in SUBSET Flushes /\ Cardinality(Line') \in Nat
            /\ Cardinality(Line) = Cardinality(Line') + 1
        BY <1>n, <3>1, LineFacts
      <3>3. /\ Slots(Cardinality(Line')) \in Nat
            /\ Slots(Cardinality(Line)) = Slots(Cardinality(Line')) + FrameTime
        BY <3>2, SlotsFacts
      <3> QED
        BY <1>0, <1>1, <1>n, <2>1, <2>2, <2>3, <2>6, <3>1, <3>3 DEF PongInTime
    <2> QED
      BY <2>4, <2>5, <2>6
  <1>9. ASSUME NEW w \in Writers, WriteHead(w) PROVE PongInTime'
    <2>1. /\ UNCHANGED <<wmu, ahead, writeLeft, readLeft, pingLeft, pongLeft>>
          /\ pc[w] = "head" /\ pc' = [pc EXCEPT ![w] = "tail"]
      BY <1>9 DEF WriteHead
    <2>2. Line' = Line /\ FrameLeft' = FrameLeft
      BY <2>1 DEF Line, FrameLeft, writeAge
    <2>3. /\ pc["pong"] = "idle"
          /\ pc'["ping"] = pc["ping"] \/ (pc["ping"] = "head" /\ pc'["ping"] = "tail")
      BY <1>0, <2>1
    <2> QED
      BY <1>1, <2>1, <2>2, <2>3 DEF PongInTime
  <1>10. ASSUME NEW w \in Writers, WriteTail(w) PROVE PongInTime'
    <2>1. /\ UNCHANGED <<ahead, pingLeft>> /\ Line' = Line
          /\ pc[w] = "tail" /\ pc' = [pc EXCEPT ![w] = "idle"]
          /\ wmu = w /\ wmu' = Null /\ FrameLeft' = 0
          /\ pongLeft' = IF w = "ping" /\ pongLeft = Never THEN PongDelay ELSE pongLeft
          /\ readLeft' = IF w = "pong" THEN ReadTimeout ELSE readLeft
      BY <1>10 DEF WriteTail, Line, FrameLeft, FrameOwned
    <2>2. FrameLeft >= 0 /\ FrameLeft \in Int
      BY <1>0, <1>1, <2>1 DEF FrameLeft, WritesInTime, writeAge
    <2>3. CASE w = "ping"
      BY <1>0, <1>1, <1>n, <2>1, <2>2, <2>3 DEF PongInTime, Never
    <2>4. CASE w = "pong"
      <3>1. pc'["ping"] = pc["ping"] /\ pc["ping"] \notin {"head", "tail"}
        BY <1>0, <2>1, <2>4 DEF FrameOwned
      <3> QED
        BY <1>0, <1>n, <1>r, <2>1, <2>4, <3>1 DEF PongInTime, Never
    <2>5. CASE w \notin {"ping", "pong"}
      <3>1. /\ pc'["ping"] = pc["ping"] /\ pc'["pong"] = pc["pong"]
            /\ pc["ping"] \notin {"head", "tail"}
        BY <1>0, <2>1, <2>5 DEF FrameOwned
      <3> QED
        BY <1>0, <1>1, <1>n, <2>1, <2>2, <2>5, <3>1 DEF PongInTime
    <2> QED
      BY <2>3, <2>4, <2>5
  <1>11. ASSUME NEW w \in Writers, WriteError(w) \/ close(w) PROVE FALSE
    BY <1>11, NoFailure
  <1>12. CASE UNCHANGED vars
    BY <1>i, <1>12 DEF vars
  <1> QED
    BY <1>2, <1>3, <1>4, <1>5, <1>6, <1>7, <1>8, <1>9, <1>10, <1>11, <1>12 DEF Next, Step

(* A peer that reads a frame within FrameTime and answers a ping within    *)
(* PongDelay keeps its connection, for any intervals that leave room for a *)
(* frame of every flush before the ping (readLoop, pingLoop): neither the  *)
(* read deadline nor a write deadline passes, whatever is on the wire.     *)
THEOREM LivePeerCorrect == Spec => []LivePeerKept
  <1> DEFINE Kept == responsive /\ InTime => KeptInv
  <1>1. Init => Kept
    BY InitKept
  <1>2. [Next]_vars => responsive' = responsive
    BY DEF Next, Step, Tick, writeMessage, writePing, readPong, readPing, readExit, LockWrite,
       WriteHead, WriteTail, WriteError, close, vars
  <1>3. WireType /\ FrameOwned /\ Kept /\ [Next]_vars => Kept'
    <2> SUFFICES ASSUME WireType, FrameOwned, Kept, [Next]_vars, responsive', InTime'
                 PROVE  KeptInv'
      OBVIOUS
    <2>1. responsive /\ InTime /\ KeptInv
      BY <1>2 DEF InTime
    <2>2. WireType'
      BY StepType
    <2> QED
      BY <2>1, <2>2, StepWrites, StepBounds, StepPong DEF KeptInv
  <1>4. Kept => LivePeerKept
    BY DEF LivePeerKept, KeptInv
  <1> QED
    BY <1>1, <1>3, <1>4, FrameCorrect, PTL DEF Spec

=============================================================================
