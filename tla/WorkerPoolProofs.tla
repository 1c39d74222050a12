-------------------------- MODULE WorkerPoolProofs --------------------------
(***************************************************************************)
(* Proofs that the pool neither drops nor doubles a task, and that a clean *)
(* shutdown leaves no POST in the queue, for any numbers of requests and   *)
(* workers and any capacity of the queue.                                  *)
(***************************************************************************)
EXTENDS WorkerPool, FiniteSetTheorems, TLAPS

HandlerState == {"none", "active", "hijacked", "registered", "scheduled", "answered"}

(* Every variable keeps its type. *)
PoolType ==
  /\ main \in {"serving", "draining", "closing", "stopped", "exited"}
  /\ shutdown \in {"no", "drained", "timeout"}
  /\ handler \in [Tasks -> HandlerState]
  /\ work \in Seq(Tasks)
  /\ worker \in [Workers -> {"select", "draining", "exited"}]
  /\ running \in [Workers -> Tasks \cup {Null}]
  /\ overflow \subseteq Tasks /\ ended \subseteq Tasks

USE WorkerPoolAssumption

LEMMA InitType == Init => PoolType
  BY DEF Init, PoolType, HandlerState

LEMMA StepType == PoolType /\ [Next]_vars => PoolType'
  <1> SUFFICES ASSUME PoolType, [Next]_vars PROVE PoolType'
    OBVIOUS
  <1> USE DEF PoolType, HandlerState, poolVars, connVars
  <1>1. ASSUME NEW r \in Tasks, Request(r) \/ upgrade(r) \/ handleWs(r) \/ Answer(r) PROVE PoolType'
    BY <1>1 DEF Request, upgrade, handleWs, Answer
  <1>2. ASSUME NEW r \in Tasks, schedule(r) PROVE PoolType'
    <2>1. work' \in Seq(Tasks) /\ overflow' \subseteq Tasks
      <3>1. work \in Seq(Tasks) /\ overflow \subseteq Tasks /\ enqueue(r)
        BY <1>2 DEF schedule
      <3>2. Append(work, r) \in Seq(Tasks) /\ overflow \cup {r} \subseteq Tasks
        BY <3>1
      <3> HIDE DEF PoolType
      <3> QED
        BY <3>1, <3>2 DEF enqueue
    <2> QED
      BY <1>2, <2>1 DEF schedule
  <1>3. ASSUME NEW r \in Tasks, OverflowEnds(r) PROVE PoolType'
    BY <1>3 DEF OverflowEnds
  <1>4. ASSUME NEW w \in Workers, Take(w) PROVE PoolType'
    BY <1>4 DEF Take
  <1>5. ASSUME NEW w \in Workers, SeeDone(w) \/ WorkerExit(w) PROVE PoolType'
    BY <1>5 DEF SeeDone, WorkerExit, afterDone
  <1>6. ASSUME NEW w \in Workers, TaskEnds(w) PROVE PoolType'
    BY <1>6 DEF TaskEnds, afterPanic
  <1>7. ASSUME NEW c \in Handshakes, pingLoop(c) PROVE PoolType'
    BY <1>7 DEF pingLoop
  <1>8. CASE Signal \/ Main \/ Exit
    BY <1>8 DEF Signal, Main, Shutdown, Stop, Exit
  <1>9. CASE UNCHANGED vars
    BY <1>9 DEF vars
  <1> QED
    BY <1>1, <1>2, <1>3, <1>4, <1>5, <1>6, <1>7, <1>8, <1>9 DEF Next, Handler, Worker

-----------------------------------------------------------------------------
(* Where a task is. *)

InWork(t) == \E j \in 1..Len(work) : work[j] = t
InWorker(t) == \E w \in Workers : running[w] = t

(* The counts of TaskInOnePlace without counting. *)
QueuedOnce == \A j, l \in 1..Len(work) : work[j] = work[l] => j = l

RunOnce == \A v, w \in Workers : running[v] = running[w] /\ running[v] # Null => v = w

PlacesApart ==
  \A t \in Tasks : /\ InWork(t) => ~InWorker(t) /\ t \notin overflow /\ t \notin ended
                   /\ InWorker(t) => t \notin overflow /\ t \notin ended
                   /\ t \in overflow => t \notin ended

PlacedIfScheduled ==
  \A t \in Tasks : handler[t] \in {"scheduled", "answered"}
                     <=> InWork(t) \/ InWorker(t) \/ t \in overflow \/ t \in ended

Placed == QueuedOnce /\ RunOnce /\ PlacesApart /\ PlacedIfScheduled

(* The two operations of the channel. *)
LEMMA AppendWork ==
  ASSUME work \in Seq(Tasks), NEW r \in Tasks, work' = Append(work, r)
  PROVE  /\ \A t \in Tasks : InWork(t)' <=> InWork(t) \/ t = r
         /\ QueuedOnce /\ ~InWork(r) => QueuedOnce'
  <1>1. /\ Len(work) \in Nat /\ Len(work') = Len(work) + 1 /\ work'[Len(work) + 1] = r
        /\ \A j \in 1..Len(work) : work'[j] = work[j]
    OBVIOUS
  <1>2. ASSUME NEW t \in Tasks PROVE InWork(t)' <=> InWork(t) \/ t = r
    <2>1. ASSUME InWork(t) \/ t = r PROVE InWork(t)'
      BY <1>1, <2>1 DEF InWork
    <2>2. ASSUME InWork(t)' PROVE InWork(t) \/ t = r
      <3>1. PICK j \in 1..Len(work') : work'[j] = t
        BY <2>2 DEF InWork
      <3> QED
        BY <1>1, <3>1 DEF InWork
    <2> QED
      BY <2>1, <2>2
  <1>3. ASSUME QueuedOnce, ~InWork(r) PROVE QueuedOnce'
    <2> SUFFICES ASSUME NEW j \in 1..Len(work'), NEW l \in 1..Len(work'), work'[j] = work'[l]
                 PROVE  j = l
      BY DEF QueuedOnce
    <2> QED
      BY <1>1, <1>3 DEF QueuedOnce, InWork
  <1> QED
    BY <1>2, <1>3

LEMMA TakeWork ==
  ASSUME work \in Seq(Tasks), work # << >>, work' = Tail(work)
  PROVE  /\ Head(work) \in Tasks /\ InWork(Head(work))
         /\ \A t \in Tasks : InWork(t)' => InWork(t)
         /\ QueuedOnce => /\ QueuedOnce'
                          /\ \A t \in Tasks : InWork(t)' <=> InWork(t) /\ t # Head(work)
  <1>1. /\ Len(work) \in Nat \ {0} /\ Len(work') = Len(work) - 1
        /\ Head(work) = work[1] /\ work[1] \in Tasks
        /\ \A j \in 1..Len(work') : work'[j] = work[j + 1]
    OBVIOUS
  <1>2. Head(work) \in Tasks /\ InWork(Head(work))
    BY <1>1 DEF InWork
  <1>3. ASSUME NEW t \in Tasks, InWork(t)' PROVE InWork(t)
    <2>1. PICK j \in 1..Len(work') : work'[j] = t
      BY <1>3 DEF InWork
    <2>2. j + 1 \in 1..Len(work) /\ work[j + 1] = t
      BY <1>1, <2>1
    <2> QED
      BY <2>2 DEF InWork
  <1>4. ASSUME QueuedOnce PROVE QueuedOnce'
    <2> SUFFICES ASSUME NEW j \in 1..Len(work'), NEW l \in 1..Len(work'), work'[j] = work'[l]
                 PROVE  j = l
      BY DEF QueuedOnce
    <2>1. /\ j + 1 \in 1..Len(work) /\ l + 1 \in 1..Len(work) /\ work[j + 1] = work[l + 1]
      BY <1>1
    <2> QED
      BY <1>4, <2>1 DEF QueuedOnce
  <1>5. ASSUME QueuedOnce, NEW t \in Tasks, InWork(t)' PROVE t # Head(work)
    <2>1. PICK j \in 1..Len(work') : work'[j] = t
      BY <1>5 DEF InWork
    <2>2. j + 1 \in 1..Len(work) /\ 1 \in 1..Len(work) /\ work[j + 1] = t /\ j + 1 # 1
      BY <1>1, <2>1
    <2> QED
      BY <1>1, <1>5, <2>2 DEF QueuedOnce
  <1>6. ASSUME NEW t \in Tasks, InWork(t), t # Head(work) PROVE InWork(t)'
    <2>1. PICK j \in 1..Len(work) : work[j] = t
      BY <1>6 DEF InWork
    <2>2. j - 1 \in 1..Len(work') /\ work'[j - 1] = t
      BY <1>1, <1>6, <2>1
    <2> QED
      BY <2>2 DEF InWork
  <1> QED
    BY <1>2, <1>3, <1>4, <1>5, <1>6

LEMMA StepPlaced == PoolType /\ Placed /\ [Next]_vars => Placed'
  <1> SUFFICES ASSUME PoolType, Placed, [Next]_vars PROVE Placed'
    OBVIOUS
  <1>0. /\ handler \in [Tasks -> HandlerState] /\ work \in Seq(Tasks)
        /\ running \in [Workers -> Tasks \cup {Null}]
        /\ overflow \subseteq Tasks /\ ended \subseteq Tasks
    BY DEF PoolType
  <1> USE DEF poolVars, connVars
  <1>1. ASSUME UNCHANGED <<work, running, overflow, ended>>,
               \A t \in Tasks : handler'[t] \in {"scheduled", "answered"}
                                  <=> handler[t] \in {"scheduled", "answered"}
        PROVE  Placed'
    BY <1>1 DEF Placed, QueuedOnce, RunOnce, PlacesApart, PlacedIfScheduled, InWork, InWorker
  <1>2. ASSUME NEW r \in Tasks, Request(r) \/ upgrade(r) \/ handleWs(r) \/ Answer(r) PROVE Placed'
    <2>1. \A t \in Tasks : handler'[t] \in {"scheduled", "answered"}
                             <=> handler[t] \in {"scheduled", "answered"}
      BY <1>0, <1>2 DEF Request, upgrade, handleWs, Answer
    <2> QED
      BY <1>1, <1>2, <2>1 DEF Request, upgrade, handleWs, Answer
  <1>3. ASSUME NEW r \in Tasks, schedule(r) PROVE Placed'
    <2>1. /\ ~InWork(r) /\ ~InWorker(r) /\ r \notin overflow /\ r \notin ended
      BY <1>3 DEF schedule, Ready, Placed, PlacedIfScheduled
    <2>2. /\ handler'[r] = "scheduled" /\ UNCHANGED <<running, ended>>
          /\ \A t \in Tasks \ {r} : handler'[t] = handler[t]
      BY <1>0, <1>3 DEF schedule
    <2>3. \A t \in Tasks : InWorker(t)' <=> InWorker(t)
      BY <2>2 DEF InWorker
    <2>4. RunOnce'
      BY <2>2 DEF Placed, RunOnce
    <2>5. CASE work' = Append(work, r) /\ UNCHANGED overflow
      <3>1. QueuedOnce' /\ \A t \in Tasks : InWork(t)' <=> InWork(t) \/ t = r
        BY <1>0, <2>1, <2>5, AppendWork DEF Placed
      <3>2. PlacesApart'
        BY <2>1, <2>2, <2>3, <2>5, <3>1 DEF Placed, PlacesApart
      <3>3. PlacedIfScheduled'
        BY <2>1, <2>2, <2>3, <2>5, <3>1 DEF Placed, PlacedIfScheduled
      <3> QED
        BY <2>4, <3>1, <3>2, <3>3 DEF Placed
    <2>6. CASE overflow' = overflow \cup {r} /\ UNCHANGED work
      <3>1. QueuedOnce' /\ \A t \in Tasks : InWork(t)' <=> InWork(t)
        BY <2>6 DEF Placed, QueuedOnce, InWork
      <3>2. PlacesApart'
        BY <2>1, <2>2, <2>3, <2>6, <3>1 DEF Placed, PlacesApart
      <3>3. PlacedIfScheduled'
        BY <2>1, <2>2, <2>3, <2>6, <3>1 DEF Placed, PlacedIfScheduled
      <3> QED
        BY <2>4, <3>1, <3>2, <3>3 DEF Placed
    <2> QED
      BY <1>3, <2>5, <2>6 DEF schedule, enqueue
  <1>4. ASSUME NEW w \in Workers, Take(w) PROVE Placed'
    <2> DEFINE h == Head(work)
    <2>1. /\ running[w] = Null /\ running' = [running EXCEPT ![w] = h]
          /\ work # << >> /\ work' = Tail(work)
          /\ UNCHANGED <<handler, overflow, ended>>
      BY <1>4 DEF Take
    <2>2. /\ h \in Tasks /\ InWork(h) /\ QueuedOnce'
          /\ \A t \in Tasks : InWork(t)' <=> InWork(t) /\ t # h
      BY <1>0, <2>1, TakeWork DEF Placed
    <2> HIDE DEF h
    <2>3. \A t \in Tasks : InWorker(t)' <=> InWorker(t) \/ t = h
      BY <1>0, <2>1 DEF InWorker
    <2>4. ~InWorker(h)
      BY <2>2 DEF Placed, PlacesApart
    <2>5. RunOnce'
      BY <1>0, <2>1, <2>4 DEF Placed, RunOnce, InWorker
    <2>6. PlacesApart'
      BY <2>1, <2>2, <2>3 DEF Placed, PlacesApart
    <2>7. PlacedIfScheduled'
      BY <2>1, <2>2, <2>3 DEF Placed, PlacedIfScheduled
    <2> QED
      BY <2>2, <2>5, <2>6, <2>7 DEF Placed
  <1>5. ASSUME NEW w \in Workers, TaskEnds(w) PROVE Placed'
    <2> DEFINE h == running[w]
    <2>1. /\ h \in Tasks /\ running' = [running EXCEPT ![w] = Null]
          /\ ended' = ended \cup {h}
          /\ UNCHANGED <<handler, work, overflow>>
      BY <1>0, <1>5 DEF TaskEnds
    <2>2. InWorker(h)
      BY DEF InWorker
    <2>3. \A t \in Tasks : InWorker(t)' <=> InWorker(t) /\ t # h
      BY <1>0, <2>1 DEF Placed, RunOnce, InWorker
    <2>4. RunOnce'
      BY <1>0, <2>1 DEF Placed, RunOnce
    <2>5. QueuedOnce' /\ \A t \in Tasks : InWork(t)' <=> InWork(t)
      BY <2>1 DEF Placed, QueuedOnce, InWork
    <2> HIDE DEF h
    <2>6. PlacesApart'
      BY <2>1, <2>2, <2>3, <2>5 DEF Placed, PlacesApart
    <2>7. PlacedIfScheduled'
      BY <2>1, <2>2, <2>3, <2>5 DEF Placed, PlacedIfScheduled
    <2> QED
      BY <2>4, <2>5, <2>6, <2>7 DEF Placed
  <1>6. ASSUME NEW r \in Tasks, OverflowEnds(r) PROVE Placed'
    <2>1. /\ r \in overflow /\ overflow' = overflow \ {r} /\ ended' = ended \cup {r}
          /\ UNCHANGED <<handler, work, running>>
      BY <1>6 DEF OverflowEnds
    <2>2. /\ QueuedOnce' /\ RunOnce'
          /\ \A t \in Tasks : (InWork(t)' <=> InWork(t)) /\ (InWorker(t)' <=> InWorker(t))
      BY <2>1 DEF Placed, QueuedOnce, RunOnce, InWork, InWorker
    <2>3. PlacesApart'
      BY <2>1, <2>2 DEF Placed, PlacesApart
    <2>4. PlacedIfScheduled'
      BY <2>1, <2>2 DEF Placed, PlacedIfScheduled
    <2> QED
      BY <2>2, <2>3, <2>4 DEF Placed
  <1>7. CASE \/ \E w \in Workers : SeeDone(w) \/ WorkerExit(w)
             \/ \E c \in Handshakes : pingLoop(c)
             \/ Signal \/ Main \/ Exit
    BY <1>1, <1>7 DEF SeeDone, WorkerExit, pingLoop, Signal, Main, Shutdown, Stop, Exit
  <1>8. CASE UNCHANGED vars
    BY <1>1, <1>8 DEF vars
  <1> QED
    BY <1>2, <1>3, <1>4, <1>5, <1>6, <1>7, <1>8 DEF Next, Handler, Worker

LEMMA PlacedCorrect == Spec => [](PoolType /\ Placed)
  <1>1. Init => PoolType /\ Placed
    BY InitType DEF Init, Placed, QueuedOnce, RunOnce, PlacesApart, PlacedIfScheduled,
       InWork, InWorker
  <1>2. PoolType /\ Placed /\ [Next]_vars => (PoolType /\ Placed)'
    BY StepType, StepPlaced
  <1> QED
    BY <1>1, <1>2, PTL DEF Spec

(* Being in a place, counted. *)
LEMMA PlacesCounted ==
  ASSUME PoolType, Placed, NEW t \in Tasks
  PROVE  /\ Cardinality(Queued(t)) = IF InWork(t) THEN 1 ELSE 0
         /\ Cardinality({w \in Workers : running[w] = t}) = IF InWorker(t) THEN 1 ELSE 0
         /\ Cardinality({t} \cap overflow) = IF t \in overflow THEN 1 ELSE 0
         /\ Cardinality({t} \cap ended) = IF t \in ended THEN 1 ELSE 0
  <1>1. \A S, x : S = {x} => Cardinality(S) = 1
    BY FS_Singleton
  <1>2. \A S : S = {} => Cardinality(S) = 0
    BY FS_EmptySet
  <1>3. ASSUME InWork(t) PROVE Cardinality(Queued(t)) = 1
    <2>1. PICK j \in 1..Len(work) : work[j] = t
      BY <1>3 DEF InWork
    <2>2. Queued(t) = {j}
      BY <2>1 DEF Queued, Placed, QueuedOnce
    <2> QED
      BY <2>2, <1>1
  <1>4. ASSUME ~InWork(t) PROVE Cardinality(Queued(t)) = 0
    <2>1. Queued(t) = {}
      BY <1>4 DEF Queued, InWork
    <2> QED
      BY <2>1, <1>2
  <1>5. ASSUME InWorker(t) PROVE Cardinality({w \in Workers : running[w] = t}) = 1
    <2>1. PICK v \in Workers : running[v] = t
      BY <1>5 DEF InWorker
    <2>2. t # Null
      OBVIOUS
    <2>3. {w \in Workers : running[w] = t} = {v}
      BY <2>1, <2>2 DEF Placed, RunOnce
    <2> QED
      BY <2>3, <1>1
  <1>6. ASSUME ~InWorker(t) PROVE Cardinality({w \in Workers : running[w] = t}) = 0
    <2>1. {w \in Workers : running[w] = t} = {}
      BY <1>6 DEF InWorker
    <2> QED
      BY <2>1, <1>2
  <1>7. ASSUME NEW S PROVE Cardinality({t} \cap S) = IF t \in S THEN 1 ELSE 0
    <2>1. CASE t \in S
      <3>1. {t} \cap S = {t}
        BY <2>1
      <3> QED
        BY <2>1, <3>1, <1>1
    <2>2. CASE t \notin S
      <3>1. {t} \cap S = {}
        BY <2>2
      <3> QED
        BY <2>2, <3>1, <1>2
    <2> QED
      BY <2>1, <2>2
  <1> QED
    BY <1>3, <1>4, <1>5, <1>6, <1>7

(* A scheduled task is in exactly one of queue, worker, goroutine of its   *)
(* own and the ended ones, and in none before: for every number of         *)
(* requests and workers and every capacity, shutdown included.             *)
THEOREM OnePlaceCorrect == Spec => []TaskInOnePlace
  <1>1. PoolType /\ Placed => TaskInOnePlace
    <2> SUFFICES ASSUME PoolType, Placed, NEW t \in Tasks
                 PROVE  Cardinality(Queued(t)) + Cardinality({w \in Workers : running[w] = t})
                        + Cardinality({t} \cap overflow) + Cardinality({t} \cap ended)
                        = IF handler[t] \in {"scheduled", "answered"} THEN 1 ELSE 0
      BY DEF TaskInOnePlace
    <2>1. /\ InWork(t) => ~InWorker(t) /\ t \notin overflow /\ t \notin ended
          /\ InWorker(t) => t \notin overflow /\ t \notin ended
          /\ t \in overflow => t \notin ended
          /\ handler[t] \in {"scheduled", "answered"}
               <=> InWork(t) \/ InWorker(t) \/ t \in overflow \/ t \in ended
      BY DEF Placed, PlacesApart, PlacedIfScheduled
    <2>2. /\ Cardinality(Queued(t)) = IF InWork(t) THEN 1 ELSE 0
          /\ Cardinality({w \in Workers : running[w] = t}) = IF InWorker(t) THEN 1 ELSE 0
          /\ Cardinality({t} \cap overflow) = IF t \in overflow THEN 1 ELSE 0
          /\ Cardinality({t} \cap ended) = IF t \in ended THEN 1 ELSE 0
      BY PlacesCounted
    <2> QED
      BY <2>1, <2>2
  <1> QED
    BY <1>1, PlacedCorrect, PTL

-----------------------------------------------------------------------------
(* Shutdown: what is known once srv.Shutdown has returned.  The workers    *)
(* stay in their select until then, a drained server has answered every    *)
(* POST and gets no new one, so that a POST still queued was queued when   *)
(* the first worker began to drain, and no worker leaves before it is      *)
(* taken.                                                                  *)
ShutOrder ==
  /\ shutdown # "no" => main \notin {"serving", "draining"}
  /\ \A w \in Workers : worker[w] # "select" => shutdown # "no"

PostsAnswered == shutdown = "drained" => \A r \in Posts : handler[r] \in {"none", "answered"}

LeftNoPost ==
  shutdown = "drained" /\ (\E w \in Workers : worker[w] = "exited") => \A r \in Posts : ~InWork(r)

PoolShut == ShutOrder /\ PostsAnswered /\ LeftNoPost

LEMMA StepShut == PoolType /\ PoolShut /\ [Next]_vars => PoolShut'
  <1> SUFFICES ASSUME PoolType, PoolShut, [Next]_vars PROVE PoolShut'
    OBVIOUS
  <1>0. /\ handler \in [Tasks -> HandlerState] /\ work \in Seq(Tasks)
        /\ worker \in [Workers -> {"select", "draining", "exited"}]
    BY DEF PoolType
  <1> USE DEF poolVars, connVars
  <1>1. ASSUME UNCHANGED <<main, shutdown, worker>>,
               shutdown = "drained" => \A r \in Posts : /\ handler'[r] = handler[r]
                                                        /\ InWork(r)' => InWork(r)
        PROVE  PoolShut'
    BY <1>1 DEF PoolShut, ShutOrder, PostsAnswered, LeftNoPost
  <1>2. ASSUME NEW r \in Tasks, Request(r) \/ upgrade(r) \/ handleWs(r) \/ Answer(r) PROVE PoolShut'
    <2>1. UNCHANGED <<main, shutdown, worker, work>>
      BY <1>2 DEF Request, upgrade, handleWs, Answer
    <2>2. ASSUME shutdown = "drained", NEW p \in Posts PROVE handler'[p] = handler[p]
      <3>1. main # "serving" /\ handler[p] \in {"none", "answered"}
        BY <2>2 DEF PoolShut, ShutOrder, PostsAnswered
      <3> QED
        BY <1>0, <1>2, <3>1 DEF Request, upgrade, handleWs, Answer, Tasks
    <2> QED
      BY <1>1, <2>1, <2>2 DEF InWork
  <1>3. ASSUME NEW r \in Tasks, schedule(r) PROVE PoolShut'
    <2>1. /\ UNCHANGED <<main, shutdown, worker>>
          /\ handler' = [handler EXCEPT ![r] = "scheduled"]
      BY <1>3 DEF schedule
    <2>2. ASSUME shutdown = "drained" PROVE r \notin Posts
      BY <1>3, <2>2 DEF schedule, Ready, PoolShut, PostsAnswered
    <2>3. \A p \in Posts : p # r => (InWork(p)' => InWork(p))
      <3>1. CASE work' = Append(work, r)
        BY <1>0, <3>1, AppendWork DEF Tasks
      <3>2. CASE UNCHANGED work
        BY <3>2 DEF InWork
      <3> QED
        BY <1>3, <3>1, <3>2 DEF schedule, enqueue
    <2> QED
      BY <1>0, <1>1, <2>1, <2>2, <2>3 DEF Tasks
  <1>4. ASSUME NEW w \in Workers, Take(w) PROVE PoolShut'
    <2>1. UNCHANGED <<main, shutdown, worker, handler>> /\ work # << >> /\ work' = Tail(work)
      BY <1>4 DEF Take
    <2>2. \A p \in Tasks : InWork(p)' => InWork(p)
      BY <1>0, <2>1, TakeWork
    <2> QED
      BY <1>1, <2>1, <2>2 DEF Tasks
  <1>5. ASSUME NEW w \in Workers, SeeDone(w) PROVE PoolShut'
    BY <1>0, <1>5 DEF SeeDone, seesDone, cancelled, afterDone, PoolShut, ShutOrder, PostsAnswered,
       LeftNoPost, InWork
  <1>6. ASSUME NEW w \in Workers, WorkerExit(w) PROVE PoolShut'
    <2>1. /\ UNCHANGED <<main, shutdown, handler, work>> /\ work = << >>
          /\ worker[w] = "draining" /\ worker' = [worker EXCEPT ![w] = "exited"]
      BY <1>6 DEF WorkerExit
    <2>2. \A p \in Posts : ~InWork(p)'
      BY <2>1 DEF InWork
    <2>3. ShutOrder' /\ PostsAnswered'
      BY <1>0, <2>1 DEF PoolShut, ShutOrder, PostsAnswered
    <2> QED
      BY <2>2, <2>3 DEF PoolShut, LeftNoPost
  <1>7. ASSUME NEW w \in Workers, TaskEnds(w) PROVE PoolShut'
    <2>1. worker' = worker
      BY <1>0, <1>7 DEF TaskEnds, afterPanic
    <2> QED
      BY <1>1, <1>7, <2>1 DEF TaskEnds, InWork
  <1>8. ASSUME \/ \E r \in Tasks : OverflowEnds(r)
               \/ \E c \in Handshakes : pingLoop(c)
        PROVE  PoolShut'
    BY <1>1, <1>8 DEF OverflowEnds, pingLoop, InWork
  <1>9. CASE Shutdown("drained") \/ Shutdown("timeout")
    <2>1. /\ main' = "closing" /\ shutdown' \in {"drained", "timeout"}
          /\ shutdown' = "drained" => Drained
          /\ UNCHANGED <<handler, work, worker>> /\ shutdown = "no"
      BY <1>9 DEF Shutdown, PoolType, PoolShut, ShutOrder
    <2>2. ShutOrder'
      BY <2>1 DEF ShutOrder
    <2>3. PostsAnswered'
      BY <2>1 DEF PostsAnswered, Drained, Tasks
    <2>4. LeftNoPost'
      BY <2>1 DEF LeftNoPost, PoolShut, ShutOrder
    <2> QED
      BY <2>2, <2>3, <2>4 DEF PoolShut
  <1>10. CASE Signal \/ Stop \/ Exit
    <2>1. /\ UNCHANGED <<shutdown, handler, work, worker>>
          /\ main' \in {"serving", "draining"} => main \in {"serving", "draining"}
      BY <1>10 DEF Signal, Stop, Exit
    <2> QED
      BY <2>1 DEF PoolShut, ShutOrder, PostsAnswered, LeftNoPost, InWork
  <1>11. CASE UNCHANGED vars
    BY <1>1, <1>11 DEF vars, InWork
  <1> QED
    BY <1>2, <1>3, <1>4, <1>5, <1>6, <1>7, <1>8, <1>9, <1>10, <1>11 DEF Next, Handler, Worker, Main

(* When Shutdown drained the server and the workers are gone, no POST is   *)
(* left in the queue, for every number of requests and workers and every   *)
(* capacity.                                                               *)
THEOREM PostsRun == Spec => []NoPostStranded
  <1>1. Init => PoolType /\ PoolShut
    BY InitType DEF Init, PoolShut, ShutOrder, PostsAnswered, LeftNoPost
  <1>2. PoolType /\ PoolShut /\ [Next]_vars => (PoolType /\ PoolShut)'
    BY StepType, StepShut
  <1>3. PoolShut => NoPostStranded
    <2> SUFFICES ASSUME PoolShut, shutdown = "drained", \A w \in Workers : worker[w] = "exited",
                        NEW r \in Posts
                 PROVE  Queued(r) = {}
      BY DEF NoPostStranded
    <2>1. \E w \in Workers : worker[w] = "exited"
      OBVIOUS
    <2>2. ~InWork(r)
      BY <2>1 DEF PoolShut, LeftNoPost
    <2> QED
      BY <2>2 DEF InWork, Queued
  <1> QED
    BY <1>1, <1>2, <1>3, PTL DEF Spec

=============================================================================
