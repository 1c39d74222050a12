----------------------------- MODULE WorkerPool -----------------------------
(***************************************************************************)
(* The pool of workers that runs the tasks of requests (engine.go) and the *)
(* shutdown of the process (main.go, Stop): requests, workers, overflow    *)
(* goroutines and ping loops go on while main shuts the server down,       *)
(* cancels the context, closes the connections and exits.                  *)
(*                                                                         *)
(* A request that is refused schedules nothing and is left out.  What a    *)
(* task does is Delivery's; here it may block on a slow client, end or     *)
(* panic.                                                                  *)
(***************************************************************************)
EXTENDS Integers, Sequences, FiniteSets

CONSTANTS
  Posts,      \* POST requests; each schedules a task of the same name
  Handshakes, \* websocket handshakes, likewise; also their connections
  Workers,
  queueCap,   \* capacity of the channel g.work
  Null

Tasks == Posts \cup Handshakes

ASSUME WorkerPoolAssumption ==
  /\ Posts \cap Handshakes = {}
  /\ Workers # {}
  /\ queueCap \in Nat
  /\ Null \notin Tasks

VARIABLES
  main,      \* "serving", "draining", "closing", "stopped", "exited"
  shutdown,  \* "no", or how srv.Shutdown ended: "drained", "timeout"
  handler,   \* handler[r]: where the handler of request r is
  work,      \* the channel
  worker,    \* worker[w]: "select", "draining" or "exited"
  running,   \* running[w]: the task worker w runs, or Null
  overflow,  \* tasks that run in goroutines of their own
  ended,     \* tasks that returned or panicked
  conns,     \* registered connections
  pinged,    \* connections whose ping loop runs
  closed     \* closed connections

poolVars == <<work, worker, running, overflow, ended>>
connVars == <<conns, pinged, closed>>
vars == <<main, shutdown, handler, poolVars, connVars>>

Init ==
  /\ main = "serving" /\ shutdown = "no"
  /\ handler = [r \in Tasks |-> "none"]
  /\ work = << >>
  /\ worker = [w \in Workers |-> "select"]
  /\ running = [w \in Workers |-> Null]
  /\ overflow = {} /\ ended = {}
  /\ conns = {} /\ pinged = {} /\ closed = {}

Alive == main # "exited"

(* g.ctx is done: Stop cancels it as soon as Shutdown has returned. *)
cancelled == shutdown # "no"

-----------------------------------------------------------------------------
(* Handlers. *)

(* Shutdown closes the listeners first: from the signal on nothing begins. *)
Request(r) ==
  /\ main = "serving" /\ handler[r] = "none"
  /\ handler' = [handler EXCEPT ![r] = "active"]
  /\ UNCHANGED <<main, shutdown, poolVars, connVars>>

(* A handshake: upgrade hijacks the connection, so that Shutdown no longer *)
(* waits for it; then it is registered and its ping loop started.          *)
upgrade(r) ==
  /\ Alive /\ r \in Handshakes /\ handler[r] = "active"
  /\ handler' = [handler EXCEPT ![r] = "hijacked"]
  /\ UNCHANGED <<main, shutdown, poolVars, connVars>>

handleWs(r) ==
  /\ Alive /\ handler[r] = "hijacked"
  /\ handler' = [handler EXCEPT ![r] = "registered"]
  /\ conns' = conns \cup {r}
  /\ pinged' = pinged \cup {r}
  /\ UNCHANGED <<main, shutdown, poolVars, closed>>

Ready(r) == handler[r] = (IF r \in Posts THEN "active" ELSE "registered")

(* Mutant: a full queue blocks the caller. *)
enqueueBlocking(r) == Len(work) < queueCap /\ work' = Append(work, r) /\ UNCHANGED overflow

(* Mutant: the goroutine of its own is started although there was room. *)
enqueueAndSpawn(r) ==
  /\ work' = IF Len(work) < queueCap THEN Append(work, r) ELSE work
  /\ overflow' = overflow \cup {r}

(* "It never blocks the caller: if the queue is full the task runs in its  *)
(* own goroutine (overflow valve)."  A worker that waits is handed the     *)
(* task by an enqueue and a take.                                          *)
enqueue(r) ==
  IF Len(work) < queueCap
  THEN work' = Append(work, r) /\ UNCHANGED overflow
  ELSE overflow' = overflow \cup {r} /\ UNCHANGED work

schedule(r) ==
  /\ Alive /\ Ready(r)
  /\ enqueue(r)
  /\ handler' = [handler EXCEPT ![r] = "scheduled"]
  /\ UNCHANGED <<main, shutdown, worker, running, ended, connVars>>

(* The handler returns: a POST has answered 202. *)
Answer(r) ==
  /\ Alive /\ handler[r] = "scheduled"
  /\ handler' = [handler EXCEPT ![r] = "answered"]
  /\ UNCHANGED <<main, shutdown, poolVars, connVars>>

-----------------------------------------------------------------------------
(* Workers: the select takes a task or sees that the context is done, and  *)
(* which of the two is open when both hold.                                *)

Take(w) ==
  /\ Alive /\ worker[w] \in {"select", "draining"}
  /\ running[w] = Null /\ work # << >>
  /\ running' = [running EXCEPT ![w] = Head(work)]
  /\ work' = Tail(work)
  /\ UNCHANGED <<main, shutdown, handler, worker, overflow, ended, connVars>>

(* Mutant: the worker leaves without looking at the queue. *)
afterDoneExit == "exited"

afterDone == "draining"

seesDone(w) == cancelled

SeeDone(w) ==
  /\ Alive /\ worker[w] = "select" /\ running[w] = Null /\ seesDone(w)
  /\ worker' = [worker EXCEPT ![w] = afterDone]
  /\ UNCHANGED <<main, shutdown, handler, work, running, overflow, ended, connVars>>

WorkerExit(w) ==
  /\ Alive /\ worker[w] = "draining" /\ running[w] = Null /\ work = << >>
  /\ worker' = [worker EXCEPT ![w] = "exited"]
  /\ UNCHANGED <<main, shutdown, handler, work, running, overflow, ended, connVars>>

(* Mutant: a panic ends the goroutine of the worker. *)
afterPanicDead(w) == "dead"

(* runTask recovers: a worker whose task panicked goes on. *)
afterPanic(w) == worker[w]

TaskEnds(w) ==
  /\ Alive /\ running[w] # Null
  /\ running' = [running EXCEPT ![w] = Null]
  /\ ended' = ended \cup {running[w]}
  /\ \/ UNCHANGED worker
     \/ worker' = [worker EXCEPT ![w] = afterPanic(w)]
  /\ UNCHANGED <<main, shutdown, handler, work, overflow, connVars>>

OverflowEnds(t) ==
  /\ Alive /\ t \in overflow
  /\ overflow' = overflow \ {t}
  /\ ended' = ended \cup {t}
  /\ UNCHANGED <<main, shutdown, handler, work, worker, running, connVars>>

-----------------------------------------------------------------------------
(* Mutant: the ping loop does not look at the context. *)
pingStopsNever(c) == FALSE

pingStops(c) == cancelled

pingLoop(c) ==
  /\ Alive /\ c \in pinged /\ pingStops(c)
  /\ pinged' = pinged \ {c}
  /\ closed' = closed \cup {c}
  /\ UNCHANGED <<main, shutdown, handler, poolVars, conns>>

-----------------------------------------------------------------------------
(* main: a signal, srv.Shutdown, app.Stop, and the exit that ends all.     *)

Signal ==
  /\ main = "serving"
  /\ main' = "draining"
  /\ UNCHANGED <<shutdown, handler, poolVars, connVars>>

(* Shutdown waits for the handlers that are not hijacked, ten seconds at   *)
(* most.  Then Stop cancels the context.                                   *)
Drained == \A r \in Tasks : \/ handler[r] \in {"none", "answered"}
                            \/ r \in Handshakes /\ handler[r] # "active"

Shutdown(outcome) ==
  /\ main = "draining"
  /\ Drained <=> outcome = "drained"
  /\ main' = "closing" /\ shutdown' = outcome
  /\ UNCHANGED <<handler, poolVars, connVars>>

(* Stop closes what is registered, under g.mu. *)
Stop ==
  /\ main = "closing"
  /\ main' = "stopped"
  /\ closed' = closed \cup conns
  /\ UNCHANGED <<shutdown, handler, poolVars, conns, pinged>>

Exit ==
  /\ main = "stopped"
  /\ main' = "exited"
  /\ UNCHANGED <<shutdown, handler, poolVars, connVars>>

-----------------------------------------------------------------------------
Handler(r) == upgrade(r) \/ handleWs(r) \/ schedule(r) \/ Answer(r)

Worker(w) == Take(w) \/ SeeDone(w) \/ WorkerExit(w)

Main == Shutdown("drained") \/ Shutdown("timeout") \/ Stop

Next ==
  \/ \E r \in Tasks : Request(r) \/ Handler(r) \/ OverflowEnds(r)
  \/ \E w \in Workers : Worker(w) \/ TaskEnds(w)
  \/ \E c \in Handshakes : pingLoop(c)
  \/ Signal \/ Main \/ Exit

Spec == Init /\ [][Next]_vars

(* Goroutines run and Shutdown has a timeout.  A task may block for ever   *)
(* (WriteTimeout 0 and a client that does not read).                       *)
FairSpec ==
  /\ Spec /\ WF_vars(Main)
  /\ \A r \in Tasks : WF_vars(Handler(r))
  /\ \A w \in Workers : WF_vars(Worker(w))
  /\ \A c \in Handshakes : WF_vars(pingLoop(c))

-----------------------------------------------------------------------------
Queued(t) == {j \in 1..Len(work) : work[j] = t}

(* A task that was scheduled is in one place: in the queue once, with one  *)
(* worker, with its own goroutine, or over.  None is dropped or run twice, *)
(* also while the workers leave.                                           *)
TaskInOnePlace ==
  \A t \in Tasks :
    Cardinality(Queued(t)) + Cardinality({w \in Workers : running[w] = t})
    + Cardinality({t} \cap overflow) + Cardinality({t} \cap ended)
    = IF handler[t] \in {"scheduled", "answered"} THEN 1 ELSE 0

(* Unless Shutdown timed out, the workers leave no POST behind when they   *)
(* are gone: its task was queued before the context was done, and they     *)
(* "drain already-queued tasks".  (A handshake that Shutdown did not wait  *)
(* for may find no worker.)                                                *)
NoPostStranded ==
  shutdown = "drained" /\ (\A w \in Workers : worker[w] = "exited") =>
    \A r \in Posts : Queued(r) = {}

(* A request is answered, or the process ends, even if every worker is     *)
(* stuck with a client that does not read.                                 *)
RequestsAnswered ==
  \A r \in Tasks : handler[r] # "none" ~> (handler[r] = "answered" \/ ~Alive)

(* Every task queued before the context was done runs to its end, panics   *)
(* of others and the shutdown notwithstanding, unless the process ends:    *)
(* provided no task blocks a worker for ever, as a write timeout ensures.  *)
TasksRun ==
  (\A w \in Workers : []<>(running[w] = Null)) =>
    \A t \in Tasks : (Queued(t) # {} /\ ~cancelled) ~> (t \in ended \/ ~Alive)

(* A connection that registers after Stop has closed the others is closed  *)
(* too, by its own ping loop.                                              *)
StoppedIsClosed ==
  \A c \in Handshakes : (cancelled /\ c \in conns) ~> (c \in closed \/ ~Alive)

=============================================================================
