------------------------------ MODULE MCTimed ------------------------------
(***************************************************************************)
(* Instances for TLC of the components that keep state for a while.  A     *)
(* behaviour is one of the component in focus while the others stay as     *)
(* they began: the states are the sum of theirs, and not the product.      *)
(***************************************************************************)
EXTENDS Timed

VARIABLE focus

hVars == <<hCaller, hNow, byKey, out, added, born>>
aVars == <<truth, subject, state, askedAt, granted, cache, puts, lastRight>>
mVars == <<stored, changed, pc, keysMu, keysVal, keysAt, cursor, found, result,
           scanAt, failed>>
limiterVars == <<requestVars, bucketVars, historyVars>>

(* Where a component may begin in several ways, it does in its own focus. *)
TimedInit ==
  /\ focus \in {"limiter", "history", "authorizer", "gauge"}
  /\ Init /\ H!Init /\ A!Init /\ G!Init
  /\ focus # "limiter" => ip = [r \in Requests |-> CHOOSE a \in IPs : TRUE]
  /\ focus # "authorizer" =>
       /\ truth = [u \in Subjects |-> {}]
       /\ subject = [h \in Handshakes |-> CHOOSE u \in Subjects : TRUE]
  /\ focus # "gauge" => stored = {}

TimedNext ==
  /\ UNCHANGED focus
  /\ \/ focus = "limiter" /\ Next /\ UNCHANGED <<hVars, aVars, mVars>>
     \/ focus = "history" /\ H!Next /\ UNCHANGED <<limiterVars, aVars, mVars>>
     \/ focus = "authorizer" /\ A!Next /\ UNCHANGED <<limiterVars, hVars, mVars>>
     \/ focus = "gauge" /\ G!Next /\ UNCHANGED <<limiterVars, hVars, aVars>>

TimedSpec == TimedInit /\ [][TimedNext]_<<focus, vars, hVars, aVars, mVars>>
=============================================================================
