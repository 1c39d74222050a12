------------------------------ MODULE History ------------------------------
(***************************************************************************)
(* The history of recently published messages (history.go): a bounded      *)
(* buffer per key whose entries age out.  add, get and purge read the      *)
(* clock before they take h.mu, so entries are not in the order of their   *)
(* times, while prune stops at the first entry that is young enough.       *)
(*                                                                         *)
(* A message stands for one call of add, by the task of its POST.          *)
(***************************************************************************)
EXTENDS Integers, Sequences, SequencesExt

CONSTANTS
  Keys,
  Msgs,
  Readers,  \* requests for the history of a key
  Purger,   \* the sweeper goroutine, which calls purge after each sweep
  size,     \* config.HistorySize
  ttl,      \* config.HistoryTTL, 0 when entries do not age
  MaxTime   \* bound on the clock

HistoryAssumption ==
  /\ size \in Nat /\ size > 0   \* 0: there is no history
  /\ ttl \in Nat /\ MaxTime \in Nat
  /\ Purger \notin Msgs \cup Readers /\ Msgs \cap Readers = {}

Callers == Msgs \cup Readers \cup {Purger}

VARIABLES
  clock,
  caller,   \* caller[x]: "idle", "read" between the clock and the lock, "done"
  now,      \* now[x]: its reading of the clock
  byKey,    \* byKey[k]: the entries [m, at] of key k
  out,      \* out[r]: what request r was answered
  (* history, read by no action *)
  added,    \* added[k]: every entry ever added to k, in that order
  born      \* born[m]: when m was added

vars == <<clock, caller, now, byKey, out, added, born>>

Init ==
  /\ clock = 0
  /\ caller = [x \in Callers |-> "idle"]
  /\ now = [x \in Callers |-> 0]
  /\ byKey = [k \in Keys |-> << >>]
  /\ out = [r \in Readers |-> << >>]
  /\ added = [k \in Keys |-> << >>]
  /\ born = [m \in Msgs |-> 0]

-----------------------------------------------------------------------------
Tick ==
  /\ clock < MaxTime
  /\ clock' = clock + 1
  /\ UNCHANGED <<caller, now, byKey, out, added, born>>

ReadClock(x) ==
  /\ caller[x] = "idle"
  /\ x = Purger => ttl > 0
  /\ caller' = [caller EXCEPT ![x] = "read"]
  /\ now' = [now EXCEPT ![x] = clock]
  /\ UNCHANGED <<clock, byKey, out, added, born>>

(* Mutant: prune looks for the last old entry, wherever it is. *)
pruneToLast(items, t) ==
  LET old == {j \in 1..Len(items) : items[j].at < t - ttl}
  IN  IF ttl = 0 \/ old = {} THEN items
      ELSE SubSeq(items, (CHOOSE j \in old : \A i \in old : i <= j) + 1, Len(items))

(* The first entry that is not older than the TTL and all after it.  In    *)
(* the code the map's entry of a key goes when nothing is left; here a key *)
(* without an entry has the empty sequence.                                *)
prune(items, t) ==
  LET young == {j \in 1..Len(items) : items[j].at >= t - ttl}
  IN  IF ttl = 0 THEN items
      ELSE IF young = {} THEN << >>
      ELSE SubSeq(items, CHOOSE j \in young : \A i \in young : j <= i, Len(items))

cut(items) ==
  IF Len(items) > size THEN SubSeq(items, Len(items) - size + 1, Len(items)) ELSE items

add(k, m) ==
  LET e == [m |-> m, at |-> now[m]]
  IN  /\ caller[m] = "read"
      /\ caller' = [caller EXCEPT ![m] = "done"]
      /\ byKey' = [byKey EXCEPT ![k] = cut(Append(prune(@, now[m]), e))]
      /\ added' = [added EXCEPT ![k] = Append(@, e)]
      /\ born' = [born EXCEPT ![m] = clock]
      /\ UNCHANGED <<clock, now, out>>

(* Mutant: entries are pruned when they are added, not when they are read. *)
toReturnAll(k, t) == byKey[k]

toReturn(k, t) == prune(byKey[k], t)

get(k, r) ==
  LET items == toReturn(k, now[r])
  IN  /\ caller[r] = "read"
      /\ caller' = [caller EXCEPT ![r] = "done"]
      /\ byKey' = [byKey EXCEPT ![k] = items]
      /\ out' = [out EXCEPT ![r] = [j \in 1..Len(items) |-> items[j].m]]
      /\ UNCHANGED <<clock, now, added, born>>

purge ==
  /\ caller[Purger] = "read"
  /\ caller' = [caller EXCEPT ![Purger] = "idle"]
  /\ byKey' = [k \in Keys |-> prune(byKey[k], now[Purger])]
  /\ UNCHANGED <<clock, now, out, added, born>>

Next ==
  \/ Tick
  \/ \E x \in Callers : ReadClock(x)
  \/ \E k \in Keys, m \in Msgs : add(k, m)
  \/ \E k \in Keys, r \in Readers : get(k, r)
  \/ purge

Spec == Init /\ [][Next]_vars

-----------------------------------------------------------------------------
(* What is kept of a key are its newest entries, in the order of their     *)
(* publication and without gaps, no more than HistorySize of them; and     *)
(* none of the newest HistorySize is lost before its time: it is there as  *)
(* long as its own time is within the TTL.                                 *)
KeepsNewest ==
  \A k \in Keys :
    /\ IsSuffix(byKey[k], added[k]) /\ Len(byKey[k]) <= size
    /\ \A j \in 1..Len(added[k]) :
         j > Len(added[k]) - size /\ (ttl = 0 \/ added[k][j].at >= clock - ttl)
           => Len(byKey[k]) > Len(added[k]) - j

(* "max age of recent messages" (README): nothing is returned that was     *)
(* added more than the TTL before the request.  Its own time may be        *)
(* earlier than that, behind an entry with a later one.                    *)
NothingOldReturned ==
  ttl > 0 => \A r \in Readers : \A j \in 1..Len(out[r]) : born[out[r][j]] >= now[r] - ttl
=============================================================================
