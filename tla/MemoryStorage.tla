--------------------------- MODULE MemoryStorage ---------------------------
(***************************************************************************)
(* The memory backend (memory_storage.go) with its slices and the arrays   *)
(* behind them.  s.mu makes each method one step, but the slices that      *)
(* GetQueue returns are used after it is unlocked, and AddMessage and      *)
(* DeleteMessage write into the arrays in place.                           *)
(*                                                                         *)
(* SetQueue is left out: no production code calls it.                      *)
(***************************************************************************)
EXTENDS Integers, Sequences, FiniteSets

CONSTANTS
  Keys, Ids, Msgs, Null,
  Readers,  \* callers of GetQueue, which keep their result
  Id,       \* Id[m]: the id of message m
  Arrays,   \* backing arrays
  MaxCap    \* bound on the capacity of an array

MemoryStorageAssumption ==
  /\ Id \in [Msgs -> Ids]
  /\ MaxCap \in Nat /\ MaxCap > 0
  /\ Null \notin Arrays \cup Msgs

(* A slice: its first element is the array's first, as no method drops a   *)
(* prefix.  The nil slice has no array.                                    *)
Nil == [arr |-> Null, len |-> 0]
Slices == [arr : Arrays, len : 0..MaxCap] \cup {Nil}

VARIABLES
  heap,     \* heap[a]: the elements of array a, up to its capacity
  storage,  \* storage[k]: the slice of key k, Nil when the map has no entry
  held,     \* held[r]: the slice r's last GetQueue returned
  listed    \* listed[r]: the keys r's last GetKeys returned

vars == <<heap, storage, held, listed>>

Init ==
  /\ heap = [a \in Arrays |-> << >>]
  /\ storage = [k \in Keys |-> Nil]
  /\ held = [r \in Readers |-> Nil]
  /\ listed = [r \in Readers |-> {}]

-----------------------------------------------------------------------------
Elements(s) == IF s = Nil THEN << >> ELSE SubSeq(heap[s.arr], 1, s.len)

Queue(k) == Elements(storage[k])

(* The arrays nobody has a slice of: the garbage collector takes them.  In *)
(* every action the slices change first.                                   *)
Free == Arrays \ ({storage[k].arr : k \in Keys} \cup {held[r].arr : r \in Readers})

Collect(h) == heap' = [a \in Arrays |-> IF a \in Free' THEN << >> ELSE h[a]]

Positions(k, i) == {j \in 1..storage[k].len : Id[Queue(k)[j]] = i}

(* Mutant: the queue itself is returned, not a copy. *)
GetQueueShared(r, k) ==
  /\ held' = [held EXCEPT ![r] = storage[k]]
  /\ UNCHANGED <<storage, listed>>
  /\ Collect(heap)

GetQueue(r, k) ==
  /\ UNCHANGED <<storage, listed>>
  /\ IF storage[k].len = 0
     THEN held' = [held EXCEPT ![r] = Nil] /\ Collect(heap)
     ELSE \E a \in Free :
            /\ held' = [held EXCEPT ![r] = [arr |-> a, len |-> storage[k].len]]
            /\ Collect([heap EXCEPT ![a] = Queue(k)])

GetKeys(r) ==
  /\ listed' = [listed EXCEPT ![r] = {k \in Keys : storage[k] # Nil}]
  /\ UNCHANGED <<heap, storage, held>>

DeleteQueue(k) ==
  /\ storage' = [storage EXCEPT ![k] = Nil]
  /\ UNCHANGED <<held, listed>>
  /\ Collect(heap)

(* The built-in append: in place while the capacity lasts, else into a     *)
(* larger array, of a capacity that the runtime chooses.                   *)
AppendInPlace(k, m) ==
  LET s == storage[k]
  IN  /\ s # Nil /\ s.len < Len(heap[s.arr])
      /\ storage' = [storage EXCEPT ![k].len = s.len + 1]
      /\ Collect([heap EXCEPT ![s.arr][s.len + 1] = m])

AppendGrow(k, m) ==
  LET s == storage[k]
  IN  /\ s # Nil => s.len = Len(heap[s.arr])
      /\ \E a \in Free, cap \in s.len + 1 .. MaxCap :
           /\ storage' = [storage EXCEPT ![k] = [arr |-> a, len |-> s.len + 1]]
           /\ Collect([heap EXCEPT ![a] =
                [j \in 1..cap |-> IF j <= s.len THEN Queue(k)[j] ELSE m]])

Replace(k, m) ==
  /\ UNCHANGED storage
  /\ Collect([heap EXCEPT ![storage[k].arr] =
                [j \in DOMAIN @ |-> IF j \in Positions(k, Id[m]) THEN m ELSE @[j]]])

AddMessage(k, m) ==
  /\ UNCHANGED <<held, listed>>
  /\ IF Positions(k, Id[m]) # {} THEN Replace(k, m)
                                 ELSE AppendInPlace(k, m) \/ AppendGrow(k, m)

(* Mutant: the last element takes the place of the deleted one. *)
CloseGapBySwap(s, j) == [heap[s.arr] EXCEPT ![j] = heap[s.arr][s.len]]

(* The elements behind position j of slice s move up; the last stays. *)
CloseGap(s, j) ==
  [n \in DOMAIN heap[s.arr] |-> IF n \in j .. s.len - 1 THEN heap[s.arr][n + 1]
                                                        ELSE heap[s.arr][n]]

Shortened(s) == IF s.len = 1 THEN Nil ELSE [s EXCEPT !.len = @ - 1]

DeleteMessage(k, i) ==
  \E j \in Positions(k, i) :
    /\ storage' = [storage EXCEPT ![k] = Shortened(@)]
    /\ UNCHANGED <<held, listed>>
    /\ Collect([heap EXCEPT ![storage[k].arr] = CloseGap(storage[k], j)])

Next ==
  \/ \E r \in Readers, k \in Keys : GetQueue(r, k)
  \/ \E r \in Readers : GetKeys(r)
  \/ \E k \in Keys : DeleteQueue(k)
  \/ \E k \in Keys, m \in Msgs : AddMessage(k, m)
  \/ \E k \in Keys, i \in Ids : DeleteMessage(k, i)

Spec == Init /\ [][Next]_vars

-----------------------------------------------------------------------------
(* The refinement mapping: a key holds the elements of its slice by their  *)
(* ids, and a reader has whatever its slice shows now.                     *)
StoreOf ==
  [k \in Keys |-> [i \in Ids |->
     IF Positions(k, i) = {} THEN Null
     ELSE Queue(k)[CHOOSE j \in Positions(k, i) : TRUE]]]

ReadsOf ==
  [r \in Readers |-> {Elements(held[r])[j] : j \in 1..held[r].len}]

Atomic == INSTANCE AtomicStorage WITH store <- StoreOf, reads <- ReadsOf

(* The memory backend implements the promise of the Storage interface: no  *)
(* write in place is seen through a slice that GetQueue returned before    *)
(* ("Return a copy so the caller can use it after the lock is released     *)
(* without racing a concurrent AddMessage").                               *)
ImplementsAtomicStorage == Atomic!Spec

Before(k, i, j) ==
  \E x \in Positions(k, i), y \in Positions(k, j) : x < y

(* Messages of a key keep the order in which their ids were first queued,  *)
(* also when one is published again or another is deleted: a flush sends   *)
(* them in that order.                                                     *)
OrderKept ==
  [][\A k \in Keys, i, j \in Ids : Before(k, i, j) => ~Before(k, j, i)']_vars
=============================================================================
