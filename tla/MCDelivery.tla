----------------------------- MODULE MCDelivery -----------------------------
(* Instances of Delivery for TLC. *)
EXTENDS Delivery, TLC

CONSTANTS k1, k2, p1, c1, c2, m1, m2, i1, s1, s2

PatternMatchesAll == Patterns \X Keys
PatternMatchesK1 == Patterns \X {k1}

OneKeyShard == [k \in Keys |-> s1]
TwoShards == [k \in Keys |-> IF k = k1 THEN s1 ELSE s2]

ClientsMessagesAndIds ==
  Permutations(Clients) \cup Permutations(Msgs) \cup Permutations(Ids)
=============================================================================
