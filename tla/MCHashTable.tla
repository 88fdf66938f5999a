----------------------------- MODULE MCHashTable -----------------------------
(* Hash functions: all keys collide, which ends in noexpand; a good one;   *)
(* one that fills both buckets before the second expansion, whose ideal    *)
(* length then reaches the threshold.                                      *)
EXTENDS HashTable

MCHashes ==
  {[e \in Elements |-> 1],
   [e \in Elements |-> e],
   [e \in Elements |-> IF e <= 3 THEN 2 * e ELSE IF e <= 5 THEN 1 ELSE e]}
=============================================================================
