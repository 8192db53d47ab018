------------------------------- MODULE MCCache --------------------------------
(* Cache with threads, keys and entries that TLC may permute.              *)
EXTENDS Cache, TLC

Symmetry == Permutations(Users) \cup Permutations(Keys) \cup Permutations(Refs)
==============================================================================
