---------------------------- MODULE MCPoolCache ----------------------------
(* PoolCache with interchangeable calls; the properties are all safety. *)
EXTENDS PoolCache, TLC

CallSymmetry == Permutations(Readers) \union Permutations(Writers)

============================================================================
