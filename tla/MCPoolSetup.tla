---------------------------- MODULE MCPoolSetup ----------------------------
(* PoolSetup with interchangeable calls, addresses and users; the          *)
(* properties are all safety.                                              *)
EXTENDS PoolSetup, TLC

Symmetry == Permutations(Setters) \union Permutations(Urls) \union Permutations(Users)

============================================================================
