------------------------- MODULE MCDependenceProfile --------------------------
(* DependenceProfile with two nested loops at most and buffers of two; ids   *)
(* have one bit, so that loop 2 is stored as the program itself.             *)
EXTENDS DependenceProfile, TLC
MCLoopIds == {1, 2}
MCValues == {0, 1, 2}
StoreSymmetry == Permutations(Stores)
===============================================================================
