-------------------------------- MODULE MCLog -------------------------------
(* Model checking Log: calls and blocks are interchangeable.               *)
EXTENDS Log, TLC

LogSymmetry == Permutations(Op) \cup Permutations(Block)
=============================================================================
