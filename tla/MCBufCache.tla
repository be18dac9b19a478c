----------------------------- MODULE MCBufCache -----------------------------
(* Model checking BufCache: processes, blocks and contents are             *)
(* interchangeable.                                                        *)
EXTENDS BufCache, TLC

BufSymmetry == Permutations(Proc) \cup Permutations(Block) \cup Permutations(Val)
=============================================================================
