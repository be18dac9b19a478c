------------------------------- MODULE MCProc -------------------------------
(* Model checking Proc: the constants are given by the configurations.     *)
EXTENDS Proc
=============================================================================
