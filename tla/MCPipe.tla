------------------------------- MODULE MCPipe -------------------------------
(* Model checking Pipe: processes at one end are interchangeable.          *)
EXTENDS Pipe, TLC

PipeSymmetry == Permutations(Reader) \cup Permutations(Writer)
=============================================================================
