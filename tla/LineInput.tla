----------------------------- MODULE LineInput ------------------------------
(***************************************************************************)
(* What the console promises of its input: characters are edited until     *)
(* their line is committed, and a committed character can no longer be     *)
(* erased and is delivered once, in the order typed.  An end-of-file mark  *)
(* is taken without being delivered.                                       *)
(***************************************************************************)
EXTENDS Naturals, Sequences

CONSTANTS Char, Capacity

VARIABLES editing, ready

lvars == <<editing, ready>>

Init == editing = <<>> /\ ready = <<>>

Type(c) ==
  /\ Len(ready) + Len(editing) < Capacity
  /\ editing' = Append(editing, c) /\ UNCHANGED ready

\* The line is committed with its last character.
TypeLast(c) ==
  /\ Len(ready) + Len(editing) < Capacity
  /\ ready' = ready \o Append(editing, c) /\ editing' = <<>>

\* Some or all of the characters of the line are erased.
Erase ==
  /\ \E n \in 0 .. Len(editing) : editing' = SubSeq(editing, 1, n)
  /\ UNCHANGED ready

Take == ready # <<>> /\ ready' = Tail(ready) /\ UNCHANGED editing

Next == (\E c \in Char : Type(c) \/ TypeLast(c)) \/ Erase \/ Take

Spec == Init /\ [][Next]_lvars
=============================================================================
