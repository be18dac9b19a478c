------------------------------ MODULE MCInode ------------------------------
EXTENDS Inode

CONSTANTS p1, p2

Abs(elems) == [abs |-> TRUE, elems |-> elems]
Rel(elems) == [abs |-> FALSE, elems |-> elems]
C(op, path) == [op |-> op, path |-> path, new |-> NoPath]
L(old, new) == [op |-> "link", path |-> old, new |-> new]
A  == Abs(<<"a">>)
B  == Abs(<<"b">>)
AB == Abs(<<"a", "b">>)

MCCalls ==
  p1 :> {C("mkdir", A), C("creat", Rel(<<"b">>)), C("chdir", A), C("chdir", Rel(<<"..">>)),
         C("creat", A), C("open", A)} @@
  p2 :> {C("unlink", A), C("unlink", AB), C("unlink", B), C("chmod", B),
         L(A, B), L(A, A)}
=============================================================================
