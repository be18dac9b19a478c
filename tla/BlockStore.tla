----------------------------- MODULE BlockStore -----------------------------
(***************************************************************************)
(* What the buffer cache promises: blocks that one process at a time locks *)
(* and reads or writes, as if there were no cache and no disk queue.       *)
(***************************************************************************)
CONSTANTS Proc, Block, Val, NoProc

VARIABLES
  content, \* the contents of each block
  holder   \* the process that has it locked

bvars == <<content, holder>>

Init ==
  /\ content \in [Block -> Val]
  /\ holder = [k \in Block |-> NoProc]

Lock(p, k) ==
  /\ holder[k] = NoProc
  /\ holder' = [holder EXCEPT ![k] = p]
  /\ UNCHANGED content

Write(p, k, v) ==
  /\ holder[k] = p
  /\ content' = [content EXCEPT ![k] = v]
  /\ UNCHANGED holder

Unlock(p, k) ==
  /\ holder[k] = p
  /\ holder' = [holder EXCEPT ![k] = NoProc]
  /\ UNCHANGED content

Next == \E p \in Proc, k \in Block :
  Lock(p, k) \/ Unlock(p, k) \/ \E v \in Val : Write(p, k, v)

Spec == Init /\ [][Next]_bvars
=============================================================================
