----------------------------- MODULE AtomicDisk -----------------------------
(***************************************************************************)
(* What the log promises the file system: a disk that a crash never leaves *)
(* with part of a system call.  Calls run concurrently and see each        *)
(* other's writes at once; what survives a crash is a state of the disk at *)
(* a moment when no call was in progress, and never an older one than was  *)
(* made durable before.                                                    *)
(***************************************************************************)
CONSTANTS
  Op,      \* file system calls
  Block,   \* disk blocks outside the log
  Val      \* their contents

VARIABLES
  stable,  \* the contents a crash preserves
  current, \* the contents the calls see
  active   \* the calls in progress

avars == <<stable, current, active>>

Init ==
  /\ stable \in [Block -> Val]
  /\ current = stable
  /\ active = {}

Begin(o) ==
  /\ o \notin active
  /\ active' = active \cup {o}
  /\ UNCHANGED <<stable, current>>

Write(o, b, v) ==
  /\ o \in active
  /\ current' = [current EXCEPT ![b] = v]
  /\ UNCHANGED <<stable, active>>

End(o) ==
  /\ o \in active
  /\ active' = active \ {o}
  /\ UNCHANGED <<stable, current>>

Commit ==
  /\ active = {}
  /\ stable' = current
  /\ UNCHANGED <<current, active>>

Crash ==
  /\ current' = stable
  /\ active' = {}
  /\ UNCHANGED stable

Next ==
  \/ \E o \in Op : Begin(o) \/ End(o) \/ \E b \in Block, v \in Val : Write(o, b, v)
  \/ Commit
  \/ Crash

Spec == Init /\ [][Next]_avars
=============================================================================
