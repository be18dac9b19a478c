-------------------------------- MODULE Pipe --------------------------------
(***************************************************************************)
(* Pipes: kernel/pipe.c, with the last fileclose() of each end and kill()  *)
(* of the processes that use it.                                           *)
(*                                                                         *)
(* p->lock is explicit: kill() takes only ptable.lock, so it can come      *)
(* between the test of killed and the sleep() of a process that holds      *)
(* p->lock.  sleep() itself is one step: it holds ptable.lock from before  *)
(* it drops p->lock until the process is SLEEPING.                         *)
(***************************************************************************)
EXTENDS Integers, Sequences, FiniteSets

CONSTANTS
  Reader, Writer, \* the processes that have each end open at first
  Byte,
  PIPESIZE,
  UintMod,        \* 2^32: nread and nwrite are uints
  MaxCount,       \* bound: the largest n of a read or write
  NoProc

Proc == Reader \cup Writer

ASSUME PipeAssumption ==
  /\ PIPESIZE \in Nat \ {0}
  /\ UintMod \in Nat /\ UintMod > PIPESIZE /\ UintMod % PIPESIZE = 0
  /\ MaxCount \in Nat \ {0}
  /\ Reader \cap Writer = {}
  /\ NoProc \notin Reader \cup Writer

VARIABLES
  data, nread, nwrite, readopen, writeopen,  \* struct pipe
  freed,     \* kfree(p) was called
  plock,     \* the process that holds p->lock
  at,        \* where each process is
  left,      \* the bytes its call still has to copy
  has,       \* it has its end of the pipe open
  killed

pipe == <<data, nread, nwrite, readopen, writeopen>>
vars == <<data, nread, nwrite, readopen, writeopen, freed, plock, at, left, has,
          killed>>

\* "lock": acquires p->lock; "loop": in the loop that may sleep; "sleep": about
\* to call sleep(); "copy": piperead()'s copy loop; "close": in pipeclose().
Loc == {"idle", "lock", "loop", "sleep", "asleep", "copy", "close", "gone"}

TypeOK ==
  /\ data \in [0 .. PIPESIZE - 1 -> Byte]
  /\ nread \in 0 .. UintMod - 1
  /\ nwrite \in 0 .. UintMod - 1
  /\ readopen \in BOOLEAN
  /\ writeopen \in BOOLEAN
  /\ freed \in BOOLEAN
  /\ plock \in Proc \cup {NoProc}
  /\ at \in [Proc -> Loc]
  /\ left \in [Proc -> 0 .. MaxCount]
  /\ has \in [Proc -> BOOLEAN]
  /\ killed \in [Proc -> BOOLEAN]

\* pipealloc(), and the fork()s that shared the two ends.
Init ==
  /\ \E v \in Byte : data = [i \in 0 .. PIPESIZE - 1 |-> v]
  /\ nread = 0
  /\ nwrite = 0
  /\ readopen = TRUE
  /\ writeopen = TRUE
  /\ freed = FALSE
  /\ plock = NoProc
  /\ at = [p \in Proc |-> "idle"]
  /\ left = [p \in Proc |-> 0]
  /\ has = [p \in Proc |-> TRUE]
  /\ killed = [p \in Proc |-> FALSE]

-----------------------------------------------------------------------------
Goto(p, loc) == at' = [at EXCEPT ![p] = loc]

\* Fault: a sleeper is not told.
wakeupNone(chan) == at

\* The locations after wakeup(&p->nread) or wakeup(&p->nwrite): the sleepers of
\* the channel go on to reacquire p->lock.
wakeup(chan) == [p \in Proc |-> IF p \in chan /\ at[p] = "asleep" THEN "lock" ELSE at[p]]

\* Fault: the uint sum is not taken modulo 2^32.
fullWide == nwrite = nread + PIPESIZE

full  == nwrite = (nread + PIPESIZE) % UintMod
empty == nread = nwrite

\* The value n++ leaves in a uint.
Next32(n) == (n + 1) % UintMod

\* A process calls read() or write() on its end.
Call(p, n) ==
  /\ at[p] = "idle" /\ has[p] /\ ~killed[p]
  /\ Goto(p, "lock")
  /\ left' = [left EXCEPT ![p] = n]
  /\ UNCHANGED <<pipe, freed, plock, has, killed>>

\* acquire(&p->lock), at first or at the end of sleep().
Lock(p) ==
  /\ at[p] = "lock" /\ plock = NoProc
  /\ plock' = p
  /\ Goto(p, "loop")
  /\ UNCHANGED <<pipe, freed, left, has, killed>>

\* release(&p->lock) and return.
Unlock(p, now) ==
  /\ plock' = NoProc
  /\ at' = [now EXCEPT ![p] = "idle"]
  /\ left' = [left EXCEPT ![p] = 0]

(***************************************************************************)
(* pipewrite()                                                             *)
(***************************************************************************)
WriteByte(p, v) ==
  /\ p \in Writer /\ at[p] = "loop" /\ left[p] > 0 /\ ~full
  /\ data' = [data EXCEPT ![nwrite % PIPESIZE] = v]
  /\ nwrite' = Next32(nwrite)
  /\ left' = [left EXCEPT ![p] = @ - 1]
  /\ UNCHANGED <<nread, readopen, writeopen, freed, plock, at, has, killed>>

WriteFails(p) ==
  /\ p \in Writer /\ at[p] = "loop" /\ left[p] > 0 /\ full
  /\ ~readopen \/ killed[p]
  /\ Unlock(p, at)
  /\ UNCHANGED <<pipe, freed, has, killed>>

\* Full: wakeup(&p->nread), then sleep().
WriteFull(p) ==
  /\ p \in Writer /\ at[p] = "loop" /\ left[p] > 0 /\ full
  /\ readopen /\ ~killed[p]
  /\ at' = [wakeup(Reader) EXCEPT ![p] = "sleep"]
  /\ UNCHANGED <<pipe, freed, plock, left, has, killed>>

WriteReturns(p) ==
  /\ p \in Writer /\ at[p] = "loop" /\ left[p] = 0
  /\ Unlock(p, wakeup(Reader))
  /\ UNCHANGED <<pipe, freed, has, killed>>

(***************************************************************************)
(* piperead()                                                              *)
(***************************************************************************)
ReadWaits(p) ==
  /\ p \in Reader /\ at[p] = "loop" /\ empty /\ writeopen
  /\ IF killed[p] THEN Unlock(p, at) ELSE Goto(p, "sleep") /\ UNCHANGED <<plock, left>>
  /\ UNCHANGED <<pipe, freed, has, killed>>

ReadStarts(p) ==
  /\ p \in Reader /\ at[p] = "loop" /\ ~(empty /\ writeopen)
  /\ Goto(p, "copy")
  /\ UNCHANGED <<pipe, freed, plock, left, has, killed>>

ReadByte(p) ==
  /\ at[p] = "copy" /\ left[p] > 0 /\ ~empty
  /\ nread' = Next32(nread)
  /\ left' = [left EXCEPT ![p] = @ - 1]
  /\ UNCHANGED <<data, nwrite, readopen, writeopen, freed, plock, at, has, killed>>

ReadReturns(p) ==
  /\ at[p] = "copy" /\ (left[p] = 0 \/ empty)
  /\ Unlock(p, wakeup(Writer))
  /\ UNCHANGED <<pipe, freed, has, killed>>

-----------------------------------------------------------------------------
\* sleep(chan, &p->lock)
sleep(p) ==
  /\ at[p] = "sleep"
  /\ plock' = NoProc
  /\ Goto(p, "asleep")
  /\ UNCHANGED <<pipe, freed, left, has, killed>>

\* kill(), as far as the pipe is concerned.
kill(p) ==
  /\ at[p] # "gone" /\ ~killed[p]
  /\ killed' = [killed EXCEPT ![p] = TRUE]
  /\ Goto(p, IF at[p] = "asleep" THEN "lock" ELSE at[p])
  /\ UNCHANGED <<pipe, freed, plock, left, has>>

\* close(), or exit(): fileclose() of the process's end; the last one to close
\* it goes on to pipeclose().
fileclose(p) ==
  LET end == IF p \in Reader THEN Reader ELSE Writer IN
  /\ at[p] = "idle" /\ has[p]
  /\ has' = [has EXCEPT ![p] = FALSE]
  /\ Goto(p, IF \E q \in end \ {p} : has[q] THEN "gone" ELSE "close")
  /\ UNCHANGED <<pipe, freed, plock, left, killed>>

\* Fault: the other end is not told.
pipecloseQuiet(p) ==
  /\ at[p] = "close" /\ plock = NoProc
  /\ IF p \in Writer THEN writeopen' = FALSE /\ UNCHANGED readopen
                     ELSE readopen' = FALSE /\ UNCHANGED writeopen
  /\ at' = [at EXCEPT ![p] = "gone"]
  /\ freed' = ~(readopen' \/ writeopen')
  /\ UNCHANGED <<data, nread, nwrite, plock, left, has, killed>>

\* Fault: the pipe is freed when either end is closed.
pipecloseEager(p) ==
  /\ at[p] = "close" /\ plock = NoProc
  /\ IF p \in Writer THEN writeopen' = FALSE /\ UNCHANGED readopen
                     ELSE readopen' = FALSE /\ UNCHANGED writeopen
  /\ at' = [wakeup(IF p \in Writer THEN Reader ELSE Writer) EXCEPT ![p] = "gone"]
  /\ freed' = TRUE
  /\ UNCHANGED <<data, nread, nwrite, plock, left, has, killed>>

pipeclose(p) ==
  /\ at[p] = "close" /\ plock = NoProc
  /\ IF p \in Writer THEN writeopen' = FALSE /\ UNCHANGED readopen
                     ELSE readopen' = FALSE /\ UNCHANGED writeopen
  /\ at' = [wakeup(IF p \in Writer THEN Reader ELSE Writer) EXCEPT ![p] = "gone"]
  /\ freed' = ~(readopen' \/ writeopen')
  /\ UNCHANGED <<data, nread, nwrite, plock, left, has, killed>>

\* A step inside a call: the process keeps executing.
Step(p) ==
  \/ Lock(p) \/ WriteFails(p) \/ WriteFull(p) \/ WriteReturns(p)
  \/ \E v \in Byte : WriteByte(p, v)
  \/ ReadWaits(p) \/ ReadStarts(p) \/ ReadByte(p) \/ ReadReturns(p)
  \/ sleep(p) \/ pipeclose(p)

Next == \E p \in Proc :
  \/ Step(p) \/ kill(p) \/ fileclose(p)
  \/ \E n \in 1 .. MaxCount : Call(p, n)

Spec == Init /\ [][Next]_vars

-----------------------------------------------------------------------------
\* The bytes in the pipe, oldest first.
Contents ==
  [i \in 1 .. (nwrite - nread) % UintMod |-> data[(nread + i - 1) % PIPESIZE]]

Stream == INSTANCE ByteStream WITH queue <- Contents, Capacity <- PIPESIZE

(***************************************************************************)
(* Every byte written is read once, in order, and no more than PIPESIZE    *)
(* are in between, also after nread and nwrite have wrapped around.        *)
(***************************************************************************)
Fifo == Stream!Spec

(***************************************************************************)
(* No wakeup is lost: while a reader sleeps the pipe is empty and its      *)
(* write end open, unless the writer that changed this still has p->lock   *)
(* and has its wakeup(&p->nread) ahead, or a writer was killed; the same   *)
(* of a sleeping writer and a full pipe, where the exception is not        *)
(* needed.                                                                 *)
(***************************************************************************)
NoLostWakeup ==
  /\ \A r \in Reader : at[r] = "asleep" =>
       (empty /\ writeopen) \/ \E w \in Writer : at[w] = "loop" \/ killed[w]
  /\ \A w \in Writer : at[w] = "asleep" =>
       (full /\ readopen) \/ \E r \in Reader : at[r] = "copy"

(***************************************************************************)
(* kfree(p) comes after the last use: no process is in a call on the pipe, *)
(* or about to close it, once it is freed.                                 *)
(***************************************************************************)
NoUseAfterFree == freed => \A p \in Proc : at[p] = "gone"

(***************************************************************************)
(* What piperead()'s loop says ("DOC: pipe-empty"): once no writer is in   *)
(* its critical section, a reader sleeps only on an empty pipe.            *)
(***************************************************************************)
SleepsOnlyOnEmpty ==
  \A r \in Reader : at[r] = "asleep" => empty \/ \E w \in Writer : at[w] = "loop"
=============================================================================
