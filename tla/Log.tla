--------------------------------- MODULE Log --------------------------------
(***************************************************************************)
(* The file system log: kernel/log.c, with the part of the buffer cache it *)
(* relies on (B_DIRTY pins a buffer) and the machine crashing at any step. *)
(*                                                                         *)
(* A critical section of log.lock is one step; every bwrite() is a step of *)
(* its own, and writes one block atomically (a block is one sector).       *)
(***************************************************************************)
EXTENDS Integers, Sequences, FiniteSets

CONSTANTS
  Op,          \* processes that make file system calls
  Block,       \* block numbers outside the log
  Val,         \* block contents
  MAXOPBLOCKS, \* blocks begin_op() reserves for a call
  OpBlocks,    \* the most blocks a call really writes
  NoBlock

ASSUME LogAssumption ==
  /\ MAXOPBLOCKS \in Nat \ {0}
  /\ OpBlocks \in Nat
  /\ NoBlock \notin Block

\* A call writes fewer blocks than begin_op() reserves for it: filewrite() cuts what
\* it writes in one call, and the other calls write less.
ASSUME OpAssumption == OpBlocks < MAXOPBLOCKS

LOGSIZE == MAXOPBLOCKS * 3
logsize == LOGSIZE       \* log.size = sb.nlog, which mkfs sets to LOGSIZE
LogArea == 1 .. logsize - 1   \* the log's blocks after its header

VARIABLES
  \* on disk
  disk,         \* the home blocks
  logblk,       \* the log blocks
  dhead,        \* block[0..n-1] of the log header
  \* in memory
  cache,        \* what bread() of a home block returns
  dirty,        \* B_DIRTY of its buffer
  lh,           \* log.lh: block[0..n-1]
  outstanding, committing,
  at,           \* where each process is
  wr,           \* the block the process has modified and is in log_write() with
  wrote,        \* the blocks its call has written
  phase,        \* where the thread in commit() or recover_from_log() is
  tail,         \* its loop index
  booting,      \* that thread is in initlog()
  panicked

ondisk == <<disk, logblk, dhead>>
ops    == <<at, wr, wrote>>
vars   == <<disk, logblk, dhead, cache, dirty, lh, outstanding, committing, at,
            wr, wrote, phase, tail, booting, panicked>>

InCall  == {"op", "check", "append"}

TypeOK ==
  /\ disk \in [Block -> Val]
  /\ logblk \in [LogArea -> Val]
  /\ dhead \in Seq(Block)
  /\ cache \in [Block -> Val]
  /\ dirty \in [Block -> BOOLEAN]
  /\ lh \in Seq(Block)
  /\ outstanding \in Nat
  /\ committing \in BOOLEAN
  /\ at \in [Op -> {"idle", "begin", "asleep"} \cup InCall]
  /\ wr \in [Op -> Block \cup {NoBlock}]
  /\ wrote \in [Op -> SUBSET Block]
  /\ phase \in {"none", "log", "head", "install", "done"}
  /\ tail \in Nat
  /\ booting \in BOOLEAN
  /\ panicked \in BOOLEAN

\* mkfs has written the disk and a zeroed log; init's forkret() calls initlog().
Init ==
  /\ disk \in [Block -> Val]
  /\ \E zero \in Val : logblk = [i \in LogArea |-> zero]
  /\ dhead = <<>>
  /\ cache = disk
  /\ dirty = [b \in Block |-> FALSE]
  /\ lh = <<>>
  /\ outstanding = 0
  /\ committing = FALSE
  /\ at = [o \in Op |-> "idle"]
  /\ wr = [o \in Op |-> NoBlock]
  /\ wrote = [o \in Op |-> {}]
  /\ phase = "install"
  /\ tail = 1
  /\ booting = TRUE
  /\ panicked = FALSE

-----------------------------------------------------------------------------
Goto(o, loc) == at' = [at EXCEPT ![o] = loc]

\* Fault: nobody is woken.
wakeupNone(now) == now

\* wakeup(&log): every sleeper of begin_op() tests again.
wakeup(now) == [o \in Op |-> IF now[o] = "asleep" THEN "begin" ELSE now[o]]

\* A process makes a file system call.
Call(o) ==
  /\ at[o] = "idle" /\ ~booting
  /\ Goto(o, "begin")
  /\ wrote' = [wrote EXCEPT ![o] = {}]
  /\ UNCHANGED <<ondisk, cache, dirty, lh, outstanding, committing, wr, phase,
                 tail, booting, panicked>>

\* Fault: the call does not count itself.
NoRoomOwn == Len(lh) + outstanding * MAXOPBLOCKS > LOGSIZE

NoRoom == Len(lh) + (outstanding + 1) * MAXOPBLOCKS > LOGSIZE

begin_op(o) ==
  /\ at[o] = "begin"
  /\ IF committing \/ NoRoom
     THEN Goto(o, "asleep") /\ UNCHANGED outstanding
     ELSE Goto(o, "op") /\ outstanding' = outstanding + 1
  /\ UNCHANGED <<ondisk, cache, dirty, lh, committing, wr, wrote, phase, tail,
                 booting, panicked>>

\* bread(), modify bp->data: the buffer stays locked until brelse().
Modify(o, b, v) ==
  /\ at[o] = "op"
  /\ \A x \in Op : wr[x] # b
  /\ Cardinality(wrote[o] \cup {b}) <= OpBlocks
  /\ cache' = [cache EXCEPT ![b] = v]
  /\ wr' = [wr EXCEPT ![o] = b]
  /\ wrote' = [wrote EXCEPT ![o] = @ \cup {b}]
  /\ Goto(o, "check")
  /\ UNCHANGED <<ondisk, dirty, lh, outstanding, committing, phase, tail,
                 booting, panicked>>

\* log_write(), the tests made without log.lock.
log_writeCheck(o) ==
  /\ at[o] = "check"
  /\ panicked' = (Len(lh) >= LOGSIZE \/ Len(lh) >= logsize - 1 \/ outstanding < 1)
  /\ Goto(o, "append")
  /\ UNCHANGED <<ondisk, cache, dirty, lh, outstanding, committing, wr, wrote,
                 phase, tail, booting>>

\* Fault: the buffer is not pinned.
PinnedNot(b) == dirty

\* block[i] with the first i that is b or n.
Absorbed(b) == IF \E i \in DOMAIN lh : lh[i] = b THEN lh ELSE Append(lh, b)
Pinned(b) == [dirty EXCEPT ![b] = TRUE]

\* log_write() under log.lock, and brelse().
log_writeAppend(o) ==
  /\ at[o] = "append"
  /\ lh' = Absorbed(wr[o])
  /\ dirty' = Pinned(wr[o])
  /\ wr' = [wr EXCEPT ![o] = NoBlock]
  /\ Goto(o, "op")
  /\ UNCHANGED <<ondisk, cache, outstanding, committing, wrote, phase, tail,
                 booting, panicked>>

\* Fault: the count is tested before it drops.
LastOneEarly == outstanding = 0

Ended == outstanding - 1
LastOne == outstanding = 1

end_op(o) ==
  /\ at[o] = "op"
  /\ outstanding' = Ended
  /\ panicked' = committing
  /\ IF LastOne
     THEN /\ committing' = TRUE
          /\ phase' = IF lh = <<>> THEN "done" ELSE "log"
          /\ tail' = 1
          /\ Goto(o, "idle")
     ELSE /\ at' = wakeup([at EXCEPT ![o] = "idle"])
          /\ UNCHANGED <<committing, phase, tail>>
  /\ UNCHANGED <<ondisk, cache, dirty, lh, wr, wrote, booting>>

-----------------------------------------------------------------------------
(***************************************************************************)
(* commit(), by the process whose end_op() was the last.                   *)
(***************************************************************************)
\* One turn of write_log()'s loop.
write_log ==
  /\ phase = "log" /\ tail <= Len(lh)
  /\ logblk' = [logblk EXCEPT ![tail] = cache[lh[tail]]]
  /\ tail' = tail + 1
  /\ UNCHANGED <<disk, dhead, cache, dirty, lh, outstanding, committing, ops,
                 phase, booting, panicked>>

write_logEnd ==
  /\ phase = "log" /\ tail > Len(lh)
  /\ phase' = "head"
  /\ UNCHANGED <<ondisk, cache, dirty, lh, outstanding, committing, ops, tail,
                 booting, panicked>>

\* The commit point.
write_head ==
  /\ phase = "head"
  /\ dhead' = lh
  /\ phase' = "install"
  /\ tail' = 1
  /\ UNCHANGED <<disk, logblk, cache, dirty, lh, outstanding, committing, ops,
                 booting, panicked>>

\* One turn of install_trans()'s loop, in commit() or in recovery.
install_trans ==
  /\ phase = "install" /\ tail <= Len(lh)
  /\ disk' = [disk EXCEPT ![lh[tail]] = logblk[tail]]
  /\ cache' = [cache EXCEPT ![lh[tail]] = logblk[tail]]
  /\ dirty' = [dirty EXCEPT ![lh[tail]] = FALSE]
  /\ tail' = tail + 1
  /\ UNCHANGED <<logblk, dhead, lh, outstanding, committing, ops, phase, booting,
                 panicked>>

\* log.lh.n = 0; write_head().
Erase ==
  /\ phase = "install" /\ tail > Len(lh)
  /\ lh' = <<>>
  /\ dhead' = <<>>
  /\ phase' = IF booting THEN "none" ELSE "done"
  /\ booting' = FALSE
  /\ tail' = 1
  /\ UNCHANGED <<disk, logblk, cache, dirty, outstanding, committing, ops,
                 panicked>>

\* The end of end_op(): committing = 0, wakeup.
CommitDone ==
  /\ phase = "done"
  /\ committing' = FALSE
  /\ at' = wakeup(at)
  /\ phase' = "none"
  /\ UNCHANGED <<ondisk, cache, dirty, lh, outstanding, wr, wrote, tail, booting,
                 panicked>>

-----------------------------------------------------------------------------
\* bget() recycles a buffer that is neither locked nor B_DIRTY; the next bread()
\* gets the block from disk.
Evict(b) ==
  /\ ~dirty[b] /\ \A o \in Op : wr[o] # b
  /\ cache' = [cache EXCEPT ![b] = disk[b]]
  /\ UNCHANGED <<ondisk, dirty, lh, outstanding, committing, ops, phase, tail,
                 booting, panicked>>

\* The machine stops (also after a panic) and boots: memory is lost, initlog()
\* has read the header from disk.
Crash ==
  /\ cache' = disk
  /\ dirty' = [b \in Block |-> FALSE]
  /\ lh' = dhead
  /\ outstanding' = 0
  /\ committing' = FALSE
  /\ at' = [o \in Op |-> "idle"]
  /\ wr' = [o \in Op |-> NoBlock]
  /\ wrote' = [o \in Op |-> {}]
  /\ phase' = "install"
  /\ tail' = 1
  /\ booting' = TRUE
  /\ panicked' = FALSE
  /\ UNCHANGED ondisk

CommitStep ==
  write_log \/ write_logEnd \/ write_head \/ install_trans \/ Erase \/ CommitDone

OpStep(o) == begin_op(o) \/ log_writeCheck(o) \/ log_writeAppend(o) \/ end_op(o)

Running ==
  /\ ~panicked
  /\ \/ \E o \in Op : \/ Call(o) \/ OpStep(o)
                      \/ \E b \in Block, v \in Val : Modify(o, b, v)
     \/ CommitStep
     \/ \E b \in Block : Evict(b)

Next == Running \/ Crash

Spec == Init /\ [][Next]_vars

-----------------------------------------------------------------------------
(***************************************************************************)
(* The refinement of AtomicDisk.  A crash preserves the home blocks        *)
(* overlaid with the log if its header is not empty: what recovery makes   *)
(* of them.                                                                *)
(***************************************************************************)
StableDisk ==
  [b \in Block |->
    IF \E i \in DOMAIN dhead : dhead[i] = b
    THEN logblk[CHOOSE i \in DOMAIN dhead :
                  dhead[i] = b /\ \A j \in DOMAIN dhead : dhead[j] = b => j <= i]
    ELSE disk[b]]

Visible == IF booting THEN StableDisk ELSE cache
Active  == {o \in Op : at[o] \in InCall}

A == INSTANCE AtomicDisk WITH stable <- StableDisk, current <- Visible,
                              active <- Active

(***************************************************************************)
(* File system calls are atomic with respect to crashes, including crashes *)
(* during commit() and during recovery (log.c: "there is never any         *)
(* reasoning required about whether a commit might write an uncommitted    *)
(* system call's updates to disk").                                        *)
(***************************************************************************)
CrashAtomic == A!Spec

(***************************************************************************)
(* When the last end_op() has returned, everything the calls wrote is      *)
(* durable: it is what a crash would leave.                                *)
(***************************************************************************)
Durable ==
  phase = "none" /\ outstanding = 0 => StableDisk = cache

(***************************************************************************)
(* The reservation of begin_op() is enough: the transaction never outgrows *)
(* the log area, though log_write() tests n without log.lock, and no panic *)
(* of log.c is reached.                                                    *)
(***************************************************************************)
ReservationFits == ~panicked /\ Len(lh) <= logsize - 1

(***************************************************************************)
(* A process asleep in begin_op() will be woken: a call or a commit whose  *)
(* end wakes it is in progress.                                            *)
(***************************************************************************)
SleeperHasWaker ==
  \A o \in Op : at[o] = "asleep" => outstanding > 0 \/ committing

\* A process that is not in a call starts none.
NoNewCall == \A o \in Op : at[o] = "idle" => at'[o] = "idle"
=============================================================================
