------------------------------- MODULE MCLive -------------------------------
(***************************************************************************)
(* The liveness of the log, of pipes, of the buffer cache and of the       *)
(* console, on instances without symmetry.  The components do not          *)
(* interact here: a behaviour is one of one of them, the part chosen at    *)
(* first, and the others stay as they are.                                 *)
(***************************************************************************)
EXTENDS Integers

CONSTANTS NoBlock, NoProc

VARIABLES
  part,   \* the component that moves
  \* Log
  l_disk, l_logblk, l_dhead, l_cache, l_dirty, l_lh, l_outstanding, l_committing, l_at,
  l_wr, l_wrote, l_phase, l_tail, l_booting, l_panicked,
  \* Pipe
  p_data, p_nread, p_nwrite, p_readopen, p_writeopen, p_freed, p_plock, p_at, p_left,
  p_has, p_killed,
  \* BufCache
  b_blockno, b_valid, b_dirty, b_refcnt, b_data, b_owner, b_lru, b_idequeue, b_disk,
  b_at, b_b, b_want, b_panicked,
  \* Console
  c_buf, c_r, c_w, c_e, c_lock, c_at, c_left, c_target, c_killed

Ops == {1, 2}
Procs == {1, 2, 3}
Readers == {1, 2}

lvars ==
  <<l_disk, l_logblk, l_dhead, l_cache, l_dirty, l_lh, l_outstanding, l_committing,
    l_at, l_wr, l_wrote, l_phase, l_tail, l_booting, l_panicked>>
pvars ==
  <<p_data, p_nread, p_nwrite, p_readopen, p_writeopen, p_freed, p_plock, p_at, p_left,
    p_has, p_killed>>
bvars ==
  <<b_blockno, b_valid, b_dirty, b_refcnt, b_data, b_owner, b_lru, b_idequeue, b_disk,
    b_at, b_b, b_want, b_panicked>>
cvars ==
  <<c_buf, c_r, c_w, c_e, c_lock, c_at, c_left, c_target, c_killed>>
vars == <<part, lvars, pvars, bvars, cvars>>

L == INSTANCE Log WITH
  Op <- Ops, Block <- 1 .. 3, Val <- {0}, MAXOPBLOCKS <- 2, OpBlocks <- 1,
  disk <- l_disk, logblk <- l_logblk, dhead <- l_dhead, cache <- l_cache,
  dirty <- l_dirty, lh <- l_lh, outstanding <- l_outstanding,
  committing <- l_committing, at <- l_at, wr <- l_wr, wrote <- l_wrote,
  phase <- l_phase, tail <- l_tail, booting <- l_booting, panicked <- l_panicked

P == INSTANCE Pipe WITH
  Reader <- {1}, Writer <- {2, 3}, Byte <- {0}, PIPESIZE <- 1, UintMod <- 2,
  MaxCount <- 2, data <- p_data, nread <- p_nread, nwrite <- p_nwrite,
  readopen <- p_readopen, writeopen <- p_writeopen, freed <- p_freed, plock <- p_plock,
  at <- p_at, left <- p_left, has <- p_has, killed <- p_killed

B == INSTANCE BufCache WITH
  Proc <- Procs, Block <- {1, 2}, Val <- {0}, NBUF <- 3, MaxPinned <- 0,
  blockno <- b_blockno, valid <- b_valid, dirty <- b_dirty, refcnt <- b_refcnt,
  data <- b_data, owner <- b_owner, lru <- b_lru, idequeue <- b_idequeue,
  disk <- b_disk, at <- b_at, b <- b_b, want <- b_want, panicked <- b_panicked

C == INSTANCE Console WITH
  Reader <- Readers, INPUT_BUF <- 2, UintMod <- 4, MaxCount <- 2, buf <- c_buf,
  r <- c_r, w <- c_w, e <- c_e, lock <- c_lock, at <- c_at, left <- c_left,
  target <- c_target, killed <- c_killed

Init ==
  /\ part \in {"log", "pipe", "cache", "console"}
  /\ L!Init /\ P!Init /\ B!Init /\ C!Init

LogMoves == part = "log" /\ UNCHANGED <<part, pvars, bvars, cvars>>
PipeMoves == part = "pipe" /\ UNCHANGED <<part, lvars, bvars, cvars>>
CacheMoves == part = "cache" /\ UNCHANGED <<part, lvars, pvars, cvars>>
ConsoleMoves == part = "console" /\ UNCHANGED <<part, lvars, pvars, bvars>>

Next ==
  \/ LogMoves /\ L!Next
  \/ PipeMoves /\ P!Next
  \/ CacheMoves /\ B!Next
  \/ ConsoleMoves /\ C!Next

(***************************************************************************)
(* Fairness of the part that moves.  As the parts exclude each other, one  *)
(* condition on process i stands for what is asked of process i of each.   *)
(* The scheduler runs every process (WF); a process wins a spinlock it     *)
(* competes for, does not write to the log for ever within a call and does *)
(* not keep a buffer for ever (SF); commit() proceeds and the disk answers *)
(* (Device).  Nothing makes a process start a call, nobody has to type and *)
(* nobody has to close the other end of a pipe.                            *)
(***************************************************************************)
StronglyFair(i) ==
  \/ LogMoves /\ i \in Ops /\ ~l_panicked /\ L!end_op(i)
  \/ PipeMoves /\ P!Step(i)
  \/ CacheMoves /\ B!brelse(i)
  \/ ConsoleMoves /\ i \in Readers /\ C!Step(i)

WeaklyFair(i) ==
  \/ /\ LogMoves /\ i \in Ops /\ ~l_panicked
     /\ L!begin_op(i) \/ L!log_writeCheck(i) \/ L!log_writeAppend(i)
  \/ CacheMoves /\ (B!acquiresleep(i) \/ B!bread(i) \/ B!brelseRef(i))

Device ==
  \/ LogMoves /\ ~l_panicked /\ L!CommitStep
  \/ CacheMoves /\ ~b_panicked /\ B!ideintr

FairSpec ==
  /\ Init /\ [][Next]_vars
  /\ WF_vars(Device)
  /\ \A i \in Procs : WF_vars(WeaklyFair(i)) /\ SF_vars(StronglyFair(i))

-----------------------------------------------------------------------------
(* The processes of a component are interchangeable: each property is      *)
(* stated of one of them.                                                  *)

(***************************************************************************)
(* begin_op() returns once the other processes stop making new calls (it   *)
(* can be overtaken by each new call, so it may starve while they do not), *)
(* unless the machine crashes first: no wakeup(&log) it needs is lost.     *)
(***************************************************************************)
BeginReturns ==
  <>[][L!NoNewCall]_lvars => l_at[1] \in {"begin", "asleep"} ~> l_at[1] \in {"op", "idle"}

(***************************************************************************)
(* pipewrite() to a pipe whose read end is closed returns; piperead() from *)
(* one whose write end is closed returns.                                  *)
(***************************************************************************)
OrphanReturns ==
  LET InCall(p) == p_at[p] \in {"lock", "loop", "sleep", "asleep", "copy"}
  IN  /\ InCall(1) /\ ~p_writeopen ~> p_at[1] = "idle"
      /\ InCall(2) /\ ~p_readopen ~> p_at[2] = "idle"

(***************************************************************************)
(* bread() returns once no new ones overtake it: no wakeup of a sleep lock *)
(* or of the disk is lost, and processes do not wait for each other.       *)
(***************************************************************************)
BreadReturns ==
  <>[][B!NoNewCall]_bvars => b_at[1] \in {"lock", "asleep", "bread", "disk"} ~> b_at[1] = "have"

(***************************************************************************)
(* The three wrapping indices of struct input stay in order, and no reader *)
(* sleeps in consoleread() while a line is ready, and none has been told   *)
(* of it.                                                                  *)
(***************************************************************************)
NoLostInput == C!TypeOK /\ C!NoLostInput

(***************************************************************************)
(* consoleintr() and consoleread() implement LineInput: an editor of one   *)
(* line before a queue.                                                    *)
(***************************************************************************)
LineByLine ==
  C!Lines!Init /\ [][part = "console" => [C!Lines!Next]_(C!Lines!lvars)]_cvars

(***************************************************************************)
(* A reader that kill() finds asleep, or before it tests proc->killed,     *)
(* leaves consoleread() though nobody types any more.  (One that is killed *)
(* between the test and sleep() sleeps until the next line comes.)         *)
(***************************************************************************)
KilledReturns == c_killed[1] /\ c_at[1] \in {"lock", "loop"} ~> c_at[1] = "idle"
=============================================================================
