------------------------------ MODULE MCParts -------------------------------
(***************************************************************************)
(* Model checking the components whose state spaces are small, together.   *)
(* They do not interact here: a behaviour is one of one of them, the part  *)
(* chosen at first, and the others stay as they are.  The parts are spin   *)
(* locks; the interrupt flag over a switch of threads; open files and      *)
(* their blocks; memory; files of lines; the user database; and a log that *)
(* more blocks compete for than it can hold.                               *)
(***************************************************************************)
EXTENDS Spinlock, TLC

CONSTANTS Proc, Inum, NoProc, NoBlock, NoThread

VARIABLES
  part,   \* the component that moves
  s_cpu, s_run, s_sch, s_idle, s_ptlock, s_th, s_panicked,
  f_disk, f_icache, f_blocks, f_holder, f_ftable, f_ofile, f_pr, f_panicked, f_holes,
  m_free, m_proc, m_job, m_panicked,
  t_file, t_temp, t_op, t_lines,
  u_passwd, u_group, u_adm, u_getty, u_hurt,
  l_disk, l_logblk, l_dhead, l_cache, l_dirty, l_lh, l_outstanding, l_committing, l_at,
  l_wr, l_wrote, l_phase, l_tail, l_booting, l_panicked

svars == <<s_cpu, s_run, s_sch, s_idle, s_ptlock, s_th, s_panicked>>
fvars ==
  <<f_disk, f_icache, f_blocks, f_holder, f_ftable, f_ofile, f_pr, f_panicked, f_holes>>
mvars == <<m_free, m_proc, m_job, m_panicked>>
tvars == <<t_file, t_temp, t_op, t_lines>>
uvars == <<u_passwd, u_group, u_adm, u_getty, u_hurt>>
lvars ==
  <<l_disk, l_logblk, l_dhead, l_cache, l_dirty, l_lh, l_outstanding, l_committing,
    l_at, l_wr, l_wrote, l_phase, l_tail, l_booting, l_panicked>>
allvars == <<part, vars, svars, fvars, mvars, tvars, uvars, lvars>>

Switch == INSTANCE Switching WITH
  Thread <- Proc, cpu <- s_cpu, run <- s_run, sch <- s_sch, idle <- s_idle,
  ptlock <- s_ptlock, th <- s_th, panicked <- s_panicked

Files == INSTANCE FileIO WITH
  NBlock <- 3, NDIRECT <- 1, NINDIRECT <- 1, NFILE <- 1, NOFILE <- 2,
  WriteSizes <- {2}, Opener <- Proc, MaxSeek <- 1, MaxSize <- 1, disk <- f_disk,
  icache <- f_icache, blocks <- f_blocks, holder <- f_holder, ftable <- f_ftable,
  ofile <- f_ofile, pr <- f_pr, panicked <- f_panicked, holes <- f_holes

Mem == INSTANCE Memory WITH
  Proc <- {1, 2}, initproc <- 1, NPAGE <- 11, NKTAB <- 1, ImageSizes <- {1},
  MaxSize <- 3, Uid <- {0, 1}, free <- m_free, proc <- m_proc, job <- m_job,
  panicked <- m_panicked

Text == INSTANCE TextFile WITH
  BUFSIZE <- 2, MaxLen <- 2, MaxLines <- 3, file <- t_file, temp <- t_temp, op <- t_op,
  lines <- t_lines

Users == INSTANCE UserDb WITH
  Name <- {"r", "a", "b"}, Password <- {"x"}, FirstId <- 1, MaxId <- 1, MaxLines <- 2,
  MaxList <- 3, passwd <- u_passwd, group <- u_group, adm <- u_adm, getty <- u_getty,
  hurt <- u_hurt

FullLog == INSTANCE Log WITH
  Op <- {1, 2}, Block <- 1 .. 5, Val <- {0}, MAXOPBLOCKS <- 2, OpBlocks <- 1,
  disk <- l_disk, logblk <- l_logblk, dhead <- l_dhead, cache <- l_cache,
  dirty <- l_dirty, lh <- l_lh, outstanding <- l_outstanding,
  committing <- l_committing, at <- l_at, wr <- l_wr, wrote <- l_wrote,
  phase <- l_phase, tail <- l_tail, booting <- l_booting, panicked <- l_panicked

\* Bound: once trim() has made a hole, which most properties of files exclude, a file
\* has at most two descriptors.
HoleBound == f_holes' => f_ftable'[1].ref <= 2

SumInit ==
  /\ part \in {"locks", "switch", "files", "memory", "text", "users", "log"}
  /\ Init /\ (part # "locks" => \A c \in CPU : lk[c] = 1)
  /\ Switch!Init /\ Files!Init /\ Mem!Init /\ FullLog!Init
  /\ Text!Init /\ (part # "text" => t_lines = <<<<"c">>>>)
  /\ Users!Init

SumNext ==
  /\ UNCHANGED part
  /\ \/ /\ part = "locks" /\ Next
        /\ UNCHANGED <<svars, fvars, mvars, tvars, uvars, lvars>>
     \/ /\ part = "switch" /\ Switch!Next
        /\ UNCHANGED <<vars, fvars, mvars, tvars, uvars, lvars>>
     \/ /\ part = "files" /\ Files!Next /\ HoleBound
        /\ UNCHANGED <<vars, svars, mvars, tvars, uvars, lvars>>
     \/ /\ part = "memory" /\ Mem!Next
        /\ UNCHANGED <<vars, svars, fvars, tvars, uvars, lvars>>
     \/ /\ part = "text" /\ Text!Next
        /\ UNCHANGED <<vars, svars, fvars, mvars, uvars, lvars>>
     \/ /\ part = "users" /\ Users!Next
        /\ UNCHANGED <<vars, svars, fvars, mvars, tvars, lvars>>
     \/ /\ part = "log" /\ FullLog!Next
        /\ UNCHANGED <<vars, svars, fvars, mvars, tvars, uvars>>

SumSpec == SumInit /\ [][SumNext]_allvars

Symmetry == Permutations(Proc) \cup Permutations(Inum)

-----------------------------------------------------------------------------
(* The properties of the parts, each of the part that moves.               *)

\* Types of the parts, and no panic of acquire(), release() and popcli(): counts and
\* offsets never leave their ranges, and commas stand between names only.
PartsOK ==
  /\ part = "locks" => TypeOK /\ NoPanic
  /\ part = "switch" => Switch!TypeOK
  /\ part = "files" => Files!TypeOK
  /\ part = "memory" => Mem!TypeOK
  /\ part = "text" => Text!TypeOK
  /\ part = "users" => Users!TypeOK

\* A thread comes back from sched() with interrupts on or off as it had them, though
\* intena is the CPU's; sched(), release() and popcli() do not panic, whichever thread
\* and CPU took ptable.lock; and scheduler() does not halt a CPU with interrupts off.
SwitchSafe == part = "switch" => Switch!SwitchSafe

\* f->ref is the number of descriptors for the file, over dup, fork and close.
RefExact == part = "files" => Files!RefExact

\* balloc() and bmap() never give a block to two files, no block in use is free, and
\* itrunc() in the last iput() frees all a removed file had, unless trim() has made a
\* hole.
BlocksOwned == part = "files" => Files!BlocksOwned /\ Files!NothingLeaked

\* But for the holes of trim(), every block below a file's size is there, so that a
\* read() does not allocate; what writei() changed of an inode is on disk when its lock
\* is dropped; and read() and write() panic only when balloc() finds no block.
Dense == part = "files" => Files!Dense /\ Files!SavedUnlessHoles /\ Files!KnownPanics

\* No page is lost or freed twice by fork, exec, sbrk, exit and wait, or by their
\* failures when kalloc() has no page.
PagesConserved == part = "memory" => Mem!PagesConserved

\* The pages below proc->sz are mapped when a call starts, but after sbrk(-sz), and
\* copyuvm() panics for no other reason.
SizeMapped == part = "memory" => Mem!SizeMapped

\* An effective user id differs from the user id only as exec() of a set-user-id
\* file has made it, in that program.
Privileged == part = "memory" => Mem!Privileged

\* addline() and changeline() leave the file the lines it should be, and the offset of
\* a scan stays at a line's start while changeline() moves lines.
FileIsLines == part = "text" => Text!FileIsLines /\ Text!ScanInStep

\* However useradd, groupadd and usermod are stopped half way, no two users and no two
\* groups share a name or an id, the gid of every user is that of a group, and the user
\* is listed in it, unless updateusername() was cut short or took a name from inside a
\* list.
UsersConsistent == part = "users" => Users!KeysUnique /\ Users!GroupOfUser /\ Users!OwnMember

\* A shell that getty starts has the group of its user, but for a login in the middle
\* of a rename.
ShellHasOwnGroup == part = "users" => Users!ShellHasOwnGroup

\* The reservation of begin_op() keeps log_write() from its panic when calls write
\* fewer blocks than they reserve, though together they have more than the log holds.
ReservationFits == part = "log" => FullLog!ReservationFits
=============================================================================
