------------------------------- MODULE FileIO -------------------------------
(***************************************************************************)
(* Open files and their blocks: kernel/file.c, the calls of                *)
(* kernel/sysfile.c on descriptors, and block allocation, bmap, readi and  *)
(* writei of kernel/fs.c.                                                  *)
(*                                                                         *)
(* Data moves in whole blocks, one to a chunk: the unit of an offset, of a *)
(* size and of a transaction of filewrite() is a block.  The names of      *)
(* files, and what ilock() waits for, are in module Inode.  Files are open *)
(* for reading and writing; pipes and the console have their own modules.  *)
(* A step is a stretch under the inode's lock; f->off is advanced in a     *)
(* step of its own, since sys_lseek() takes no lock.                       *)
(***************************************************************************)
EXTENDS Integers, FiniteSets, FiniteSetsExt, TLC

CONSTANTS
  Proc, NoProc,
  Inum,       \* the files
  NBlock,     \* data blocks of the disk are 1 .. NBlock
  NDIRECT, NINDIRECT,
  NFILE, NOFILE,
  Opener,     \* the processes that open files; the others get theirs by fork()
  WriteSizes, \* blocks in one write()
  MaxSeek,    \* bound: the offset lseek() sets
  MaxSize     \* bound: the size trim() sets

MAXFILE == NDIRECT + NINDIRECT
Block   == 1 .. NBlock
File    == 1 .. NFILE
Fd      == 1 .. NOFILE

VARIABLES
  disk,      \* inodes on disk: allocated, nlink, size, addrs
  icache,    \* their cached copies: ref, size, addrs
  blocks,    \* the bitmap, and the contents of blocks used as indirect blocks
  holder,    \* the process that has the inode's lock over a step
  ftable,    \* open files: ref, ip, off
  ofile,     \* descriptors
  pr,        \* the call each process is in
  panicked,
  holes      \* history: trim() has set a size beyond the end of a file

vars == <<disk, icache, blocks, holder, ftable, ofile, pr, panicked, holes>>

NoAddrs  == [n \in 0 .. NDIRECT |-> 0]
NoInode  == [alloc |-> FALSE, nlink |-> 0, size |-> 0, addrs |-> NoAddrs]
Uncached == [ref |-> 0, size |-> 0, addrs |-> NoAddrs]
NoFile   == [ref |-> 0, ip |-> 0, off |-> 0]
Idle     == [at |-> "idle", f |-> 0, left |-> 0, ip |-> 0]

Init ==
  /\ disk = [i \in Inum |-> NoInode]
  /\ icache = [i \in Inum |-> Uncached]
  /\ blocks = [used |-> {}, ind |-> [b \in Block |-> [n \in 0 .. NINDIRECT - 1 |-> 0]]]
  /\ holder = [i \in Inum |-> NoProc]
  /\ ftable = [f \in File |-> NoFile]
  /\ ofile = [p \in Proc |-> [d \in Fd |-> 0]]
  /\ pr = [p \in Proc |-> Idle]
  /\ panicked = ""
  /\ holes = FALSE

-----------------------------------------------------------------------------
(***************************************************************************)
(* Blocks.                                                                 *)
(***************************************************************************)
Full(k) == k.used = Block

\* Fault: the block is not zeroed.
ballocDirty(k) ==
  LET b == Min(Block \ k.used) IN [b |-> b, k |-> [k EXCEPT !.used = @ \cup {b}]]

\* The first free block, marked and zeroed.
balloc(k) ==
  LET b == Min(Block \ k.used) IN
  [b |-> b,
   k |-> [used |-> k.used \cup {b},
          ind  |-> [k.ind EXCEPT ![b] = [n \in 0 .. NINDIRECT - 1 |-> 0]]]]

\* bmap(): the block at place bn, allocated if there is none; a are the inode's
\* addrs, k the blocks.  err is the panic, logged says that a block was written.
Mapped(a, k, b, logged) == [a |-> a, k |-> k, b |-> b, logged |-> logged, err |-> ""]
BmapPanic(a, k, what)   == [a |-> a, k |-> k, b |-> 0, logged |-> FALSE, err |-> what]

bmap(a, k, bn) ==
  LET x   == IF a[NDIRECT] = 0 THEN balloc(k) ELSE [b |-> a[NDIRECT], k |-> k]
      ax  == [a EXCEPT ![NDIRECT] = x.b]
      n   == bn - NDIRECT
      old == x.k.ind[x.b][n]
      y   == balloc(x.k)
  IN
  CASE bn < NDIRECT /\ a[bn] # 0 -> Mapped(a, k, a[bn], FALSE)
    [] bn < NDIRECT /\ a[bn] = 0 ->
         IF Full(k) THEN BmapPanic(a, k, "balloc: out of blocks")
         ELSE Mapped([a EXCEPT ![bn] = balloc(k).b], balloc(k).k, balloc(k).b, TRUE)
    [] bn >= MAXFILE -> BmapPanic(a, k, "bmap: out of range")
    [] OTHER ->
         IF a[NDIRECT] = 0 /\ Full(k) THEN BmapPanic(a, k, "balloc: out of blocks")
         ELSE IF old # 0 THEN Mapped(ax, x.k, old, a[NDIRECT] = 0)
         ELSE IF Full(x.k) THEN BmapPanic(a, k, "balloc: out of blocks")
         ELSE Mapped(ax, [y.k EXCEPT !.ind[x.b][n] = y.b], y.b, TRUE)

\* The blocks of an inode with these addrs: direct, indirect, and behind it.
Owned(a) ==
  ({a[n] : n \in 0 .. NDIRECT}
     \cup (IF a[NDIRECT] = 0 THEN {}
           ELSE {blocks.ind[a[NDIRECT]][n] : n \in 0 .. NINDIRECT - 1})) \ {0}

\* itrunc(): every bfree().
itrunc(a) == [blocks EXCEPT !.used = @ \ Owned(a)]

-----------------------------------------------------------------------------
(***************************************************************************)
(* Descriptors.                                                            *)
(***************************************************************************)
Panic(what) ==
  /\ panicked' = what
  /\ UNCHANGED <<disk, icache, blocks, holder, ftable, ofile, pr, holes>>

Unused(p) == {d \in Fd : ofile[p][d] = 0}

\* The end of sys_open(): the file i, made if it is not there, gets a reference, a
\* file structure and the first free descriptor.
open(p, i) ==
  LET free == {f \in File : ftable[f].ref = 0}
      d    == Min(Unused(p))
      now  == IF disk[i].alloc THEN disk[i]
              ELSE [NoInode EXCEPT !.alloc = TRUE, !.nlink = 1]
  IN
  /\ pr[p].at = "idle" /\ holder[i] = NoProc
  /\ free # {} /\ Unused(p) # {} /\ now.nlink > 0
  /\ disk' = [disk EXCEPT ![i] = now]
  /\ icache' = [icache EXCEPT ![i] =
       IF @.ref > 0 THEN [@ EXCEPT !.ref = @ + 1]
       ELSE [ref |-> 1, size |-> now.size, addrs |-> now.addrs]]
  /\ ftable' = [ftable EXCEPT ![Min(free)] = [ref |-> 1, ip |-> i, off |-> 0]]
  /\ ofile' = [ofile EXCEPT ![p][d] = Min(free)]
  /\ UNCHANGED <<blocks, holder, pr, panicked, holes>>

\* sys_unlink() of the file's name.
unlink(i) ==
  /\ disk[i].nlink > 0 /\ holder[i] = NoProc /\ icache[i].ref > 0
  /\ disk' = [disk EXCEPT ![i].nlink = 0]
  /\ UNCHANGED <<icache, blocks, holder, ftable, ofile, pr, panicked, holes>>

\* Fault: the file is not counted again.
dupUncounted(p, d) ==
  LET f == ofile[p][d] IN
  /\ pr[p].at = "idle" /\ f # 0 /\ Unused(p) # {}
  /\ ofile' = [ofile EXCEPT ![p][Min(Unused(p))] = f]
  /\ UNCHANGED <<disk, icache, blocks, holder, ftable, pr, panicked, holes>>

\* sys_dup().
dup(p, d) ==
  LET f == ofile[p][d] IN
  /\ pr[p].at = "idle" /\ f # 0 /\ Unused(p) # {}
  /\ ofile' = [ofile EXCEPT ![p][Min(Unused(p))] = f]
  /\ ftable' = [ftable EXCEPT ![f].ref = @ + 1]
  /\ UNCHANGED <<disk, icache, blocks, holder, pr, panicked, holes>>

\* fork(): the child, a process without descriptors, gets the parent's.
fork(p, q) ==
  /\ pr[p].at = "idle" /\ pr[q].at = "idle" /\ Unused(q) = Fd /\ Unused(p) # Fd
  /\ ofile' = [ofile EXCEPT ![q] = ofile[p]]
  /\ ftable' = [f \in File |-> [ftable[f] EXCEPT !.ref =
                 @ + Cardinality({d \in Fd : ofile[p][d] = f})]]
  /\ UNCHANGED <<disk, icache, blocks, holder, pr, panicked, holes>>

\* sys_close(), or a turn of exit(): fileclose() up to iput().
close(p, d) ==
  LET f == ofile[p][d] IN
  /\ pr[p].at = "idle" /\ f # 0
  /\ ofile' = [ofile EXCEPT ![p][d] = 0]
  /\ IF ftable[f].ref > 1
     THEN ftable' = [ftable EXCEPT ![f].ref = @ - 1] /\ UNCHANGED pr
     ELSE /\ ftable' = [ftable EXCEPT ![f] = NoFile]
          /\ pr' = [pr EXCEPT ![p] = [Idle EXCEPT !.at = "put", !.ip = ftable[f].ip]]
  /\ UNCHANGED <<disk, icache, blocks, holder, panicked, holes>>

\* iput(): the last reference to a file without a name frees its blocks.
iput(p) ==
  LET i == pr[p].ip IN
  /\ pr[p].at = "put" /\ holder[i] = NoProc
  /\ IF disk[i].nlink = 0 /\ icache[i].ref = 1
     THEN /\ blocks' = itrunc(icache[i].addrs)
          /\ disk' = [disk EXCEPT ![i] = NoInode]
          /\ icache' = [icache EXCEPT ![i] = [Uncached EXCEPT !.ref = 1]]
     ELSE UNCHANGED <<blocks, disk, icache>>
  /\ pr' = [pr EXCEPT ![p].at = "deref"]
  /\ UNCHANGED <<holder, ftable, ofile, panicked, holes>>

iputRef(p) ==
  LET i == pr[p].ip IN
  /\ pr[p].at = "deref"
  /\ icache' = [icache EXCEPT ![i] =
                  IF @.ref = 1 THEN Uncached ELSE [@ EXCEPT !.ref = @ - 1]]
  /\ pr' = [pr EXCEPT ![p] = Idle]
  /\ UNCHANGED <<disk, blocks, holder, ftable, ofile, panicked, holes>>

-----------------------------------------------------------------------------
(***************************************************************************)
(* Reading and writing.                                                    *)
(***************************************************************************)
\* A process is in a transaction: between begin_op() and end_op().
InOp(p) == pr[p].at = "wrote"

\* readi()'s bounds.
Readable(off, size) == off < size

\* Fault: a write may start beyond the end.
WritableBeyond(off, size) == off + 1 <= MAXFILE

\* writei()'s bounds.
Writable(off, size) == off <= size /\ off + 1 <= MAXFILE

\* sys_read() of one block: readi(), which has bmap() allocate a block that is
\* missing.  log_write() panics when no transaction is open.
read(p, d) ==
  LET f == ofile[p][d]
      i == ftable[f].ip
      off == ftable[f].off
      m == bmap(icache[i].addrs, blocks, off)
  IN
  /\ pr[p].at = "idle" /\ f # 0 /\ holder[i] = NoProc /\ Readable(off, icache[i].size)
  /\ IF m.err # "" THEN Panic(m.err)
     ELSE IF m.logged /\ \A q \in Proc : ~InOp(q) THEN Panic("log_write outside of trans")
     ELSE /\ icache' = [icache EXCEPT ![i].addrs = m.a]
          /\ blocks' = m.k
          /\ holder' = [holder EXCEPT ![i] = p]
          /\ pr' = [pr EXCEPT ![p] = [Idle EXCEPT !.at = "read", !.f = f]]
          /\ UNCHANGED <<disk, ftable, ofile, panicked, holes>>

\* sys_write() of n blocks.
write(p, d, n) ==
  /\ pr[p].at = "idle" /\ ofile[p][d] # 0
  /\ pr' = [pr EXCEPT ![p] = [Idle EXCEPT !.at = "write", !.f = ofile[p][d], !.left = n]]
  /\ UNCHANGED <<disk, icache, blocks, holder, ftable, ofile, panicked, holes>>

\* writei()'s iupdate(), when the file has grown.
Grown(dk, i, size, a) ==
  IF size > icache[i].size THEN [dk EXCEPT ![i].size = size, ![i].addrs = a] ELSE dk

\* A turn of filewrite()'s loop: begin_op(), ilock(), writei().  Beyond the end or
\* at the largest size writei() fails and the call ends.
writei(p) ==
  LET f == pr[p].f
      i == ftable[f].ip
      off == ftable[f].off
      m == bmap(icache[i].addrs, blocks, off)
      size == IF off + 1 > icache[i].size THEN off + 1 ELSE icache[i].size
  IN
  /\ pr[p].at = "write" /\ holder[i] = NoProc
  /\ IF ~Writable(off, icache[i].size)
     THEN /\ pr' = [pr EXCEPT ![p] = Idle]
          /\ UNCHANGED <<disk, icache, blocks, holder, ftable, ofile, panicked, holes>>
     ELSE IF m.err # "" THEN Panic(m.err)
     ELSE /\ blocks' = m.k
          /\ icache' = [icache EXCEPT ![i].addrs = m.a, ![i].size = size]
          /\ disk' = Grown(disk, i, size, m.a)
          /\ holder' = [holder EXCEPT ![i] = p]
          /\ pr' = [pr EXCEPT ![p].at = "wrote"]
          /\ UNCHANGED <<ftable, ofile, panicked, holes>>

\* f->off += r; iunlock(); end_op(); the next chunk, or the end of the call.
advance(p) ==
  LET f == pr[p].f IN
  /\ pr[p].at \in {"read", "wrote"}
  /\ ftable' = [ftable EXCEPT ![f].off = @ + 1]
  /\ holder' = [holder EXCEPT ![ftable[f].ip] = NoProc]
  /\ pr' = [pr EXCEPT ![p] = IF @.left <= 1 THEN Idle
                             ELSE [@ EXCEPT !.at = "write", !.left = @ - 1]]
  /\ UNCHANGED <<disk, icache, blocks, ofile, panicked, holes>>

\* sys_lseek(), with neither the inode's lock nor any other.
lseek(p, d, off) ==
  LET f == ofile[p][d] IN
  /\ pr[p].at = "idle" /\ f # 0
  /\ ftable' = [ftable EXCEPT ![f].off = off]
  /\ UNCHANGED <<disk, icache, blocks, holder, ofile, pr, panicked, holes>>

\* SEEK_END reads ip->size.
lseekEnd(p, d) ==
  LET f == ofile[p][d] IN
  /\ f # 0 /\ lseek(p, d, icache[ftable[f].ip].size)

\* sys_trim(): the size becomes the offset, on disk too; no block is freed.
trim(p, d) ==
  LET f == ofile[p][d]
      i == ftable[f].ip
  IN
  /\ pr[p].at = "idle" /\ f # 0 /\ holder[i] = NoProc
  /\ ftable[f].off > icache[i].size => ~holes /\ ftable[f].off <= MaxSize
  /\ icache' = [icache EXCEPT ![i].size = ftable[f].off]
  /\ disk' = [disk EXCEPT ![i].size = ftable[f].off, ![i].addrs = icache[i].addrs]
  /\ holes' = (holes \/ ftable[f].off > icache[i].size)
  /\ UNCHANGED <<blocks, holder, ftable, ofile, pr, panicked>>

-----------------------------------------------------------------------------
Next ==
  /\ panicked = ""
  /\ \/ \E i \in Inum : unlink(i)
     \/ \E p \in Proc :
          \/ iput(p) \/ iputRef(p) \/ writei(p) \/ advance(p)
          \/ p \in Opener /\ \E i \in Inum : open(p, i)
          \/ \E q \in Proc \ {p} : fork(p, q)
          \/ \E d \in Fd :
               \/ dup(p, d) \/ close(p, d) \/ read(p, d) \/ lseekEnd(p, d) \/ trim(p, d)
               \/ \E n \in WriteSizes : write(p, d, n)
               \/ \E off \in 0 .. MaxSeek : lseek(p, d, off)

Spec == Init /\ [][Next]_vars

-----------------------------------------------------------------------------
(***************************************************************************)
(* Types; the counts of iput() and fileclose() never fall below zero.      *)
(***************************************************************************)
TypeOK ==
  /\ disk \in [Inum -> [alloc : BOOLEAN, nlink : {0, 1}, size : Nat,
                        addrs : [0 .. NDIRECT -> Block \cup {0}]]]
  /\ icache \in [Inum -> [ref : Nat, size : Nat, addrs : [0 .. NDIRECT -> Block \cup {0}]]]
  /\ holder \in [Inum -> Proc \cup {NoProc}]
  /\ ftable \in [File -> [ref : Nat, ip : Inum \cup {0}, off : Nat]]
  /\ ofile \in [Proc -> [Fd -> File \cup {0}]]

(***************************************************************************)
(* A file structure's count is the number of descriptors for it, so        *)
(* fileclose() frees the structure with the last descriptor and not        *)
(* before, however dup, fork and close of the processes mix.               *)
(***************************************************************************)
RefExact ==
  \A f \in File :
    ftable[f].ref = Cardinality({pd \in Proc \X Fd : ofile[pd[1]][pd[2]] = f})

Addrs(i) == IF icache[i].ref > 0 THEN icache[i].addrs ELSE disk[i].addrs
Size(i)  == IF icache[i].ref > 0 THEN icache[i].size ELSE disk[i].size

(***************************************************************************)
(* No block belongs to two files and no block of a file is free: a block   *)
(* that balloc() hands out again, with what a removed file's indirect      *)
(* block had in it, must not bring that file's blocks back through bmap(). *)
(***************************************************************************)
BlocksOwned ==
  /\ \A i \in Inum : Owned(Addrs(i)) \subseteq blocks.used
  /\ \A i, j \in Inum : i # j => Owned(Addrs(i)) \cap Owned(Addrs(j)) = {}

(***************************************************************************)
(* Every block marked in the bitmap belongs to a file: the last iput() of  *)
(* a removed file gives back all it had.  Once trim() has set a size       *)
(* beyond the end of a file, blocks that bmap() allocates in the hole are  *)
(* not written to the disk's inode, and are lost with the cached one.      *)
(***************************************************************************)
NothingLeaked ==
  ~holes => blocks.used = UNION {Owned(Addrs(i)) : i \in Inum}

(***************************************************************************)
(* A file has all its blocks up to its size, so a read() never allocates:  *)
(* it does not write to a file system outside a transaction.  Seeking      *)
(* beyond the end and writing there must not leave a gap; trim() does.     *)
(***************************************************************************)
Dense ==
  ~holes => \A i \in Inum : \A o \in 0 .. MAXFILE - 1 :
    o < Size(i) => ~bmap(Addrs(i), blocks, o).logged

(***************************************************************************)
(* The inode cache is write-through: between two calls the cached size and *)
(* addresses are those on disk, unless trim() has made a hole, into which  *)
(* writei() allocates without iupdate().                                   *)
(***************************************************************************)
SavedUnlessHoles ==
  ~holes => \A i \in Inum : icache[i].ref > 0 /\ holder[i] = NoProc =>
              icache[i].addrs = disk[i].addrs /\ icache[i].size = disk[i].size

(***************************************************************************)
(* Reading and writing panics only for want of a free block, unless trim() *)
(* has made a hole: then read() may reach log_write() with no transaction  *)
(* open.                                                                   *)
(***************************************************************************)
KnownPanics == panicked \in {"", "balloc: out of blocks"} \/ holes
=============================================================================
