-------------------------------- MODULE Inode -------------------------------
(***************************************************************************)
(* Inodes, directories and path names: kernel/fs.c with the calls of       *)
(* kernel/sysfile.c that work on names.                                    *)
(*                                                                         *)
(* An inode's sleep lock is held from ilock() to iunlock().  A stretch of  *)
(* code that takes one inode lock, makes at most one access to icache or   *)
(* to another block, and releases it, is one step; a process that waits    *)
(* for a lock while it has another keeps it over the steps (holder).  The  *)
(* cache has at most one entry for an inode, so an entry is known by its   *)
(* inode number.  Modes and owners are left out: whether a permission test *)
(* grants is chosen at the test, once for a stretch under one lock.        *)
(***************************************************************************)
EXTENDS Integers, Sequences, FiniteSets, FiniteSetsExt, TLC

CONSTANTS
  Proc, NoProc,
  Inum,         \* inode numbers, 1 is the root
  Name,         \* names other than "." and ".."
  Calls,        \* [Proc -> set of [op, path, new]]: the system calls they make
  Refused,      \* the processes that a permission test may refuse
  NINODE,       \* entries of the inode cache
  MaxEntries,   \* bound: directory entries in the file system
  MaxRef        \* bound: references to an inode that chmod and chown leave behind

ROOTINO == 1

VARIABLES
  dinode,    \* the inodes on disk, with the entries of a directory
  icache,    \* the inode cache: ref, valid, and the copies of type and nlink
  holder,    \* the process that has the inode's sleep lock over a step
  cwd,       \* current directories
  ofile,     \* the open file of each process, 0 for none
  pr,        \* the call each process is in: its place and its local variables
  panicked   \* the panic that stopped the kernel, "" for none

vars == <<dinode, icache, holder, cwd, ofile, pr, panicked>>

DirSlot == 1 .. MaxEntries
NoEntry == [name |-> "", inum |-> 0]
Unused  == [type |-> "none", nlink |-> 0, up |-> 0, ents |-> [s \in DirSlot |-> NoEntry]]
Uncached == [ref |-> 0, valid |-> FALSE, type |-> "none", nlink |-> 0]
NoPath == [abs |-> FALSE, elems |-> <<>>]
Idle == [at |-> "idle", op |-> "", path |-> <<>>, parent |-> FALSE, new |-> NoPath,
         wp |-> 0, ip |-> 0, dp |-> 0, name |-> "", put |-> 0, then |-> ""]

\* mkfs has made the root; two processes of init's are in it.
Init ==
  /\ dinode = [i \in Inum |->
       IF i = ROOTINO THEN [Unused EXCEPT !.type = "dir", !.nlink = 1, !.up = ROOTINO]
                      ELSE Unused]
  /\ icache = [i \in Inum |->
       IF i = ROOTINO THEN [Uncached EXCEPT !.ref = Cardinality(Proc)] ELSE Uncached]
  /\ holder = [i \in Inum |-> NoProc]
  /\ cwd = [p \in Proc |-> ROOTINO]
  /\ ofile = [p \in Proc |-> 0]
  /\ pr = [p \in Proc |-> Idle]
  /\ panicked = ""

-----------------------------------------------------------------------------
(***************************************************************************)
(* The inode layer.  An operator gives the cache or the disk as the code   *)
(* leaves it.                                                              *)
(***************************************************************************)
\* A panic stops the kernel where it is.
Panic(what) ==
  /\ panicked' = what
  /\ UNCHANGED <<dinode, icache, holder, cwd, ofile, pr>>

\* The process goes on with these local variables changed.
Continue(p, locals) == pr' = [pr EXCEPT ![p] = locals @@ @]

Return(p) == pr' = [pr EXCEPT ![p] = Idle]

\* iput(i), then on to the place next.
Putting(i, next) == [at |-> "put", put |-> i, then |-> next]

iget(ic, i) ==
  IF ic[i].ref > 0 THEN [ic EXCEPT ![i].ref = @ + 1]
                   ELSE [ic EXCEPT ![i] = [Uncached EXCEPT !.ref = 1]]

\* iget() finds no entry to recycle.
CacheFull(ic, i) ==
  ic[i].ref = 0 /\ Cardinality({j \in Inum : ic[j].ref > 0}) = NINODE

\* The cache once ilock(i) has read the inode from disk.
Loaded(i) ==
  IF icache[i].valid THEN icache
  ELSE [icache EXCEPT ![i].valid = TRUE, ![i].type = dinode[i].type,
                      ![i].nlink = dinode[i].nlink]

\* ilock(i), then do.
ilock(i, do) ==
  /\ holder[i] = NoProc
  /\ IF ~icache[i].valid /\ dinode[i].type = "none"
     THEN Panic("ilock: no type")
     ELSE do

\* Fault: the change stays in the cache.
iupdateNot(d, ic, i) == d

iupdate(d, ic, i) == [d EXCEPT ![i].type = ic[i].type, ![i].nlink = ic[i].nlink]

\* The inode name stands for in directory d, 0 if there is none or the process
\* may not search d.
dirlookup(d, name, granted) ==
  LET slots == {s \in DirSlot : dinode[d].ents[s].name = name} IN
  CASE ~granted     -> 0
    [] name = "."   -> d
    [] name = ".."  -> dinode[d].up
    [] OTHER        -> IF slots = {} THEN 0 ELSE dinode[d].ents[Min(slots)].inum

\* The end of dirlink(): the entry goes into the first empty slot.
Linked(dk, d, name, i) ==
  LET free == Min({s \in DirSlot : dk[d].ents[s] = NoEntry})
  IN  [dk EXCEPT ![d].ents[free] = [name |-> name, inum |-> i]]

Unlinked(d, name) ==
  LET s == Min({t \in DirSlot : dinode[d].ents[t].name = name})
  IN  [dinode EXCEPT ![d].ents[s] = NoEntry]

isdirempty(i) == \A s \in DirSlot : dinode[i].ents[s] = NoEntry

\* Fault: other references do not count.
LastPutAny(i) == icache[i].valid /\ icache[i].nlink = 0

\* No links, and no other reference at the moment iput() looks.
LastPut(i) == icache[i].valid /\ icache[i].nlink = 0 /\ icache[i].ref = 1

Freed(i) == [icache EXCEPT ![i].valid = FALSE, ![i].type = "none", ![i].nlink = 0]

\* iput(), under the inode's lock: itrunc(), type = 0, iupdate(), valid = 0.
iput(p) ==
  LET i == pr[p].put IN
  /\ pr[p].at = "put" /\ holder[i] = NoProc
  /\ IF LastPut(i)
     THEN dinode' = [dinode EXCEPT ![i] = Unused] /\ icache' = Freed(i)
     ELSE UNCHANGED <<dinode, icache>>
  /\ Continue(p, [at |-> "deref"])
  /\ UNCHANGED <<holder, cwd, ofile, panicked>>

\* ip->ref--; then the caller goes on.
iputRef(p) ==
  LET i == pr[p].put IN
  /\ pr[p].at = "deref"
  /\ icache' = IF icache[i].ref = 1 THEN [icache EXCEPT ![i] = Uncached]
                                    ELSE [icache EXCEPT ![i].ref = @ - 1]
  /\ IF pr[p].then = "idle" THEN Return(p)
     ELSE Continue(p, [at |-> pr[p].then, put |-> 0, then |-> ""])
  /\ UNCHANGED <<dinode, holder, cwd, ofile, panicked>>

-----------------------------------------------------------------------------
(***************************************************************************)
(* Path names.                                                             *)
(***************************************************************************)
\* Where a call goes on with the inode, or the parent, that namex() returns, and
\* where without.
Found(op) ==
  CASE op \in {"creat", "mkdir", "mknod"} -> "create"
    [] op = "link2" -> "linkNew"
    [] OTHER -> op

Failed(op) == IF op = "link2" THEN "linkBad" ELSE "idle"

\* The start of namex(): iget(ROOTINO) or idup(cwd).
Walk(p, op, path, parent, new) ==
  LET i == IF path.abs THEN ROOTINO ELSE cwd[p] IN
  IF CacheFull(icache, i) THEN Panic("iget: no inodes")
  ELSE /\ icache' = iget(icache, i)
       /\ Continue(p, [at |-> "walk", op |-> op, wp |-> i, path |-> path.elems,
                       parent |-> parent, new |-> new])
       /\ UNCHANGED <<dinode, holder, cwd, ofile, panicked>>

\* One turn of namex()'s loop.
namex(p, granted) ==
  LET r == pr[p]
      i == r.wp
      next == dirlookup(i, Head(r.path), granted)
  IN
  /\ r.at = "walk" /\ r.path # <<>>
  /\ ilock(i,
       IF Loaded(i)[i].type # "dir" \/ (next = 0 /\ ~(r.parent /\ Len(r.path) = 1))
       THEN /\ icache' = Loaded(i)
            /\ Continue(p, [wp |-> 0, path |-> <<>>] @@ Putting(i, Failed(r.op)))
            /\ UNCHANGED <<dinode, holder, cwd, ofile, panicked>>
       ELSE IF r.parent /\ Len(r.path) = 1
       THEN /\ icache' = Loaded(i)
            /\ Continue(p, [at |-> Found(r.op), dp |-> i, wp |-> 0,
                            name |-> Head(r.path), path |-> <<>>])
            /\ UNCHANGED <<dinode, holder, cwd, ofile, panicked>>
       ELSE IF CacheFull(Loaded(i), next) THEN Panic("iget: no inodes")
       ELSE /\ icache' = iget(Loaded(i), next)
            /\ Continue(p, [wp |-> next, path |-> Tail(r.path)] @@ Putting(i, "walk"))
            /\ UNCHANGED <<dinode, holder, cwd, ofile, panicked>>)

\* The path is used up.
namexEnd(p) ==
  /\ pr[p].at = "walk" /\ pr[p].path = <<>>
  /\ Continue(p, IF pr[p].parent
                 THEN [wp |-> 0] @@ Putting(pr[p].wp, Failed(pr[p].op))
                 ELSE [at |-> Found(pr[p].op), ip |-> pr[p].wp, wp |-> 0])
  /\ UNCHANGED <<dinode, icache, holder, cwd, ofile, panicked>>

-----------------------------------------------------------------------------
(***************************************************************************)
(* create()                                                                *)
(***************************************************************************)
FreeInums == {i \in Inum : dinode[i].type = "none"}

NewType(op) == CASE op = "creat" -> "file" [] op = "mkdir" -> "dir" [] OTHER -> "dev"

\* Under dp's lock: the name is looked up; if it is not there ialloc() marks an
\* inode and gets it, and dp stays locked.
create(p, granted) ==
  LET d == pr[p].dp
      old == dirlookup(d, pr[p].name, granted)
      i == IF old # 0 THEN old ELSE Min(FreeInums)
  IN
  /\ pr[p].at = "create"
  /\ ilock(d,
       IF old = 0 /\ FreeInums = {} THEN Panic("ialloc: no inodes")
       ELSE IF CacheFull(Loaded(d), i) THEN Panic("iget: no inodes")
       ELSE /\ icache' = iget(Loaded(d), i)
            /\ IF old # 0
               THEN /\ Continue(p, [ip |-> i, dp |-> 0] @@ Putting(d, "createOld"))
                    /\ UNCHANGED <<dinode, holder>>
               ELSE /\ dinode' = [dinode EXCEPT ![i] = [Unused EXCEPT !.type = NewType(pr[p].op)]]
                    /\ holder' = [holder EXCEPT ![d] = p]
                    /\ Continue(p, [at |-> "createNew", ip |-> i])
            /\ UNCHANGED <<cwd, ofile, panicked>>)

\* The new inode is locked, initialised and entered in dp; dp is unlocked, and
\* put while ip is still locked.
createNew(p) ==
  LET d == pr[p].dp
      i == pr[p].ip
      isdir == pr[p].op = "mkdir"
      ic == [Loaded(i) EXCEPT ![i].nlink = 1, ![d].nlink = IF isdir THEN @ + 1 ELSE @]
      dk == iupdate(iupdate(dinode, ic, i), ic, d)
  IN
  /\ pr[p].at = "createNew"
  /\ ilock(i,
       /\ icache' = ic
       /\ dinode' = Linked(IF isdir THEN [dk EXCEPT ![i].up = d] ELSE dk, d, pr[p].name, i)
       /\ holder' = [holder EXCEPT ![d] = NoProc, ![i] = p]
       /\ Continue(p, [dp |-> 0, name |-> ""] @@ Putting(d, "created"))
       /\ UNCHANGED <<cwd, ofile, panicked>>)

\* filealloc(), fdalloc() with ip locked: on success the file has the reference.
OpenTail(p, i) ==
  IF ofile[p] = 0
  THEN ofile' = [ofile EXCEPT ![p] = i] /\ Return(p)
  ELSE Continue(p, [ip |-> 0] @@ Putting(i, "idle")) /\ UNCHANGED ofile

\* create() found the name: it locks the inode and returns it, or gives it up.
createOld(p) ==
  LET i == pr[p].ip
      type == Loaded(i)[i].type
  IN
  /\ pr[p].at = "createOld"
  /\ ilock(i,
       /\ icache' = Loaded(i)
       /\ IF pr[p].op = "creat" /\ type \in {"file", "dev"}
          THEN OpenTail(p, i)
          ELSE Continue(p, [ip |-> 0] @@ Putting(i, "idle")) /\ UNCHANGED ofile
       /\ UNCHANGED <<dinode, holder, cwd, panicked>>)

\* The new inode is returned locked.
created(p) ==
  LET i == pr[p].ip IN
  /\ pr[p].at = "created"
  /\ holder' = [holder EXCEPT ![i] = NoProc]
  /\ IF pr[p].op = "creat" THEN OpenTail(p, i)
     ELSE Continue(p, [ip |-> 0] @@ Putting(i, "idle")) /\ UNCHANGED ofile
  /\ UNCHANGED <<dinode, icache, cwd, panicked>>

-----------------------------------------------------------------------------
(***************************************************************************)
(* The other calls, from where namex() has returned.                       *)
(***************************************************************************)
\* sys_open() without O_CREATE; rdonly is what is asked of a directory.
open(p, granted, rdonly) ==
  LET i == pr[p].ip IN
  /\ pr[p].at = "open"
  /\ ilock(i,
       /\ icache' = Loaded(i)
       /\ IF ~granted \/ (Loaded(i)[i].type = "dir" /\ ~rdonly)
          THEN Continue(p, [ip |-> 0] @@ Putting(i, "idle")) /\ UNCHANGED ofile
          ELSE OpenTail(p, i)
       /\ UNCHANGED <<dinode, holder, cwd, panicked>>)

\* sys_close() of a file with one reference: fileclose().
close(p) ==
  /\ pr[p].at = "idle" /\ ofile[p] # 0
  /\ ofile' = [ofile EXCEPT ![p] = 0]
  /\ Continue(p, Putting(ofile[p], "idle"))
  /\ UNCHANGED <<dinode, icache, holder, cwd, panicked>>

chdir(p, granted) ==
  LET i == pr[p].ip IN
  /\ pr[p].at = "chdir"
  /\ ilock(i,
       /\ icache' = Loaded(i)
       /\ Continue(p, IF Loaded(i)[i].type # "dir" \/ ~granted
                      THEN [ip |-> 0] @@ Putting(i, "idle")
                      ELSE Putting(cwd[p], "chdirEnd"))
       /\ UNCHANGED <<dinode, holder, cwd, ofile, panicked>>)

chdirEnd(p) ==
  /\ pr[p].at = "chdirEnd"
  /\ cwd' = [cwd EXCEPT ![p] = pr[p].ip]
  /\ Return(p)
  /\ UNCHANGED <<dinode, icache, holder, ofile, panicked>>

\* Fault: the new link is not counted.
linkUncounted(p) ==
  /\ pr[p].at = "link"
  /\ ilock(pr[p].ip,
       /\ icache' = Loaded(pr[p].ip)
       /\ IF Loaded(pr[p].ip)[pr[p].ip].type = "dir"
          THEN Continue(p, [ip |-> 0] @@ Putting(pr[p].ip, "idle"))
          ELSE Continue(p, [at |-> "link2"])
       /\ UNCHANGED <<dinode, holder, cwd, ofile, panicked>>)

\* sys_link(): the link is counted before the entry is made.
link(p) ==
  LET i == pr[p].ip
      ic == [Loaded(i) EXCEPT ![i].nlink = @ + 1]
  IN
  /\ pr[p].at = "link"
  /\ ilock(i,
       IF Loaded(i)[i].type = "dir"
       THEN /\ icache' = Loaded(i)
            /\ Continue(p, [ip |-> 0] @@ Putting(i, "idle"))
            /\ UNCHANGED <<dinode, holder, cwd, ofile, panicked>>
       ELSE /\ icache' = ic
            /\ dinode' = iupdate(dinode, ic, i)
            /\ Continue(p, [at |-> "link2"])
            /\ UNCHANGED <<holder, cwd, ofile, panicked>>)

linkWalk(p) == pr[p].at = "link2" /\ Walk(p, "link2", pr[p].new, TRUE, NoPath)

\* dirlink() in dp; a name that is there is put with dp locked.
linkNew(p, granted) ==
  LET d == pr[p].dp
      old == dirlookup(d, pr[p].name, granted)
  IN
  /\ pr[p].at = "linkNew"
  /\ ilock(d,
       IF old # 0 /\ CacheFull(Loaded(d), old) THEN Panic("iget: no inodes")
       ELSE /\ IF old # 0
               THEN /\ icache' = iget(Loaded(d), old)
                    /\ holder' = [holder EXCEPT ![d] = p]
                    /\ Continue(p, Putting(old, "linkOld"))
                    /\ UNCHANGED dinode
               ELSE /\ icache' = Loaded(d)
                    /\ dinode' = Linked(dinode, d, pr[p].name, pr[p].ip)
                    /\ Continue(p, [dp |-> 0, name |-> ""] @@ Putting(d, "linkEnd"))
                    /\ UNCHANGED holder
            /\ UNCHANGED <<cwd, ofile, panicked>>)

linkOld(p) ==
  /\ pr[p].at = "linkOld"
  /\ holder' = [holder EXCEPT ![pr[p].dp] = NoProc]
  /\ Continue(p, [dp |-> 0, name |-> ""] @@ Putting(pr[p].dp, "linkBad"))
  /\ UNCHANGED <<dinode, icache, cwd, ofile, panicked>>

linkEnd(p) ==
  /\ pr[p].at = "linkEnd"
  /\ Continue(p, [ip |-> 0] @@ Putting(pr[p].ip, "idle"))
  /\ UNCHANGED <<dinode, icache, holder, cwd, ofile, panicked>>

\* bad: the count is taken back.
linkBad(p) ==
  LET i == pr[p].ip
      ic == [Loaded(i) EXCEPT ![i].nlink = @ - 1]
  IN
  /\ pr[p].at = "linkBad"
  /\ ilock(i,
       /\ icache' = ic
       /\ dinode' = iupdate(dinode, ic, i)
       /\ Continue(p, [ip |-> 0] @@ Putting(i, "idle"))
       /\ UNCHANGED <<holder, cwd, ofile, panicked>>)

\* sys_unlink() with dp locked: it gets the inode the name stands for.
unlink(p, granted) ==
  LET d == pr[p].dp
      i == dirlookup(d, pr[p].name, granted)
  IN
  /\ pr[p].at = "unlink"
  /\ ilock(d,
       IF pr[p].name \in {".", ".."} \/ i = 0
       THEN /\ icache' = Loaded(d)
            /\ Continue(p, [dp |-> 0, name |-> ""] @@ Putting(d, "idle"))
            /\ UNCHANGED <<dinode, holder, cwd, ofile, panicked>>
       ELSE IF CacheFull(Loaded(d), i) THEN Panic("iget: no inodes")
       ELSE /\ icache' = iget(Loaded(d), i)
            /\ holder' = [holder EXCEPT ![d] = p]
            /\ Continue(p, [at |-> "unlinkIp", ip |-> i])
            /\ UNCHANGED <<dinode, cwd, ofile, panicked>>)

\* With both locked: the entry is cleared; dp is unlocked, and put while ip is
\* still locked.  A directory that is not empty is put while dp is locked.
unlinkIp(p) ==
  LET d == pr[p].dp
      i == pr[p].ip
      isdir == Loaded(i)[i].type = "dir"
      ic == [Loaded(i) EXCEPT ![d].nlink = IF isdir THEN @ - 1 ELSE @]
  IN
  /\ pr[p].at = "unlinkIp"
  /\ ilock(i,
       IF Loaded(i)[i].nlink < 1 THEN Panic("unlink: nlink < 1")
       ELSE /\ IF isdir /\ ~isdirempty(i)
               THEN /\ icache' = Loaded(i)
                    /\ Continue(p, [ip |-> 0] @@ Putting(i, "unlinkBad"))
                    /\ UNCHANGED <<dinode, holder>>
               ELSE /\ icache' = ic
                    /\ dinode' = iupdate(Unlinked(d, pr[p].name), ic, d)
                    /\ holder' = [holder EXCEPT ![d] = NoProc, ![i] = p]
                    /\ Continue(p, [dp |-> 0, name |-> ""] @@ Putting(d, "unlinkEnd"))
            /\ UNCHANGED <<cwd, ofile, panicked>>)

unlinkBad(p) ==
  /\ pr[p].at = "unlinkBad"
  /\ holder' = [holder EXCEPT ![pr[p].dp] = NoProc]
  /\ Continue(p, [dp |-> 0, name |-> ""] @@ Putting(pr[p].dp, "idle"))
  /\ UNCHANGED <<dinode, icache, cwd, ofile, panicked>>

unlinkEnd(p) ==
  LET i == pr[p].ip
      ic == [icache EXCEPT ![i].nlink = @ - 1]
  IN
  /\ pr[p].at = "unlinkEnd"
  /\ icache' = ic
  /\ dinode' = iupdate(dinode, ic, i)
  /\ holder' = [holder EXCEPT ![i] = NoProc]
  /\ Continue(p, [ip |-> 0] @@ Putting(i, "idle"))
  /\ UNCHANGED <<cwd, ofile, panicked>>

\* sys_chmod() and sys_chown(): the inode is locked, written and unlocked, and the
\* reference stays; sys_chmod() also returns so when the owner, read without the
\* lock, is another.
chmod(p, owner) ==
  LET i == pr[p].ip IN
  /\ pr[p].at \in {"chmod", "chown"}
  /\ IF pr[p].at = "chmod" /\ ~owner
     THEN Return(p) /\ UNCHANGED <<icache, dinode, holder, cwd, ofile, panicked>>
     ELSE ilock(i, /\ icache' = Loaded(i)
                   /\ dinode' = iupdate(dinode, Loaded(i), i)
                   /\ Return(p)
                   /\ UNCHANGED <<holder, cwd, ofile, panicked>>)

-----------------------------------------------------------------------------
\* Directory entries, and the pointers of the processes to inodes.
Entries == {e \in Inum \X DirSlot : dinode[e[1]].ents[e[2]] # NoEntry}
EntriesOf(i) == {e \in Entries : dinode[e[1]].ents[e[2]].inum = i}

\* In sys_chdir() the old directory is put before the new one takes its place.
Leaving(p) == "chdirEnd" \in {pr[p].at, pr[p].then}

Users(i) ==
  Cardinality({p \in Proc : ofile[p] = i}) + Cardinality({p \in Proc : pr[p].ip = i})
  + Cardinality({p \in Proc : pr[p].put = i}) + Cardinality({p \in Proc : pr[p].wp = i})
  + Cardinality({p \in Proc : pr[p].dp = i})
  + Cardinality({p \in Proc : cwd[p] = i /\ ~Leaving(p)})

Makes == {"creat", "mkdir", "mknod", "link"}

\* Bounds: room for the entries the calls in progress may make; references that
\* chmod and chown leave behind.
WithinBounds(op) ==
  /\ op \in Makes =>
       Cardinality(Entries) + Cardinality({q \in Proc : pr[q].op \in Makes \cup {"link2"}})
         < MaxEntries
  /\ op \in {"chmod", "chown"} =>
       \A i \in Inum : icache[i].ref - Users(i) < MaxRef

\* A process makes a system call; sys_link() has a second path.
Call(p, c) ==
  /\ pr[p].at = "idle" /\ WithinBounds(c.op)
  /\ Walk(p, c.op, c.path, c.op \in {"creat", "mkdir", "mknod", "unlink"}, c.new)

Step(p) ==
  \/ iput(p) \/ iputRef(p) \/ namexEnd(p)
  \/ createNew(p) \/ createOld(p) \/ created(p) \/ chdirEnd(p)
  \/ link(p) \/ linkWalk(p) \/ linkOld(p) \/ linkEnd(p) \/ linkBad(p)
  \/ unlinkIp(p) \/ unlinkBad(p) \/ unlinkEnd(p)
  \/ \E granted \in {TRUE} \cup {p \notin Refused} :
       \/ namex(p, granted) \/ create(p, granted) \/ chdir(p, granted)
       \/ linkNew(p, granted) \/ unlink(p, granted) \/ chmod(p, granted)
       \/ \E rdonly \in BOOLEAN : open(p, granted, rdonly)

Next ==
  /\ panicked = ""
  /\ \E p \in Proc :
       \/ Step(p) \/ close(p)
       \/ \E c \in Calls[p] : Call(p, c)

Spec == Init /\ [][Next]_vars

-----------------------------------------------------------------------------
\* Inodes on disk, cache entries, locks and the pointers of the processes are well
\* formed; link counts and reference counts never fall below zero.
TypeOK ==
  /\ dinode \in [Inum ->
       [type : {"none", "dir", "file", "dev"}, nlink : Nat, up : Inum \cup {0},
        ents : [DirSlot -> [name : Name \cup {"", ".", ".."}, inum : Inum \cup {0}]]]]
  /\ icache \in [Inum ->
       [ref : Nat, valid : BOOLEAN, type : {"none", "dir", "file", "dev"}, nlink : Nat]]
  /\ holder \in [Inum -> Proc \cup {NoProc}]
  /\ cwd \in [Proc -> Inum] /\ ofile \in [Proc -> Inum \cup {0}]

(***************************************************************************)
(* An inode's reference count covers every pointer to it: open files,      *)
(* current directories and the local variables of the calls in progress.   *)
(* ref never counts fewer, so iget() never recycles an entry in use        *)
(* (fs.c:123-127).                                                         *)
(***************************************************************************)
RefCovers == \A i \in Inum : icache[i].ref >= Users(i)

(***************************************************************************)
(* A file that is open, or the directory a process is in, is never freed   *)
(* on disk, however its names are unlinked meanwhile: iput() frees only    *)
(* what nothing else refers to.                                            *)
(***************************************************************************)
OpenLive ==
  \A p \in Proc :
    /\ ~Leaving(p) => dinode[cwd[p]].type = "dir"
    /\ ofile[p] # 0 => dinode[ofile[p]].type # "none"

(***************************************************************************)
(* A valid cache entry agrees with the inode on disk after every stretch   *)
(* of a call: whatever changes type or nlink also calls iupdate(), and     *)
(* iput() invalidates what it frees.                                       *)
(***************************************************************************)
Coherent ==
  \A i \in Inum : icache[i].valid =>
    icache[i].type = dinode[i].type /\ icache[i].nlink = dinode[i].nlink

(***************************************************************************)
(* No name ever stands for a free inode, and nlink counts at least the     *)
(* names there are.  It holds in the middle of calls too, so every state   *)
(* the log can commit has it: a link is counted before it is entered and   *)
(* discounted after it is cleared, and create() enters an inode that is    *)
(* initialised.  It holds although a refused search makes dirlink() enter  *)
(* a name twice.                                                           *)
(***************************************************************************)
EntriesCounted ==
  \A i \in Inum : EntriesOf(i) # {} =>
    /\ dinode[i].type # "none"
    /\ dinode[i].nlink >= Cardinality(EntriesOf(i))

\* sys_unlink() never finds the inode of a name without links (its panic).
NoUnlinkPanic == panicked # "unlink: nlink < 1"

(***************************************************************************)
(* The two counts of an inode are right after every stretch of a call: ref *)
(* covers the references there are, nlink the names, and sys_unlink()      *)
(* relies on it.                                                           *)
(***************************************************************************)
CountsRight == TypeOK /\ RefCovers /\ EntriesCounted /\ NoUnlinkPanic

(***************************************************************************)
(* An inode without links and without references is free on disk once no   *)
(* call is in progress: "iput() frees if the reference and link counts     *)
(* have fallen to zero" (fs.c:119-120).                                    *)
(***************************************************************************)
OrphanFreed ==
  (panicked = "" /\ \A p \in Proc : pr[p].at = "idle") =>
    \A i \in Inum : dinode[i].nlink = 0 /\ icache[i].ref = 0 => dinode[i].type = "none"

\* The inode whose lock the process asks for while it may have another.
WaitsFor(p) ==
  CASE pr[p].at = "put" -> pr[p].put
    [] pr[p].at \in {"createNew", "unlinkIp"} -> pr[p].ip
    [] OTHER -> 0

(***************************************************************************)
(* No two calls wait for each other's inode locks: usertests.c runs        *)
(* "concurrent create/link/unlink of the same file" and waits for the      *)
(* processes to end.                                                       *)
(***************************************************************************)
NoLockCycle ==
  \A p, q \in Proc :
    ~(/\ WaitsFor(p) # 0 /\ holder[WaitsFor(p)] = q
      /\ WaitsFor(q) # 0 /\ holder[WaitsFor(q)] = p)
=============================================================================
