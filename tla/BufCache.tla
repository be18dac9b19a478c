------------------------------ MODULE BufCache ------------------------------
(***************************************************************************)
(* The buffer cache, its sleep locks and the disk driver: kernel/bio.c,    *)
(* kernel/sleeplock.c and kernel/ide.c.                                    *)
(*                                                                         *)
(* Each process reads a block, may change it and makes the change durable  *)
(* with bwrite() or pins it with log_write(), and releases it.  A critical *)
(* section of bcache.lock, of a sleep lock's spin lock or of idelock is    *)
(* one step.                                                               *)
(***************************************************************************)
EXTENDS Integers, Sequences, FiniteSets

CONSTANTS
  Proc,
  Block,
  Val,
  NBUF,
  MaxPinned,  \* blocks log_write() keeps B_DIRTY at a time, see Log
  NoBlock, NoProc

Buf == 1 .. NBUF
NoBuf == 0

ASSUME BufAssumption ==
  /\ NBUF \in Nat \ {0}
  /\ MaxPinned \in Nat
  /\ NoBlock \notin Block /\ NoProc \notin Proc
  /\ IsFiniteSet(Proc)

VARIABLES
  blockno, valid, dirty, refcnt, data,  \* struct buf
  owner,      \* the process that has b->lock (lk->locked, lk->pid)
  lru,        \* the list from head.next, the most recently used, to head.prev
  idequeue,   \* buffers whose requests the disk has, the active one first
  disk,       \* the contents of the blocks
  at, b,      \* where each process is, and its buffer
  want,       \* the block it asked for
  panicked

bufs == <<blockno, valid, dirty, refcnt, data>>
vars == <<blockno, valid, dirty, refcnt, data, owner, lru, idequeue, disk, at, b,
          want, panicked>>

TypeOK ==
  /\ blockno \in [Buf -> Block \cup {NoBlock}]
  /\ valid \in [Buf -> BOOLEAN]
  /\ dirty \in [Buf -> BOOLEAN]
  /\ refcnt \in [Buf -> Nat]
  /\ data \in [Buf -> Val]
  /\ owner \in [Buf -> Proc \cup {NoProc}]
  /\ lru \in [Buf -> Buf]
  /\ idequeue \in Seq(Buf)
  /\ disk \in [Block -> Val]
  /\ at \in [Proc -> {"idle", "lock", "asleep", "bread", "disk", "have", "unlocked"}]
  /\ b \in [Proc -> Buf \cup {NoBuf}]
  /\ want \in [Proc -> Block \cup {NoBlock}]
  /\ panicked \in BOOLEAN

\* binit()
Init ==
  /\ blockno = [i \in Buf |-> NoBlock]
  /\ valid = [i \in Buf |-> FALSE]
  /\ dirty = [i \in Buf |-> FALSE]
  /\ refcnt = [i \in Buf |-> 0]
  /\ \E v \in Val : data = [i \in Buf |-> v]
  /\ owner = [i \in Buf |-> NoProc]
  /\ lru = [i \in Buf |-> NBUF + 1 - i]
  /\ idequeue = <<>>
  /\ disk \in [Block -> Val]
  /\ at = [p \in Proc |-> "idle"]
  /\ b = [p \in Proc |-> NoBuf]
  /\ want = [p \in Proc |-> NoBlock]
  /\ panicked = FALSE

-----------------------------------------------------------------------------
Goto(p, loc) == at' = [at EXCEPT ![p] = loc]

Cached(k) == {i \in Buf : blockno[i] = k}

\* Faults: a dirty, or a referenced, buffer is taken.
RecyclableDirty(i) == refcnt[i] = 0
RecyclableUsed(i) == ~dirty[i]

Recyclable(i) == refcnt[i] = 0 /\ ~dirty[i]

\* The last recyclable buffer of the list.
Victim(i) == \E j \in Buf :
  /\ lru[j] = i /\ Recyclable(i)
  /\ \A k \in j + 1 .. NBUF : ~Recyclable(lru[k])

(***************************************************************************)
(* bget(), up to acquiresleep().                                           *)
(***************************************************************************)
bgetHit(p, k) ==
  /\ at[p] = "idle"
  /\ \E i \in Cached(k) : /\ refcnt' = [refcnt EXCEPT ![i] = @ + 1]
                          /\ b' = [b EXCEPT ![p] = i]
  /\ want' = [want EXCEPT ![p] = k]
  /\ Goto(p, "lock")
  /\ UNCHANGED <<blockno, valid, dirty, data, owner, lru, idequeue, disk, panicked>>

\* Not cached: a buffer is recycled; panic("bget: no buffers") if there is none.
bgetMiss(p, k) ==
  LET victims == {i \in Buf : Victim(i)}
      i == IF victims = {} THEN NoBuf ELSE CHOOSE v \in victims : TRUE
  IN
  /\ at[p] = "idle" /\ Cached(k) = {}
  /\ panicked' = (victims = {})
  /\ blockno' = [x \in Buf |-> IF x = i THEN k ELSE blockno[x]]
  /\ valid' = [x \in Buf |-> IF x = i THEN FALSE ELSE valid[x]]
  /\ dirty' = [x \in Buf |-> IF x = i THEN FALSE ELSE dirty[x]]
  /\ refcnt' = [x \in Buf |-> IF x = i THEN 1 ELSE refcnt[x]]
  /\ b' = [b EXCEPT ![p] = i]
  /\ want' = [want EXCEPT ![p] = k]
  /\ Goto(p, "lock")
  /\ UNCHANGED <<data, owner, lru, idequeue, disk>>

(***************************************************************************)
(* acquiresleep() and releasesleep()                                       *)
(***************************************************************************)
\* Fault: the lock is taken without looking.
acquiresleepBlind(p) ==
  /\ at[p] = "lock"
  /\ owner' = [owner EXCEPT ![b[p]] = p]
  /\ Goto(p, "bread")
  /\ UNCHANGED <<bufs, lru, idequeue, disk, b, want, panicked>>

acquiresleep(p) ==
  /\ at[p] = "lock"
  /\ IF owner[b[p]] # NoProc
     THEN Goto(p, "asleep") /\ UNCHANGED owner
     ELSE Goto(p, "bread") /\ owner' = [owner EXCEPT ![b[p]] = p]
  /\ UNCHANGED <<bufs, lru, idequeue, disk, b, want, panicked>>

\* wakeup(lk): the processes asleep on the lock of buffer i test it again.
\* Fault: none of them does.
wakeupNone(i) == at
wakeup(i) == [q \in Proc |-> IF at[q] = "asleep" /\ b[q] = i THEN "lock" ELSE at[q]]

holdingsleep(p) == owner[b[p]] = p

(***************************************************************************)
(* bread(), bwrite(), iderw(), ideintr()                                   *)
(***************************************************************************)
iderw(p) ==
  /\ panicked' = (~holdingsleep(p) \/ (valid'[b[p]] /\ ~dirty'[b[p]]))
  /\ idequeue' = Append(idequeue, b[p])
  /\ Goto(p, "disk")

bread(p) ==
  /\ at[p] = "bread"
  /\ UNCHANGED <<bufs, owner, lru, disk, b, want>>
  /\ IF valid[b[p]]
     THEN Goto(p, "have") /\ UNCHANGED <<idequeue, panicked>>
     ELSE iderw(p)

\* The caller modifies b->data and calls bwrite().
bwrite(p, v) ==
  /\ at[p] = "have"
  /\ data' = [data EXCEPT ![b[p]] = v]
  /\ dirty' = [dirty EXCEPT ![b[p]] = TRUE]
  /\ UNCHANGED valid
  /\ iderw(p)
  /\ UNCHANGED <<blockno, refcnt, owner, lru, disk, b, want>>

\* The caller modifies b->data and calls log_write(), which pins the buffer.
log_write(p, v) ==
  /\ at[p] = "have"
  /\ dirty[b[p]] \/ Cardinality({i \in Buf : dirty[i]}) < MaxPinned
  /\ data' = [data EXCEPT ![b[p]] = v]
  /\ dirty' = [dirty EXCEPT ![b[p]] = TRUE]
  /\ UNCHANGED <<blockno, valid, refcnt, owner, lru, idequeue, disk, at, b, want,
                 panicked>>

\* The disk finishes the active request: the transfer, the flags, wakeup(b);
\* the waiting process finds the flags and returns from iderw().
ideintr ==
  /\ idequeue # <<>>
  /\ LET i == Head(idequeue) IN
     /\ IF dirty[i]
        THEN disk' = [disk EXCEPT ![blockno[i]] = data[i]] /\ UNCHANGED data
        ELSE data' = [data EXCEPT ![i] = disk[blockno[i]]] /\ UNCHANGED disk
     /\ valid' = [valid EXCEPT ![i] = TRUE]
     /\ dirty' = [dirty EXCEPT ![i] = FALSE]
     /\ at' = [q \in Proc |-> IF at[q] = "disk" /\ b[q] = i THEN "have" ELSE at[q]]
  /\ idequeue' = Tail(idequeue)
  /\ UNCHANGED <<blockno, refcnt, owner, lru, b, want, panicked>>

(***************************************************************************)
(* brelse(): releasesleep(), then the reference and the list.              *)
(***************************************************************************)
brelse(p) ==
  /\ at[p] = "have"
  /\ panicked' = ~holdingsleep(p)
  /\ owner' = [owner EXCEPT ![b[p]] = NoProc]
  /\ at' = [wakeup(b[p]) EXCEPT ![p] = "unlocked"]
  /\ UNCHANGED <<bufs, lru, idequeue, disk, b, want>>

\* The list with buffer i moved to the front.
MoveToFront(i) ==
  LET j == CHOOSE j \in Buf : lru[j] = i
  IN  [k \in Buf |-> IF k = 1 THEN i ELSE IF k <= j THEN lru[k - 1] ELSE lru[k]]

\* b->refcnt--
Dropped(i) == refcnt[i] - 1

brelseRef(p) ==
  /\ at[p] = "unlocked"
  /\ refcnt' = [refcnt EXCEPT ![b[p]] = Dropped(b[p])]
  /\ lru' = IF refcnt[b[p]] = 1 THEN MoveToFront(b[p]) ELSE lru
  /\ b' = [b EXCEPT ![p] = NoBuf]
  /\ want' = [want EXCEPT ![p] = NoBlock]
  /\ Goto(p, "idle")
  /\ UNCHANGED <<blockno, valid, dirty, data, owner, idequeue, disk, panicked>>

bget(p, k) == bgetHit(p, k) \/ bgetMiss(p, k)

Step(p) == acquiresleep(p) \/ bread(p) \/ brelse(p) \/ brelseRef(p)

Next ==
  /\ ~panicked
  /\ \/ \E p \in Proc : \/ Step(p)
                        \/ \E k \in Block : bget(p, k)
                        \/ \E v \in Val : bwrite(p, v) \/ log_write(p, v)
     \/ ideintr

Spec == Init /\ [][Next]_vars

-----------------------------------------------------------------------------
\* What a process that locks block k will find in it.
Content == [k \in Block |->
  IF \E i \in Cached(k) : valid[i] THEN data[CHOOSE i \in Cached(k) : valid[i]]
  ELSE disk[k]]

Holds(p, k) == want[p] = k /\ at[p] \in {"bread", "disk", "have"}
Holder == [k \in Block |->
  IF \E p \in Proc : Holds(p, k) THEN CHOOSE p \in Proc : Holds(p, k) ELSE NoProc]

Store == INSTANCE BlockStore WITH content <- Content, holder <- Holder

(***************************************************************************)
(* The cache is transparent: a block has one holder at a time and its      *)
(* contents change only by that holder's writes, however buffers are       *)
(* recycled, pinned and queued (bio.c: "Only one process at a time can use *)
(* a buffer").                                                             *)
(***************************************************************************)
Transparent == Store!Spec

(***************************************************************************)
(* bread() returns the block it was asked for: a buffer of that block, the *)
(* only one, with the block's contents.                                    *)
(***************************************************************************)
RightBlock ==
  \A p \in Proc : at[p] = "have" =>
    /\ Cached(want[p]) = {b[p]}
    /\ valid[b[p]]
    /\ data[b[p]] = Content[want[p]]

(***************************************************************************)
(* With a buffer for each process and each pinned block, no panic is       *)
(* reached: bget() finds a buffer, iderw() has something to do and its     *)
(* caller, like brelse()'s, has the lock.                                  *)
(***************************************************************************)
NoPanic == ~panicked

(***************************************************************************)
(* A process asleep in acquiresleep() waits for a lock somebody has, and   *)
(* references keep its buffer from being recycled under it.                *)
(***************************************************************************)
SleeperSafe ==
  \A p \in Proc : at[p] = "asleep" =>
    owner[b[p]] # NoProc /\ blockno[b[p]] = want[p] /\ refcnt[b[p]] > 0

\* A process that is not in a call starts none.
NoNewCall == \A p \in Proc : at[p] = "idle" => at'[p] = "idle"
=============================================================================
