--------------------------- MODULE BufCacheProofs ---------------------------
(***************************************************************************)
(* The safety of the buffer cache for any number of processes, blocks and  *)
(* buffers.                                                                *)
(*                                                                         *)
(* refcnt counts the processes that use a buffer, so one that is recycled  *)
(* has none; the owner of a buffer's sleep lock is the one process that is *)
(* past acquiresleep() with it; and no block is in two buffers.            *)
(***************************************************************************)
EXTENDS BufCache, TLAPS

\* The processes between bget() and the end of brelse() with buffer i.
Uses(i) == {p \in Proc : b[p] = i}

\* A process waits in iderw() for buffer i.
OnDisk(i) == \E p \in Proc : at[p] = "disk" /\ b[p] = i

\* The buffers log_write() keeps.
Pinned == {i \in Buf : dirty[i] /\ ~OnDisk(i)}

\* A process in a call has a buffer of the block it asked for, unless bget()
\* found none.
PlaceInv == \A p \in Proc :
  /\ at[p] = "idle" => b[p] = NoBuf
  /\ at[p] # "idle" =>
       /\ want[p] \in Block
       /\ \/ b[p] \in Buf /\ blockno[b[p]] = want[p]
          \/ b[p] = NoBuf /\ at[p] = "lock" /\ panicked

LockInv ==
  /\ \A p \in Proc, i \in Buf :
       owner[i] = p <=> b[p] = i /\ at[p] \in {"bread", "disk", "have"}
  /\ \A p \in Proc : at[p] = "asleep" => owner[b[p]] # NoProc

OneBuf == \A i, j \in Buf : blockno[i] \in Block /\ blockno[i] = blockno[j] => i = j

\* A buffer that is not referenced has no user.
FreeInv == \A p \in Proc, i \in Buf : b[p] = i => refcnt[i] # 0

RefInv == \A i \in Buf : refcnt[i] = Cardinality(Uses(i))

\* A request in the queue has its process waiting, and is there once.
QueueInv ==
  /\ \A n \in 1 .. Len(idequeue) : OnDisk(idequeue[n])
  /\ \A m, n \in 1 .. Len(idequeue) : idequeue[m] = idequeue[n] => m = n

\* What the flags say of the contents.
FlagInv ==
  /\ \A i \in Buf : dirty[i] => valid[i]
  /\ \A i \in Buf : valid[i] => blockno[i] \in Block
  /\ \A i \in Buf : valid[i] /\ ~dirty[i] => data[i] = disk[blockno[i]]
  /\ \A p \in Proc : at[p] = "have" => valid[b[p]]

\* Every buffer is in the list.
LruInv == \A i \in Buf : \E j \in Buf : lru[j] = i

PinInv == Cardinality(Pinned) <= MaxPinned

IInv == /\ TypeOK /\ PlaceInv /\ LockInv /\ OneBuf /\ FreeInv /\ RefInv
        /\ QueueInv /\ FlagInv /\ LruInv /\ PinInv

-----------------------------------------------------------------------------
\* The pointer 0 is not that of a buffer.
LEMMA NoBufLemma == NoBuf \notin Buf
BY BufAssumption DEF Buf, NoBuf

\* A step that changes nothing keeps the invariant.
LEMMA StutterLemma ==
  ASSUME IInv, UNCHANGED vars
  PROVE  IInv'
<1> USE DEF vars, IInv
<1>1. TypeOK'
  BY DEF TypeOK
<1>2. PlaceInv' /\ LockInv' /\ OneBuf'
  BY DEF PlaceInv, LockInv, OneBuf
<1>3. RefInv' /\ FreeInv'
  BY DEF RefInv, FreeInv, Uses
<1>4. FlagInv' /\ LruInv'
  BY DEF FlagInv, LruInv
<1>5. QueueInv' /\ PinInv'
  BY Zenon DEF QueueInv, PinInv, Pinned, OnDisk
<1> QED BY <1>1, <1>2, <1>3, <1>4, <1>5, Zenon

\* bgetMiss() that recycles buffer i, and the one that panics.
Recycle(p, k, i) ==
  /\ at[p] = "idle" /\ Cached(k) = {} /\ Recyclable(i)
  /\ panicked' = FALSE
  /\ blockno' = [blockno EXCEPT ![i] = k]
  /\ valid' = [valid EXCEPT ![i] = FALSE]
  /\ dirty' = [dirty EXCEPT ![i] = FALSE]
  /\ refcnt' = [refcnt EXCEPT ![i] = 1]
  /\ b' = [b EXCEPT ![p] = i]
  /\ want' = [want EXCEPT ![p] = k]
  /\ Goto(p, "lock")
  /\ UNCHANGED <<data, owner, lru, idequeue, disk>>

NoBuffers(p, k) ==
  /\ at[p] = "idle" /\ \A i \in Buf : ~Victim(i)
  /\ panicked' = TRUE
  /\ b' = [b EXCEPT ![p] = NoBuf]
  /\ want' = [want EXCEPT ![p] = k]
  /\ Goto(p, "lock")
  /\ UNCHANGED <<bufs, data, owner, lru, idequeue, disk>>

\* bgetMiss() recycles one buffer or panics.
LEMMA MissLemma ==
  ASSUME TypeOK, NEW p \in Proc, NEW k \in Block, bgetMiss(p, k)
  PROVE  NoBuffers(p, k) \/ \E i \in Buf : Recycle(p, k, i)
<1> DEFINE victims == {v \in Buf : Victim(v)}
           i == IF victims = {} THEN NoBuf ELSE CHOOSE v \in victims : TRUE
<1>1. /\ at[p] = "idle" /\ Cached(k) = {}
      /\ panicked' = (victims = {})
      /\ blockno' = [x \in Buf |-> IF x = i THEN k ELSE blockno[x]]
      /\ valid' = [x \in Buf |-> IF x = i THEN FALSE ELSE valid[x]]
      /\ dirty' = [x \in Buf |-> IF x = i THEN FALSE ELSE dirty[x]]
      /\ refcnt' = [x \in Buf |-> IF x = i THEN 1 ELSE refcnt[x]]
      /\ b' = [b EXCEPT ![p] = i]
      /\ want' = [want EXCEPT ![p] = k]
      /\ Goto(p, "lock")
      /\ UNCHANGED <<data, owner, lru, idequeue, disk>>
  BY DEF bgetMiss
<1>2. CASE victims = {}
  <2>1. i = NoBuf /\ \A x \in Buf : x # i
    BY <1>2, NoBufLemma
  <2>2. UNCHANGED bufs
    BY <1>1, <2>1, ZenonT(30) DEF TypeOK, bufs
  <2>3. \A x \in Buf : ~Victim(x)
    BY <1>2
  <2> HIDE DEF i
  <2> QED BY <1>1, <1>2, <2>1, <2>2, <2>3, Zenon DEF NoBuffers
<1>3. CASE victims # {}
  <2>1. i \in victims
    BY <1>3
  <2>2. i \in Buf /\ Recyclable(i)
    BY <2>1 DEF Victim
  <2> HIDE DEF i
  <2>3. /\ blockno' = [blockno EXCEPT ![i] = k]
        /\ valid' = [valid EXCEPT ![i] = FALSE]
        /\ dirty' = [dirty EXCEPT ![i] = FALSE]
        /\ refcnt' = [refcnt EXCEPT ![i] = 1]
    BY <1>1, <2>2, Zenon DEF TypeOK
  <2>4. panicked' = FALSE
    BY <1>1, <1>3, Zenon
  <2> QED BY <1>1, <2>2, <2>3, <2>4, Zenon DEF Recycle
<1> QED BY <1>2, <1>3

-----------------------------------------------------------------------------
\* A process in a call has a buffer, of the block it asked for.
LEMMA PlaceLemma ==
  ASSUME IInv, ~panicked, NEW p \in Proc, at[p] # "idle"
  PROVE  /\ b[p] \in Buf /\ blockno[b[p]] = want[p] /\ want[p] \in Block
         /\ refcnt[b[p]] # 0
<1>1. b[p] \in Buf /\ blockno[b[p]] = want[p] /\ want[p] \in Block
  BY DEF IInv, PlaceInv
<1> QED BY <1>1 DEF IInv, FreeInv

\* bread() of a buffer that is valid, and of one that is not.
breadHit(p) ==
  /\ at[p] = "bread" /\ valid[b[p]]
  /\ Goto(p, "have")
  /\ UNCHANGED <<bufs, owner, lru, idequeue, disk, b, want, panicked>>

breadMiss(p) ==
  /\ at[p] = "bread" /\ ~valid[b[p]]
  /\ idequeue' = Append(idequeue, b[p])
  /\ Goto(p, "disk")
  /\ UNCHANGED <<bufs, owner, lru, disk, b, want, panicked>>

\* bwrite() by the owner.
bwriteOwned(p, v) ==
  /\ at[p] = "have"
  /\ data' = [data EXCEPT ![b[p]] = v]
  /\ dirty' = [dirty EXCEPT ![b[p]] = TRUE]
  /\ idequeue' = Append(idequeue, b[p])
  /\ Goto(p, "disk")
  /\ UNCHANGED <<blockno, valid, refcnt, owner, lru, disk, b, want, panicked>>

\* brelse() by the owner.
brelseOwned(p) ==
  /\ at[p] = "have"
  /\ owner' = [owner EXCEPT ![b[p]] = NoProc]
  /\ at' = [wakeup(b[p]) EXCEPT ![p] = "unlocked"]
  /\ UNCHANGED <<bufs, lru, idequeue, disk, b, want, panicked>>

\* The interrupt for the request of process p, buffer i.
Served(p, i) ==
  /\ idequeue # <<>> /\ i = Head(idequeue)
  /\ at[p] = "disk" /\ b[p] = i
  /\ IF dirty[i]
     THEN disk' = [disk EXCEPT ![blockno[i]] = data[i]] /\ UNCHANGED data
     ELSE data' = [data EXCEPT ![i] = disk[blockno[i]]] /\ UNCHANGED disk
  /\ valid' = [valid EXCEPT ![i] = TRUE]
  /\ dirty' = [dirty EXCEPT ![i] = FALSE]
  /\ Goto(p, "have")
  /\ idequeue' = Tail(idequeue)
  /\ UNCHANGED <<blockno, refcnt, owner, lru, b, want, panicked>>

\* What the transfer of buffer i does to the contents of buffers and of the disk.
LEMMA ServedLemma ==
  ASSUME TypeOK, NEW p \in Proc, NEW i \in Buf, Served(p, i), blockno[i] \in Block
  PROVE  /\ data'[i] = disk'[blockno[i]]
         /\ dirty[i] => data' = data
         /\ ~dirty[i] => data'[i] = disk[blockno[i]]
         /\ \A j \in Buf \ {i} : data'[j] = data[j]
         /\ \A l \in Block : l # blockno[i] => disk'[l] = disk[l]
<1>1. data \in [Buf -> Val] /\ disk \in [Block -> Val]
  BY DEF TypeOK
<1>2. CASE dirty[i]
  <2>1. disk' = [disk EXCEPT ![blockno[i]] = data[i]] /\ data' = data
    BY <1>2 DEF Served
  <2> QED BY <1>1, <1>2, <2>1
<1>3. CASE ~dirty[i]
  <2>1. data' = [data EXCEPT ![i] = disk[blockno[i]]] /\ disk' = disk
    BY <1>3 DEF Served
  <2> QED BY <1>1, <1>3, <2>1
<1> QED BY <1>2, <1>3

\* The steps of the cache when the invariant holds: the panics of iderw() and
\* brelse() are out of reach, and an interrupt answers one process.
LEMMA StepLemma ==
  ASSUME IInv, Next
  PROVE  /\ ~panicked
         /\ \/ \E p \in Proc, i \in Buf : Served(p, i)
            \/ \E p \in Proc : \/ acquiresleep(p) \/ breadHit(p) \/ breadMiss(p)
                               \/ brelseOwned(p) \/ brelseRef(p)
            \/ \E p \in Proc, k \in Block : bgetHit(p, k) \/ NoBuffers(p, k)
            \/ \E p \in Proc, k \in Block, i \in Buf : Recycle(p, k, i)
            \/ \E p \in Proc, v \in Val : bwriteOwned(p, v) \/ log_write(p, v)
<1>0. ~panicked /\ TypeOK
  BY DEF Next, IInv
<1>1. ASSUME NEW p \in Proc, at[p] \in {"bread", "disk", "have"}
      PROVE  b[p] \in Buf /\ holdingsleep(p)
  <2>1. b[p] \in Buf
    BY <1>0, <1>1, PlaceLemma
  <2> QED BY <1>1, <2>1 DEF IInv, LockInv, holdingsleep
<1>2. ASSUME NEW p \in Proc, bread(p) PROVE breadHit(p) \/ breadMiss(p)
  <2>1. CASE valid[b[p]]
    BY <1>2, <2>1 DEF bread, breadHit
  <2>2. CASE ~valid[b[p]]
    <3>1. valid' = valid /\ panicked' = (~holdingsleep(p) \/ (valid'[b[p]] /\ ~dirty'[b[p]]))
      BY <1>2, <2>2 DEF bread, iderw, bufs
    <3>2. panicked' = FALSE
      BY <1>1, <1>2, <2>2, <3>1, Zenon DEF bread
    <3> QED BY <1>0, <1>2, <2>2, <3>2, Zenon DEF bread, breadMiss, iderw, TypeOK
  <2> QED BY <2>1, <2>2
<1>3. ASSUME NEW p \in Proc, NEW v \in Val, bwrite(p, v) PROVE bwriteOwned(p, v)
  <2>1. /\ at[p] = "have" /\ dirty' = [dirty EXCEPT ![b[p]] = TRUE]
        /\ panicked' = (~holdingsleep(p) \/ (valid'[b[p]] /\ ~dirty'[b[p]]))
    BY <1>3 DEF bwrite, iderw
  <2>2. dirty'[b[p]]
    BY <1>0, <1>1, <2>1 DEF TypeOK
  <2>3. panicked' = FALSE
    BY <1>1, <2>1, <2>2, Zenon
  <2> QED BY <1>0, <1>3, <2>3, Zenon DEF bwrite, bwriteOwned, iderw, TypeOK
<1>4. ASSUME NEW p \in Proc, brelse(p) PROVE brelseOwned(p)
  <2>1. panicked' = FALSE
    BY <1>1, <1>4, Zenon DEF brelse
  <2> QED BY <1>0, <1>4, <2>1, Zenon DEF brelse, brelseOwned, TypeOK
<1>5. ASSUME ideintr PROVE \E p \in Proc, i \in Buf : Served(p, i)
  <2> DEFINE i == Head(idequeue)
  <2>1. idequeue \in Seq(Buf) /\ idequeue # <<>>
    BY <1>0, <1>5 DEF ideintr, TypeOK
  <2>2. i \in Buf /\ 1 \in 1 .. Len(idequeue) /\ i = idequeue[1]
    BY <2>1
  <2>3. OnDisk(i)
    BY <2>2 DEF IInv, QueueInv
  <2>4. PICK p \in Proc : at[p] = "disk" /\ b[p] = i
    BY <2>3 DEF OnDisk
  <2>5. ASSUME NEW q \in Proc, at[q] = "disk", b[q] = i PROVE q = p
    <3>1. owner[i] = p /\ owner[i] = q
      BY <2>2, <2>4, <2>5 DEF IInv, LockInv
    <3> QED BY <3>1
  <2> HIDE DEF i
  <2>6. at' = [q \in Proc |-> IF at[q] = "disk" /\ b[q] = i THEN "have" ELSE at[q]]
    BY <1>5 DEF ideintr, i
  <2>7. at' = [at EXCEPT ![p] = "have"]
    BY <1>0, <2>4, <2>5, <2>6, Zenon DEF TypeOK
  <2>8. Served(p, i)
    BY <1>5, <2>4, <2>7, Zenon DEF ideintr, Served, Goto, i
  <2> QED BY <2>2, <2>8
<1>6. ASSUME NEW p \in Proc, NEW k \in Block, bget(p, k)
      PROVE  \/ bgetHit(p, k) \/ NoBuffers(p, k)
             \/ \E i \in Buf : Recycle(p, k, i)
  BY <1>0, <1>6, MissLemma DEF bget
<1> QED BY <1>0, <1>2, <1>3, <1>4, <1>5, <1>6 DEF Next, Step

\* Moving a buffer to the front of the list loses none.
LEMMA MoveLemma ==
  ASSUME TypeOK, LruInv, NEW i \in Buf
  PROVE  /\ MoveToFront(i) \in [Buf -> Buf]
         /\ \A x \in Buf : \E j \in Buf : MoveToFront(i)[j] = x
<1> DEFINE j == CHOOSE n \in Buf : lru[n] = i
<1>1. j \in Buf /\ lru[j] = i
  BY DEF LruInv
<1>2. MoveToFront(i) = [k \in Buf |-> IF k = 1 THEN i ELSE IF k <= j THEN lru[k - 1] ELSE lru[k]]
  BY DEF MoveToFront
<1> HIDE DEF j
<1>3. lru \in [Buf -> Buf] /\ NBUF \in Nat
  BY BufAssumption DEF TypeOK
<1>4. ASSUME NEW k \in Buf, k # 1 PROVE k - 1 \in Buf
  BY <1>3, <1>4 DEF Buf
<1>5. MoveToFront(i) \in [Buf -> Buf]
  BY <1>2, <1>3, <1>4
<1>6. ASSUME NEW x \in Buf PROVE \E k \in Buf : MoveToFront(i)[k] = x
  <2>1. PICK m \in Buf : lru[m] = x
    BY DEF LruInv
  <2>2. CASE x = i
    <3>1. 1 \in Buf
      BY <1>3, <2>1 DEF Buf
    <3> QED BY <1>2, <2>2, <3>1
  <2>3. CASE x # i /\ m < j
    <3>1. m + 1 \in Buf /\ m + 1 # 1 /\ m + 1 <= j /\ (m + 1) - 1 = m
      BY <1>1, <1>3, <2>3 DEF Buf
    <3>2. MoveToFront(i)[m + 1] = lru[(m + 1) - 1]
      BY <1>2, <3>1
    <3> QED BY <2>1, <3>1, <3>2
  <2>4. CASE x # i /\ ~(m < j)
    <3>1. m # j
      BY <1>1, <2>1, <2>4
    <3>2. m # 1 /\ ~(m <= j)
      BY <1>1, <1>3, <2>4, <3>1 DEF Buf
    <3> QED BY <1>2, <2>1, <3>2
  <2> QED BY <2>2, <2>3, <2>4
<1> QED BY <1>5, <1>6

-----------------------------------------------------------------------------
\* Every step keeps the types and the list.
LEMMA TypeStep ==
  ASSUME IInv, Next
  PROVE  TypeOK' /\ LruInv'
<1>0. TypeOK /\ LruInv /\ ~panicked
  BY DEF IInv, Next
<1> DEFINE Loc == {"idle", "lock", "asleep", "bread", "disk", "have", "unlocked"}
<1>1. ASSUME NEW p \in Proc, NEW i \in Buf, Served(p, i) PROVE TypeOK' /\ LruInv'
  <2>1. blockno[i] \in Block
    BY <1>0, <1>1, PlaceLemma DEF Served
  <2>2. idequeue \in Seq(Buf) /\ idequeue # <<>>
    BY <1>0, <1>1 DEF Served, TypeOK
  <2>3. Tail(idequeue) \in Seq(Buf)
    BY <2>2
  <2>4. disk' \in [Block -> Val] /\ data' \in [Buf -> Val]
    BY <1>0, <1>1, <2>1, ZenonT(30) DEF Served, TypeOK
  <2> QED BY <1>0, <1>1, <2>3, <2>4, Zenon DEF Served, Goto, TypeOK, LruInv
<1>2. ASSUME NEW p \in Proc, acquiresleep(p) \/ breadHit(p) PROVE TypeOK' /\ LruInv'
  <2>1. CASE acquiresleep(p)
    BY <1>0, <2>1, ZenonT(30) DEF acquiresleep, Goto, bufs, TypeOK, LruInv
  <2>2. CASE breadHit(p)
    BY <1>0, <2>2, ZenonT(30) DEF breadHit, Goto, bufs, TypeOK, LruInv
  <2> QED BY <1>2, <2>1, <2>2
<1>3. ASSUME NEW p \in Proc, breadMiss(p) PROVE TypeOK' /\ LruInv'
  <2>1. b[p] \in Buf
    BY <1>0, <1>3, PlaceLemma DEF breadMiss
  <2>2. idequeue' \in Seq(Buf)
    <3>1. idequeue \in Seq(Buf) /\ idequeue' = Append(idequeue, b[p])
      BY <1>0, <1>3 DEF breadMiss, TypeOK
    <3> QED BY <2>1, <3>1
  <2> QED BY <1>0, <1>3, <2>2, Zenon DEF breadMiss, Goto, bufs, TypeOK, LruInv
<1>4. ASSUME NEW p \in Proc, brelseOwned(p) PROVE TypeOK' /\ LruInv'
  <2>1. at' \in [Proc -> Loc]
    BY <1>0, <1>4 DEF brelseOwned, wakeup, TypeOK
  <2> QED BY <1>0, <1>4, <2>1, Zenon DEF brelseOwned, bufs, TypeOK, LruInv
<1>5. ASSUME NEW p \in Proc, brelseRef(p) PROVE TypeOK' /\ LruInv'
  <2>1. b[p] \in Buf /\ refcnt[b[p]] # 0 /\ refcnt[b[p]] \in Nat
    BY <1>0, <1>5, PlaceLemma DEF brelseRef, TypeOK
  <2>2. refcnt' \in [Buf -> Nat]
    <3>1. refcnt \in [Buf -> Nat] /\ refcnt' = [refcnt EXCEPT ![b[p]] = refcnt[b[p]] - 1]
      BY <1>0, <1>5 DEF brelseRef, Dropped, TypeOK
    <3> QED BY <2>1, <3>1
  <2>3. lru' \in [Buf -> Buf] /\ LruInv'
    <3>1. lru' = MoveToFront(b[p]) \/ lru' = lru
      BY <1>5 DEF brelseRef
    <3>2. CASE lru' = lru
      BY <1>0, <3>2 DEF LruInv, TypeOK
    <3>3. CASE lru' = MoveToFront(b[p])
      <4>1. lru' \in [Buf -> Buf] /\ \A x \in Buf : \E j \in Buf : lru'[j] = x
        BY <1>0, <2>1, <3>3, MoveLemma, Zenon
      <4> QED BY <4>1 DEF LruInv
    <3> QED BY <3>1, <3>2, <3>3
  <2> QED BY <1>0, <1>5, <2>2, <2>3 DEF brelseRef, Goto, TypeOK
<1>6. ASSUME NEW p \in Proc, NEW k \in Block, bgetHit(p, k) PROVE TypeOK' /\ LruInv'
  <2>1. PICK i \in Buf : /\ refcnt' = [refcnt EXCEPT ![i] = @ + 1]
                         /\ b' = [b EXCEPT ![p] = i]
    BY <1>6, Zenon DEF bgetHit, Cached
  <2>2. refcnt' \in [Buf -> Nat] /\ b' \in [Proc -> Buf \cup {NoBuf}]
    BY <1>0, <2>1 DEF TypeOK
  <2> QED BY <1>0, <1>6, <2>2, ZenonT(30) DEF bgetHit, Goto, TypeOK, LruInv
<1>7. ASSUME NEW p \in Proc, NEW k \in Block, NoBuffers(p, k) PROVE TypeOK' /\ LruInv'
  BY <1>0, <1>7 DEF NoBuffers, Goto, bufs, TypeOK, LruInv
<1>8. ASSUME NEW p \in Proc, NEW k \in Block, NEW i \in Buf, Recycle(p, k, i)
      PROVE  TypeOK' /\ LruInv'
  BY <1>0, <1>8, Zenon DEF Recycle, Goto, TypeOK, LruInv
<1>9. ASSUME NEW p \in Proc, NEW v \in Val, bwriteOwned(p, v) PROVE TypeOK' /\ LruInv'
  <2>1. b[p] \in Buf
    BY <1>0, <1>9, PlaceLemma DEF bwriteOwned
  <2>2. idequeue' \in Seq(Buf)
    <3>1. idequeue \in Seq(Buf) /\ idequeue' = Append(idequeue, b[p])
      BY <1>0, <1>9 DEF bwriteOwned, TypeOK
    <3> QED BY <2>1, <3>1
  <2> QED BY <1>0, <1>9, <2>2, Zenon DEF bwriteOwned, Goto, TypeOK, LruInv
<1>10. ASSUME NEW p \in Proc, NEW v \in Val, log_write(p, v) PROVE TypeOK' /\ LruInv'
  BY <1>0, <1>10, Zenon DEF log_write, TypeOK, LruInv
<1> QED
  BY <1>1, <1>2, <1>3, <1>4, <1>5, <1>6, <1>7, <1>8, <1>9, <1>10, StepLemma

\* A buffer is recycled only when no process uses it, for a block no buffer has;
\* a lock is taken only when it is free, and given up with its sleepers awake.
LEMMA PlaceStep ==
  ASSUME IInv, Next, TypeOK'
  PROVE  PlaceInv' /\ LockInv' /\ OneBuf'
<1>0. TypeOK /\ PlaceInv /\ LockInv /\ OneBuf /\ ~panicked
  BY DEF IInv, Next
<1> DEFINE Holding == {"bread", "disk", "have"}
           All == PlaceInv' /\ LockInv' /\ OneBuf'
\* A step inside the critical section of the sleep lock.
<1>1. ASSUME NEW p \in Proc, at[p] \in Holding, NEW l \in Holding, Goto(p, l),
             UNCHANGED <<blockno, owner, b, want, panicked>>
      PROVE  All
  <2>1. at'[p] = l /\ \A q \in Proc \ {p} : at'[q] = at[q]
    BY <1>0, <1>1 DEF Goto, TypeOK
  <2>2. PlaceInv'
    BY <1>0, <1>1, <2>1 DEF PlaceInv
  <2>3. LockInv'
    BY <1>0, <1>1, <2>1 DEF LockInv
  <2> QED BY <1>0, <1>1, <2>2, <2>3 DEF OneBuf
<1>2. ASSUME NEW p \in Proc, NEW i \in Buf, Served(p, i) PROVE All
  BY <1>1, <1>2 DEF Served
<1>3. ASSUME NEW p \in Proc, breadHit(p) \/ breadMiss(p) PROVE All
  BY <1>1, <1>3 DEF breadHit, breadMiss, bufs
<1>4. ASSUME NEW p \in Proc, NEW v \in Val, bwriteOwned(p, v) PROVE All
  BY <1>1, <1>4 DEF bwriteOwned
<1>5. ASSUME NEW p \in Proc, NEW v \in Val, log_write(p, v) PROVE All
  BY <1>0, <1>5 DEF log_write, PlaceInv, LockInv, OneBuf
<1>6. ASSUME NEW p \in Proc, acquiresleep(p) PROVE All
  <2>1. /\ at[p] = "lock" /\ b[p] \in Buf
        /\ UNCHANGED <<blockno, b, want, panicked>>
    BY <1>0, <1>6, PlaceLemma DEF acquiresleep, bufs
  <2>2. CASE owner[b[p]] # NoProc
    <3>1. /\ at'[p] = "asleep" /\ owner' = owner
          /\ \A q \in Proc \ {p} : at'[q] = at[q]
      BY <1>0, <1>6, <2>2 DEF acquiresleep, Goto, TypeOK
    <3>2. PlaceInv' /\ OneBuf'
      BY <1>0, <2>1, <3>1 DEF PlaceInv, OneBuf
    <3>3. LockInv'
      BY <1>0, <2>1, <2>2, <3>1 DEF LockInv
    <3> QED BY <3>2, <3>3
  <2>3. CASE owner[b[p]] = NoProc
    <3>1. /\ at'[p] = "bread" /\ owner' = [owner EXCEPT ![b[p]] = p]
          /\ \A q \in Proc \ {p} : at'[q] = at[q]
      BY <1>0, <1>6, <2>3 DEF acquiresleep, Goto, TypeOK
    <3>2. PlaceInv' /\ OneBuf'
      BY <1>0, <2>1, <3>1 DEF PlaceInv, OneBuf
    <3>3. /\ owner'[b[p]] = p /\ p # NoProc
          /\ \A i \in Buf \ {b[p]} : owner'[i] = owner[i]
      BY <1>0, <2>1, <3>1, BufAssumption DEF TypeOK
    <3>4. ASSUME NEW q \in Proc, NEW i \in Buf
          PROVE  owner'[i] = q <=> b'[q] = i /\ at'[q] \in Holding
      <4>0. owner[i] = q <=> b[q] = i /\ at[q] \in Holding
        BY <1>0 DEF LockInv
      <4>1. CASE i = b[p]
        BY <2>1, <2>3, <3>1, <3>3, <4>0, <4>1, BufAssumption
      <4>2. CASE i # b[p]
        BY <2>1, <3>1, <3>3, <4>0, <4>2
      <4> QED BY <4>1, <4>2
    <3>5. ASSUME NEW q \in Proc, at'[q] = "asleep" PROVE owner'[b'[q]] # NoProc
      <4>1. at[q] = "asleep" /\ b'[q] = b[q]
        BY <2>1, <3>1, <3>5
      <4>2. owner[b[q]] # NoProc /\ b[q] \in Buf
        BY <1>0, <4>1, PlaceLemma DEF LockInv
      <4> QED BY <3>3, <4>1, <4>2
    <3> QED BY <3>2, <3>4, <3>5 DEF LockInv
  <2> QED BY <2>2, <2>3
<1>7. ASSUME NEW p \in Proc, brelseOwned(p) PROVE All
  <2>1. /\ at[p] = "have" /\ b[p] \in Buf /\ owner' = [owner EXCEPT ![b[p]] = NoProc]
        /\ UNCHANGED <<blockno, b, want, panicked>>
    BY <1>0, <1>7, PlaceLemma DEF brelseOwned, bufs
  <2>2. /\ at'[p] = "unlocked"
        /\ \A q \in Proc \ {p} :
             at'[q] = IF at[q] = "asleep" /\ b[q] = b[p] THEN "lock" ELSE at[q]
    BY <1>0, <1>7 DEF brelseOwned, wakeup, TypeOK
  <2>3. PlaceInv' /\ OneBuf'
    BY <1>0, <2>1, <2>2 DEF PlaceInv, OneBuf
  <2>4. owner'[b[p]] = NoProc /\ \A i \in Buf \ {b[p]} : owner'[i] = owner[i]
    BY <1>0, <2>1 DEF TypeOK
  <2>5. owner[b[p]] = p
    BY <1>0, <2>1 DEF LockInv
  <2>6. ASSUME NEW q \in Proc, NEW i \in Buf
        PROVE  owner'[i] = q <=> b'[q] = i /\ at'[q] \in Holding
    <3>0. owner[i] = q <=> b[q] = i /\ at[q] \in Holding
      BY <1>0 DEF LockInv
    <3>1. CASE i = b[p]
      BY <2>1, <2>2, <2>4, <2>5, <3>0, <3>1, BufAssumption
    <3>2. CASE i # b[p]
      BY <2>1, <2>2, <2>4, <3>0, <3>2
    <3> QED BY <3>1, <3>2
  <2>7. ASSUME NEW q \in Proc, at'[q] = "asleep" PROVE owner'[b'[q]] # NoProc
    <3>1. at[q] = "asleep" /\ b'[q] = b[q] /\ b[q] # b[p]
      BY <2>1, <2>2, <2>7
    <3>2. owner[b[q]] # NoProc /\ b[q] \in Buf
      BY <1>0, <3>1, PlaceLemma DEF LockInv
    <3> QED BY <2>4, <3>1, <3>2
  <2> QED BY <2>3, <2>6, <2>7 DEF LockInv
\* A step outside the critical section of any sleep lock.
<1>8. ASSUME NEW p \in Proc, at[p] \in {"idle", "unlocked"}, at'[p] \in {"idle", "lock"},
             \A q \in Proc \ {p} : at'[q] = at[q] /\ b'[q] = b[q],
             UNCHANGED owner
      PROVE  LockInv'
  <2>1. ASSUME NEW q \in Proc, NEW i \in Buf
        PROVE  owner'[i] = q <=> b'[q] = i /\ at'[q] \in Holding
    <3>0. owner[i] = q <=> b[q] = i /\ at[q] \in Holding
      BY <1>0 DEF LockInv
    <3> QED BY <1>8, <3>0
  <2>2. ASSUME NEW q \in Proc, at'[q] = "asleep" PROVE owner'[b'[q]] # NoProc
    BY <1>0, <1>8, <2>2 DEF LockInv
  <2> QED BY <2>1, <2>2 DEF LockInv
<1>9. ASSUME NEW p \in Proc, brelseRef(p) PROVE All
  <2>1. /\ at[p] = "unlocked" /\ at'[p] = "idle" /\ b'[p] = NoBuf
        /\ \A q \in Proc \ {p} : at'[q] = at[q] /\ b'[q] = b[q] /\ want'[q] = want[q]
        /\ UNCHANGED <<blockno, owner, panicked>>
    BY <1>0, <1>9 DEF brelseRef, Goto, TypeOK
  <2>2. PlaceInv'
    BY <1>0, <2>1 DEF PlaceInv
  <2> QED BY <1>0, <1>8, <2>1, <2>2 DEF OneBuf
<1>10. ASSUME NEW p \in Proc, NEW k \in Block, bgetHit(p, k) PROVE All
  <2>1. PICK i \in Buf : blockno[i] = k /\ b' = [b EXCEPT ![p] = i]
    BY <1>10, Zenon DEF bgetHit, Cached
  <2>2. /\ at[p] = "idle" /\ at'[p] = "lock" /\ b'[p] = i /\ want'[p] = k
        /\ \A q \in Proc \ {p} : at'[q] = at[q] /\ b'[q] = b[q] /\ want'[q] = want[q]
        /\ UNCHANGED <<blockno, owner, panicked>>
    BY <1>0, <1>10, <2>1 DEF bgetHit, Goto, TypeOK
  <2>3. PlaceInv'
    BY <1>0, <2>1, <2>2 DEF PlaceInv
  <2> QED BY <1>0, <1>8, <2>2, <2>3 DEF OneBuf
<1>11. ASSUME NEW p \in Proc, NEW k \in Block, NoBuffers(p, k) PROVE All
  <2>1. /\ at[p] = "idle" /\ at'[p] = "lock" /\ b'[p] = NoBuf /\ want'[p] = k
        /\ \A q \in Proc \ {p} : at'[q] = at[q] /\ b'[q] = b[q] /\ want'[q] = want[q]
        /\ UNCHANGED <<blockno, owner>> /\ panicked'
    BY <1>0, <1>11 DEF NoBuffers, Goto, bufs, TypeOK
  <2>2. PlaceInv'
    BY <1>0, <2>1 DEF PlaceInv
  <2> QED BY <1>0, <1>8, <2>1, <2>2 DEF OneBuf
<1>12. ASSUME NEW p \in Proc, NEW k \in Block, NEW i \in Buf, Recycle(p, k, i) PROVE All
  <2>1. /\ at[p] = "idle" /\ at'[p] = "lock" /\ b'[p] = i /\ want'[p] = k
        /\ \A q \in Proc \ {p} : at'[q] = at[q] /\ b'[q] = b[q] /\ want'[q] = want[q]
        /\ blockno'[i] = k /\ \A j \in Buf \ {i} : blockno'[j] = blockno[j]
        /\ UNCHANGED <<owner, panicked>>
    BY <1>0, <1>12 DEF Recycle, Goto, TypeOK
  <2>2. \A q \in Proc : b[q] # i
    BY <1>0, <1>12, Zenon DEF Recycle, Recyclable, IInv, FreeInv
  <2>3. \A j \in Buf : blockno[j] # k
    BY <1>12 DEF Recycle, Cached
  <2>4. PlaceInv'
    BY <1>0, <2>1, <2>2 DEF PlaceInv
  <2>5. OneBuf'
    BY <1>0, <2>1, <2>3 DEF OneBuf
  <2> QED BY <1>8, <2>1, <2>4, <2>5, ZenonT(30)
<1> QED
  BY <1>2, <1>3, <1>4, <1>5, <1>6, <1>7, <1>9, <1>10, <1>11, <1>12, StepLemma

\* A request is queued by the owner of its buffer, who then waits for it.
LEMMA QueueStep ==
  ASSUME IInv, Next
  PROVE  QueueInv'
<1>0. TypeOK /\ QueueInv /\ LockInv /\ ~panicked /\ idequeue \in Seq(Buf)
  BY DEF IInv, Next, TypeOK
<1>1. ASSUME UNCHANGED idequeue,
             \A q \in Proc : at[q] = "disk" => at'[q] = "disk" /\ b'[q] = b[q]
      PROVE  QueueInv'
  <2>1. ASSUME NEW n \in 1 .. Len(idequeue')
        PROVE  \E q \in Proc : at'[q] = "disk" /\ b'[q] = idequeue'[n]
    <3>1. OnDisk(idequeue[n])
      BY <1>0, <1>1 DEF QueueInv
    <3>2. PICK q \in Proc : at[q] = "disk" /\ b[q] = idequeue[n]
      BY <3>1 DEF OnDisk
    <3>3. at'[q] = "disk" /\ b'[q] = idequeue'[n]
      BY <1>1, <3>2
    <3> QED BY <3>3
  <2> QED BY <1>0, <1>1, <2>1 DEF QueueInv, OnDisk
<1>2. ASSUME NEW p \in Proc, at[p] \in {"bread", "have"}, Goto(p, "disk"),
             idequeue' = Append(idequeue, b[p]), UNCHANGED b
      PROVE  QueueInv'
  <2>1. /\ b[p] \in Buf /\ owner[b[p]] = p
        /\ at'[p] = "disk" /\ \A q \in Proc \ {p} : at'[q] = at[q]
    BY <1>0, <1>2, PlaceLemma DEF LockInv, Goto, TypeOK
  <2> DEFINE l == Len(idequeue)
  <2>2. /\ l \in Nat /\ Len(idequeue') = l + 1 /\ idequeue'[l + 1] = b[p]
        /\ \A n \in 1 .. l : idequeue'[n] = idequeue[n]
    BY <1>0, <1>2, <2>1
  <2>3. ASSUME NEW n \in 1 .. l
        PROVE  /\ \E q \in Proc : at'[q] = "disk" /\ b'[q] = idequeue'[n]
               /\ idequeue[n] # b[p]
    <3>1. OnDisk(idequeue[n])
      BY <1>0 DEF QueueInv
    <3>2. PICK q \in Proc : at[q] = "disk" /\ b[q] = idequeue[n]
      BY <3>1 DEF OnDisk
    <3>3. q # p
      BY <1>2, <3>2
    <3>4. at'[q] = "disk" /\ b'[q] = idequeue'[n]
      BY <1>2, <2>1, <2>2, <3>2, <3>3
    <3>5. b[q] # b[p]
      BY <1>0, <2>1, <3>2, <3>3 DEF LockInv
    <3> QED BY <3>2, <3>4, <3>5
  <2>4. at'[p] = "disk" /\ b'[p] = idequeue'[l + 1]
    BY <1>2, <2>1, <2>2
  <2> HIDE DEF l
  <2>5. ASSUME NEW n \in 1 .. Len(idequeue')
        PROVE  \E q \in Proc : at'[q] = "disk" /\ b'[q] = idequeue'[n]
    <3>1. n \in 1 .. l \/ n = l + 1
      BY <2>2
    <3> QED BY <2>3, <2>4, <3>1
  <2>6. ASSUME NEW m \in 1 .. Len(idequeue'), NEW n \in 1 .. Len(idequeue'),
               idequeue'[m] = idequeue'[n]
        PROVE  m = n
    <3>1. (m \in 1 .. l \/ m = l + 1) /\ (n \in 1 .. l \/ n = l + 1)
      BY <2>2
    <3>2. CASE m \in 1 .. l /\ n \in 1 .. l
      <4>1. idequeue[m] = idequeue[n]
        BY <2>2, <2>6, <3>2
      <4> QED BY <1>0, <3>2, <4>1 DEF QueueInv, l
    <3>3. CASE m = l + 1 \/ n = l + 1
      BY <2>2, <2>3, <2>6, <3>1, <3>3
    <3> QED BY <3>1, <3>2, <3>3
  <2> QED BY <2>5, <2>6 DEF QueueInv, OnDisk
<1>3. ASSUME NEW p \in Proc, NEW i \in Buf, Served(p, i) PROVE QueueInv'
  <2>1. /\ idequeue # <<>> /\ i = Head(idequeue) /\ idequeue' = Tail(idequeue)
        /\ at[p] = "disk" /\ b[p] = i /\ b' = b
        /\ \A q \in Proc \ {p} : at'[q] = at[q]
    BY <1>0, <1>3 DEF Served, Goto, TypeOK
  <2> DEFINE l == Len(idequeue)
  <2>2. /\ l \in Nat \ {0} /\ i = idequeue[1] /\ Len(idequeue') = l - 1
        /\ \A n \in 1 .. l - 1 : idequeue'[n] = idequeue[n + 1]
    BY <1>0, <2>1
  <2> HIDE DEF l
  <2>3. ASSUME NEW n \in 1 .. l - 1
        PROVE  \E q \in Proc : at'[q] = "disk" /\ b'[q] = idequeue'[n]
    <3>1. n + 1 \in 1 .. l /\ 1 \in 1 .. l /\ n + 1 # 1
      BY <2>2
    <3>2. OnDisk(idequeue[n + 1]) /\ idequeue[n + 1] # i
      BY <1>0, <2>2, <3>1 DEF QueueInv, l
    <3>3. PICK q \in Proc : at[q] = "disk" /\ b[q] = idequeue[n + 1]
      BY <3>2 DEF OnDisk
    <3>4. at'[q] = "disk" /\ b'[q] = idequeue'[n]
      BY <2>1, <2>2, <3>2, <3>3
    <3> QED BY <3>4
  <2>4. ASSUME NEW m \in 1 .. l - 1, NEW n \in 1 .. l - 1, idequeue'[m] = idequeue'[n]
        PROVE  m = n
    <3>1. m + 1 \in 1 .. l /\ n + 1 \in 1 .. l
      BY <2>2
    <3>2. m + 1 = n + 1
      BY <1>0, <2>2, <2>4, <3>1 DEF QueueInv, l
    <3> QED BY <2>2, <3>2
  <2> QED BY <2>2, <2>3, <2>4 DEF QueueInv, OnDisk
<1>4. ASSUME NEW p \in Proc, breadMiss(p) PROVE QueueInv'
  BY <1>2, <1>4 DEF breadMiss
<1>5. ASSUME NEW p \in Proc, NEW v \in Val, bwriteOwned(p, v) PROVE QueueInv'
  BY <1>2, <1>5 DEF bwriteOwned
<1>6. ASSUME NEW p \in Proc, NEW v \in Val, log_write(p, v) PROVE QueueInv'
  BY <1>1, <1>6 DEF log_write
<1>7. ASSUME NEW p \in Proc, acquiresleep(p) \/ breadHit(p) PROVE QueueInv'
  BY <1>0, <1>1, <1>7 DEF acquiresleep, breadHit, Goto, TypeOK
<1>8. ASSUME NEW p \in Proc, brelseOwned(p) \/ brelseRef(p) PROVE QueueInv'
  BY <1>0, <1>1, <1>8, Zenon DEF brelseOwned, brelseRef, wakeup, Goto, TypeOK
<1>9. ASSUME NEW p \in Proc, NEW k \in Block, bgetHit(p, k) \/ NoBuffers(p, k)
      PROVE  QueueInv'
  BY <1>0, <1>1, <1>9 DEF bgetHit, NoBuffers, Goto, TypeOK
<1>10. ASSUME NEW p \in Proc, NEW k \in Block, NEW i \in Buf, Recycle(p, k, i)
       PROVE  QueueInv'
  BY <1>0, <1>1, <1>10 DEF Recycle, Goto, TypeOK
<1> QED
  BY <1>3, <1>4, <1>5, <1>6, <1>7, <1>8, <1>9, <1>10, StepLemma

\* A buffer that is valid and not dirty agrees with the disk.
LEMMA FlagStep ==
  ASSUME IInv, Next
  PROVE  FlagInv'
<1>0. TypeOK /\ FlagInv /\ ~panicked
  BY DEF IInv, Next
<1>1. ASSUME UNCHANGED <<blockno, valid, dirty, data, disk>>,
             \A q \in Proc : at'[q] = "have" => b'[q] = b[q] /\ (at[q] = "have" \/ valid[b[q]])
      PROVE  FlagInv'
  BY <1>0, <1>1 DEF FlagInv
<1>2. ASSUME NEW p \in Proc, NEW i \in Buf, Served(p, i) PROVE FlagInv'
  <2>1. blockno[i] \in Block
    BY <1>0, <1>2, PlaceLemma DEF Served
  <2>2. /\ valid'[i] /\ ~dirty'[i] /\ b' = b /\ b[p] = i
        /\ \A j \in Buf \ {i} : valid'[j] = valid[j] /\ dirty'[j] = dirty[j]
        /\ \A q \in Proc \ {p} : at'[q] = at[q]
        /\ blockno' = blockno
    BY <1>0, <1>2, Zenon DEF Served, Goto, TypeOK
  <2>3. data'[i] = disk'[blockno[i]]
    BY <1>0, <1>2, <2>1, ServedLemma
  <2>4. ASSUME NEW j \in Buf, j # i, valid[j], ~dirty[j] PROVE data'[j] = disk'[blockno[j]]
    <3>1. blockno[j] \in Block /\ data[j] = disk[blockno[j]]
      BY <1>0, <2>4 DEF FlagInv
    <3>2. blockno[j] # blockno[i]
      BY <2>1, <2>4 DEF IInv, OneBuf
    <3>3. data'[j] = data[j]
      BY <1>0, <1>2, <2>1, <2>4, ServedLemma
    <3>4. disk'[blockno[j]] = disk[blockno[j]]
      BY <1>0, <1>2, <2>1, <3>1, <3>2, ServedLemma
    <3> QED BY <3>1, <3>3, <3>4
  <2>5. \A j \in Buf : (dirty'[j] => valid'[j]) /\ (valid'[j] => blockno'[j] \in Block)
    BY <1>0, <2>1, <2>2 DEF FlagInv
  <2>6. ASSUME NEW q \in Proc, at'[q] = "have" PROVE valid'[b'[q]]
    <3>1. CASE b[q] = i
      BY <2>2, <3>1
    <3>2. CASE b[q] # i
      <4>1. at[q] = "have"
        BY <2>2, <2>6, <3>2
      <4>2. b[q] \in Buf /\ valid[b[q]]
        BY <1>0, <4>1, PlaceLemma DEF FlagInv
      <4> QED BY <2>2, <3>2, <4>2
    <3> QED BY <3>1, <3>2
  <2>7. ASSUME NEW j \in Buf, valid'[j], ~dirty'[j] PROVE data'[j] = disk'[blockno'[j]]
    <3>1. CASE j = i
      BY <2>2, <2>3, <3>1
    <3>2. CASE j # i
      BY <2>2, <2>4, <2>7, <3>2
    <3> QED BY <3>1, <3>2
  <2> QED BY <2>5, <2>6, <2>7 DEF FlagInv
<1>3. ASSUME NEW p \in Proc, at[p] = "have", NEW v \in Val, data' = [data EXCEPT ![b[p]] = v],
             dirty' = [dirty EXCEPT ![b[p]] = TRUE],
             UNCHANGED <<blockno, valid, disk, b>>,
             \A q \in Proc : at'[q] = "have" => at[q] = "have"
      PROVE  FlagInv'
  <2>1. b[p] \in Buf /\ valid[b[p]]
    BY <1>0, <1>3, PlaceLemma DEF FlagInv
  <2>2. /\ dirty'[b[p]]
        /\ \A j \in Buf \ {b[p]} : dirty'[j] = dirty[j] /\ data'[j] = data[j]
    BY <1>0, <1>3, <2>1 DEF TypeOK
  <2> QED BY <1>0, <1>3, <2>1, <2>2 DEF FlagInv
<1>4. ASSUME NEW p \in Proc, NEW v \in Val, bwriteOwned(p, v) PROVE FlagInv'
  <2>1. \A q \in Proc : at'[q] = "have" => at[q] = "have"
    BY <1>0, <1>4 DEF bwriteOwned, Goto, TypeOK
  <2> QED BY <1>3, <1>4, <2>1, Zenon DEF bwriteOwned
<1>5. ASSUME NEW p \in Proc, NEW v \in Val, log_write(p, v) PROVE FlagInv'
  BY <1>3, <1>5, Zenon DEF log_write
<1>6. ASSUME NEW p \in Proc, acquiresleep(p) \/ breadHit(p) \/ breadMiss(p) PROVE FlagInv'
  BY <1>0, <1>1, <1>6 DEF acquiresleep, breadHit, breadMiss, bufs, Goto, TypeOK
<1>7. ASSUME NEW p \in Proc, brelseOwned(p) \/ brelseRef(p) PROVE FlagInv'
  BY <1>0, <1>1, <1>7, ZenonT(30) DEF brelseOwned, brelseRef, wakeup, bufs, Goto, TypeOK
<1>8. ASSUME NEW p \in Proc, NEW k \in Block, bgetHit(p, k) \/ NoBuffers(p, k)
      PROVE  FlagInv'
  BY <1>0, <1>1, <1>8 DEF bgetHit, NoBuffers, bufs, Goto, TypeOK
<1>9. ASSUME NEW p \in Proc, NEW k \in Block, NEW i \in Buf, Recycle(p, k, i) PROVE FlagInv'
  <2>1. /\ ~valid'[i] /\ ~dirty'[i] /\ UNCHANGED <<data, disk>>
        /\ \A j \in Buf \ {i} : /\ valid'[j] = valid[j] /\ dirty'[j] = dirty[j]
                                /\ blockno'[j] = blockno[j]
        /\ at'[p] = "lock" /\ \A q \in Proc \ {p} : at'[q] = at[q] /\ b'[q] = b[q]
    BY <1>0, <1>9 DEF Recycle, Goto, TypeOK
  <2>2. \A q \in Proc : b[q] # i
    BY <1>0, <1>9, Zenon DEF Recycle, Recyclable, IInv, FreeInv
  <2>3. ASSUME NEW q \in Proc, at'[q] = "have" PROVE valid'[b'[q]]
    <3>1. q # p /\ at[q] = "have" /\ b'[q] = b[q]
      BY <2>1, <2>3
    <3>2. b[q] \in Buf /\ valid[b[q]]
      BY <1>0, <3>1, PlaceLemma DEF FlagInv
    <3> QED BY <2>1, <2>2, <3>1, <3>2
  <2>4. \A j \in Buf : /\ dirty'[j] => valid'[j]
                       /\ valid'[j] => blockno'[j] \in Block
                       /\ valid'[j] /\ ~dirty'[j] => data'[j] = disk'[blockno'[j]]
    BY <1>0, <2>1 DEF FlagInv
  <2> QED BY <2>3, <2>4, Zenon DEF FlagInv
<1> QED
  BY <1>2, <1>4, <1>5, <1>6, <1>7, <1>8, <1>9, StepLemma

-----------------------------------------------------------------------------
\* The contents of block k, given the fields of the buffers and the disk.
ContentAt(no, ok, d, dk, k) ==
  LET C == {i \in Buf : no[i] = k}
  IN  IF \E i \in C : ok[i] THEN d[CHOOSE i \in C : ok[i]] ELSE dk[k]

\* The contents of a block that is in a valid buffer, and of one that is not.
LEMMA ContentLemma ==
  ASSUME NEW no, NEW ok, NEW d, NEW dk, NEW k \in Block,
         \A i, j \in Buf : no[i] \in Block /\ no[i] = no[j] => i = j
  PROVE  /\ \A i \in Buf : no[i] = k /\ ok[i] => ContentAt(no, ok, d, dk, k) = d[i]
         /\ (\A i \in Buf : no[i] = k => ~ok[i]) => ContentAt(no, ok, d, dk, k) = dk[k]
<1> DEFINE C == {i \in Buf : no[i] = k}
<1>1. ASSUME NEW i \in Buf, no[i] = k, ok[i] PROVE ContentAt(no, ok, d, dk, k) = d[i]
  <2>1. C = {i}
    BY <1>1
  <2>2. (CHOOSE j \in C : ok[j]) = i /\ \E j \in C : ok[j]
    BY <1>1, <2>1
  <2> QED BY <2>2 DEF ContentAt
<1>2. ASSUME \A i \in Buf : no[i] = k => ~ok[i] PROVE ContentAt(no, ok, d, dk, k) = dk[k]
  <2>1. ~\E i \in C : ok[i]
    BY <1>2
  <2> QED BY <2>1 DEF ContentAt
<1> QED BY <1>1, <1>2

\* What the invariant says of the buffer that bread() returns.
LEMMA RightLemma ==
  ASSUME IInv
  PROVE  RightBlock
<1> SUFFICES ASSUME NEW p \in Proc, at[p] = "have"
             PROVE  /\ Cached(want[p]) = {b[p]}
                    /\ valid[b[p]]
                    /\ data[b[p]] = Content[want[p]]
  BY DEF RightBlock
<1>0. OneBuf
  BY DEF IInv
<1>1. b[p] \in Buf /\ blockno[b[p]] = want[p] /\ want[p] \in Block /\ valid[b[p]]
  BY DEF IInv, PlaceInv, FlagInv
<1>2. Cached(want[p]) = {b[p]}
  BY <1>0, <1>1 DEF Cached, OneBuf
<1>3. Content[want[p]] = data[b[p]]
  <2>1. ContentAt(blockno, valid, data, disk, want[p]) = data[b[p]]
    BY <1>0, <1>1, ContentLemma DEF OneBuf
  <2> QED BY <1>1, <2>1 DEF Content, ContentAt, Cached
<1> QED BY <1>1, <1>2, <1>3

\* The holder of block k, given what processes want and where they are.
HoldsAt(w, a, p, k) == w[p] = k /\ a[p] \in {"bread", "disk", "have"}
HolderAt(w, a, k) ==
  IF \E p \in Proc : HoldsAt(w, a, p, k) THEN CHOOSE p \in Proc : HoldsAt(w, a, p, k)
  ELSE NoProc

\* A block with one holder, and one with none.
LEMMA HolderLemma ==
  ASSUME NEW w, NEW a, NEW k,
         \A p, q \in Proc : HoldsAt(w, a, p, k) /\ HoldsAt(w, a, q, k) => p = q
  PROVE  /\ \A p \in Proc : HoldsAt(w, a, p, k) => HolderAt(w, a, k) = p
         /\ (\A p \in Proc : ~HoldsAt(w, a, p, k)) => HolderAt(w, a, k) = NoProc
<1>1. ASSUME NEW p \in Proc, HoldsAt(w, a, p, k) PROVE HolderAt(w, a, k) = p
  <2>1. HoldsAt(w, a, CHOOSE q \in Proc : HoldsAt(w, a, q, k), k)
        /\ (CHOOSE q \in Proc : HoldsAt(w, a, q, k)) \in Proc
    BY <1>1
  <2> QED BY <1>1, <2>1 DEF HolderAt
<1> QED BY <1>1 DEF HolderAt

\* Two processes never hold one block: it is in one buffer, whose lock has one owner.
LEMMA OneHolder ==
  ASSUME IInv, NEW k \in Block, NEW p \in Proc, NEW q \in Proc,
         HoldsAt(want, at, p, k), HoldsAt(want, at, q, k)
  PROVE  p = q
<1>1. /\ b[p] \in Buf /\ blockno[b[p]] = k
      /\ b[q] \in Buf /\ blockno[b[q]] = k
  BY DEF IInv, PlaceInv, HoldsAt
<1>2. b[p] = b[q]
  BY <1>1 DEF IInv, OneBuf
<1> QED BY <1>1, <1>2 DEF IInv, LockInv, HoldsAt

\* Every step of the cache is a step of the block store, or none.
LEMMA StoreStep ==
  ASSUME IInv, IInv', [Next]_vars
  PROVE  [Store!Next]_(Store!bvars)
<1>0. TypeOK /\ OneBuf /\ FlagInv /\ TypeOK' /\ OneBuf' /\ FlagInv'
  BY DEF IInv
<1>t. /\ at \in [Proc -> {"idle", "lock", "asleep", "bread", "disk", "have", "unlocked"}]
      /\ want \in [Proc -> Block \cup {NoBlock}]
  BY <1>0 DEF TypeOK
<1>1. /\ Content = [k \in Block |-> ContentAt(blockno, valid, data, disk, k)]
      /\ Content' = [k \in Block |-> ContentAt(blockno', valid', data', disk', k)]
      /\ Holder = [k \in Block |-> HolderAt(want, at, k)]
      /\ Holder' = [k \in Block |-> HolderAt(want', at', k)]
  BY DEF Content, ContentAt, Cached, Holder, HolderAt, Holds, HoldsAt
\* Contents and holders, before and after.
<1>2. ASSUME NEW k \in Block, NEW i \in Buf, blockno[i] = k, valid[i] PROVE Content[k] = data[i]
  <2>1. ContentAt(blockno, valid, data, disk, k) = data[i]
    BY <1>0, <1>2, ContentLemma DEF OneBuf
  <2> QED BY <1>1, <2>1
<1>3. ASSUME NEW k \in Block, \A i \in Buf : blockno[i] = k => ~valid[i]
      PROVE  Content[k] = disk[k]
  <2>1. ContentAt(blockno, valid, data, disk, k) = disk[k]
    BY <1>0, <1>3, ContentLemma DEF OneBuf
  <2> QED BY <1>1, <2>1
<1>4. ASSUME NEW k \in Block, NEW i \in Buf, blockno'[i] = k, valid'[i]
      PROVE  Content'[k] = data'[i]
  <2>1. ContentAt(blockno', valid', data', disk', k) = data'[i]
    BY <1>0, <1>4, ContentLemma DEF OneBuf
  <2> QED BY <1>1, <2>1
<1>5. ASSUME NEW k \in Block, \A i \in Buf : blockno'[i] = k => ~valid'[i]
      PROVE  Content'[k] = disk'[k]
  <2>1. ContentAt(blockno', valid', data', disk', k) = disk'[k]
    BY <1>0, <1>5, ContentLemma DEF OneBuf
  <2> QED BY <1>1, <2>1
<1>6. ASSUME NEW k \in Block
      PROVE  /\ \A p \in Proc : HoldsAt(want, at, p, k) => Holder[k] = p
             /\ (\A p \in Proc : ~HoldsAt(want, at, p, k)) => Holder[k] = NoProc
  BY <1>1, HolderLemma, OneHolder
<1>7. ASSUME NEW k \in Block
      PROVE  /\ \A p \in Proc : HoldsAt(want', at', p, k) => Holder'[k] = p
             /\ (\A p \in Proc : ~HoldsAt(want', at', p, k)) => Holder'[k] = NoProc
  <2>1. ASSUME NEW p \in Proc, NEW q \in Proc, HoldsAt(want', at', p, k), HoldsAt(want', at', q, k)
        PROVE  p = q
    <3>1. /\ b'[p] \in Buf /\ blockno'[b'[p]] = k
          /\ b'[q] \in Buf /\ blockno'[b'[q]] = k
      BY <2>1 DEF IInv, PlaceInv, HoldsAt
    <3>2. b'[p] = b'[q]
      BY <1>0, <3>1 DEF OneBuf
    <3> QED BY <2>1, <3>1, <3>2 DEF IInv, LockInv, HoldsAt
  <2> QED BY <1>1, <2>1, HolderLemma
\* Steps that no other process can tell.
<1>8. ASSUME \A q \in Proc, k \in Block : HoldsAt(want', at', q, k) <=> HoldsAt(want, at, q, k)
      PROVE  Holder' = Holder
  <2>1. ASSUME NEW k \in Block PROVE Holder'[k] = Holder[k]
    <3>1. CASE \E q \in Proc : HoldsAt(want, at, q, k)
      BY <1>6, <1>7, <1>8, <3>1
    <3>2. CASE \A q \in Proc : ~HoldsAt(want, at, q, k)
      BY <1>6, <1>7, <1>8, <3>2
    <3> QED BY <3>1, <3>2
  <2> QED BY <1>1, <2>1
<1>9. ASSUME UNCHANGED <<blockno, valid, data, disk>> PROVE Content' = Content
  BY <1>1, <1>9
<1>10. ASSUME NEW p \in Proc, NEW v \in Val, at[p] = "have",
              data' = [data EXCEPT ![b[p]] = v], UNCHANGED <<blockno, valid, disk, want>>,
              at'[p] \in {"disk", "have"}, \A q \in Proc \ {p} : at'[q] = at[q]
       PROVE  Store!Write(p, want[p], v)
  <2>1. b[p] \in Buf /\ blockno[b[p]] = want[p] /\ want[p] \in Block /\ valid[b[p]]
    BY <1>0, <1>10, ZenonT(30) DEF IInv, PlaceInv, FlagInv
  <2>2. Holder' = Holder
    BY <1>8, <1>10 DEF HoldsAt
  <2>3. Holder[want[p]] = p
    BY <1>6, <1>10, <2>1, ZenonT(30) DEF HoldsAt
  <2>4. Content'[want[p]] = v
    <3>1. data'[b[p]] = v
      BY <1>0, <1>10, <2>1 DEF TypeOK
    <3> QED BY <1>4, <1>10, <2>1, <3>1
  <2>5. ASSUME NEW k \in Block, k # want[p] PROVE Content'[k] = Content[k]
    <3>1. CASE \E i \in Buf : blockno[i] = k /\ valid[i]
      <4>1. PICK i \in Buf : blockno[i] = k /\ valid[i]
        BY <3>1
      <4>2. i # b[p]
        BY <2>1, <2>5, <4>1
      <4>3. data'[i] = data[i]
        BY <1>0, <1>10, <4>2 DEF TypeOK
      <4> QED BY <1>2, <1>4, <1>10, <4>1, <4>3, ZenonT(30)
    <3>2. CASE \A i \in Buf : blockno[i] = k => ~valid[i]
      BY <1>3, <1>5, <1>10, <3>2, ZenonT(30)
    <3> QED BY <3>1, <3>2
  <2>6. Content' = [Content EXCEPT ![want[p]] = v]
    BY <1>1, <2>4, <2>5
  <2> QED BY <2>2, <2>3, <2>6 DEF Store!Write
<1>11. ASSUME NEW p \in Proc, NEW v \in Val, bwriteOwned(p, v) \/ log_write(p, v)
       PROVE  Store!Write(p, want[p], v) /\ want[p] \in Block
  <2>1. /\ at[p] = "have" /\ data' = [data EXCEPT ![b[p]] = v]
        /\ UNCHANGED <<blockno, valid, disk, want>>
    BY <1>11 DEF bwriteOwned, log_write
  <2>2. at'[p] \in {"disk", "have"} /\ \A q \in Proc \ {p} : at'[q] = at[q]
    BY <1>0, <1>11 DEF bwriteOwned, log_write, Goto, TypeOK
  <2>3. want[p] \in Block
    BY <2>1, ZenonT(30) DEF IInv, PlaceInv
  <2> QED BY <1>10, <2>1, <2>2, <2>3, ZenonT(30)
<1>12. ASSUME NEW p \in Proc, acquiresleep(p), ~panicked
       PROVE  UNCHANGED <<Content, Holder>> \/ (Store!Lock(p, want[p]) /\ want[p] \in Block)
  <2>1. /\ at[p] = "lock" /\ want' = want
        /\ UNCHANGED <<blockno, valid, data, disk>>
    BY <1>12 DEF acquiresleep, bufs
  <2>2. Content' = Content
    BY <1>9, <2>1
  <2>3. CASE owner[b[p]] # NoProc
    <3>1. at'[p] = "asleep" /\ \A q \in Proc \ {p} : at'[q] = at[q]
      BY <1>0, <1>12, <2>3 DEF acquiresleep, Goto, TypeOK
    <3>2. Holder' = Holder
      BY <1>8, <2>1, <3>1 DEF HoldsAt
    <3> QED BY <2>2, <3>2
  <2>4. CASE owner[b[p]] = NoProc
    <3> DEFINE k == want[p]
    <3>1. at'[p] = "bread" /\ \A q \in Proc \ {p} : at'[q] = at[q]
      BY <1>0, <1>12, <2>4 DEF acquiresleep, Goto, TypeOK
    <3>2. b[p] \in Buf /\ blockno[b[p]] = k /\ k \in Block
      BY <1>12, <2>1, PlaceLemma
    <3>3. ASSUME NEW q \in Proc, HoldsAt(want, at, q, k) PROVE FALSE
      <4>1. b[q] \in Buf /\ blockno[b[q]] = k
        BY <3>3 DEF IInv, PlaceInv, HoldsAt
      <4>2. b[q] = b[p]
        BY <1>0, <3>2, <4>1 DEF OneBuf
      <4>3. owner[b[p]] = q
        BY <3>2, <3>3, <4>2 DEF IInv, LockInv, HoldsAt
      <4> QED BY <2>4, <4>3, BufAssumption
    <3>4. Holder[k] = NoProc
      BY <1>6, <3>2, <3>3
    <3>5. Holder'[k] = p
      BY <1>7, <2>1, <3>1, <3>2 DEF HoldsAt
    <3>6. ASSUME NEW l \in Block, l # k PROVE Holder'[l] = Holder[l]
      <4>1. \A q \in Proc : HoldsAt(want', at', q, l) <=> HoldsAt(want, at, q, l)
        BY <2>1, <3>1, <3>6 DEF HoldsAt
      <4> QED BY <1>6, <1>7, <4>1
    <3>7. Holder' = [Holder EXCEPT ![k] = p]
      BY <1>1, <3>5, <3>6
    <3> QED BY <2>2, <3>2, <3>4, <3>7 DEF Store!Lock
  <2> QED BY <2>3, <2>4
<1>13. ASSUME NEW p \in Proc, brelseOwned(p)
       PROVE  Store!Unlock(p, want[p]) /\ want[p] \in Block
  <2> DEFINE k == want[p]
  <2>1. /\ at[p] = "have" /\ want' = want
        /\ UNCHANGED <<blockno, valid, data, disk>>
    BY <1>13 DEF brelseOwned, bufs
  <2>2. Content' = Content
    BY <1>9, <2>1
  <2>3. /\ at'[p] = "unlocked"
        /\ \A q \in Proc \ {p} : at'[q] = at[q] \/ (at[q] = "asleep" /\ at'[q] = "lock")
    BY <1>0, <1>13 DEF brelseOwned, wakeup, TypeOK
  <2>4. k \in Block
    BY <2>1, ZenonT(30) DEF IInv, PlaceInv
  <2>5. Holder[k] = p
    BY <1>6, <2>1, <2>4 DEF HoldsAt
  <2>6. ASSUME NEW q \in Proc PROVE ~HoldsAt(want', at', q, k)
    <3>1. CASE q = p
      BY <2>3, <3>1 DEF HoldsAt
    <3>2. CASE q # p
      <4>1. ~HoldsAt(want, at, q, k)
        BY <1>6, <2>4, <2>5, <3>2
      <4> QED BY <2>1, <2>3, <3>2, <4>1 DEF HoldsAt
    <3> QED BY <3>1, <3>2
  <2>7. Holder'[k] = NoProc
    BY <1>7, <2>4, <2>6
  <2>8. ASSUME NEW l \in Block, l # k PROVE Holder'[l] = Holder[l]
    <3>1. \A q \in Proc : HoldsAt(want', at', q, l) <=> HoldsAt(want, at, q, l)
      BY <2>1, <2>3, <2>8, Zenon DEF HoldsAt
    <3> QED BY <1>6, <1>7, <3>1, ZenonT(30)
  <2>9. Holder' = [Holder EXCEPT ![k] = NoProc]
    BY <1>1, <2>7, <2>8
  <2> QED BY <2>2, <2>4, <2>5, <2>9 DEF Store!Unlock
<1>14. ASSUME NEW p \in Proc, breadHit(p) \/ breadMiss(p) \/ brelseRef(p)
       PROVE  UNCHANGED <<Content, Holder>>
  <2>1. UNCHANGED <<blockno, valid, data, disk>>
    BY <1>14 DEF breadHit, breadMiss, brelseRef, bufs
  <2>2. CASE breadHit(p) \/ breadMiss(p)
    <3>1. /\ at[p] = "bread" /\ want' = want
          /\ at' = [at EXCEPT ![p] = "have"] \/ at' = [at EXCEPT ![p] = "disk"]
      BY <2>2 DEF breadHit, breadMiss, Goto
    <3>2. \A q \in Proc, k \in Block : HoldsAt(want', at', q, k) <=> HoldsAt(want, at, q, k)
      BY <1>t, <3>1 DEF HoldsAt
    <3> QED BY <1>8, <1>9, <2>1, <3>2
  <2>3. CASE brelseRef(p)
    <3>1. /\ at[p] = "unlocked" /\ at' = [at EXCEPT ![p] = "idle"]
          /\ want' = [want EXCEPT ![p] = NoBlock]
      BY <2>3 DEF brelseRef, Goto
    <3>2. \A q \in Proc, k \in Block : HoldsAt(want', at', q, k) <=> HoldsAt(want, at, q, k)
      BY <1>t, <3>1 DEF HoldsAt
    <3> QED BY <1>8, <1>9, <2>1, <3>2
  <2> QED BY <1>14, <2>2, <2>3
<1>15. ASSUME NEW p \in Proc, NEW k \in Block, bgetHit(p, k) \/ NoBuffers(p, k)
       PROVE  UNCHANGED <<Content, Holder>>
  <2>1. UNCHANGED <<blockno, valid, data, disk>>
    BY <1>15 DEF bgetHit, NoBuffers, bufs
  <2>2. /\ at[p] = "idle" /\ at' = [at EXCEPT ![p] = "lock"]
        /\ want' = [want EXCEPT ![p] = k]
    BY <1>15 DEF bgetHit, NoBuffers, Goto
  <2>3. \A q \in Proc, l \in Block : HoldsAt(want', at', q, l) <=> HoldsAt(want, at, q, l)
    BY <1>t, <2>2 DEF HoldsAt
  <2> QED BY <1>8, <1>9, <2>1, <2>3
<1>16. ASSUME NEW p \in Proc, NEW k \in Block, NEW i \in Buf, Recycle(p, k, i)
       PROVE  UNCHANGED <<Content, Holder>>
  <2>1. \A q \in Proc, l \in Block : HoldsAt(want', at', q, l) <=> HoldsAt(want, at, q, l)
    <3>1. /\ at[p] = "idle" /\ at' = [at EXCEPT ![p] = "lock"]
          /\ want' = [want EXCEPT ![p] = k]
      BY <1>16 DEF Recycle, Goto
    <3> QED BY <1>t, <3>1 DEF HoldsAt
  <2>2. /\ ~valid'[i] /\ blockno'[i] = k /\ ~dirty[i] /\ UNCHANGED <<data, disk>>
        /\ \A j \in Buf \ {i} : valid'[j] = valid[j] /\ blockno'[j] = blockno[j]
        /\ \A j \in Buf : blockno[j] # k
    BY <1>0, <1>16 DEF Recycle, Recyclable, Cached, TypeOK
  <2>3. ASSUME NEW l \in Block PROVE Content'[l] = Content[l]
    <3>1. CASE \E j \in Buf \ {i} : blockno[j] = l /\ valid[j]
      <4>1. PICK j \in Buf \ {i} : blockno[j] = l /\ valid[j]
        BY <3>1
      <4>2. Content[l] = data[j]
        BY <1>2, <4>1
      <4>3. Content'[l] = data'[j]
        BY <1>4, <2>2, <4>1
      <4> QED BY <2>2, <4>2, <4>3, Zenon
    <3>2. CASE \A j \in Buf \ {i} : blockno[j] = l => ~valid[j]
      <4>1. Content'[l] = disk'[l]
        BY <1>5, <2>2, <3>2
      <4>2. CASE blockno[i] = l /\ valid[i]
        <5>1. Content[l] = data[i]
          BY <1>2, <4>2
        <5>2. data[i] = disk[l]
          BY <1>0, <2>2, <4>2 DEF FlagInv
        <5> QED BY <2>2, <4>1, <5>1, <5>2
      <4>3. CASE ~(blockno[i] = l /\ valid[i])
        <5>1. Content[l] = disk[l]
          BY <1>3, <3>2, <4>3
        <5> QED BY <2>2, <4>1, <5>1
      <4> QED BY <4>2, <4>3
    <3> QED BY <3>1, <3>2
  <2>4. Content' = Content
    BY <1>1, <2>3
  <2> QED BY <1>8, <2>1, <2>4
<1>17. ASSUME NEW p \in Proc, NEW i \in Buf, Served(p, i), ~panicked
       PROVE  UNCHANGED <<Content, Holder>>
  <2>1. \A q \in Proc, l \in Block : HoldsAt(want', at', q, l) <=> HoldsAt(want, at, q, l)
    <3>1. at[p] = "disk" /\ at' = [at EXCEPT ![p] = "have"] /\ want' = want
      BY <1>17 DEF Served, Goto
    <3> QED BY <1>t, <3>1 DEF HoldsAt
  <2>2. blockno[i] \in Block
    BY <1>17, PlaceLemma, ZenonT(30) DEF Served
  <2>3. /\ valid'[i] /\ \A j \in Buf \ {i} : valid'[j] = valid[j]
        /\ blockno' = blockno
    BY <1>0, <1>17, ZenonT(30) DEF Served, TypeOK
  <2>4. Content'[blockno[i]] = Content[blockno[i]]
    <3>1. Content'[blockno[i]] = data'[i]
      BY <1>4, <2>2, <2>3
    <3>2. CASE dirty[i]
      <4>1. valid[i] /\ data' = data
        BY <1>0, <1>17, <2>2, <3>2, ServedLemma, Zenon DEF FlagInv
      <4> QED BY <1>2, <2>2, <3>1, <4>1
    <3>3. CASE ~dirty[i]
      <4>1. data'[i] = disk[blockno[i]]
        BY <1>0, <1>17, <2>2, <3>3, ServedLemma, Zenon
      <4>2. CASE valid[i]
        <5>1. Content[blockno[i]] = data[i] /\ data[i] = disk[blockno[i]]
          BY <1>0, <1>2, <2>2, <3>3, <4>2 DEF FlagInv
        <5> QED BY <3>1, <4>1, <5>1
      <4>3. CASE ~valid[i]
        <5>1. \A j \in Buf : blockno[j] = blockno[i] => ~valid[j]
          BY <1>0, <2>2, <4>3 DEF OneBuf
        <5>2. Content[blockno[i]] = disk[blockno[i]]
          BY <1>3, <2>2, <5>1
        <5> QED BY <3>1, <4>1, <5>2
      <4> QED BY <4>2, <4>3
    <3> QED BY <3>2, <3>3
  <2>5. ASSUME NEW l \in Block, l # blockno[i] PROVE Content'[l] = Content[l]
    <3>1. CASE \E j \in Buf : blockno[j] = l /\ valid[j]
      <4>1. PICK j \in Buf : blockno[j] = l /\ valid[j]
        BY <3>1
      <4>2. j # i /\ valid'[j] /\ blockno'[j] = l
        BY <2>3, <2>5, <4>1
      <4>3. data'[j] = data[j]
        BY <1>0, <1>17, <2>2, <4>2, ServedLemma
      <4>4. Content[l] = data[j]
        BY <1>2, <4>1
      <4>5. Content'[l] = data'[j]
        BY <1>4, <4>2
      <4> QED BY <4>3, <4>4, <4>5
    <3>2. CASE \A j \in Buf : blockno[j] = l => ~valid[j]
      <4>1. \A j \in Buf : blockno'[j] = l => ~valid'[j]
        BY <2>3, <2>5, <3>2
      <4>2. disk'[l] = disk[l]
        BY <1>0, <1>17, <2>2, <2>5, ServedLemma
      <4>3. Content[l] = disk[l]
        BY <1>3, <3>2
      <4>4. Content'[l] = disk'[l]
        BY <1>5, <4>1
      <4> QED BY <4>2, <4>3, <4>4
    <3> QED BY <3>1, <3>2
  <2>6. Content' = Content
    BY <1>1, <2>4, <2>5
  <2> QED BY <1>8, <2>1, <2>6
<1>18. CASE UNCHANGED vars
  BY <1>1, <1>18 DEF vars, Store!bvars
<1>19. CASE Next
  <2>1. \A p \in Proc, k \in Block : Store!Lock(p, k) => Store!Next
    BY DEF Store!Next
  <2>2. \A p \in Proc, k \in Block : Store!Unlock(p, k) => Store!Next
    BY DEF Store!Next
  <2>3. \A p \in Proc, k \in Block, v \in Val : Store!Write(p, k, v) => Store!Next
    BY DEF Store!Next
  <2>4. UNCHANGED <<Content, Holder>> => UNCHANGED Store!bvars
    BY DEF Store!bvars
  <2>5. UNCHANGED <<Content, Holder>> \/ Store!Next
    BY <1>11, <1>12, <1>13, <1>14, <1>15, <1>16, <1>17, <1>19, <2>1, <2>2, <2>3, StepLemma
  <2> QED BY <2>4, <2>5
<1> QED BY <1>18, <1>19

-----------------------------------------------------------------------------
\* What follows counts processes and buffers.
INSTANCE FiniteSetTheorems

\* The buffers are NBUF many.
LEMMA BufLemma == IsFiniteSet(Buf) /\ Cardinality(Buf) = NBUF
<1>1. NBUF \in Nat \ {0}
  BY BufAssumption
<1>2. IsFiniteSet(1 .. NBUF) /\ Cardinality(1 .. NBUF) = NBUF
  BY <1>1, FS_Interval
<1> QED BY <1>2 DEF Buf

\* The processes that a map takes to buffer i are finitely many, and none if their
\* number is zero.
LEMMA CountLemma ==
  ASSUME NEW f, NEW i
  PROVE  LET U == {p \in Proc : f[p] = i}
         IN  IsFiniteSet(U) /\ (Cardinality(U) = 0 <=> \A p \in Proc : f[p] # i)
<1> DEFINE U == {p \in Proc : f[p] = i}
<1>1. U \in SUBSET Proc /\ IsFiniteSet(Proc)
  BY BufAssumption
<1>2. U = {} <=> \A p \in Proc : f[p] # i
  OBVIOUS
<1> HIDE DEF U
<1>3. IsFiniteSet(U)
  BY <1>1, FS_Subset
<1>4. Cardinality(U) = 0 <=> U = {}
  BY <1>3, FS_EmptySet
<1>5. IsFiniteSet(U) /\ (Cardinality(U) = 0 <=> \A p \in Proc : f[p] # i)
  BY <1>2, <1>3, <1>4
<1> QED BY <1>5 DEF U

\* The users of a buffer are finitely many; a buffer that is not referenced has none.
LEMMA UsesLemma ==
  ASSUME TypeOK, RefInv, NEW i \in Buf
  PROVE  /\ IsFiniteSet(Uses(i))
         /\ refcnt[i] \in Nat
         /\ refcnt[i] = 0 <=> \A p \in Proc : b[p] # i
<1>1. refcnt[i] \in Nat /\ refcnt[i] = Cardinality(Uses(i))
  BY DEF TypeOK, RefInv
<1>2. IsFiniteSet(Uses(i)) /\ (Cardinality(Uses(i)) = 0 <=> \A p \in Proc : b[p] # i)
  BY CountLemma, Zenon DEF Uses
<1> QED BY <1>1, <1>2

\* What FreeInv says follows from the number of references.
LEMMA FreeLemma ==
  ASSUME NEW f, NEW r, \A i \in Buf : r[i] = Cardinality({p \in Proc : f[p] = i})
  PROVE  \A p \in Proc, i \in Buf : f[p] = i => r[i] # 0
<1> SUFFICES ASSUME NEW p \in Proc, NEW i \in Buf, f[p] = i PROVE r[i] # 0
  OBVIOUS
<1>1. Cardinality({q \in Proc : f[q] = i}) = 0 <=> \A q \in Proc : f[q] # i
  BY CountLemma, Zenon
<1> QED BY <1>1

\* binit() makes buffers of no block that nobody uses.
LEMMA InitIInv == Init => IInv
<1> SUFFICES ASSUME Init PROVE IInv
  OBVIOUS
<1>0. \A i \in Buf : NBUF + 1 - i \in Buf /\ NBUF + 1 - (NBUF + 1 - i) = i
  BY BufAssumption DEF Buf
<1>1. TypeOK
  <2>1. lru \in [Buf -> Buf]
    BY <1>0 DEF Init
  <2>2. idequeue \in Seq(Buf)
    BY DEF Init
  <2>3. data \in [Buf -> Val]
    BY DEF Init
  <2> QED BY <2>1, <2>2, <2>3, Zenon DEF Init, TypeOK
<1>2. PlaceInv /\ LockInv
  BY BufAssumption, NoBufLemma DEF Init, PlaceInv, LockInv
<1>3. OneBuf /\ FlagInv
  BY BufAssumption DEF Init, OneBuf, FlagInv
<1>4. RefInv
  <2>1. \A i \in Buf : Uses(i) = {}
    BY NoBufLemma DEF Init, Uses
  <2> QED BY <2>1, FS_EmptySet, Zenon DEF Init, RefInv
<1>f. FreeInv
  BY NoBufLemma DEF Init, FreeInv
<1>5. QueueInv
  <2>1. Len(idequeue) = 0
    BY DEF Init
  <2> QED BY <2>1 DEF QueueInv
<1>6. LruInv
  BY <1>0 DEF Init, LruInv
<1>7. PinInv
  <2>1. Pinned = {}
    BY DEF Init, Pinned
  <2> QED BY <2>1, FS_EmptySet, BufAssumption DEF PinInv
<1> QED BY <1>1, <1>2, <1>3, <1>4, <1>5, <1>6, <1>7, <1>f DEF IInv

\* Steps that leave the reference counts alone, and those that count a process in
\* or out.
LEMMA RefStep ==
  ASSUME IInv, Next
  PROVE  RefInv'
<1>0. TypeOK /\ RefInv /\ ~panicked
  BY DEF IInv, Next
<1>1. CASE UNCHANGED <<refcnt, b>>
  BY <1>0, <1>1 DEF RefInv, Uses
<1>2. ASSUME NEW p \in Proc, NEW i \in Buf, at[p] = "idle", b' = [b EXCEPT ![p] = i],
             refcnt' = [refcnt EXCEPT ![i] = @ + 1]
      PROVE  RefInv'
  <2>1. b[p] = NoBuf /\ p \notin Uses(i)
    BY <1>2, NoBufLemma DEF IInv, PlaceInv, Uses
  <2>2. Uses(i)' = Uses(i) \cup {p}
    BY <1>0, <1>2 DEF Uses, TypeOK
  <2>3. Cardinality(Uses(i)') = Cardinality(Uses(i)) + 1
    BY <1>0, <2>1, <2>2, UsesLemma, FS_AddElement, Zenon
  <2>4. \A j \in Buf \ {i} : Uses(j)' = Uses(j)
    BY <1>0, <1>2, <2>1, NoBufLemma DEF Uses, TypeOK
  <2> QED BY <1>0, <1>2, <2>3, <2>4 DEF RefInv, TypeOK
<1>3. ASSUME NEW p \in Proc, NEW k \in Block, bgetHit(p, k) PROVE RefInv'
  <2>1. PICK i \in Buf : /\ refcnt' = [refcnt EXCEPT ![i] = @ + 1]
                         /\ b' = [b EXCEPT ![p] = i]
    BY <1>3, Zenon DEF bgetHit, Cached
  <2> QED BY <1>2, <1>3, <2>1, Zenon DEF bgetHit
<1>4. ASSUME NEW p \in Proc, NEW k \in Block, NEW i \in Buf, Recycle(p, k, i) PROVE RefInv'
  <2>1. refcnt[i] = 0 /\ refcnt' = [refcnt EXCEPT ![i] = 1]
    BY <1>4 DEF Recycle, Recyclable
  <2>2. refcnt' = [refcnt EXCEPT ![i] = @ + 1]
    BY <1>0, <2>1 DEF TypeOK
  <2> QED BY <1>2, <1>4, <2>2, Zenon DEF Recycle
<1>5. ASSUME NEW p \in Proc, NEW k \in Block, NoBuffers(p, k) PROVE RefInv'
  <2>1. b' = b
    BY <1>0, <1>5 DEF NoBuffers, IInv, PlaceInv, TypeOK
  <2> QED BY <1>1, <1>5, <2>1 DEF NoBuffers, bufs
<1>6. ASSUME NEW p \in Proc, brelseRef(p) PROVE RefInv'
  <2>1. PICK i \in Buf : i = b[p] /\ p \in Uses(i)
    BY <1>0, <1>6, PlaceLemma DEF brelseRef, Uses
  <2>2. b' = [b EXCEPT ![p] = NoBuf] /\ refcnt' = [refcnt EXCEPT ![i] = refcnt[i] - 1]
    BY <1>6, <2>1 DEF brelseRef, Dropped
  <2>3. Uses(i)' = Uses(i) \ {p}
    <3>1. NoBuf # i
      BY NoBufLemma
    <3>2. \A q \in Proc : b'[q] = i <=> b[q] = i /\ q # p
      BY <1>0, <2>1, <2>2, <3>1 DEF TypeOK
    <3> QED BY <3>2 DEF Uses
  <2>4. Cardinality(Uses(i)') = Cardinality(Uses(i)) - 1
    BY <1>0, <2>1, <2>3, UsesLemma, FS_RemoveElement, ZenonT(30)
  <2>5. \A j \in Buf \ {i} : Uses(j)' = Uses(j)
    BY <1>0, <2>1, <2>2, NoBufLemma DEF Uses, TypeOK
  <2>6. ASSUME NEW j \in Buf PROVE refcnt'[j] = Cardinality(Uses(j)')
    <3>1. CASE j = i
      BY <1>0, <2>2, <2>4, <3>1 DEF RefInv, TypeOK
    <3>2. CASE j # i
      BY <1>0, <2>2, <2>5, <3>2 DEF RefInv, TypeOK
    <3> QED BY <3>1, <3>2
  <2> QED BY <2>6 DEF RefInv
<1>7. ASSUME NEW p \in Proc, NEW i \in Buf, Served(p, i) PROVE UNCHANGED <<refcnt, b>>
  BY <1>7, Zenon DEF Served
<1>8. ASSUME NEW p \in Proc, acquiresleep(p) \/ breadHit(p) \/ breadMiss(p) \/ brelseOwned(p)
      PROVE  UNCHANGED <<refcnt, b>>
  BY <1>8, Zenon DEF acquiresleep, breadHit, breadMiss, brelseOwned, bufs
<1>9. ASSUME NEW p \in Proc, NEW v \in Val, bwriteOwned(p, v) \/ log_write(p, v)
      PROVE  UNCHANGED <<refcnt, b>>
  BY <1>9, Zenon DEF bwriteOwned, log_write
<1> QED BY <1>1, <1>3, <1>4, <1>5, <1>6, <1>7, <1>8, <1>9, StepLemma

\* log_write() pins no more buffers than it may, and bwrite() none.
LEMMA PinStep ==
  ASSUME IInv, Next
  PROVE  PinInv'
<1>0. TypeOK /\ PinInv /\ ~panicked /\ FlagInv
  BY DEF IInv, Next
<1>m. MaxPinned \in Nat
  BY BufAssumption
<1>1. ASSUME Pinned' \subseteq Pinned PROVE PinInv'
  <2>1. IsFiniteSet(Pinned) /\ Pinned' \in SUBSET Pinned
    <3>1. Pinned \in SUBSET Buf
      BY DEF Pinned
    <3> QED BY <1>1, <3>1, BufLemma, FS_Subset
  <2>2. IsFiniteSet(Pinned') /\ Cardinality(Pinned') <= Cardinality(Pinned)
    BY <2>1, FS_Subset
  <2>3. Cardinality(Pinned) \in Nat /\ Cardinality(Pinned') \in Nat
    BY <2>1, <2>2, FS_CardinalityType
  <2> QED BY <1>0, <1>m, <2>2, <2>3 DEF PinInv
<1>2. ASSUME \A i \in Buf : dirty'[i] => dirty[i] \/ OnDisk(i)',
             \A q \in Proc : at[q] = "disk" =>
               \/ ~dirty'[b[q]]
               \/ at'[q] = "disk" /\ b'[q] = b[q]
      PROVE  PinInv'
  <2>1. ASSUME NEW i \in Buf, dirty'[i], ~OnDisk(i)' PROVE dirty[i] /\ ~OnDisk(i)
    <3>1. dirty[i]
      BY <1>2, <2>1
    <3>2. ASSUME NEW q \in Proc, at[q] = "disk", b[q] = i PROVE FALSE
      <4>1. at'[q] = "disk" /\ b'[q] = i
        BY <1>2, <2>1, <3>2
      <4> QED BY <2>1, <4>1 DEF OnDisk
    <3> QED BY <3>1, <3>2 DEF OnDisk
  <2>2. Pinned' \subseteq Pinned
    BY <2>1 DEF Pinned
  <2> QED BY <1>1, <2>2
<1>3. ASSUME NEW p \in Proc, NEW i \in Buf, Served(p, i) PROVE PinInv'
  <2>1. /\ ~dirty'[i] /\ \A j \in Buf \ {i} : dirty'[j] = dirty[j]
        /\ b[p] = i /\ b' = b /\ \A q \in Proc \ {p} : at'[q] = at[q]
    BY <1>0, <1>3, ZenonT(30) DEF Served, Goto, TypeOK
  <2> QED BY <1>2, <2>1
<1>4. ASSUME NEW p \in Proc, NEW v \in Val, bwriteOwned(p, v) PROVE PinInv'
  <2>1. /\ b[p] \in Buf /\ at[p] = "have" /\ at'[p] = "disk" /\ b' = b
        /\ \A j \in Buf \ {b[p]} : dirty'[j] = dirty[j]
        /\ \A q \in Proc \ {p} : at'[q] = at[q]
    BY <1>0, <1>4, PlaceLemma DEF bwriteOwned, Goto, TypeOK
  <2>2. \A i \in Buf : dirty'[i] => dirty[i] \/ OnDisk(i)'
    <3>1. ASSUME NEW i \in Buf, dirty'[i], ~dirty[i] PROVE OnDisk(i)'
      <4>1. i = b[p]
        BY <2>1, <3>1
      <4>2. at'[p] = "disk" /\ b'[p] = i
        BY <2>1, <4>1
      <4> QED BY <4>2 DEF OnDisk
    <3> QED BY <3>1
  <2> QED BY <1>2, <2>1, <2>2
<1>5. ASSUME NEW p \in Proc, NEW v \in Val, log_write(p, v) PROVE PinInv'
  <2>1. /\ dirty' = [dirty EXCEPT ![b[p]] = TRUE] /\ b[p] \in Buf /\ UNCHANGED <<at, b>>
        /\ dirty[b[p]] \/ Cardinality({i \in Buf : dirty[i]}) < MaxPinned
    BY <1>0, <1>5, PlaceLemma DEF log_write
  <2>2. CASE dirty[b[p]]
    <3>1. dirty' = dirty
      BY <1>0, <2>1, <2>2 DEF TypeOK
    <3> QED BY <1>2, <2>1, <3>1
  <2>3. CASE Cardinality({i \in Buf : dirty[i]}) < MaxPinned
    <3> DEFINE D == {i \in Buf : dirty[i]}
    <3>1. D \in SUBSET Buf /\ IsFiniteSet(D)
      BY BufLemma, FS_Subset
    <3>2. Pinned' \in SUBSET (D \cup {b[p]})
      BY <1>0, <2>1 DEF Pinned, TypeOK
    <3>3. Cardinality(D) < MaxPinned
      BY <2>3
    <3> HIDE DEF D
    <3>4. /\ IsFiniteSet(D \cup {b[p]})
          /\ Cardinality(D \cup {b[p]}) = IF b[p] \in D THEN Cardinality(D)
                                          ELSE Cardinality(D) + 1
      BY <3>1, FS_AddElement
    <3>5. IsFiniteSet(Pinned') /\ Cardinality(Pinned') <= Cardinality(D \cup {b[p]})
      BY <3>2, <3>4, FS_Subset
    <3>6. Cardinality(D) \in Nat /\ Cardinality(Pinned') \in Nat
      BY <3>1, <3>5, FS_CardinalityType
    <3>7. Cardinality(Pinned') <= MaxPinned
      BY <1>m, <3>3, <3>4, <3>5, <3>6
    <3> QED BY <3>7 DEF PinInv
  <2> QED BY <2>1, <2>2, <2>3
<1>6. ASSUME NEW p \in Proc, acquiresleep(p) \/ breadHit(p) \/ breadMiss(p) PROVE PinInv'
  BY <1>0, <1>2, <1>6 DEF acquiresleep, breadHit, breadMiss, bufs, Goto, TypeOK
<1>7. ASSUME NEW p \in Proc, brelseOwned(p) \/ brelseRef(p) PROVE PinInv'
  BY <1>0, <1>2, <1>7, ZenonT(30) DEF brelseOwned, brelseRef, wakeup, bufs, Goto, TypeOK
<1>8. ASSUME NEW p \in Proc, NEW k \in Block, bgetHit(p, k) \/ NoBuffers(p, k) PROVE PinInv'
  BY <1>0, <1>2, <1>8 DEF bgetHit, NoBuffers, bufs, Goto, TypeOK
<1>9. ASSUME NEW p \in Proc, NEW k \in Block, NEW i \in Buf, Recycle(p, k, i) PROVE PinInv'
  BY <1>0, <1>2, <1>9 DEF Recycle, Goto, TypeOK
<1> QED
  BY <1>3, <1>4, <1>5, <1>6, <1>7, <1>8, <1>9, StepLemma

\* The inductive invariant holds in every reachable state of the cache.
THEOREM Invariance == Spec => []IInv
<1>1. IInv /\ [Next]_vars => IInv'
  <2> SUFFICES ASSUME IInv, [Next]_vars PROVE IInv'
    OBVIOUS
  <2>1. CASE UNCHANGED vars
    BY <2>1, StutterLemma
  <2>2. CASE Next
    <3>1. TypeOK' /\ LruInv'
      BY <2>2, TypeStep
    <3>2. PlaceInv' /\ LockInv' /\ OneBuf'
      BY <2>2, <3>1, PlaceStep
    <3>3. RefInv' /\ QueueInv' /\ FlagInv' /\ PinInv'
      BY <2>2, RefStep, QueueStep, FlagStep, PinStep
    <3>4. FreeInv'
      BY <3>3, FreeLemma DEF RefInv, Uses, FreeInv
    <3> QED BY <3>1, <3>2, <3>3, <3>4 DEF IInv
  <2> QED BY <2>1, <2>2
<1> QED BY <1>1, InitIInv, PTL DEF Spec

\* The fields of struct buf, the list and the disk queue keep their types; refcnt
\* never goes below zero in brelse().
THEOREM BufTypes == Spec => []TypeOK
BY Invariance, PTL DEF IInv

\* bread() returns a buffer of the block it was asked for, the only one, with the
\* block's contents, for any number of processes, buffers and blocks.
THEOREM BufRightBlock == Spec => []RightBlock
BY RightLemma, Invariance, PTL

\* A process asleep in acquiresleep() waits for an owner, and its buffer still
\* has the block it asked for.
THEOREM BufSleeperSafe == Spec => []SleeperSafe
<1>1. IInv => SleeperSafe
  <2> SUFFICES ASSUME IInv, NEW p \in Proc, at[p] = "asleep"
               PROVE  owner[b[p]] # NoProc /\ blockno[b[p]] = want[p] /\ refcnt[b[p]] > 0
    BY DEF SleeperSafe
  <2>1. b[p] \in Buf /\ blockno[b[p]] = want[p] /\ owner[b[p]] # NoProc
    BY DEF IInv, PlaceInv, LockInv
  <2>2. refcnt[b[p]] \in Nat /\ refcnt[b[p]] # 0
    BY <2>1 DEF IInv, FreeInv, TypeOK
  <2> QED BY <2>1, <2>2
<1> QED BY <1>1, Invariance, PTL

-----------------------------------------------------------------------------
\* A finite set of numbers that is not empty has a greatest element.
LEMMA GreatestLemma ==
  ASSUME NEW J, J \subseteq Int, IsFiniteSet(J), J # {}
  PROVE  \E j \in J : \A k \in J : k <= j
<1> DEFINE Above(j) == {k \in J : k > j}
           T == {Above(j) : j \in J}
           R == StrictSubsetOrdering(J)
<1>1. IsWellFoundedOn(R, SUBSET J)
  BY FS_StrictSubsetOrderingWellFounded, FS_FiniteSubsetsOfFinite, Zenon
<1>2. T \subseteq SUBSET J /\ T # {}
  BY Zenon
<1>3. PICK x \in T : \A y \in T : ~(<<y, x>> \in R)
  <2> HIDE DEF T, R
  <2> QED BY <1>1, <1>2, WFMin, Zenon
<1>4. PICK j \in J : x = Above(j)
  OBVIOUS
<1>5. ASSUME NEW k \in J, k > j PROVE FALSE
  <2>1. Above(k) \in T /\ Above(k) \in SUBSET J /\ x \in SUBSET J
    BY <1>4, Zenon
  <2>2. \A l \in J : l > k => l > j
    BY <1>5
  <2>3. Above(k) \subseteq x
    BY <1>4, <2>2, Zenon
  <2>4. k \in x /\ k \notin Above(k)
    BY <1>4, <1>5
  <2>5. Above(k) # x
    BY <2>4
  <2> HIDE DEF Above, T
  <2>6. <<Above(k), x>> \in R
    BY <2>1, <2>3, <2>5, Zenon DEF StrictSubsetOrdering
  <2> QED BY <1>3, <2>1, <2>6
<1> QED BY <1>5

\* The referenced buffers are fewer than the processes while one is idle.
LEMMA UsedLemma ==
  ASSUME IInv, NEW p \in Proc, at[p] = "idle"
  PROVE  LET U == {i \in Buf : refcnt[i] # 0}
         IN  IsFiniteSet(U) /\ Cardinality(U) + 1 <= Cardinality(Proc)
<1> DEFINE U == {i \in Buf : refcnt[i] # 0}
           P == Proc \ {p}
           f == [i \in U |-> CHOOSE q \in Proc : b[q] = i]
<1>1. b[p] \notin Buf
  BY NoBufLemma DEF IInv, PlaceInv
<1>2. ASSUME NEW i \in U PROVE f[i] \in P /\ b[f[i]] = i
  <2>1. \E q \in Proc : b[q] = i
    BY UsesLemma DEF IInv
  <2> QED BY <1>1, <2>1
<1>3. f \in Injection(U, P)
  <2>1. f \in [U -> P]
    BY <1>2, ZenonT(30)
  <2>2. \A i, j \in U : f[i] = f[j] => i = j
    BY <1>2
  <2> HIDE DEF f, U, P
  <2> QED BY <2>1, <2>2 DEF Injection, IsInjective
<1>4. IsFiniteSet(P) /\ Cardinality(P) = Cardinality(Proc) - 1
  BY BufAssumption, FS_RemoveElement
<1>5. IsFiniteSet(U) /\ Cardinality(U) <= Cardinality(P)
  <2> HIDE DEF f, U, P
  <2> QED BY <1>3, <1>4, FS_Injection
<1>6. Cardinality(Proc) \in Nat /\ Cardinality(U) \in Nat
  BY <1>5, BufAssumption, FS_CardinalityType
<1> QED BY <1>4, <1>5, <1>6

\* bget() finds a buffer if there is one for each process and each pinned block.
LEMMA VictimLemma ==
  ASSUME IInv, NEW p \in Proc, at[p] = "idle", NBUF >= Cardinality(Proc) + MaxPinned
  PROVE  \E i \in Buf : Victim(i)
<1> DEFINE U == {i \in Buf : refcnt[i] # 0}
           J == {j \in Buf : Recyclable(lru[j])}
<1>1. IsFiniteSet(U) /\ Cardinality(U) + 1 <= Cardinality(Proc)
  BY UsedLemma
<1>2. IsFiniteSet(Pinned) /\ Cardinality(Pinned) <= MaxPinned
  <2>1. Pinned \in SUBSET Buf
    BY DEF Pinned
  <2> QED BY <2>1, BufLemma, FS_Subset DEF IInv, PinInv
<1>3. \E i \in Buf : Recyclable(i)
  <2> SUFFICES ASSUME \A i \in Buf : ~Recyclable(i) PROVE FALSE
    OBVIOUS
  <2>1. ASSUME NEW i \in Buf, i \notin U PROVE i \in Pinned
    <3>1. refcnt[i] = 0 /\ dirty[i]
      BY <2>1 DEF Recyclable
    <3>2. \A q \in Proc : b[q] # i
      BY <3>1, UsesLemma DEF IInv
    <3> QED BY <3>1, <3>2 DEF Pinned, OnDisk
  <2>2. Buf \in SUBSET (U \cup Pinned)
    BY <2>1
  <2> HIDE DEF U
  <2>3. /\ IsFiniteSet(U \cup Pinned)
        /\ Cardinality(U \cup Pinned)
             = Cardinality(U) + Cardinality(Pinned) - Cardinality(U \cap Pinned)
    BY <1>1, <1>2, FS_Union
  <2>4. NBUF <= Cardinality(U \cup Pinned)
    BY <2>2, <2>3, BufLemma, FS_Subset
  <2>5. IsFiniteSet(U \cap Pinned)
    BY <1>1, FS_Intersection
  <2>6. /\ Cardinality(U) \in Nat /\ Cardinality(Pinned) \in Nat
        /\ Cardinality(U \cap Pinned) \in Nat /\ Cardinality(Proc) \in Nat
    BY <1>1, <1>2, <2>5, BufAssumption, FS_CardinalityType
  <2>7. NBUF \in Nat /\ MaxPinned \in Nat
    BY BufAssumption
  <2> QED BY <1>1, <1>2, <2>3, <2>4, <2>6, <2>7
<1>4. J # {}
  BY <1>3 DEF IInv, LruInv
<1>5. J \subseteq Int /\ IsFiniteSet(J)
  <2>1. J \in SUBSET Buf
    OBVIOUS
  <2>2. Buf \subseteq Int
    BY DEF Buf
  <2> QED BY <2>1, <2>2, BufLemma, FS_Subset, Zenon
<1>6. PICK j \in J : \A k \in J : k <= j
  <2> HIDE DEF J
  <2> QED BY <1>4, <1>5, GreatestLemma, Zenon
<1>7. j \in Buf /\ lru[j] \in Buf /\ Recyclable(lru[j])
  BY DEF IInv, TypeOK
<1>8. ASSUME NEW k \in j + 1 .. NBUF PROVE ~Recyclable(lru[k])
  <2>1. k \in Buf /\ ~(k <= j)
    BY <1>7, BufAssumption DEF Buf
  <2> QED BY <1>6, <2>1
<1>9. Victim(lru[j])
  BY <1>7, <1>8 DEF Victim
<1> QED BY <1>7, <1>9

\* With a buffer for each process and each block the log pins, no panic of bio.c
\* or ide.c is reached: bget() finds a buffer, and iderw() and brelse() are called
\* by the owner of the buffer's lock.
THEOREM BufNoPanic ==
  ASSUME NBUF >= Cardinality(Proc) + MaxPinned
  PROVE  Spec => []NoPanic
<1>1. Init => NoPanic
  BY DEF Init, NoPanic
<1>2. IInv /\ NoPanic /\ [Next]_vars => NoPanic'
  <2> SUFFICES ASSUME IInv, ~panicked, [Next]_vars PROVE ~panicked'
    BY DEF NoPanic
  <2>1. CASE UNCHANGED vars
    BY <2>1 DEF vars
  <2>2. ASSUME NEW p \in Proc, NEW k \in Block, NoBuffers(p, k) PROVE FALSE
    BY <2>2, VictimLemma DEF NoBuffers
  <2>3. ASSUME NEW p \in Proc, \/ acquiresleep(p) \/ breadHit(p) \/ breadMiss(p)
                               \/ brelseOwned(p) \/ brelseRef(p)
        PROVE  panicked' = panicked
    BY <2>3, Zenon DEF acquiresleep, breadHit, breadMiss, brelseOwned, brelseRef
  <2>4. CASE Next
    BY <2>2, <2>3, <2>4, StepLemma, Zenon DEF Served, bgetHit, Recycle, bwriteOwned, log_write
  <2> QED BY <2>1, <2>4
<1> QED BY <1>1, <1>2, Invariance, PTL DEF Spec

-----------------------------------------------------------------------------
\* The cache is transparent: a block has one holder at a time, and its contents
\* are what its last holder wrote, whatever bget() recycles, log_write() pins and
\* ideintr() transfers.
THEOREM BufTransparent == Spec => Transparent
<1>1. Init => Store!Init
  <2> SUFFICES ASSUME Init PROVE Store!Init
    OBVIOUS
  <2>1. \A k \in Block : ~\E i \in Cached(k) : valid[i]
    BY DEF Init, Cached
  <2>2. Content = [k \in Block |-> disk[k]]
    BY <2>1 DEF Content
  <2>3. \A k \in Block : ~\E p \in Proc : Holds(p, k)
    BY DEF Init, Holds
  <2>4. Holder = [k \in Block |-> NoProc]
    BY <2>3 DEF Holder
  <2> QED BY <2>2, <2>4 DEF Init, Store!Init
<1>2. IInv /\ IInv' /\ [Next]_vars => [Store!Next]_(Store!bvars)
  BY StoreStep
<1> QED BY <1>1, <1>2, Invariance, PTL DEF Spec, Transparent, Store!Spec
=============================================================================
