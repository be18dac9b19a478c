------------------------------ MODULE LogProofs ------------------------------
(***************************************************************************)
(* The log for any number of calls and blocks: a transaction fits in the   *)
(* log area, sleepers of begin_op() are woken, what was committed is       *)
(* durable, and the log implements AtomicDisk.                             *)
(*                                                                         *)
(* While a commit is in progress no call is, so the cache stands still and *)
(* the log blocks written so far are copies of it.  A block whose cached   *)
(* contents differ from its home block is locked by a call, or is in the   *)
(* log and pinned.  That the log blocks exist needs the reservation: what  *)
(* the admitted calls may still add to the log fits beside what is in it.  *)
(***************************************************************************)
EXTENDS Log, FiniteSetTheorems, SequenceTheorems, TLAPS

InWrite == {"check", "append"}
Held == {lh[i] : i \in DOMAIN lh}

\* The pairs of a call in progress and a block of the transaction it has written.
Pairs(S, w, L) == {c \in S \X Block : c[2] \in w[c[1]] /\ c[2] \in L}
Charged == Pairs(Active, wrote, Held)

\* The reservation.  Of OpBlocks blocks per call, those in Charged are in the log.
Budget ==
  /\ IsFiniteSet(Active) /\ outstanding = Cardinality(Active)
  /\ \A o \in Active : IsFiniteSet(wrote[o]) /\ Cardinality(wrote[o]) <= OpBlocks
  /\ Len(lh) + OpBlocks * outstanding
       <= MAXOPBLOCKS + 2 * OpBlocks + Cardinality(Charged)

\* Where a call is in log_write().
CallInv ==
  \A o \in Op :
    /\ at[o] \in InWrite => wr[o] \in wrote[o]
    /\ at[o] \notin InWrite => wr[o] = NoBlock
    /\ at[o] \in {"begin", "asleep"} => wrote[o] = {}

\* A commit or recovery is alone, and the header on disk is that of the transaction
\* only while it is installed.
PhaseInv ==
  /\ committing => phase # "none" /\ ~booting
  /\ phase # "none" => committing \/ booting
  /\ booting => phase = "install" /\ \A o \in Op : at[o] = "idle"
  /\ phase # "none" => \A o \in Op : at[o] \notin InCall
  /\ phase \in {"none", "done"} /\ outstanding = 0 => lh = <<>>
  /\ dhead = IF phase = "install" THEN lh ELSE <<>>
  /\ phase \in {"log", "install"} => tail \in 1 .. Len(lh) + 1

\* What the log blocks hold.
LogInv ==
  /\ \A i, j \in 1 .. Len(lh) : lh[i] = lh[j] => i = j
  /\ phase = "log" => \A i \in 1 .. tail - 1 : logblk[i] = cache[lh[i]]
  /\ phase = "head" => \A i \in 1 .. Len(lh) : logblk[i] = cache[lh[i]]
  /\ phase = "install" /\ ~booting =>
       \A i \in 1 .. Len(lh) : logblk[i] = cache[lh[i]]
  /\ phase = "install" => \A i \in 1 .. tail - 1 : disk[lh[i]] = logblk[i]

\* A block of the transaction that is not installed yet.
Waiting(i) == ~booting /\ (phase = "install" => i >= tail)

\* Where cache and home block may differ.
CacheInv ==
  /\ \A i \in 1 .. Len(lh) : Waiting(i) => dirty[lh[i]] = TRUE
  /\ \A b \in Block : \/ cache[b] = disk[b]
                      \/ \E o \in Op : wr[o] = b
                      \/ \E i \in 1 .. Len(lh) : lh[i] = b /\ Waiting(i)

IInv == /\ TypeOK /\ Budget /\ CallInv /\ PhaseInv /\ LogInv /\ CacheInv
        /\ SleeperHasWaker

-----------------------------------------------------------------------------
(***************************************************************************)
(* Counting.                                                               *)
(***************************************************************************)
\* Pairs of a set of calls and at most n blocks each are no more than n per call.
LEMMA PairsBound ==
  ASSUME NEW S, IsFiniteSet(S), NEW w, NEW L, NEW n \in Nat,
         \A o \in S : IsFiniteSet(w[o]) /\ Cardinality(w[o]) <= n
  PROVE  /\ IsFiniteSet(Pairs(S, w, L))
         /\ Cardinality(Pairs(S, w, L)) <= Cardinality(S) * n
<1> DEFINE P == Pairs(S, w, L)
           T == S \X (1 .. n)
           num == [o \in S |-> CHOOSE g \in [w[o] -> 1 .. n] :
                                 \A x, y \in w[o] : g[x] = g[y] => x = y]
           f == [c \in P |-> <<c[1], num[c[1]][c[2]]>>]
<1>1. ASSUME NEW o \in S
      PROVE  /\ num[o] \in [w[o] -> 1 .. n]
             /\ \A x, y \in w[o] : num[o][x] = num[o][y] => x = y
  <2> DEFINE k == Cardinality(w[o])
  <2>1. k \in Nat /\ k <= n
    BY FS_CardinalityType
  <2>2. IsFiniteSet(1 .. k) /\ Cardinality(1 .. k) = k
    BY <2>1, FS_Interval
  <2>3. ExistsBijection(w[o], 1 .. k)
    BY <2>2, FS_SameCardinalityBij
  <2>4. PICK g \in Bijection(w[o], 1 .. k) : TRUE
    BY <2>3 DEF ExistsBijection
  <2>5. g \in [w[o] -> 1 .. k] /\ \A x, y \in w[o] : g[x] = g[y] => x = y
    BY <2>4 DEF Bijection, Injection, IsInjective
  <2>6. g \in [w[o] -> 1 .. n]
    BY <2>1, <2>5
  <2>7. \E h \in [w[o] -> 1 .. n] : \A x, y \in w[o] : h[x] = h[y] => x = y
    BY <2>5, <2>6
  <2> QED
    BY <2>7
<1> HIDE DEF num
<1>2. \A c \in P : c = <<c[1], c[2]>> /\ c[1] \in S /\ c[2] \in w[c[1]]
  BY DEF Pairs
<1>3. f \in [P -> T]
  BY <1>1, <1>2
<1>4. ASSUME NEW c \in P, NEW d \in P, f[c] = f[d]
      PROVE  c = d
  <2>1. c[1] = d[1] /\ num[c[1]][c[2]] = num[d[1]][d[2]]
    <3>1. /\ f[c][1] = c[1] /\ f[c][2] = num[c[1]][c[2]]
          /\ f[d][1] = d[1] /\ f[d][2] = num[d[1]][d[2]]
      OBVIOUS
    <3> HIDE DEF f, P
    <3> QED
      BY <1>4, <3>1
  <2>2. c[2] = d[2]
    <3>1. c[1] \in S /\ c[2] \in w[c[1]] /\ d[2] \in w[c[1]]
      BY <1>2, <2>1
    <3>2. num[c[1]][c[2]] = num[c[1]][d[2]]
      BY <2>1
    <3> HIDE DEF f, P
    <3> QED
      BY <1>1, <3>1, <3>2
  <2> QED
    BY <1>2, <2>1, <2>2
<1>5. f \in Injection(P, T)
  BY <1>3, <1>4, Zenon DEF Injection, IsInjective
<1>6. IsFiniteSet(1 .. n) /\ Cardinality(1 .. n) = n
  BY FS_Interval
<1>7. IsFiniteSet(T) /\ Cardinality(T) = Cardinality(S) * n
  BY <1>6, FS_Product, Zenon
<1> HIDE DEF f, T
<1> QED
  BY <1>5, <1>7, FS_Injection

\* Who is in a call, and how much of the log the transaction takes.
LEMMA CountFacts ==
  ASSUME TypeOK, Budget
  PROVE  /\ outstanding = 0 <=> \A o \in Op : at[o] \notin InCall
         /\ IsFiniteSet(Charged) /\ Cardinality(Charged) \in Nat
         /\ Len(lh) \in Nat /\ Len(lh) <= MAXOPBLOCKS + 2 * OpBlocks
         /\ Len(lh) < logsize - 1
<1>1. outstanding = 0 <=> Active = {}
  BY FS_EmptySet DEF Budget
<1>2. IsFiniteSet(Charged) /\ Cardinality(Charged) <= Cardinality(Active) * OpBlocks
  BY PairsBound, LogAssumption, Zenon DEF Budget, Charged
<1>3. Cardinality(Charged) \in Nat
  BY <1>2, FS_CardinalityType
<1>4. Len(lh) \in Nat
  BY LenProperties DEF TypeOK
<1>5. Len(lh) <= MAXOPBLOCKS + 2 * OpBlocks
  <2>1. outstanding * OpBlocks = OpBlocks * outstanding /\ OpBlocks * outstanding \in Nat
    BY LogAssumption DEF TypeOK
  <2> QED
    BY <1>2, <1>3, <1>4, <2>1, LogAssumption DEF Budget
<1>6. Len(lh) < logsize - 1
  BY <1>4, <1>5, LogAssumption, OpAssumption DEF logsize, LOGSIZE
<1> QED
  BY <1>1, <1>2, <1>3, <1>4, <1>5, <1>6 DEF Active

\* The transaction is a sequence of blocks.
LEMMA LhFacts ==
  ASSUME TypeOK
  PROVE  /\ Len(lh) \in Nat /\ DOMAIN lh = 1 .. Len(lh)
         /\ \A i \in 1 .. Len(lh) : lh[i] \in Block
BY LenProperties, ElementOfSeq DEF TypeOK

\* A call in progress excludes a commit.
LEMMA OpFacts ==
  ASSUME IInv, NEW o \in Op, at[o] \in InCall
  PROVE  phase = "none" /\ ~committing /\ ~booting /\ outstanding > 0
<1>1. outstanding # 0
  BY CountFacts DEF IInv
<1> QED
  BY <1>1 DEF IInv, PhaseInv, TypeOK, InCall

-----------------------------------------------------------------------------
(***************************************************************************)
(* Steps that leave a part of the state alone.                             *)
(***************************************************************************)
\* A step that moves no call and no block keeps the reservation.
LEMMA BudgetFrame ==
  ASSUME TypeOK, Budget, lh' = lh, outstanding' = outstanding,
         \A o \in Op : /\ at'[o] \in InCall <=> at[o] \in InCall
                       /\ at[o] \in InCall => wrote'[o] = wrote[o]
  PROVE  Budget'
<1>1. Active' = Active
  BY DEF Active
<1>2. \A o \in Active : wrote'[o] = wrote[o]
  BY DEF Active
<1>3. Charged' = Charged
  BY <1>1, <1>2 DEF Charged, Pairs, Held
<1> QED
  BY <1>1, <1>2, <1>3 DEF Budget

\* A step that leaves buffers, log blocks and the commit alone.
LEMMA BufFrame ==
  ASSUME LogInv, CacheInv,
         UNCHANGED <<disk, logblk, cache, dirty, lh, phase, tail, booting>>,
         \A o \in Op : wr'[o] = wr[o]
  PROVE  LogInv' /\ CacheInv'
BY DEF LogInv, CacheInv, Waiting

\* The calls while a commit goes on.
LEMMA CommitFrame ==
  ASSUME IInv, UNCHANGED <<at, wr, wrote, lh, outstanding, committing>>
  PROVE  Budget' /\ CallInv' /\ SleeperHasWaker'
<1>1. Budget'
  BY BudgetFrame DEF IInv
<1> QED
  BY <1>1 DEF IInv, CallInv, SleeperHasWaker

\* A stutter.
LEMMA VarsFrame ==
  ASSUME IInv, UNCHANGED vars
  PROVE  IInv'
<1>1. /\ UNCHANGED <<disk, logblk, dhead, cache, dirty, lh, outstanding, committing>>
      /\ UNCHANGED <<at, wr, wrote, phase, tail, booting, panicked>>
  BY DEF vars
<1>2. TypeOK'
  BY <1>1 DEF IInv, TypeOK
<1>3. Budget' /\ CallInv' /\ SleeperHasWaker'
  BY <1>1, CommitFrame
<1>4. PhaseInv'
  BY <1>1 DEF IInv, PhaseInv
<1>5. LogInv' /\ CacheInv'
  BY <1>1, BufFrame DEF IInv
<1> QED
  BY <1>2, <1>3, <1>4, <1>5 DEF IInv

-----------------------------------------------------------------------------
(***************************************************************************)
(* The system calls.                                                       *)
(***************************************************************************)
\* A process makes a file system call.
LEMMA CallStep ==
  ASSUME IInv, NEW o \in Op, Call(o)
  PROVE  IInv'
<1>1. TypeOK'
  BY DEF IInv, TypeOK, Call, Goto, ondisk
<1>2. Budget'
  BY BudgetFrame DEF IInv, TypeOK, Call, Goto, InCall
<1>3. CallInv'
  BY DEF IInv, TypeOK, CallInv, Call, Goto, InWrite
<1>4. PhaseInv'
  BY DEF IInv, TypeOK, PhaseInv, Call, Goto, InCall, ondisk
<1>5. LogInv' /\ CacheInv'
  BY BufFrame DEF IInv, Call, ondisk
<1>6. SleeperHasWaker'
  BY DEF IInv, TypeOK, SleeperHasWaker, Call, Goto
<1> QED
  BY <1>1, <1>2, <1>3, <1>4, <1>5, <1>6 DEF IInv

\* begin_op() sleeps while somebody will wake it, or admits a call the log has room for.
LEMMA begin_opStep ==
  ASSUME IInv, NEW o \in Op, begin_op(o)
  PROVE  IInv'
<1>0. TypeOK /\ Budget /\ CallInv /\ PhaseInv /\ SleeperHasWaker
  BY DEF IInv
<1>a. at[o] = "begin" /\ ~booting /\ wrote[o] = {}
  BY <1>0 DEF begin_op, PhaseInv, CallInv
<1>b. ~committing => phase = "none"
  BY <1>0, <1>a DEF PhaseInv
<1>c. ~committing /\ outstanding = 0 => Len(lh) = 0
  BY <1>0, <1>b DEF PhaseInv
<1>1. TypeOK'
  <2>1. outstanding' \in Nat
    BY <1>0 DEF TypeOK, begin_op
  <2>2. at' \in [Op -> {"idle", "begin", "asleep"} \cup InCall]
    BY <1>0, Zenon DEF TypeOK, begin_op, Goto, InCall
  <2>3. UNCHANGED <<ondisk, cache, dirty, lh, committing, wr, wrote, phase, tail, booting, panicked>>
    BY Zenon DEF begin_op
  <2> QED
    BY <1>0, <2>1, <2>2, <2>3, Zenon DEF TypeOK, ondisk
<1>2. LogInv' /\ CacheInv'
  BY BufFrame DEF IInv, begin_op, ondisk
<1>3. CallInv'
  BY <1>0, <1>a DEF TypeOK, CallInv, begin_op, Goto, InWrite
<1>4. CASE committing \/ NoRoom
  <2>1. at' = [at EXCEPT ![o] = "asleep"] /\ outstanding' = outstanding
    BY <1>4 DEF begin_op, Goto
  <2>2. Budget'
    BY <1>0, <1>a, <2>1, BudgetFrame DEF TypeOK, begin_op, InCall
  <2>3. PhaseInv'
    BY <1>0, <1>a, <2>1 DEF TypeOK, PhaseInv, begin_op, InCall, ondisk
  <2>4. outstanding > 0 \/ committing
    <3>1. ASSUME ~committing, outstanding = 0 PROVE FALSE
      BY <1>4, <1>c, <3>1, LogAssumption DEF NoRoom, LOGSIZE
    <3> QED
      BY <1>0, <3>1 DEF TypeOK
  <2>5. SleeperHasWaker'
    BY <1>0, <2>1, <2>4 DEF SleeperHasWaker, begin_op
  <2> QED
    BY <1>1, <1>2, <1>3, <2>2, <2>3, <2>5 DEF IInv
<1>5. CASE ~committing /\ ~NoRoom
  <2>1. at' = [at EXCEPT ![o] = "op"] /\ outstanding' = outstanding + 1
    BY <1>5 DEF begin_op, Goto
  <2>2. lh' = lh /\ wrote' = wrote /\ Len(lh) \in Nat /\ outstanding \in Nat
    BY <1>0, LhFacts DEF begin_op, TypeOK
  <2>3. Active' = Active \cup {o} /\ o \notin Active
    BY <1>0, <1>a, <2>1 DEF Active, TypeOK, InCall
  <2>4. IsFiniteSet(Active') /\ outstanding' = Cardinality(Active')
    BY <1>0, <2>1, <2>3, FS_AddElement DEF Budget
  <2>5. \A x \in Active' : IsFiniteSet(wrote'[x]) /\ Cardinality(wrote'[x]) <= OpBlocks
    <3>1. IsFiniteSet({}) /\ Cardinality({}) = 0
      BY FS_EmptySet
    <3>2. IsFiniteSet(wrote'[o]) /\ Cardinality(wrote'[o]) <= OpBlocks
      <4>1. wrote'[o] = {}
        BY <1>a, <2>2
      <4>2. 0 <= OpBlocks
        BY LogAssumption
      <4> QED
        BY <3>1, <4>1, <4>2
    <3>3. \A x \in Active : IsFiniteSet(wrote'[x]) /\ Cardinality(wrote'[x]) <= OpBlocks
      BY <1>0, <2>2 DEF Budget
    <3> QED
      BY <2>3, <3>2, <3>3
  <2>6. Charged' = Charged
    BY <1>a, <2>2, <2>3 DEF Charged, Pairs, Held
  <2>7. Cardinality(Charged) \in Nat
    BY <1>0, CountFacts
  <2>8. Len(lh) + (outstanding + 1) * MAXOPBLOCKS <= MAXOPBLOCKS * 3
    BY <1>5, <2>2, LogAssumption DEF NoRoom, LOGSIZE
  <2>9. outstanding \in {0, 1, 2}
    <3>1. ASSUME outstanding >= 3 PROVE FALSE
      <4>1. (outstanding + 1) * MAXOPBLOCKS >= 4 * MAXOPBLOCKS
        BY <2>2, <3>1, LogAssumption
      <4> QED
        BY <2>2, <2>8, <4>1, LogAssumption
    <3> QED
      BY <2>2, <3>1
  <2>10. Len(lh) + OpBlocks * (outstanding + 1) <= MAXOPBLOCKS + 2 * OpBlocks
    BY <1>5, <1>c, <2>2, <2>8, <2>9, LogAssumption, OpAssumption
  <2>11. Budget'
    BY <2>1, <2>2, <2>4, <2>5, <2>6, <2>7, <2>10, LogAssumption DEF Budget
  <2>12. PhaseInv'
    BY <1>0, <1>5, <1>b, <2>1, <2>2 DEF PhaseInv, begin_op, ondisk, TypeOK
  <2>13. SleeperHasWaker'
    BY <2>1, <2>2 DEF SleeperHasWaker
  <2> QED
    BY <1>1, <1>2, <1>3, <2>11, <2>12, <2>13 DEF IInv
<1> QED
  BY <1>4, <1>5

\* A call changes a buffer it has locked.
LEMMA ModifyStep ==
  ASSUME IInv, NEW o \in Op, NEW b \in Block, NEW v \in Val, Modify(o, b, v)
  PROVE  IInv'
<1>0. TypeOK /\ Budget /\ CallInv /\ PhaseInv /\ LogInv /\ CacheInv /\ SleeperHasWaker
  BY DEF IInv
<1>a. phase = "none" /\ ~committing /\ ~booting /\ outstanding > 0
  BY OpFacts DEF Modify, InCall
<1>b. at[o] = "op" /\ wr[o] = NoBlock
  BY <1>0 DEF Modify, CallInv, InWrite
<1>c. /\ wrote' = [wrote EXCEPT ![o] = @ \cup {b}] /\ wr' = [wr EXCEPT ![o] = b]
      /\ at' = [at EXCEPT ![o] = "check"] /\ cache' = [cache EXCEPT ![b] = v]
  BY DEF Modify, Goto
<1>1. TypeOK'
  BY <1>0, <1>c DEF TypeOK, Modify, ondisk, InCall
<1>2. Budget'
  <2>1. Active' = Active /\ o \in Active
    BY <1>0, <1>b, <1>c DEF Active, TypeOK, InCall
  <2>2. /\ wrote'[o] = wrote[o] \cup {b}
        /\ \A x \in Op \ {o} : wrote'[x] = wrote[x]
    BY <1>0, <1>c DEF TypeOK
  <2>3. IsFiniteSet(wrote'[o]) /\ Cardinality(wrote'[o]) <= OpBlocks
    <3>1. IsFiniteSet(wrote[o])
      BY <1>0, <2>1 DEF Budget
    <3>2. IsFiniteSet(wrote[o] \cup {b})
      BY <3>1, FS_AddElement
    <3>3. Cardinality(wrote[o] \cup {b}) <= OpBlocks
      BY Zenon DEF Modify
    <3> QED
      BY <2>2, <3>2, <3>3
  <2>4. \A x \in Active' : IsFiniteSet(wrote'[x]) /\ Cardinality(wrote'[x]) <= OpBlocks
    BY <1>0, <2>1, <2>2, <2>3, Zenon DEF Budget, Active
  <2>5. lh' = lh /\ outstanding' = outstanding
    BY DEF Modify
  <2>6. IsFiniteSet(Active') /\ outstanding' = Cardinality(Active')
    BY <1>0, <2>1, <2>5 DEF Budget
  <2>7. IsFiniteSet(Charged')
    BY <2>4, <2>6, PairsBound, LogAssumption DEF Charged
  <2>8. Charged \subseteq Charged'
    BY <2>1, <2>2, <2>5 DEF Charged, Pairs, Held, Active
  <2>9. Cardinality(Charged) <= Cardinality(Charged')
    BY <2>7, <2>8, FS_Subset
  <2>10. Cardinality(Charged) \in Nat /\ Cardinality(Charged') \in Nat /\ Len(lh) \in Nat
    BY <1>0, <2>7, CountFacts, FS_CardinalityType
  <2>11. Len(lh) + OpBlocks * outstanding <= MAXOPBLOCKS + 2 * OpBlocks + Cardinality(Charged')
    <3> DEFINE n == OpBlocks * outstanding
    <3>1. n \in Nat
      BY <1>0, LogAssumption DEF TypeOK
    <3>2. Len(lh) + n <= MAXOPBLOCKS + 2 * OpBlocks + Cardinality(Charged)
      BY <1>0 DEF Budget
    <3> HIDE DEF n
    <3>3. Len(lh) + n <= MAXOPBLOCKS + 2 * OpBlocks + Cardinality(Charged')
      BY <2>9, <2>10, <3>1, <3>2, LogAssumption
    <3> QED
      BY <3>3 DEF n
  <2> QED
    BY <2>4, <2>5, <2>6, <2>11 DEF Budget
<1>3. CallInv'
  BY <1>0, <1>c DEF TypeOK, CallInv, InWrite
<1>4. PhaseInv'
  BY <1>0, <1>a, <1>c DEF PhaseInv, Modify, ondisk, TypeOK
<1>5. LogInv'
  BY <1>0, <1>a, Zenon DEF LogInv, Modify, ondisk
<1>6. CacheInv'
  <2>1. \A x \in Block : (\E q \in Op : wr[q] = x) => \E q \in Op : wr'[q] = x
    BY <1>0, <1>b, <1>c, LogAssumption DEF TypeOK
  <2>2. \E q \in Op : wr'[q] = b
    BY <1>0, <1>c DEF TypeOK
  <2>3. \A x \in Block \ {b} : cache'[x] = cache[x]
    BY <1>0, <1>c DEF TypeOK
  <2> QED
    BY <1>0, <2>1, <2>2, <2>3 DEF CacheInv, Waiting, Modify, ondisk
<1>7. SleeperHasWaker'
  BY <1>a DEF SleeperHasWaker, Modify
<1> QED
  BY <1>1, <1>2, <1>3, <1>4, <1>5, <1>6, <1>7 DEF IInv

\* The unlocked tests of log_write() do not panic.
LEMMA log_writeCheckStep ==
  ASSUME IInv, NEW o \in Op, log_writeCheck(o)
  PROVE  IInv' /\ ~panicked'
<1>0. TypeOK /\ Budget /\ CallInv /\ PhaseInv /\ SleeperHasWaker
  BY DEF IInv
<1>a. phase = "none" /\ ~committing /\ ~booting /\ outstanding > 0
  BY OpFacts DEF log_writeCheck, InCall
<1>b. at[o] = "check" /\ at' = [at EXCEPT ![o] = "append"]
  BY DEF log_writeCheck, Goto
<1>1. TypeOK'
  BY <1>0, <1>b DEF TypeOK, log_writeCheck, ondisk, InCall
<1>2. Budget'
  BY <1>0, <1>b, BudgetFrame DEF TypeOK, log_writeCheck, InCall
<1>3. CallInv'
  BY <1>0, <1>b DEF TypeOK, CallInv, InWrite, log_writeCheck
<1>4. PhaseInv'
  BY <1>0, <1>a, <1>b DEF PhaseInv, log_writeCheck, ondisk, TypeOK
<1>5. LogInv' /\ CacheInv'
  BY BufFrame DEF IInv, log_writeCheck, ondisk
<1>6. SleeperHasWaker'
  BY <1>a DEF SleeperHasWaker, log_writeCheck
<1>7. ~panicked'
  <2>1. Len(lh) \in Nat /\ Len(lh) < logsize - 1 /\ outstanding \in Nat
    BY <1>0, CountFacts DEF TypeOK
  <2>2. LOGSIZE \in Nat /\ logsize = LOGSIZE
    BY LogAssumption DEF logsize, LOGSIZE
  <2>3. ~(Len(lh) >= LOGSIZE \/ Len(lh) >= logsize - 1 \/ outstanding < 1)
    BY <1>a, <2>1, <2>2
  <2> QED
    BY <2>3, Zenon DEF log_writeCheck
<1> QED
  BY <1>1, <1>2, <1>3, <1>4, <1>5, <1>6, <1>7 DEF IInv

\* log_write() charges a new block of the log to the call that wrote it.
LEMMA log_writeAppendStep ==
  ASSUME IInv, NEW o \in Op, log_writeAppend(o)
  PROVE  IInv'
<1> DEFINE b == wr[o]
<1>0. TypeOK /\ Budget /\ CallInv /\ PhaseInv /\ LogInv /\ CacheInv /\ SleeperHasWaker
  BY DEF IInv
<1>a. phase = "none" /\ ~committing /\ ~booting /\ outstanding > 0
  BY OpFacts DEF log_writeAppend, InCall
<1>b. at[o] = "append" /\ b \in wrote[o] /\ b \in Block
  BY <1>0 DEF log_writeAppend, CallInv, InWrite, TypeOK
<1>c. /\ wr' = [wr EXCEPT ![o] = NoBlock] /\ at' = [at EXCEPT ![o] = "op"]
      /\ dirty' = [dirty EXCEPT ![b] = TRUE]
      /\ lh' = IF \E i \in DOMAIN lh : lh[i] = b THEN lh ELSE Append(lh, b)
  BY DEF log_writeAppend, Goto, Absorbed, Pinned
<1>d. /\ outstanding' = outstanding /\ wrote' = wrote /\ cache' = cache /\ disk' = disk
      /\ phase' = phase /\ booting' = booting /\ committing' = committing
      /\ dhead' = dhead /\ logblk' = logblk /\ tail' = tail /\ panicked' = panicked
  BY DEF log_writeAppend, ondisk
<1>e. Len(lh) \in Nat /\ DOMAIN lh = 1 .. Len(lh) /\ \A i \in 1 .. Len(lh) : lh[i] \in Block
  BY <1>0, LhFacts
<1>f. \/ lh' = lh /\ \E i \in 1 .. Len(lh) : lh[i] = b
      \/ /\ lh' = Append(lh, b) /\ \A i \in 1 .. Len(lh) : lh[i] # b
         /\ Len(lh') = Len(lh) + 1 /\ lh'[Len(lh) + 1] = b
         /\ \A i \in 1 .. Len(lh) : lh'[i] = lh[i]
  <2>1. CASE \E i \in DOMAIN lh : lh[i] = b
    BY <1>c, <1>e, <2>1, Zenon
  <2>2. CASE ~ \E i \in DOMAIN lh : lh[i] = b
    <3>1. lh' = Append(lh, b) /\ \A i \in 1 .. Len(lh) : lh[i] # b
      BY <1>c, <1>e, <2>2
    <3>2. lh \in Seq(Block)
      BY <1>0 DEF TypeOK
    <3> HIDE DEF b
    <3>3. /\ Len(Append(lh, b)) = Len(lh) + 1 /\ Append(lh, b)[Len(lh) + 1] = b
          /\ \A i \in 1 .. Len(lh) : Append(lh, b)[i] = lh[i]
      BY <1>b, <3>2, AppendProperties
    <3> QED
      BY <3>1, <3>3
  <2> QED
    BY <2>1, <2>2
<1> HIDE DEF b
<1>1. TypeOK'
  <2>1. lh' \in Seq(Block)
    BY <1>0, <1>b, <1>f DEF TypeOK
  <2> QED
    BY <1>0, <1>c, <1>d, <2>1 DEF TypeOK, InCall
<1>2. Budget'
  <2>1. CASE lh' = lh
    BY <1>0, <1>b, <1>c, <1>d, <2>1, BudgetFrame DEF TypeOK, InCall
  <2>2. CASE lh' = Append(lh, b) /\ (\A i \in 1 .. Len(lh) : lh[i] # b) /\ Len(lh') = Len(lh) + 1
             /\ lh'[Len(lh) + 1] = b /\ \A i \in 1 .. Len(lh) : lh'[i] = lh[i]
    <3>1. Active' = Active /\ o \in Active
      BY <1>0, <1>b, <1>c DEF Active, TypeOK, InCall
    <3>2. DOMAIN lh' = 1 .. Len(lh) + 1
      BY <1>1, <2>2, LenProperties DEF TypeOK
    <3>3. b \notin Held /\ Held' = Held \cup {b}
      BY <1>e, <2>2, <3>2 DEF Held
    <3>4. /\ IsFiniteSet(Active') /\ outstanding' = Cardinality(Active')
          /\ \A x \in Active' : IsFiniteSet(wrote'[x]) /\ Cardinality(wrote'[x]) <= OpBlocks
      BY <1>0, <1>d, <3>1 DEF Budget
    <3>5. IsFiniteSet(Charged')
      BY <3>4, PairsBound, LogAssumption DEF Charged
    <3>6. <<o, b>> \notin Charged
      BY <3>3 DEF Charged, Pairs
    <3>7. Charged \cup {<<o, b>>} \subseteq Charged'
      BY <1>b, <1>d, <3>1, <3>3 DEF Charged, Pairs
    <3>8. IsFiniteSet(Charged) /\ Cardinality(Charged) \in Nat
      BY <1>0, CountFacts
    <3>9. Cardinality(Charged \cup {<<o, b>>}) = Cardinality(Charged) + 1
      BY <3>6, <3>8, FS_AddElement
    <3>10. Cardinality(Charged) + 1 <= Cardinality(Charged') /\ Cardinality(Charged') \in Nat
      BY <3>5, <3>7, <3>9, FS_Subset, FS_CardinalityType
    <3>11. Len(lh') + OpBlocks * outstanding' <= MAXOPBLOCKS + 2 * OpBlocks + Cardinality(Charged')
      <4> DEFINE n == OpBlocks * outstanding
      <4>1. n \in Nat
        BY <1>0, LogAssumption DEF TypeOK
      <4>2. Len(lh) + n <= MAXOPBLOCKS + 2 * OpBlocks + Cardinality(Charged)
        BY <1>0 DEF Budget
      <4>3. n = OpBlocks * outstanding'
        BY <1>d
      <4> HIDE DEF n
      <4> QED
        BY <1>e, <2>2, <3>8, <3>10, <4>1, <4>2, <4>3, LogAssumption
    <3> QED
      BY <3>4, <3>11 DEF Budget
  <2> QED
    BY <1>f, <2>1, <2>2
<1>3. CallInv'
  BY <1>0, <1>c, <1>d DEF TypeOK, CallInv, InWrite
<1>4. PhaseInv'
  BY <1>0, <1>a, <1>d DEF PhaseInv
<1>5. LogInv'
  <2>1. \A i, j \in 1 .. Len(lh') : lh'[i] = lh'[j] => i = j
    BY <1>0, <1>e, <1>f DEF LogInv
  <2> QED
    BY <1>a, <1>d, <2>1 DEF LogInv
<1>6. CacheInv'
  <2>1. \A i \in 1 .. Len(lh') : dirty'[lh'[i]] = TRUE
    <3>1. \A x \in Block : dirty'[x] = IF x = b THEN TRUE ELSE dirty[x]
      BY <1>0, <1>c DEF TypeOK
    <3>2. \A i \in 1 .. Len(lh) : dirty[lh[i]] = TRUE
      BY <1>0, <1>a DEF CacheInv, Waiting
    <3>3. \A i \in 1 .. Len(lh) : dirty'[lh[i]] = TRUE
      BY <1>e, <3>1, <3>2, Zenon
    <3>4. dirty'[b] = TRUE
      BY <1>b, <3>1, Zenon
    <3>5. \A i \in 1 .. Len(lh') : (i \in 1 .. Len(lh) /\ lh'[i] = lh[i]) \/ lh'[i] = b
      BY <1>e, <1>f
    <3> QED
      BY <3>3, <3>4, <3>5
  <2>2. \A i \in 1 .. Len(lh) : i \in 1 .. Len(lh') /\ lh'[i] = lh[i]
    BY <1>e, <1>f
  <2>3. \E i \in 1 .. Len(lh') : lh'[i] = b
    BY <1>e, <1>f
  <2>4. \A x \in Block \ {b} : (\E q \in Op : wr[q] = x) => \E q \in Op : wr'[q] = x
    BY <1>0, <1>c DEF TypeOK, b
  <2> QED
    BY <1>0, <1>a, <1>d, <2>1, <2>2, <2>3, <2>4 DEF CacheInv, Waiting
<1>7. SleeperHasWaker'
  BY <1>a, <1>d DEF SleeperHasWaker
<1> QED
  BY <1>1, <1>2, <1>3, <1>4, <1>5, <1>6, <1>7 DEF IInv

\* end_op() gives its reservation back, or starts the commit as the last.
LEMMA end_opStep ==
  ASSUME IInv, NEW o \in Op, end_op(o)
  PROVE  IInv' /\ ~panicked'
<1>0. TypeOK /\ Budget /\ CallInv /\ PhaseInv /\ LogInv /\ CacheInv /\ SleeperHasWaker
  BY DEF IInv
<1>a. phase = "none" /\ ~committing /\ ~booting /\ outstanding > 0
  BY OpFacts DEF end_op, InCall
<1>b. /\ at[o] = "op" /\ outstanding' = outstanding - 1 /\ panicked' = FALSE
      /\ lh' = lh /\ wrote' = wrote /\ wr' = wr /\ cache' = cache /\ dirty' = dirty
      /\ disk' = disk /\ logblk' = logblk /\ dhead' = dhead /\ booting' = booting
  BY <1>0, <1>a DEF end_op, Ended, ondisk, TypeOK
<1>c. \/ /\ outstanding = 1 /\ committing' = TRUE /\ tail' = 1
         /\ phase' = IF lh = <<>> THEN "done" ELSE "log"
         /\ at' = [at EXCEPT ![o] = "idle"]
      \/ /\ outstanding # 1 /\ committing' = FALSE /\ phase' = "none" /\ tail' = tail
         /\ at' = wakeup([at EXCEPT ![o] = "idle"])
  BY <1>0, <1>a DEF end_op, LastOne, Goto, TypeOK
<1>d. /\ at'[o] = "idle"
      /\ \A x \in Op \ {o} : \/ at'[x] = at[x]
                             \/ at[x] = "asleep" /\ at'[x] = "begin"
      /\ at' \in [Op -> {"idle", "begin", "asleep"} \cup InCall]
  BY <1>0, <1>c DEF TypeOK, wakeup
<1>e. outstanding # 1 => \A x \in Op : at'[x] # "asleep"
  BY <1>0, <1>c DEF TypeOK, wakeup
<1>f. outstanding \in Nat /\ outstanding' \in Nat
  BY <1>0, <1>a, <1>b DEF TypeOK
<1>g. Len(lh) \in Nat
  BY <1>0, LhFacts
<1>1. TypeOK'
  BY <1>0, <1>b, <1>c, <1>d, <1>f, Zenon DEF TypeOK
<1>2. Budget'
  <2>1. Active' = Active \ {o} /\ o \in Active
    BY <1>0, <1>b, <1>d DEF Active, TypeOK, InCall
  <2>2. IsFiniteSet(Active') /\ outstanding' = Cardinality(Active')
    BY <1>0, <1>b, <2>1, FS_RemoveElement DEF Budget
  <2>3. \A x \in Active' : IsFiniteSet(wrote'[x]) /\ Cardinality(wrote'[x]) <= OpBlocks
    BY <1>0, <1>b, <2>1 DEF Budget
  <2> DEFINE own == Pairs({o}, wrote, Held)
  <2>4. IsFiniteSet({o}) /\ Cardinality({o}) = 1
    BY FS_Singleton, Zenon
  <2>5. IsFiniteSet(own) /\ Cardinality(own) <= 1 * OpBlocks
    <3>1. \A x \in {o} : IsFiniteSet(wrote[x]) /\ Cardinality(wrote[x]) <= OpBlocks
      BY <1>0, <2>1 DEF Budget
    <3> HIDE DEF own
    <3> QED
      BY <2>4, <3>1, PairsBound, LogAssumption DEF own
  <2>6. Charged' = Charged \ own
    BY <1>b, <2>1 DEF Charged, Pairs, Held
  <2>7. IsFiniteSet(Charged) /\ Cardinality(Charged) \in Nat
    BY <1>0, CountFacts
  <2> HIDE DEF own
  <2>8. Cardinality(Charged') = Cardinality(Charged) - Cardinality(Charged \cap own)
    BY <2>6, <2>7, FS_Difference, Zenon
  <2>9. Cardinality(Charged \cap own) <= Cardinality(own) /\ IsFiniteSet(Charged \cap own)
    BY <2>5, FS_Intersection
  <2>10. Cardinality(Charged \cap own) \in Nat /\ Cardinality(own) \in Nat
    BY <2>5, <2>9, FS_CardinalityType
  <2>11. Len(lh) + OpBlocks * (outstanding - 1) <= MAXOPBLOCKS + 2 * OpBlocks + Cardinality(Charged')
    <3> DEFINE n == OpBlocks * outstanding
    <3>1. n \in Nat /\ OpBlocks * (outstanding - 1) = n - OpBlocks
      BY <1>f, LogAssumption
    <3>2. Len(lh) + n <= MAXOPBLOCKS + 2 * OpBlocks + Cardinality(Charged)
      BY <1>0 DEF Budget
    <3> HIDE DEF n
    <3> QED
      BY <1>g, <2>5, <2>7, <2>8, <2>9, <2>10, <3>1, <3>2, LogAssumption
  <2> QED
    BY <1>b, <2>2, <2>3, <2>11 DEF Budget
<1>3. CallInv'
  BY <1>0, <1>b, <1>d DEF CallInv, InWrite
<1>4. PhaseInv'
  <2>1. outstanding' = 0 <=> \A x \in Op : at'[x] \notin InCall
    <3>1. IsFiniteSet(Active') /\ outstanding' = Cardinality(Active')
      BY <1>2 DEF Budget
    <3>2. outstanding' = 0 <=> Active' = {}
      BY <3>1, FS_EmptySet
    <3> QED
      BY <3>2 DEF Active
  <2>2. dhead = <<>>
    BY <1>0, <1>a DEF PhaseInv
  <2>3. lh = <<>> <=> Len(lh) = 0
    BY <1>0 DEF TypeOK
  <2> QED
    BY <1>a, <1>b, <1>c, <1>f, <1>g, <2>1, <2>2, <2>3 DEF PhaseInv
<1>5. LogInv'
  <2>1. phase' # "install" /\ phase' # "head"
    BY <1>c
  <2>2. phase' = "log" => tail' = 1
    BY <1>c
  <2> QED
    BY <1>0, <1>b, <2>1, <2>2 DEF LogInv
<1>6. CacheInv'
  <2>1. phase' # "install" /\ phase # "install"
    BY <1>a, <1>c
  <2> QED
    BY <1>0, <1>b, <2>1 DEF CacheInv, Waiting
<1>7. SleeperHasWaker'
  BY <1>c, <1>e, <1>f DEF SleeperHasWaker
<1> QED
  BY <1>1, <1>2, <1>3, <1>4, <1>5, <1>6, <1>7, <1>b DEF IInv

-----------------------------------------------------------------------------
(***************************************************************************)
(* commit() and recovery.                                                  *)
(***************************************************************************)
\* write_log() copies the cache, which stands still.
LEMMA write_logStep ==
  ASSUME IInv, write_log \/ write_logEnd
  PROVE  IInv'
<1>0. TypeOK /\ Budget /\ PhaseInv /\ LogInv /\ CacheInv
  BY DEF IInv
<1>a. phase = "log" /\ ~booting /\ tail \in 1 .. Len(lh) + 1 /\ Len(lh) \in Nat
  BY <1>0, LhFacts DEF write_log, write_logEnd, PhaseInv, TypeOK
<1>b. /\ UNCHANGED <<disk, dhead, cache, dirty, lh, outstanding, committing, booting, panicked>>
      /\ UNCHANGED <<at, wr, wrote>>
  BY DEF write_log, write_logEnd, ondisk, ops
<1>c. Len(lh) < logsize - 1 /\ logsize \in Nat
  BY <1>0, CountFacts, LogAssumption DEF logsize, LOGSIZE
<1>1. Budget' /\ CallInv' /\ SleeperHasWaker'
  BY <1>b, CommitFrame
<1>2. CASE write_log
  <2>1. /\ phase' = "log" /\ tail' = tail + 1 /\ tail \in 1 .. Len(lh)
        /\ logblk' = [logblk EXCEPT ![tail] = cache[lh[tail]]]
    BY <1>a, <1>2 DEF write_log
  <2>2. tail \in LogArea /\ cache[lh[tail]] \in Val
    BY <1>0, <1>a, <1>c, <2>1, LhFacts DEF LogArea, TypeOK
  <2>3. TypeOK'
    BY <1>0, <1>a, <1>b, <2>1, <2>2 DEF TypeOK
  <2>4. PhaseInv'
    BY <1>0, <1>a, <1>b, <2>1 DEF PhaseInv
  <2>5. \A i \in 1 .. tail' - 1 : logblk'[i] = cache[lh[i]]
    <3>1. ASSUME NEW i \in 1 .. tail' - 1 PROVE logblk'[i] = cache[lh[i]]
      <4>1. CASE i = tail
        BY <1>0, <2>1, <2>2, <4>1 DEF TypeOK
      <4>2. CASE i # tail
        <5>1. i \in 1 .. tail - 1 /\ i \in LogArea
          BY <1>a, <1>c, <2>1, <4>2 DEF LogArea
        <5> QED
          BY <1>0, <1>a, <2>1, <4>2, <5>1 DEF LogInv, TypeOK
      <4> QED
        BY <4>1, <4>2
    <3> QED
      BY <3>1
  <2>6. LogInv'
    BY <1>0, <1>b, <2>1, <2>5 DEF LogInv
  <2>7. CacheInv'
    BY <1>0, <1>a, <1>b, <2>1 DEF CacheInv, Waiting
  <2> QED
    BY <1>1, <2>3, <2>4, <2>6, <2>7 DEF IInv
<1>3. CASE write_logEnd
  <2>1. phase' = "head" /\ tail' = tail /\ logblk' = logblk /\ tail = Len(lh) + 1
    BY <1>a, <1>3 DEF write_logEnd, ondisk
  <2>2. TypeOK'
    BY <1>0, <1>b, <2>1 DEF TypeOK
  <2>3. PhaseInv'
    BY <1>0, <1>a, <1>b, <2>1 DEF PhaseInv
  <2>4. LogInv'
    BY <1>0, <1>a, <1>b, <2>1 DEF LogInv
  <2>5. CacheInv'
    BY <1>0, <1>a, <1>b, <2>1 DEF CacheInv, Waiting
  <2> QED
    BY <1>1, <2>2, <2>3, <2>4, <2>5 DEF IInv
<1> QED
  BY <1>2, <1>3

\* write_head() makes the log what a crash would leave.
LEMMA write_headStep ==
  ASSUME IInv, write_head
  PROVE  IInv'
<1>0. TypeOK /\ PhaseInv /\ LogInv /\ CacheInv
  BY DEF IInv
<1>a. phase = "head" /\ ~booting /\ phase' = "install" /\ tail' = 1 /\ dhead' = lh
  BY <1>0 DEF write_head, PhaseInv
<1>b. /\ UNCHANGED <<disk, logblk, cache, dirty, lh, outstanding, committing, booting, panicked>>
      /\ UNCHANGED <<at, wr, wrote>>
  BY DEF write_head, ops
<1>c. Len(lh) \in Nat
  BY <1>0, LhFacts
<1>1. Budget' /\ CallInv' /\ SleeperHasWaker'
  BY <1>b, CommitFrame
<1>2. TypeOK'
  BY <1>0, <1>a, <1>b DEF TypeOK
<1>3. PhaseInv'
  BY <1>0, <1>a, <1>b, <1>c DEF PhaseInv
<1>4. LogInv'
  BY <1>0, <1>a, <1>b, <1>c DEF LogInv
<1>5. CacheInv'
  <2>1. \A i \in 1 .. Len(lh) : Waiting(i) /\ Waiting(i)'
    BY <1>a, <1>b, <1>c DEF Waiting
  <2> QED
    BY <1>0, <1>b, <2>1, Zenon DEF CacheInv
<1> QED
  BY <1>1, <1>2, <1>3, <1>4, <1>5 DEF IInv

\* install_trans() copies a log block home, in commit() and in recovery.
LEMMA install_transStep ==
  ASSUME IInv, install_trans
  PROVE  IInv'
<1> DEFINE b == lh[tail]
           v == logblk[tail]
<1>0. TypeOK /\ Budget /\ PhaseInv /\ LogInv /\ CacheInv
  BY DEF IInv
<1>a. phase = "install" /\ phase' = "install" /\ tail \in 1 .. Len(lh) /\ tail' = tail + 1
  BY <1>0, LhFacts DEF install_trans, PhaseInv, TypeOK
<1>b. /\ disk' = [disk EXCEPT ![b] = v] /\ cache' = [cache EXCEPT ![b] = v]
      /\ dirty' = [dirty EXCEPT ![b] = FALSE]
  BY DEF install_trans
<1>c. /\ UNCHANGED <<logblk, dhead, lh, outstanding, committing, booting, panicked>>
      /\ UNCHANGED <<at, wr, wrote>>
  BY DEF install_trans, ops
<1>d. Len(lh) \in Nat /\ b \in Block /\ v \in Val /\ b = lh[tail] /\ v = logblk[tail]
  <2>1. Len(lh) \in Nat /\ lh[tail] \in Block
    BY <1>0, <1>a, LhFacts
  <2>2. Len(lh) < logsize - 1 /\ logsize \in Nat
    BY <1>0, CountFacts, LogAssumption DEF logsize, LOGSIZE
  <2>3. tail \in LogArea
    BY <1>a, <2>1, <2>2 DEF LogArea
  <2>4. logblk[tail] \in Val
    BY <1>0, <2>3 DEF TypeOK
  <2> QED
    BY <2>1, <2>4
<1>e. \A i \in 1 .. Len(lh) : lh[i] \in Block /\ (i # tail => lh[i] # b)
  BY <1>0, <1>a, LhFacts DEF LogInv
<1> HIDE DEF b, v
<1>1. Budget' /\ CallInv' /\ SleeperHasWaker'
  BY <1>c, CommitFrame
<1>2. TypeOK'
  BY <1>0, <1>a, <1>b, <1>c, <1>d DEF TypeOK
<1>3. PhaseInv'
  BY <1>0, <1>a, <1>c, <1>d DEF PhaseInv
<1>f. /\ disk'[b] = v /\ cache'[b] = v
      /\ \A x \in Block \ {b} : disk'[x] = disk[x] /\ cache'[x] = cache[x] /\ dirty'[x] = dirty[x]
  BY <1>0, <1>b, <1>d, Zenon DEF TypeOK
<1>4. LogInv'
  <2>1. ASSUME ~booting, NEW i \in 1 .. Len(lh) PROVE logblk[i] = cache'[lh[i]]
    BY <1>0, <1>a, <1>d, <1>e, <1>f, <2>1 DEF LogInv
  <2>2. ASSUME NEW i \in 1 .. tail PROVE disk'[lh[i]] = logblk[i]
    <3>1. CASE i = tail
      BY <1>d, <1>f, <3>1
    <3>2. CASE i # tail
      <4>1. i \in 1 .. tail - 1 /\ i \in 1 .. Len(lh)
        BY <1>a, <1>d, <3>2
      <4> QED
        BY <1>0, <1>a, <1>e, <1>f, <3>2, <4>1 DEF LogInv
    <3> QED
      BY <3>1, <3>2
  <2>3. tail' - 1 = tail
    BY <1>a, <1>d
  <2> QED
    BY <1>0, <1>a, <1>c, <2>1, <2>2, <2>3 DEF LogInv
<1>5. CacheInv'
  <2>1. ASSUME NEW i \in 1 .. Len(lh), ~booting, i >= tail + 1 PROVE dirty'[lh[i]] = TRUE
    BY <1>0, <1>a, <1>d, <1>e, <1>f, <2>1 DEF CacheInv, Waiting
  <2>2. ASSUME NEW x \in Block, x # b, cache[x] # disk[x], \A o \in Op : wr[o] # x
        PROVE  \E i \in 1 .. Len(lh) : lh[i] = x /\ ~booting /\ i >= tail + 1
    BY <1>0, <1>a, <1>d, <2>2 DEF CacheInv, Waiting
  <2> QED
    BY <1>a, <1>c, <1>f, <2>1, <2>2, Zenon DEF CacheInv, Waiting
<1> QED
  BY <1>1, <1>2, <1>3, <1>4, <1>5 DEF IInv

\* The header is erased when all is installed.
LEMMA EraseStep ==
  ASSUME IInv, Erase
  PROVE  IInv'
<1>0. TypeOK /\ Budget /\ CallInv /\ PhaseInv /\ CacheInv /\ SleeperHasWaker
  BY DEF IInv
<1>a. /\ phase = "install" /\ lh' = <<>> /\ dhead' = <<>> /\ booting' = FALSE /\ tail' = 1
      /\ phase' = IF booting THEN "none" ELSE "done"
      /\ UNCHANGED <<disk, logblk, cache, dirty, outstanding, committing, panicked>>
      /\ UNCHANGED <<at, wr, wrote>>
  BY DEF Erase, ops
<1>b. tail > Len(lh) /\ Len(lh) \in Nat /\ tail \in Nat
  BY <1>0, LhFacts DEF Erase, TypeOK
<1>c. \A o \in Op : at[o] \notin InCall
  BY <1>0, <1>a DEF PhaseInv
<1>d. outstanding = 0
  BY <1>0, <1>c, CountFacts
<1>1. TypeOK'
  <2>1. lh' \in Seq(Block) /\ dhead' \in Seq(Block)
    BY <1>a, EmptySeq
  <2>2. phase' \in {"none", "log", "head", "install", "done"}
    BY <1>a
  <2> QED
    BY <1>0, <1>a, <2>1, <2>2, Zenon DEF TypeOK
<1>2. Budget'
  <2>1. Active' = {}
    BY <1>a, <1>c DEF Active
  <2>2. Charged' = {}
    BY <2>1 DEF Charged, Pairs
  <2>3. Len(lh') = 0 /\ outstanding' = 0
    BY <1>a, <1>d
  <2>4. Len(lh') + OpBlocks * outstanding' <= MAXOPBLOCKS + 2 * OpBlocks + Cardinality(Charged')
    BY <2>2, <2>3, FS_EmptySet, LogAssumption
  <2> QED
    BY <2>1, <2>3, <2>4, FS_EmptySet DEF Budget
<1>3. CallInv' /\ SleeperHasWaker'
  BY <1>0, <1>a DEF CallInv, SleeperHasWaker
<1>4. PhaseInv'
  BY <1>0, <1>a, <1>c DEF PhaseInv, TypeOK
<1>5. LogInv'
  BY <1>a DEF LogInv
<1>6. CacheInv'
  BY <1>0, <1>a, <1>b DEF CacheInv, Waiting
<1> QED
  BY <1>1, <1>2, <1>3, <1>4, <1>5, <1>6 DEF IInv

\* The end of a commit wakes every sleeper of begin_op().
LEMMA CommitDoneStep ==
  ASSUME IInv, CommitDone
  PROVE  IInv'
<1>0. TypeOK /\ Budget /\ CallInv /\ PhaseInv /\ LogInv /\ CacheInv
  BY DEF IInv
<1>a. /\ phase = "done" /\ phase' = "none" /\ committing' = FALSE /\ at' = wakeup(at)
      /\ UNCHANGED <<disk, logblk, dhead, cache, dirty, lh, outstanding, wr, wrote, tail,
                     booting, panicked>>
  BY DEF CommitDone, ondisk
<1>b. \A o \in Op : at[o] \notin InCall
  BY <1>0, <1>a DEF PhaseInv
<1>c. /\ \A o \in Op : /\ at'[o] # "asleep"
                       /\ at'[o] = at[o] \/ (at[o] = "asleep" /\ at'[o] = "begin")
      /\ at' \in [Op -> {"idle", "begin", "asleep"} \cup InCall]
  BY <1>0, <1>a DEF TypeOK, wakeup
<1>d. ~booting /\ lh = <<>>
  BY <1>0, <1>a, <1>b, CountFacts DEF PhaseInv
<1>1. TypeOK'
  BY <1>0, <1>a, <1>c, Zenon DEF TypeOK
<1>2. Budget'
  BY <1>0, <1>a, <1>c, BudgetFrame, Zenon DEF InCall
<1>3. CallInv'
  BY <1>0, <1>a, <1>c DEF CallInv, InWrite
<1>4. PhaseInv'
  BY <1>0, <1>a, <1>d DEF PhaseInv
<1>5. LogInv' /\ CacheInv'
  BY <1>0, <1>a, <1>d DEF LogInv, CacheInv, Waiting
<1>6. SleeperHasWaker'
  BY <1>c DEF SleeperHasWaker
<1> QED
  BY <1>1, <1>2, <1>3, <1>4, <1>5, <1>6 DEF IInv

-----------------------------------------------------------------------------
(***************************************************************************)
(* The buffer cache and the machine.                                       *)
(***************************************************************************)
\* A block that bget() may recycle is the same in the cache and at home.
LEMMA EvictFacts ==
  ASSUME IInv, NEW b \in Block, Evict(b)
  PROVE  cache' = cache
<1>0. TypeOK /\ CacheInv
  BY DEF IInv
<1>1. cache[b] = disk[b]
  BY <1>0 DEF Evict, CacheInv
<1> QED
  BY <1>0, <1>1 DEF Evict, TypeOK

\* Recycling a clean buffer changes nothing.
LEMMA EvictStep ==
  ASSUME IInv, NEW b \in Block, Evict(b)
  PROVE  IInv'
<1>1. UNCHANGED vars
  BY EvictFacts, Zenon DEF Evict, vars, ondisk, ops
<1> QED
  BY <1>1, VarsFrame

\* After a crash recovery starts from the header on disk.
LEMMA CrashStep ==
  ASSUME IInv, Crash
  PROVE  IInv'
<1>0. TypeOK /\ Budget /\ PhaseInv /\ LogInv
  BY DEF IInv
<1>a. lh' = lh \/ lh' = <<>>
  BY <1>0 DEF Crash, PhaseInv
<1>b. /\ disk' = disk /\ dhead' = dhead /\ logblk' = logblk /\ lh' = dhead /\ cache' = disk
      /\ outstanding' = 0 /\ tail' = 1 /\ phase' = "install" /\ booting' = TRUE
      /\ committing' = FALSE /\ \A o \in Op : at'[o] = "idle" /\ wr'[o] = NoBlock
  BY DEF Crash, ondisk
<1>1. TypeOK'
  BY <1>0, Zenon DEF TypeOK, Crash, ondisk
<1>c. Len(lh') \in Nat
  BY <1>1, LenProperties DEF TypeOK
<1>2. Budget'
  <2>1. Active' = {}
    BY <1>b DEF Active, InCall
  <2>2. Charged' = {}
    BY <2>1 DEF Charged, Pairs
  <2>3. Len(lh') <= MAXOPBLOCKS + 2 * OpBlocks
    BY <1>0, <1>a, CountFacts, LogAssumption
  <2>4. Len(lh') + OpBlocks * outstanding' <= MAXOPBLOCKS + 2 * OpBlocks + Cardinality(Charged')
    BY <1>b, <1>c, <2>2, <2>3, FS_EmptySet, LogAssumption
  <2> QED
    BY <1>b, <2>1, <2>4, FS_EmptySet DEF Budget
<1>3. CallInv' /\ SleeperHasWaker'
  BY <1>b DEF CallInv, SleeperHasWaker, InWrite
<1>4. PhaseInv'
  BY <1>b, <1>c DEF PhaseInv, InCall
<1>5. LogInv'
  BY <1>0, <1>a, <1>b DEF LogInv
<1>6. CacheInv'
  BY <1>b DEF CacheInv, Waiting
<1> QED
  BY <1>1, <1>2, <1>3, <1>4, <1>5, <1>6 DEF IInv

\* The first boot finds an empty log.
LEMMA InitIInv == Init => IInv
<1> SUFFICES ASSUME Init PROVE IInv
  OBVIOUS
<1>1. TypeOK
  <2>1. dhead \in Seq(Block) /\ lh \in Seq(Block)
    BY EmptySeq DEF Init
  <2>2. disk \in [Block -> Val] /\ cache \in [Block -> Val] /\ logblk \in [LogArea -> Val]
    BY DEF Init
  <2>3. /\ dirty \in [Block -> BOOLEAN] /\ wr \in [Op -> Block \cup {NoBlock}]
        /\ wrote \in [Op -> SUBSET Block]
        /\ at \in [Op -> {"idle", "begin", "asleep"} \cup InCall]
    BY DEF Init
  <2> QED
    BY <2>1, <2>2, <2>3, Zenon DEF Init, TypeOK
<1>2. Budget
  <2>1. Active = {}
    BY DEF Active, InCall, Init
  <2>2. Charged = {} /\ Len(lh) = 0 /\ outstanding = 0
    BY <2>1 DEF Charged, Pairs, Init
  <2>3. Len(lh) + OpBlocks * outstanding <= MAXOPBLOCKS + 2 * OpBlocks + Cardinality(Charged)
    BY <2>2, FS_EmptySet, LogAssumption
  <2> QED
    BY <2>1, <2>2, <2>3, FS_EmptySet DEF Budget
<1>3. CallInv /\ PhaseInv /\ LogInv /\ CacheInv /\ SleeperHasWaker
  BY DEF Init, CallInv, PhaseInv, LogInv, CacheInv, Waiting, SleeperHasWaker, InWrite, InCall
<1> QED
  BY <1>1, <1>2, <1>3 DEF IInv

\* Every step keeps the invariant, and none panics.
LEMMA NextIInv == IInv /\ ~panicked /\ [Next]_vars => IInv' /\ ~panicked'
<1> SUFFICES ASSUME IInv, ~panicked, [Next]_vars PROVE IInv' /\ ~panicked'
  OBVIOUS
<1>1. ASSUME NEW o \in Op, Call(o) PROVE IInv' /\ ~panicked'
  BY <1>1, CallStep, Zenon DEF Call
<1>2. ASSUME NEW o \in Op, begin_op(o) PROVE IInv' /\ ~panicked'
  BY <1>2, begin_opStep DEF begin_op
<1>3. ASSUME NEW o \in Op, NEW b \in Block, NEW v \in Val, Modify(o, b, v)
      PROVE  IInv' /\ ~panicked'
  BY <1>3, ModifyStep, Zenon DEF Modify
<1>4. ASSUME NEW o \in Op, log_writeCheck(o) \/ end_op(o) PROVE IInv' /\ ~panicked'
  BY <1>4, log_writeCheckStep, end_opStep
<1>5. ASSUME NEW o \in Op, log_writeAppend(o) PROVE IInv' /\ ~panicked'
  BY <1>5, log_writeAppendStep, Zenon DEF log_writeAppend
<1>6. CASE CommitStep
  <2>1. IInv'
    BY <1>6, write_logStep, write_headStep, install_transStep, EraseStep, CommitDoneStep DEF CommitStep
  <2>2. panicked' = panicked
    BY <1>6 DEF CommitStep, write_log, write_logEnd, write_head, install_trans, Erase, CommitDone
  <2> QED
    BY <2>1, <2>2
<1>7. ASSUME NEW b \in Block, Evict(b) PROVE IInv' /\ ~panicked'
  BY <1>7, EvictStep, Zenon DEF Evict
<1>8. CASE Crash
  BY <1>8, CrashStep, Zenon DEF Crash
<1>9. CASE UNCHANGED vars
  BY <1>9, VarsFrame DEF vars
<1> QED
  BY <1>1, <1>2, <1>3, <1>4, <1>5, <1>6, <1>7, <1>8, <1>9 DEF Next, Running, OpStep

\* The inductive invariant holds, and log.c never panics.
THEOREM Invariance == Spec => [](IInv /\ ~panicked)
<1>1. Init => IInv /\ ~panicked
  BY InitIInv DEF Init
<1> QED
  BY <1>1, NextIInv, PTL DEF Spec

\* The types of the state of log.c.
THEOREM LogTypes == Spec => []TypeOK
<1>1. IInv => TypeOK
  BY DEF IInv
<1> QED
  BY <1>1, Invariance, PTL

\* The reservation of begin_op() keeps the transaction in the log area and log_write()
\* from its panics, for any number of calls.
THEOREM LogReservation == Spec => []ReservationFits
<1>1. IInv /\ ~panicked => ReservationFits
  BY CountFacts, LogAssumption DEF IInv, ReservationFits, logsize, LOGSIZE
<1> QED
  BY <1>1, Invariance, PTL

\* A process asleep in begin_op() has a call or a commit to wake it.
THEOREM LogSleepers == Spec => []SleeperHasWaker
<1>1. IInv => SleeperHasWaker
  BY DEF IInv
<1> QED
  BY <1>1, Invariance, PTL

-----------------------------------------------------------------------------
(***************************************************************************)
(* The refinement of AtomicDisk.                                           *)
(***************************************************************************)
\* Home blocks d under a log with header h and blocks l: StableDisk for any state.
Overlay(d, l, h) ==
  [b \in Block |->
    IF \E i \in DOMAIN h : h[i] = b
    THEN l[CHOOSE i \in DOMAIN h :
             h[i] = b /\ \A j \in DOMAIN h : h[j] = b => j <= i]
    ELSE d[b]]

\* A block the header names once is read from its log block, any other from home.
LEMMA OverlayFacts ==
  ASSUME NEW d, NEW l, NEW h \in Seq(Block),
         \A i, j \in 1 .. Len(h) : h[i] = h[j] => i = j
  PROVE  /\ \A i \in 1 .. Len(h) : Overlay(d, l, h)[h[i]] = l[i]
         /\ \A b \in Block : (\A i \in 1 .. Len(h) : h[i] # b) => Overlay(d, l, h)[b] = d[b]
<1>0. Len(h) \in Nat /\ DOMAIN h = 1 .. Len(h) /\ \A i \in 1 .. Len(h) : h[i] \in Block
  BY LenProperties, ElementOfSeq
<1>1. ASSUME NEW i \in 1 .. Len(h) PROVE Overlay(d, l, h)[h[i]] = l[i]
  <2> DEFINE Is(k) == h[k] = h[i] /\ \A j \in DOMAIN h : h[j] = h[i] => j <= k
  <2>1. i \in DOMAIN h /\ Is(i)
    BY <1>0
  <2>2. \A k \in DOMAIN h : Is(k) => k = i
    BY <1>0
  <2>3. (CHOOSE k \in DOMAIN h : Is(k)) = i
    BY <2>1, <2>2
  <2> QED
    BY <1>0, <2>3, Zenon DEF Overlay
<1>2. ASSUME NEW b \in Block, \A i \in 1 .. Len(h) : h[i] # b PROVE Overlay(d, l, h)[b] = d[b]
  BY <1>0, <1>2 DEF Overlay
<1> QED
  BY <1>1, <1>2

\* What a crash would leave, before and after a step.
LEMMA StableOverlay ==
  /\ StableDisk = Overlay(disk, logblk, dhead)
  /\ StableDisk' = Overlay(disk', logblk', dhead')
BY DEF StableDisk, Overlay

\* Two overlays are equal when they agree on every block.
LEMMA OverlayEqual ==
  ASSUME NEW d, NEW l, NEW h, NEW f, f = [b \in Block |-> f[b]],
         \A b \in Block : Overlay(d, l, h)[b] = f[b]
  PROVE  Overlay(d, l, h) = f
<1>1. Overlay(d, l, h) = [b \in Block |-> Overlay(d, l, h)[b]]
  BY DEF Overlay
<1> QED
  BY <1>1

\* An empty header leaves the home blocks.
LEMMA EmptyOverlay ==
  ASSUME NEW d \in [Block -> Val], NEW l
  PROVE  Overlay(d, l, <<>>) = d
BY DEF Overlay

\* When no commit is in progress and no call is, a crash preserves the cache.
THEOREM LogDurable == Spec => []Durable
<1>1. ASSUME IInv PROVE Durable
  <2>1. SUFFICES ASSUME phase = "none", outstanding = 0 PROVE StableDisk = cache
    BY DEF Durable
  <2>2. dhead = <<>> /\ lh = <<>> /\ disk \in [Block -> Val] /\ cache \in [Block -> Val]
    BY <1>1, <2>1 DEF IInv, PhaseInv, TypeOK
  <2>3. StableDisk = disk
    BY <2>2, StableOverlay, EmptyOverlay
  <2>4. \A o \in Op : at[o] \notin InCall
    BY <1>1, <2>1, CountFacts DEF IInv
  <2>5. \A o \in Op : wr[o] \notin Block
    BY <1>1, <2>4, LogAssumption DEF IInv, CallInv, InWrite, InCall
  <2>6. \A b \in Block : cache[b] = disk[b]
    BY <1>1, <2>2, <2>5 DEF IInv, CacheInv
  <2> QED
    BY <2>2, <2>3, <2>6
<1> QED
  BY <1>1, Invariance, PTL

\* The first boot is an initial state of AtomicDisk.
LEMMA InitRefines == Init => A!Init
<1> SUFFICES ASSUME Init PROVE A!Init
  OBVIOUS
<1>1. StableDisk = disk
  BY StableOverlay, EmptyOverlay DEF Init
<1>2. Active = {}
  BY DEF Init, Active, InCall
<1> QED
  BY <1>1, <1>2 DEF A!Init, Init, Visible

\* A step that changes neither what a crash would leave nor what calls see.
LEMMA Stutters ==
  ASSUME UNCHANGED <<StableDisk, Visible, Active>>
  PROVE  [A!Next]_A!avars
BY DEF A!avars

\* The steps of a call.
LEMMA OpRefines ==
  ASSUME IInv, NEW o \in Op, Call(o) \/ OpStep(o)
  PROVE  [A!Next]_A!avars
<1>0. TypeOK
  BY DEF IInv
<1>1. UNCHANGED <<disk, logblk, dhead, cache, booting>>
  BY DEF Call, OpStep, begin_op, log_writeCheck, log_writeAppend, end_op, ondisk
<1>2. UNCHANGED <<StableDisk, Visible>>
  BY <1>1, StableOverlay DEF Visible
<1>3. CASE Call(o)
  <2>1. Active' = Active
    BY <1>0, <1>3 DEF Call, Goto, Active, InCall, TypeOK
  <2> QED
    BY <1>2, <2>1, Stutters
<1>4. CASE begin_op(o)
  <2>1. Active' = Active \/ (o \notin Active /\ Active' = Active \cup {o})
    BY <1>0, <1>4 DEF begin_op, Goto, Active, InCall, TypeOK
  <2>2. ASSUME o \notin Active, Active' = Active \cup {o} PROVE A!Next
    BY <1>2, <2>2 DEF A!Next, A!Begin
  <2> QED
    BY <1>2, <2>1, <2>2, Stutters
<1>5. CASE log_writeCheck(o) \/ log_writeAppend(o)
  <2>1. Active' = Active
    BY <1>0, <1>5 DEF log_writeCheck, log_writeAppend, Goto, Active, InCall, TypeOK
  <2> QED
    BY <1>2, <2>1, Stutters
<1>6. CASE end_op(o)
  <2>1. o \in Active /\ Active' = Active \ {o}
    BY <1>0, <1>6 DEF end_op, wakeup, Goto, Active, InCall, TypeOK
  <2>2. A!Next
    BY <1>2, <2>1 DEF A!Next, A!End
  <2> QED
    BY <2>2
<1> QED
  BY <1>3, <1>4, <1>5, <1>6 DEF OpStep

\* Changing a buffer is a write of AtomicDisk.
LEMMA ModifyRefines ==
  ASSUME IInv, NEW o \in Op, NEW b \in Block, NEW v \in Val, Modify(o, b, v)
  PROVE  [A!Next]_A!avars
<1>1. ~booting /\ o \in Active /\ Active' = Active
  BY OpFacts, Zenon DEF IInv, TypeOK, Modify, Goto, Active, InCall
<1>2. StableDisk' = StableDisk /\ booting' = booting
  BY StableOverlay, Zenon DEF Modify, ondisk
<1>3. Visible' = [Visible EXCEPT ![b] = v]
  BY <1>1, <1>2 DEF Modify, Visible
<1>4. A!Write(o, b, v)
  BY <1>1, <1>2, <1>3 DEF A!Write
<1> QED
  BY <1>4 DEF A!Next

\* Writing the log is invisible, writing its header is the commit.
LEMMA WriteRefines ==
  ASSUME IInv, write_log \/ write_logEnd \/ write_head \/ CommitDone
  PROVE  [A!Next]_A!avars
<1>0. TypeOK /\ PhaseInv /\ LogInv /\ CacheInv /\ CallInv
  BY DEF IInv
<1>a. disk \in [Block -> Val] /\ cache \in [Block -> Val] /\ lh \in Seq(Block)
  BY <1>0 DEF TypeOK
<1>b. /\ phase \in {"log", "head", "done"} /\ ~booting /\ dhead = <<>>
      /\ \A o \in Op : at[o] \notin InCall
  BY <1>0, Zenon DEF PhaseInv, write_log, write_logEnd, write_head, CommitDone
<1>c. Active = {} /\ Active' = {}
  <2>1. \A o \in Op : at'[o] \notin InCall
    BY <1>0, <1>b, Zenon DEF write_log, write_logEnd, write_head, CommitDone, ops, wakeup, InCall, TypeOK
  <2> QED
    BY <1>b, <2>1 DEF Active
<1>d. Visible' = Visible /\ Visible = cache
  BY <1>b DEF Visible, write_log, write_logEnd, write_head, CommitDone
<1>e. StableDisk = disk
  BY <1>a, <1>b, StableOverlay, EmptyOverlay
<1>f. disk' = disk
  BY DEF write_log, write_logEnd, write_head, CommitDone, ondisk
<1>1. CASE write_log \/ write_logEnd \/ CommitDone
  <2>1. dhead' = <<>>
    BY <1>1, <1>b, Zenon DEF write_log, write_logEnd, CommitDone, ondisk
  <2>2. StableDisk' = disk
    BY <1>a, <1>f, <2>1, StableOverlay, EmptyOverlay
  <2> QED
    BY <1>c, <1>d, <1>e, <2>2, Stutters
<1>2. CASE write_head
  <2>1. phase = "head" /\ dhead' = lh /\ logblk' = logblk
    BY <1>2 DEF write_head
  <2>2. StableDisk' = Overlay(disk, logblk, lh)
    BY <1>f, <2>1, StableOverlay
  <2>3. ASSUME NEW b \in Block PROVE Overlay(disk, logblk, lh)[b] = cache[b]
    <3>1. \A i, j \in 1 .. Len(lh) : lh[i] = lh[j] => i = j
      BY <1>0 DEF LogInv
    <3>2. CASE \E i \in 1 .. Len(lh) : lh[i] = b
      <4>1. PICK i \in 1 .. Len(lh) : lh[i] = b
        BY <3>2
      <4>2. logblk[i] = cache[lh[i]]
        BY <1>0, <2>1 DEF LogInv
      <4> QED
        BY <1>a, <3>1, <4>1, <4>2, OverlayFacts
    <3>3. CASE \A i \in 1 .. Len(lh) : lh[i] # b
      <4>1. Overlay(disk, logblk, lh)[b] = disk[b]
        BY <1>a, <3>1, <3>3, OverlayFacts
      <4>2. \A o \in Op : wr[o] # b
        BY <1>0, <1>b, LogAssumption DEF CallInv, InWrite, InCall
      <4>3. cache[b] = disk[b]
        BY <1>0, <3>3, <4>2 DEF CacheInv
      <4> QED
        BY <4>1, <4>3
    <3> QED
      BY <3>2, <3>3
  <2>4. cache = [b \in Block |-> cache[b]]
    BY <1>a
  <2>5. StableDisk' = cache
    BY <2>2, <2>3, <2>4, OverlayEqual
  <2>6. A!Commit
    BY <1>c, <1>d, <2>5 DEF A!Commit
  <2> QED
    BY <2>6 DEF A!Next
<1> QED
  BY <1>1, <1>2

\* Installing copies from the log to a block that is read from the log.
LEMMA InstallRefines ==
  ASSUME IInv, IInv', install_trans
  PROVE  [A!Next]_A!avars
<1>0. TypeOK /\ Budget /\ PhaseInv /\ LogInv
  BY DEF IInv
<1>a. /\ phase = "install" /\ dhead = lh /\ tail \in 1 .. Len(lh) /\ lh \in Seq(Block)
      /\ disk' = [disk EXCEPT ![lh[tail]] = logblk[tail]]
      /\ cache' = [cache EXCEPT ![lh[tail]] = logblk[tail]]
  BY <1>0, LhFacts DEF PhaseInv, install_trans, TypeOK
<1>b. UNCHANGED <<logblk, dhead, lh, at, booting>>
  BY DEF install_trans, ops
<1>c. \A i, j \in 1 .. Len(lh) : lh[i] = lh[j] => i = j
  BY <1>0, Zenon DEF LogInv
<1>d. /\ StableDisk = Overlay(disk, logblk, lh)
      /\ StableDisk' = Overlay(disk', logblk, lh)
  BY <1>a, <1>b, StableOverlay
<1>e. /\ \A i \in 1 .. Len(lh) : /\ Overlay(disk, logblk, lh)[lh[i]] = logblk[i]
                                 /\ Overlay(disk', logblk, lh)[lh[i]] = logblk[i]
      /\ \A b \in Block : (\A i \in 1 .. Len(lh) : lh[i] # b)
                             => Overlay(disk, logblk, lh)[b] = disk[b]
  <2>0. lh \in Seq(Block)
    BY <1>a
  <2>1. \A i \in 1 .. Len(lh) : Overlay(disk, logblk, lh)[lh[i]] = logblk[i]
    BY <2>0, <1>c, OverlayFacts
  <2>2. \A i \in 1 .. Len(lh) : Overlay(disk', logblk, lh)[lh[i]] = logblk[i]
    BY <2>0, <1>c, OverlayFacts
  <2>3. \A b \in Block : (\A i \in 1 .. Len(lh) : lh[i] # b)
                           => Overlay(disk, logblk, lh)[b] = disk[b]
    BY <2>0, <1>c, OverlayFacts
  <2> QED
    BY <2>1, <2>2, <2>3, Zenon
<1>1. ASSUME NEW b \in Block PROVE Overlay(disk', logblk, lh)[b] = Overlay(disk, logblk, lh)[b]
  <2>1. CASE \E i \in 1 .. Len(lh) : lh[i] = b
    <3>1. PICK i \in 1 .. Len(lh) : lh[i] = b
      BY <2>1
    <3>2. /\ Overlay(disk, logblk, lh)[lh[i]] = logblk[i]
          /\ Overlay(disk', logblk, lh)[lh[i]] = logblk[i]
      BY <1>e, Zenon
    <3> QED
      BY <3>1, <3>2, Zenon
  <2>2. CASE \A i \in 1 .. Len(lh) : lh[i] # b
    <3>1. disk'[b] = disk[b]
      BY <1>0, <1>a, <2>2 DEF TypeOK
    <3>2. Overlay(disk, logblk, lh)[b] = disk[b]
      BY <1>e, <2>2, Zenon
    <3>3. Overlay(disk', logblk, lh)[b] = disk'[b]
      BY <1>0, <2>2, LhFacts DEF Overlay
    <3> QED
      BY <3>1, <3>2, <3>3
  <2> QED
    BY <2>1, <2>2, Zenon
<1>2. Overlay(disk, logblk, lh) = [b \in Block |-> Overlay(disk, logblk, lh)[b]]
  BY DEF Overlay
<1>3. StableDisk' = StableDisk
  BY <1>1, <1>2, <1>d, OverlayEqual
<1>4. ~booting => cache' = cache
  <2>1. ~booting => logblk[tail] = cache[lh[tail]]
    BY <1>0, <1>a DEF LogInv
  <2> QED
    BY <1>0, <1>a, <2>1 DEF TypeOK
<1>5. Visible' = Visible
  BY <1>3, <1>4, <1>b DEF Visible
<1>6. Active' = Active
  BY <1>b DEF Active
<1> QED
  BY <1>3, <1>5, <1>6, Stutters

\* Everything is installed when the header is erased.
LEMMA EraseRefines ==
  ASSUME IInv, Erase
  PROVE  [A!Next]_A!avars
<1>0. TypeOK /\ PhaseInv /\ LogInv /\ CacheInv /\ CallInv
  BY DEF IInv
<1>a. /\ phase = "install" /\ dhead = lh /\ dhead' = <<>> /\ lh \in Seq(Block)
      /\ Len(lh) \in Nat /\ tail = Len(lh) + 1
      /\ disk' = disk /\ cache' = cache /\ booting' = FALSE /\ at' = at
      /\ disk \in [Block -> Val] /\ cache \in [Block -> Val]
  <2>1. lh \in Seq(Block) /\ disk \in [Block -> Val] /\ cache \in [Block -> Val]
    BY <1>0, Zenon DEF TypeOK
  <2>2. Len(lh) \in Nat
    BY <1>0, LhFacts, Zenon
  <2>3. /\ phase = "install" /\ tail > Len(lh) /\ dhead' = <<>>
        /\ disk' = disk /\ cache' = cache /\ booting' = FALSE /\ at' = at
    BY DEF Erase, ops
  <2>4. dhead = lh /\ tail \in 1 .. Len(lh) + 1
    BY <1>0, <2>3, Zenon DEF PhaseInv
  <2>5. tail = Len(lh) + 1
    BY <2>2, <2>3, <2>4
  <2> QED
    BY <2>1, <2>2, <2>3, <2>4, <2>5
<1>b. StableDisk' = disk
  BY <1>a, StableOverlay, EmptyOverlay
<1>c. StableDisk = Overlay(disk, logblk, lh)
  BY <1>a, StableOverlay
<1>1. ASSUME NEW b \in Block PROVE Overlay(disk, logblk, lh)[b] = disk[b]
  <2>1. \A i, j \in 1 .. Len(lh) : lh[i] = lh[j] => i = j
    BY <1>0 DEF LogInv
  <2>2. \A i \in 1 .. Len(lh) : disk[lh[i]] = logblk[i]
    BY <1>0, <1>a DEF LogInv
  <2>3. CASE \E i \in 1 .. Len(lh) : lh[i] = b
    BY <1>a, <2>1, <2>2, <2>3, OverlayFacts
  <2>4. CASE \A i \in 1 .. Len(lh) : lh[i] # b
    BY <1>a, <2>1, <2>4, OverlayFacts
  <2> QED
    BY <2>3, <2>4
<1>2. StableDisk = disk
  <2>1. disk = [b \in Block |-> disk[b]]
    BY <1>a
  <2> QED
    BY <1>1, <1>c, <2>1, OverlayEqual
<1>3. booting => cache = disk
  <2>1. ASSUME booting, NEW b \in Block PROVE cache[b] = disk[b]
    <3>1. \A o \in Op : wr[o] # b
      BY <1>0, <2>1, LogAssumption DEF PhaseInv, CallInv, InWrite
    <3> QED
      BY <1>0, <2>1, <3>1 DEF CacheInv, Waiting
  <2> QED
    BY <1>a, <2>1
<1>4. Visible' = Visible
  BY <1>2, <1>3, <1>a DEF Visible
<1>5. Active' = Active
  BY <1>a DEF Active
<1> QED
  BY <1>2, <1>4, <1>5, <1>b, Stutters

\* A crash is one of AtomicDisk.
LEMMA CrashRefines ==
  ASSUME Crash
  PROVE  [A!Next]_A!avars
<1>1. StableDisk' = StableDisk
  BY DEF Crash, ondisk, StableDisk
<1>2. Visible' = StableDisk
  BY <1>1 DEF Crash, Visible
<1>3. Active' = {}
  BY DEF Crash, Active, InCall
<1>4. A!Crash
  BY <1>1, <1>2, <1>3 DEF A!Crash
<1> QED
  BY <1>4 DEF A!Next

\* Every step of the log is a step of AtomicDisk or none.
LEMMA NextRefines == IInv /\ IInv' /\ [Next]_vars => [A!Next]_A!avars
<1> SUFFICES ASSUME IInv, IInv', [Next]_vars PROVE [A!Next]_A!avars
  OBVIOUS
<1>1. ASSUME NEW b \in Block, Evict(b) PROVE [A!Next]_A!avars
  <2>1. UNCHANGED <<StableDisk, Visible, Active>>
    <3>1. UNCHANGED <<disk, logblk, dhead, cache, booting, at>>
      BY <1>1, EvictFacts, Zenon DEF Evict, ondisk, ops
    <3> QED
      BY <3>1, StableOverlay DEF Visible, Active
  <2> QED
    BY <2>1, Stutters
<1>2. CASE UNCHANGED vars
  <2>1. UNCHANGED <<StableDisk, Visible, Active>>
    <3>1. UNCHANGED <<disk, logblk, dhead, cache, booting, at>>
      BY <1>2 DEF vars
    <3> QED
      BY <3>1, StableOverlay DEF Visible, Active
  <2> QED
    BY <2>1, Stutters
<1>3. CASE CommitStep
  BY <1>3, WriteRefines, InstallRefines, EraseRefines DEF CommitStep
<1> QED
  BY <1>1, <1>2, <1>3, OpRefines, ModifyRefines, CrashRefines DEF Next, Running

\* File system calls are atomic with respect to crashes: the log implements the disk
\* of AtomicDisk, whatever the number of calls, blocks and values.
THEOREM LogRefinement == Spec => CrashAtomic
<1>1. IInv /\ ~panicked => IInv
  OBVIOUS
<1> QED
  BY <1>1, Invariance, InitRefines, NextRefines, PTL DEF Spec, CrashAtomic, A!Spec
=============================================================================
