--------------------------- MODULE LockingProofs ----------------------------
(***************************************************************************)
(* The properties of Spinlock, for any set of CPUs and any finite set of   *)
(* locks, and those of Switching, for any number of CPUs and threads.      *)
(***************************************************************************)
EXTENDS Spinlock, FiniteSetTheorems, TLAPS

(***************************************************************************)
(* The inductive invariant.  The key is that FL_IF is set only outside     *)
(* acquire, release and every critical section, so a handler never finds   *)
(* the code below it in the middle of anything; the rest ties the lock     *)
(* words and the pushcli depth to where each CPU is.                       *)
(***************************************************************************)
Owns(c, l) == l \in held[c] \/ (at[c] = "record" /\ lk[c] = l)

\* Does the code on c have a pushcli outstanding beyond one per held lock?
Extra(c) == IF at[c] \in {"test", "xchg", "record", "popcli"} THEN 1 ELSE 0

Quiet == \A c \in CPU :
  /\ iflag[c] => at[c] = "run" /\ held[c] = {} /\ ncli[c] = 0 /\ ~inintr[c]
  /\ inintr[c] => saved[c].at = "run" /\ saved[c].held = {}
Depth == \A c \in CPU :
  /\ ncli[c] = Cardinality(held[c]) + Extra(c)
  /\ ncli[c] > 0 => (intena[c] <=> ~inintr[c])
  /\ ncli[c] = 0 => (iflag[c] <=> ~inintr[c])
Words == \A l \in Lock :
  /\ \A c \in CPU : Owns(c, l) => locked[l]
  /\ \A c, d \in CPU : Owns(c, l) /\ Owns(d, l) => c = d
Args == \A c \in CPU :
  /\ at[c] \in {"test", "xchg", "record"} => lk[c] \notin held[c]
  /\ at[c] = "store" => lk[c] \in held[c]
Recorded == \A c \in CPU, l \in Lock :
  lkcpu[l] = c <=> l \in held[c] /\ ~(at[c] = "store" /\ lk[c] = l)

IInv == TypeOK /\ NoPanic /\ Quiet /\ Depth /\ Words /\ Args /\ Recorded

-----------------------------------------------------------------------------
\* Locks are finite in number, so every held set has a cardinality.
LEMMA HeldFinite ==
  ASSUME NEW S \in SUBSET Lock
  PROVE  /\ IsFiniteSet(S)
         /\ Cardinality(S) \in Nat
         /\ Cardinality(S) = 0 <=> S = {}
         /\ \A l \in Lock \ S : Cardinality(S \cup {l}) = Cardinality(S) + 1
         /\ \A l \in S : Cardinality(S \ {l}) = Cardinality(S) - 1
BY Zenon, LockAssumption, FS_Subset, FS_CardinalityType, FS_EmptySet, FS_AddElement,
   FS_RemoveElement

\* The kernel boots into the invariant: every lock is free, every CPU idle.
LEMMA InitIInv == Init => IInv
<1> SUFFICES ASSUME Init PROVE IInv
  OBVIOUS
<1>1. TypeOK
  BY LockAssumption, Zenon DEF Init, TypeOK, Loc, Frame
<1>2. Quiet /\ Words /\ Args /\ NoPanic
  BY DEF Init, Quiet, Words, Args, NoPanic, Owns
<1>3. Depth
  <2>1. Cardinality({}) = 0
    BY FS_EmptySet
  <2> QED
    BY <2>1 DEF Init, Depth, Extra
<1>4. Recorded
  BY CpuAssumption DEF Init, Recorded
<1> QED
  BY <1>1, <1>2, <1>3, <1>4 DEF IInv

\* Every step of a CPU keeps the invariant.
LEMMA StepIInv ==
  ASSUME IInv, ~panicked, NEW c \in CPU, Step(c)
  PROVE  IInv'
<1> USE DEF IInv
<1>1. ASSUME NEW l \in Lock, Acquire(c, l)
      PROVE  IInv'
  <2> USE <1>1 DEF Acquire, pushcli, Goto, perlock
  <2>0. l \notin held[c]
    BY LockAssumption DEF TypeOK
  <2>1. TypeOK'
    BY <2>0 DEF TypeOK, Loc, Frame
  <2>2. NoPanic' /\ Quiet'
    BY <2>0 DEF TypeOK, NoPanic, Quiet, Depth, Args, Recorded, Words, Owns
  <2>3. Depth'
    BY <2>0, HeldFinite DEF TypeOK, Quiet, Depth, Args, Extra
  <2>4. Words'
    BY <2>0 DEF TypeOK, Quiet, Words, Owns, Args
  <2>5. Args' /\ Recorded'
    BY <2>0, CpuAssumption DEF TypeOK, Quiet, Args, Recorded, Words, Owns
  <2> QED
    BY <2>1, <2>2, <2>3, <2>4, <2>5
<1>2. ASSUME NEW l \in Lock, Release(c, l)
      PROVE  IInv'
  <2> USE <1>2 DEF Release, holding, perlock, percpu, Goto
  <2>0. holding(c, l)
    BY DEF TypeOK, Recorded, Words, Owns
  <2>1. TypeOK'
    BY <2>0 DEF TypeOK, Loc, Frame
  <2>2. NoPanic' /\ Quiet'
    BY <2>0 DEF TypeOK, NoPanic, Quiet, Depth, Args, Recorded, Words, Owns
  <2>3. Depth'
    BY <2>0, HeldFinite DEF TypeOK, Quiet, Depth, Args, Extra
  <2>4. Words'
    BY <2>0 DEF TypeOK, Quiet, Words, Owns, Args
  <2>5. Args' /\ Recorded'
    BY <2>0, CpuAssumption DEF TypeOK, Quiet, Args, Recorded, Words, Owns
  <2> QED
    BY <2>1, <2>2, <2>3, <2>4, <2>5
<1>3. CASE AcquireTest(c)
  <2> USE <1>3 DEF AcquireTest, holding, perlock, percpu, Goto
  <2>1. TypeOK'
    BY DEF TypeOK, Loc, Frame
  <2>2. NoPanic' /\ Quiet'
    BY DEF TypeOK, NoPanic, Quiet, Depth, Args, Recorded, Words, Owns
  <2>3. Depth'
    BY HeldFinite DEF TypeOK, Quiet, Depth, Args, Extra
  <2>4. Words'
    BY DEF TypeOK, Quiet, Words, Owns, Args
  <2>5. Args' /\ Recorded'
    BY CpuAssumption DEF TypeOK, Quiet, Args, Recorded, Words, Owns
  <2> QED
    BY <2>1, <2>2, <2>3, <2>4, <2>5
<1>4. CASE AcquireXchg(c)
  <2> USE <1>4 DEF AcquireXchg, percpu, Goto
  <2>1. TypeOK'
    BY DEF TypeOK, Loc, Frame
  <2>2. NoPanic' /\ Quiet'
    BY DEF TypeOK, NoPanic, Quiet, Depth, Args, Recorded, Words, Owns
  <2>3. Depth'
    BY HeldFinite DEF TypeOK, Quiet, Depth, Args, Extra
  <2>4. Words'
    BY DEF TypeOK, Quiet, Words, Owns, Args
  <2>5. Args' /\ Recorded'
    BY CpuAssumption DEF TypeOK, Quiet, Args, Recorded, Words, Owns
  <2> QED
    BY <2>1, <2>2, <2>3, <2>4, <2>5
<1>5. CASE AcquireRecord(c)
  <2> USE <1>5 DEF AcquireRecord, percpu, Goto
  <2>1. TypeOK'
    BY DEF TypeOK, Loc, Frame
  <2>2. NoPanic' /\ Quiet'
    BY DEF TypeOK, NoPanic, Quiet, Depth, Args, Recorded, Words, Owns
  <2>3. Depth'
    BY HeldFinite DEF TypeOK, Quiet, Depth, Args, Extra
  <2>4. Words'
    BY DEF TypeOK, Quiet, Words, Owns, Args
  <2>5. Args' /\ Recorded'
    BY CpuAssumption DEF TypeOK, Quiet, Args, Recorded, Words, Owns
  <2> QED
    BY <2>1, <2>2, <2>3, <2>4, <2>5
<1>6. CASE ReleaseStore(c)
  <2> USE <1>6 DEF ReleaseStore, percpu, Goto
  <2>1. TypeOK'
    BY DEF TypeOK, Loc, Frame
  <2>2. NoPanic' /\ Quiet'
    BY DEF TypeOK, NoPanic, Quiet, Depth, Args, Recorded, Words, Owns
  <2>3. Depth'
    BY HeldFinite DEF TypeOK, Quiet, Depth, Args, Extra
  <2>4. Words'
    BY DEF TypeOK, Quiet, Words, Owns, Args
  <2>5. Args' /\ Recorded'
    BY CpuAssumption DEF TypeOK, Quiet, Args, Recorded, Words, Owns
  <2> QED
    BY <2>1, <2>2, <2>3, <2>4, <2>5
<1>7. CASE Popcli(c)
  <2> USE <1>7 DEF Popcli, popcli, perlock, Goto
  <2>0. ~iflag[c] /\ ncli[c] > 0 /\ (ncli[c] = 1 => held[c] = {})
    BY HeldFinite DEF TypeOK, Quiet, Depth, Extra
  <2>1. TypeOK'
    BY <2>0 DEF TypeOK, Loc, Frame
  <2>2. NoPanic' /\ Quiet'
    BY <2>0 DEF TypeOK, NoPanic, Quiet, Depth, Args, Recorded, Words, Owns
  <2>3. Depth'
    BY <2>0, HeldFinite DEF TypeOK, Quiet, Depth, Args, Extra
  <2>4. Words'
    BY <2>0 DEF TypeOK, Quiet, Words, Owns, Args
  <2>5. Args' /\ Recorded'
    BY <2>0, CpuAssumption DEF TypeOK, Quiet, Args, Recorded, Words, Owns
  <2> QED
    BY <2>1, <2>2, <2>3, <2>4, <2>5
<1>8. CASE Myproc(c)
  <2> USE <1>8 DEF Myproc, pushcli, perlock, Goto
  <2>1. TypeOK'
    BY DEF TypeOK, Loc, Frame
  <2>2. NoPanic' /\ Quiet'
    BY DEF TypeOK, NoPanic, Quiet, Depth, Args, Recorded, Words, Owns
  <2>3. Depth'
    BY HeldFinite DEF TypeOK, Quiet, Depth, Args, Extra
  <2>4. Words'
    BY DEF TypeOK, Quiet, Words, Owns, Args
  <2>5. Args' /\ Recorded'
    BY CpuAssumption DEF TypeOK, Quiet, Args, Recorded, Words, Owns
  <2> QED
    BY <2>1, <2>2, <2>3, <2>4, <2>5
<1>9. CASE Interrupt(c)
  <2> USE <1>9 DEF Interrupt, perlock, Goto
  <2>1. TypeOK'
    BY DEF TypeOK, Loc, Frame
  <2>2. NoPanic' /\ Quiet'
    BY DEF TypeOK, NoPanic, Quiet, Depth, Args, Recorded, Words, Owns
  <2>3. Depth'
    BY HeldFinite DEF TypeOK, Quiet, Depth, Args, Extra
  <2>4. Words'
    BY DEF TypeOK, Quiet, Words, Owns, Args
  <2>5. Args' /\ Recorded'
    BY CpuAssumption DEF TypeOK, Quiet, Args, Recorded, Words, Owns
  <2> QED
    BY <2>1, <2>2, <2>3, <2>4, <2>5
<1>10. CASE Iret(c)
  <2> USE <1>10 DEF Iret, perlock
  <2>0. ncli[c] = 0
    BY HeldFinite DEF TypeOK, Depth, Extra
  <2>1. TypeOK'
    BY <2>0 DEF TypeOK, Loc, Frame
  <2>2. NoPanic' /\ Quiet'
    BY <2>0 DEF TypeOK, NoPanic, Quiet, Depth, Args, Recorded, Words, Owns
  <2>3. Depth'
    BY <2>0, HeldFinite DEF TypeOK, Quiet, Depth, Args, Extra
  <2>4. Words'
    BY <2>0 DEF TypeOK, Quiet, Words, Owns, Args
  <2>5. Args' /\ Recorded'
    BY <2>0, CpuAssumption DEF TypeOK, Quiet, Args, Recorded, Words, Owns
  <2> QED
    BY <2>1, <2>2, <2>3, <2>4, <2>5
<1> QED
  BY <1>1, <1>2, <1>3, <1>4, <1>5, <1>6, <1>7, <1>8, <1>9, <1>10 DEF Step

\* The invariant holds of every reachable state.
THEOREM Invariance == Spec => []IInv
<1>1. IInv /\ [Next]_vars => IInv'
  <2> SUFFICES ASSUME IInv, [Next]_vars PROVE IInv'
    OBVIOUS
  <2>1. CASE Next
    BY <2>1, StepIInv DEF Next
  <2>2. CASE UNCHANGED vars
    BY <2>2 DEF vars, IInv, TypeOK, NoPanic, Quiet, Depth, Words, Args,
                Recorded, Owns, Extra
  <2> QED
    BY <2>1, <2>2
<1> QED
  BY <1>1, InitIInv, PTL DEF Spec

-----------------------------------------------------------------------------
(***************************************************************************)
(* spinlock.c keeps two CPUs out of one critical section, whichever locks  *)
(* they nest and wherever interrupts arrive.                               *)
(***************************************************************************)
THEOREM SpinlockMutualExclusion == Spec => []MutualExclusion
<1>1. IInv => MutualExclusion
  BY DEF IInv, TypeOK, Words, Owns, Quiet, MutualExclusion, InCS
<1> QED
  BY <1>1, Invariance, PTL

\* No panic of acquire, release or popcli is reachable.
THEOREM SpinlockNoPanic == Spec => []NoPanic
<1>1. IInv => NoPanic
  BY DEF IInv
<1> QED
  BY <1>1, Invariance, PTL

\* A CPU that owns a lock word is not interruptible.
THEOREM SpinlockMasked == Spec => []MaskedWhileHolding
<1>1. IInv => MaskedWhileHolding
  BY DEF IInv, Quiet, MaskedWhileHolding
<1> QED
  BY <1>1, Invariance, PTL

\* Matched pushcli and popcli leave the interrupt flag as they found it.
THEOREM SpinlockRestores == Spec => []InterruptsRestored
<1>1. ASSUME IInv PROVE InterruptsRestored
  <2>1. \A c \in CPU : at[c] = "run" /\ held[c] = {} => ncli[c] = 0
    BY <1>1, HeldFinite DEF IInv, TypeOK, Depth, Extra
  <2> QED
    BY <1>1, <2>1 DEF IInv, Depth, InterruptsRestored
<1> QED
  BY <1>1, Invariance, PTL

\* The state stays well typed; in particular ncli never goes below zero.
THEOREM SpinlockTypes == Spec => []TypeOK
<1>1. IInv => TypeOK
  BY DEF IInv
<1> QED
  BY <1>1, Invariance, PTL

-----------------------------------------------------------------------------
(***************************************************************************)
(* Switching.  The CPUs and the panic are Spinlock's; the fields of struct *)
(* cpu are kept in a record.                                               *)
(*                                                                         *)
(* The argument is local to a CPU: where the code on it is determines ncli *)
(* and FL_IF, whether it has ptable.lock, and, between a thread's first    *)
(* acquire() and sched(), intena.  A thread that is on no CPU keeps in the *)
(* local variable of sched() the intena it had.                            *)
(***************************************************************************)
CONSTANTS Thread, NoThread
VARIABLES cpu, run, sch, idle, ptlock, th

Sw == INSTANCE Switching

Off     == {"forkret", "yielded", "slept", "gone"}
Leaving == {"yieldSched", "sleepSched", "exitSched"}
Arrived == {"forkret", "yielded", "slept"}

\* The CPU in scheduler().
SchedulerOK(c) ==
  run[c] = NoThread =>
    /\ sch[c] \in {"loop", "hlt", "acquire"} => cpu[c].ncli = 0
    /\ sch[c] \in {"hlt", "acquire"} => cpu[c].if
    /\ sch[c] \in {"spin", "scan"} => cpu[c].ncli = 1 /\ ~cpu[c].if
    /\ sch[c] = "scan" => ptlock = c

\* The CPU on thread t.
ThreadOK(c, t) ==
  run[c] = t =>
    /\ sch[c] = "scan"
    /\ th[t].at # "gone"
    /\ th[t].at \in Leaving <=> th[t].state # "RUNNING"
    /\ th[t].at = "exitSched" <=> th[t].state = "ZOMBIE"
    /\ th[t].at \in Leaving \cup Arrived => cpu[c].ncli = 1 /\ ~cpu[c].if /\ ptlock = c
    /\ th[t].at \in {"user", "relock"} => cpu[c].ncli = 0 /\ cpu[c].if
    /\ th[t].at \in {"yield", "iret"} => cpu[c].ncli = 0 /\ ~cpu[c].if
    /\ th[t].at = "trapret" => cpu[c].ncli = 0
    /\ th[t].at \in {"locked", "yieldSpin", "exitSpin"} => cpu[c].ncli = 1 /\ ~cpu[c].if
    /\ th[t].at = "sleepSpin" => cpu[c].ncli = 2 /\ ~cpu[c].if
    /\ th[t].at \in {"locked", "sleepSpin", "sleepSched"} => cpu[c].intena
    /\ th[t].at \in {"yieldSpin", "yieldSched"} => ~cpu[c].intena

\* A thread on no CPU is in swtch(), or new, or gone.
OffOK(t) ==
  (\A c \in CPU : run[c] # t) =>
    /\ th[t].at \in Off /\ th[t].state # "RUNNING"
    /\ th[t].at = "gone" <=> th[t].state = "ZOMBIE"

\* The local variable of sched().
SavedOK(t) ==
  /\ th[t].at = "yielded" => ~th[t].intena
  /\ th[t].at = "slept" => th[t].intena

SwitchInv ==
  /\ Sw!TypeOK
  /\ ~panicked
  /\ \A c, d \in CPU : run[c] = run[d] /\ run[c] # NoThread => c = d
  /\ \A c \in CPU : SchedulerOK(c)
  /\ \A c \in CPU, t \in Thread : ThreadOK(c, t)
  /\ \A t \in Thread : OffOK(t) /\ SavedOK(t)

\* The model values for none are none.
Distinct == NoThread \notin Thread /\ NoCpu \notin CPU

\* popcli() turns interrupts on at the outermost level only, and only if intena says
\* that they were.
LEMMA PopcliLemma ==
  ASSUME NEW x \in Sw!CpuState, x.ncli > 0
  PROVE  /\ Sw!popcli(x) \in Sw!CpuState
         /\ Sw!popcli(x).ncli = x.ncli - 1
         /\ Sw!popcli(x).intena = x.intena
         /\ x.ncli = 1 => Sw!popcli(x).if = x.intena
         /\ x.ncli = 2 => ~Sw!popcli(x).if
<1>1. x.ncli \in {1, 2} /\ x.intena \in BOOLEAN
  BY DEF Sw!CpuState
<1>2. CASE x.ncli = 1
  <2>1. Sw!popcli(x) = [ncli |-> 0, intena |-> x.intena, if |-> x.intena]
    BY <1>2 DEF Sw!popcli
  <2> QED BY <1>1, <1>2, <2>1 DEF Sw!CpuState
<1>3. CASE x.ncli = 2
  <2>1. Sw!popcli(x) = [ncli |-> 1, intena |-> x.intena, if |-> FALSE]
    BY <1>3 DEF Sw!popcli
  <2> QED BY <1>1, <1>3, <2>1 DEF Sw!CpuState
<1> QED BY <1>1, <1>2, <1>3

\* pushcli() turns interrupts off, and records how they were at the outermost level.
LEMMA PushcliLemma ==
  ASSUME NEW x \in Sw!CpuState, x.ncli < 2
  PROVE  /\ Sw!pushcli(x) \in Sw!CpuState
         /\ Sw!pushcli(x).ncli = x.ncli + 1
         /\ ~Sw!pushcli(x).if
         /\ x.ncli = 0 => Sw!pushcli(x).intena = x.if
         /\ x.ncli = 1 => Sw!pushcli(x).intena = x.intena
  BY DEF Sw!CpuState, Sw!pushcli

\* Everything starts in scheduler(), with every process new.
LEMMA SwitchInit == Distinct /\ Sw!Init => SwitchInv
<1> SUFFICES ASSUME Distinct, Sw!Init PROVE SwitchInv
  OBVIOUS
<1>1. Sw!TypeOK
  <2>1. cpu \in [CPU -> Sw!CpuState]
    BY DEF Sw!Init, Sw!CpuState
  <2>2. th \in [Thread -> Sw!ThreadState]
    BY DEF Sw!Init, Sw!New, Sw!Loc, Sw!ThreadState
  <2> QED BY <2>1, <2>2, Zenon DEF Sw!Init, Sw!TypeOK
<1>2. \A c \in CPU : SchedulerOK(c)
  BY DEF Sw!Init, SchedulerOK
<1>3. \A c \in CPU, t \in Thread : ThreadOK(c, t)
  BY DEF Distinct, Sw!Init, ThreadOK
<1>4. \A t \in Thread : OffOK(t) /\ SavedOK(t)
  BY DEF Sw!Init, OffOK, SavedOK, Sw!New, Off
<1> QED BY <1>1, <1>2, <1>3, <1>4 DEF SwitchInv, Sw!Init

\* A step of scheduler() on CPU c that switches to nothing disturbs only what is said of
\* scheduler() there; ptable.lock it may take when free and drop when its own.
LEMMA SchedulerLocal ==
  ASSUME Distinct, SwitchInv, NEW c \in CPU, run[c] = NoThread,
         run' = run, th' = th, panicked' = panicked,
         Sw!TypeOK',
         \A d \in CPU \ {c} : cpu'[d] = cpu[d] /\ sch'[d] = sch[d],
         ptlock' = ptlock \/ ptlock = NoCpu \/ ptlock = c,
         SchedulerOK(c)'
  PROVE  SwitchInv'
<1>1. \A d \in CPU \ {c} : ptlock = d => ptlock' = d
  BY DEF Distinct
<1>2. \A d \in CPU : SchedulerOK(d)'
  <2> SUFFICES ASSUME NEW d \in CPU \ {c} PROVE SchedulerOK(d)'
    OBVIOUS
  <2>1. SchedulerOK(d) /\ cpu'[d] = cpu[d] /\ sch'[d] = sch[d]
    BY DEF SwitchInv
  <2> QED BY <1>1, <2>1 DEF SchedulerOK
<1>3. \A d \in CPU, t \in Thread : ThreadOK(d, t)'
  <2> SUFFICES ASSUME NEW d \in CPU, NEW t \in Thread, run[d] = t PROVE ThreadOK(d, t)'
    BY DEF ThreadOK
  <2>1. d # c
    BY DEF Distinct
  <2>2. ThreadOK(d, t) /\ cpu'[d] = cpu[d] /\ sch'[d] = sch[d]
    BY <2>1 DEF SwitchInv
  <2> QED BY <1>1, <2>1, <2>2 DEF ThreadOK
<1>4. \A t \in Thread : OffOK(t)' /\ SavedOK(t)'
  <2> SUFFICES ASSUME NEW t \in Thread PROVE OffOK(t)' /\ SavedOK(t)'
    OBVIOUS
  <2>1. OffOK(t) /\ SavedOK(t)
    BY DEF SwitchInv
  <2> QED BY <2>1, Zenon DEF OffOK, SavedOK
<1> QED BY <1>2, <1>3, <1>4, Zenon DEF SwitchInv

\* The steps of scheduler() keep the invariant.
LEMMA SchedulerStep ==
  ASSUME Distinct, SwitchInv, NEW c \in CPU,
         Sw!loop(c) \/ Sw!hlt(c) \/ Sw!Acquire(c) \/ Sw!Scan(c) \/ Sw!ScanEnd(c)
  PROVE  SwitchInv'
<1>1. Sw!TypeOK /\ cpu[c] \in Sw!CpuState /\ SchedulerOK(c)
  BY DEF SwitchInv, Sw!TypeOK
<1>2. sch[c] # "scan" => run[c] = NoThread
  BY <1>1 DEF SwitchInv, Sw!TypeOK, ThreadOK
<1>3. CASE Sw!loop(c)
  <2>1. run[c] = NoThread /\ cpu[c].ncli = 0
    BY <1>1, <1>2, <1>3 DEF Sw!loop, SchedulerOK
  <2>2. Sw!sti(cpu[c]) \in Sw!CpuState /\ Sw!sti(cpu[c]).if /\ Sw!sti(cpu[c]).ncli = 0
    BY <1>1, <2>1, Zenon DEF Sw!sti, Sw!CpuState
  <2> DEFINE after == IF idle[c] THEN "hlt" ELSE "acquire"
  <2>3. /\ cpu' = [cpu EXCEPT ![c] = Sw!sti(cpu[c])] /\ sch' = [sch EXCEPT ![c] = after]
        /\ UNCHANGED <<run, idle, ptlock, th, panicked>>
    BY <1>3 DEF Sw!loop
  <2>4. Sw!TypeOK' /\ SchedulerOK(c)'
    BY <1>1, <2>2, <2>3 DEF Sw!TypeOK, SchedulerOK
  <2> QED BY <1>1, <2>1, <2>3, <2>4, SchedulerLocal DEF Sw!TypeOK
<1>4. CASE Sw!hlt(c)
  <2>1. run[c] = NoThread
    BY <1>2, <1>4 DEF Sw!hlt
  <2>2. Sw!TypeOK' /\ SchedulerOK(c)'
    BY <1>1, <1>4 DEF Sw!TypeOK, Sw!hlt, SchedulerOK
  <2> QED BY <1>1, <1>4, <2>1, <2>2, SchedulerLocal DEF Sw!TypeOK, Sw!hlt
<1>5. CASE Sw!Acquire(c)
  <2>1. run[c] = NoThread /\ cpu[c].ncli = 0
    BY <1>1, <1>2, <1>5 DEF Sw!Acquire, SchedulerOK
  <2>2. /\ cpu' = [cpu EXCEPT ![c] = Sw!pushcli(cpu[c])]
        /\ sch' = [sch EXCEPT ![c] = "spin"]
        /\ run' = run /\ ptlock' = ptlock /\ th' = th /\ panicked' = panicked
        /\ idle' \in [CPU -> BOOLEAN]
    BY <1>1, <1>5 DEF Sw!Acquire, Sw!TypeOK
  <2>3. Sw!TypeOK' /\ SchedulerOK(c)'
    BY <1>1, <2>1, <2>2, PushcliLemma DEF Sw!TypeOK, SchedulerOK
  <2> QED BY <1>1, <2>1, <2>2, <2>3, SchedulerLocal DEF Sw!TypeOK
<1>6. CASE Sw!Scan(c)
  <2>1. run[c] = NoThread /\ cpu[c].ncli = 1 /\ ~cpu[c].if /\ ptlock = NoCpu
    BY <1>1, <1>2, <1>6 DEF Sw!Scan, SchedulerOK
  <2>2. /\ sch' = [sch EXCEPT ![c] = "scan"] /\ ptlock' = c
        /\ cpu' = cpu /\ run' = run /\ th' = th /\ panicked' = panicked
        /\ idle' \in [CPU -> BOOLEAN]
    BY <1>1, <1>6 DEF Sw!Scan, Sw!TypeOK
  <2>3. Sw!TypeOK' /\ SchedulerOK(c)'
    BY <1>1, <2>1, <2>2 DEF Sw!TypeOK, SchedulerOK
  <2> QED BY <1>1, <2>1, <2>2, <2>3, SchedulerLocal DEF Sw!TypeOK
<1>7. CASE Sw!ScanEnd(c)
  <2>1. run[c] = NoThread /\ ptlock = c /\ cpu[c].ncli = 1 /\ ~cpu[c].if
    BY <1>1, <1>7 DEF SchedulerOK, Sw!ScanEnd
  <2>2. ~Sw!ReleasePanics(c, cpu[c])
    BY <2>1 DEF Sw!ReleasePanics, Sw!PopcliPanics
  <2>3. /\ ptlock' = NoCpu /\ cpu' = [cpu EXCEPT ![c] = Sw!popcli(cpu[c])]
        /\ sch' = [sch EXCEPT ![c] = "loop"]
        /\ UNCHANGED <<run, idle, th, panicked>>
    BY <1>7, <2>2, Zenon DEF Sw!ScanEnd, Sw!release
  <2>4. Sw!popcli(cpu[c]) \in Sw!CpuState /\ Sw!popcli(cpu[c]).ncli = 0
    BY <1>1, <2>1, PopcliLemma
  <2>5. Sw!TypeOK' /\ SchedulerOK(c)'
    BY <1>1, <2>1, <2>3, <2>4 DEF Sw!TypeOK, SchedulerOK
  <2> QED BY <1>1, <2>1, <2>3, <2>5, SchedulerLocal DEF Sw!TypeOK
<1> QED BY <1>3, <1>4, <1>5, <1>6, <1>7

\* A step of thread t on CPU c that switches to nothing disturbs only what is said of
\* this CPU and thread; ptable.lock it may take when free and drop when its own.
LEMMA LocalStep ==
  ASSUME Distinct, SwitchInv, NEW c \in CPU, NEW t \in Thread, run[c] = t,
         UNCHANGED <<run, sch, idle, panicked>>,
         Sw!TypeOK',
         \A d \in CPU \ {c} : cpu'[d] = cpu[d],
         \A u \in Thread \ {t} : th'[u] = th[u],
         ptlock' = ptlock \/ ptlock = NoCpu \/ ptlock = c,
         ThreadOK(c, t)', SavedOK(t)'
  PROVE  SwitchInv'
<1>1. (\A d, e \in CPU : run[d] = run[e] /\ run[d] # NoThread => d = e)'
  BY Zenon DEF SwitchInv
<1>2. \A d \in CPU : SchedulerOK(d)'
  BY DEF Distinct, SwitchInv, SchedulerOK, Sw!TypeOK
<1>3. \A d \in CPU, u \in Thread : ThreadOK(d, u)'
  <2> SUFFICES ASSUME NEW d \in CPU, NEW u \in Thread, run[d] = u PROVE ThreadOK(d, u)'
    BY Zenon DEF ThreadOK
  <2>1. CASE d = c
    BY <2>1
  <2>2. CASE d # c
    <3>1. u # t
      BY <2>2, Zenon DEF SwitchInv, Distinct
    <3>2. ptlock = d => ptlock' = d
      BY <2>2 DEF Distinct
    <3>3. ThreadOK(d, u)
      BY DEF SwitchInv
    <3>4. run' = run /\ sch' = sch /\ cpu'[d] = cpu[d] /\ th'[u] = th[u]
      BY <2>2, <3>1
    <3> QED BY <3>2, <3>3, <3>4, Zenon DEF ThreadOK
  <2> QED BY <2>1, <2>2, Zenon
<1>4. \A u \in Thread : OffOK(u)' /\ SavedOK(u)'
  <2> SUFFICES ASSUME NEW u \in Thread, u # t PROVE OffOK(u)' /\ SavedOK(u)'
    BY Zenon DEF OffOK
  <2>1. OffOK(u) /\ SavedOK(u) /\ run' = run /\ th'[u] = th[u]
    BY DEF SwitchInv
  <2> QED BY <2>1 DEF OffOK, SavedOK
<1> QED BY <1>1, <1>2, <1>3, <1>4, Zenon DEF SwitchInv

\* What is known of thread t on CPU c before a step.
LEMMA Here ==
  ASSUME SwitchInv, NEW c \in CPU, NEW t \in Thread, run[c] = t
  PROVE  ThreadOK(c, t) /\ SavedOK(t) /\ Sw!TypeOK /\ cpu[c] \in Sw!CpuState
  BY DEF SwitchInv, Sw!TypeOK, Sw!CpuState

\* A thread that goes on stays well formed.
LEMMA Moves ==
  ASSUME th \in [Thread -> Sw!ThreadState], NEW t \in Thread, NEW loc \in Sw!Loc,
         th' = [th EXCEPT ![t].at = loc]
  PROVE  th' \in [Thread -> Sw!ThreadState]
  BY DEF Sw!ThreadState

\* The timer, and the acquires and releases of lk.
LEMMA LockSteps ==
  ASSUME Distinct, SwitchInv, NEW c \in CPU, NEW t \in Thread,
         Sw!Timer(c, t) \/ Sw!AcquireLk(c, t) \/ Sw!ReleaseLk(c, t)
  PROVE  SwitchInv'
<1>0. run[c] = t
  BY DEF Sw!Timer, Sw!AcquireLk, Sw!ReleaseLk, Sw!On
<1> USE <1>0
<1>1. CASE Sw!Timer(c, t)
  <2>1. cpu' \in [CPU -> Sw!CpuState] /\ th' \in [Thread -> Sw!ThreadState]
    <3>1. "yield" \in Sw!Loc /\ th[t].at \in {"user", "relock"} /\ Sw!TypeOK
      BY <1>1, Here DEF Sw!Timer, Sw!On, Sw!Loc
    <3>2. cpu' \in [CPU -> Sw!CpuState]
      BY <1>1, <3>1, Zenon DEF Sw!Timer, Sw!TypeOK, Sw!CpuState
    <3>3. [th[t] EXCEPT !.at = "yield", !.back = th[t].at] \in Sw!ThreadState
      <4>1. th[t] \in Sw!ThreadState
        BY <3>1 DEF Sw!TypeOK
      <4>2. \A loc \in Sw!Loc, b \in {"user", "relock"} :
              [th[t] EXCEPT !.at = loc, !.back = b] \in Sw!ThreadState
        BY <4>1, Zenon DEF Sw!ThreadState
      <4> QED BY <3>1, <4>2, Zenon
    <3> QED BY <1>1, <3>1, <3>2, <3>3 DEF Sw!Timer, Sw!TypeOK
  <2>2. Sw!TypeOK'
    BY <1>1, <2>1, Here DEF Sw!Timer, Sw!TypeOK
  <2>3. ThreadOK(c, t)' /\ SavedOK(t)'
    BY <1>1, Here DEF Sw!Timer, Sw!On, Sw!TypeOK, Sw!CpuState, Sw!ThreadState, ThreadOK,
                      SavedOK, Leaving,
                      Arrived
  <2> QED BY <1>1, <2>2, <2>3, LocalStep, Zenon DEF Sw!Timer, SwitchInv, Sw!TypeOK
<1>2. CASE Sw!AcquireLk(c, t)
  <2>1. /\ cpu' = [cpu EXCEPT ![c] = Sw!pushcli(cpu[c])]
        /\ th' = [th EXCEPT ![t].at = "locked"]
        /\ UNCHANGED <<run, sch, idle, ptlock, panicked>>
        /\ th[t].at \in {"user", "relock"} /\ cpu[c].ncli = 0 /\ cpu[c].if
    <3>1. run[c] = t /\ th[t].at \in {"user", "relock"}
      BY <1>2 DEF Sw!AcquireLk, Sw!On
    <3>2. ThreadOK(c, t)
      BY <3>1, Here, Zenon
    <3> QED BY <1>2, <3>1, <3>2 DEF Sw!AcquireLk, Sw!Goto, ThreadOK
  <2>2. Sw!TypeOK'
    <3>1. cpu' \in [CPU -> Sw!CpuState]
      BY <2>1, Here, PushcliLemma DEF Sw!TypeOK
    <3>2. th' \in [Thread -> Sw!ThreadState]
      <4>1. "locked" \in Sw!Loc /\ th \in [Thread -> Sw!ThreadState]
        BY Here DEF Sw!Loc, Sw!TypeOK
      <4> QED BY <2>1, <4>1, Moves, Zenon
    <3> QED BY <2>1, <3>1, <3>2, Here DEF Sw!TypeOK
  <2>3. ThreadOK(c, t)' /\ SavedOK(t)'
    <3>1. /\ th'[t].at = "locked" /\ th'[t].state = th[t].state
          /\ cpu'[c].ncli = 1 /\ ~cpu'[c].if /\ cpu'[c].intena
      BY <2>1, Here, PushcliLemma DEF Sw!TypeOK, Sw!ThreadState
    <3>2. sch[c] = "scan" /\ th[t].state = "RUNNING" /\ run' = run /\ sch' = sch
      BY <2>1, Here DEF ThreadOK, Leaving
    <3> QED BY <3>1, <3>2 DEF ThreadOK, SavedOK, Leaving, Arrived
  <2> QED BY <2>1, <2>2, <2>3, LocalStep DEF SwitchInv, Sw!TypeOK
<1>3. CASE Sw!ReleaseLk(c, t)
  <2>1. cpu[c].ncli = 1 /\ ~cpu[c].if /\ cpu[c].intena /\ th[t].at = "locked"
    <3>1. run[c] = t /\ th[t].at = "locked"
      BY <1>3 DEF Sw!ReleaseLk, Sw!On
    <3>2. ThreadOK(c, t)
      BY <3>1, Here, Zenon
    <3> QED BY <3>1, <3>2 DEF ThreadOK
  <2>2. /\ cpu' = [cpu EXCEPT ![c] = Sw!popcli(cpu[c])]
        /\ th' = [th EXCEPT ![t].at = "user"]
        /\ UNCHANGED <<run, sch, idle, ptlock, panicked>>
    BY <1>3, <2>1 DEF Sw!ReleaseLk, Sw!PopcliPanics, Sw!Goto
  <2>3. Sw!TypeOK'
    <3>1. cpu' \in [CPU -> Sw!CpuState]
      BY <2>1, <2>2, Here, PopcliLemma DEF Sw!TypeOK
    <3>2. th' \in [Thread -> Sw!ThreadState]
      <4>1. "user" \in Sw!Loc /\ th \in [Thread -> Sw!ThreadState]
        BY Here DEF Sw!Loc, Sw!TypeOK
      <4> QED BY <2>2, <4>1, Moves, Zenon
    <3> QED BY <2>2, <3>1, <3>2, Here DEF Sw!TypeOK
  <2>4. ThreadOK(c, t)' /\ SavedOK(t)'
    BY <2>1, <2>2, Here, PopcliLemma DEF Sw!TypeOK, ThreadOK, SavedOK, Leaving, Arrived
  <2> QED BY <2>2, <2>3, <2>4, LocalStep DEF SwitchInv, Sw!TypeOK
<1> QED BY <1>1, <1>2, <1>3

\* The acquire() of ptable.lock by yield(), sleep() and exit(), up to its pushcli().
LEMMA AcquireSteps ==
  ASSUME Distinct, SwitchInv, NEW c \in CPU, NEW t \in Thread, NEW from, NEW to,
         <<from, to>> \in {<<"yield", "yieldSpin">>, <<"locked", "sleepSpin">>,
                           <<"user", "exitSpin">>},
         Sw!AcquireStart(c, t, from, to)
  PROVE  SwitchInv'
<1>1. /\ run[c] = t /\ th[t].at = from
      /\ cpu' = [cpu EXCEPT ![c] = Sw!pushcli(cpu[c])]
      /\ th' = [th EXCEPT ![t].at = to]
      /\ UNCHANGED <<run, sch, idle, ptlock, panicked>>
  BY DEF Sw!AcquireStart, Sw!On, Sw!Goto
<1>2. /\ from = "yield" => cpu[c].ncli = 0 /\ ~cpu[c].if
      /\ from = "locked" => cpu[c].ncli = 1 /\ ~cpu[c].if /\ cpu[c].intena
      /\ from = "user" => cpu[c].ncli = 0 /\ cpu[c].if
  BY <1>1, Here DEF ThreadOK
<1>3. Sw!TypeOK /\ to \in Sw!Loc
  BY <1>1, Here DEF Sw!Loc
<1>4. Sw!TypeOK'
  <2>1. cpu' \in [CPU -> Sw!CpuState]
    BY <1>1, <1>2, <1>3, PushcliLemma DEF Sw!TypeOK
  <2>2. th' \in [Thread -> Sw!ThreadState]
    BY <1>1, <1>3, Moves, Zenon DEF Sw!TypeOK
  <2> QED BY <1>1, <1>3, <2>1, <2>2 DEF Sw!TypeOK
<1>5. ThreadOK(c, t)' /\ SavedOK(t)'
  <2>1. /\ th'[t].at = to /\ th'[t].state = th[t].state
        /\ cpu'[c] = Sw!pushcli(cpu[c]) /\ run'[c] = t /\ sch'[c] = sch[c]
    BY <1>1, <1>3 DEF Sw!TypeOK, Sw!ThreadState
  <2>2. /\ ~cpu'[c].if
        /\ cpu'[c].ncli = IF from = "locked" THEN 2 ELSE 1
        /\ cpu'[c].intena <=> from # "yield"
    BY <1>1, <1>2, <2>1, Here, PushcliLemma
  <2>3. sch[c] = "scan" /\ th[t].state = "RUNNING"
    BY <1>1, Here DEF ThreadOK, Leaving
  <2> QED BY <2>1, <2>2, <2>3 DEF ThreadOK, SavedOK, Leaving, Arrived
<1> QED BY <1>1, <1>3, <1>4, <1>5, LocalStep DEF Sw!TypeOK

\* The lock is taken by yield(), by sleep(), which releases lk, and by exit().
LEMMA LeaveSteps ==
  ASSUME Distinct, SwitchInv, NEW c \in CPU, NEW t \in Thread,
         \/ Sw!Leave(c, t, "yieldSpin", "yieldSched", "RUNNABLE", cpu[c])
         \/ Sw!Leave(c, t, "sleepSpin", "sleepSched", "SLEEPING", Sw!Asleep(cpu[c]))
         \/ Sw!Leave(c, t, "exitSpin", "exitSched", "ZOMBIE", cpu[c])
  PROVE  SwitchInv'
<1> DEFINE x == IF th[t].at = "sleepSpin" THEN Sw!popcli(cpu[c]) ELSE cpu[c]
<1>1. /\ run[c] = t /\ th[t].at \in {"yieldSpin", "sleepSpin", "exitSpin"}
      /\ ptlock = NoCpu /\ ptlock' = c
      /\ cpu' = [cpu EXCEPT ![c] = x]
      /\ UNCHANGED <<run, sch, idle, panicked>>
  BY DEF Sw!Leave, Sw!On, Sw!Asleep
<1>2. Sw!TypeOK /\ cpu[c] \in Sw!CpuState /\ ThreadOK(c, t)
  BY <1>1, Here
<1>3. /\ x \in Sw!CpuState /\ x.ncli = 1 /\ ~x.if
      /\ th[t].at = "sleepSpin" => x.intena
      /\ th[t].at = "yieldSpin" => ~x.intena
  <2>1. /\ th[t].at # "sleepSpin" => cpu[c].ncli = 1 /\ ~cpu[c].if
        /\ th[t].at = "yieldSpin" => ~cpu[c].intena
        /\ th[t].at = "sleepSpin" => cpu[c].ncli = 2 /\ cpu[c].intena
    BY <1>1, <1>2 DEF ThreadOK
  <2> QED BY <1>1, <1>2, <2>1, PopcliLemma
<1>4. \E state \in {"RUNNABLE", "SLEEPING", "ZOMBIE"}, to \in Leaving :
        /\ th' = [th EXCEPT ![t] = [th[t] EXCEPT !.state = state, !.at = to]]
        /\ to = "sleepSched" <=> th[t].at = "sleepSpin"
        /\ to = "yieldSched" <=> th[t].at = "yieldSpin"
        /\ to = "exitSched" <=> state = "ZOMBIE"
  BY <1>1 DEF Sw!Leave, Sw!On, Leaving
<1>5. PICK state \in {"RUNNABLE", "SLEEPING", "ZOMBIE"}, to \in Leaving :
        /\ th' = [th EXCEPT ![t] = [th[t] EXCEPT !.state = state, !.at = to]]
        /\ to = "sleepSched" <=> th[t].at = "sleepSpin"
        /\ to = "yieldSched" <=> th[t].at = "yieldSpin"
        /\ to = "exitSched" <=> state = "ZOMBIE"
  BY <1>4, Zenon
<1>6. [th[t] EXCEPT !.state = state, !.at = to] \in Sw!ThreadState
  <2>1. th[t] \in Sw!ThreadState
    BY <1>2, Zenon DEF Sw!TypeOK
  <2>2. to \in Sw!Loc
    BY Zenon DEF Sw!Loc, Leaving
  <2> QED BY <2>1, <2>2, Zenon DEF Sw!ThreadState
<1>7. Sw!TypeOK'
  BY <1>1, <1>2, <1>3, <1>5, <1>6 DEF Sw!TypeOK
<1>8. th'[t].at = to /\ th'[t].state = state /\ cpu'[c] = x
  BY <1>1, <1>2, <1>5 DEF Sw!TypeOK, Sw!ThreadState
<1>9. ThreadOK(c, t)' /\ SavedOK(t)'
  BY <1>1, <1>2, <1>3, <1>5, <1>8 DEF ThreadOK, SavedOK, Leaving, Arrived
<1> QED BY <1>1, <1>2, <1>5, <1>7, <1>9, LocalStep DEF Sw!TypeOK

\* The thread is on another CPU than before, or not: it releases ptable.lock there.
LEMMA ReturnSteps ==
  ASSUME Distinct, SwitchInv, NEW c \in CPU, NEW t \in Thread,
         Sw!Resume(c, t) \/ Sw!forkret(c, t) \/ Sw!iret(c, t)
  PROVE  SwitchInv'
<1>0. run[c] = t
  BY DEF Sw!Resume, Sw!forkret, Sw!iret, Sw!On
<1>1. Sw!TypeOK /\ cpu[c] \in Sw!CpuState /\ ThreadOK(c, t) /\ SavedOK(t)
  BY <1>0, Here
<1>2. CASE Sw!Resume(c, t)
  <2> DEFINE x == Sw!Restored(cpu[c], t)
             to == IF th[t].at = "slept" THEN "relock" ELSE "iret"
  <2>1. /\ th[t].at \in {"yielded", "slept"}
        /\ ptlock = c /\ cpu[c].ncli = 1 /\ ~cpu[c].if
    BY <1>0, <1>1, <1>2, Zenon DEF Sw!Resume, Sw!On, ThreadOK, Arrived
  <2>2. /\ x \in Sw!CpuState /\ x.ncli = 1 /\ ~x.if
        /\ x.intena = th[t].intena
    BY <1>1, <2>1 DEF Sw!Restored, Sw!CpuState, Sw!TypeOK, Sw!ThreadState
  <2> HIDE DEF x
  <2>3. ~Sw!ReleasePanics(c, x)
    BY <2>1, <2>2 DEF Sw!ReleasePanics, Sw!PopcliPanics
  <2>4. /\ ptlock' = NoCpu /\ cpu' = [cpu EXCEPT ![c] = Sw!popcli(x)]
        /\ th' = [th EXCEPT ![t].at = to]
        /\ UNCHANGED <<run, sch, idle, panicked>>
    BY <1>2, <2>3 DEF Sw!Resume, Sw!release, Sw!Goto, x
  <2>5. to \in Sw!Loc /\ (to = "relock" <=> th[t].intena)
    BY <1>1, <2>1 DEF SavedOK, Sw!Loc
  <2>6. Sw!TypeOK'
    <3>1. cpu' \in [CPU -> Sw!CpuState]
      BY <1>1, <2>2, <2>4, PopcliLemma DEF Sw!TypeOK
    <3>2. th' \in [Thread -> Sw!ThreadState]
      BY <1>1, <2>4, <2>5, Moves, Zenon DEF Sw!TypeOK
    <3> QED BY <1>1, <2>4, <3>1, <3>2 DEF Sw!TypeOK
  <2>7. ThreadOK(c, t)' /\ SavedOK(t)'
    BY <1>0, <1>1, <2>1, <2>2, <2>4, <2>5, PopcliLemma
    DEF Sw!TypeOK, Sw!ThreadState, ThreadOK, SavedOK, Leaving, Arrived
  <2> QED BY <1>0, <1>1, <2>1, <2>4, <2>6, <2>7, LocalStep DEF Sw!TypeOK
<1>3. CASE Sw!forkret(c, t)
  <2>1. th[t].at = "forkret" /\ ptlock = c /\ cpu[c].ncli = 1 /\ ~cpu[c].if
    BY <1>0, <1>1, <1>3, Zenon DEF Sw!forkret, Sw!On, ThreadOK, Arrived
  <2>2. /\ ptlock' = NoCpu /\ cpu' = [cpu EXCEPT ![c] = Sw!popcli(cpu[c])]
        /\ th' = [th EXCEPT ![t].at = "trapret"]
        /\ UNCHANGED <<run, sch, idle, panicked>>
    BY <1>3, <2>1 DEF Sw!forkret, Sw!ReleasePanics, Sw!PopcliPanics, Sw!release, Sw!Goto
  <2>3. Sw!TypeOK'
    <3>1. cpu' \in [CPU -> Sw!CpuState]
      BY <1>1, <2>1, <2>2, PopcliLemma DEF Sw!TypeOK
    <3>2. "trapret" \in Sw!Loc
      BY DEF Sw!Loc
    <3>3. th' \in [Thread -> Sw!ThreadState]
      BY <1>1, <2>2, <3>2, Moves, Zenon DEF Sw!TypeOK
    <3> QED BY <1>1, <2>2, <3>1, <3>3 DEF Sw!TypeOK
  <2>4. ThreadOK(c, t)' /\ SavedOK(t)'
    BY <1>0, <1>1, <2>1, <2>2, PopcliLemma
    DEF Sw!TypeOK, Sw!ThreadState, ThreadOK, SavedOK, Leaving, Arrived
  <2> QED BY <1>0, <1>1, <2>1, <2>2, <2>3, <2>4, LocalStep DEF Sw!TypeOK
<1>4. CASE Sw!iret(c, t)
  <2> DEFINE to == IF th[t].at = "iret" THEN th[t].back ELSE "user"
  <2>1. /\ th[t].at \in {"iret", "trapret"} /\ cpu[c].ncli = 0
        /\ cpu' = [cpu EXCEPT ![c].if = TRUE]
        /\ th' = [th EXCEPT ![t].at = to]
        /\ UNCHANGED <<run, sch, idle, ptlock, panicked>>
    BY <1>0, <1>1, <1>4 DEF Sw!iret, Sw!On, Sw!Goto, ThreadOK
  <2>2. to \in {"user", "relock"} /\ to \in Sw!Loc
    BY <1>1 DEF Sw!TypeOK, Sw!ThreadState, Sw!Loc
  <2> HIDE DEF to
  <2>3. cpu' \in [CPU -> Sw!CpuState] /\ cpu'[c].if /\ cpu'[c].ncli = 0
    BY <1>1, <2>1, Zenon DEF Sw!TypeOK, Sw!CpuState
  <2>4. Sw!TypeOK'
    <3>1. th \in [Thread -> Sw!ThreadState]
      BY <1>1 DEF Sw!TypeOK
    <3>2. th' \in [Thread -> Sw!ThreadState]
      BY <2>1, <2>2, <3>1, Moves, Zenon
    <3> QED BY <1>1, <2>1, <2>3, <3>2 DEF Sw!TypeOK
  <2>5. ThreadOK(c, t)' /\ SavedOK(t)'
    BY <1>0, <1>1, <2>1, <2>2, <2>3
    DEF Sw!TypeOK, Sw!ThreadState, ThreadOK, SavedOK, Leaving, Arrived
  <2> QED BY <1>0, <1>1, <2>1, <2>4, <2>5, LocalStep, Zenon DEF Sw!TypeOK
<1> QED BY <1>2, <1>3, <1>4

\* scheduler() switches to a thread that is on no CPU, and hands it ptable.lock.
LEMMA DispatchStep ==
  ASSUME Distinct, SwitchInv, NEW c \in CPU, NEW t \in Thread, Sw!Dispatch(c, t)
  PROVE  SwitchInv'
<1>1. /\ sch[c] = "scan" /\ run[c] = NoThread /\ th[t].state = "RUNNABLE"
      /\ run' = [run EXCEPT ![c] = t]
      /\ idle' = [idle EXCEPT ![c] = FALSE]
      /\ th' = [th EXCEPT ![t].state = "RUNNING"]
      /\ UNCHANGED <<cpu, sch, ptlock, panicked>>
  BY DEF Sw!Dispatch
<1>2. Sw!TypeOK /\ ptlock = c /\ cpu[c].ncli = 1 /\ ~cpu[c].if
  BY <1>1 DEF SwitchInv, SchedulerOK
<1>3. \A d \in CPU : run[d] # t
  BY <1>1, <1>2 DEF SwitchInv, Distinct, ThreadOK, Leaving
<1>4. th[t].at \in Arrived
  BY <1>1, <1>3 DEF SwitchInv, OffOK, Off, Arrived
<1>5. Sw!TypeOK'
  <2>1. th' \in [Thread -> Sw!ThreadState]
    BY <1>1, <1>2 DEF Sw!TypeOK, Sw!ThreadState
  <2> QED BY <1>1, <1>2, <2>1 DEF Sw!TypeOK
<1>6. /\ th'[t].at = th[t].at /\ th'[t].state = "RUNNING" /\ th'[t].intena = th[t].intena
      /\ \A u \in Thread \ {t} : th'[u] = th[u]
      /\ run'[c] = t /\ \A d \in CPU \ {c} : run'[d] = run[d]
  BY <1>1, <1>2 DEF Sw!TypeOK, Sw!ThreadState
<1>7. (\A d, e \in CPU : run[d] = run[e] /\ run[d] # NoThread => d = e)'
  BY <1>3, <1>6 DEF SwitchInv
<1>8. \A d \in CPU : SchedulerOK(d)'
  BY <1>1, <1>6 DEF SwitchInv, SchedulerOK, Distinct
<1>9. \A d \in CPU, u \in Thread : ThreadOK(d, u)'
  <2>1. ThreadOK(c, t)'
    BY <1>1, <1>2, <1>4, <1>6 DEF ThreadOK, Arrived, Leaving
  <2>2. \A d \in CPU \ {c}, u \in Thread : ThreadOK(d, u)'
    BY <1>1, <1>3, <1>6 DEF SwitchInv, ThreadOK
  <2>3. \A u \in Thread \ {t} : ThreadOK(c, u)'
    BY <1>6 DEF ThreadOK
  <2> QED BY <2>1, <2>2, <2>3
<1>10. \A u \in Thread : OffOK(u)' /\ SavedOK(u)'
  <2>1. SavedOK(t)'
    BY <1>6 DEF SwitchInv, SavedOK
  <2>2. OffOK(t)'
    BY <1>6 DEF OffOK
  <2>3. \A u \in Thread \ {t} : OffOK(u)' /\ SavedOK(u)'
    <3>1. \A u \in Thread \ {t} : SavedOK(u)'
      BY <1>6 DEF SwitchInv, SavedOK
    <3>2. \A u \in Thread \ {t} : OffOK(u)'
      BY <1>1, <1>6 DEF SwitchInv, OffOK, Distinct
    <3> QED BY <3>1, <3>2
  <2> QED BY <2>1, <2>2, <2>3
<1> QED BY <1>1, <1>5, <1>7, <1>8, <1>9, <1>10 DEF SwitchInv

\* sched() does not panic, and hands ptable.lock to scheduler().
LEMMA SchedStep ==
  ASSUME Distinct, SwitchInv, NEW c \in CPU, NEW t \in Thread, Sw!sched(c, t)
  PROVE  SwitchInv'
<1>1. run[c] = t /\ th[t].at \in Leaving
  BY DEF Sw!sched, Sw!On, Leaving
<1>2. Sw!TypeOK /\ ThreadOK(c, t) /\ cpu[c] \in Sw!CpuState
  BY <1>1, Here
<1>3. /\ sch[c] = "scan" /\ ptlock = c /\ cpu[c].ncli = 1 /\ ~cpu[c].if
      /\ th[t].state # "RUNNING"
      /\ th[t].at = "sleepSched" => cpu[c].intena
      /\ th[t].at = "yieldSched" => ~cpu[c].intena
  BY <1>1, <1>2 DEF ThreadOK
<1>4. /\ run' = [run EXCEPT ![c] = NoThread]
      /\ th' = [th EXCEPT ![t] = [th[t] EXCEPT !.intena = cpu[c].intena,
                                               !.at = Sw!Switched(th[t].at)]]
      /\ UNCHANGED <<cpu, sch, idle, ptlock, panicked>>
  BY <1>3 DEF Sw!sched
<1>5. Sw!Switched(th[t].at) \in Sw!Loc /\ Sw!Switched(th[t].at) \in Off
  BY DEF Sw!Switched, Sw!Loc, Off
<1>6. th' \in [Thread -> Sw!ThreadState]
  <2>1. th[t] \in Sw!ThreadState /\ cpu[c].intena \in BOOLEAN
    BY <1>2 DEF Sw!TypeOK, Sw!CpuState
  <2>2. \A loc \in Sw!Loc, b \in BOOLEAN :
          [th[t] EXCEPT !.intena = b, !.at = loc] \in Sw!ThreadState
    BY <2>1, Zenon DEF Sw!ThreadState
  <2> QED BY <1>2, <1>4, <1>5, <2>1, <2>2, Zenon DEF Sw!TypeOK
<1>7. Sw!TypeOK'
  BY <1>2, <1>4, <1>6 DEF Sw!TypeOK
<1>8. /\ th'[t].at = Sw!Switched(th[t].at) /\ th'[t].state = th[t].state
      /\ th'[t].intena = cpu[c].intena
      /\ \A u \in Thread \ {t} : th'[u] = th[u]
      /\ run'[c] = NoThread /\ \A d \in CPU \ {c} : run'[d] = run[d]
  BY <1>2, <1>4 DEF Sw!TypeOK, Sw!ThreadState
<1>9. \A d \in CPU : run'[d] # t
  BY <1>1, <1>8 DEF SwitchInv, Distinct
<1>10. (\A d, e \in CPU : run[d] = run[e] /\ run[d] # NoThread => d = e)'
  BY <1>8 DEF SwitchInv
<1>11. \A d \in CPU : SchedulerOK(d)'
  BY <1>3, <1>4, <1>8 DEF SwitchInv, SchedulerOK
<1>12. \A d \in CPU, u \in Thread : ThreadOK(d, u)'
  <2> SUFFICES ASSUME NEW d \in CPU, NEW u \in Thread, run'[d] = u PROVE ThreadOK(d, u)'
    BY Zenon DEF ThreadOK
  <2>1. d # c /\ u # t
    BY <1>8, <1>9 DEF Distinct
  <2>2. ThreadOK(d, u) /\ th'[u] = th[u] /\ run[d] = u
    BY <1>8, <2>1 DEF SwitchInv
  <2> QED BY <1>4, <2>2, Zenon DEF ThreadOK
<1>13. OffOK(t)' /\ SavedOK(t)'
  <2>1. Sw!Switched(th[t].at) = "gone" <=> th[t].state = "ZOMBIE"
    BY <1>1, <1>2 DEF Sw!Switched, Leaving, ThreadOK
  <2>2. SavedOK(t)'
    BY <1>1, <1>3, <1>8 DEF SavedOK, Sw!Switched, Leaving
  <2> QED BY <1>3, <1>5, <1>8, <2>1, <2>2 DEF OffOK
<1>14. \A u \in Thread \ {t} : OffOK(u)' /\ SavedOK(u)'
  BY <1>1, <1>8 DEF SwitchInv, OffOK, SavedOK
<1> QED BY <1>4, <1>7, <1>10, <1>11, <1>12, <1>13, <1>14 DEF SwitchInv

\* wakeup() and fork() change a thread that is in no CPU's hands.
LEMMA OtherSteps ==
  ASSUME Distinct, SwitchInv, NEW t \in Thread, Sw!wakeup(t) \/ Sw!fork(t)
  PROVE  SwitchInv'
<1>1. Sw!TypeOK /\ ptlock = NoCpu /\ UNCHANGED <<cpu, run, sch, idle, ptlock, panicked>>
  BY DEF SwitchInv, Sw!wakeup, Sw!fork
<1>2. th[t].state # "RUNNING" /\ \A c \in CPU : run[c] # t
  BY <1>1 DEF SwitchInv, Distinct, ThreadOK, Leaving, Sw!wakeup, Sw!fork
<1>3. th[t].at \in Off /\ (th[t].at = "gone" <=> th[t].state = "ZOMBIE")
  BY <1>2, Zenon DEF SwitchInv, OffOK
<1>4. th' \in [Thread -> Sw!ThreadState]
  <2>1. Sw!New \in Sw!ThreadState
    BY DEF Sw!New, Sw!ThreadState, Sw!Loc
  <2>2. CASE Sw!wakeup(t)
    BY <1>1, <2>2 DEF Sw!TypeOK, Sw!ThreadState, Sw!wakeup
  <2>3. CASE Sw!fork(t)
    BY <1>1, <2>1, <2>3 DEF Sw!TypeOK, Sw!fork
  <2> QED BY <2>2, <2>3
<1>5. \A u \in Thread \ {t} : th'[u] = th[u]
  BY <1>1 DEF Sw!TypeOK, Sw!wakeup, Sw!fork
<1>6. OffOK(t)' /\ SavedOK(t)'
  BY <1>1, <1>2, <1>3 DEF SwitchInv, Sw!TypeOK, Sw!ThreadState, OffOK, SavedOK, Off,
                          Sw!wakeup, Sw!fork, Sw!New
<1>7. Sw!TypeOK'
  BY <1>1, <1>4 DEF Sw!TypeOK
<1>8. \A c \in CPU : SchedulerOK(c)'
  BY <1>1, Zenon DEF SwitchInv, SchedulerOK
<1>9. \A c \in CPU, u \in Thread : ThreadOK(c, u)'
  <2> SUFFICES ASSUME NEW c \in CPU, NEW u \in Thread, run[c] = u PROVE ThreadOK(c, u)'
    BY <1>1, Zenon DEF ThreadOK
  <2>1. ThreadOK(c, u) /\ th'[u] = th[u]
    BY <1>2, <1>5, Zenon DEF SwitchInv
  <2> QED BY <1>1, <2>1, Zenon DEF ThreadOK
<1>10. \A u \in Thread \ {t} : OffOK(u)' /\ SavedOK(u)'
  BY <1>1, <1>5, Zenon DEF SwitchInv, OffOK, SavedOK
<1> QED BY <1>1, <1>6, <1>7, <1>8, <1>9, <1>10 DEF SwitchInv

\* Every step keeps the invariant.
LEMMA SwitchNext == Distinct /\ SwitchInv /\ [Sw!Next]_(Sw!vars) => SwitchInv'
<1> SUFFICES ASSUME Distinct, SwitchInv, [Sw!Next]_(Sw!vars) PROVE SwitchInv'
  OBVIOUS
<1>1. CASE Sw!Next
  <2>1. CASE \E c \in CPU : Sw!loop(c) \/ Sw!hlt(c) \/ Sw!Acquire(c) \/ Sw!Scan(c) \/ Sw!ScanEnd(c)
    BY <2>1, SchedulerStep
  <2>2. CASE \E t \in Thread : Sw!wakeup(t) \/ Sw!fork(t)
    BY <2>2, OtherSteps
  <2>3. ASSUME NEW c \in CPU, NEW t \in Thread, Sw!Runs(c, t) PROVE SwitchInv'
    <3>1. CASE \/ Sw!AcquireStart(c, t, "yield", "yieldSpin")
               \/ Sw!AcquireStart(c, t, "locked", "sleepSpin")
               \/ Sw!AcquireStart(c, t, "user", "exitSpin")
      BY <3>1, AcquireSteps
    <3> QED
      BY <2>3, <3>1, DispatchStep, LockSteps, LeaveSteps, SchedStep, ReturnSteps DEF Sw!Runs
  <2> QED BY <1>1, <2>1, <2>2, <2>3 DEF Sw!Next
<1>2. CASE UNCHANGED Sw!vars
  <2>1. /\ cpu' = cpu /\ run' = run /\ sch' = sch /\ idle' = idle /\ ptlock' = ptlock
        /\ th' = th /\ panicked' = panicked
    BY <1>2, Zenon DEF Sw!vars
  <2>2. Sw!TypeOK'
    BY <2>1, Zenon DEF SwitchInv, Sw!TypeOK
  <2>3. \A c \in CPU : SchedulerOK(c)'
    BY <2>1, Zenon DEF SwitchInv, SchedulerOK
  <2>4. \A c \in CPU, t \in Thread : ThreadOK(c, t)'
    <3> SUFFICES ASSUME NEW c \in CPU, NEW t \in Thread PROVE ThreadOK(c, t)'
      OBVIOUS
    <3>1. ThreadOK(c, t)
      BY DEF SwitchInv
    <3> QED BY <2>1, <3>1, Zenon DEF ThreadOK
  <2>5. \A t \in Thread : OffOK(t)' /\ SavedOK(t)'
    BY <2>1, Zenon DEF SwitchInv, OffOK, SavedOK
  <2> QED BY <2>1, <2>2, <2>3, <2>4, <2>5, Zenon DEF SwitchInv
<1> QED BY <1>1, <1>2

-----------------------------------------------------------------------------
(***************************************************************************)
(* The invariant: where the code on each CPU is says what ncli, intena and *)
(* FL_IF are there, for any number of CPUs and threads that switch.        *)
(***************************************************************************)
THEOREM SwitchInvariance == ASSUME Distinct PROVE Sw!Spec => []SwitchInv
<1>1. Sw!Init => SwitchInv
  BY SwitchInit
<1>2. SwitchInv /\ [Sw!Next]_(Sw!vars) => SwitchInv'
  BY SwitchNext
<1> QED BY <1>1, <1>2, PTL DEF Sw!Spec

(***************************************************************************)
(* No panic of sched(), release() or popcli() is reached: whichever CPU    *)
(* and thread took ptable.lock, sched() is entered with it alone.          *)
(***************************************************************************)
THEOREM SwitchingNoPanic == ASSUME Distinct PROVE Sw!Spec => []Sw!SwitchNoPanic
<1>1. SwitchInv => Sw!SwitchNoPanic
  BY DEF SwitchInv, Sw!SwitchNoPanic
<1> QED BY <1>1, SwitchInvariance, PTL

(***************************************************************************)
(* A thread comes back from sched() with interrupts on or off as it had    *)
(* them, on whichever CPU.                                                 *)
(***************************************************************************)
THEOREM SwitchingFlag == ASSUME Distinct PROVE Sw!Spec => []Sw!FlagFollowsThread
<1>1. SwitchInv => Sw!FlagFollowsThread
  BY Zenon DEF SwitchInv, Sw!FlagFollowsThread, ThreadOK
<1> QED BY <1>1, SwitchInvariance, PTL

(***************************************************************************)
(* scheduler() never executes hlt with interrupts off.                     *)
(***************************************************************************)
THEOREM SwitchingHalts == ASSUME Distinct PROVE Sw!Spec => []Sw!HaltsInterruptible
<1>1. SwitchInv => Sw!HaltsInterruptible
  <2> SUFFICES ASSUME SwitchInv, NEW c \in CPU, sch[c] = "hlt" PROVE cpu[c].if
    BY Zenon DEF Sw!HaltsInterruptible
  <2>1. run[c] = NoThread
    BY DEF SwitchInv, Sw!TypeOK, ThreadOK
  <2> QED BY <2>1, Zenon DEF SwitchInv, SchedulerOK
<1> QED BY <1>1, SwitchInvariance, PTL

(***************************************************************************)
(* All three: SwitchSafe, for any number of CPUs and threads.              *)
(***************************************************************************)
THEOREM SwitchingSafe == ASSUME Distinct PROVE Sw!Spec => []Sw!SwitchSafe
<1>1. Sw!FlagFollowsThread /\ Sw!SwitchNoPanic /\ Sw!HaltsInterruptible => Sw!SwitchSafe
  BY DEF Sw!SwitchSafe
<1> QED BY <1>1, SwitchingFlag, SwitchingNoPanic, SwitchingHalts, PTL
=============================================================================
