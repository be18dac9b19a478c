---------------------------- MODULE ProcProofs ----------------------------
(***************************************************************************)
(* The safety properties of Proc, for any number of slots and CPUs.        *)
(***************************************************************************)
EXTENDS ProcFork

\* exit() leaves its children to init and its slot to its parent.
LEMMA exitStep ==
  ASSUME IInv, NEW c \in CPU, NEW p \in Slot, exit(c, p)
  PROVE  IInv'
<1>0. /\ Runs(c, p) /\ at[p] = "exit" /\ p # initproc /\ Free
      /\ state[p] = "RUNNING" /\ (\A d \in CPU : cproc[d] = p => d = c)
      /\ \A r \in Slot : np[r] # p
  BY RunsFacts DEF exit
<1>f. \A r \in Slot : parent'[r] = IF parent[r] = p THEN initproc ELSE parent[r]
  BY DEF exit, reparent
<1>s. /\ state' \in [Slot -> ProcState] /\ state'[p] = "ZOMBIE"
      /\ \A r \in Slot \ {p} :
           /\ \/ state'[r] = state[r]
              \/ state[r] = "SLEEPING" /\ state'[r] = "RUNNABLE"
           /\ state[r] = "SLEEPING" /\ chan[r] = parent[p] => state'[r] = "RUNNABLE"
      /\ state[initproc] = "SLEEPING" /\ chan[initproc] = initproc =>
           \/ state'[initproc] = "RUNNABLE"
           \/ \A q \in Slot : parent[q] = p => state[q] # "ZOMBIE"
  <2> DEFINE st1 == wakeup1(state, parent[p])
             st2 == wakeup1(st1, initproc)
             kids == \E q \in Slot : parent[q] = p /\ st1[q] = "ZOMBIE"
  <2>1. /\ st1 \in [Slot -> ProcState]
        /\ \A r \in Slot : st1[r] = IF state[r] = "SLEEPING" /\ chan[r] = parent[p]
                                    THEN "RUNNABLE" ELSE state[r]
    BY WakeupFacts DEF IInv, TypeOK
  <2>2. /\ st2 \in [Slot -> ProcState]
        /\ \A r \in Slot : st2[r] = IF st1[r] = "SLEEPING" /\ chan[r] = initproc
                                    THEN "RUNNABLE" ELSE st1[r]
    BY <2>1, WakeupFacts
  <2>3. state' = [(IF kids THEN st2 ELSE st1) EXCEPT ![p] = "ZOMBIE"]
    BY DEF exit, reparent
  <2> HIDE DEF st1, st2
  <2> QED
    BY <1>0, <2>1, <2>2, <2>3, SlotFacts DEF ProcState
<1>u. /\ at' \in [Slot -> Loc] /\ at'[p] = "zombie"
      /\ \A r \in Slot \ {p} : at'[r] = at[r]
      /\ sched(c) /\ parent' \in [Slot -> Slot \cup {NoProc}]
      /\ UNCHANGED <<pid, chan, killed, kstack, pgdir, nextpid, np, intr, elapsed,
                     tickslock, getty, panicked>>
  BY SlotFacts DEF IInv, TypeOK, Loc, exit, reparent, Goto
<1> USE <1>0, <1>f, <1>s, <1>u, SlotFacts DEF IInv, TableInv
<1>1. TypeOK'
  BY DEF Runs, sched, Free, TypeOK, Loc, ProcState
<1>2. CpuInv'
  <2>1. sch'[c] = "swtch" /\ ptlock' = c /\ \A d \in CPU \ {c} : sch'[d] = sch[d]
    BY <1>u DEF TypeOK, sched
  <2>2. \A d \in CPU \ {c} : sch[d] \notin {"scan", "swtch"}
    BY <1>0, CpuAssumption DEF CpuInv, Free
  <2>3. \A d \in CPU \ {c} : cproc[d] \in Slot =>
          state'[cproc[d]] = "RUNNING" /\ at'[cproc[d]] = at[cproc[d]]
    BY <1>0, <1>s, <1>u, <2>2 DEF CpuInv, TypeOK, Runs
  <2>4. /\ cproc' = cproc /\ idx' = idx /\ cproc[c] = p /\ sch[c] = "proc"
        /\ state'[p] = "ZOMBIE"
    BY <1>0, <1>s, <1>u DEF Runs, sched
  <2>5. \A d \in CPU \ {c} : sch'[d] = "proc" => cproc[d] \in Slot
    BY <2>1 DEF CpuInv
  <2>6. \A d \in CPU \ {c} : sch[d] = "proc" => at[cproc[d]] # "wscan"
    BY <1>0, CpuAssumption DEF CpuInv, Free
  <2> QED
    BY <2>1, <2>2, <2>3, <2>4, <2>5, <2>6 DEF CpuInv, Born
<1>3. ThreadInv'
  BY DEF Runs, sched, Free, ThreadInv
<1>4. ForkInv'
  BY DEF Runs, sched, Free, ForkInv, Forking
<1>5. EmbryoInv'
  BY DEF Runs, sched, Free, EmbryoInv
<1>6. MemInv'
  BY DEF Runs, sched, Free, MemInv, Born
<1>7. PidInv'
  BY DEF Runs, sched, Free, PidInv, PidUnique
<1>8. FamilyInv'
  BY DEF Runs, sched, Free, FamilyInv, Awake, Born
<1>9. WaitInv'
  <2> SUFFICES ASSUME NEW r \in Slot, state'[r] = "SLEEPING", at'[r] = "wsleep"
               PROVE  /\ chan[r] = r /\ ~killed[r]
                      /\ \A q \in Slot : parent'[q] = r => state'[q] # "ZOMBIE"
                      /\ \E q \in Slot : parent'[q] = r
    BY <1>u DEF WaitInv
  <2>1. r # p /\ state[r] = "SLEEPING" /\ at[r] = "wsleep"
    BY <1>s, <1>u
  <2>2. /\ chan[r] = r /\ ~killed[r]
        /\ \A q \in Slot : parent[q] = r => state[q] # "ZOMBIE"
        /\ \E q \in Slot : parent[q] = r
    BY <2>1 DEF WaitInv
  <2>3. parent[p] # r /\ parent[p] # p
    BY <2>2, <1>s, <2>1 DEF FamilyInv
  <2>4. r = initproc => \A q \in Slot : parent[q] = p => state[q] # "ZOMBIE"
    BY <1>s, <2>1, <2>2
  <2>5. \A q \in Slot : parent'[q] = r => state'[q] # "ZOMBIE"
    BY <1>f, <1>s, <2>2, <2>3, <2>4
  <2>6. \E q \in Slot : parent'[q] = r
    BY <1>f, <2>1, <2>2
  <2> QED
    BY <2>2, <2>5, <2>6
<1> QED
  BY <1>1, <1>2, <1>3, <1>4, <1>5, <1>6, <1>7, <1>8, <1>9

\* wait() frees the slot of an exited child.
LEMMA WaitReapStep ==
  ASSUME IInv, NEW c \in CPU, NEW p \in Slot, NEW q \in Slot, WaitReap(c, p, q)
  PROVE  IInv'
<1>0. /\ Runs(c, p) /\ at[p] = "wscan" /\ ptlock = c
      /\ state[p] = "RUNNING" /\ (\A d \in CPU : cproc[d] = p => d = c)
      /\ \A r \in Slot : np[r] # p
      /\ state[q] = "ZOMBIE" /\ parent[q] = p
  BY RunsFacts DEF WaitReap, Zombies
<1>f. /\ p # q /\ q # initproc /\ ~intr[q] /\ at[q] = "zombie"
      /\ \A d \in CPU : cproc[d] # q
      /\ \A r \in Slot : np[r] # q /\ parent[r] # q
  <2>1. p # q /\ q # initproc /\ \A r \in Slot : parent[r] # q
    BY <1>0 DEF IInv, TableInv, FamilyInv, Awake
  <2>2. ~intr[q] /\ at[q] = "zombie" /\ \A r \in Slot : np[r] # q
    BY <1>0 DEF IInv, TypeOK, TableInv, ThreadInv, ForkInv
  <2>3. \A d \in CPU : cproc[d] # q
    BY <1>0 DEF IInv, TypeOK, CpuInv, Runs
  <2> QED
    BY <2>1, <2>2, <2>3
<1>a. /\ at'[p] = "ret" /\ at'[q] = "none"
      /\ \A r \in Slot \ {p, q} : at'[r] = at[r]
      /\ state'[q] = "UNUSED" /\ ~kstack'[q] /\ ~pgdir'[q] /\ parent'[q] = NoProc
      /\ \A r \in Slot \ {q} :
           /\ state'[r] = state[r] /\ pid'[r] = pid[r] /\ parent'[r] = parent[r]
           /\ killed'[r] = killed[r] /\ kstack'[r] = kstack[r] /\ pgdir'[r] = pgdir[r]
  BY <1>f DEF IInv, TypeOK, WaitReap
<1>u. UNCHANGED <<chan, nextpid, np, intr>>
  BY DEF WaitReap
<1> USE <1>0, <1>f, <1>u, SlotFacts DEF IInv, TableInv
<1>1. TypeOK'
  BY DEF WaitReap, Runs, cpus, TypeOK, Loc, ProcState
<1>2. CpuInv'
  BY CpuAssumption DEF WaitReap, Runs, cpus, TypeOK, CpuInv, Born
<1>3. ThreadInv'
  BY <1>a DEF ThreadInv
<1>4. ForkInv'
  BY <1>a DEF ForkInv, Forking
<1>5. EmbryoInv'
  BY <1>a DEF EmbryoInv
<1>6. MemInv'
  BY <1>a DEF MemInv, Born
<1>7. PidInv'
  BY <1>a DEF PidInv, PidUnique
<1>8. FamilyInv'
  BY <1>a DEF FamilyInv, Awake, Born
<1>9. WaitInv'
  BY <1>a DEF WaitInv
<1> QED
  BY <1>1, <1>2, <1>3, <1>4, <1>5, <1>6, <1>7, <1>8, <1>9

-----------------------------------------------------------------------------
\* userinit() and main() establish the invariant.
LEMMA InitIInv == Init => IInv
<1> SUFFICES ASSUME Init PROVE IInv
  OBVIOUS
<1>1. TypeOK
  <2>1. 1 \in 1 .. NPROC + 1 /\ 0 \in 0 .. SleepTicks
    BY ProcAssumption
  <2>2. /\ kstack \in [Slot -> BOOLEAN] /\ pgdir \in [Slot -> BOOLEAN]
        /\ killed \in [Slot -> BOOLEAN] /\ intr \in [Slot -> BOOLEAN]
        /\ idle \in [CPU -> BOOLEAN] /\ panicked \in BOOLEAN
    BY Zenon DEF Init
  <2>3. pid \in [Slot -> Nat] /\ nextpid \in Nat /\ getty \in Nat \cup {Failed}
    BY DEF Init
  <2>4. /\ state \in [Slot -> ProcState] /\ at \in [Slot -> Loc]
        /\ sch \in [CPU -> {"loop", "scan", "proc", "swtch"}]
    BY DEF Init, ProcState, Loc
  <2>5. /\ parent \in [Slot -> Slot \cup {NoProc}] /\ np \in [Slot -> Slot \cup {NoProc}]
        /\ chan \in [Slot -> Chan] /\ elapsed \in [Slot -> 0 .. SleepTicks]
        /\ cproc \in [CPU -> Slot \cup {NoProc}] /\ idx \in [CPU -> 1 .. NPROC + 1]
        /\ ptlock \in CPU \cup {NoCpu} /\ tickslock \in Slot \cup {NoProc}
    BY <2>1, SlotFacts DEF Init
  <2> QED
    BY <2>2, <2>3, <2>4, <2>5 DEF TypeOK
<1>2. CpuInv
  BY SlotFacts DEF Init, CpuInv
<1>3. ThreadInv /\ ForkInv /\ EmbryoInv
  BY SlotFacts DEF Init, ThreadInv, ForkInv, EmbryoInv, Forking
<1>5. MemInv
  BY SlotFacts DEF Init, MemInv, Born
<1>4. PidInv /\ FamilyInv /\ WaitInv
  BY SlotFacts DEF Init, PidInv, PidUnique, FamilyInv, WaitInv, Awake, Born
<1> QED
  BY <1>1, <1>2, <1>3, <1>4, <1>5 DEF IInv, TableInv

\* Every step keeps it.
LEMMA NextIInv == IInv /\ [Next]_vars => IInv'
<1> SUFFICES ASSUME IInv, [Next]_vars PROVE IInv'
  OBVIOUS
<1>1. ASSUME UNCHANGED vars PROVE IInv'
  <2>1. TypeOK'
    BY <1>1 DEF IInv, vars, table, thread, cpus, TypeOK
  <2>2. CpuInv'
    BY <1>1 DEF IInv, vars, table, thread, cpus, CpuInv
  <2>3. TableInv'
    BY <1>1, QuietStep DEF IInv, vars
  <2> QED
    BY <2>1, <2>2, <2>3 DEF IInv
<1>2. ASSUME NEW c \in CPU, Scheduler(c) PROVE IInv'
  BY <1>2, ScanStartStep, SwitchStep, ScanEndStep, DispatchStep, ResumeYieldStep,
     yieldStep DEF Scheduler
<1>3. ASSUME NEW c \in CPU, Timer(c) PROVE IInv'
  BY <1>3, TimerIdleStep, TimerThreadStep DEF Timer
<1>4. ASSUME NEW c \in CPU, NEW p \in Slot, Progress(c, p) PROVE IInv'
  BY <1>4, forkretStep, ResumeSleepStep, ResumeWaitStep, ReturnStep, allocprocStep,
     WaitReapStep, allocprocFullStep, ForkStackStep, ForkStackFailsStep,
     ForkCopyStep, ForkCopyFailsStep, ForkRunStep, exitStep, exitInitStep,
     waitStep, WaitFailsStep, WaitSleepStep, SleepTestStep, sleepStep, killStep
  DEF Progress
<1>5. ASSUME NEW c \in CPU, NEW p \in Slot, Enter(c, p) \/ Fault(c, p) PROVE IInv'
  BY <1>5, EnterStep, FaultStep
<1> QED
  BY <1>1, <1>2, <1>3, <1>4, <1>5 DEF Next, Halted

\* The invariant holds of every state the kernel reaches.
THEOREM Invariance == Spec => []IInv
BY InitIInv, NextIInv, PTL DEF Spec

-----------------------------------------------------------------------------
\* A thread runs on one CPU at a time, on memory that is allocated, for any
\* number of CPUs and slots: sched() hands ptable.lock over with the stack.
THEOREM ProcStackExclusive == Spec => []StackExclusive
<1>1. IInv => StackExclusive
  BY DEF IInv, TypeOK, TableInv, CpuInv, MemInv, Born, StackExclusive
<1> QED
  BY <1>1, Invariance, PTL

\* wait() never sleeps through an exit, a reparenting or a kill.
THEOREM ProcWaitNotLost == Spec => []WaitNotLost
<1>1. IInv => WaitNotLost
  BY DEF IInv, TableInv, WaitInv, WaitNotLost, Zombies, HaveKids
<1> QED
  BY <1>1, Invariance, PTL

\* Every process but init has a parent that can reap it.
THEOREM ProcParentLive == Spec => []ParentLive
<1>1. IInv => ParentLive
  BY SlotFacts DEF IInv, TypeOK, TableInv, FamilyInv, ParentLive, Awake, Born,
     ProcState
<1> QED
  BY <1>1, Invariance, PTL

\* No pid is given out twice.
THEOREM ProcPidUnique == Spec => []PidUnique
<1>1. IInv => PidUnique
  BY DEF IInv, TableInv, PidInv
<1> QED
  BY <1>1, Invariance, PTL

\* fork()'s unlocked stores to its EMBRYO slot race with no one, and memory
\* follows the state of its slot.
THEOREM ProcSlotOwned == Spec => []SlotOwned
<1>1. IInv => SlotOwned
  <2> SUFFICES ASSUME IInv, NEW q \in Slot
               PROVE  /\ state[q] = "UNUSED" => ~kstack[q] /\ ~pgdir[q]
                      /\ state[q] \notin {"UNUSED", "EMBRYO"} => kstack[q] /\ pgdir[q]
                      /\ state[q] = "EMBRYO" =>
                           \E p \in Slot : /\ np[p] = q
                                           /\ \A r \in Slot : np[r] = q => r = p
    BY DEF SlotOwned
  <2>1. /\ state[q] = "UNUSED" => ~kstack[q] /\ ~pgdir[q]
        /\ state[q] \notin {"UNUSED", "EMBRYO"} => kstack[q] /\ pgdir[q]
    BY DEF IInv, TypeOK, TableInv, MemInv, Born, ProcState
  <2>2. state[q] = "EMBRYO" =>
          \E p \in Slot : np[p] = q /\ \A r \in Slot : np[r] = q => r = p
    BY DEF IInv, TableInv, EmbryoInv
  <2> QED
    BY <2>1, <2>2
<1> QED
  BY <1>1, Invariance, PTL

\* The process table stays well typed.
THEOREM ProcTypes == Spec => []TypeOK
<1>1. IInv => TypeOK
  BY DEF IInv
<1> QED
  BY <1>1, Invariance, PTL

\* The process table is consistent at every step of fork(), exit(), wait(), kill() and
\* the scheduler, for any number of CPUs and slots.
THEOREM ProcTable == Spec => []TableConsistent
<1>1. TypeOK /\ ParentLive /\ PidUnique /\ SlotOwned => TableConsistent
  BY DEF TableConsistent
<1> QED
  BY <1>1, ProcTypes, ProcParentLive, ProcPidUnique, ProcSlotOwned, PTL

\* The last tick of a sys_sleep() is never missed.
THEOREM ProcTickNotLost == Spec => []TickNotLost
<1>1. Init => TickInv
  BY DEF Init, TickInv
<1>2. TickInv => TickNotLost
  BY DEF TickInv, TickNotLost
<1> QED
  BY <1>1, <1>2, NextTickInv, Invariance, PTL DEF Spec

=============================================================================
