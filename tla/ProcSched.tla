----------------------------- MODULE ProcSched -----------------------------
(***************************************************************************)
(* The steps of Proc that dispatch, interrupt, block and wake threads keep *)
(* the invariant.                                                          *)
(***************************************************************************)
EXTENDS ProcInv

\* A fault in user code.
LEMMA FaultStep ==
  ASSUME IInv, NEW c \in CPU, NEW p \in Slot, Fault(c, p)
  PROVE  IInv'
<1>0. state[p] = "RUNNING" /\ ~intr[p] /\ (at[p] = "wscan" => ptlock = c)
  BY RunsFacts DEF Fault, Runs
<1>1. TypeOK'
  BY SlotFacts DEF IInv, Fault, Goto, TypeOK, Loc, table, cpus
<1>2. CpuInv'
  BY <1>0, SlotFacts, CpuAssumption DEF IInv, Fault, Runs, Goto, TypeOK,
         CpuInv, table, cpus
<1>3. TableInv'
  BY <1>0, MoveStep DEF IInv, Fault, TypeOK, table, Forking, Loc
<1> QED
  BY <1>1, <1>2, <1>3 DEF IInv

\* wait() takes the lock.
LEMMA waitStep ==
  ASSUME IInv, NEW c \in CPU, NEW p \in Slot, wait(c, p)
  PROVE  IInv'
<1>0. state[p] = "RUNNING" /\ ~intr[p] /\ (at[p] = "wscan" => ptlock = c)
  BY RunsFacts DEF wait, Runs
<1>1. TypeOK'
  BY SlotFacts DEF IInv, wait, Goto, Free, TypeOK, Loc, table, cpus
<1>2. CpuInv'
  BY <1>0, SlotFacts, CpuAssumption DEF IInv, wait, Runs, Goto, Free, TypeOK,
         CpuInv, table, cpus
<1>3. TableInv'
  BY <1>0, MoveStep DEF IInv, wait, TypeOK, table, Forking, Loc
<1> QED
  BY <1>1, <1>2, <1>3 DEF IInv

\* wait() has nothing to wait for.
LEMMA WaitFailsStep ==
  ASSUME IInv, NEW c \in CPU, NEW p \in Slot, WaitFails(c, p)
  PROVE  IInv'
<1>0. state[p] = "RUNNING" /\ ~intr[p] /\ (at[p] = "wscan" => ptlock = c)
  BY RunsFacts DEF WaitFails, Runs
<1>1. TypeOK'
  BY SlotFacts DEF IInv, WaitFails, Goto, TypeOK, Loc, table, cpus
<1>2. CpuInv'
  BY <1>0, SlotFacts, CpuAssumption DEF IInv, WaitFails, Runs, Goto, TypeOK,
         CpuInv, table, cpus
<1>3. TableInv'
  BY <1>0, MoveStep DEF IInv, WaitFails, TypeOK, table, Forking, Loc
<1> QED
  BY <1>1, <1>2, <1>3 DEF IInv

\* sys_sleep() tests ticks.
LEMMA SleepTestStep ==
  ASSUME IInv, NEW c \in CPU, NEW p \in Slot, SleepTest(c, p)
  PROVE  IInv'
<1>0. state[p] = "RUNNING" /\ ~intr[p] /\ (at[p] = "wscan" => ptlock = c)
  BY RunsFacts DEF SleepTest, Runs
<1>1. TypeOK'
  BY SlotFacts, ProcAssumption DEF IInv, SleepTest, Goto, TypeOK, Loc, table,
         cpus
<1>2. CpuInv'
  BY <1>0, SlotFacts, CpuAssumption DEF IInv, SleepTest, Runs, Goto, TypeOK,
         CpuInv, table, cpus
<1>3. TableInv'
  BY <1>0, MoveStep DEF IInv, SleepTest, TypeOK, table, Forking, Loc
<1> QED
  BY <1>1, <1>2, <1>3 DEF IInv

\* kill() marks a slot and wakes a sleeper.
LEMMA killStep ==
  ASSUME IInv, NEW c \in CPU, NEW p \in Slot, NEW k \in 0 .. MaxPid, kill(c, p, k)
  PROVE  IInv'
<1>s. /\ state' \in [Slot -> ProcState] /\ killed' \in [Slot -> BOOLEAN]
      /\ \A r \in Slot :
           \/ state'[r] = state[r] /\ (state[r] = "SLEEPING" => killed'[r] = killed[r])
           \/ state[r] = "SLEEPING" /\ state'[r] = "RUNNABLE"
  BY Zenon DEF IInv, TypeOK, kill, WokenByKill, ProcState
<1>0. state[p] = "RUNNING" /\ ~intr[p] /\ (at[p] = "wscan" => ptlock = c)
  BY RunsFacts DEF kill, Runs
<1>1. TypeOK'
  BY SlotFacts, <1>s DEF IInv, kill, Goto, TypeOK, Loc, table, cpus
<1>2. CpuInv'
  BY <1>0, SlotFacts, CpuAssumption, <1>s DEF IInv, kill, Runs, Goto, TypeOK,
         CpuInv, table, cpus, Born
<1>3. TableInv'
  BY <1>0, MoveStep, <1>s DEF IInv, kill, TypeOK, table, Forking, Loc
<1> QED
  BY <1>1, <1>2, <1>3 DEF IInv

\* scheduler() switches to a thread.
LEMMA DispatchStep ==
  ASSUME IInv, NEW c \in CPU, NEW p \in Slot, Dispatch(c, p)
  PROVE  IInv'
<1>0. \A d \in CPU : cproc[d] # p
  BY CpuAssumption DEF IInv, TypeOK, CpuInv, Dispatch
<1>i. idx' \in [CPU -> 1 .. NPROC + 1]
  BY SlotIndex DEF IInv, TypeOK, Dispatch
<1> USE <1>0, SlotFacts DEF IInv, TableInv
<1>1. TypeOK'
  BY <1>i DEF Dispatch, table, thread, cpus, TypeOK, Loc, ProcState
<1>2. CpuInv'
  BY CpuAssumption DEF Dispatch, table, thread, cpus, TypeOK, CpuInv, Born
<1>3. ForkInv' /\ EmbryoInv' /\ MemInv' /\ PidInv' /\ FamilyInv'
  BY AwakeStep DEF Dispatch, table, thread, cpus, TypeOK, Awake, Forking
<1>4. ThreadInv'
  BY DEF Dispatch, table, thread, cpus, TypeOK, ThreadInv
<1>5. WaitInv'
  BY DEF Dispatch, table, thread, cpus, TypeOK, WaitInv
<1> QED
  BY <1>1, <1>2, <1>3, <1>4, <1>5

\* The end of yield().
LEMMA ResumeYieldStep ==
  ASSUME IInv, NEW c \in CPU, NEW p \in Slot, ResumeYield(c, p)
  PROVE  IInv'
<1>0. state[p] = "RUNNING" /\ (\A d \in CPU : cproc[d] = p => d = c)
  BY DEF IInv, CpuInv, ResumeYield
<1> USE <1>0, SlotFacts DEF IInv, TableInv
<1>1. TypeOK'
  BY DEF ResumeYield, Goto, table, thread, cpus, TypeOK, Loc, ProcState
<1>2. CpuInv'
  BY CpuAssumption DEF ResumeYield, Goto, table, thread, cpus, TypeOK, CpuInv,
         Born, ThreadInv
<1>3. ForkInv' /\ EmbryoInv' /\ MemInv' /\ PidInv' /\ FamilyInv'
  BY AwakeStep DEF ResumeYield, Goto, table, thread, cpus, TypeOK, Awake,
         Forking
<1>4. ThreadInv'
  BY DEF ResumeYield, Goto, table, thread, cpus, TypeOK, ThreadInv, CpuInv
<1>5. WaitInv'
  BY DEF ResumeYield, Goto, table, thread, cpus, TypeOK, WaitInv
<1> QED
  BY <1>1, <1>2, <1>3, <1>4, <1>5

\* The timer interrupts a thread.
LEMMA TimerThreadStep ==
  ASSUME IInv, NEW c \in CPU, NEW p \in Slot, TimerThread(c, p)
  PROVE  IInv'
<1>0. /\ state[p] = "RUNNING" /\ at[p] # "wscan" /\ (\A d \in CPU : cproc[d] = p => d = c)
      /\ \A r \in Slot : np[r] # p
  BY RunsFacts DEF TimerThread
<1>w. /\ state' \in [Slot -> ProcState]
      /\ elapsed' \in [Slot -> 0 .. SleepTicks]
      /\ \A r \in Slot : \/ state'[r] = state[r]
                         \/ state[r] = "SLEEPING" /\ state'[r] = "RUNNABLE"
  BY TickFacts DEF IInv, TimerThread
<1>t. at' \in [Slot -> Loc] /\ intr' \in [Slot -> BOOLEAN]
  BY Zenon DEF IInv, TypeOK, Loc, TimerThread, Goto
<1> USE <1>0, <1>w, SlotFacts DEF IInv, TableInv
<1>1. TypeOK'
  BY <1>t DEF TimerThread, Runs, Goto, table, thread, cpus, TypeOK, Loc,
         ProcState
<1>2. CpuInv'
  BY CpuAssumption DEF TimerThread, Runs, Goto, table, thread, cpus, TypeOK,
         CpuInv, Born
<1>3. ForkInv' /\ EmbryoInv' /\ MemInv' /\ PidInv' /\ FamilyInv'
  BY AwakeStep DEF TimerThread, Runs, Goto, table, thread, cpus, TypeOK,
         Awake, Forking
<1>4. ThreadInv'
  BY DEF TimerThread, Runs, Goto, table, thread, cpus, TypeOK, ThreadInv
<1>5. WaitInv'
  BY DEF TimerThread, Runs, Goto, table, thread, cpus, TypeOK, WaitInv
<1> QED
  BY <1>1, <1>2, <1>3, <1>4, <1>5

\* The timer interrupts scheduler().
LEMMA TimerIdleStep ==
  ASSUME IInv, NEW c \in CPU, TimerIdle(c)
  PROVE  IInv'
<1>w. /\ state' \in [Slot -> ProcState]
      /\ elapsed' \in [Slot -> 0 .. SleepTicks]
      /\ \A r \in Slot : \/ state'[r] = state[r]
                         \/ state[r] = "SLEEPING" /\ state'[r] = "RUNNABLE"
  BY TickFacts DEF IInv, TimerIdle
<1> USE <1>w, SlotFacts DEF IInv, TableInv
<1>1. TypeOK'
  BY DEF TimerIdle, table, thread, cpus, TypeOK, Loc, ProcState
<1>2. CpuInv'
  BY CpuAssumption DEF TimerIdle, table, thread, cpus, TypeOK, CpuInv, Born
<1>3. ForkInv' /\ EmbryoInv' /\ MemInv' /\ PidInv' /\ FamilyInv'
  BY AwakeStep DEF TimerIdle, table, thread, cpus, TypeOK, Awake, Forking
<1>4. ThreadInv'
  BY DEF TimerIdle, table, thread, cpus, TypeOK, ThreadInv
<1>5. WaitInv'
  BY DEF TimerIdle, table, thread, cpus, TypeOK, WaitInv
<1> QED
  BY <1>1, <1>2, <1>3, <1>4, <1>5

\* yield() gives the CPU up.
LEMMA yieldStep ==
  ASSUME IInv, NEW c \in CPU, NEW p \in Slot, yield(c, p)
  PROVE  IInv'
<1>0. /\ state[p] = "RUNNING" /\ (\A d \in CPU : cproc[d] = p => d = c)
  BY DEF IInv, CpuInv, yield
<1> USE <1>0, SlotFacts DEF IInv, TableInv
<1>1. TypeOK'
  BY DEF yield, sched, Free, table, thread, cpus, TypeOK, Loc, ProcState
<1>2. CpuInv'
  BY CpuAssumption DEF yield, sched, Free, table, thread, cpus, TypeOK,
         CpuInv, Born
<1>3. ForkInv' /\ EmbryoInv' /\ MemInv' /\ PidInv' /\ FamilyInv'
  BY AwakeStep DEF yield, sched, Free, table, thread, cpus, TypeOK, Awake,
         Forking
<1>4. ThreadInv'
  BY DEF yield, sched, Free, table, thread, cpus, TypeOK, ThreadInv
<1>5. WaitInv'
  BY DEF yield, sched, Free, table, thread, cpus, TypeOK, WaitInv
<1> QED
  BY <1>1, <1>2, <1>3, <1>4, <1>5

\* wait() goes to sleep.
LEMMA WaitSleepStep ==
  ASSUME IInv, NEW c \in CPU, NEW p \in Slot, WaitSleep(c, p)
  PROVE  IInv'
<1>i. /\ TypeOK /\ CpuInv /\ ThreadInv /\ ForkInv /\ EmbryoInv /\ MemInv /\ PidInv
      /\ FamilyInv /\ WaitInv
  BY DEF IInv, TableInv
<1>0. /\ sch[c] = "proc" /\ cproc[c] = p /\ ptlock = c /\ ~intr[p] /\ at[p] = "wscan"
      /\ state[p] = "RUNNING" /\ \A d \in CPU : cproc[d] = p => d = c
  BY RunsFacts DEF WaitSleep, Runs
<1>k. /\ ~killed[p] /\ \A q \in Slot : parent[q] = p => state[q] # "ZOMBIE"
      /\ \E q \in Slot : parent[q] = p
  BY DEF WaitSleep, Zombies, HaveKids
<1>t. /\ state \in [Slot -> ProcState] /\ at \in [Slot -> Loc] /\ chan \in [Slot -> Chan]
      /\ sch \in [CPU -> {"loop", "scan", "proc", "swtch"}]
  BY <1>i DEF TypeOK
<1>u. UNCHANGED <<pid, parent, killed, kstack, pgdir, nextpid, np, intr, elapsed, tickslock,
                  cproc, idx, idle, getty, panicked>>
  BY DEF WaitSleep, sched, thread
<1>s. /\ state' = [state EXCEPT ![p] = "SLEEPING"] /\ at' = [at EXCEPT ![p] = "wsleep"]
      /\ chan' = [chan EXCEPT ![p] = p]
      /\ sch' = [sch EXCEPT ![c] = "swtch"] /\ ptlock' = c
  BY DEF WaitSleep, sched, thread, Goto
<1>a. /\ state'[p] = "SLEEPING" /\ \A r \in Slot \ {p} : state'[r] = state[r]
      /\ at'[p] = "wsleep" /\ \A r \in Slot \ {p} : at'[r] = at[r]
      /\ chan'[p] = p /\ \A r \in Slot \ {p} : chan'[r] = chan[r]
  BY <1>t, <1>s
<1>c. sch'[c] = "swtch" /\ \A d \in CPU \ {c} : sch'[d] = sch[d]
  BY <1>t, <1>s
<1>1. TypeOK'
  <2>1. /\ state' \in [Slot -> ProcState] /\ at' \in [Slot -> Loc] /\ chan' \in [Slot -> Chan]
        /\ sch' \in [CPU -> {"loop", "scan", "proc", "swtch"}]
    BY <1>t, <1>s, SlotFacts DEF ProcState, Loc
  <2> QED BY <1>i, <1>u, <1>s, <2>1, Zenon DEF TypeOK
<1>2. CpuInv'
  BY <1>0, <1>i, <1>u, <1>s, <1>a, <1>c, CpuAssumption DEF CpuInv, Born
<1>3. ForkInv' /\ EmbryoInv' /\ MemInv' /\ PidInv' /\ FamilyInv'
  BY <1>0, <1>i, <1>u, <1>a, AwakeStep, Zenon DEF TableInv, Awake, Forking
<1>4. ThreadInv'
  BY <1>0, <1>i, <1>u, <1>a DEF ThreadInv
<1>5. WaitInv'
  BY <1>0, <1>i, <1>u, <1>a, <1>k DEF WaitInv
<1> QED
  BY <1>1, <1>2, <1>3, <1>4, <1>5 DEF IInv, TableInv

\* sys_sleep() goes to sleep.
LEMMA sleepStep ==
  ASSUME IInv, NEW c \in CPU, NEW p \in Slot, sleep(c, p)
  PROVE  IInv'
<1>i. /\ TypeOK /\ CpuInv /\ ThreadInv /\ ForkInv /\ EmbryoInv /\ MemInv /\ PidInv
      /\ FamilyInv /\ WaitInv
  BY DEF IInv, TableInv
<1>0. /\ sch[c] = "proc" /\ cproc[c] = p /\ ptlock = NoCpu /\ ~intr[p] /\ at[p] = "tgo"
      /\ state[p] = "RUNNING" /\ \A d \in CPU : cproc[d] = p => d = c
  BY RunsFacts DEF sleep, Runs, Free
<1>k. tickslock' = NoProc
  BY DEF sleep
<1>t. /\ state \in [Slot -> ProcState] /\ at \in [Slot -> Loc] /\ chan \in [Slot -> Chan]
      /\ sch \in [CPU -> {"loop", "scan", "proc", "swtch"}]
  BY <1>i DEF TypeOK
<1>u. UNCHANGED <<pid, parent, killed, kstack, pgdir, nextpid, np, intr, elapsed,
                  cproc, idx, idle, getty, panicked>>
  BY DEF sleep, sched, thread
<1>s. /\ state' = [state EXCEPT ![p] = "SLEEPING"] /\ at' = [at EXCEPT ![p] = "tsleep"]
      /\ chan' = [chan EXCEPT ![p] = Ticks]
      /\ sch' = [sch EXCEPT ![c] = "swtch"] /\ ptlock' = c
  BY DEF sleep, sched, thread, Goto
<1>a. /\ state'[p] = "SLEEPING" /\ \A r \in Slot \ {p} : state'[r] = state[r]
      /\ at'[p] = "tsleep" /\ \A r \in Slot \ {p} : at'[r] = at[r]
      /\ \A r \in Slot \ {p} : chan'[r] = chan[r]
  BY <1>t, <1>s
<1>c. sch'[c] = "swtch" /\ \A d \in CPU \ {c} : sch'[d] = sch[d]
  BY <1>t, <1>s
<1>1. TypeOK'
  <2>1. /\ state' \in [Slot -> ProcState] /\ at' \in [Slot -> Loc] /\ chan' \in [Slot -> Chan]
        /\ sch' \in [CPU -> {"loop", "scan", "proc", "swtch"}]
    BY <1>t, <1>s, SlotFacts DEF ProcState, Loc
  <2> QED BY <1>i, <1>u, <1>s, <2>1, <1>k, Zenon DEF TypeOK
<1>2. CpuInv'
  BY <1>0, <1>i, <1>u, <1>s, <1>a, <1>c, CpuAssumption DEF CpuInv, Born
<1>3. ForkInv' /\ EmbryoInv' /\ MemInv' /\ PidInv' /\ FamilyInv'
  BY <1>0, <1>i, <1>u, <1>a, AwakeStep, Zenon DEF TableInv, Awake, Forking
<1>4. ThreadInv'
  BY <1>0, <1>i, <1>u, <1>a DEF ThreadInv
<1>5. WaitInv'
  BY <1>0, <1>i, <1>u, <1>a DEF WaitInv
<1> QED
  BY <1>1, <1>2, <1>3, <1>4, <1>5 DEF IInv, TableInv

=============================================================================
