------------------------------- MODULE ProcInv -------------------------------
(***************************************************************************)
(* The inductive invariant of Proc, facts that follow from it, and the     *)
(* steps that leave the process table alone or concern the clock.          *)
(***************************************************************************)
EXTENDS Proc, TLAPS

Forking == {"kstack", "copy", "run"}
Awake   == {"SLEEPING", "RUNNABLE", "RUNNING"}
Born    == {"SLEEPING", "RUNNABLE", "RUNNING", "ZOMBIE"}

(***************************************************************************)
(* The CPUs: each runs at most one thread, a RUNNING one unless it is      *)
(* switching away from it; ptable.lock belongs to a CPU that scans, that   *)
(* switches, or whose thread scans in wait().                              *)
(***************************************************************************)
CpuInv ==
  /\ \A c \in CPU :
       /\ cproc[c] \in Slot <=> sch[c] \in {"proc", "swtch"}
       /\ cproc[c] \in Slot => idx[c] = cproc[c]
       /\ sch[c] = "proc" => state[cproc[c]] = "RUNNING"
       /\ sch[c] = "swtch" => state[cproc[c]] \in Born
       /\ sch[c] \in {"scan", "swtch"} => ptlock = c
       /\ sch[c] = "proc" /\ at[cproc[c]] = "wscan" => ptlock = c
  /\ \A c, d \in CPU : cproc[c] = cproc[d] /\ cproc[c] \in Slot => c = d

(***************************************************************************)
(* Where a thread is, by its state: off the CPU it is at a call of         *)
(* sched(), or has not started.                                            *)
(***************************************************************************)
ThreadInv ==
  \A p \in Slot :
    /\ state[p] = "UNUSED" => at[p] = "none" /\ ~intr[p]
    /\ state[p] = "EMBRYO" => at[p] \in {"none", "forkret"} /\ ~intr[p]
    /\ state[p] = "SLEEPING" => at[p] \in {"tsleep", "wsleep"} /\ ~intr[p]
    /\ state[p] = "RUNNABLE" => intr[p] \/ at[p] \in {"forkret", "tsleep", "wsleep"}
    /\ state[p] = "RUNNING" => at[p] \notin {"none", "zombie"}
    /\ state[p] = "ZOMBIE" => at[p] = "zombie" /\ ~intr[p]
    /\ intr[p] => at[p] \notin {"wscan", "none", "zombie"}

(***************************************************************************)
(* fork() in progress: np is an EMBRYO no other fork() has, built up as    *)
(* far as the parent has come.                                             *)
(***************************************************************************)
ForkInv ==
  \A p \in Slot :
    /\ np[p] \in Slot <=> at[p] \in Forking
    /\ np[p] \in Slot => state[np[p]] = "EMBRYO"
    /\ at[p] = "kstack" => /\ ~kstack[np[p]] /\ ~pgdir[np[p]]
                           /\ parent[np[p]] = NoProc /\ at[np[p]] = "none"
    /\ at[p] = "copy" => /\ kstack[np[p]] /\ ~pgdir[np[p]]
                         /\ parent[np[p]] = NoProc /\ at[np[p]] = "forkret"
    /\ at[p] = "run" => /\ kstack[np[p]] /\ pgdir[np[p]]
                        /\ parent[np[p]] = p /\ at[np[p]] = "forkret"
EmbryoInv ==
  /\ \A q \in Slot : state[q] = "EMBRYO" => \E p \in Slot : np[p] = q
  /\ \A p, q \in Slot : np[p] = np[q] /\ np[p] \in Slot => p = q

\* Memory by state, outside EMBRYO.
MemInv ==
  \A p \in Slot :
    /\ state[p] = "UNUSED" => ~kstack[p] /\ ~pgdir[p] /\ parent[p] = NoProc
    /\ state[p] \in Born => kstack[p] /\ pgdir[p]

PidInv ==
  /\ \A p \in Slot : state[p] # "UNUSED" => pid[p] < nextpid
  /\ PidUnique

FamilyInv ==
  /\ state[initproc] \in Awake /\ parent[initproc] = NoProc
  /\ \A p \in Slot : parent[p] \in Slot => /\ state[parent[p]] \in Awake
                                           /\ state[p] # "UNUSED"
                                           /\ parent[p] # p
  /\ \A p \in Slot \ {initproc} : state[p] \in Born => parent[p] \in Slot

WaitInv ==
  \A p \in Slot : state[p] = "SLEEPING" /\ at[p] = "wsleep" =>
    /\ chan[p] = p /\ ~killed[p]
    /\ \A q \in Slot : parent[q] = p => state[q] # "ZOMBIE"
    /\ \E q \in Slot : parent[q] = p

TableInv == /\ ThreadInv /\ ForkInv /\ EmbryoInv /\ MemInv /\ PidInv
            /\ FamilyInv /\ WaitInv
IInv == TypeOK /\ CpuInv /\ TableInv

-----------------------------------------------------------------------------
\* Slots are numbers, and neither "no process" nor the channel &ticks is one.
LEMMA SlotFacts ==
  /\ NoProc \notin Slot /\ initproc \in Slot /\ Ticks \notin Slot
  /\ Slot \subseteq Chan /\ Ticks \in Chan /\ 0 \in Chan
BY ProcAssumption DEF NoProc, Slot, initproc, Ticks, Chan

\* scheduler()'s loop variable, at a slot and one past it.
LEMMA SlotIndex == \A p \in Slot : p \in 1 .. NPROC + 1 /\ p + 1 \in 1 .. NPROC + 1
BY ProcAssumption DEF Slot

\* What wakeup1() does to each slot.
LEMMA WakeupFacts ==
  ASSUME NEW st \in [Slot -> ProcState], NEW ch
  PROVE  /\ wakeup1(st, ch) \in [Slot -> ProcState]
         /\ \A r \in Slot :
              wakeup1(st, ch)[r] = IF st[r] = "SLEEPING" /\ chan[r] = ch
                                   THEN "RUNNABLE" ELSE st[r]
BY DEF wakeup1, ProcState

\* The clock tick wakes sleepers and does nothing else to the states.
LEMMA TickFacts ==
  ASSUME TypeOK, NEW c \in CPU, tick(c)
  PROVE  /\ state' \in [Slot -> ProcState]
         /\ elapsed' \in [Slot -> 0 .. SleepTicks]
         /\ \A r \in Slot : \/ state'[r] = state[r]
                            \/ state[r] = "SLEEPING" /\ state'[r] = "RUNNABLE"
<1>1. elapsed' \in [Slot -> 0 .. SleepTicks]
  BY ProcAssumption DEF TypeOK, tick
<1>2. state' = state \/ state' = wakeup1(state, Ticks)
  BY DEF tick
<1>3. state \in [Slot -> ProcState]
  BY DEF TypeOK
<1> QED
  BY <1>1, <1>2, <1>3, WakeupFacts

\* A thread that executes is RUNNING, and its CPU has the lock if it is in the
\* scan of wait().
LEMMA RunsFacts ==
  ASSUME IInv, NEW c \in CPU, NEW p \in Slot, Runs(c, p)
  PROVE  /\ state[p] = "RUNNING" /\ at[p] \notin {"none", "zombie"}
         /\ at[p] = "wscan" => ptlock = c
         /\ \A d \in CPU : cproc[d] = p => d = c
         /\ \A r \in Slot : np[r] # p
         /\ at[p] \notin Forking => np[p] = NoProc
<1>1. /\ state[p] = "RUNNING" /\ at[p] \notin {"none", "zombie"}
      /\ at[p] = "wscan" => ptlock = c
      /\ \A d \in CPU : cproc[d] = p => d = c
  BY DEF IInv, TableInv, CpuInv, ThreadInv, Runs
<1>2. /\ \A r \in Slot : np[r] # p
      /\ at[p] \notin Forking => np[p] = NoProc
  BY <1>1 DEF IInv, TypeOK, TableInv, ForkInv
<1> QED
  BY <1>1, <1>2

\* A child under construction is known to its fork() alone.
LEMMA ForkFacts ==
  ASSUME IInv, NEW c \in CPU, NEW p \in Slot, Runs(c, p), at[p] \in Forking
  PROVE  /\ np[p] \in Slot /\ np[p] # p /\ np[p] # initproc
         /\ state[np[p]] = "EMBRYO" /\ at[np[p]] \in {"none", "forkret"}
         /\ ~intr[np[p]]
         /\ \A d \in CPU : cproc[d] # np[p]
         /\ \A r \in Slot : parent[r] # np[p] /\ np[r] # p
         /\ \A r \in Slot \ {p} : np[r] # np[p]
<1>1. state[p] = "RUNNING"
  BY RunsFacts
<1>2. np[p] \in Slot /\ state[np[p]] = "EMBRYO"
  BY DEF IInv, TableInv, ForkInv
<1>3. np[p] # p /\ np[p] # initproc /\ \A r \in Slot : parent[r] # np[p]
  BY <1>1, <1>2, SlotFacts DEF IInv, TableInv, FamilyInv, Awake
<1>4. at[np[p]] \in {"none", "forkret"} /\ ~intr[np[p]]
  BY <1>2 DEF IInv, TableInv, ThreadInv
<1>5. \A d \in CPU : cproc[d] # np[p]
  BY <1>2 DEF IInv, CpuInv, TypeOK, Born
<1>6. \A r \in Slot \ {p} : np[r] # np[p]
  BY <1>2 DEF IInv, TableInv, EmbryoInv
<1> QED
  BY <1>1, <1>2, <1>3, <1>4, <1>5, <1>6, RunsFacts

\* Steps that touch neither the table nor a thread.
LEMMA QuietStep ==
  ASSUME TableInv, UNCHANGED <<table, thread>>
  PROVE  TableInv'
BY DEF TableInv, table, thread, ThreadInv, ForkInv, EmbryoInv, MemInv, PidInv, PidUnique,
       FamilyInv, WaitInv

\* Steps that create and end no process, and move only RUNNING threads.
LEMMA AwakeStep ==
  ASSUME TypeOK, TableInv,
         UNCHANGED <<pid, parent, kstack, pgdir, nextpid, np>>,
         \A r \in Slot : state'[r] = state[r] \/ {state[r], state'[r]} \subseteq Awake,
         \A r \in Slot : \/ at'[r] = at[r]
                         \/ state[r] = "RUNNING" /\ {at[r], at'[r]} \cap Forking = {}
  PROVE  ForkInv' /\ EmbryoInv' /\ MemInv' /\ PidInv' /\ FamilyInv'
<1> USE DEF TableInv
<1>1. \A r \in Slot : /\ state'[r] = "UNUSED" <=> state[r] = "UNUSED"
                      /\ state'[r] = "EMBRYO" <=> state[r] = "EMBRYO"
                      /\ state'[r] \in Born <=> state[r] \in Born
                      /\ state'[r] \in Awake <=> state[r] \in Awake
  BY DEF Born, Awake
<1>2. ForkInv'
  <2>1. \A r \in Slot : np[r] \in Slot => at'[np[r]] = at[np[r]]
    BY DEF ForkInv
  <2>2. \A r \in Slot : /\ at'[r] \in Forking <=> at[r] \in Forking
                        /\ at[r] \in Forking => at'[r] = at[r]
    OBVIOUS
  <2> QED
    BY <1>1, <2>1, <2>2 DEF ForkInv, Forking
<1>3. EmbryoInv' /\ MemInv' /\ PidInv'
  BY <1>1 DEF EmbryoInv, MemInv, PidInv, PidUnique
<1>4. FamilyInv'
  BY <1>1, SlotFacts DEF FamilyInv
<1> QED
  BY <1>2, <1>3, <1>4

\* Steps that move a RUNNING thread, outside fork(), change its own chan or
\* killed, and do no more to the others than wake them.
LEMMA MoveStep ==
  ASSUME IInv, NEW p \in Slot, state[p] = "RUNNING", ~intr[p],
         at[p] \notin Forking,
         NEW loc \in Loc \ (Forking \cup {"none", "zombie"}), Goto(p, loc),
         \A r \in Slot : \/ state'[r] = state[r]
                         \/ state[r] = "SLEEPING" /\ state'[r] = "RUNNABLE",
         UNCHANGED <<pid, parent, kstack, pgdir, nextpid, np, intr>>,
         \A r \in Slot \ {p} : state'[r] = "SLEEPING" =>
           chan'[r] = chan[r] /\ killed'[r] = killed[r]
  PROVE  TableInv'
<1>1. at' \in [Slot -> Loc] /\ at'[p] = loc /\ \A r \in Slot \ {p} : at'[r] = at[r]
  BY DEF IInv, TypeOK, Goto
<1>2. ThreadInv'
  BY <1>1 DEF IInv, TableInv, ThreadInv
<1>3. ForkInv' /\ EmbryoInv' /\ MemInv' /\ PidInv' /\ FamilyInv'
  BY <1>1, AwakeStep DEF IInv, Awake
<1>4. WaitInv'
  BY <1>1 DEF IInv, TableInv, WaitInv
<1> QED
  BY <1>2, <1>3, <1>4 DEF TableInv


\* scheduler() takes the lock.
LEMMA ScanStartStep ==
  ASSUME IInv, NEW c \in CPU, ScanStart(c)
  PROVE  IInv'
<1>1. TypeOK'
  BY SlotFacts DEF IInv, ScanStart, Free, TypeOK, table, thread, cpus, CpuInv
<1>2. CpuInv'
  BY SlotFacts, CpuAssumption DEF IInv, ScanStart, Free, TypeOK, CpuInv, Born,
         table, thread, cpus
<1>3. TableInv'
  BY QuietStep DEF IInv, ScanStart
<1> QED
  BY <1>1, <1>2, <1>3 DEF IInv

\* scheduler() leaves the stack of the thread.
LEMMA SwitchStep ==
  ASSUME IInv, NEW c \in CPU, Switch(c)
  PROVE  IInv'
<1>i. idx[c] + 1 \in 1 .. NPROC + 1
  BY SlotIndex DEF IInv, Switch, CpuInv
<1>0. idx' \in [CPU -> 1 .. NPROC + 1]
  BY <1>i DEF IInv, Switch, TypeOK
<1>1. TypeOK'
  BY <1>0, SlotFacts DEF IInv, Switch, TypeOK, table, thread, cpus, CpuInv
<1>2. CpuInv'
  BY SlotFacts, CpuAssumption DEF IInv, Switch, TypeOK, CpuInv, Born, table,
         thread, cpus
<1>3. TableInv'
  BY QuietStep DEF IInv, Switch
<1> QED
  BY <1>1, <1>2, <1>3 DEF IInv

\* scheduler() releases the lock.
LEMMA ScanEndStep ==
  ASSUME IInv, NEW c \in CPU, ScanEnd(c)
  PROVE  IInv'
<1>i. 1 \in 1 .. NPROC + 1
  BY ProcAssumption
<1>0. idx' \in [CPU -> 1 .. NPROC + 1]
  BY <1>i DEF IInv, ScanEnd, TypeOK
<1>1. TypeOK'
  BY <1>0, SlotFacts DEF IInv, ScanEnd, TypeOK, table, thread, cpus, CpuInv
<1>2. CpuInv'
  BY SlotFacts, CpuAssumption DEF IInv, ScanEnd, TypeOK, CpuInv, Born, table,
         thread, cpus
<1>3. TableInv'
  BY QuietStep DEF IInv, ScanEnd
<1> QED
  BY <1>1, <1>2, <1>3 DEF IInv

\* A system call.
LEMMA EnterStep ==
  ASSUME IInv, NEW c \in CPU, NEW p \in Slot, Enter(c, p)
  PROVE  IInv'
<1>0. state[p] = "RUNNING" /\ ~intr[p] /\ (at[p] = "wscan" => ptlock = c)
  BY RunsFacts DEF Enter, Runs
<1>1. TypeOK'
  BY SlotFacts DEF IInv, Enter, Goto, Program, Syscall, TypeOK, Loc, table,
         cpus
<1>2. CpuInv'
  BY <1>0, SlotFacts, CpuAssumption DEF IInv, Enter, Runs, Goto, Program,
         Syscall, TypeOK, CpuInv, table, cpus
<1>3. TableInv'
  BY <1>0, MoveStep DEF IInv, Enter, Program, Syscall, TypeOK, table, Forking,
         Loc
<1> QED
  BY <1>1, <1>2, <1>3 DEF IInv

\* fork() finds no slot.
LEMMA allocprocFullStep ==
  ASSUME IInv, NEW c \in CPU, NEW p \in Slot, allocprocFull(c, p)
  PROVE  IInv'
<1>n. np' = np
  BY RunsFacts DEF IInv, TypeOK, allocprocFull, ForkReturns, Forking
<1>0. state[p] = "RUNNING" /\ ~intr[p] /\ (at[p] = "wscan" => ptlock = c)
  BY RunsFacts DEF allocprocFull, Runs
<1>1. TypeOK'
  BY SlotFacts DEF IInv, allocprocFull, Goto, ForkReturns, TypeOK, Loc, table,
         cpus, Failed
<1>2. CpuInv'
  BY <1>0, SlotFacts, CpuAssumption DEF IInv, allocprocFull, Runs, Goto,
         ForkReturns, TypeOK, CpuInv, table, cpus
<1>3. TableInv'
  BY <1>0, MoveStep, <1>n DEF IInv, allocprocFull, ForkReturns, TypeOK, table,
         Forking, Loc
<1> QED
  BY <1>1, <1>2, <1>3 DEF IInv

\* panic().
LEMMA exitInitStep ==
  ASSUME IInv, NEW c \in CPU, NEW p \in Slot, exitInit(c, p)
  PROVE  IInv'
<1>1. TypeOK'
  BY SlotFacts DEF IInv, exitInit, TypeOK, table, thread, cpus, CpuInv
<1>2. CpuInv'
  BY SlotFacts, CpuAssumption DEF IInv, exitInit, TypeOK, CpuInv, Born, table,
         thread, cpus
<1>3. TableInv'
  BY QuietStep DEF IInv, exitInit
<1> QED
  BY <1>1, <1>2, <1>3 DEF IInv

\* A new process starts.
LEMMA forkretStep ==
  ASSUME IInv, NEW c \in CPU, NEW p \in Slot, forkret(c, p)
  PROVE  IInv'
<1>0. state[p] = "RUNNING" /\ ~intr[p] /\ (at[p] = "wscan" => ptlock = c)
  BY RunsFacts DEF forkret, Runs
<1>1. TypeOK'
  BY SlotFacts DEF IInv, forkret, Goto, TypeOK, Loc, table, cpus
<1>2. CpuInv'
  BY <1>0, SlotFacts, CpuAssumption DEF IInv, forkret, Runs, Goto, TypeOK,
         CpuInv, table, cpus
<1>3. TableInv'
  BY <1>0, MoveStep DEF IInv, forkret, TypeOK, table, Forking, Loc
<1> QED
  BY <1>1, <1>2, <1>3 DEF IInv

\* sleep() returns in sys_sleep().
LEMMA ResumeSleepStep ==
  ASSUME IInv, NEW c \in CPU, NEW p \in Slot, ResumeSleep(c, p)
  PROVE  IInv'
<1>0. state[p] = "RUNNING" /\ ~intr[p] /\ (at[p] = "wscan" => ptlock = c)
  BY RunsFacts DEF ResumeSleep, Runs
<1>1. TypeOK'
  BY SlotFacts DEF IInv, ResumeSleep, Goto, TypeOK, Loc, table, cpus
<1>2. CpuInv'
  BY <1>0, SlotFacts, CpuAssumption DEF IInv, ResumeSleep, Runs, Goto, TypeOK,
         CpuInv, table, cpus
<1>3. TableInv'
  BY <1>0, MoveStep DEF IInv, ResumeSleep, TypeOK, table, Forking, Loc
<1> QED
  BY <1>1, <1>2, <1>3 DEF IInv

\* sleep() returns in wait(), the lock still held.
LEMMA ResumeWaitStep ==
  ASSUME IInv, NEW c \in CPU, NEW p \in Slot, ResumeWait(c, p)
  PROVE  IInv'
<1>0. state[p] = "RUNNING" /\ ~intr[p] /\ (at[p] = "wscan" => ptlock = c)
  BY RunsFacts DEF ResumeWait, Runs
<1>1. TypeOK'
  BY SlotFacts DEF IInv, ResumeWait, Goto, TypeOK, Loc, table, cpus
<1>2. CpuInv'
  BY <1>0, SlotFacts, CpuAssumption DEF IInv, ResumeWait, Runs, Goto, TypeOK,
         CpuInv, table, cpus
<1>3. TableInv'
  BY <1>0, MoveStep DEF IInv, ResumeWait, TypeOK, table, Forking, Loc
<1> QED
  BY <1>1, <1>2, <1>3 DEF IInv

\* The end of a system call.
LEMMA ReturnStep ==
  ASSUME IInv, NEW c \in CPU, NEW p \in Slot, Return(c, p)
  PROVE  IInv'
<1>0. state[p] = "RUNNING" /\ ~intr[p] /\ (at[p] = "wscan" => ptlock = c)
  BY RunsFacts DEF Return, Runs
<1>1. TypeOK'
  BY SlotFacts DEF IInv, Return, Goto, TypeOK, Loc, table, cpus
<1>2. CpuInv'
  BY <1>0, SlotFacts, CpuAssumption DEF IInv, Return, Runs, Goto, TypeOK,
         CpuInv, table, cpus
<1>3. TableInv'
  BY <1>0, MoveStep DEF IInv, Return, TypeOK, table, Forking, Loc
<1> QED
  BY <1>1, <1>2, <1>3 DEF IInv

-----------------------------------------------------------------------------
(***************************************************************************)
(* sys_sleep().  Between its test of ticks and its sleep a thread holds    *)
(* tickslock, so the clock cannot advance.                                 *)
(***************************************************************************)
TickInv ==
  \A p \in Slot :
    /\ at[p] = "tgo" => tickslock = p /\ elapsed[p] < SleepTicks
    /\ state[p] = "SLEEPING" /\ at[p] = "tsleep" =>
         chan[p] = Ticks /\ elapsed[p] < SleepTicks

\* A clock tick wakes every sleeper, and none is about to sleep.
LEMMA TickTick ==
  ASSUME IInv, TickInv, NEW c \in CPU, tick(c), UNCHANGED <<chan, tickslock>>,
         \A p \in Slot : at'[p] \in {"tgo", "tsleep"} => at'[p] = at[p]
  PROVE  TickInv'
<1>1. ASSUME c = Cpu0, NEW p \in Slot
      PROVE  /\ at'[p] # "tgo"
             /\ ~(state'[p] = "SLEEPING" /\ at'[p] = "tsleep")
  <2>1. state' = wakeup1(state, Ticks) /\ tickslock = NoProc
    BY <1>1 DEF tick
  <2>2. state'[p] = IF state[p] = "SLEEPING" /\ chan[p] = Ticks THEN "RUNNABLE"
                    ELSE state[p]
    BY <2>1, WakeupFacts DEF IInv, TypeOK
  <2> QED
    BY <1>1, <2>1, <2>2, SlotFacts DEF TickInv
<1>2. CASE c # Cpu0
  BY <1>2 DEF tick, TickInv
<1> QED
  BY <1>1, <1>2 DEF TickInv

\* What a thread does elsewhere leaves the sleepers alone.
LEMMA TickFrame ==
  ASSUME TickInv, UNCHANGED elapsed,
         \A p \in Slot :
           /\ at'[p] = "tgo" => at[p] = "tgo" /\ tickslock' = tickslock
           /\ state'[p] = "SLEEPING" /\ at'[p] = "tsleep" =>
                state[p] = "SLEEPING" /\ at[p] = "tsleep" /\ chan'[p] = chan[p]
  PROVE  TickInv'
BY DEF TickInv

\* Every step keeps it.
LEMMA NextTickInv == IInv /\ TickInv /\ [Next]_vars => TickInv'
<1> SUFFICES ASSUME IInv, TickInv, [Next]_vars PROVE TickInv'
  OBVIOUS
<1> DEFINE Frame == /\ UNCHANGED elapsed
                    /\ \A r \in Slot :
                         /\ at'[r] = "tgo" => at[r] = "tgo" /\ tickslock' = tickslock
                         /\ state'[r] = "SLEEPING" /\ at'[r] = "tsleep" =>
                              /\ state[r] = "SLEEPING" /\ at[r] = "tsleep"
                              /\ chan'[r] = chan[r]
<1>f. Frame => TickInv'
  BY TickFrame
<1>u. UNCHANGED vars => Frame
  BY DEF vars, table, thread
<1>1. ASSUME NEW c \in CPU,
            ScanStart(c)
      PROVE  Frame
  BY <1>1 DEF IInv, TypeOK, ProcState, ScanStart, table, thread
<1>2. ASSUME NEW c \in CPU,
            Switch(c)
      PROVE  Frame
  BY <1>2 DEF IInv, TypeOK, ProcState, Switch, table, thread
<1>3. ASSUME NEW c \in CPU,
            ScanEnd(c)
      PROVE  Frame
  BY <1>3 DEF IInv, TypeOK, ProcState, ScanEnd, table, thread
<1>4. ASSUME NEW c \in CPU, NEW p \in Slot,
            Dispatch(c, p)
      PROVE  Frame
  BY <1>4 DEF IInv, TypeOK, ProcState, Dispatch, table, thread
<1>5. ASSUME NEW c \in CPU, NEW p \in Slot,
            ResumeYield(c, p)
      PROVE  Frame
  BY <1>5 DEF IInv, TypeOK, ProcState, ResumeYield, Goto, table, thread
<1>6. ASSUME NEW c \in CPU, NEW p \in Slot,
            yield(c, p)
      PROVE  Frame
  BY <1>6 DEF IInv, TypeOK, ProcState, yield, table, thread
<1>7. ASSUME NEW c \in CPU, NEW p \in Slot,
            forkret(c, p)
      PROVE  Frame
  BY <1>7 DEF IInv, TypeOK, ProcState, forkret, Goto, table, thread
<1>8. ASSUME NEW c \in CPU, NEW p \in Slot,
            ResumeSleep(c, p)
      PROVE  Frame
  BY <1>8 DEF IInv, TypeOK, ProcState, ResumeSleep, Goto, table, thread
<1>9. ASSUME NEW c \in CPU, NEW p \in Slot,
            ResumeWait(c, p)
      PROVE  Frame
  BY <1>9 DEF IInv, TypeOK, ProcState, ResumeWait, Goto, table, thread
<1>10. ASSUME NEW c \in CPU, NEW p \in Slot,
             Enter(c, p)
       PROVE  Frame
  BY <1>10 DEF IInv, TypeOK, ProcState, Enter, Goto, Program, Syscall, table,
         thread
<1>11. ASSUME NEW c \in CPU, NEW p \in Slot,
             Return(c, p)
       PROVE  Frame
  BY <1>11 DEF IInv, TypeOK, ProcState, Return, Goto, table, thread
<1>12. ASSUME NEW c \in CPU, NEW p \in Slot,
             Fault(c, p)
       PROVE  Frame
  BY <1>12 DEF IInv, TypeOK, ProcState, Fault, Goto, table, thread
<1>13. ASSUME NEW c \in CPU, NEW p \in Slot, NEW q \in Slot,
             allocproc(c, p, q)
       PROVE  Frame
  BY <1>13 DEF IInv, TypeOK, ProcState, allocproc, Goto, table, thread
<1>14. ASSUME NEW c \in CPU, NEW p \in Slot,
             allocprocFull(c, p)
       PROVE  Frame
  BY <1>14 DEF IInv, TypeOK, ProcState, allocprocFull, Goto, table, thread
<1>15. ASSUME NEW c \in CPU, NEW p \in Slot,
             ForkStack(c, p)
       PROVE  Frame
  <2>1. np[p] \in Slot /\ np[p] # p /\ state[np[p]] = "EMBRYO"
    BY <1>15, ForkFacts DEF ForkStack, Forking
  <2> QED
    BY <1>15, <2>1 DEF IInv, TypeOK, ProcState, ForkStack, table, thread
<1>16. ASSUME NEW c \in CPU, NEW p \in Slot,
             ForkStackFails(c, p)
       PROVE  Frame
  <2>1. np[p] \in Slot /\ np[p] # p /\ state[np[p]] = "EMBRYO"
    BY <1>16, ForkFacts DEF ForkStackFails, Forking
  <2> QED
    BY <1>16, <2>1 DEF IInv, TypeOK, ProcState, ForkStackFails, Goto, table,
           thread
<1>17. ASSUME NEW c \in CPU, NEW p \in Slot,
             ForkCopy(c, p)
       PROVE  Frame
  BY <1>17 DEF IInv, TypeOK, ProcState, ForkCopy, Goto, table, thread
<1>18. ASSUME NEW c \in CPU, NEW p \in Slot,
             ForkCopyFails(c, p)
       PROVE  Frame
  <2>1. np[p] \in Slot /\ np[p] # p /\ state[np[p]] = "EMBRYO"
    BY <1>18, ForkFacts DEF ForkCopyFails, Forking
  <2> QED
    BY <1>18, <2>1 DEF IInv, TypeOK, ProcState, ForkCopyFails, table, thread
<1>19. ASSUME NEW c \in CPU, NEW p \in Slot,
             ForkRun(c, p)
       PROVE  Frame
  <2>1. np[p] \in Slot /\ np[p] # p /\ state[np[p]] = "EMBRYO"
    BY <1>19, ForkFacts DEF ForkRun, Forking
  <2> QED
    BY <1>19, <2>1 DEF IInv, TypeOK, ProcState, ForkRun, Goto, table, thread
<1>20. ASSUME NEW c \in CPU, NEW p \in Slot,
             exitInit(c, p)
       PROVE  Frame
  BY <1>20 DEF IInv, TypeOK, ProcState, exitInit, table, thread
<1>21. ASSUME NEW c \in CPU, NEW p \in Slot,
             wait(c, p)
       PROVE  Frame
  BY <1>21 DEF IInv, TypeOK, ProcState, wait, Goto, table, thread
<1>22. ASSUME NEW c \in CPU, NEW p \in Slot, NEW q \in Slot,
             WaitReap(c, p, q)
       PROVE  Frame
  BY <1>22 DEF IInv, TypeOK, ProcState, WaitReap, table, thread
<1>23. ASSUME NEW c \in CPU, NEW p \in Slot,
             WaitFails(c, p)
       PROVE  Frame
  BY <1>23 DEF IInv, TypeOK, ProcState, WaitFails, Goto, table, thread
<1>24. ASSUME NEW c \in CPU, NEW p \in Slot,
             WaitSleep(c, p)
       PROVE  Frame
  BY <1>24 DEF IInv, TypeOK, ProcState, WaitSleep, Goto, table, thread
<1>25. ASSUME NEW c \in CPU, NEW p \in Slot,
             exit(c, p)
       PROVE  Frame
  <2>1. \A r \in Slot : state'[r] = "SLEEPING" => state[r] = "SLEEPING"
    <3> DEFINE st1 == wakeup1(state, parent[p])
               st2 == wakeup1(st1, initproc)
    <3>1. st1 \in [Slot -> ProcState]
      BY WakeupFacts DEF IInv, TypeOK
    <3>2. \A r \in Slot : st1[r] = "SLEEPING" => state[r] = "SLEEPING"
      BY WakeupFacts DEF IInv, TypeOK
    <3>4. \A r \in Slot : st2[r] = IF st1[r] = "SLEEPING" /\ chan[r] = initproc
                                   THEN "RUNNABLE" ELSE st1[r]
      <4> HIDE DEF st1
      <4> QED
        BY <3>1, WakeupFacts
    <3>5. st2 \in [Slot -> ProcState]
      <4> HIDE DEF st1
      <4> QED
        BY <3>1, WakeupFacts
    <3>3. \/ state' = [st1 EXCEPT ![p] = "ZOMBIE"]
          \/ state' = [st2 EXCEPT ![p] = "ZOMBIE"]
      BY <1>25 DEF exit, reparent
    <3> HIDE DEF st1, st2
    <3> QED
      BY <3>1, <3>2, <3>3, <3>4, <3>5
  <2>2. \A r \in Slot : at'[r] \in {"tgo", "tsleep"} => at'[r] = at[r]
    BY <1>25 DEF IInv, TypeOK, exit, Goto
  <2> QED
    BY <1>25, <2>1, <2>2 DEF exit
<1>26. ASSUME NEW c \in CPU, NEW p \in Slot, NEW k \in 0 .. MaxPid,
             kill(c, p, k)
       PROVE  Frame
  <2>1. \A r \in Slot : state'[r] = "SLEEPING" => state[r] = "SLEEPING"
    BY <1>26 DEF IInv, TypeOK, kill, WokenByKill
  <2>2. \A r \in Slot : at'[r] \in {"tgo", "tsleep"} => at'[r] = at[r]
    BY <1>26 DEF IInv, TypeOK, kill, Goto
  <2> QED
    BY <1>26, <2>1, <2>2 DEF kill
<1>27. ASSUME NEW c \in CPU, NEW p \in Slot,
             TimerThread(c, p)
       PROVE  TickInv'
  <2>1. \A r \in Slot : at'[r] \in {"tgo", "tsleep"} => at'[r] = at[r]
    BY <1>27 DEF IInv, TypeOK, TimerThread, Goto
  <2> QED
    BY <1>27, <2>1, TickTick DEF TimerThread
<1>28. ASSUME NEW c \in CPU,
             TimerIdle(c)
       PROVE  TickInv'
  BY <1>28, TickTick DEF TimerIdle
<1>29. ASSUME NEW c \in CPU, NEW p \in Slot,
             SleepTest(c, p)
       PROVE  TickInv'
  <2>1. \A r \in Slot \ {p} : at[r] # "tgo" /\ at'[r] = at[r] /\ elapsed'[r] = elapsed[r]
    BY <1>29, SlotFacts DEF IInv, TypeOK, TickInv, SleepTest, Goto
  <2>2. /\ at'[p] \in {"tgo", "ret"}
        /\ at'[p] = "tgo" => tickslock' = p /\ elapsed'[p] < SleepTicks
    BY <1>29, ProcAssumption DEF IInv, TypeOK, SleepTest, Goto
  <2>3. state' = state /\ chan' = chan
    BY <1>29 DEF SleepTest, table
  <2> QED
    BY <2>1, <2>2, <2>3 DEF TickInv
<1>30. ASSUME NEW c \in CPU, NEW p \in Slot,
             sleep(c, p)
       PROVE  TickInv'
  <2>1. tickslock = p /\ elapsed[p] < SleepTicks
    BY <1>30 DEF sleep, TickInv
  <2>2. \A r \in Slot \ {p} : /\ at[r] # "tgo" /\ at'[r] = at[r]
                              /\ state'[r] = state[r] /\ chan'[r] = chan[r]
    BY <1>30, <2>1 DEF IInv, TypeOK, TickInv, sleep, Goto
  <2>3. at'[p] = "tsleep" /\ chan'[p] = Ticks /\ elapsed' = elapsed
    BY <1>30 DEF IInv, TypeOK, sleep, Goto
  <2> QED
    BY <2>1, <2>2, <2>3 DEF TickInv
<1> HIDE DEF Frame
<1> QED
  BY <1>f, <1>u, <1>1, <1>2, <1>3, <1>4, <1>5, <1>6, <1>7, <1>8, <1>9, <1>10,
     <1>11, <1>12, <1>13, <1>14, <1>15, <1>16, <1>17, <1>18, <1>19, <1>20,
     <1>21, <1>22, <1>23, <1>24, <1>25, <1>26, <1>27, <1>28, <1>29, <1>30 DEF
         Next, Halted, Scheduler, Timer, Progress
=============================================================================
