-------------------------------- MODULE Proc --------------------------------
(***************************************************************************)
(* The process table and its scheduler: kernel/proc.c with the trap paths  *)
(* of kernel/trap.c that reach it and sys_sleep.                           *)
(*                                                                         *)
(* Several CPUs run scheduler() and the kernel threads it switches to.  A  *)
(* critical section of ptable.lock is one step (Spinlock shows that two    *)
(* CPUs are never in one together), except where the lock is carried over  *)
(* a swtch(): there ptlock names the CPU whose scheduler or thread has it. *)
(* Stores made without the lock are steps of their own.                    *)
(***************************************************************************)
EXTENDS Integers, FiniteSets

CONSTANTS
  NPROC,      \* slots of ptable.proc
  CPU,        \* the processors
  Cpu0,       \* the one that counts clock ticks
  NoCpu,
  SleepTicks, \* the argument of sys_sleep
  MaxPid      \* bound: fork is not called once nextpid has passed it

ASSUME ProcAssumption ==
  /\ NPROC \in Nat \ {0}
  /\ SleepTicks \in Nat
  /\ MaxPid \in Nat \ {0}
ASSUME CpuAssumption == Cpu0 \in CPU /\ NoCpu \notin CPU

Slot     == 1 .. NPROC
NoProc   == 0
initproc == 1          \* userinit() takes the first slot and the first pid

Failed   == -1         \* what fork() returns on failure
Ticks    == NPROC + 1  \* the channel &ticks; the others are the slots
Chan     == 0 .. Ticks

VARIABLES
  \* struct proc
  state, pid, parent, chan, killed,
  kstack, pgdir,     \* is the memory they point to allocated
  nextpid,
  \* the kernel thread of each slot
  at,                \* where its code is
  np,                \* fork()'s local np
  intr,              \* the timer interrupted it and it is in yield()
  elapsed,           \* ticks - ticks0 in sys_sleep
  \* the locks
  ptlock,            \* the CPU whose code holds ptable.lock across steps
  tickslock,         \* the thread that holds tickslock across steps
  \* each CPU
  cproc,             \* c->proc
  sch,               \* what runs on it
  idx,               \* scheduler()'s p
  idle,              \* scheduler()'s idle
  getty,             \* init's local pid: the child it waits for
  panicked

table  == <<state, pid, parent, chan, killed, kstack, pgdir, nextpid>>
thread == <<at, np, intr, elapsed>>
cpus   == <<cproc, sch, idx, idle>>
vars   == <<table, thread, ptlock, tickslock, cpus, getty, panicked>>

ProcState == {"UNUSED", "EMBRYO", "SLEEPING", "RUNNABLE", "RUNNING", "ZOMBIE"}
Loc == {"none", "forkret", "user", "ret",
        "fork", "kstack", "copy", "run",            \* fork
        "wait", "wscan", "wsleep",                  \* wait
        "sleep", "tlock", "tgo", "tsleep",          \* sys_sleep
        "kill", "exit", "zombie"}
Syscall == {"fork", "wait", "sleep", "kill", "exit", "ret"}

TypeOK ==
  /\ state \in [Slot -> ProcState]
  /\ pid \in [Slot -> Nat]
  /\ parent \in [Slot -> Slot \cup {NoProc}]
  /\ chan \in [Slot -> Chan]
  /\ killed \in [Slot -> BOOLEAN]
  /\ kstack \in [Slot -> BOOLEAN]
  /\ pgdir \in [Slot -> BOOLEAN]
  /\ nextpid \in Nat
  /\ at \in [Slot -> Loc]
  /\ np \in [Slot -> Slot \cup {NoProc}]
  /\ intr \in [Slot -> BOOLEAN]
  /\ elapsed \in [Slot -> 0 .. SleepTicks]
  /\ ptlock \in CPU \cup {NoCpu}
  /\ tickslock \in Slot \cup {NoProc}
  /\ cproc \in [CPU -> Slot \cup {NoProc}]
  /\ sch \in [CPU -> {"loop", "scan", "proc", "swtch"}]
  /\ idx \in [CPU -> 1 .. NPROC + 1]
  /\ idle \in [CPU -> BOOLEAN]
  /\ getty \in Nat \cup {Failed}
  /\ panicked \in BOOLEAN

\* After userinit(): init is RUNNABLE, every CPU enters scheduler().
Init ==
  /\ state = [p \in Slot |-> IF p = initproc THEN "RUNNABLE" ELSE "UNUSED"]
  /\ pid = [p \in Slot |-> IF p = initproc THEN 1 ELSE 0]
  /\ parent = [p \in Slot |-> NoProc]
  /\ chan = [p \in Slot |-> 0]
  /\ killed = [p \in Slot |-> FALSE]
  /\ kstack = [p \in Slot |-> p = initproc]
  /\ pgdir = [p \in Slot |-> p = initproc]
  /\ nextpid = 2
  /\ at = [p \in Slot |-> IF p = initproc THEN "forkret" ELSE "none"]
  /\ np = [p \in Slot |-> NoProc]
  /\ intr = [p \in Slot |-> FALSE]
  /\ elapsed = [p \in Slot |-> 0]
  /\ ptlock = NoCpu
  /\ tickslock = NoProc
  /\ cproc = [c \in CPU |-> NoProc]
  /\ sch = [c \in CPU |-> "loop"]
  /\ idx = [c \in CPU |-> 1]
  /\ idle = [c \in CPU |-> FALSE]
  /\ getty = 0
  /\ panicked = FALSE

-----------------------------------------------------------------------------
\* The kernel code of thread p is what CPU c executes, outside the trap handler.
Runs(c, p) == sch[c] = "proc" /\ cproc[c] = p /\ ~intr[p]

Free == ptlock = NoCpu

Goto(p, loc) == at' = [at EXCEPT ![p] = loc]

\* The states after wakeup1(ch) in the states st.
wakeup1(st, ch) ==
  [p \in Slot |-> IF st[p] = "SLEEPING" /\ chan[p] = ch THEN "RUNNABLE"
                  ELSE st[p]]

\* Fault: sched() drops ptable.lock before the switch.
schedUnlocked(c) ==
  /\ UNCHANGED <<ptlock, cproc, idx, idle>>
  /\ sch' = [sch EXCEPT ![c] = "swtch"]

\* sched() on c with ptable.lock held: the lock and the CPU go to scheduler().
sched(c) ==
  /\ ptlock' = c
  /\ sch' = [sch EXCEPT ![c] = "swtch"]
  /\ UNCHANGED <<cproc, idx, idle>>

-----------------------------------------------------------------------------
(***************************************************************************)
(* scheduler()                                                             *)
(***************************************************************************)
\* sti, no hlt or the hlt is over, acquire, start of the loop.
ScanStart(c) ==
  /\ sch[c] = "loop" /\ ~idle[c] /\ Free
  /\ ptlock' = c
  /\ sch' = [sch EXCEPT ![c] = "scan"]
  /\ idle' = [idle EXCEPT ![c] = TRUE]
  /\ UNCHANGED <<table, thread, tickslock, cproc, idx, getty, panicked>>

\* The next RUNNABLE slot is switched to; its thread inherits ptable.lock.
Dispatch(c, p) ==
  /\ sch[c] = "scan" /\ idx[c] <= p /\ state[p] = "RUNNABLE"
  /\ \A q \in idx[c] .. p - 1 : state[q] # "RUNNABLE"
  /\ idle' = [idle EXCEPT ![c] = FALSE]
  /\ cproc' = [cproc EXCEPT ![c] = p]
  /\ state' = [state EXCEPT ![p] = "RUNNING"]
  /\ sch' = [sch EXCEPT ![c] = "proc"]
  /\ idx' = [idx EXCEPT ![c] = p]
  /\ UNCHANGED <<pid, parent, chan, killed, kstack, pgdir, nextpid, thread,
                 ptlock, tickslock, getty, panicked>>

\* swtch() returned from a thread that called sched(): the loop goes on.
Switch(c) ==
  /\ sch[c] = "swtch"
  /\ cproc' = [cproc EXCEPT ![c] = NoProc]
  /\ sch' = [sch EXCEPT ![c] = "scan"]
  /\ idx' = [idx EXCEPT ![c] = @ + 1]
  /\ UNCHANGED <<table, thread, ptlock, tickslock, idle, getty, panicked>>

\* The loop is over: release.  p is put back to the first slot here.
ScanEnd(c) ==
  /\ sch[c] = "scan"
  /\ \A q \in idx[c] .. NPROC : state[q] # "RUNNABLE"
  /\ ptlock' = NoCpu
  /\ sch' = [sch EXCEPT ![c] = "loop"]
  /\ idx' = [idx EXCEPT ![c] = 1]
  /\ UNCHANGED <<table, thread, tickslock, cproc, idle, getty, panicked>>

(***************************************************************************)
(* A dispatched thread continues where it called sched(), holding          *)
(* ptable.lock, and releases it; only wait() goes on with the lock held.   *)
(***************************************************************************)
\* The end of yield() and of the trap; exit if killed and from user space.
ResumeYield(c, p) ==
  /\ sch[c] = "proc" /\ cproc[c] = p /\ ptlock = c /\ intr[p]
  /\ intr' = [intr EXCEPT ![p] = FALSE]
  /\ Goto(p, IF at[p] = "user" /\ killed[p] THEN "exit" ELSE at[p])
  /\ ptlock' = NoCpu
  /\ UNCHANGED <<table, np, elapsed, tickslock, cpus, getty, panicked>>

forkret(c, p) ==
  /\ Runs(c, p) /\ at[p] = "forkret" /\ ptlock = c
  /\ ptlock' = NoCpu
  /\ Goto(p, "user")
  /\ UNCHANGED <<table, np, intr, elapsed, tickslock, cpus, getty, panicked>>

\* The end of sleep(&ticks, &tickslock), up to acquire(lk).
ResumeSleep(c, p) ==
  /\ Runs(c, p) /\ at[p] = "tsleep" /\ ptlock = c
  /\ chan' = [chan EXCEPT ![p] = 0]
  /\ ptlock' = NoCpu
  /\ Goto(p, "tlock")
  /\ UNCHANGED <<state, pid, parent, killed, kstack, pgdir, nextpid, np, intr,
                 elapsed, tickslock, cpus, getty, panicked>>

ResumeWait(c, p) ==
  /\ Runs(c, p) /\ at[p] = "wsleep" /\ ptlock = c
  /\ chan' = [chan EXCEPT ![p] = 0]
  /\ Goto(p, "wscan")
  /\ UNCHANGED <<state, pid, parent, killed, kstack, pgdir, nextpid, np, intr,
                 elapsed, ptlock, tickslock, cpus, getty, panicked>>

(***************************************************************************)
(* trap(): system calls, the timer, faults.                                *)
(***************************************************************************)
\* What a process may call.  init's loop: fork getty, exit if that failed, and
\* wait for it (also once the bound MaxPid has ended its forking).
Program(p) ==
  IF p # initproc THEN {call \in Syscall : call = "fork" => nextpid <= MaxPid}
  ELSE IF getty = Failed THEN {"exit"}
  ELSE IF getty = 0 /\ nextpid <= MaxPid THEN {"fork"} ELSE {"wait"}

\* T_SYSCALL: a killed process exits instead.
Enter(c, p) ==
  /\ Runs(c, p) /\ at[p] = "user"
  /\ \E call \in Program(p) :
       Goto(p, IF killed[p] THEN "exit" ELSE call)
  /\ UNCHANGED <<table, np, intr, elapsed, ptlock, tickslock, cpus, getty,
                 panicked>>

\* syscall() returned; exit if killed, else back to user space.
Return(c, p) ==
  /\ Runs(c, p) /\ at[p] = "ret"
  /\ Goto(p, IF killed[p] THEN "exit" ELSE "user")
  /\ UNCHANGED <<table, np, intr, elapsed, ptlock, tickslock, cpus, getty,
                 panicked>>

\* An unexpected trap in user space kills the process.
Fault(c, p) ==
  /\ Runs(c, p) /\ at[p] = "user" /\ p # initproc
  /\ killed' = [killed EXCEPT ![p] = TRUE]
  /\ Goto(p, "exit")
  /\ UNCHANGED <<state, pid, parent, chan, kstack, pgdir, nextpid, np, intr,
                 elapsed, ptlock, tickslock, cpus, getty, panicked>>

\* ticks++; wakeup(&ticks) on CPU 0.
tick(c) ==
  IF c = Cpu0
  THEN /\ Free /\ tickslock = NoProc
       /\ state' = wakeup1(state, Ticks)
       /\ elapsed' = [p \in Slot |->
            IF at[p] \in {"tgo", "tsleep", "tlock"} /\ elapsed[p] < SleepTicks
            THEN elapsed[p] + 1 ELSE elapsed[p]]
  ELSE UNCHANGED <<state, elapsed>>

\* The timer on a CPU that runs a thread with interrupts on: it holds no lock.
TimerThread(c, p) ==
  /\ Runs(c, p) /\ ptlock # c /\ tickslock # p
  /\ tick(c)
  /\ IF at[p] = "user" /\ killed[p]
     THEN Goto(p, "exit") /\ UNCHANGED intr
     ELSE intr' = [intr EXCEPT ![p] = TRUE] /\ UNCHANGED at
  /\ UNCHANGED <<pid, parent, chan, killed, kstack, pgdir, nextpid, np, ptlock,
                 tickslock, cpus, getty, panicked>>

\* The timer on a CPU in scheduler(): it ends a hlt.
TimerIdle(c) ==
  /\ sch[c] = "loop"
  /\ tick(c)
  /\ idle' = [idle EXCEPT ![c] = FALSE]
  /\ UNCHANGED <<pid, parent, chan, killed, kstack, pgdir, nextpid, at, np, intr,
                 ptlock, tickslock, cproc, sch, idx, getty, panicked>>

\* yield(), called from trap().
yield(c, p) ==
  /\ sch[c] = "proc" /\ cproc[c] = p /\ intr[p] /\ Free
  /\ state' = [state EXCEPT ![p] = "RUNNABLE"]
  /\ sched(c)
  /\ UNCHANGED <<pid, parent, chan, killed, kstack, pgdir, nextpid, thread,
                 tickslock, getty, panicked>>

(***************************************************************************)
(* fork(), with allocproc() inlined.                                       *)
(***************************************************************************)
\* fork returns v to the code of p: init looks at it.
ForkReturns(p, v) ==
  /\ np' = [np EXCEPT ![p] = NoProc]
  /\ getty' = IF p = initproc THEN v ELSE getty

FirstUnused(q) == state[q] = "UNUSED" /\ \A r \in 1 .. q - 1 : state[r] # "UNUSED"

nextpidAdvanced == nextpid + 1

allocproc(c, p, q) ==
  /\ Runs(c, p) /\ at[p] = "fork" /\ Free
  /\ FirstUnused(q)
  /\ state' = [state EXCEPT ![q] = "EMBRYO"]
  /\ pid' = [pid EXCEPT ![q] = nextpid]
  /\ nextpid' = nextpidAdvanced
  /\ np' = [np EXCEPT ![p] = q]
  /\ Goto(p, "kstack")
  /\ UNCHANGED <<parent, chan, killed, kstack, pgdir, intr, elapsed, ptlock,
                 tickslock, cpus, getty, panicked>>

allocprocFull(c, p) ==
  /\ Runs(c, p) /\ at[p] = "fork" /\ Free
  /\ \A q \in Slot : state[q] # "UNUSED"
  /\ Goto(p, "ret")
  /\ ForkReturns(p, Failed)
  /\ UNCHANGED <<table, intr, elapsed, ptlock, tickslock, cpus, panicked>>

\* kalloc() of the kernel stack and the context that starts at forkret.
ForkStack(c, p) ==
  /\ Runs(c, p) /\ at[p] = "kstack"
  /\ kstack' = [kstack EXCEPT ![np[p]] = TRUE]
  /\ at' = [at EXCEPT ![p] = "copy", ![np[p]] = "forkret"]
  /\ UNCHANGED <<state, pid, parent, chan, killed, pgdir, nextpid, np, intr,
                 elapsed, ptlock, tickslock, cpus, getty, panicked>>

\* kalloc() failed: the slot is freed without the lock, its pid left behind.
ForkStackFails(c, p) ==
  /\ Runs(c, p) /\ at[p] = "kstack"
  /\ state' = [state EXCEPT ![np[p]] = "UNUSED"]
  /\ Goto(p, "ret")
  /\ ForkReturns(p, Failed)
  /\ UNCHANGED <<pid, parent, chan, killed, kstack, pgdir, nextpid, intr,
                 elapsed, ptlock, tickslock, cpus, panicked>>

\* copyuvm() and the copies of the parent's fields.
ForkCopy(c, p) ==
  /\ Runs(c, p) /\ at[p] = "copy"
  /\ pgdir' = [pgdir EXCEPT ![np[p]] = TRUE]
  /\ parent' = [parent EXCEPT ![np[p]] = p]
  /\ Goto(p, "run")
  /\ UNCHANGED <<state, pid, chan, killed, kstack, nextpid, np, intr, elapsed,
                 ptlock, tickslock, cpus, getty, panicked>>

\* Fault: the kernel stack is not freed when copyuvm() fails.
ForkCopyFailsLeaks(c, p) ==
  /\ Runs(c, p) /\ at[p] = "copy"
  /\ state' = [state EXCEPT ![np[p]] = "UNUSED"]
  /\ at' = [at EXCEPT ![p] = "ret", ![np[p]] = "none"]
  /\ ForkReturns(p, Failed)
  /\ UNCHANGED <<pid, parent, chan, killed, kstack, pgdir, nextpid, intr,
                 elapsed, ptlock, tickslock, cpus, panicked>>

\* copyuvm() failed: again the slot is freed without the lock.
ForkCopyFails(c, p) ==
  /\ Runs(c, p) /\ at[p] = "copy"
  /\ kstack' = [kstack EXCEPT ![np[p]] = FALSE]
  /\ state' = [state EXCEPT ![np[p]] = "UNUSED"]
  /\ at' = [at EXCEPT ![p] = "ret", ![np[p]] = "none"]
  /\ ForkReturns(p, Failed)
  /\ UNCHANGED <<pid, parent, chan, killed, pgdir, nextpid, intr, elapsed,
                 ptlock, tickslock, cpus, panicked>>

ForkRun(c, p) ==
  /\ Runs(c, p) /\ at[p] = "run" /\ Free
  /\ state' = [state EXCEPT ![np[p]] = "RUNNABLE"]
  /\ Goto(p, "ret")
  /\ ForkReturns(p, pid[np[p]])
  /\ UNCHANGED <<pid, parent, chan, killed, kstack, pgdir, nextpid, intr,
                 elapsed, ptlock, tickslock, cpus, panicked>>

(***************************************************************************)
(* exit()                                                                  *)
(***************************************************************************)
\* The part of the ptable the critical section of exit() leaves behind.
reparent(p, st) ==
  /\ parent' = [q \in Slot |-> IF parent[q] = p THEN initproc ELSE parent[q]]
  /\ state' = [(IF \E q \in Slot : parent[q] = p /\ st[q] = "ZOMBIE"
                THEN wakeup1(st, initproc) ELSE st) EXCEPT ![p] = "ZOMBIE"]

\* Fault: the exiting process wakes its own channel, not its parent's.
exitWakesSelf(c, p) ==
  /\ Runs(c, p) /\ at[p] = "exit" /\ p # initproc /\ Free
  /\ reparent(p, wakeup1(state, p))
  /\ Goto(p, "zombie")
  /\ sched(c)
  /\ UNCHANGED <<pid, chan, killed, kstack, pgdir, nextpid, np, intr, elapsed,
                 tickslock, getty, panicked>>

exit(c, p) ==
  /\ Runs(c, p) /\ at[p] = "exit" /\ p # initproc /\ Free
  /\ reparent(p, wakeup1(state, parent[p]))
  /\ Goto(p, "zombie")
  /\ sched(c)
  /\ UNCHANGED <<pid, chan, killed, kstack, pgdir, nextpid, np, intr, elapsed,
                 tickslock, getty, panicked>>

\* panic("init exiting")
exitInit(c, p) ==
  /\ Runs(c, p) /\ at[p] = "exit" /\ p = initproc
  /\ panicked' = TRUE
  /\ UNCHANGED <<table, thread, ptlock, tickslock, cpus, getty>>

(***************************************************************************)
(* wait()                                                                  *)
(***************************************************************************)
Zombies(p) == {q \in Slot : parent[q] = p /\ state[q] = "ZOMBIE"}
HaveKids(p) == \E q \in Slot : parent[q] = p

wait(c, p) ==
  /\ Runs(c, p) /\ at[p] = "wait" /\ Free
  /\ ptlock' = c
  /\ Goto(p, "wscan")
  /\ UNCHANGED <<table, np, intr, elapsed, tickslock, cpus, getty, panicked>>

\* The scan finds an exited child, frees what it held and returns its pid.
WaitReap(c, p, q) ==
  /\ Runs(c, p) /\ at[p] = "wscan"
  /\ q \in Zombies(p) /\ \A r \in Zombies(p) : q <= r
  /\ kstack' = [kstack EXCEPT ![q] = FALSE]
  /\ pgdir' = [pgdir EXCEPT ![q] = FALSE]
  /\ pid' = [pid EXCEPT ![q] = 0]
  /\ parent' = [parent EXCEPT ![q] = NoProc]
  /\ killed' = [killed EXCEPT ![q] = FALSE]
  /\ state' = [state EXCEPT ![q] = "UNUSED"]
  /\ at' = [at EXCEPT ![p] = "ret", ![q] = "none"]
  /\ getty' = IF p = initproc /\ pid[q] = getty THEN 0 ELSE getty
  /\ ptlock' = NoCpu
  /\ UNCHANGED <<chan, nextpid, np, intr, elapsed, tickslock, cpus, panicked>>

\* -1: no children, or killed.
WaitFails(c, p) ==
  /\ Runs(c, p) /\ at[p] = "wscan" /\ Zombies(p) = {}
  /\ ~HaveKids(p) \/ killed[p]
  /\ Goto(p, "ret")
  /\ getty' = IF p = initproc THEN 0 ELSE getty
  /\ ptlock' = NoCpu
  /\ UNCHANGED <<table, np, intr, elapsed, tickslock, cpus, panicked>>

\* sleep(curproc, &ptable.lock)
WaitSleep(c, p) ==
  /\ Runs(c, p) /\ at[p] = "wscan" /\ Zombies(p) = {}
  /\ HaveKids(p) /\ ~killed[p]
  /\ chan' = [chan EXCEPT ![p] = p]
  /\ state' = [state EXCEPT ![p] = "SLEEPING"]
  /\ Goto(p, "wsleep")
  /\ sched(c)
  /\ UNCHANGED <<pid, parent, killed, kstack, pgdir, nextpid, np, intr, elapsed,
                 tickslock, getty, panicked>>

(***************************************************************************)
(* sys_sleep()                                                             *)
(***************************************************************************)
\* Fault: tickslock is released between the test and sleep().
SleepTestUnlocked(c, p) ==
  /\ Runs(c, p) /\ at[p] \in {"sleep", "tlock"} /\ tickslock = NoProc
  /\ IF elapsed[p] >= SleepTicks \/ killed[p]
     THEN Goto(p, "ret") /\ elapsed' = [elapsed EXCEPT ![p] = 0]
     ELSE Goto(p, "tgo") /\ UNCHANGED elapsed
  /\ UNCHANGED <<table, np, intr, ptlock, tickslock, cpus, getty, panicked>>

\* acquire(&tickslock), at first or at the end of sleep(), and the loop's tests.
SleepTest(c, p) ==
  /\ Runs(c, p) /\ at[p] \in {"sleep", "tlock"} /\ tickslock = NoProc
  /\ IF elapsed[p] >= SleepTicks \/ killed[p]
     THEN Goto(p, "ret") /\ elapsed' = [elapsed EXCEPT ![p] = 0] /\ UNCHANGED tickslock
     ELSE Goto(p, "tgo") /\ tickslock' = p /\ UNCHANGED elapsed
  /\ UNCHANGED <<table, np, intr, ptlock, cpus, getty, panicked>>

\* sleep(&ticks, &tickslock): tickslock is dropped once ptable.lock is held.
sleep(c, p) ==
  /\ Runs(c, p) /\ at[p] = "tgo" /\ Free
  /\ tickslock' = NoProc
  /\ chan' = [chan EXCEPT ![p] = Ticks]
  /\ state' = [state EXCEPT ![p] = "SLEEPING"]
  /\ Goto(p, "tsleep")
  /\ sched(c)
  /\ UNCHANGED <<pid, parent, killed, kstack, pgdir, nextpid, np, intr, elapsed,
                 getty, panicked>>

(***************************************************************************)
(* kill(k): the first slot whose pid field is k, whatever its state.       *)
(***************************************************************************)
Target(k, q) == pid[q] = k /\ \A r \in 1 .. q - 1 : pid[r] # k

\* Fault: a sleeping process is marked and not woken.
WokenByKillNot(q) == state
WokenByKill(q) == [state EXCEPT ![q] = IF @ = "SLEEPING" THEN "RUNNABLE" ELSE @]

kill(c, p, k) ==
  /\ Runs(c, p) /\ at[p] = "kill" /\ Free
  /\ \/ \E q \in Slot : /\ Target(k, q)
                        /\ killed' = [killed EXCEPT ![q] = TRUE]
                        /\ state' = WokenByKill(q)
     \/ /\ \A q \in Slot : pid[q] # k
        /\ UNCHANGED <<killed, state>>
  /\ Goto(p, "ret")
  /\ UNCHANGED <<pid, parent, chan, kstack, pgdir, nextpid, np, intr, elapsed,
                 ptlock, tickslock, cpus, getty, panicked>>

-----------------------------------------------------------------------------
\* A step of thread p's own code on c.
Progress(c, p) ==
  \/ forkret(c, p) \/ ResumeSleep(c, p) \/ ResumeWait(c, p) \/ Return(c, p)
  \/ \E q \in Slot : allocproc(c, p, q) \/ WaitReap(c, p, q)
  \/ allocprocFull(c, p) \/ ForkStack(c, p) \/ ForkStackFails(c, p)
  \/ ForkCopy(c, p) \/ ForkCopyFails(c, p) \/ ForkRun(c, p)
  \/ exit(c, p) \/ exitInit(c, p) \/ wait(c, p) \/ WaitFails(c, p) \/ WaitSleep(c, p)
  \/ SleepTest(c, p) \/ sleep(c, p)
  \/ \E k \in 0 .. MaxPid : kill(c, p, k)

Scheduler(c) ==
  \/ ScanStart(c) \/ Switch(c) \/ ScanEnd(c)
  \/ \E p \in Slot : Dispatch(c, p) \/ ResumeYield(c, p) \/ yield(c, p)

Timer(c) == TimerIdle(c) \/ \E p \in Slot : TimerThread(c, p)

\* panic() never returns.
Halted == panicked /\ UNCHANGED vars

Next ==
  \/ /\ ~panicked
     /\ \E c \in CPU : \/ Scheduler(c) \/ Timer(c)
                       \/ \E p \in Slot : Progress(c, p) \/ Enter(c, p) \/ Fault(c, p)
  \/ Halted

Spec == Init /\ [][Next]_vars

-----------------------------------------------------------------------------
(***************************************************************************)
(* A kernel thread executes on one CPU at a time, on a kernel stack and a  *)
(* page table that are allocated.  It is the reason exit() and sleep()     *)
(* keep ptable.lock until scheduler() has switched away from the stack.    *)
(***************************************************************************)
StackExclusive ==
  \A c \in CPU : cproc[c] # NoProc =>
    /\ kstack[cproc[c]] /\ pgdir[cproc[c]]
    /\ sch[c] = "proc" => state[cproc[c]] = "RUNNING"
    /\ \A d \in CPU : cproc[d] = cproc[c] => d = c

(***************************************************************************)
(* A process asleep in wait() still has something to wait for: a child, no *)
(* exited child it was not told of (also none it inherited, if it is       *)
(* init), and no kill.                                                     *)
(***************************************************************************)
WaitNotLost ==
  \A p \in Slot : state[p] = "SLEEPING" /\ at[p] = "wsleep" =>
    Zombies(p) = {} /\ HaveKids(p) /\ ~killed[p]

(***************************************************************************)
(* A process asleep in sys_sleep() has not slept its ticks: the last tick  *)
(* cannot fall between its test of ticks and its going to sleep.           *)
(***************************************************************************)
TickNotLost ==
  \A p \in Slot : state[p] = "SLEEPING" /\ at[p] = "tsleep" =>
    elapsed[p] < SleepTicks

(***************************************************************************)
(* Every process but init has a parent that can still call wait() for it:  *)
(* one that has not exited and whose slot was not given to someone else.   *)
(***************************************************************************)
ParentLive ==
  \A q \in Slot \ {initproc} :
    /\ state[q] \notin {"UNUSED", "EMBRYO"} => parent[q] # NoProc
    /\ parent[q] # NoProc =>
         /\ state[q] # "UNUSED"
         /\ state[parent[q]] \notin {"UNUSED", "EMBRYO", "ZOMBIE"}

(***************************************************************************)
(* No two processes have one pid, zombies and half-built children          *)
(* included.                                                               *)
(***************************************************************************)
PidUnique ==
  \A p, q \in Slot :
    state[p] # "UNUSED" /\ state[q] # "UNUSED" /\ pid[p] = pid[q] => p = q

(***************************************************************************)
(* Memory follows the state: a free slot holds none, a process has its     *)
(* stack and page table until it is reaped, and an EMBRYO slot belongs to  *)
(* exactly one fork() in progress, so the stores fork() makes to it        *)
(* without ptable.lock race with no one.                                   *)
(***************************************************************************)
SlotOwned ==
  \A q \in Slot :
    /\ state[q] = "UNUSED" => ~kstack[q] /\ ~pgdir[q]
    /\ state[q] \notin {"UNUSED", "EMBRYO"} => kstack[q] /\ pgdir[q]
    /\ state[q] = "EMBRYO" => \E p \in Slot : /\ np[p] = q
                                              /\ \A r \in Slot : np[r] = q => r = p

(***************************************************************************)
(* The process table is consistent: its types, a parent that can reap for  *)
(* every process, one process for each pid, and memory that follows the    *)
(* state of its slot.                                                      *)
(***************************************************************************)
TableConsistent == TypeOK /\ ParentLive /\ PidUnique /\ SlotOwned

-----------------------------------------------------------------------------
(***************************************************************************)
(* Liveness.  A CPU keeps executing (SF: a spinning xchg eventually wins   *)
(* the lock), the timer keeps firing, a thread that is scheduled again and *)
(* again gets to execute its own code between two ticks, and init's loop   *)
(* goes on.  Nothing is assumed of other user code.                        *)
(***************************************************************************)
Fairness ==
  /\ \A c \in CPU : SF_vars(~panicked /\ Scheduler(c)) /\ SF_vars(~panicked /\ Timer(c))
  /\ \A p \in Slot : SF_vars(~panicked /\ \E c \in CPU : Progress(c, p))
  /\ SF_vars(~panicked /\ \E c \in CPU : Enter(c, initproc))

FairSpec == Spec /\ Fairness

(***************************************************************************)
(* A killed process dies, wherever kill() caught it: in user space, asleep *)
(* in wait() or sys_sleep(), or about to sleep.  (init's exit is a panic.)  *)
(***************************************************************************)
KilledDies ==
  \A p \in Slot \ {initproc} :
    killed[p] /\ state[p] \notin {"UNUSED", "ZOMBIE"}
      ~> state[p] \in {"UNUSED", "ZOMBIE"} \/ panicked

(***************************************************************************)
(* An exited process whose parent is init, by birth or by inheritance, is  *)
(* reaped and its slot is free again.                                      *)
(***************************************************************************)
OrphanReaped ==
  \A q \in Slot \ {initproc} :
    state[q] = "ZOMBIE" /\ parent[q] = initproc
      ~> state[q] = "UNUSED" \/ panicked

-----------------------------------------------------------------------------
(***************************************************************************)
(* What proc.h and kill() say of p->killed ("If non-zero, have been        *)
(* killed"; "Kill the process with the given pid."): a process that has    *)
(* just been created was killed by no one.                                 *)
(***************************************************************************)
BornAlive ==
  [][\A q \in Slot : state[q] = "UNUSED" /\ state'[q] = "EMBRYO" => ~killed'[q]]_vars
=============================================================================
