------------------------------ MODULE Switching -----------------------------
(***************************************************************************)
(* The interrupt flag over swtch(): sched(), yield(), sleep(), forkret()   *)
(* and scheduler() of kernel/proc.c, with what acquire() and release() of  *)
(* kernel/spinlock.c do to the CPU.                                        *)
(*                                                                         *)
(* ncli and intena belong to the CPU, but count and record for the thread  *)
(* that runs on it, and a thread may come back from sched() on another     *)
(* CPU.  Module Proc has the states and channels of processes; here a      *)
(* thread has the state the scheduler looks at, the lock lk that sleep()   *)
(* is called with is its own, and what holds with interrupts off on one    *)
(* CPU and touches nothing shared is one step.                             *)
(***************************************************************************)
EXTENDS Integers

CONSTANTS CPU, NoCpu, Thread, NoThread

VARIABLES
  cpu,       \* ncli, intena and FL_IF of each CPU
  run,       \* the thread on each CPU, NoThread in scheduler()
  sch,       \* where its scheduler() is
  idle,      \* and the local variable idle
  ptlock,    \* the CPU that has ptable.lock
  th,        \* threads: state, at, back (where a handler returns to), intena (the
             \* local variable of sched())
  panicked

vars == <<cpu, run, sch, idle, ptlock, th, panicked>>

New == [state |-> "RUNNABLE", at |-> "forkret", back |-> "user", intena |-> FALSE]

Init ==
  /\ cpu = [c \in CPU |-> [ncli |-> 0, intena |-> FALSE, if |-> FALSE]]
  /\ run = [c \in CPU |-> NoThread]
  /\ sch = [c \in CPU |-> "loop"]
  /\ idle = [c \in CPU |-> FALSE]
  /\ ptlock = NoCpu
  /\ th = [t \in Thread |-> New]
  /\ panicked = FALSE

-----------------------------------------------------------------------------
\* The CPU x after pushcli() and popcli().
pushcli(x) == [ncli |-> x.ncli + 1, if |-> FALSE,
               intena |-> IF x.ncli = 0 THEN x.if ELSE x.intena]

popcli(x) == [ncli |-> x.ncli - 1, intena |-> x.intena,
              if |-> IF x.ncli = 1 THEN x.intena ELSE FALSE]

\* The panics of popcli().
PopcliPanics(x) == x.if \/ x.ncli < 1

Panic == panicked' = TRUE /\ UNCHANGED <<cpu, run, sch, idle, ptlock, th>>

\* release(&ptable.lock) on CPU c, whose state is x by then.
release(c, x) == ptlock' = NoCpu /\ cpu' = [cpu EXCEPT ![c] = popcli(x)]

ReleasePanics(c, x) == ptlock # c \/ PopcliPanics(x)

-----------------------------------------------------------------------------
(***************************************************************************)
(* scheduler()                                                             *)
(***************************************************************************)
sti(x) == [x EXCEPT !.if = TRUE]

\* The top of the loop.
loop(c) ==
  /\ sch[c] = "loop"
  /\ cpu' = [cpu EXCEPT ![c] = sti(@)]
  /\ sch' = [sch EXCEPT ![c] = IF idle[c] THEN "hlt" ELSE "acquire"]
  /\ UNCHANGED <<run, idle, ptlock, th, panicked>>

\* An interrupt ends the hlt; its handler finds no process to yield().
hlt(c) ==
  /\ sch[c] = "hlt" /\ cpu[c].if
  /\ sch' = [sch EXCEPT ![c] = "acquire"]
  /\ UNCHANGED <<cpu, run, idle, ptlock, th, panicked>>

\* acquire(&ptable.lock): pushcli(), then the lock.
Acquire(c) ==
  /\ sch[c] = "acquire"
  /\ cpu' = [cpu EXCEPT ![c] = pushcli(@)]
  /\ sch' = [sch EXCEPT ![c] = "spin"]
  /\ idle' = [idle EXCEPT ![c] = TRUE]
  /\ UNCHANGED <<run, ptlock, th, panicked>>

Scan(c) ==
  /\ sch[c] = "spin" /\ ptlock = NoCpu
  /\ ptlock' = c
  /\ sch' = [sch EXCEPT ![c] = "scan"]
  /\ UNCHANGED <<cpu, run, idle, th, panicked>>

\* A RUNNABLE process is switched to.
Dispatch(c, t) ==
  /\ sch[c] = "scan" /\ run[c] = NoThread /\ th[t].state = "RUNNABLE"
  /\ run' = [run EXCEPT ![c] = t]
  /\ idle' = [idle EXCEPT ![c] = FALSE]
  /\ th' = [th EXCEPT ![t].state = "RUNNING"]
  /\ UNCHANGED <<cpu, sch, ptlock, panicked>>

\* The end of the loop over the table.
ScanEnd(c) ==
  /\ sch[c] = "scan" /\ run[c] = NoThread
  /\ IF ReleasePanics(c, cpu[c]) THEN Panic
     ELSE /\ release(c, cpu[c])
          /\ sch' = [sch EXCEPT ![c] = "loop"]
          /\ UNCHANGED <<run, idle, th, panicked>>

-----------------------------------------------------------------------------
(***************************************************************************)
(* Threads.                                                                *)
(***************************************************************************)
On(c, t, places) == run[c] = t /\ th[t].at \in places
Goto(t, loc) == th' = [th EXCEPT ![t].at = loc]

\* The timer, in user code, in a system call without locks, or in sleep() after
\* ptable.lock was released: the gate clears FL_IF, trap() calls yield().
Timer(c, t) ==
  /\ On(c, t, {"user", "relock"}) /\ cpu[c].if
  /\ cpu' = [cpu EXCEPT ![c].if = FALSE]
  /\ th' = [th EXCEPT ![t] = [@ EXCEPT !.at = "yield", !.back = th[t].at]]
  /\ UNCHANGED <<run, sch, idle, ptlock, panicked>>

\* acquire(lk) by a system call, and by sleep() before it returns.
AcquireLk(c, t) ==
  /\ On(c, t, {"user", "relock"})
  /\ cpu' = [cpu EXCEPT ![c] = pushcli(@)]
  /\ Goto(t, "locked")
  /\ UNCHANGED <<run, sch, idle, ptlock, panicked>>

\* release(lk) by the caller of sleep().
ReleaseLk(c, t) ==
  /\ On(c, t, {"locked"})
  /\ IF PopcliPanics(cpu[c]) THEN Panic
     ELSE /\ cpu' = [cpu EXCEPT ![c] = popcli(@)]
          /\ Goto(t, "user")
          /\ UNCHANGED <<run, sch, idle, ptlock, panicked>>

\* The acquire(&ptable.lock) of yield(), of sleep() with lk held, and of exit().
AcquireStart(c, t, from, to) ==
  /\ On(c, t, {from})
  /\ cpu' = [cpu EXCEPT ![c] = pushcli(@)]
  /\ Goto(t, to)
  /\ UNCHANGED <<run, sch, idle, ptlock, panicked>>

\* What sleep() does to the CPU once it has ptable.lock: release(lk).
Asleep(x) == popcli(x)

\* The lock is taken and the state is set, ready for sched().
Leave(c, t, from, to, state, x) ==
  /\ On(c, t, {from}) /\ ptlock = NoCpu
  /\ ptlock' = c
  /\ cpu' = [cpu EXCEPT ![c] = x]
  /\ th' = [th EXCEPT ![t] = [@ EXCEPT !.state = state, !.at = to]]
  /\ UNCHANGED <<run, sch, idle, panicked>>

\* Where a thread is in swtch().
Switched(loc) == CASE loc = "yieldSched" -> "yielded"
                   [] loc = "sleepSched" -> "slept"
                   [] OTHER -> "gone"

\* sched() up to swtch(), and its panics.
sched(c, t) ==
  /\ On(c, t, {"yieldSched", "sleepSched", "exitSched"})
  /\ IF ptlock # c \/ cpu[c].ncli # 1 \/ th[t].state = "RUNNING" \/ cpu[c].if THEN Panic
     ELSE /\ run' = [run EXCEPT ![c] = NoThread]
          /\ th' = [th EXCEPT ![t] = [@ EXCEPT !.intena = cpu[c].intena,
                                               !.at = Switched(th[t].at)]]
          /\ UNCHANGED <<cpu, sch, idle, ptlock, panicked>>

\* Fault: intena stays with the CPU.
RestoredNot(x, t) == x

\* mycpu()->intena = intena
Restored(x, t) == [x EXCEPT !.intena = th[t].intena]

\* The thread comes back from swtch(), and yield() or sleep() releases ptable.lock.
Resume(c, t) ==
  LET x == Restored(cpu[c], t) IN
  /\ On(c, t, {"yielded", "slept"})
  /\ IF ReleasePanics(c, x) THEN Panic
     ELSE /\ release(c, x)
          /\ Goto(t, IF th[t].at = "slept" THEN "relock" ELSE "iret")
          /\ UNCHANGED <<run, sch, idle, panicked>>

\* forkret(), which was not called by sched().
forkret(c, t) ==
  /\ On(c, t, {"forkret"})
  /\ IF ReleasePanics(c, cpu[c]) THEN Panic
     ELSE /\ release(c, cpu[c])
          /\ Goto(t, "trapret")
          /\ UNCHANGED <<run, sch, idle, panicked>>

\* The end of the handler, or trapret of a new process: FL_IF was on.
iret(c, t) ==
  /\ On(c, t, {"iret", "trapret"})
  /\ cpu' = [cpu EXCEPT ![c].if = TRUE]
  /\ Goto(t, IF th[t].at = "iret" THEN th[t].back ELSE "user")
  /\ UNCHANGED <<run, sch, idle, ptlock, panicked>>

\* wakeup() of a sleeper, and fork() into the slot of a process that is gone, by code
\* that has ptable.lock for it.
wakeup(t) ==
  /\ ptlock = NoCpu /\ th[t].state = "SLEEPING"
  /\ th' = [th EXCEPT ![t].state = "RUNNABLE"]
  /\ UNCHANGED <<cpu, run, sch, idle, ptlock, panicked>>

fork(t) ==
  /\ ptlock = NoCpu /\ th[t].state = "ZOMBIE"
  /\ th' = [th EXCEPT ![t] = New]
  /\ UNCHANGED <<cpu, run, sch, idle, ptlock, panicked>>

Runs(c, t) ==
  \/ Dispatch(c, t) \/ Timer(c, t) \/ AcquireLk(c, t) \/ ReleaseLk(c, t)
  \/ AcquireStart(c, t, "yield", "yieldSpin")
  \/ Leave(c, t, "yieldSpin", "yieldSched", "RUNNABLE", cpu[c])
  \/ AcquireStart(c, t, "locked", "sleepSpin")
  \/ Leave(c, t, "sleepSpin", "sleepSched", "SLEEPING", Asleep(cpu[c]))
  \/ AcquireStart(c, t, "user", "exitSpin")
  \/ Leave(c, t, "exitSpin", "exitSched", "ZOMBIE", cpu[c])
  \/ sched(c, t) \/ Resume(c, t) \/ forkret(c, t) \/ iret(c, t)

Next ==
  /\ ~panicked
  /\ \/ \E c \in CPU : \/ loop(c) \/ hlt(c) \/ Acquire(c) \/ Scan(c) \/ ScanEnd(c)
                       \/ \E t \in Thread : Runs(c, t)
     \/ \E t \in Thread : wakeup(t) \/ fork(t)

Spec == Init /\ [][Next]_vars

-----------------------------------------------------------------------------
Loc == {"forkret", "trapret", "user", "yield", "yieldSpin", "yieldSched", "yielded", "iret",
        "locked", "sleepSpin", "sleepSched", "slept", "relock", "exitSpin", "exitSched", "gone"}

CpuState == [ncli : 0 .. 2, intena : BOOLEAN, if : BOOLEAN]
ThreadState == [state : {"RUNNABLE", "RUNNING", "SLEEPING", "ZOMBIE"}, at : Loc,
                back : {"user", "relock"}, intena : BOOLEAN]

\* Types of the CPUs and threads; ncli is at most two deep in these paths.
TypeOK ==
  /\ cpu \in [CPU -> CpuState]
  /\ run \in [CPU -> Thread \cup {NoThread}]
  /\ sch \in [CPU -> {"loop", "hlt", "acquire", "spin", "scan"}]
  /\ idle \in [CPU -> BOOLEAN]
  /\ ptlock \in CPU \cup {NoCpu}
  /\ th \in [Thread -> ThreadState]
  /\ panicked \in BOOLEAN

(***************************************************************************)
(* sched() is always entered with exactly ptable.lock, and every release() *)
(* after a switch is by the CPU that has the lock, whichever thread and    *)
(* CPU took it: no panic of sched(), release() or popcli() is reached.     *)
(***************************************************************************)
SwitchNoPanic == ~panicked

(***************************************************************************)
(* Interrupts are a thread's, not a CPU's: a system call gets them back on *)
(* when it comes out of its locks and out of sleep(), a timer handler      *)
(* keeps them off until its iret, though each switched CPUs and others     *)
(* with the opposite setting ran between.                                  *)
(***************************************************************************)
FlagFollowsThread ==
  \A c \in CPU, t \in Thread : run[c] = t =>
    /\ th[t].at \in {"user", "relock"} => cpu[c].if
    /\ th[t].at \in {"yield", "iret"} => ~cpu[c].if

(***************************************************************************)
(* A CPU never halts with interrupts off, though the release() at the end  *)
(* of a scan restores what the last thread left in intena.                 *)
(***************************************************************************)
HaltsInterruptible == \A c \in CPU : sch[c] = "hlt" => cpu[c].if

\* What the interrupt flag and ptable.lock have to be over a switch of threads.
SwitchSafe == FlagFollowsThread /\ SwitchNoPanic /\ HaltsInterruptible
=============================================================================
