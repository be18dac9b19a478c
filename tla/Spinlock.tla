------------------------------ MODULE Spinlock ------------------------------
(***************************************************************************)
(* Spin locks and interrupt masking: kernel/spinlock.c on several CPUs.    *)
(*                                                                         *)
(* Every CPU runs kernel code that takes and drops locks and can be        *)
(* interrupted whenever FL_IF is set; the interrupt handler takes locks of *)
(* its own, possibly the same ones.  acquire() and release() are split at  *)
(* every access to memory another CPU, or a handler on this CPU, can see.  *)
(*                                                                         *)
(* The callers are external: they nest locks in increasing rank (in the    *)
(* kernel: a device, log, pipe or sleep-lock spin lock, then ptable.lock,  *)
(* then kmem.lock), and release what they hold in any order, as sleep()    *)
(* does when it drops lk while it holds ptable.lock.                       *)
(***************************************************************************)
EXTENDS Integers, FiniteSets

CONSTANTS
  CPU,      \* the processors
  Lock,     \* the spin locks, numbered by their rank in the lock order
  NoCpu     \* lk->cpu = 0

ASSUME LockAssumption == Lock \subseteq Nat /\ Lock # {} /\ IsFiniteSet(Lock)
ASSUME CpuAssumption  == NoCpu \notin CPU

VARIABLES
  locked,   \* lk->locked
  lkcpu,    \* lk->cpu
  ncli,     \* cpu->ncli, the depth of pushcli nesting
  intena,   \* cpu->intena, were interrupts enabled before pushcli
  iflag,    \* FL_IF in the CPU's eflags
  at,       \* the next step of the code the CPU executes
  lk,       \* the argument of the acquire or release it is in
  held,     \* the locks that code has acquired and not released
  inintr,   \* is the CPU in an interrupt handler
  saved,    \* the at, lk and held of the code the handler interrupted
  panicked

perlock == <<locked, lkcpu>>
percpu  == <<ncli, intena, iflag>>
vars    == <<locked, lkcpu, ncli, intena, iflag, at, lk, held, inintr, saved,
             panicked>>

\* "run": the caller's code; the others: the next step of acquire or release.
Loc   == {"run", "test", "xchg", "record", "store", "popcli"}
Frame == [at : Loc, lk : Lock, held : SUBSET Lock]

TypeOK ==
  /\ locked \in [Lock -> BOOLEAN]
  /\ lkcpu \in [Lock -> CPU \cup {NoCpu}]
  /\ ncli \in [CPU -> Nat]
  /\ intena \in [CPU -> BOOLEAN]
  /\ iflag \in [CPU -> BOOLEAN]
  /\ at \in [CPU -> Loc]
  /\ lk \in [CPU -> Lock]
  /\ held \in [CPU -> SUBSET Lock]
  /\ inintr \in [CPU -> BOOLEAN]
  /\ saved \in [CPU -> Frame]
  /\ panicked \in BOOLEAN

\* initlock() for every lock; a CPU starts in scheduler() after sti().
Init ==
  /\ locked = [l \in Lock |-> FALSE]
  /\ lkcpu = [l \in Lock |-> NoCpu]
  /\ ncli = [c \in CPU |-> 0]
  /\ intena = [c \in CPU |-> FALSE]
  /\ iflag = [c \in CPU |-> TRUE]
  /\ at = [c \in CPU |-> "run"]
  /\ lk \in [CPU -> Lock]
  /\ held = [c \in CPU |-> {}]
  /\ inintr = [c \in CPU |-> FALSE]
  /\ saved = [c \in CPU |-> [at |-> "run", lk |-> lk[c], held |-> {}]]
  /\ panicked = FALSE

-----------------------------------------------------------------------------
\* panic() stops the machine: Next takes no step once panicked is set, so a
\* step whose check fails may also write what the code never reaches.
Goto(c, loc) == at' = [at EXCEPT ![c] = loc]

holding(c, l) == locked[l] /\ lkcpu[l] = c

\* Fault: the flag is recorded at every depth.
pushcliAlwaysRecords(c) ==
  /\ intena' = [intena EXCEPT ![c] = iflag[c]]
  /\ ncli' = [ncli EXCEPT ![c] = @ + 1]
  /\ iflag' = [iflag EXCEPT ![c] = FALSE]

pushcli(c) ==
  /\ intena' = [intena EXCEPT ![c] = IF ncli[c] = 0 THEN iflag[c] ELSE @]
  /\ ncli' = [ncli EXCEPT ![c] = @ + 1]
  /\ iflag' = [iflag EXCEPT ![c] = FALSE]

\* Fault: sti at every depth.
popcliEager(c) ==
  /\ panicked' = (iflag[c] \/ ncli[c] - 1 < 0)
  /\ ncli' = [ncli EXCEPT ![c] = @ - 1]
  /\ iflag' = [iflag EXCEPT ![c] = @ \/ intena[c]]

popcli(c) ==
  /\ panicked' = (iflag[c] \/ ncli[c] - 1 < 0)
  /\ ncli' = [ncli EXCEPT ![c] = @ - 1]
  /\ iflag' = [iflag EXCEPT ![c] = @ \/ (ncli[c] = 1 /\ intena[c])]

-----------------------------------------------------------------------------
(***************************************************************************)
(* acquire(l)                                                              *)
(***************************************************************************)
Acquire(c, l) ==
  /\ at[c] = "run"
  /\ \A m \in held[c] : m < l
  /\ pushcli(c)
  /\ lk' = [lk EXCEPT ![c] = l]
  /\ Goto(c, "test")
  /\ UNCHANGED <<perlock, held, inintr, saved, panicked>>

\* if(holding(lk)) panic("acquire")
AcquireTest(c) ==
  /\ at[c] = "test"
  /\ panicked' = holding(c, lk[c])
  /\ Goto(c, "xchg")
  /\ UNCHANGED <<perlock, percpu, lk, held, inintr, saved>>

\* Fault: the exchange does not look at the old value.
AcquireXchgBlind(c) ==
  /\ at[c] = "xchg"
  /\ locked' = [locked EXCEPT ![lk[c]] = TRUE]
  /\ Goto(c, "record")
  /\ UNCHANGED <<lkcpu, percpu, lk, held, inintr, saved, panicked>>

\* The exchange that finds 0; one that finds 1 changes nothing and spins.
AcquireXchg(c) ==
  /\ at[c] = "xchg"
  /\ ~locked[lk[c]]
  /\ locked' = [locked EXCEPT ![lk[c]] = TRUE]
  /\ Goto(c, "record")
  /\ UNCHANGED <<lkcpu, percpu, lk, held, inintr, saved, panicked>>

\* lk->cpu = mycpu(): acquire returns, the caller is in its critical section.
AcquireRecord(c) ==
  /\ at[c] = "record"
  /\ lkcpu' = [lkcpu EXCEPT ![lk[c]] = c]
  /\ held' = [held EXCEPT ![c] = @ \cup {lk[c]}]
  /\ Goto(c, "run")
  /\ UNCHANGED <<locked, percpu, lk, inintr, saved, panicked>>

(***************************************************************************)
(* release(l): the test of holding() and lk->cpu = 0 are one step, since   *)
(* both only matter to this CPU; then the store, then popcli().            *)
(***************************************************************************)
Release(c, l) ==
  /\ at[c] = "run"
  /\ l \in held[c]
  /\ panicked' = ~holding(c, l)
  /\ lkcpu' = [lkcpu EXCEPT ![l] = NoCpu]
  /\ lk' = [lk EXCEPT ![c] = l]
  /\ Goto(c, "store")
  /\ UNCHANGED <<locked, percpu, held, inintr, saved>>

\* movl $0, lk->locked
ReleaseStore(c) ==
  /\ at[c] = "store"
  /\ locked' = [locked EXCEPT ![lk[c]] = FALSE]
  /\ held' = [held EXCEPT ![c] = @ \ {lk[c]}]
  /\ Goto(c, "popcli")
  /\ UNCHANGED <<lkcpu, percpu, lk, inintr, saved, panicked>>

\* popcli() at the end of release, or of the pair in Myproc.
Popcli(c) ==
  /\ at[c] = "popcli"
  /\ popcli(c)
  /\ Goto(c, "run")
  /\ UNCHANGED <<perlock, intena, lk, held, inintr, saved>>

\* myproc(), and switchuvm(): a pushcli/popcli pair that takes no lock.
Myproc(c) ==
  /\ at[c] = "run"
  /\ pushcli(c)
  /\ Goto(c, "popcli")
  /\ UNCHANGED <<perlock, lk, held, inintr, saved, panicked>>

(***************************************************************************)
(* Interrupts.  Every vector but T_SYSCALL is an interrupt gate, so the    *)
(* hardware clears FL_IF on entry and iret restores it.                    *)
(***************************************************************************)
Interrupt(c) ==
  /\ iflag[c] /\ ~inintr[c]
  /\ inintr' = [inintr EXCEPT ![c] = TRUE]
  /\ saved' = [saved EXCEPT ![c] = [at |-> at[c], lk |-> lk[c], held |-> held[c]]]
  /\ iflag' = [iflag EXCEPT ![c] = FALSE]
  /\ Goto(c, "run")
  /\ held' = [held EXCEPT ![c] = {}]
  /\ UNCHANGED <<perlock, ncli, intena, lk, panicked>>

Iret(c) ==
  /\ inintr[c] /\ at[c] = "run" /\ held[c] = {}
  /\ inintr' = [inintr EXCEPT ![c] = FALSE]
  /\ iflag' = [iflag EXCEPT ![c] = TRUE]
  /\ at' = [at EXCEPT ![c] = saved[c].at]
  /\ lk' = [lk EXCEPT ![c] = saved[c].lk]
  /\ held' = [held EXCEPT ![c] = saved[c].held]
  /\ UNCHANGED <<perlock, ncli, intena, saved, panicked>>

Step(c) ==
  \/ \E l \in Lock : Acquire(c, l) \/ Release(c, l)
  \/ AcquireTest(c) \/ AcquireXchg(c) \/ AcquireRecord(c)
  \/ ReleaseStore(c) \/ Popcli(c) \/ Myproc(c)
  \/ Interrupt(c) \/ Iret(c)

Next == ~panicked /\ \E c \in CPU : Step(c)

Spec == Init /\ [][Next]_vars

-----------------------------------------------------------------------------
\* The code running on c, or the code its handler interrupted, is in the
\* critical section of l.
InCS(c, l) == l \in held[c] \/ (inintr[c] /\ l \in saved[c].held)

(***************************************************************************)
(* No two CPUs are between the acquire and the release of one lock.        *)
(***************************************************************************)
MutualExclusion ==
  \A c, d \in CPU : \A l \in Lock : InCS(c, l) /\ InCS(d, l) => c = d

(***************************************************************************)
(* None of the panics of spinlock.c is reached, whatever interrupt arrives *)
(* when: "acquire" (a CPU, or its handler, takes a lock the CPU holds),    *)
(* "release", "popcli - interruptible" and "popcli".                       *)
(***************************************************************************)
NoPanic == ~panicked

(***************************************************************************)
(* A CPU that owns a lock word cannot be interrupted: from the xchg that   *)
(* won the lock to the store that frees it, and in between.                *)
(***************************************************************************)
MaskedWhileHolding ==
  \A c \in CPU : held[c] # {} \/ at[c] \in {"record", "store"} => ~iflag[c]

(***************************************************************************)
(* Matched pushcli and popcli restore the interrupt flag: outside every    *)
(* lock, kernel code runs with interrupts on and a handler with them off.  *)
(* (spinlock.c: "it takes two popcli to undo two pushcli.  Also, if        *)
(* interrupts are off, then pushcli, popcli leaves them off.")             *)
(***************************************************************************)
InterruptsRestored ==
  \A c \in CPU : at[c] = "run" /\ held[c] = {} => (iflag[c] <=> ~inintr[c])
=============================================================================
