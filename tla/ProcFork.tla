----------------------------- MODULE ProcFork -----------------------------
(***************************************************************************)
(* The steps of fork() keep the invariant.                                 *)
(***************************************************************************)
EXTENDS ProcSched

\* allocproc() takes a slot.
LEMMA allocprocStep ==
  ASSUME IInv, NEW c \in CPU, NEW p \in Slot, NEW q \in Slot, allocproc(c, p, q)
  PROVE  IInv'
<1>0. /\ state[p] = "RUNNING" /\ (\A d \in CPU : cproc[d] = p => d = c)
      /\ \A r \in Slot : np[r] # p
      /\ state[q] = "UNUSED" /\ at[p] = "fork" /\ np[p] = NoProc
  BY RunsFacts DEF allocproc, FirstUnused, Forking
<1>f. /\ p # q /\ \A d \in CPU : cproc[d] # q
      /\ at[q] = "none" /\ ~kstack[q] /\ ~pgdir[q] /\ parent[q] = NoProc
      /\ \A r \in Slot : np[r] # q /\ parent[r] # q
  BY <1>0 DEF IInv, TableInv, TypeOK, CpuInv, ThreadInv, ForkInv, MemInv, FamilyInv, Born, Awake
<1> USE <1>0, <1>f, SlotFacts DEF IInv, TableInv
<1>1. TypeOK'
  BY DEF allocproc, nextpidAdvanced, Runs, Goto, table, thread, cpus, TypeOK,
         Loc, ProcState
<1>2. CpuInv'
  BY CpuAssumption DEF allocproc, nextpidAdvanced, Runs, Goto, table, thread,
         cpus, TypeOK, CpuInv, Born
<1>3. ThreadInv'
  BY DEF allocproc, nextpidAdvanced, Runs, Goto, table, thread, cpus, TypeOK,
         ThreadInv
<1>4. ForkInv'
  BY DEF allocproc, nextpidAdvanced, Runs, Goto, table, thread, cpus, TypeOK,
         ForkInv, Forking
<1>5. EmbryoInv'
  BY DEF allocproc, nextpidAdvanced, Runs, Goto, table, thread, cpus, TypeOK,
         EmbryoInv
<1>6. MemInv'
  BY DEF allocproc, nextpidAdvanced, Runs, Goto, table, thread, cpus, TypeOK,
         MemInv, Born
<1>7. PidInv'
  BY DEF allocproc, nextpidAdvanced, Runs, Goto, table, thread, cpus, TypeOK,
         PidInv, PidUnique
<1>8. FamilyInv'
  BY DEF allocproc, nextpidAdvanced, Runs, Goto, table, thread, cpus, TypeOK,
         FamilyInv, Awake, Born
<1>9. WaitInv'
  BY DEF allocproc, nextpidAdvanced, Runs, Goto, table, thread, cpus, TypeOK,
         WaitInv
<1> QED
  BY <1>1, <1>2, <1>3, <1>4, <1>5, <1>6, <1>7, <1>8, <1>9

\* The child gets its stack.
LEMMA ForkStackStep ==
  ASSUME IInv, NEW c \in CPU, NEW p \in Slot, ForkStack(c, p)
  PROVE  IInv'
<1>0. Runs(c, p) /\ at[p] = "kstack"
  BY DEF ForkStack
<1>f. /\ np[p] \in Slot /\ np[p] # p /\ np[p] # initproc
      /\ state[np[p]] = "EMBRYO" /\ at[np[p]] \in {"none", "forkret"}
      /\ ~intr[np[p]]
      /\ \A d \in CPU : cproc[d] # np[p]
      /\ \A r \in Slot : parent[r] # np[p] /\ np[r] # p
      /\ \A r \in Slot \ {p} : np[r] # np[p]
      /\ state[p] = "RUNNING"
  BY <1>0, ForkFacts, RunsFacts DEF Forking
<1> USE <1>0, <1>f, SlotFacts DEF IInv, TableInv
<1>1. TypeOK'
  BY DEF ForkStack, Runs, Goto, cpus, TypeOK, Loc, ProcState
<1>2. CpuInv'
  BY CpuAssumption DEF ForkStack, Runs, Goto, cpus, TypeOK, CpuInv, Born
<1>3. ThreadInv'
  BY DEF ForkStack, Runs, Goto, cpus, TypeOK, ThreadInv
<1>4. ForkInv'
  BY DEF ForkStack, Runs, Goto, cpus, TypeOK, ForkInv, Forking
<1>5. EmbryoInv'
  BY DEF ForkStack, Runs, Goto, cpus, TypeOK, EmbryoInv
<1>6. MemInv'
  BY DEF ForkStack, Runs, Goto, cpus, TypeOK, MemInv, Born
<1>7. PidInv'
  BY DEF ForkStack, Runs, Goto, cpus, TypeOK, PidInv, PidUnique
<1>8. FamilyInv'
  BY DEF ForkStack, Runs, Goto, cpus, TypeOK, FamilyInv, Awake, Born
<1>9. WaitInv'
  BY DEF ForkStack, Runs, Goto, cpus, TypeOK, WaitInv
<1> QED
  BY <1>1, <1>2, <1>3, <1>4, <1>5, <1>6, <1>7, <1>8, <1>9

\* The child gets its page table and its parent.
LEMMA ForkCopyStep ==
  ASSUME IInv, NEW c \in CPU, NEW p \in Slot, ForkCopy(c, p)
  PROVE  IInv'
<1>0. Runs(c, p) /\ at[p] = "copy"
  BY DEF ForkCopy
<1>f. /\ np[p] \in Slot /\ np[p] # p /\ np[p] # initproc
      /\ state[np[p]] = "EMBRYO" /\ at[np[p]] \in {"none", "forkret"}
      /\ ~intr[np[p]]
      /\ \A d \in CPU : cproc[d] # np[p]
      /\ \A r \in Slot : parent[r] # np[p] /\ np[r] # p
      /\ \A r \in Slot \ {p} : np[r] # np[p]
      /\ state[p] = "RUNNING"
  BY <1>0, ForkFacts, RunsFacts DEF Forking
<1> USE <1>0, <1>f, SlotFacts DEF IInv, TableInv
<1>1. TypeOK'
  BY DEF ForkCopy, Runs, Goto, cpus, TypeOK, Loc, ProcState
<1>2. CpuInv'
  BY CpuAssumption DEF ForkCopy, Runs, Goto, cpus, TypeOK, CpuInv, Born
<1>3. ThreadInv'
  BY DEF ForkCopy, Runs, Goto, cpus, TypeOK, ThreadInv
<1>4. ForkInv'
  BY DEF ForkCopy, Runs, Goto, cpus, TypeOK, ForkInv, Forking
<1>5. EmbryoInv'
  BY DEF ForkCopy, Runs, Goto, cpus, TypeOK, EmbryoInv
<1>6. MemInv'
  BY DEF ForkCopy, Runs, Goto, cpus, TypeOK, MemInv, Born, ForkInv
<1>7. PidInv'
  BY DEF ForkCopy, Runs, Goto, cpus, TypeOK, PidInv, PidUnique
<1>8. FamilyInv'
  BY DEF ForkCopy, Runs, Goto, cpus, TypeOK, FamilyInv, Awake, Born
<1>9. WaitInv'
  BY DEF ForkCopy, Runs, Goto, cpus, TypeOK, WaitInv, ForkInv
<1> QED
  BY <1>1, <1>2, <1>3, <1>4, <1>5, <1>6, <1>7, <1>8, <1>9

\* fork() gives its child up, in allocproc() or after copyuvm().
LEMMA FailStep ==
  ASSUME IInv, NEW c \in CPU, NEW p \in Slot, Runs(c, p), TypeOK',
         at[p] \in {"kstack", "copy"}, at'[p] = "ret", at'[np[p]] = "none",
         ~kstack'[np[p]], state'[np[p]] = "UNUSED", np'[p] = NoProc,
         \A r \in Slot \ {p, np[p]} : at'[r] = at[r],
         \A r \in Slot \ {np[p]} : state'[r] = state[r] /\ kstack'[r] = kstack[r],
         \A r \in Slot \ {p} : np'[r] = np[r],
         UNCHANGED <<pid, parent, chan, killed, pgdir, nextpid, intr, ptlock, cpus>>
  PROVE  IInv'
<1>1. /\ np[p] \in Slot /\ np[p] # p /\ np[p] # initproc
      /\ state[np[p]] = "EMBRYO" /\ ~intr[np[p]]
      /\ \A d \in CPU : cproc[d] # np[p]
      /\ \A r \in Slot : parent[r] # np[p] /\ np[r] # p
      /\ \A r \in Slot \ {p} : np[r] # np[p]
  BY ForkFacts DEF Forking
<1>2. ~pgdir[np[p]] /\ parent[np[p]] = NoProc /\ state[p] = "RUNNING" /\ ~intr[p]
  BY RunsFacts DEF IInv, TableInv, ForkInv, Runs
<1> USE <1>1, <1>2, SlotFacts
<1>3. CpuInv'
  BY DEF IInv, CpuInv, TypeOK, cpus
<1>4. ThreadInv'
  BY DEF IInv, TableInv, ThreadInv
<1>5. ForkInv'
  BY DEF IInv, TableInv, ForkInv, Forking
<1>6. EmbryoInv' /\ MemInv'
  BY DEF IInv, TableInv, EmbryoInv, MemInv, Born
<1>7. PidInv'
  BY DEF IInv, TableInv, PidInv, PidUnique
<1>8. FamilyInv'
  BY DEF IInv, TableInv, FamilyInv, Awake, Born
<1>9. WaitInv'
  BY DEF IInv, TableInv, WaitInv
<1> QED
  BY <1>3, <1>4, <1>5, <1>6, <1>7, <1>8, <1>9 DEF IInv, TableInv

\* The child gets no stack.
LEMMA ForkStackFailsStep ==
  ASSUME IInv, NEW c \in CPU, NEW p \in Slot, ForkStackFails(c, p)
  PROVE  IInv'
<1>0. Runs(c, p) /\ at[p] = "kstack"
  BY DEF ForkStackFails
<1>1. np[p] \in Slot /\ np[p] # p
  BY <1>0, ForkFacts DEF Forking
<1>2. TypeOK'
  BY <1>1, SlotFacts DEF IInv, ForkStackFails, ForkReturns, Goto, cpus, TypeOK, Loc, ProcState,
         Failed
<1>3. /\ at'[p] = "ret" /\ at'[np[p]] = "none" /\ ~kstack'[np[p]]
      /\ state'[np[p]] = "UNUSED" /\ np'[p] = NoProc
      /\ \A r \in Slot \ {p, np[p]} : at'[r] = at[r]
      /\ \A r \in Slot \ {np[p]} : state'[r] = state[r] /\ kstack'[r] = kstack[r]
      /\ \A r \in Slot \ {p} : np'[r] = np[r]
  BY <1>0, <1>1 DEF IInv, TypeOK, TableInv, ForkInv, ForkStackFails, ForkReturns, Goto,
         Forking
<1>4. UNCHANGED <<pid, parent, chan, killed, pgdir, nextpid, intr, ptlock, cpus>>
  BY DEF ForkStackFails
<1> QED
  BY <1>0, <1>2, <1>3, <1>4, FailStep

\* The child gets no page table.
LEMMA ForkCopyFailsStep ==
  ASSUME IInv, NEW c \in CPU, NEW p \in Slot, ForkCopyFails(c, p)
  PROVE  IInv'
<1>0. Runs(c, p) /\ at[p] = "copy"
  BY DEF ForkCopyFails
<1>1. np[p] \in Slot /\ np[p] # p
  BY <1>0, ForkFacts DEF Forking
<1>2. TypeOK'
  BY <1>1, SlotFacts DEF IInv, ForkCopyFails, ForkReturns, cpus, TypeOK, Loc, ProcState,
         Failed
<1>3. /\ at'[p] = "ret" /\ at'[np[p]] = "none" /\ ~kstack'[np[p]]
      /\ state'[np[p]] = "UNUSED" /\ np'[p] = NoProc
      /\ \A r \in Slot \ {p, np[p]} : at'[r] = at[r]
      /\ \A r \in Slot \ {np[p]} : state'[r] = state[r] /\ kstack'[r] = kstack[r]
      /\ \A r \in Slot \ {p} : np'[r] = np[r]
  BY <1>0, <1>1 DEF IInv, TypeOK, TableInv, ForkInv, ForkCopyFails, ForkReturns,
         Forking
<1>4. UNCHANGED <<pid, parent, chan, killed, pgdir, nextpid, intr, ptlock, cpus>>
  BY DEF ForkCopyFails
<1> QED
  BY <1>0, <1>2, <1>3, <1>4, FailStep

\* The child becomes RUNNABLE.
LEMMA ForkRunStep ==
  ASSUME IInv, NEW c \in CPU, NEW p \in Slot, ForkRun(c, p)
  PROVE  IInv'
<1>0. Runs(c, p) /\ at[p] = "run"
  BY DEF ForkRun
<1>f. /\ np[p] \in Slot /\ np[p] # p /\ np[p] # initproc
      /\ state[np[p]] = "EMBRYO" /\ at[np[p]] \in {"none", "forkret"}
      /\ ~intr[np[p]]
      /\ \A d \in CPU : cproc[d] # np[p]
      /\ \A r \in Slot : parent[r] # np[p] /\ np[r] # p
      /\ \A r \in Slot \ {p} : np[r] # np[p]
      /\ state[p] = "RUNNING"
  BY <1>0, ForkFacts, RunsFacts DEF Forking
<1>r. kstack[np[p]] /\ pgdir[np[p]] /\ parent[np[p]] = p /\ at[np[p]] = "forkret"
  BY <1>0 DEF IInv, TableInv, ForkInv
<1> USE <1>0, <1>f, <1>r, SlotFacts DEF IInv, TableInv
<1>1. TypeOK'
  BY DEF ForkRun, ForkReturns, Runs, Goto, cpus, TypeOK, Loc, ProcState
<1>2. CpuInv'
  BY CpuAssumption DEF ForkRun, ForkReturns, Runs, Goto, cpus, TypeOK, CpuInv,
         Born
<1>3. ThreadInv'
  BY DEF ForkRun, ForkReturns, Runs, Goto, cpus, TypeOK, ThreadInv
<1>4. ForkInv'
  BY DEF ForkRun, ForkReturns, Runs, Goto, cpus, TypeOK, ForkInv, Forking
<1>5. EmbryoInv'
  BY DEF ForkRun, ForkReturns, Runs, Goto, cpus, TypeOK, EmbryoInv
<1>6. MemInv'
  BY DEF ForkRun, ForkReturns, Runs, Goto, cpus, TypeOK, MemInv, Born
<1>7. PidInv'
  BY DEF ForkRun, ForkReturns, Runs, Goto, cpus, TypeOK, PidInv, PidUnique
<1>8. FamilyInv'
  BY DEF ForkRun, ForkReturns, Runs, Goto, cpus, TypeOK, FamilyInv, Awake,
         Born
<1>9. WaitInv'
  BY DEF ForkRun, ForkReturns, Runs, Goto, cpus, TypeOK, WaitInv
<1> QED
  BY <1>1, <1>2, <1>3, <1>4, <1>5, <1>6, <1>7, <1>8, <1>9

=============================================================================
