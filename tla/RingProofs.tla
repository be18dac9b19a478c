----------------------------- MODULE RingProofs -----------------------------
(***************************************************************************)
(* The two ring buffers of the kernel, for any number of readers and       *)
(* writers, any size of the ring and of a uint: first pipes (Pipe), then   *)
(* console input (Console).                                                *)
(*                                                                         *)
(* A process inside its loops has the lock, so what it has tested stays    *)
(* true until it drops the lock: a process about to sleep() still has its  *)
(* reason.  The last to close an end of a pipe finds all others of that    *)
(* end gone, and an end that is closed has no process left.                *)
(*                                                                         *)
(* Then a pipe is shown to be a stream of bytes and console input to be    *)
(* lines of text.  As the size of the ring divides 2^32, a uint that wraps *)
(* around goes on to the slot after the last, and as what is put is never  *)
(* more than one length ahead of what is taken, a byte never goes over one *)
(* that is still to be read.                                               *)
(***************************************************************************)
EXTENDS Pipe, SequenceTheorems, TLAPS

\* The processes in a critical section of p->lock.
Holds(p) == at[p] \in {"loop", "sleep", "copy"}

\* An end of the pipe: the last to close it is alone, and once it is closed all of
\* its processes are gone.
EndOK(end, open) ==
  /\ \A p, q \in end : at[p] = "close" /\ p # q => at[q] = "gone"
  /\ ~open => \A p \in end : at[p] = "gone"

\* Who has the lock, and which processes have their end open.
Places ==
  /\ \A p \in Proc : Holds(p) <=> plock = p
  /\ \A p \in Proc : has[p] <=> at[p] \notin {"close", "gone"}
  /\ \A p \in Proc : at[p] = "copy" => p \in Reader

Ends ==
  /\ EndOK(Reader, readopen)
  /\ EndOK(Writer, writeopen)
  /\ freed <=> ~readopen /\ ~writeopen

\* Why a process is about to sleep.
Reasons ==
  /\ \A r \in Reader : at[r] = "sleep" => empty /\ writeopen
  /\ \A w \in Writer : at[w] = "sleep" => full /\ readopen

IInv == TypeOK /\ Places /\ Ends /\ Reasons /\ NoLostWakeup

\* wakeup() only moves sleepers of the channel.
LEMMA WakeupLemma ==
  ASSUME TypeOK, NEW chan
  PROVE  /\ wakeup(chan) \in [Proc -> Loc]
         /\ \A p \in Proc : \/ wakeup(chan)[p] = at[p] /\ (p \in chan => at[p] # "asleep")
                            \/ at[p] = "asleep" /\ p \in chan /\ wakeup(chan)[p] = "lock"
  BY DEF TypeOK, Loc, wakeup

\* A uint that is counted up stays one.
LEMMA UintLemma ==
  ASSUME NEW n \in 0 .. UintMod - 1
  PROVE  Next32(n) \in 0 .. UintMod - 1
  BY PipeAssumption DEF Next32

\* pipealloc() makes a pipe that is empty, open and not in use.
LEMMA InitIInv == Init => IInv
<1> SUFFICES ASSUME Init PROVE IInv
  OBVIOUS
<1>1. TypeOK
  <2>1. data \in [0 .. PIPESIZE - 1 -> Byte]
    BY DEF Init
  <2>2. 0 \in 0 .. UintMod - 1 /\ 0 \in 0 .. MaxCount
    BY PipeAssumption
  <2>3. "idle" \in Loc
    BY DEF Loc
  <2> QED BY <2>1, <2>2, <2>3, Zenon DEF Init, TypeOK
<1>2. \A p \in Proc : at[p] = "idle" /\ has[p] /\ plock # p
  BY PipeAssumption DEF Init, Proc
<1> QED BY <1>1, <1>2 DEF Init, IInv, Places, Ends, Reasons, Holds, EndOK, NoLostWakeup, Proc

\* Every step keeps the types.
LEMMA TypeStep == TypeOK /\ [Next]_vars => TypeOK'
<1> SUFFICES ASSUME TypeOK, [Next]_vars PROVE TypeOK'
  OBVIOUS
<1>0. 0 \in 0 .. MaxCount /\ \A n \in 1 .. MaxCount : n \in 0 .. MaxCount /\ n - 1 \in 0 .. MaxCount
  BY PipeAssumption
<1>1. ASSUME NEW p \in Proc, NEW n \in 1 .. MaxCount, Call(p, n) PROVE TypeOK'
  BY <1>0, <1>1 DEF Call, TypeOK, pipe, Loc, Goto
<1>2. ASSUME NEW p \in Proc, Lock(p) PROVE TypeOK'
  BY <1>2 DEF Lock, TypeOK, pipe, Loc, Goto
<1>3. ASSUME NEW p \in Proc, NEW v \in Byte, WriteByte(p, v) PROVE TypeOK'
  <2>1. left' \in [Proc -> 0 .. MaxCount]
    BY <1>3, PipeAssumption DEF WriteByte, TypeOK
  <2>2. data' \in [0 .. PIPESIZE - 1 -> Byte] /\ nwrite' \in 0 .. UintMod - 1
    BY <1>3, UintLemma, Zenon DEF WriteByte, TypeOK
  <2> QED BY <1>3, <2>1, <2>2 DEF WriteByte, TypeOK
<1>4. ASSUME NEW p \in Proc, NEW now \in [Proc -> Loc], Unlock(p, now)
      PROVE  /\ plock' \in Proc \cup {NoProc} /\ at' \in [Proc -> Loc]
             /\ left' \in [Proc -> 0 .. MaxCount]
  BY <1>0, <1>4 DEF Unlock, TypeOK, Loc
<1>5. ASSUME NEW p \in Proc, WriteFails(p) \/ WriteReturns(p) \/ ReadReturns(p) PROVE TypeOK'
  <2>1. \E now \in [Proc -> Loc] : Unlock(p, now)
    BY <1>5, WakeupLemma DEF WriteFails, WriteReturns, ReadReturns, TypeOK
  <2> QED BY <1>4, <1>5, <2>1 DEF WriteFails, WriteReturns, ReadReturns, TypeOK, pipe
<1>6. ASSUME NEW p \in Proc, WriteFull(p) PROVE TypeOK'
  BY <1>6, WakeupLemma DEF WriteFull, TypeOK, pipe, Loc
<1>7. ASSUME NEW p \in Proc, ReadWaits(p) PROVE TypeOK'
  <2>1. CASE Unlock(p, at)
    BY <1>4, <1>7, <2>1 DEF ReadWaits, TypeOK, pipe
  <2>2. CASE Goto(p, "sleep") /\ UNCHANGED <<plock, left>>
    BY <1>7, <2>2 DEF ReadWaits, TypeOK, pipe, Goto, Loc
  <2> QED BY <1>7, <2>1, <2>2 DEF ReadWaits
<1>8. ASSUME NEW p \in Proc, ReadStarts(p) \/ sleep(p) \/ kill(p) PROVE TypeOK'
  BY <1>8, Zenon DEF ReadStarts, sleep, kill, TypeOK, pipe, Loc, Goto
<1>9. ASSUME NEW p \in Proc, ReadByte(p) PROVE TypeOK'
  <2>1. left' \in [Proc -> 0 .. MaxCount]
    BY <1>9, PipeAssumption DEF ReadByte, TypeOK
  <2> QED BY <1>9, <2>1, UintLemma DEF ReadByte, TypeOK
<1>10. ASSUME NEW p \in Proc, fileclose(p) PROVE TypeOK'
  BY <1>10 DEF fileclose, TypeOK, pipe, Loc, Goto
<1>11. ASSUME NEW p \in Proc, pipeclose(p) PROVE TypeOK'
  <2>1. at' \in [Proc -> Loc]
    BY <1>11, WakeupLemma DEF pipeclose, Loc
  <2>2. readopen' \in BOOLEAN /\ writeopen' \in BOOLEAN /\ freed' \in BOOLEAN
    BY <1>11, Zenon DEF pipeclose, TypeOK
  <2> QED BY <1>11, <2>1, <2>2 DEF pipeclose, TypeOK
<1>12. CASE UNCHANGED vars
  BY <1>12 DEF vars, TypeOK
<1> QED
  BY <1>1, <1>2, <1>3, <1>5, <1>6, <1>7, <1>8, <1>9, <1>10, <1>11, <1>12 DEF Next, Step

-----------------------------------------------------------------------------
\* Only one action lets go of an end, so the places follow from the types.
LEMMA PlacesStep ==
  ASSUME TypeOK, TypeOK', Places, Next
  PROVE  Places'
<1> USE PipeAssumption DEF TypeOK, Places, Holds, Proc
<1>0. ASSUME NEW p \in Proc, at[p] \in {"loop", "copy"}, at'[p] = "idle", plock' = NoProc,
             has' = has,
             \A q \in Proc \ {p} : at'[q] = at[q] \/ (at[q] = "asleep" /\ at'[q] = "lock")
      PROVE  Places'
  <2>1. \A q \in Proc \ {p} : ~Holds(q)
    BY <1>0
  <2> QED BY <1>0, <2>1, Zenon
<1>1. ASSUME NEW p \in Proc, NEW n \in 1 .. MaxCount, Call(p, n) PROVE Places'
  BY <1>1 DEF Call, Goto
<1>2. ASSUME NEW p \in Proc, Lock(p) \/ sleep(p) PROVE Places'
  BY <1>2 DEF Lock, sleep, Goto
<1>3. ASSUME NEW p \in Proc, NEW v \in Byte, WriteByte(p, v) PROVE Places'
  BY <1>3 DEF WriteByte
<1>4. ASSUME NEW p \in Proc, WriteFails(p) PROVE Places'
  BY <1>4 DEF WriteFails, Unlock
<1>5. ASSUME NEW p \in Proc, WriteFull(p) PROVE Places'
  BY <1>5 DEF WriteFull, wakeup
<1>6. ASSUME NEW p \in Proc, WriteReturns(p) \/ ReadReturns(p) PROVE Places'
  <2>1. at[p] \in {"loop", "copy"} /\ plock' = NoProc /\ has' = has
    BY <1>6 DEF WriteReturns, ReadReturns, Unlock
  <2>2. PICK chan : at' = [wakeup(chan) EXCEPT ![p] = "idle"]
    BY <1>6 DEF WriteReturns, ReadReturns, Unlock
  <2>3. /\ at'[p] = "idle"
        /\ \A q \in Proc \ {p} : at'[q] = at[q] \/ (at[q] = "asleep" /\ at'[q] = "lock")
    BY <2>2 DEF wakeup
  <2> QED BY <1>0, <2>1, <2>3
<1>7. ASSUME NEW p \in Proc, ReadWaits(p) PROVE Places'
  <2>1. CASE killed[p]
    BY <1>0, <1>7, <2>1 DEF ReadWaits, Unlock
  <2>2. CASE ~killed[p]
    BY <1>7, <2>2 DEF ReadWaits, Goto
  <2> QED BY <2>1, <2>2
<1>8. ASSUME NEW p \in Proc, ReadStarts(p) \/ ReadByte(p) PROVE Places'
  BY <1>8 DEF ReadStarts, ReadByte, Goto
<1>9. ASSUME NEW p \in Proc, kill(p) PROVE Places'
  BY <1>9 DEF kill, Goto
<1>10. ASSUME NEW p \in Proc, fileclose(p) PROVE Places'
  <2>1. /\ at[p] = "idle" /\ at'[p] \in {"gone", "close"} /\ has'[p] = FALSE
        /\ \A q \in Proc \ {p} : at'[q] = at[q] /\ has'[q] = has[q]
    BY <1>10 DEF fileclose, Goto
  <2> QED BY <1>10, <2>1 DEF fileclose
<1>11. ASSUME NEW p \in Proc, pipeclose(p) PROVE Places'
  BY <1>11, Zenon DEF pipeclose, wakeup
<1> QED
  BY <1>1, <1>2, <1>3, <1>4, <1>5, <1>6, <1>7, <1>8, <1>9, <1>10, <1>11 DEF Next, Step

\* An end is closed by its last process.
LEMMA EndsStep ==
  ASSUME TypeOK, TypeOK', Places, Ends, Next
  PROVE  Ends'
<1> USE PipeAssumption DEF TypeOK, Proc
<1>1. ASSUME \A q \in Proc : at'[q] = at[q] \/ (at[q] \notin {"close", "gone"} /\ at'[q] # "close"),
             UNCHANGED <<readopen, writeopen, freed>>
      PROVE  Ends'
  BY <1>1 DEF Ends, EndOK
<1>2. ASSUME NEW p \in Proc, fileclose(p) PROVE Ends'
  <2>1. /\ at[p] = "idle" /\ \A q \in Proc \ {p} : at'[q] = at[q]
        /\ UNCHANGED <<readopen, writeopen, freed>>
    BY <1>2 DEF fileclose, Goto, pipe
  <2>2. CASE at'[p] = "gone"
    BY <2>1, <2>2, Zenon DEF Ends, EndOK
  <2>3. CASE at'[p] = "close"
    <3>1. /\ p \in Reader => \A q \in Reader \ {p} : ~has[q]
          /\ p \in Writer => \A q \in Writer \ {p} : ~has[q]
      BY <1>2, <2>3 DEF fileclose, Goto
    <3>2. ASSUME NEW q \in Proc, ~has[q], q # p,
                 p \in Reader <=> q \in Reader
          PROVE  at'[q] = "gone"
      BY <2>1, <3>2 DEF Places, Ends, EndOK
    <3>3. EndOK(Reader, readopen)'
      <4>1. ~readopen' => \A q \in Reader : at'[q] = "gone"
        BY <2>1 DEF Ends, EndOK
      <4>2. ASSUME NEW q \in Reader, NEW r \in Reader, at'[q] = "close", q # r PROVE at'[r] = "gone"
        <5>1. CASE q = p
          <6>1. r \in Proc /\ ~has[r] /\ r # p /\ (p \in Reader <=> r \in Reader)
            BY <3>1, <4>2, <5>1
          <6> QED BY <3>2, <6>1
        <5>2. CASE q # p
          <6>1. at[q] = "close" /\ at[r] = "gone"
            BY <2>1, <4>2, <5>2 DEF Ends, EndOK
          <6> QED BY <2>1, <6>1
        <5> QED BY <5>1, <5>2
      <4> QED BY <4>1, <4>2 DEF EndOK
    <3>4. EndOK(Writer, writeopen)'
      <4>1. ~writeopen' => \A q \in Writer : at'[q] = "gone"
        BY <2>1 DEF Ends, EndOK
      <4>2. ASSUME NEW q \in Writer, NEW r \in Writer, at'[q] = "close", q # r PROVE at'[r] = "gone"
        <5>1. CASE q = p
          <6>1. r \in Proc /\ ~has[r] /\ r # p /\ (p \in Reader <=> r \in Reader)
            BY <3>1, <4>2, <5>1
          <6> QED BY <3>2, <6>1
        <5>2. CASE q # p
          <6>1. at[q] = "close" /\ at[r] = "gone"
            BY <2>1, <4>2, <5>2 DEF Ends, EndOK
          <6> QED BY <2>1, <6>1
        <5> QED BY <5>1, <5>2
      <4> QED BY <4>1, <4>2 DEF EndOK
    <3> QED BY <2>1, <3>3, <3>4 DEF Ends
  <2> QED BY <1>2, <2>2, <2>3 DEF fileclose, Goto
<1>3. ASSUME NEW p \in Proc, pipeclose(p) PROVE Ends'
  <2>1. /\ at[p] = "close" /\ at'[p] = "gone"
        /\ \A q \in Proc \ {p} : at'[q] = at[q] \/ (at[q] = "asleep" /\ at'[q] = "lock")
    BY <1>3 DEF pipeclose, wakeup
  <2>2. /\ p \in Reader => \A q \in Reader : at'[q] = "gone"
        /\ p \in Writer => \A q \in Writer : at'[q] = "gone"
    BY <2>1, Zenon DEF Ends, EndOK
  <2>3. /\ p \in Writer => writeopen' = FALSE /\ readopen' = readopen
        /\ p \in Reader => readopen' = FALSE /\ writeopen' = writeopen
        /\ freed' = ~(readopen' \/ writeopen')
    BY <1>3 DEF pipeclose
  <2>4. EndOK(Reader, readopen)'
    <3>1. CASE p \in Reader
      <4>1. \A q \in Reader : at'[q] = "gone"
        BY <2>2, <3>1
      <4> QED BY <4>1 DEF EndOK
    <3>2. CASE p \notin Reader
      <4>1. readopen' = readopen
        BY <2>3, <3>2
      <4>2. \A q \in Reader : at'[q] = at[q] \/ (at[q] = "asleep" /\ at'[q] = "lock")
        BY <2>1, <3>2
      <4> QED BY <4>1, <4>2, Zenon DEF Ends, EndOK
    <3> QED BY <3>1, <3>2
  <2>5. EndOK(Writer, writeopen)'
    <3>1. CASE p \in Writer
      <4>1. \A q \in Writer : at'[q] = "gone"
        BY <2>2, <3>1
      <4> QED BY <4>1 DEF EndOK
    <3>2. CASE p \notin Writer
      <4>1. writeopen' = writeopen
        BY <2>3, <3>2
      <4>2. \A q \in Writer : at'[q] = at[q] \/ (at[q] = "asleep" /\ at'[q] = "lock")
        BY <2>1, <3>2
      <4> QED BY <4>1, <4>2, Zenon DEF Ends, EndOK
    <3> QED BY <3>1, <3>2
  <2>6. freed' <=> ~readopen' /\ ~writeopen'
    BY <2>3, Zenon
  <2> QED BY <2>4, <2>5, <2>6 DEF Ends
<1>4. ASSUME NEW p \in Proc, NEW n \in 1 .. MaxCount, Call(p, n) PROVE Ends'
  BY <1>1, <1>4 DEF Call, Goto, pipe
<1>5. ASSUME NEW p \in Proc, Lock(p) \/ sleep(p) \/ kill(p) PROVE Ends'
  BY <1>1, <1>5 DEF Lock, sleep, kill, Goto, pipe
<1>6. ASSUME NEW p \in Proc, NEW v \in Byte, WriteByte(p, v) PROVE Ends'
  BY <1>1, <1>6 DEF WriteByte
<1>7. ASSUME NEW p \in Proc, WriteFails(p) \/ WriteFull(p) \/ WriteReturns(p) PROVE Ends'
  BY <1>1, <1>7, Zenon DEF WriteFails, WriteFull, WriteReturns, Unlock, wakeup, pipe
<1>8. ASSUME NEW p \in Proc, ReadWaits(p) \/ ReadStarts(p) \/ ReadByte(p) \/ ReadReturns(p)
      PROVE  Ends'
  BY <1>1, <1>8, Zenon DEF ReadWaits, ReadStarts, ReadByte, ReadReturns, Unlock, Goto, wakeup, pipe
<1> QED
  BY <1>2, <1>3, <1>4, <1>5, <1>6, <1>7, <1>8 DEF Next, Step

\* A process about to sleep has the lock, so its reason lasts; and whoever ends
\* the reason of a sleeper has its wakeup() ahead, in the same critical section.
LEMMA WaitStep ==
  ASSUME TypeOK, TypeOK', Places, Ends, Ends', Reasons, NoLostWakeup, Next
  PROVE  Reasons' /\ NoLostWakeup'
<1> USE PipeAssumption DEF TypeOK, Proc
<1> DEFINE Same == UNCHANGED <<nread, nwrite, readopen, writeopen, killed>>
<1>1. ASSUME NEW p \in Proc, NEW n \in 1 .. MaxCount, Call(p, n) PROVE Reasons' /\ NoLostWakeup'
  BY <1>1 DEF Call, Goto, pipe, Reasons, NoLostWakeup, empty, full
<1>2. ASSUME NEW p \in Proc, Lock(p) PROVE Reasons' /\ NoLostWakeup'
  BY <1>2 DEF Lock, Goto, pipe, Reasons, NoLostWakeup, empty, full
<1>3. ASSUME NEW p \in Proc, sleep(p) PROVE Reasons' /\ NoLostWakeup'
  BY <1>3 DEF sleep, Goto, pipe, Reasons, NoLostWakeup, empty, full
<1>4. ASSUME NEW p \in Proc, NEW v \in Byte, WriteByte(p, v) PROVE Reasons' /\ NoLostWakeup'
  <2>1. \A q \in Proc : q # p => ~Holds(q)
    BY <1>4 DEF WriteByte, Places, Holds
  <2>2. p \in Writer /\ at[p] = "loop" /\ ~full /\ UNCHANGED <<at, killed, readopen>>
    BY <1>4 DEF WriteByte
  <2> QED BY <2>1, <2>2 DEF Holds, Reasons, NoLostWakeup
<1>5. ASSUME NEW p \in Proc, WriteFails(p) PROVE Reasons' /\ NoLostWakeup'
  <2>1. /\ p \in Writer /\ at[p] = "loop" /\ at'[p] = "idle" /\ Same
        /\ \A q \in Proc \ {p} : at'[q] = at[q]
        /\ ~readopen \/ killed[p]
    BY <1>5 DEF WriteFails, Unlock, pipe
  <2>2. ~readopen => \A r \in Reader : at[r] # "asleep"
    BY DEF Ends, EndOK
  <2> QED BY <2>1, <2>2 DEF Reasons, NoLostWakeup, empty, full
<1>6. ASSUME NEW p \in Writer, at[p] = "loop", Same,
             \A r \in Reader : at'[r] = wakeup(Reader)[r],
             \A w \in Writer \ {p} : at'[w] = at[w],
             at'[p] = "idle" \/ (at'[p] = "sleep" /\ full /\ readopen)
      PROVE  Reasons' /\ NoLostWakeup'
  <2>1. \A r \in Reader : at'[r] # "asleep" /\ (at'[r] = at[r] \/ at'[r] = "lock")
    BY <1>6 DEF wakeup
  <2>2. \A r \in Reader : at[r] # "copy"
    BY <1>6 DEF Places, Holds
  <2>3. (empty' <=> empty) /\ (full' <=> full)
    BY <1>6 DEF empty, full
  <2>4. \A w \in Writer : at[w] = "asleep" => full /\ readopen
    BY <2>2 DEF NoLostWakeup
  <2>5. Reasons'
    BY <1>6, <2>1, <2>3 DEF Reasons
  <2>6. NoLostWakeup'
    BY <1>6, <2>1, <2>3, <2>4 DEF NoLostWakeup
  <2> QED BY <2>5, <2>6
<1>7. ASSUME NEW p \in Proc, WriteFull(p) PROVE Reasons' /\ NoLostWakeup'
  BY <1>6, <1>7, Zenon DEF WriteFull, pipe, wakeup
<1>8. ASSUME NEW p \in Proc, WriteReturns(p) PROVE Reasons' /\ NoLostWakeup'
  BY <1>6, <1>8, Zenon DEF WriteReturns, Unlock, pipe, wakeup
<1>9. ASSUME NEW p \in Proc, ReadWaits(p) PROVE Reasons' /\ NoLostWakeup'
  BY <1>9 DEF ReadWaits, Unlock, Goto, pipe, Reasons, NoLostWakeup, empty, full
<1>10. ASSUME NEW p \in Proc, ReadStarts(p) PROVE Reasons' /\ NoLostWakeup'
  BY <1>10 DEF ReadStarts, Goto, pipe, Reasons, NoLostWakeup, empty, full
<1>11. ASSUME NEW p \in Proc, ReadByte(p) PROVE Reasons' /\ NoLostWakeup'
  <2>1. \A q \in Proc : q # p => ~Holds(q)
    BY <1>11 DEF ReadByte, Places, Holds
  <2>2. p \in Reader /\ at[p] = "copy" /\ ~empty /\ UNCHANGED <<at, killed, writeopen>>
    BY <1>11 DEF ReadByte, Places
  <2> QED BY <2>1, <2>2 DEF Holds, Reasons, NoLostWakeup
<1>12. ASSUME NEW p \in Proc, ReadReturns(p) PROVE Reasons' /\ NoLostWakeup'
  <2>1. /\ p \in Reader /\ at'[p] = "idle" /\ Same
        /\ \A r \in Reader \ {p} : at'[r] = at[r]
        /\ \A w \in Writer : at'[w] # "asleep" /\ (at'[w] = at[w] \/ at'[w] = "lock")
    BY <1>12 DEF ReadReturns, Unlock, pipe, wakeup, Places
  <2>2. \A w \in Writer : at[w] # "loop"
    BY <1>12, <2>1 DEF ReadReturns, Places, Holds
  <2> QED BY <2>1, <2>2, Zenon DEF Reasons, NoLostWakeup, empty, full
<1>13. ASSUME NEW p \in Proc, kill(p) PROVE Reasons' /\ NoLostWakeup'
  BY <1>13 DEF kill, Goto, pipe, Reasons, NoLostWakeup, empty, full
<1>14. ASSUME NEW p \in Proc, fileclose(p) PROVE Reasons' /\ NoLostWakeup'
  <2>1. /\ at[p] = "idle" /\ at'[p] \in {"gone", "close"} /\ Same
        /\ \A q \in Proc \ {p} : at'[q] = at[q]
    BY <1>14 DEF fileclose, Goto, pipe
  <2>2. (empty' <=> empty) /\ (full' <=> full)
    BY <2>1 DEF empty, full
  <2>3. Reasons'
    BY <2>1, <2>2 DEF Reasons
  <2>4. NoLostWakeup'
    BY <2>1, <2>2, Zenon DEF NoLostWakeup
  <2> QED BY <2>3, <2>4
<1>15. ASSUME NEW p \in Proc, pipeclose(p) PROVE Reasons' /\ NoLostWakeup'
  <2>1. \A q \in Proc : ~Holds(q)
    BY <1>15 DEF pipeclose, Places
  <2>2. /\ at'[p] = "gone" /\ UNCHANGED <<nread, nwrite, killed>>
        /\ \A q \in Proc \ {p} : at'[q] = at[q] \/ (at[q] = "asleep" /\ at'[q] = "lock")
    BY <1>15 DEF pipeclose, wakeup
  <2>3. CASE p \in Writer
    <3>1. \A r \in Reader : at'[r] # "asleep"
      BY <1>15, <2>3 DEF pipeclose, wakeup
    <3>2. \A w \in Writer : at'[w] = "gone"
      BY <1>15, <2>3 DEF pipeclose, Ends, EndOK
    <3> QED BY <2>1, <2>2, <3>1, <3>2, Zenon DEF Reasons, NoLostWakeup, Holds
  <2>4. CASE p \in Reader
    <3>1. \A w \in Writer : at'[w] # "asleep"
      BY <1>15, <2>4 DEF pipeclose, wakeup
    <3>2. \A r \in Reader : at'[r] = "gone"
      BY <1>15, <2>4 DEF pipeclose, Ends, EndOK
    <3> QED BY <2>1, <2>2, <3>1, <3>2, Zenon DEF Reasons, NoLostWakeup, Holds
  <2> QED BY <2>3, <2>4
<1> QED
  BY <1>1, <1>2, <1>3, <1>4, <1>5, <1>7, <1>8, <1>9, <1>10, <1>11, <1>12, <1>13, <1>14, <1>15
  DEF Next, Step

-----------------------------------------------------------------------------
\* The inductive invariant holds in every reachable state of the pipe.
THEOREM Invariance == Spec => []IInv
<1>1. IInv /\ [Next]_vars => IInv'
  <2>1. CASE UNCHANGED vars
    BY <2>1 DEF vars, IInv, TypeOK, Places, Holds, Ends, EndOK, Reasons, NoLostWakeup, empty, full
  <2>2. CASE Next
    BY <2>2, TypeStep, PlacesStep, EndsStep, WaitStep DEF IInv
  <2> QED BY <2>1, <2>2
<1> QED BY <1>1, InitIInv, PTL DEF Spec

\* The fields of struct pipe and the places of its users keep their types: nread
\* and nwrite stay uints when pipewrite() and piperead() count them up.
THEOREM PipeTypes == Spec => []TypeOK
BY Invariance, PTL DEF IInv

\* No reader and no writer sleeps in pipe.c without a reason, save a reader whose
\* writer was killed: the wakeup()s of pipewrite(), piperead() and pipeclose() reach it.
THEOREM PipeNoLostWakeup == Spec => []NoLostWakeup
BY Invariance, PTL DEF IInv

\* pipeclose() frees the pipe only when no process is left that could use it.
THEOREM PipeNoUseAfterFree == Spec => []NoUseAfterFree
<1>1. IInv => NoUseAfterFree
  BY DEF IInv, Ends, EndOK, NoUseAfterFree, Proc
<1> QED BY <1>1, Invariance, PTL

-----------------------------------------------------------------------------
\* The remainder is the only one.
LEMMA ModUnique ==
  ASSUME NEW n \in Nat \ {0}, NEW q \in Int, NEW r \in 0 .. n - 1
  PROVE  (q * n + r) % n = r
<1> DEFINE a == q * n + r
           d == a \div n
           m == a % n
<1>0. a \in Int
  OBVIOUS
<1>1. d \in Int /\ m \in 0 .. n - 1 /\ a = n * d + m
  BY <1>0
<1>2. q * n + r = n * d + m
  BY <1>1
<1> HIDE DEF a, d, m
<1>3. n * (q - d) = m - r
  BY <1>1, <1>2
<1>4. ASSUME q - d >= 1 PROVE FALSE
  <2>1. n * (q - d) >= n
    BY <1>1, <1>4
  <2> QED BY <1>1, <1>3, <2>1
<1>5. ASSUME q - d <= -1 PROVE FALSE
  <2>1. n * (q - d) <= -n
    BY <1>1, <1>5
  <2> QED BY <1>1, <1>3, <2>1
<1>6. q - d = 0
  BY <1>1, <1>4, <1>5
<1>7. m = r
  BY <1>1, <1>3, <1>6
<1> QED BY <1>7 DEF m, a

\* Remainders of numbers less than 2n away from zero.
LEMMA ModSmall ==
  ASSUME NEW n \in Nat \ {0}
  PROVE  /\ \A a \in 0 .. n - 1 : a % n = a
         /\ \A a \in n .. 2 * n - 1 : a % n = a - n
         /\ \A a \in -n .. -1 : a % n = a + n
<1>1. ASSUME NEW a \in 0 .. n - 1 PROVE a % n = a
  <2>1. (0 * n + a) % n = a
    BY ModUnique
  <2> QED BY <2>1
<1>2. ASSUME NEW a \in n .. 2 * n - 1 PROVE a % n = a - n
  <2>1. a - n \in 0 .. n - 1 /\ 1 * n + (a - n) = a
    OBVIOUS
  <2>2. (1 * n + (a - n)) % n = a - n
    BY <2>1, ModUnique
  <2> QED BY <2>1, <2>2
<1>3. ASSUME NEW a \in -n .. -1 PROVE a % n = a + n
  <2>1. a + n \in 0 .. n - 1 /\ (-1) * n + (a + n) = a
    OBVIOUS
  <2>2. ((-1) * n + (a + n)) % n = a + n
    BY <2>1, ModUnique
  <2> QED BY <2>1, <2>2
<1> QED BY <1>1, <1>2, <1>3

\* A multiple of n does not change an index modulo n.
LEMMA ModMultiple ==
  ASSUME NEW n \in Nat \ {0}, NEW u \in Nat, u % n = 0, NEW a \in Int
  PROVE  (a + u) % n = a % n
<1> DEFINE k == u \div n
           d == a \div n
           m == a % n
<1>1. k \in Int /\ u = n * k
  OBVIOUS
<1>2. d \in Int /\ m \in 0 .. n - 1 /\ a = n * d + m
  OBVIOUS
<1> HIDE DEF k, d, m
<1>3. a + u = (d + k) * n + m
  BY <1>1, <1>2
<1>4. ((d + k) * n + m) % n = m
  BY <1>1, <1>2, ModUnique
<1> QED BY <1>3, <1>4 DEF m

\* Indices less than n apart are different places.
LEMMA ModDiffers ==
  ASSUME NEW n \in Nat \ {0}, NEW a \in Int, NEW b \in Int, b - a \in 1 .. n - 1
  PROVE  a % n # b % n
<1> DEFINE d == a \div n
           e == b \div n
           m == a % n
           l == b % n
<1>1. d \in Int /\ m \in 0 .. n - 1 /\ a = n * d + m
  OBVIOUS
<1>2. e \in Int /\ l \in 0 .. n - 1 /\ b = n * e + l
  OBVIOUS
<1> HIDE DEF d, e, m, l
<1>3. SUFFICES ASSUME m = l PROVE FALSE
  BY DEF m, l
<1>4. n * (e - d) = b - a
  BY <1>1, <1>2, <1>3
<1>5. ASSUME e - d >= 1 PROVE FALSE
  <2>1. n * (e - d) >= n
    BY <1>1, <1>2, <1>5
  <2> QED BY <1>4, <2>1
<1>6. ASSUME e - d <= 0 PROVE FALSE
  <2>1. n * (e - d) <= 0
    BY <1>1, <1>2, <1>6
  <2> QED BY <1>4, <2>1
<1> QED BY <1>1, <1>2, <1>5, <1>6

-----------------------------------------------------------------------------
\* The bytes counted by uints r and w, and the slot of data a uint names.
Held(r, w) == (w - r) % UintMod
Slot(n) == n % PIPESIZE

\* What is in a pipe's data or in the console's buffer.
Symbol == Byte \cup {"x", "\n", "^D"}

\* The bytes in a pipe whose fields are d, r and w, oldest first.
Bytes(d, r, w) == [i \in 1 .. Held(r, w) |-> d[Slot(r + i - 1)]]

\* What is needed of the sizes but that one divides the other.
LEMMA SizeLemma ==
  /\ PIPESIZE \in Nat \ {0}
  /\ UintMod \in Nat \ {0}
  /\ PIPESIZE < UintMod
BY PipeAssumption

\* The difference of two uints, and counting one up, with the cases that wrap.
LEMMA WrapLemma ==
  ASSUME NEW r \in 0 .. UintMod - 1, NEW w \in 0 .. UintMod - 1
  PROVE  /\ w >= r => Held(r, w) = w - r
         /\ w < r => Held(r, w) = w - r + UintMod
         /\ Next32(w) = IF w = UintMod - 1 THEN 0 ELSE w + 1
<1>1. ASSUME w >= r PROVE Held(r, w) = w - r
  <2>1. w - r \in 0 .. UintMod - 1
    BY <1>1, SizeLemma
  <2>2. (w - r) % UintMod = w - r
    BY <2>1, SizeLemma, ModSmall
  <2> QED BY <2>2 DEF Held
<1>2. ASSUME w < r PROVE Held(r, w) = w - r + UintMod
  <2>1. w - r \in -UintMod .. -1
    BY <1>2, SizeLemma
  <2>2. (w - r) % UintMod = w - r + UintMod
    BY <2>1, SizeLemma, ModSmall
  <2> QED BY <2>2 DEF Held
<1>3. CASE w = UintMod - 1
  <2>1. w + 1 \in UintMod .. 2 * UintMod - 1 /\ w + 1 - UintMod = 0
    BY <1>3, SizeLemma
  <2>2. (w + 1) % UintMod = 0
    BY <2>1, SizeLemma, ModSmall
  <2> QED BY <1>1, <1>2, <1>3, <2>2 DEF Next32
<1>4. CASE w # UintMod - 1
  <2>1. w + 1 \in 0 .. UintMod - 1
    BY <1>4, SizeLemma
  <2>2. (w + 1) % UintMod = w + 1
    BY <2>1, SizeLemma, ModSmall, Zenon
  <2> QED BY <1>1, <1>2, <1>4, <2>2 DEF Next32
<1> QED BY <1>3, <1>4

\* The difference of the two uints counts the bytes, wrapped around or not: equal
\* uints mean none, and counting a uint up adds or takes one.
LEMMA CountLemma ==
  ASSUME NEW r \in 0 .. UintMod - 1, NEW w \in 0 .. UintMod - 1
  PROVE  /\ Held(r, w) \in Nat /\ Held(r, w) < UintMod
         /\ Held(r, w) = 0 <=> r = w
         /\ w = r + Held(r, w) \/ w + UintMod = r + Held(r, w)
         /\ Held(r, w) < UintMod - 1 => Held(r, Next32(w)) = Held(r, w) + 1
         /\ Held(r, w) > 0 => Held(Next32(r), w) = Held(r, w) - 1
<1>1. /\ Held(r, w) \in Nat /\ Held(r, w) < UintMod
      /\ Held(r, w) = 0 <=> r = w
      /\ w = r + Held(r, w) \/ w + UintMod = r + Held(r, w)
  <2>1. CASE w >= r
    <3>1. Held(r, w) = w - r
      BY <2>1, WrapLemma
    <3> QED BY <2>1, <3>1, SizeLemma
  <2>2. CASE w < r
    <3>1. Held(r, w) = w - r + UintMod
      BY <2>2, WrapLemma
    <3> QED BY <2>2, <3>1, SizeLemma
  <2> QED BY <2>1, <2>2, SizeLemma
<1>2. Held(r, w) < UintMod - 1 => Held(r, Next32(w)) = Held(r, w) + 1
  <2>1. Next32(w) \in 0 .. UintMod - 1
    BY UintLemma
  <2>2. /\ Next32(w) >= r => Held(r, Next32(w)) = Next32(w) - r
        /\ Next32(w) < r => Held(r, Next32(w)) = Next32(w) - r + UintMod
    BY <2>1, WrapLemma
  <2> QED BY <2>1, <2>2, SizeLemma, WrapLemma
<1>3. Held(r, w) > 0 => Held(Next32(r), w) = Held(r, w) - 1
  <2>1. Next32(r) \in 0 .. UintMod - 1
    BY UintLemma
  <2>2. /\ w >= Next32(r) => Held(Next32(r), w) = w - Next32(r)
        /\ w < Next32(r) => Held(Next32(r), w) = w - Next32(r) + UintMod
    BY <2>1, WrapLemma
  <2>3. Next32(r) = IF r = UintMod - 1 THEN 0 ELSE r + 1
    BY WrapLemma
  <2> QED BY <2>1, <2>2, <2>3, SizeLemma, WrapLemma
<1> QED BY <1>1, <1>2, <1>3

\* The test of pipewrite() for a full pipe: PIPESIZE bytes.
LEMMA FullLemma ==
  ASSUME NEW r \in 0 .. UintMod - 1, NEW w \in 0 .. UintMod - 1
  PROVE  Held(r, w) = PIPESIZE <=> w = (r + PIPESIZE) % UintMod
<1>0. (w >= r => Held(r, w) = w - r) /\ (w < r => Held(r, w) = w - r + UintMod)
  BY WrapLemma
<1>1. CASE r + PIPESIZE < UintMod
  <2>1. r + PIPESIZE \in 0 .. UintMod - 1
    BY <1>1, SizeLemma
  <2>2. (r + PIPESIZE) % UintMod = r + PIPESIZE
    BY <2>1, SizeLemma, ModSmall
  <2>3. Held(r, w) = PIPESIZE <=> w = r + PIPESIZE
    BY <1>0, <1>1, SizeLemma
  <2> QED BY <2>2, <2>3
<1>2. CASE r + PIPESIZE >= UintMod
  <2>1. PICK a \in UintMod .. 2 * UintMod - 1 : a = r + PIPESIZE
    BY <1>2, SizeLemma
  <2>2. a % UintMod = a - UintMod
    BY SizeLemma, ModSmall
  <2>3. Held(r, w) = PIPESIZE <=> w = a - UintMod
    BY <1>0, <1>2, <2>1, SizeLemma
  <2>4. (r + PIPESIZE) % UintMod = a % UintMod
    BY <2>1, Zenon
  <2> QED BY <2>2, <2>3, <2>4
<1> QED BY <1>1, <1>2, SizeLemma

\* The slot a uint names does not change when the uint wraps around, as PIPESIZE
\* divides 2^32: the next byte goes after the last one, and after nread++ the
\* second byte is the first.
LEMMA SlotLemma ==
  ASSUME NEW r \in 0 .. UintMod - 1, NEW w \in 0 .. UintMod - 1
  PROVE  /\ Slot(w) = Slot(r + Held(r, w))
         /\ \A i \in Nat : Slot(Next32(r) + i - 1) = Slot(r + i)
<1>0. ASSUME NEW a \in Int PROVE Slot(a + UintMod) = Slot(a)
  <2>1. PIPESIZE \in Nat \ {0} /\ UintMod \in Nat /\ UintMod % PIPESIZE = 0
    BY PipeAssumption
  <2>2. (a + UintMod) % PIPESIZE = a % PIPESIZE
    BY <2>1, ModMultiple, Zenon
  <2> QED BY <2>2 DEF Slot
<1>1. Slot(w) = Slot(r + Held(r, w))
  <2>1. CASE w = r + Held(r, w)
    BY <2>1
  <2>2. CASE w + UintMod = r + Held(r, w)
    <3>1. w \in Int
      BY SizeLemma
    <3>2. Slot(w + UintMod) = Slot(w)
      BY <1>0, <3>1
    <3> QED BY <2>2, <3>2
  <2> QED BY <2>1, <2>2, CountLemma
<1>2. ASSUME NEW i \in Nat PROVE Slot(Next32(r) + i - 1) = Slot(r + i)
  <2>1. CASE r # UintMod - 1
    <3>1. Next32(r) = r + 1
      BY <2>1, WrapLemma
    <3>2. Next32(r) + i - 1 = r + i
      BY <3>1, SizeLemma
    <3> QED BY <3>2
  <2>2. CASE r = UintMod - 1
    <3>1. Next32(r) = 0
      BY <2>2, WrapLemma
    <3>2. i - 1 \in Int /\ (i - 1) + UintMod = r + i /\ Next32(r) + i - 1 = i - 1
      BY <2>2, <3>1, SizeLemma
    <3>3. Slot((i - 1) + UintMod) = Slot(i - 1)
      BY <1>0, <3>2
    <3> QED BY <3>2, <3>3
  <2> QED BY <2>1, <2>2
<1> QED BY <1>1, <1>2

\* A slot is an index of data, and slots less than PIPESIZE apart differ.
LEMMA DistinctLemma ==
  ASSUME NEW a \in Int
  PROVE  /\ Slot(a) \in 0 .. PIPESIZE - 1
         /\ \A b \in Int : b - a \in 1 .. PIPESIZE - 1 => Slot(a) # Slot(b)
<1>1. Slot(a) \in 0 .. PIPESIZE - 1
  BY SizeLemma DEF Slot
<1>2. ASSUME NEW b \in Int, b - a \in 1 .. PIPESIZE - 1 PROVE Slot(a) # Slot(b)
  <2>1. a % PIPESIZE # b % PIPESIZE
    BY <1>2, SizeLemma, ModDiffers, Zenon
  <2> QED BY <2>1 DEF Slot
<1> QED BY <1>1, <1>2

\* The bytes in the pipe are a sequence.
LEMMA BytesLemma ==
  ASSUME NEW d \in [0 .. PIPESIZE - 1 -> Symbol],
         NEW r \in 0 .. UintMod - 1, NEW w \in 0 .. UintMod - 1
  PROVE  /\ Held(r, w) \in Nat
         /\ Bytes(d, r, w) \in Seq(Symbol)
         /\ Len(Bytes(d, r, w)) = Held(r, w)
         /\ \A i \in 1 .. Held(r, w) : Bytes(d, r, w)[i] = d[Slot(r + i - 1)]
<1>1. Held(r, w) \in Nat
  BY CountLemma
<1>2. ASSUME NEW i \in 1 .. Held(r, w) PROVE d[Slot(r + i - 1)] \in Symbol
  <2>1. r + i - 1 \in Int
    BY <1>1, SizeLemma
  <2>2. Slot(r + i - 1) \in 0 .. PIPESIZE - 1
    BY <2>1, DistinctLemma, Zenon
  <2> QED BY <2>2
<1>3. Bytes(d, r, w) = [i \in 1 .. Held(r, w) |-> d[Slot(r + i - 1)]]
  BY DEF Bytes
<1> QED BY <1>1, <1>2, <1>3

\* pipewrite()'s assignment to data and nwrite++ append a byte: the slot it
\* overwrites holds none of the bytes still to be read.
LEMMA PutLemma ==
  ASSUME NEW d \in [0 .. PIPESIZE - 1 -> Symbol],
         NEW r \in 0 .. UintMod - 1, NEW w \in 0 .. UintMod - 1,
         Held(r, w) < PIPESIZE, NEW v \in Symbol
  PROVE  Bytes([d EXCEPT ![Slot(w)] = v], r, Next32(w)) = Append(Bytes(d, r, w), v)
<1> DEFINE n == Held(r, w)
           e == [d EXCEPT ![Slot(w)] = v]
           s == Bytes(d, r, w)
           t == Bytes(e, r, Next32(w))
<1>0. Slot(w) \in 0 .. PIPESIZE - 1
  BY SizeLemma, DistinctLemma
<1>1. n \in Nat /\ n < PIPESIZE /\ Held(r, Next32(w)) = n + 1
  <2>1. n \in Nat
    BY CountLemma
  <2>2. n < UintMod - 1
    BY <2>1, SizeLemma
  <2> QED BY <2>1, <2>2, CountLemma
<1>2. /\ s \in Seq(Symbol) /\ Len(s) = n
      /\ \A i \in 1 .. n : s[i] = d[Slot(r + i - 1)]
  BY BytesLemma, Zenon
<1>3. /\ t \in Seq(Symbol) /\ Len(t) = n + 1
      /\ \A i \in 1 .. n + 1 : t[i] = e[Slot(r + i - 1)]
  <2>1. e \in [0 .. PIPESIZE - 1 -> Symbol] /\ Next32(w) \in 0 .. UintMod - 1
    BY UintLemma, Zenon
  <2> HIDE DEF e
  <2>2. /\ t \in Seq(Symbol) /\ Len(t) = Held(r, Next32(w))
        /\ \A i \in 1 .. Held(r, Next32(w)) : t[i] = e[Slot(r + i - 1)]
    BY <2>1, BytesLemma, Zenon
  <2> QED BY <1>1, <2>2
<1>4. Slot(w) = Slot(r + n)
  BY SlotLemma
<1>5. t[n + 1] = v
  <2>1. n + 1 \in 1 .. n + 1 /\ r + (n + 1) - 1 = r + n
    <3> HIDE DEF n
    <3> QED BY <1>1, SizeLemma
  <2>2. t[n + 1] = e[Slot(r + n)]
    BY <1>3, <2>1, Zenon
  <2> QED BY <1>0, <1>4, <2>2
<1>6. ASSUME NEW i \in 1 .. n PROVE t[i] = s[i]
  <2>1. Slot(r + i - 1) # Slot(r + n)
    <3>1. (r + n) - (r + i - 1) \in 1 .. PIPESIZE - 1 /\ r + n \in Int /\ r + i - 1 \in Int
      <4> HIDE DEF n
      <4> QED BY <1>1, SizeLemma
    <3> QED BY <3>1, DistinctLemma
  <2>2. Slot(r + i - 1) \in 0 .. PIPESIZE - 1
    <3>1. r + i - 1 \in Int
      <4> HIDE DEF n
      <4> QED BY <1>1, SizeLemma
    <3> QED BY <3>1, DistinctLemma, Zenon
  <2>3. e[Slot(r + i - 1)] = d[Slot(r + i - 1)]
    BY <1>4, <2>1, <2>2
  <2>4. i \in 1 .. n + 1
    BY <1>1
  <2> QED BY <1>2, <1>3, <2>3, <2>4, Zenon
<1> HIDE DEF n, e, s, t
<1>7. /\ Append(s, v) \in Seq(Symbol) /\ Len(Append(s, v)) = n + 1
      /\ \A i \in 1 .. n + 1 : Append(s, v)[i] = IF i <= n THEN s[i] ELSE v
  BY <1>1, <1>2
<1>8. \A i \in 1 .. n + 1 : t[i] = Append(s, v)[i]
  <2>1. ASSUME NEW i \in 1 .. n + 1 PROVE t[i] = Append(s, v)[i]
    <3>1. CASE i <= n
      <4>1. i \in 1 .. n
        BY <1>1, <3>1
      <4> QED BY <1>6, <1>7, <3>1, <4>1
    <3>2. CASE ~(i <= n)
      <4>1. i = n + 1
        BY <1>1, <3>2
      <4> QED BY <1>5, <1>7, <3>2, <4>1
    <3> QED BY <3>1, <3>2, Zenon
  <2> QED BY <2>1, Zenon
<1>9. t = Append(s, v)
  BY <1>3, <1>7, <1>8, SeqEqual
<1> QED BY <1>9, Zenon DEF s, t, e

\* piperead()'s nread++ takes the oldest byte.
LEMMA GetLemma ==
  ASSUME NEW d \in [0 .. PIPESIZE - 1 -> Symbol],
         NEW r \in 0 .. UintMod - 1, NEW w \in 0 .. UintMod - 1, r # w
  PROVE  /\ Bytes(d, r, w) # <<>>
         /\ Bytes(d, Next32(r), w) = Tail(Bytes(d, r, w))
<1> DEFINE n == Held(r, w)
           s == Bytes(d, r, w)
           t == Bytes(d, Next32(r), w)
<1>1. n \in Nat /\ n > 0 /\ Held(Next32(r), w) = n - 1
  BY CountLemma
<1>2. /\ s \in Seq(Symbol) /\ Len(s) = n
      /\ \A i \in 1 .. n : s[i] = d[Slot(r + i - 1)]
  BY BytesLemma, Zenon
<1>3. /\ t \in Seq(Symbol) /\ Len(t) = n - 1
      /\ \A i \in 1 .. n - 1 : t[i] = d[Slot(Next32(r) + i - 1)]
  <2>1. Next32(r) \in 0 .. UintMod - 1
    BY UintLemma
  <2>2. /\ t \in Seq(Symbol) /\ Len(t) = Held(Next32(r), w)
        /\ \A i \in 1 .. Held(Next32(r), w) : t[i] = d[Slot(Next32(r) + i - 1)]
    BY <2>1, BytesLemma, Zenon
  <2> QED BY <1>1, <2>2
<1>4. ASSUME NEW i \in 1 .. n - 1 PROVE t[i] = s[i + 1]
  <2>1. Slot(Next32(r) + i - 1) = Slot(r + i)
    BY <1>1, SlotLemma
  <2>2. i + 1 \in 1 .. n /\ r + (i + 1) - 1 = r + i
    <3> HIDE DEF n
    <3> QED BY <1>1, SizeLemma
  <2>3. s[i + 1] = d[Slot(r + i)]
    BY <1>2, <2>2
  <2> QED BY <1>3, <2>1, <2>3
<1> HIDE DEF n, s, t
<1>5. s # <<>>
  BY <1>1, <1>2
<1>6. /\ Tail(s) \in Seq(Symbol) /\ Len(Tail(s)) = n - 1
      /\ \A i \in 1 .. n - 1 : Tail(s)[i] = s[i + 1]
  BY <1>1, <1>2, <1>5
<1>7. t = Tail(s)
  BY <1>3, <1>4, <1>6, SeqEqual
<1> QED BY <1>5, <1>7 DEF s, t

-----------------------------------------------------------------------------
\* pipewrite() never gets more than PIPESIZE ahead of piperead().
Bounded == Held(nread, nwrite) <= PIPESIZE

\* Which steps change the pipe.
LEMMA ChangeLemma ==
  ASSUME [Next]_vars
  PROVE  \/ \E p \in Proc : (\E v \in Byte : WriteByte(p, v)) \/ ReadByte(p) \/ pipeclose(p)
         \/ UNCHANGED pipe
<1>1. ASSUME NEW p, \/ Lock(p) \/ WriteFails(p) \/ WriteFull(p) \/ WriteReturns(p)
                   \/ \E n \in 1 .. MaxCount : Call(p, n)
      PROVE  UNCHANGED pipe
  BY <1>1, Zenon DEF Lock, WriteFails, WriteFull, WriteReturns, Call
<1>2. ASSUME NEW p, ReadWaits(p) \/ ReadStarts(p) \/ ReadReturns(p) \/ sleep(p)
      PROVE  UNCHANGED pipe
  BY <1>2, Zenon DEF ReadWaits, ReadStarts, ReadReturns, sleep
<1>3. ASSUME NEW p, kill(p) \/ fileclose(p) PROVE UNCHANGED pipe
  BY <1>3, Zenon DEF kill, fileclose
<1>4. CASE UNCHANGED vars
  BY <1>4 DEF vars, pipe
<1> QED BY <1>1, <1>2, <1>3, <1>4, Zenon DEF Next, Step

\* A step on the counters keeps the bound.
LEMMA BoundedStep ==
  ASSUME TypeOK, Bounded, [Next]_vars
  PROVE  Bounded'
<1>1. ASSUME NEW p \in Proc, NEW v \in Byte, WriteByte(p, v) PROVE Bounded'
  <2>1. nread' = nread /\ nwrite' = Next32(nwrite) /\ ~full
    BY <1>1 DEF WriteByte
  <2>2. /\ Held(nread, nwrite) \in Nat
        /\ Held(nread, nwrite) < PIPESIZE
    <3>1. Held(nread, nwrite) \in Nat /\ Held(nread, nwrite) # PIPESIZE
      BY <2>1, CountLemma, FullLemma DEF TypeOK, full
    <3> QED BY <3>1, SizeLemma DEF Bounded
  <2>3. Held(nread, Next32(nwrite)) = Held(nread, nwrite) + 1
    BY <2>2, CountLemma, SizeLemma DEF TypeOK
  <2> QED BY <2>1, <2>2, <2>3, SizeLemma DEF Bounded
<1>2. ASSUME NEW p \in Proc, ReadByte(p) PROVE Bounded'
  <2>1. nwrite' = nwrite /\ nread' = Next32(nread) /\ nread # nwrite
    BY <1>2 DEF ReadByte, empty
  <2>2. /\ Held(nread, nwrite) \in Nat
        /\ Held(Next32(nread), nwrite) = Held(nread, nwrite) - 1
    BY <2>1, CountLemma DEF TypeOK
  <2> QED BY <2>1, <2>2, SizeLemma DEF Bounded
<1>3. ASSUME UNCHANGED <<nread, nwrite>> PROVE Bounded'
  BY <1>3 DEF Bounded, Held
<1>4. ASSUME NEW p \in Proc, pipeclose(p) PROVE UNCHANGED <<nread, nwrite>>
  BY <1>4 DEF pipeclose
<1>5. UNCHANGED pipe => UNCHANGED <<nread, nwrite>>
  BY DEF pipe
<1> QED BY <1>1, <1>2, <1>3, <1>4, <1>5, ChangeLemma, Zenon

\* Every step on the pipe is a step of the stream of bytes, or none.
LEMMA FifoStep ==
  ASSUME IInv, Bounded, [Next]_vars
  PROVE  [Stream!Next]_(Stream!svars)
<1>0. /\ TypeOK /\ data \in [0 .. PIPESIZE - 1 -> Symbol]
      /\ Contents = Bytes(data, nread, nwrite)
      /\ Contents' = Bytes(data', nread', nwrite')
  BY DEF IInv, TypeOK, Symbol, Contents, Bytes, Held, Slot
<1>1. ASSUME NEW p \in Proc, NEW v \in Byte, WriteByte(p, v) PROVE Stream!Put(v)
  <2>1. /\ nread' = nread /\ nwrite' = Next32(nwrite) /\ ~full
        /\ data' = [data EXCEPT ![Slot(nwrite)] = v]
        /\ UNCHANGED <<readopen, writeopen>>
    BY <1>1 DEF WriteByte, Slot
  <2>2. Held(nread, nwrite) < PIPESIZE
    <3>1. Held(nread, nwrite) \in Nat /\ Held(nread, nwrite) # PIPESIZE
      BY <1>0, <2>1, CountLemma, FullLemma DEF TypeOK, full
    <3> QED BY <3>1, SizeLemma DEF Bounded
  <2>3. Len(Contents) < PIPESIZE
    BY <1>0, <2>2, BytesLemma, Zenon DEF TypeOK
  <2>4. Contents' = Append(Contents, v)
    <3>1. Contents' = Bytes([data EXCEPT ![Slot(nwrite)] = v], nread, Next32(nwrite))
      BY <1>0, <2>1
    <3>2. v \in Symbol
      BY DEF Symbol
    <3> QED BY <1>0, <2>2, <3>1, <3>2, PutLemma, Zenon DEF TypeOK
  <2>5. writeopen
    BY <1>1 DEF WriteByte, IInv, Ends, EndOK
  <2> QED BY <2>1, <2>3, <2>4, <2>5 DEF Stream!Put
<1>2. ASSUME NEW p \in Proc, ReadByte(p) PROVE Stream!Get
  <2>1. /\ nwrite' = nwrite /\ nread' = Next32(nread) /\ nread # nwrite /\ data' = data
        /\ UNCHANGED <<readopen, writeopen>>
    BY <1>2 DEF ReadByte, empty
  <2>2. Contents # <<>> /\ Contents' = Tail(Contents)
    <3>1. Contents' = Bytes(data, Next32(nread), nwrite)
      BY <1>0, <2>1
    <3> QED BY <1>0, <2>1, <3>1, GetLemma DEF TypeOK
  <2>3. readopen
    BY <1>2 DEF ReadByte, IInv, Places, Ends, EndOK
  <2> QED BY <2>1, <2>2, <2>3 DEF Stream!Get
<1>3. ASSUME NEW p \in Proc, pipeclose(p) PROVE Stream!CloseRead \/ Stream!CloseWrite
  <2>1. Contents' = Contents
    BY <1>3 DEF pipeclose, Contents
  <2>2. CASE p \in Writer
    <3>1. writeopen /\ writeopen' = FALSE /\ readopen' = readopen
      BY <1>3, <2>2 DEF pipeclose, IInv, Ends, EndOK
    <3> QED BY <2>1, <3>1 DEF Stream!CloseWrite
  <2>3. CASE p \in Reader
    <3>1. readopen /\ readopen' = FALSE /\ writeopen' = writeopen
      BY <1>3, <2>3, PipeAssumption DEF pipeclose, IInv, Ends, EndOK
    <3> QED BY <2>1, <3>1 DEF Stream!CloseRead
  <2> QED BY <2>2, <2>3 DEF Proc
<1>4. ASSUME UNCHANGED pipe PROVE UNCHANGED Stream!svars
  <2>1. Contents' = Contents /\ readopen' = readopen /\ writeopen' = writeopen
    BY <1>4 DEF pipe, Contents
  <2> QED BY <2>1 DEF Stream!svars
<1>5. \/ \E p \in Proc : (\E v \in Byte : WriteByte(p, v)) \/ ReadByte(p) \/ pipeclose(p)
      \/ UNCHANGED pipe
  BY ChangeLemma
<1> QED BY <1>1, <1>2, <1>3, <1>4, <1>5 DEF Stream!Next

\* A pipe is a first-in first-out stream of at most PIPESIZE bytes, whatever the
\* readers, the writers, kill() and pipeclose() do and however often the uints
\* nread and nwrite wrap around.
THEOREM PipeFifo == Spec => Fifo
<1>1. Init => Bounded /\ Stream!Init
  <2> SUFFICES ASSUME Init PROVE Bounded /\ Stream!Init
    OBVIOUS
  <2>1. TypeOK /\ nread = 0 /\ nwrite = 0
    BY InitIInv DEF Init, IInv
  <2>2. Held(nread, nwrite) = 0
    BY <2>1, CountLemma DEF TypeOK
  <2>3. Bounded
    BY <2>2, SizeLemma DEF Bounded
  <2>4. Contents = <<>>
    BY <2>1, <2>2, BytesLemma DEF TypeOK, Symbol, Contents, Bytes, Held, Slot
  <2> QED BY <2>3, <2>4 DEF Init, Stream!Init
<1>2. IInv /\ Bounded /\ [Next]_vars => Bounded'
  BY BoundedStep DEF IInv
<1>3. IInv /\ Bounded /\ [Next]_vars => [Stream!Next]_(Stream!svars)
  BY FifoStep
<1> QED BY <1>1, <1>2, <1>3, Invariance, PTL DEF Spec, Fifo, Stream!Spec
-----------------------------------------------------------------------------
(***************************************************************************)
(* The ring of console input has three uints: between r and w is what      *)
(* readers may take, between w and e what may still be erased.             *)
(***************************************************************************)
InOrder(r, w, e) == Held(r, w) + Held(w, e) = Held(r, e) /\ Held(r, e) <= PIPESIZE

\* A slot is the same 2^32 later.
LEMMA PeriodLemma ==
  ASSUME NEW a \in Int
  PROVE  Slot(a + UintMod) = Slot(a)
<1>1. PIPESIZE \in Nat \ {0} /\ UintMod \in Nat /\ UintMod % PIPESIZE = 0
  BY PipeAssumption
<1>2. (a + UintMod) % PIPESIZE = a % PIPESIZE
  BY <1>1, ModMultiple, Zenon
<1> QED BY <1>2 DEF Slot

\* Counting a uint down by no more than the bytes behind it takes them away.
LEMMA BackLemma ==
  ASSUME NEW r \in 0 .. UintMod - 1, NEW w \in 0 .. UintMod - 1, NEW n \in 0 .. Held(r, w)
  PROVE  /\ (w - n) % UintMod \in 0 .. UintMod - 1
         /\ Held(r, (w - n) % UintMod) = Held(r, w) - n
<1>0. /\ w >= r => Held(r, w) = w - r
      /\ w < r => Held(r, w) = w - r + UintMod
      /\ Held(r, w) \in Nat /\ Held(r, w) < UintMod
  BY WrapLemma, CountLemma
<1>1. n \in Nat /\ n <= Held(r, w) /\ n < UintMod
  BY <1>0, SizeLemma
<1>2. CASE w >= n
  <2>1. w - n \in 0 .. UintMod - 1
    BY <1>1, <1>2, SizeLemma
  <2>2. (w - n) % UintMod = w - n
    BY <2>1, SizeLemma, ModSmall, Zenon
  <2>3. /\ w - n >= r => Held(r, w - n) = w - n - r
        /\ w - n < r => Held(r, w - n) = w - n - r + UintMod
    BY <2>1, WrapLemma
  <2>4. Held(r, w - n) = Held(r, w) - n
    BY <1>0, <1>1, <2>1, <2>3, SizeLemma
  <2> QED BY <2>1, <2>2, <2>4
<1>3. CASE w < n
  <2>1. w - n \in -UintMod .. -1 /\ w - n + UintMod \in 0 .. UintMod - 1
    BY <1>1, <1>3, SizeLemma
  <2>2. (w - n) % UintMod = w - n + UintMod
    BY <2>1, SizeLemma, ModSmall, Zenon
  <2>3. w < r /\ w - n + UintMod >= r
    BY <1>0, <1>1, <1>3, SizeLemma
  <2>4. PICK x \in 0 .. UintMod - 1 : x = w - n + UintMod
    BY <2>1
  <2>5. Held(r, x) = x - r
    BY <2>3, <2>4, WrapLemma
  <2>6. x - r = Held(r, w) - n
    BY <1>0, <1>1, <2>3, <2>4, SizeLemma
  <2>7. (w - n) % UintMod = x
    BY <2>2, <2>4
  <2> QED BY <2>5, <2>6, <2>7, Zenon
<1> QED BY <1>1, <1>2, <1>3, SizeLemma

\* The three uints stay in order when one is moved as the console moves it.
LEMMA OrderLemma ==
  ASSUME NEW r \in 0 .. UintMod - 1, NEW w \in 0 .. UintMod - 1, NEW e \in 0 .. UintMod - 1,
         InOrder(r, w, e)
  PROVE  /\ Held(r, w) \in Nat /\ Held(w, e) \in Nat /\ Held(r, e) \in Nat
         /\ Held(r, e) < PIPESIZE =>
              /\ InOrder(r, w, Next32(e)) /\ InOrder(r, Next32(e), Next32(e))
              /\ Held(Next32(e), Next32(e)) = 0
         /\ r # w => InOrder(Next32(r), w, e)
         /\ \A n \in 0 .. Held(w, e) : InOrder(r, w, (e - n) % UintMod)
<1>0. /\ Held(r, w) \in Nat /\ Held(w, e) \in Nat /\ Held(r, e) \in Nat
      /\ Held(r, w) + Held(w, e) = Held(r, e) /\ Held(r, e) <= PIPESIZE
  BY CountLemma DEF InOrder
<1>1. ASSUME Held(r, e) < PIPESIZE
      PROVE  /\ InOrder(r, w, Next32(e)) /\ InOrder(r, Next32(e), Next32(e))
             /\ Held(Next32(e), Next32(e)) = 0
  <2>1. Held(r, e) < UintMod - 1 /\ Held(w, e) < UintMod - 1
    BY <1>0, <1>1, SizeLemma
  <2>2. Held(r, Next32(e)) = Held(r, e) + 1 /\ Held(w, Next32(e)) = Held(w, e) + 1
    BY <2>1, CountLemma
  <2>3. Next32(e) \in 0 .. UintMod - 1
    BY UintLemma
  <2>4. Held(Next32(e), Next32(e)) = 0
    BY <2>3, CountLemma
  <2> QED BY <1>0, <1>1, <2>2, <2>4, SizeLemma DEF InOrder
<1>2. ASSUME r # w PROVE InOrder(Next32(r), w, e)
  <2>1. Held(r, w) > 0 /\ Held(r, e) > 0
    BY <1>0, <1>2, CountLemma
  <2>2. Held(Next32(r), w) = Held(r, w) - 1 /\ Held(Next32(r), e) = Held(r, e) - 1
    BY <2>1, CountLemma
  <2> QED BY <1>0, <2>2, SizeLemma DEF InOrder
<1>3. ASSUME NEW n \in 0 .. Held(w, e) PROVE InOrder(r, w, (e - n) % UintMod)
  <2>1. n \in 0 .. Held(r, e) /\ n \in Nat
    BY <1>0
  <2>2. /\ Held(w, (e - n) % UintMod) = Held(w, e) - n
        /\ Held(r, (e - n) % UintMod) = Held(r, e) - n
    BY <2>1, BackLemma
  <2> QED BY <1>0, <2>1, <2>2, SizeLemma DEF InOrder
<1> QED BY <1>0, <1>1, <1>2, <1>3

\* Counting the last uint down cuts off the youngest bytes.
LEMMA PrefixLemma ==
  ASSUME NEW d \in [0 .. PIPESIZE - 1 -> Symbol],
         NEW r \in 0 .. UintMod - 1, NEW w \in 0 .. UintMod - 1, NEW n \in 0 .. Held(r, w)
  PROVE  /\ Held(r, w) - n \in 0 .. Len(Bytes(d, r, w))
         /\ Bytes(d, r, (w - n) % UintMod) = SubSeq(Bytes(d, r, w), 1, Held(r, w) - n)
<1> DEFINE h == Held(r, w)
           x == (w - n) % UintMod
           s == Bytes(d, r, w)
           t == Bytes(d, r, x)
<1>1. h \in Nat /\ n \in Nat /\ h - n \in 0 .. h /\ x \in 0 .. UintMod - 1 /\ Held(r, x) = h - n
  <2>1. h \in Nat
    BY CountLemma
  <2>2. x \in 0 .. UintMod - 1 /\ Held(r, x) = h - n
    BY BackLemma
  <2> HIDE DEF h, x
  <2>3. n \in 0 .. h
    BY DEF h
  <2> QED BY <2>1, <2>2, <2>3
<1>2. /\ s \in Seq(Symbol) /\ Len(s) = h
      /\ \A i \in 1 .. h : s[i] = d[Slot(r + i - 1)]
  BY BytesLemma, Zenon
<1>3. /\ t \in Seq(Symbol) /\ Len(t) = h - n
      /\ \A i \in 1 .. h - n : t[i] = d[Slot(r + i - 1)]
  <2> HIDE DEF h, x
  <2>1. /\ t \in Seq(Symbol) /\ Len(t) = Held(r, x)
        /\ \A i \in 1 .. Held(r, x) : t[i] = d[Slot(r + i - 1)]
    BY <1>1, BytesLemma, Zenon
  <2> QED BY <1>1, <2>1
<1> HIDE DEF h, s, t, x
<1>4. /\ SubSeq(s, 1, h - n) \in Seq(Symbol) /\ Len(SubSeq(s, 1, h - n)) = h - n
      /\ \A i \in 1 .. h - n : SubSeq(s, 1, h - n)[i] = s[i]
  BY <1>1, <1>2
<1>5. \A i \in 1 .. h - n : t[i] = SubSeq(s, 1, h - n)[i]
  <2> SUFFICES ASSUME NEW i \in 1 .. h - n PROVE t[i] = s[i]
    BY <1>4
  <2>1. i \in 1 .. h
    BY <1>1
  <2> QED BY <1>2, <1>3, <2>1, Zenon
<1>6. t = SubSeq(s, 1, h - n)
  BY <1>3, <1>4, <1>5, SeqEqual
<1> QED BY <1>1, <1>2, <1>6 DEF h, s, t, x

\* The bytes up to the last uint are those up to the one between and those after it.
LEMMA JoinLemma ==
  ASSUME NEW d \in [0 .. PIPESIZE - 1 -> Symbol],
         NEW r \in 0 .. UintMod - 1, NEW w \in 0 .. UintMod - 1, NEW e \in 0 .. UintMod - 1,
         InOrder(r, w, e)
  PROVE  Bytes(d, r, e) = Bytes(d, r, w) \o Bytes(d, w, e)
<1> DEFINE h == Held(r, w)
           k == Held(w, e)
           s == Bytes(d, r, w)
           t == Bytes(d, w, e)
           u == Bytes(d, r, e)
<1>1. h \in Nat /\ k \in Nat /\ Held(r, e) = h + k
  BY OrderLemma DEF InOrder
<1>2. /\ s \in Seq(Symbol) /\ Len(s) = h
      /\ \A i \in 1 .. h : s[i] = d[Slot(r + i - 1)]
  BY BytesLemma, Zenon
<1>3. /\ t \in Seq(Symbol) /\ Len(t) = k
      /\ \A i \in 1 .. k : t[i] = d[Slot(w + i - 1)]
  BY BytesLemma, Zenon
<1>4. /\ u \in Seq(Symbol) /\ Len(u) = h + k
      /\ \A i \in 1 .. h + k : u[i] = d[Slot(r + i - 1)]
  <2>1. /\ u \in Seq(Symbol) /\ Len(u) = Held(r, e)
        /\ \A i \in 1 .. Held(r, e) : u[i] = d[Slot(r + i - 1)]
    BY BytesLemma, Zenon
  <2> QED BY <1>1, <2>1
<1>5. w = r + h \/ w + UintMod = r + h
  BY CountLemma
<1> HIDE DEF h, k, s, t, u
<1>6. ASSUME NEW i \in 1 .. k PROVE Slot(r + (h + i) - 1) = Slot(w + i - 1)
  <2>1. w + i - 1 \in Int
    BY <1>1, SizeLemma
  <2>2. r + (h + i) - 1 = w + i - 1 \/ r + (h + i) - 1 = (w + i - 1) + UintMod
    BY <1>1, <1>5, SizeLemma
  <2> QED BY <2>1, <2>2, PeriodLemma
<1>7. /\ s \o t \in Seq(Symbol) /\ Len(s \o t) = h + k
      /\ \A i \in 1 .. h + k : (s \o t)[i] = IF i <= h THEN s[i] ELSE t[i - h]
  BY <1>2, <1>3, ConcatProperties, Zenon
<1>8. \A i \in 1 .. h + k : u[i] = (s \o t)[i]
  <2> SUFFICES ASSUME NEW i \in 1 .. h + k PROVE u[i] = IF i <= h THEN s[i] ELSE t[i - h]
    BY <1>7
  <2>1. CASE i <= h
    <3>1. i \in 1 .. h
      BY <1>1, <2>1
    <3> QED BY <1>2, <1>4, <2>1, <3>1
  <2>2. CASE ~(i <= h)
    <3>1. i - h \in 1 .. k /\ h + (i - h) = i
      BY <1>1, <2>2
    <3>2. Slot(r + (h + (i - h)) - 1) = Slot(w + (i - h) - 1)
      BY <1>6, <3>1
    <3>3. t[i - h] = d[Slot(w + (i - h) - 1)] /\ u[i] = d[Slot(r + i - 1)]
      BY <1>3, <1>4, <3>1
    <3> QED BY <2>2, <3>1, <3>2, <3>3
  <2> QED BY <2>1, <2>2
<1>9. u = s \o t
  BY <1>4, <1>7, <1>8, SeqEqual, Zenon
<1> QED BY <1>9 DEF s, t, u

\* A byte put after the last uint overwrites none that is ready.
LEMMA KeepLemma ==
  ASSUME NEW d \in [0 .. PIPESIZE - 1 -> Symbol], NEW v \in Symbol,
         NEW r \in 0 .. UintMod - 1, NEW w \in 0 .. UintMod - 1, NEW e \in 0 .. UintMod - 1,
         InOrder(r, w, e), Held(r, e) < PIPESIZE
  PROVE  Bytes([d EXCEPT ![Slot(e)] = v], r, w) = Bytes(d, r, w)
<1>1. /\ Held(r, w) \in Nat /\ Held(r, e) \in Nat /\ Held(r, w) <= Held(r, e)
      /\ Held(r, e) < PIPESIZE
  <2>1. Held(r, w) \in Nat /\ Held(w, e) \in Nat /\ Held(r, e) \in Nat
    BY OrderLemma
  <2> QED BY <2>1 DEF InOrder
<1>2. ASSUME NEW i \in 1 .. Held(r, w)
      PROVE  [d EXCEPT ![Slot(e)] = v][Slot(r + i - 1)] = d[Slot(r + i - 1)]
  <2>1. /\ r + i - 1 \in Int /\ r + Held(r, e) \in Int
        /\ (r + Held(r, e)) - (r + i - 1) \in 1 .. PIPESIZE - 1
    BY <1>1, SizeLemma
  <2>2. Slot(r + i - 1) # Slot(r + Held(r, e)) /\ Slot(r + i - 1) \in 0 .. PIPESIZE - 1
    BY <2>1, DistinctLemma
  <2>3. Slot(e) = Slot(r + Held(r, e))
    BY SlotLemma
  <2> QED BY <2>2, <2>3
<1> QED BY <1>2 DEF Bytes

\* The characters between two uints, as Console writes them.
LEMMA RingLemma ==
  ASSUME NEW d, NEW i \in 0 .. UintMod - 1, NEW j \in 0 .. UintMod - 1
  PROVE  [n \in 1 .. Held(i, j) |-> d[((i + (n - 1)) % UintMod) % PIPESIZE]] = Bytes(d, i, j)
<1>1. Held(i, j) \in Nat /\ Held(i, j) < UintMod
  BY CountLemma
<1>2. ASSUME NEW n \in 1 .. Held(i, j)
      PROVE  ((i + (n - 1)) % UintMod) % PIPESIZE = Slot(i + n - 1)
  <2>1. PICK a \in 0 .. 2 * UintMod - 1 : a = i + (n - 1) /\ a = i + n - 1
    BY <1>1, SizeLemma
  <2>2. CASE a < UintMod
    <3>1. a \in 0 .. UintMod - 1
      BY <2>2, SizeLemma
    <3>2. a % UintMod = a
      BY <3>1, SizeLemma, ModSmall
    <3> QED BY <2>1, <3>2 DEF Slot
  <2>3. CASE a >= UintMod
    <3>1. a \in UintMod .. 2 * UintMod - 1 /\ a - UintMod \in Int /\ (a - UintMod) + UintMod = a
      BY <2>3, SizeLemma
    <3>2. a % UintMod = a - UintMod
      BY <3>1, SizeLemma, ModSmall, Zenon
    <3>3. Slot((a - UintMod) + UintMod) = Slot(a - UintMod)
      BY <3>1, PeriodLemma
    <3> QED BY <2>1, <3>1, <3>2, <3>3 DEF Slot
  <2> QED BY <2>2, <2>3, SizeLemma
<1> QED BY <1>2, Zenon DEF Bytes

\* A character after both parts of a text is one after the second.
LEMMA AppendJoin ==
  ASSUME NEW s \in Seq(Symbol), NEW t \in Seq(Symbol), NEW c \in Symbol
  PROVE  Append(s \o t, c) = s \o Append(t, c)
<1> DEFINE a == Append(s \o t, c)
           b == s \o Append(t, c)
<1>1. s \o t \in Seq(Symbol) /\ Append(t, c) \in Seq(Symbol)
  OBVIOUS
<1>2. a \in Seq(Symbol) /\ b \in Seq(Symbol) /\ Len(a) = Len(b)
  OBVIOUS
<1>3. \A i \in 1 .. Len(a) : a[i] = b[i]
  OBVIOUS
<1> QED BY <1>2, <1>3, SeqEqual, Zenon

-----------------------------------------------------------------------------
(***************************************************************************)
(* Console.  Its ring may have any size, so PIPESIZE stands for INPUT_BUF. *)
(***************************************************************************)
VARIABLES buf, r, w, e, lock, target

Cons == INSTANCE Console WITH INPUT_BUF <- PIPESIZE

\* struct input with the uints i, j and k: a ring, and the uints in order.
Input(d, i, j, k) ==
  /\ d \in [0 .. PIPESIZE - 1 -> Cons!Char]
  /\ i \in 0 .. UintMod - 1 /\ j \in 0 .. UintMod - 1 /\ k \in 0 .. UintMod - 1
  /\ InOrder(i, j, k)

\* A reader in its loop has cons.lock, so one that is about to sleep still has its
\* reason, as consoleintr() waits for the lock.
Readers ==
  /\ lock \in Reader \cup {NoProc}
  /\ at \in [Reader -> {"idle", "lock", "loop", "sleep", "asleep"}]
  /\ left \in [Reader -> 0 .. MaxCount] /\ target \in [Reader -> 0 .. MaxCount]
  /\ killed \in [Reader -> BOOLEAN]
  /\ \A p \in Reader : left[p] <= target[p]
  /\ \A p \in Reader : lock = p <=> at[p] \in {"loop", "sleep"}
  /\ \A p \in Reader : at[p] = "sleep" => r = w

InputInv == Input(buf, r, w, e) /\ Readers /\ Cons!NoLostInput

\* What is in the ring is what LineInput calls ready and editing.
LEMMA TextLemma ==
  ASSUME Input(buf, r, w, e)
  PROVE  /\ Cons!Between(r, w) = Bytes(buf, r, w)
         /\ Cons!Between(w, e) = Bytes(buf, w, e)
<1>1. /\ [n \in 1 .. Held(r, w) |-> buf[((r + (n - 1)) % UintMod) % PIPESIZE]] = Bytes(buf, r, w)
      /\ [n \in 1 .. Held(w, e) |-> buf[((w + (n - 1)) % UintMod) % PIPESIZE]] = Bytes(buf, w, e)
  BY RingLemma, Zenon DEF Input
<1> QED BY <1>1, Zenon DEF Cons!Between, Cons!Minus, Cons!Plus, Held

\* The same of the next state.
LEMMA TextAfter ==
  ASSUME Input(buf, r, w, e)'
  PROVE  /\ Cons!Between(r, w)' = Bytes(buf', r', w')
         /\ Cons!Between(w, e)' = Bytes(buf', w', e')
<1>1. /\ [n \in 1 .. Held(r', w') |-> buf'[((r' + (n - 1)) % UintMod) % PIPESIZE]]
           = Bytes(buf', r', w')
      /\ [n \in 1 .. Held(w', e') |-> buf'[((w' + (n - 1)) % UintMod) % PIPESIZE]]
           = Bytes(buf', w', e')
  BY RingLemma, Zenon DEF Input
<1> QED BY <1>1, Zenon DEF Cons!Between, Cons!Minus, Cons!Plus, Held

\* struct input is what the lemmas about rings are about.
LEMMA InputLemma ==
  ASSUME Input(buf, r, w, e)
  PROVE  /\ buf \in [0 .. PIPESIZE - 1 -> Symbol]
         /\ Bytes(buf, r, w) \in Seq(Symbol) /\ Len(Bytes(buf, r, w)) = Held(r, w)
         /\ Bytes(buf, w, e) \in Seq(Symbol) /\ Len(Bytes(buf, w, e)) = Held(w, e)
         /\ Held(r, w) \in Nat /\ Held(w, e) \in Nat /\ Held(r, e) \in Nat
         /\ Held(r, w) + Held(w, e) = Held(r, e)
<1>1. buf \in [0 .. PIPESIZE - 1 -> Symbol]
  BY DEF Input, Cons!Char, Symbol
<1> QED BY <1>1, BytesLemma, OrderLemma, Zenon DEF Input, InOrder

\* A character typed by itself, or as the last of its line.
LEMMA KeyStep ==
  ASSUME InputInv, NEW c \in Cons!Char, Cons!consoleintr(c)
  PROVE  /\ Input(buf, r, w, e)'
         /\ Cons!Lines!Type(c) \/ Cons!Lines!TypeLast(c)
<1>0. Input(buf, r, w, e) /\ c \in Symbol
  BY DEF InputInv, Cons!Char, Symbol
<1>1. /\ buf' = [buf EXCEPT ![Slot(e)] = c] /\ r' = r /\ e' = Next32(e)
      /\ w' = w \/ w' = Next32(e)
      /\ Held(r, e) < PIPESIZE
  BY Zenon DEF Cons!consoleintr, Cons!Room, Cons!Minus, Cons!Plus, Held, Slot, Next32
<1>2. Slot(e) \in 0 .. PIPESIZE - 1 /\ Next32(e) \in 0 .. UintMod - 1
  <2>1. e \in Int /\ e \in 0 .. UintMod - 1
    BY <1>0, SizeLemma DEF Input
  <2> QED BY <2>1, DistinctLemma, UintLemma
<1>3. /\ InOrder(r, w, Next32(e)) /\ InOrder(r, Next32(e), Next32(e))
      /\ Held(Next32(e), Next32(e)) = 0
  BY <1>0, <1>1, OrderLemma, Zenon DEF Input
<1>4. Input(buf, r, w, e)'
  <2>1. buf' \in [0 .. PIPESIZE - 1 -> Cons!Char]
    BY <1>0, <1>1, <1>2 DEF Input
  <2> QED BY <1>0, <1>1, <1>2, <1>3, <2>1, Zenon DEF Input
<1>5. /\ Cons!Between(r, w) = Bytes(buf, r, w) /\ Cons!Between(w, e) = Bytes(buf, w, e)
      /\ Cons!Between(r, w)' = Bytes(buf', r', w') /\ Cons!Between(w, e)' = Bytes(buf', w', e')
  BY <1>0, <1>4, TextLemma, TextAfter
<1>6. /\ buf \in [0 .. PIPESIZE - 1 -> Symbol]
      /\ Bytes(buf, r, w) \in Seq(Symbol) /\ Len(Bytes(buf, r, w)) = Held(r, w)
      /\ Bytes(buf, w, e) \in Seq(Symbol) /\ Len(Bytes(buf, w, e)) = Held(w, e)
      /\ Held(r, w) \in Nat /\ Held(w, e) \in Nat /\ Held(r, e) \in Nat
      /\ Held(r, w) + Held(w, e) = Held(r, e)
  BY <1>0, InputLemma
<1>p. /\ r \in 0 .. UintMod - 1 /\ w \in 0 .. UintMod - 1 /\ e \in 0 .. UintMod - 1
      /\ InOrder(r, w, e)
  BY <1>0 DEF Input
<1>q. c \in Symbol /\ buf \in [0 .. PIPESIZE - 1 -> Symbol]
  BY <1>0, <1>6
<1>7. Len(Cons!Between(r, w)) + Len(Cons!Between(w, e)) < PIPESIZE
  BY <1>1, <1>5, <1>6
<1>8. CASE w' = w
  <2>1. Held(w, e) < PIPESIZE
    BY <1>1, <1>6, SizeLemma
  <2>2. Bytes([buf EXCEPT ![Slot(e)] = c], w, Next32(e)) = Append(Bytes(buf, w, e), c)
    <3>1. w \in 0 .. UintMod - 1 /\ e \in 0 .. UintMod - 1
      BY <1>p
    <3> QED BY <1>q, <2>1, <3>1, PutLemma, ZenonT(30)
  <2>3. Bytes([buf EXCEPT ![Slot(e)] = c], r, w) = Bytes(buf, r, w)
    BY <1>1, <1>p, <1>q, KeepLemma, ZenonT(30)
  <2>4. /\ Cons!Between(w, e)' = Append(Cons!Between(w, e), c)
        /\ Cons!Between(r, w)' = Cons!Between(r, w)
    BY <1>1, <1>5, <1>8, <2>2, <2>3, Zenon
  <2> QED BY <1>4, <1>7, <2>4, Zenon DEF Cons!Lines!Type
<1>9. CASE w' = Next32(e)
  <2>1. Bytes([buf EXCEPT ![Slot(e)] = c], r, Next32(e)) = Append(Bytes(buf, r, e), c)
    <3>1. r \in 0 .. UintMod - 1 /\ e \in 0 .. UintMod - 1 /\ Held(r, e) < PIPESIZE
      BY <1>1, <1>p
    <3> QED BY <1>q, <3>1, PutLemma, ZenonT(30)
  <2>2. Bytes(buf, r, e) = Bytes(buf, r, w) \o Bytes(buf, w, e)
    BY <1>p, <1>q, JoinLemma, ZenonT(30)
  <2>3. Append(Bytes(buf, r, w) \o Bytes(buf, w, e), c)
          = Bytes(buf, r, w) \o Append(Bytes(buf, w, e), c)
    BY <1>6, <1>q, AppendJoin, Zenon
  <2>4. Bytes(buf', Next32(e), Next32(e)) = <<>>
    BY <1>3 DEF Bytes
  <2>5. /\ Cons!Between(r, w)' = Cons!Between(r, w) \o Append(Cons!Between(w, e), c)
        /\ Cons!Between(w, e)' = <<>>
    BY <1>1, <1>5, <1>9, <2>1, <2>2, <2>3, <2>4, Zenon
  <2> QED BY <1>4, <1>7, <2>5, Zenon DEF Cons!Lines!TypeLast
<1> QED BY <1>1, <1>8, <1>9

\* Backspace and kill-line take characters from the line that is edited.
LEMMA EraseStep ==
  ASSUME InputInv, Cons!Backspace \/ Cons!KillLine
  PROVE  Input(buf, r, w, e)' /\ Cons!Lines!Erase
<1>0. Input(buf, r, w, e)
  BY DEF InputInv
<1>1. /\ buf \in [0 .. PIPESIZE - 1 -> Symbol]
      /\ Bytes(buf, w, e) \in Seq(Symbol) /\ Len(Bytes(buf, w, e)) = Held(w, e)
      /\ Held(w, e) \in Nat
  BY <1>0, InputLemma
<1>2. PICK n \in 0 .. Held(w, e) : e' = (e - n) % UintMod
  <2>1. CASE Cons!Backspace
    <3>1. e # w /\ e' = (e - 1) % UintMod
      BY <2>1 DEF Cons!Backspace, Cons!Minus
    <3>2. Held(w, e) # 0
      BY <1>0, <3>1, CountLemma, Zenon DEF Input
    <3>3. 1 \in 0 .. Held(w, e)
      BY <1>1, <3>2
    <3> QED BY <3>1, <3>3, Zenon
  <2>2. CASE Cons!KillLine
    BY <2>2, Zenon DEF Cons!KillLine, Cons!Minus, Held
  <2> QED BY <2>1, <2>2
<1>3. buf' = buf /\ r' = r /\ w' = w
  BY DEF Cons!Backspace, Cons!KillLine
<1>4. /\ e' \in 0 .. UintMod - 1 /\ InOrder(r, w, e')
  BY <1>0, <1>2, BackLemma, OrderLemma, Zenon DEF Input
<1>5. Input(buf, r, w, e)'
  BY <1>0, <1>3, <1>4, Zenon DEF Input
<1>6. /\ Cons!Between(r, w) = Bytes(buf, r, w) /\ Cons!Between(w, e) = Bytes(buf, w, e)
      /\ Cons!Between(r, w)' = Bytes(buf', r', w') /\ Cons!Between(w, e)' = Bytes(buf', w', e')
  BY <1>0, <1>5, TextLemma, TextAfter
<1>7. /\ Held(w, e) - n \in 0 .. Len(Bytes(buf, w, e))
      /\ Bytes(buf, w, e') = SubSeq(Bytes(buf, w, e), 1, Held(w, e) - n)
  BY <1>0, <1>2, <1>1, PrefixLemma, Zenon DEF Input
<1>8. /\ Cons!Between(r, w)' = Cons!Between(r, w)
      /\ \E m \in 0 .. Len(Cons!Between(w, e)) :
           Cons!Between(w, e)' = SubSeq(Cons!Between(w, e), 1, m)
  BY <1>3, <1>6, <1>7, Zenon
<1> QED BY <1>5, <1>8, Zenon DEF Cons!Lines!Erase

\* consoleread() takes the oldest character that is ready, or leaves a ^D there.
LEMMA TakeStep ==
  ASSUME InputInv, NEW p \in Reader, Cons!Take(p)
  PROVE  Input(buf, r, w, e)' /\ (Cons!Lines!Take \/ UNCHANGED Cons!Lines!lvars)
<1>0. Input(buf, r, w, e)
  BY DEF InputInv
<1>1. buf' = buf /\ w' = w /\ e' = e /\ r # w /\ (r' = r \/ r' = Next32(r))
  BY Zenon DEF Cons!Take, Cons!EndOfFile, Cons!Plus, Next32
<1>2. CASE r' = r
  <2>1. Input(buf, r, w, e)'
    BY <1>0, <1>1, <1>2, Zenon DEF Input
  <2>2. Cons!Between(w, e)' = Cons!Between(w, e) /\ Cons!Between(r, w)' = Cons!Between(r, w)
    BY <1>0, <1>1, <1>2, <2>1, TextLemma, TextAfter, Zenon
  <2> QED BY <2>1, <2>2, Zenon DEF Cons!Lines!lvars
<1>3. CASE r' = Next32(r)
  <2>1. Input(buf, r, w, e)'
    <3>1. Next32(r) \in 0 .. UintMod - 1 /\ InOrder(Next32(r), w, e)
      BY <1>0, <1>1, UintLemma, OrderLemma, Zenon DEF Input
    <3> QED BY <1>0, <1>1, <1>3, <3>1, Zenon DEF Input
  <2>2. Bytes(buf, r, w) # <<>> /\ Bytes(buf, Next32(r), w) = Tail(Bytes(buf, r, w))
    BY <1>0, <1>1, InputLemma, GetLemma, Zenon DEF Input
  <2>3. /\ Cons!Between(r, w) # <<>> /\ Cons!Between(r, w)' = Tail(Cons!Between(r, w))
        /\ Cons!Between(w, e)' = Cons!Between(w, e)
    BY <1>0, <1>1, <1>3, <2>1, <2>2, TextLemma, TextAfter, Zenon
  <2> QED BY <2>1, <2>3, Zenon DEF Cons!Lines!Take
<1> QED BY <1>1, <1>2, <1>3

\* Which steps change struct input.
LEMMA InputStep ==
  ASSUME InputInv, [Cons!Next]_(Cons!vars)
  PROVE  Input(buf, r, w, e)' /\ [Cons!Lines!Next]_(Cons!Lines!lvars)
<1>1. ASSUME UNCHANGED <<buf, r, w, e>>
      PROVE  Input(buf, r, w, e)' /\ UNCHANGED Cons!Lines!lvars
  <2>1. Input(buf, r, w, e)'
    BY <1>1, Zenon DEF InputInv, Input
  <2>2. Cons!Between(w, e)' = Cons!Between(w, e) /\ Cons!Between(r, w)' = Cons!Between(r, w)
    BY <1>1, <2>1, TextLemma, TextAfter, Zenon DEF InputInv
  <2> QED BY <2>1, <2>2, Zenon DEF Cons!Lines!lvars
<1>2. ASSUME NEW p \in Reader,
             \/ Cons!Lock(p) \/ Cons!Wait(p) \/ Cons!sleep(p) \/ Cons!Return(p) \/ Cons!kill(p)
             \/ \E n \in 1 .. MaxCount : Cons!Call(p, n)
      PROVE  UNCHANGED <<buf, r, w, e>>
  BY <1>2, Zenon DEF Cons!Lock, Cons!Wait, Cons!sleep, Cons!Return, Cons!kill, Cons!Call
<1>3. CASE UNCHANGED Cons!vars
  BY <1>1, <1>3, Zenon DEF Cons!vars
<1>4. CASE Cons!Next
  <2>1. ASSUME NEW c \in Cons!Char, Cons!consoleintr(c)
        PROVE  Input(buf, r, w, e)' /\ Cons!Lines!Next
    BY <2>1, KeyStep, Zenon DEF Cons!Lines!Next
  <2>2. CASE Cons!Backspace \/ Cons!KillLine
    BY <2>2, EraseStep, Zenon DEF Cons!Lines!Next
  <2>3. ASSUME NEW p \in Reader, Cons!Take(p)
        PROVE  Input(buf, r, w, e)' /\ [Cons!Lines!Next]_(Cons!Lines!lvars)
    BY <2>3, TakeStep, Zenon DEF Cons!Lines!Next
  <2> QED BY <1>1, <1>2, <1>4, <2>1, <2>2, <2>3, Zenon DEF Cons!Next, Cons!Step
<1> QED BY <1>3, <1>4

\* Every step keeps what is said of the readers: the lock keeps r and w as they are
\* between the test of a reader and its sleep, and new input wakes all sleepers.
LEMMA ReadersStep ==
  ASSUME InputInv, [Cons!Next]_(Cons!vars)
  PROVE  Readers' /\ Cons!NoLostInput'
<1> USE PipeAssumption
<1>i. Readers /\ Cons!NoLostInput
  BY DEF InputInv
<1>n. 0 \in 0 .. MaxCount /\ \A n \in 1 .. MaxCount : n \in 0 .. MaxCount /\ n - 1 \in 0 .. MaxCount
  OBVIOUS
<1>0. ASSUME NEW p \in Reader, Cons!Done(p), lock = p, UNCHANGED killed,
             r' = r \/ \A q \in Reader : at[q] # "asleep", w' = w
      PROVE  Readers' /\ Cons!NoLostInput'
  <2>1. /\ lock' = NoProc /\ at' = [at EXCEPT ![p] = "idle"]
        /\ left' = [left EXCEPT ![p] = 0] /\ target' = [target EXCEPT ![p] = 0]
    BY <1>0 DEF Cons!Done, Cons!Goto
  <2>2. at'[p] = "idle" /\ \A q \in Reader \ {p} : at'[q] = at[q] /\ at[q] \notin {"loop", "sleep"}
    BY <1>0, <1>i, <2>1 DEF Readers
  <2>3. Readers'
    BY <1>0, <1>i, <1>n, <2>1, <2>2 DEF Readers
  <2> QED BY <1>0, <1>i, <2>2, <2>3 DEF Cons!NoLostInput
<1>1. ASSUME NEW c \in Cons!Char, Cons!consoleintr(c) PROVE Readers' /\ Cons!NoLostInput'
  <2>1. /\ lock = NoProc /\ r' = r /\ UNCHANGED <<lock, left, target, killed>>
        /\ \/ w' = w /\ at' = at
           \/ at' = [p \in Reader |-> IF at[p] = "asleep" THEN "lock" ELSE at[p]]
    BY <1>1, Zenon DEF Cons!consoleintr, Cons!wakeup
  <2>2. CASE w' = w /\ at' = at
    BY <1>i, <2>1, <2>2, Zenon DEF Readers, Cons!NoLostInput
  <2>3. CASE at' = [p \in Reader |-> IF at[p] = "asleep" THEN "lock" ELSE at[p]]
    <3>1. \A p \in Reader : at[p] \notin {"loop", "sleep"}
      BY <1>i, <2>1 DEF Readers
    <3>2. /\ at' \in [Reader -> {"idle", "lock", "loop", "sleep", "asleep"}]
          /\ \A p \in Reader : at'[p] \notin {"loop", "sleep", "asleep"}
      BY <1>i, <2>3, <3>1 DEF Readers
    <3> QED BY <1>i, <2>1, <3>2 DEF Readers, Cons!NoLostInput
  <2> QED BY <2>1, <2>2, <2>3
<1>2. CASE Cons!Backspace \/ Cons!KillLine
  <2>1. UNCHANGED <<r, w, lock, at, left, target, killed>>
    BY <1>2, Zenon DEF Cons!Backspace, Cons!KillLine
  <2> QED BY <1>i, <2>1, Zenon DEF Readers, Cons!NoLostInput
<1>3. ASSUME NEW p \in Reader, NEW n \in 1 .. MaxCount, Cons!Call(p, n)
      PROVE  Readers' /\ Cons!NoLostInput'
  BY <1>i, <1>n, <1>3 DEF Readers, Cons!NoLostInput, Cons!Call, Cons!Goto
<1>4. ASSUME NEW p \in Reader, Cons!Lock(p) PROVE Readers' /\ Cons!NoLostInput'
  BY <1>i, <1>4 DEF Readers, Cons!NoLostInput, Cons!Lock, Cons!Goto
<1>5. ASSUME NEW p \in Reader, Cons!Wait(p) PROVE Readers' /\ Cons!NoLostInput'
  <2>1. lock = p /\ r = w /\ UNCHANGED <<r, w, killed>>
    BY <1>i, <1>5 DEF Readers, Cons!Wait
  <2>2. CASE Cons!Done(p)
    BY <1>0, <2>1, <2>2
  <2>3. CASE Cons!Goto(p, "sleep") /\ UNCHANGED <<lock, left, target>>
    BY <1>i, <2>1, <2>3 DEF Readers, Cons!NoLostInput, Cons!Goto
  <2> QED BY <1>5, <2>2, <2>3 DEF Cons!Wait
<1>6. ASSUME NEW p \in Reader, Cons!sleep(p) PROVE Readers' /\ Cons!NoLostInput'
  <2>1. lock = p /\ r = w /\ UNCHANGED <<r, w, killed, left, target>>
    BY <1>i, <1>6 DEF Readers, Cons!sleep
  <2> QED BY <1>i, <1>6, <2>1 DEF Readers, Cons!NoLostInput, Cons!sleep, Cons!Goto
<1>7. ASSUME NEW p \in Reader, Cons!Take(p) PROVE Readers' /\ Cons!NoLostInput'
  <2>1. lock = p /\ r # w /\ w' = w /\ UNCHANGED killed /\ left[p] > 0 /\ at[p] = "loop"
    BY <1>i, <1>7 DEF Readers, Cons!Take
  <2>2. \A q \in Reader : at[q] \notin {"asleep", "sleep"}
    BY <1>i, <2>1 DEF Readers, Cons!NoLostInput
  <2>3. CASE Cons!Done(p)
    BY <1>0, <2>1, <2>2, <2>3
  <2>4. CASE left' = [left EXCEPT ![p] = @ - 1] /\ UNCHANGED <<lock, at, target>>
    <3>1. left' \in [Reader -> 0 .. MaxCount] /\ \A q \in Reader : left'[q] <= target'[q]
      BY <1>i, <2>1, <2>4 DEF Readers
    <3> QED BY <1>i, <2>1, <2>2, <2>4, <3>1 DEF Readers, Cons!NoLostInput
  <2> QED BY <1>7, <2>3, <2>4 DEF Cons!Take
<1>8. ASSUME NEW p \in Reader, Cons!Return(p) PROVE Readers' /\ Cons!NoLostInput'
  <2>1. lock = p /\ Cons!Done(p) /\ UNCHANGED <<r, w, killed>>
    BY <1>i, <1>8 DEF Readers, Cons!Return
  <2> QED BY <1>0, <2>1
<1>9. ASSUME NEW p \in Reader, Cons!kill(p) PROVE Readers' /\ Cons!NoLostInput'
  BY <1>i, <1>9 DEF Readers, Cons!NoLostInput, Cons!kill, Cons!Goto
<1>10. CASE UNCHANGED Cons!vars
  BY <1>i, <1>10, Zenon DEF Readers, Cons!NoLostInput, Cons!vars
<1> QED
  BY <1>1, <1>2, <1>3, <1>4, <1>5, <1>6, <1>7, <1>8, <1>9, <1>10, Zenon DEF Cons!Next, Cons!Step

\* At first nothing was typed and nobody reads.
LEMMA InitInput == Cons!Init => InputInv /\ Cons!Lines!Init
<1> SUFFICES ASSUME Cons!Init PROVE InputInv /\ Cons!Lines!Init
  OBVIOUS
<1>1. 0 \in 0 .. UintMod - 1 /\ 0 \in 0 .. MaxCount
  BY PipeAssumption
<1>2. Held(0, 0) = 0
  BY <1>1, CountLemma
<1>3. Input(buf, r, w, e)
  <2>1. buf \in [0 .. PIPESIZE - 1 -> Cons!Char] /\ r = 0 /\ w = 0 /\ e = 0
    BY DEF Cons!Init, Cons!Char
  <2>2. InOrder(0, 0, 0)
    BY <1>2, SizeLemma DEF InOrder
  <2> QED BY <1>1, <2>1, <2>2, Zenon DEF Input
<1>4. Readers /\ Cons!NoLostInput
  BY <1>1, PipeAssumption DEF Cons!Init, Readers, Cons!NoLostInput
<1>5. Bytes(buf, 0, 0) = <<>>
  BY <1>2 DEF Bytes
<1>6. Cons!Between(w, e) = <<>> /\ Cons!Between(r, w) = <<>>
  BY <1>3, <1>5, TextLemma, Zenon DEF Cons!Init
<1> QED BY <1>3, <1>4, <1>6 DEF InputInv, Cons!Lines!Init

\* The invariant of console input.
THEOREM InputInvariance == Cons!Spec => []InputInv
<1>1. InputInv /\ [Cons!Next]_(Cons!vars) => InputInv'
  BY InputStep, ReadersStep DEF InputInv
<1> QED BY <1>1, InitInput, PTL DEF Cons!Spec

\* r, w and e lie in this order within one buffer length, wrapped around or not.
THEOREM ConsoleTypes == Cons!Spec => []Cons!TypeOK
<1>1. ASSUME InputInv PROVE Cons!TypeOK
  <2>1. /\ Cons!Minus(w, r) + Cons!Minus(e, w) = Cons!Minus(e, r)
        /\ Cons!Minus(e, r) <= PIPESIZE
    BY <1>1, Zenon DEF InputInv, Input, InOrder, Held, Cons!Minus
  <2>2. {r, w, e} \subseteq 0 .. UintMod - 1 /\ buf \in [0 .. PIPESIZE - 1 -> Cons!Char]
    BY <1>1 DEF InputInv, Input
  <2>3. \A p \in Reader : 0 <= left[p] /\ left[p] <= target[p] /\ target[p] <= MaxCount
    BY <1>1, PipeAssumption DEF InputInv, Readers
  <2> QED BY <1>1, <2>1, <2>2, <2>3, Zenon DEF InputInv, Readers, Cons!TypeOK
<1> QED BY <1>1, InputInvariance, PTL

\* No reader sleeps in consoleread() while there is committed input.
THEOREM ConsoleNoLostInput == Cons!Spec => []Cons!NoLostInput
<1>1. InputInv => Cons!NoLostInput
  BY DEF InputInv
<1> QED BY <1>1, InputInvariance, PTL

\* Console input is LineInput: what is erased was never committed, and what is
\* committed reaches the readers once and in order, however often the uints wrap.
THEOREM ConsoleLines == Cons!Spec => Cons!LineByLine
<1>1. InputInv /\ [Cons!Next]_(Cons!vars) => [Cons!Lines!Next]_(Cons!Lines!lvars)
  BY InputStep
<1> QED BY <1>1, InitInput, InputInvariance, PTL DEF Cons!Spec, Cons!LineByLine, Cons!Lines!Spec
=============================================================================
