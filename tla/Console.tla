------------------------------ MODULE Console -------------------------------
(***************************************************************************)
(* Console input: consoleintr() and consoleread() of kernel/console.c, with *)
(* the processes that read from the console and may be killed.  A stretch  *)
(* under cons.lock is one step, but for consoleread()'s turns, which keep  *)
(* the lock over their steps.  What is echoed is left out.                 *)
(***************************************************************************)
EXTENDS Integers, Sequences

CONSTANTS
  Reader,      \* processes that read from the console
  NoProc,
  INPUT_BUF,   \* 128
  UintMod,     \* stands for 2^32, a multiple of INPUT_BUF
  MaxCount     \* bound: the count of a read()

\* The keys: a plain character, newline, end of file, kill line, backspace.
Char == {"x", "\n", "^D"}

VARIABLES
  buf, r, w, e,   \* struct input
  lock,           \* cons.lock, while a reader has it
  at,             \* where each reader is
  left,           \* n, what is left of its count
  target,         \* target, its count
  killed

input == <<buf, r, w, e>>
vars == <<buf, r, w, e, lock, at, left, target, killed>>

Init ==
  /\ buf = [i \in 0 .. INPUT_BUF - 1 |-> "x"]
  /\ r = 0 /\ w = 0 /\ e = 0
  /\ lock = NoProc
  /\ at = [p \in Reader |-> "idle"]
  /\ left = [p \in Reader |-> 0]
  /\ target = [p \in Reader |-> 0]
  /\ killed = [p \in Reader |-> FALSE]

Plus(i, n)  == (i + n) % UintMod
Minus(i, n) == (i - n) % UintMod

-----------------------------------------------------------------------------
\* Fault: nobody is told.
wakeupNone == at

\* wakeup(&input.r)
wakeup == [p \in Reader |-> IF at[p] = "asleep" THEN "lock" ELSE at[p]]

Room == Minus(e, r) < INPUT_BUF

\* consoleintr() with a character to keep.
consoleintr(c) ==
  /\ lock = NoProc /\ Room
  /\ buf' = [buf EXCEPT ![e % INPUT_BUF] = c]
  /\ e' = Plus(e, 1)
  /\ IF c \in {"\n", "^D"} \/ Plus(e, 1) = Plus(r, INPUT_BUF)
     THEN w' = Plus(e, 1) /\ at' = wakeup
     ELSE UNCHANGED <<w, at>>
  /\ UNCHANGED <<r, lock, left, target, killed>>

\* Fault: the committed input can be erased.
BackspaceAny ==
  /\ lock = NoProc /\ e # r
  /\ e' = Minus(e, 1)
  /\ UNCHANGED <<buf, r, w, lock, at, left, target, killed>>

\* Backspace.
Backspace ==
  /\ lock = NoProc /\ e # w
  /\ e' = Minus(e, 1)
  /\ UNCHANGED <<buf, r, w, lock, at, left, target, killed>>

\* Kill line: back to the last newline, or to the start of the line.
KillLine ==
  LET stops == {n \in 0 .. Minus(e, w) :
                  n = Minus(e, w) \/ buf[Minus(e, n + 1) % INPUT_BUF] = "\n"}
  IN /\ lock = NoProc /\ e # w
     /\ \E n \in stops : (\A m \in stops : n <= m) /\ e' = Minus(e, n)
     /\ UNCHANGED <<buf, r, w, lock, at, left, target, killed>>

-----------------------------------------------------------------------------
(***************************************************************************)
(* consoleread()                                                           *)
(***************************************************************************)
Goto(p, loc) == at' = [at EXCEPT ![p] = loc]

Call(p, n) ==
  /\ at[p] = "idle" /\ ~killed[p]
  /\ left' = [left EXCEPT ![p] = n]
  /\ target' = [target EXCEPT ![p] = n]
  /\ Goto(p, "lock")
  /\ UNCHANGED <<buf, r, w, e, lock, killed>>

\* acquire(&cons.lock), at first or at the end of sleep().
Lock(p) ==
  /\ at[p] = "lock" /\ lock = NoProc
  /\ lock' = p
  /\ Goto(p, "loop")
  /\ UNCHANGED <<buf, r, w, e, left, target, killed>>

\* release(&cons.lock) and return.
Done(p) ==
  /\ lock' = NoProc
  /\ Goto(p, "idle")
  /\ left' = [left EXCEPT ![p] = 0]
  /\ target' = [target EXCEPT ![p] = 0]

\* Fault: a killed reader goes back to sleep.
WaitKilled(p) ==
  /\ at[p] = "loop" /\ left[p] > 0 /\ r = w
  /\ Goto(p, "sleep")
  /\ UNCHANGED <<buf, r, w, e, lock, left, target, killed>>

\* No input: the read fails if the process is killed, else it calls sleep().
Wait(p) ==
  /\ at[p] = "loop" /\ left[p] > 0 /\ r = w
  /\ IF killed[p] THEN Done(p) ELSE Goto(p, "sleep") /\ UNCHANGED <<lock, left, target>>
  /\ UNCHANGED <<buf, r, w, e, killed>>

\* sleep(&input.r, &cons.lock), which does not look at killed again.
sleep(p) ==
  /\ at[p] = "sleep"
  /\ lock' = NoProc
  /\ Goto(p, "asleep")
  /\ UNCHANGED <<buf, r, w, e, left, target, killed>>

\* The read index after ^D: it is left for the next read() if this one has
\* characters to return.
EndOfFile(p) == IF left[p] < target[p] THEN r ELSE Plus(r, 1)

\* A turn of the loop with input.
Take(p) ==
  LET c == buf[r % INPUT_BUF] IN
  /\ at[p] = "loop" /\ left[p] > 0 /\ r # w
  /\ r' = IF c = "^D" THEN EndOfFile(p) ELSE Plus(r, 1)
  /\ IF c \in {"^D", "\n"} THEN Done(p)
     ELSE left' = [left EXCEPT ![p] = @ - 1] /\ UNCHANGED <<lock, at, target>>
  /\ UNCHANGED <<buf, w, e, killed>>

Return(p) ==
  /\ at[p] = "loop" /\ left[p] = 0
  /\ Done(p)
  /\ UNCHANGED <<buf, r, w, e, killed>>

\* kill(): a sleeper is made runnable.  It takes ptable.lock, so it may come between
\* the test of killed and sleep().
kill(p) ==
  /\ ~killed[p]
  /\ killed' = [killed EXCEPT ![p] = TRUE]
  /\ Goto(p, IF at[p] = "asleep" THEN "lock" ELSE at[p])
  /\ UNCHANGED <<buf, r, w, e, lock, left, target>>

Step(p) == Lock(p) \/ Wait(p) \/ sleep(p) \/ Take(p) \/ Return(p)

Next ==
  \/ Backspace \/ KillLine
  \/ \E c \in Char : consoleintr(c)
  \/ \E p \in Reader : Step(p) \/ kill(p) \/ \E n \in 1 .. MaxCount : Call(p, n)

Spec == Init /\ [][Next]_vars

-----------------------------------------------------------------------------
Between(i, j) == [n \in 1 .. Minus(j, i) |-> buf[Plus(i, n - 1) % INPUT_BUF]]

Lines == INSTANCE LineInput WITH editing <- Between(w, e), ready <- Between(r, w),
                                 Capacity <- INPUT_BUF

(***************************************************************************)
(* Types, and the order of the three indices of struct input, which wrap   *)
(* around as unsigned ints: r, w and e lie in this order within one buffer *)
(* length, whatever consoleintr() and consoleread() do.                    *)
(***************************************************************************)
TypeOK ==
  /\ buf \in [0 .. INPUT_BUF - 1 -> Char]
  /\ {r, w, e} \subseteq 0 .. UintMod - 1
  /\ Minus(w, r) + Minus(e, w) = Minus(e, r) /\ Minus(e, r) <= INPUT_BUF
  /\ lock \in Reader \cup {NoProc}
  /\ at \in [Reader -> {"idle", "lock", "loop", "sleep", "asleep"}]
  /\ \A p \in Reader : 0 <= left[p] /\ left[p] <= target[p] /\ target[p] <= MaxCount

(***************************************************************************)
(* No reader sleeps in consoleread() while committed input waits for it:   *)
(* whichever way the readers share a line, one that sleeps on &input.r     *)
(* sleeps because r = w.                                                   *)
(***************************************************************************)
NoLostInput == (\E p \in Reader : at[p] = "asleep") => r = w

(***************************************************************************)
(* The three wrapping indices into one ring implement LineInput: what      *)
(* backspace and kill-line erase was never committed, what is committed    *)
(* reaches the readers once and in order, and a full ring loses nothing it *)
(* took.                                                                   *)
(***************************************************************************)
LineByLine == Lines!Spec
=============================================================================
