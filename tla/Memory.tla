------------------------------- MODULE Memory -------------------------------
(***************************************************************************)
(* Physical pages: kernel/kalloc.c, the page tables of kernel/vm.c, and    *)
(* the calls that build or tear down an address space: fork, exec, sbrk,   *)
(* exit and wait, with the user ids exec sets.                             *)
(*                                                                         *)
(* kalloc() and kfree() hold kmem.lock, so each is a step and another      *)
(* process may take or give back pages between two of them.  Pages are     *)
(* alike, so they are counted: on the free list, and by every holder.      *)
(* Sizes are in pages.  An address space is its directory, the table pages *)
(* of the kernel's mappings, one table page for the user part, and the     *)
(* user pages.  A program file asks for any number of pages from           *)
(* ImageSizes, and exec may fail for reasons of its own at every test.     *)
(*                                                                         *)
(* deallocuvm() returns the new size and growproc() takes 0 for failure:   *)
(* sbrk(-sz) frees every page, keeps the size and does not reload cr3, so  *)
(* the process may go on for a while with stale translations.              *)
(***************************************************************************)
EXTENDS Integers, FiniteSetsExt

CONSTANTS
  Proc,         \* slots of the process table
  initproc,     \* the slot of the first process
  NPAGE,        \* physical pages
  NKTAB,        \* table pages for the kernel's mappings
  ImageSizes,   \* pages a program file asks for
  MaxSize,      \* bound: pages of a process
  Uid           \* user ids, 0 is the superuser

VARIABLES
  free,       \* the length of kmem.freelistlist
  proc,       \* state, kernel stack, address space, size, user ids; two histories of
              \* the program running: it is a set-user-id file, it did sbrk(-sz)
  job,        \* the call each process is in: what it builds and what it frees
  panicked

vars == <<free, proc, job, panicked>>

NoVm  == [dir |-> 0, ktabs |-> 0, utab |-> 0, pages |-> 0]
NoJob == [op |-> "", at |-> "idle", child |-> initproc, vm |-> NoVm, mem |-> 0, left |-> 0,
          put |-> 0, setuid |-> FALSE]
NoProcess == [state |-> "UNUSED", parent |-> initproc, kstack |-> 0, vm |-> NoVm, sz |-> 0,
              uid |-> 0, euid |-> 0, setuidImage |-> FALSE, emptied |-> FALSE]

PagesOf(vm) == vm.dir + vm.ktabs + vm.utab + vm.pages

\* kinit1(), kinit2(); userinit() has made the first process with one page.
Init ==
  /\ proc = [p \in Proc |-> IF p # initproc THEN NoProcess ELSE
       [NoProcess EXCEPT !.state = "RUNNING", !.kstack = 1, !.sz = 1,
        !.vm = [dir |-> 1, ktabs |-> NKTAB, utab |-> 1, pages |-> 1]]]
  /\ free = NPAGE - (NKTAB + 4)
  /\ job = [p \in Proc |-> NoJob]
  /\ panicked = FALSE

-----------------------------------------------------------------------------
(***************************************************************************)
(* Allocation.                                                             *)
(***************************************************************************)
\* fork's copyuvm() has come to a page that is not there.
Absent(p) == job[p].op = "fork" /\ job[p].at = "page" /\ proc[p].vm.pages < proc[p].sz

Allocating(p) ==
  \/ job[p].at \in {"kstack", "dir", "ktab", "utab"}
  \/ job[p].at = "page" /\ job[p].left > 0 /\ ~Absent(p)

\* A page has been allocated for call j: kstack in allocproc(), dir and ktab in
\* setupkvm(), page in allocuvm() or copyuvm(), utab in walkpgdir() for the first
\* page that is mapped.  sbrk's process has its table page.
Took(j) ==
  CASE j.at = "kstack" -> [j EXCEPT !.at = "dir"]
    [] j.at = "dir"    -> [j EXCEPT !.at = "ktab", !.vm.dir = 1]
    [] j.at = "ktab"   -> [j EXCEPT !.vm.ktabs = @ + 1,
                             !.at = IF j.vm.ktabs + 1 = NKTAB THEN "page" ELSE @]
    [] j.at = "page"   -> IF j.vm.utab = 0 /\ j.op # "sbrk"
                          THEN [j EXCEPT !.at = "utab", !.mem = 1]
                          ELSE [j EXCEPT !.vm.pages = @ + 1, !.left = @ - 1]
    [] j.at = "utab"   -> [j EXCEPT !.at = "page", !.vm.utab = 1, !.mem = 0, !.left = @ - 1,
                             !.vm.pages = @ + 1]

kalloc(p) ==
  /\ Allocating(p) /\ free > 0
  /\ free' = free - 1
  /\ job' = [job EXCEPT ![p] = Took(@)]
  /\ proc' = IF job[p].at = "kstack" THEN [proc EXCEPT ![job[p].child].kstack = 1] ELSE proc

\* Fault: a page that could not be mapped is not freed.
GivenUpMapped(p) ==
  PagesOf(job[p].vm) + IF job[p].op = "fork" THEN proc[job[p].child].kstack ELSE 0

\* What a call that fails frees: what it has built, freevm() or deallocuvm(), the
\* page it could not map, and fork's kernel stack.
GivenUp(p) ==
  PagesOf(job[p].vm) + job[p].mem
    + IF job[p].op = "fork" THEN proc[job[p].child].kstack ELSE 0

\* kalloc() returns 0, or one of exec's tests fails.
GiveUp(p) ==
  /\ \/ Allocating(p) /\ free = 0
     \/ job[p].op = "exec" /\ job[p].at = "page"
  /\ job' = [job EXCEPT ![p] = [NoJob EXCEPT !.at = "put", !.op = job[p].op,
                                             !.child = job[p].child, !.put = GivenUp(p)]]
  /\ proc' = IF job[p].op = "fork" THEN [proc EXCEPT ![job[p].child].kstack = 0] ELSE proc
  /\ UNCHANGED free

kfree(p) ==
  /\ job[p].at = "put" /\ job[p].put > 0
  /\ free' = free + 1
  /\ job' = [job EXCEPT ![p].put = @ - 1]
  /\ UNCHANGED proc

\* The call returns; fork that failed and wait leave the child's slot UNUSED.
putDone(p) ==
  /\ job[p].at = "put" /\ job[p].put = 0
  /\ job' = [job EXCEPT ![p] = NoJob]
  /\ proc' = IF job[p].op \in {"fork", "wait"}
             THEN [proc EXCEPT ![job[p].child] = NoProcess] ELSE proc
  /\ UNCHANGED free

-----------------------------------------------------------------------------
(***************************************************************************)
(* The calls.                                                              *)
(***************************************************************************)
Calls(p) == proc[p].state = "RUNNING" /\ job[p].at = "idle"

\* fork(): allocproc() has found the slot c.
fork(p, c) ==
  /\ Calls(p) /\ proc[c].state = "UNUSED"
  /\ proc' = [proc EXCEPT ![c].state = "EMBRYO"]
  /\ job' = [job EXCEPT ![p] = [NoJob EXCEPT !.op = "fork", !.at = "kstack", !.child = c,
                                             !.left = proc[p].sz]]
  /\ UNCHANGED free

forkDone(p) ==
  LET j == job[p] IN
  /\ j.op = "fork" /\ j.at = "page" /\ j.left = 0
  /\ proc' = [proc EXCEPT ![j.child] =
       [proc[p] EXCEPT !.kstack = proc[j.child].kstack, !.vm = j.vm, !.parent = p]]
  /\ job' = [job EXCEPT ![p] = NoJob]
  /\ UNCHANGED free

\* panic("copyuvm: page not present")
copyuvmPanic(p) ==
  /\ Absent(p)
  /\ panicked' = TRUE
  /\ UNCHANGED <<free, proc, job>>

\* exec() of a file of n pages, after the tests that come before setupkvm().
exec(p, n, setuid) ==
  /\ Calls(p)
  /\ job' = [job EXCEPT ![p] = [NoJob EXCEPT !.op = "exec", !.at = "dir", !.left = n + 2,
                                             !.setuid = setuid]]
  /\ UNCHANGED <<free, proc>>

\* Fault: the effective user id stays.
execDoneKeeps(p) ==
  LET j == job[p] IN
  /\ j.op = "exec" /\ j.at = "page" /\ j.left = 0
  /\ proc' = [proc EXCEPT ![p].vm = j.vm, ![p].sz = j.vm.pages, ![p].setuidImage = j.setuid,
                          ![p].emptied = FALSE,
                          ![p].euid = IF j.setuid THEN 0 ELSE @]
  /\ job' = [job EXCEPT ![p] = [NoJob EXCEPT !.op = "exec", !.at = "put",
                                             !.put = PagesOf(proc[p].vm)]]
  /\ UNCHANGED free

\* Commit to the user image; freevm() of the old one.
execDone(p) ==
  LET j == job[p] IN
  /\ j.op = "exec" /\ j.at = "page" /\ j.left = 0
  /\ proc' = [proc EXCEPT ![p].vm = j.vm, ![p].sz = j.vm.pages, ![p].setuidImage = j.setuid,
                          ![p].emptied = FALSE,
                          ![p].euid = IF j.setuid THEN 0 ELSE proc[p].uid]
  /\ job' = [job EXCEPT ![p] = [NoJob EXCEPT !.op = "exec", !.at = "put",
                                             !.put = PagesOf(proc[p].vm)]]
  /\ UNCHANGED free

\* sbrk(n), n > 0: growproc() and allocuvm().
sbrk(p, n) ==
  /\ Calls(p) /\ proc[p].sz + n <= MaxSize
  /\ job' = [job EXCEPT ![p] = [NoJob EXCEPT !.op = "sbrk", !.at = "page", !.left = n]]
  /\ UNCHANGED <<free, proc>>

sbrkDone(p) ==
  LET j == job[p] IN
  /\ j.op = "sbrk" /\ j.at = "page" /\ j.left = 0
  /\ proc' = [proc EXCEPT ![p].vm.pages = @ + j.vm.pages, ![p].sz = @ + j.vm.pages]
  /\ job' = [job EXCEPT ![p] = NoJob]
  /\ UNCHANGED free

\* Fault: the size is not set.
sbrkDownKeeps(p, n) ==
  LET gone == Min({n, proc[p].vm.pages}) IN
  /\ Calls(p) /\ proc[p].sz >= n
  /\ proc' = [proc EXCEPT ![p].vm.pages = @ - gone, ![p].emptied = @ \/ proc[p].sz = n]
  /\ job' = [job EXCEPT ![p] = [NoJob EXCEPT !.op = "sbrk", !.at = "put", !.put = gone]]
  /\ UNCHANGED free

\* sbrk(-n): deallocuvm() of what is there; a new size of 0 is taken for its failure.
sbrkDown(p, n) ==
  LET keep == proc[p].sz - n
      gone == Min({n, proc[p].vm.pages})
  IN /\ Calls(p) /\ keep >= 0
     /\ proc' = [proc EXCEPT ![p].vm.pages = @ - gone,
                             ![p].sz = IF keep = 0 THEN @ ELSE keep,
                             ![p].emptied = @ \/ keep = 0]
     /\ job' = [job EXCEPT ![p] = [NoJob EXCEPT !.op = "sbrk", !.at = "put", !.put = gone]]
     /\ UNCHANGED free

setuid(p, u) ==
  /\ Calls(p) /\ proc[p].euid = 0
  /\ proc' = [proc EXCEPT ![p].uid = u, ![p].euid = u]
  /\ UNCHANGED <<free, job>>

\* exit(), by its own call or from trap(): memory stays until wait().
exit(p) ==
  /\ p # initproc /\ proc[p].state = "RUNNING" /\ job[p].at = "idle"
  /\ proc' = [q \in Proc |->
       CASE q = p -> [proc[q] EXCEPT !.state = "ZOMBIE"]
         [] q # p /\ proc[q].parent = p -> [proc[q] EXCEPT !.parent = initproc]
         [] OTHER -> proc[q]]
  /\ UNCHANGED <<free, job>>

\* wait() has found the zombie c: kfree() of its kernel stack, freevm().
wait(p, c) ==
  /\ Calls(p) /\ proc[c].state = "ZOMBIE" /\ proc[c].parent = p
  /\ proc' = [proc EXCEPT ![c].kstack = 0, ![c].vm = NoVm]
  /\ job' = [job EXCEPT ![p] = [NoJob EXCEPT !.op = "wait", !.at = "put", !.child = c,
                                  !.put = PagesOf(proc[c].vm) + proc[c].kstack]]
  /\ UNCHANGED free

Next == /\ ~panicked
        /\ \E p \in Proc :
             \/ copyuvmPanic(p)
             \/ /\ \/ kalloc(p) \/ GiveUp(p) \/ kfree(p) \/ putDone(p)
                   \/ forkDone(p) \/ execDone(p) \/ sbrkDone(p) \/ exit(p)
                   \/ \E c \in Proc : fork(p, c) \/ wait(p, c)
                   \/ \E n \in ImageSizes, suid \in BOOLEAN : exec(p, n, suid)
                   \/ \E n \in 1 .. MaxSize : sbrk(p, n) \/ sbrkDown(p, n)
                   \/ \E u \in Uid : setuid(p, u)
                /\ UNCHANGED panicked

Spec == Init /\ [][Next]_vars

-----------------------------------------------------------------------------
(***************************************************************************)
(* Types: every count is what its holder can hold.                         *)
(***************************************************************************)
TypeOK ==
  /\ free \in 0 .. NPAGE
  /\ panicked \in BOOLEAN
  /\ \A p \in Proc :
       /\ proc[p].state \in {"UNUSED", "EMBRYO", "RUNNING", "ZOMBIE"}
       /\ proc[p].kstack \in {0, 1}
       /\ proc[p].uid \in Uid /\ proc[p].euid \in Uid
       /\ {proc[p].vm, job[p].vm} \subseteq
            [dir : {0, 1}, ktabs : 0 .. NKTAB, utab : {0, 1}, pages : 0 .. MaxSize]
       /\ proc[p].sz \in 0 .. MaxSize
       /\ job[p].left \in 0 .. MaxSize /\ job[p].put \in 0 .. NPAGE

Held(p) == PagesOf(proc[p].vm) + proc[p].kstack + PagesOf(job[p].vm) + job[p].mem + job[p].put

(***************************************************************************)
(* No page is lost and none is freed twice: the free list and what the     *)
(* processes hold add up to the memory, also when kalloc() fails in the    *)
(* middle of fork, exec or sbrk because others took the last pages, and    *)
(* while an exec holds its old and its new address space.                  *)
(***************************************************************************)
PagesConserved == free + MapThenSumSet(Held, Proc) = NPAGE

(***************************************************************************)
(* A process that makes a call has every page below its size, which is     *)
(* what copyuvm() relies on, and so its panics are reached only after      *)
(* sbrk(-sz), whose pages are freed though growproc() reports failure.     *)
(***************************************************************************)
SizeMapped ==
  /\ \A p \in Proc : Calls(p) /\ ~proc[p].emptied => proc[p].vm.pages = proc[p].sz
  /\ panicked => \E p \in Proc : proc[p].emptied

(***************************************************************************)
(* A process acts with a user id other than its own only as the superuser  *)
(* and only in a program whose file has the set-user-id bit: the right     *)
(* ends with the next exec, and is not acquired by fork or by an exec that *)
(* fails half way.                                                         *)
(***************************************************************************)
Privileged ==
  \A p \in Proc : proc[p].euid # proc[p].uid => proc[p].euid = 0 /\ proc[p].setuidImage
=============================================================================
