--------------------------------- MODULE Vm ---------------------------------
(***************************************************************************)
(* Physical pages and address spaces: kalloc.c, vm.c, exec.c and the parts *)
(* of proc.c that grow, copy and free an address space.                    *)
(*                                                                         *)
(* A step of a process goes from one kalloc to the next, so that the       *)
(* processes compete for the last pages in every order; freeing a whole    *)
(* address space is one step.  Page contents and access bits are left out. *)
(***************************************************************************)
EXTENDS Integers, Sequences, FiniteSets, FiniteSetsExt, Functions

CONSTANTS
  Procs, Init0,   \* the slots of ptable, and the one userinit takes
  NPages,         \* pages on the free list after kinit2
  NKT,            \* page tables of the kernel part of an address space
  NPD, NPTENTRIES,  \* page tables of the user part, and pages in each
  PGSIZE,         \* bytes in a page
  Programs,       \* executables: the first page and the end address of each segment
  Deltas          \* arguments of sbrk

Pages == 1..NPages
VPages == 0..NPD * NPTENTRIES - 1
KERNBASE == NPD * NPTENTRIES * PGSIZE
PDX(v) == v \div NPTENTRIES
PGROUNDUP(n) == (n + PGSIZE - 1) \div PGSIZE     \* in pages
Uint(n) == n % (2 * KERNBASE)                    \* addresses wrap around

ASSUME VmAssumption ==
  /\ Init0 \in Procs
  /\ NPages \in Nat /\ NKT \in Nat \ {0} /\ NPD \in Nat \ {0}
  /\ NPTENTRIES \in Nat \ {0} /\ PGSIZE \in Nat \ {0}
  /\ Deltas \subseteq Int
  /\ NPages >= NKT + 4

VARIABLES
  free,      \* kmem.freelist
  th,        \* per slot of ptable: the process and where it is in the kernel
  dropped,   \* pages that a failed mappages or setupkvm has forgotten
  panicked   \* the message of panic

vars == <<free, th, dropped, panicked>>

(* Page 0 stands for a null pointer, an entry that is not present. *)
NoSpace == [dir |-> 0, ktabs |-> {}, tab |-> [d \in 0..NPD - 1 |-> 0], pte |-> [v \in VPages |-> 0]]
Unused == [state |-> "UNUSED", sz |-> 0, pgdir |-> NoSpace, kstack |-> 0, pc |-> "user",
           op |-> "none", new |-> NoSpace, mem |-> 0, a |-> 0, old |-> 0, goal |-> 0,
           segs |-> <<>>, child |-> Init0]

(* userinit: allocproc takes a stack, setupkvm and inituvm the rest. *)
Init ==
  /\ th = [p \in Procs |->
       IF p # Init0 THEN Unused
       ELSE [Unused EXCEPT !.state = "RUNNING", !.kstack = 1, !.sz = PGSIZE,
               !.pgdir = [dir |-> 2, ktabs |-> 3..NKT + 2,
                          tab |-> [NoSpace.tab EXCEPT ![0] = NKT + 4],
                          pte |-> [NoSpace.pte EXCEPT ![0] = NKT + 3]]]]
  /\ free = NKT + 5..NPages
  /\ dropped = {} /\ panicked = "no"

Owned(s) == ({s.dir} \cup s.ktabs \cup Range(s.tab) \cup Range(s.pte)) \ {0}

(* kalloc; which page it returns makes no difference. *)
Page == CHOOSE pg \in free : TRUE

Goto(p, t, pc) == th' = [th EXCEPT ![p] = [t EXCEPT !.pc = pc]]
Panic(msg) == panicked' = msg /\ UNCHANGED <<free, th, dropped>>

(* The address space that the loop of allocuvm or copyuvm fills *)
Target(t) == IF t.op = "sbrk" THEN t.pgdir ELSE t.new
SetTarget(t, s) == IF t.op = "sbrk" THEN [t EXCEPT !.pgdir = s] ELSE [t EXCEPT !.new = s]

(* Definitions marked "Faulty" are not part of the specification: each is a plausible
   mistake in the operation that follows it, kept to show that a property notices. *)
-----------------------------------------------------------------------------
(* The pages that deallocuvm looks at: without a page table it skips NPTENTRIES pages from
   where it is. *)
Visited(s, from, oldsz) ==
  LET look[a \in 0..2 * NPD * NPTENTRIES] ==
        IF a * PGSIZE >= oldsz THEN {}
        ELSE IF s.tab[PDX(a)] = 0 THEN look[a + NPTENTRIES]
        ELSE {a} \cup look[a + 1]
  IN  look[from]

(* Faulty: the entries of freed pages stay. *)
DeallocuvmKeep(s, oldsz, newsz) ==
  [space |-> s, pages |-> {s.pte[v] : v \in Visited(s, PGROUNDUP(newsz), oldsz)} \ {0}]

(* deallocuvm: the address space that is left and the pages it gives to kfree *)
Deallocuvm(s, oldsz, newsz) ==
  LET seen == Visited(s, PGROUNDUP(newsz), oldsz)
  IN  [space |-> [s EXCEPT !.pte = [v \in VPages |-> IF v \in seen THEN 0 ELSE s.pte[v]]],
       pages |-> {s.pte[v] : v \in seen} \ {0}]

(* freevm: the pages it gives to kfree *)
Freevm(s) ==
  IF s.dir = 0 THEN {}
  ELSE (Deallocuvm(s, KERNBASE, 0).pages \cup {s.dir} \cup s.ktabs \cup Range(s.tab)) \ {0}

(* The system call of p fails: back to user mode, with its temporary fields cleared. *)
Return(t) == [t EXCEPT !.pc = "user", !.op = "none", !.new = NoSpace, !.mem = 0, !.a = 0,
                       !.old = 0, !.goal = 0, !.segs = <<>>, !.child = Init0]

(* bad: of copyuvm and exec, and what fork does when copyuvm has failed *)
Bad(p, t, avail) ==
  LET c == t.child IN
  IF t.op = "fork"
  THEN /\ th' = [th EXCEPT ![p] = Return(t), ![c] = Unused]
       /\ free' = avail \cup Freevm(t.new) \cup {th[c].kstack}
  ELSE /\ th' = [th EXCEPT ![p] = Return(t)]
       /\ free' = avail \cup Freevm(t.new)
-----------------------------------------------------------------------------
(* A process whose first page is gone takes a page fault at its next instruction. *)
InUser(p) ==
  th[p].state = "RUNNING" /\ th[p].pc = "user" /\ th[p].pgdir.pte[0] # 0 /\ panicked = "no"

At(p, pc) == th[p].state = "RUNNING" /\ th[p].pc = pc /\ panicked = "no"

(* growproc with n < 0: when deallocuvm returns 0 the size is not stored. *)
SbrkShrink(p, n) ==
  LET t == th[p]
      new == Uint(t.sz + n)
      d == Deallocuvm(t.pgdir, t.sz, new) IN
  /\ InUser(p) /\ p # Init0 /\ n < 0
  /\ IF new >= t.sz THEN UNCHANGED vars
     ELSE /\ th' = [th EXCEPT ![p].pgdir = d.space, ![p].sz = IF new = 0 THEN @ ELSE new]
          /\ free' = free \cup d.pages
          /\ UNCHANGED <<dropped, panicked>>

(* growproc with n > 0, up to the first kalloc of allocuvm *)
SbrkGrow(p, n) ==
  LET t == th[p]
      new == Uint(t.sz + n) IN
  /\ InUser(p) /\ p # Init0 /\ n > 0
  /\ IF new >= KERNBASE \/ new < t.sz THEN UNCHANGED vars
     ELSE IF PGROUNDUP(t.sz) * PGSIZE >= new
     THEN /\ th' = [th EXCEPT ![p].sz = new]
          /\ UNCHANGED <<free, dropped, panicked>>
     ELSE /\ Goto(p, [t EXCEPT !.op = "sbrk", !.a = PGROUNDUP(t.sz), !.old = t.sz,
                               !.goal = new], "frame")
          /\ UNCHANGED <<free, dropped, panicked>>

(* sys_sbrk; with n = 0 growproc changes nothing. *)
Sbrk(p, n) == SbrkGrow(p, n) \/ SbrkShrink(p, n)

(* fork and allocproc, up to the allocation of the kernel stack *)
Fork(p, c) ==
  /\ InUser(p) /\ th[c].state = "UNUSED"
  /\ IF free = {} THEN UNCHANGED vars
     ELSE /\ th' = [th EXCEPT
               ![c] = [Unused EXCEPT !.state = "EMBRYO", !.kstack = Page],
               ![p] = [@ EXCEPT !.op = "fork", !.pc = "setupkvm", !.child = c,
                                !.a = 0, !.goal = th[p].sz]]
          /\ free' = free \ {Page}
          /\ UNCHANGED <<dropped, panicked>>

(* exec, up to setupkvm; a file that cannot be found or read changes nothing. *)
Exec(p, prog) ==
  /\ InUser(p)
  /\ Goto(p, [th[p] EXCEPT !.op = "exec", !.segs = prog], "setupkvm")
  /\ UNCHANGED <<free, dropped, panicked>>

(* exit; the address space is freed by the parent. *)
Exit(p) ==
  /\ At(p, "user") /\ p # Init0
  /\ th' = [th EXCEPT ![p].state = "ZOMBIE"]
  /\ UNCHANGED <<free, dropped, panicked>>

(* Faulty: the kernel stack of the child is forgotten. *)
WaitKeepsStack(p, c) ==
  /\ InUser(p) /\ th[c].state = "ZOMBIE"
  /\ free' = free \cup Freevm(th[c].pgdir)
  /\ th' = [th EXCEPT ![c] = Unused]
  /\ UNCHANGED <<dropped, panicked>>

(* wait finds a zombie child. *)
Wait(p, c) ==
  /\ InUser(p) /\ th[c].state = "ZOMBIE"
  /\ free' = free \cup {th[c].kstack} \cup Freevm(th[c].pgdir)
  /\ th' = [th EXCEPT ![c] = Unused]
  /\ UNCHANGED <<dropped, panicked>>
-----------------------------------------------------------------------------
(* exec calls allocuvm to extend the new address space from old to goal. *)
Alloc(t, old, goal, done) ==
  [t EXCEPT !.old = old, !.goal = goal, !.a = PGROUNDUP(old),
            !.pc = IF goal >= KERNBASE \/ goal = 0 THEN "bad"
                   ELSE IF PGROUNDUP(old) * PGSIZE < goal THEN "frame" ELSE done]

(* exec calls allocuvm for the next segment, or for the guard page and the stack. *)
NextSegment(t, sz) ==
  IF t.segs # <<>>
  THEN Alloc(t, sz, Max({sz, t.segs[1][2]}), "load")
  ELSE Alloc(t, PGROUNDUP(sz) * PGSIZE, (PGROUNDUP(sz) + 2) * PGSIZE, "commit")

(* setupkvm takes the page directory, then the page tables of the kernel part; when one is
   missing it forgets those it has. *)
Setupkvm(p) ==
  LET t == th[p] IN
  /\ At(p, "setupkvm")
  /\ IF free = {}
     THEN /\ Bad(p, [t EXCEPT !.new = NoSpace], free)
          /\ dropped' = dropped \cup Owned(t.new)
     ELSE /\ free' = free \ {Page}
          /\ dropped' = dropped
          /\ IF t.new.dir = 0
             THEN th' = [th EXCEPT ![p].new.dir = Page]
             ELSE LET s == [t.new EXCEPT !.ktabs = @ \cup {Page}]
                      u == [t EXCEPT !.new = s]
                  IN  th' = [th EXCEPT ![p] =
                        IF Cardinality(s.ktabs) < NKT THEN u
                        ELSE IF t.op = "fork" THEN [u EXCEPT !.pc = "frame"]
                        ELSE NextSegment(u, 0)]
  /\ UNCHANGED panicked

(* The loop of allocuvm or copyuvm has filled the address space up to goal. *)
Filled(p, t) ==
  CASE t.op = "sbrk" -> [th EXCEPT ![p] = Return([t EXCEPT !.sz = t.goal])]
    [] t.op = "fork" -> [th EXCEPT ![p] = Return(t),
                                   ![t.child] = [@ EXCEPT !.state = "RUNNING", !.sz = t.goal,
                                                          !.pgdir = t.new]]
    [] t.op = "exec" -> [th EXCEPT ![p] = [t EXCEPT !.pc = IF t.segs # <<>> THEN "load" ELSE "commit"]]

NextPage(p, t) ==
  LET u == [t EXCEPT !.mem = 0, !.a = t.a + 1]
  IN  IF u.a * PGSIZE < u.goal THEN [th EXCEPT ![p] = [u EXCEPT !.pc = "frame"]] ELSE Filled(p, u)

(* Faulty: what was allocated before the failure is kept. *)
FrameKeep(p) ==
  LET t == th[p] IN
  /\ At(p, "frame")
  /\ IF t.op = "fork" /\ t.pgdir.pte[t.a] = 0 THEN Panic("copyuvm")
     ELSE IF free = {}
     THEN /\ IF t.op = "sbrk" THEN th' = [th EXCEPT ![p] = Return(t)] /\ free' = free
             ELSE Bad(p, t, free)
          /\ UNCHANGED <<dropped, panicked>>
     ELSE /\ Goto(p, [t EXCEPT !.mem = Page], "map")
          /\ free' = free \ {Page}
          /\ UNCHANGED <<dropped, panicked>>

(* kalloc in the loop of allocuvm or copyuvm *)
Frame(p) ==
  LET t == th[p]
      d == Deallocuvm(t.pgdir, t.goal, t.old) IN
  /\ At(p, "frame")
  /\ IF t.op = "fork" /\ t.pgdir.pte[t.a] = 0 THEN Panic("copyuvm")
     ELSE IF free = {}
     THEN /\ IF t.op = "sbrk"
             THEN th' = [th EXCEPT ![p] = Return([t EXCEPT !.pgdir = d.space])] /\ free' = d.pages
             ELSE Bad(p, t, free)
          /\ UNCHANGED <<dropped, panicked>>
     ELSE /\ Goto(p, [t EXCEPT !.mem = Page], "map")
          /\ free' = free \ {Page}
          /\ UNCHANGED <<dropped, panicked>>

(* mappages in the loop: allocuvm does not look at what it returns. *)
Mappages(p) ==
  LET t == th[p]
      s == Target(t)
      d == PDX(t.a)
      mapped == [s EXCEPT !.pte[t.a] = t.mem] IN
  /\ At(p, "map")
  /\ IF s.tab[d] # 0
     THEN IF s.pte[t.a] # 0 THEN Panic("remap")
          ELSE th' = NextPage(p, SetTarget(t, mapped)) /\ UNCHANGED <<free, dropped, panicked>>
     ELSE IF free # {}
     THEN /\ th' = NextPage(p, SetTarget(t, [mapped EXCEPT !.tab[d] = Page]))
          /\ free' = free \ {Page}
          /\ UNCHANGED <<dropped, panicked>>
     ELSE /\ dropped' = dropped \cup {t.mem}
          /\ IF t.op = "fork" THEN Bad(p, t, free) ELSE th' = NextPage(p, t) /\ free' = free
          /\ UNCHANGED panicked
-----------------------------------------------------------------------------
(* loaduvm reads the segment into its pages; where one is not mapped it panics, or reads to
   the wrong place. *)
Load(p) ==
  LET t == th[p] IN
  /\ At(p, "load")
  /\ IF \E v \in VPages : v >= t.segs[1][1] /\ v * PGSIZE < t.segs[1][2] /\ t.new.pte[v] = 0
     THEN Panic("loaduvm")
     ELSE /\ th' = [th EXCEPT ![p] = NextSegment([t EXCEPT !.segs = Tail(@)], t.goal)]
          /\ UNCHANGED <<free, dropped, panicked>>

(* exec gives up: the file is short, the program does not fit below KERNBASE, or the
   arguments do not fit on the stack. *)
ExecFails(p) ==
  /\ At(p, "load") \/ At(p, "bad") \/ At(p, "commit")
  /\ Bad(p, th[p], free)
  /\ UNCHANGED <<dropped, panicked>>

(* The arguments are copied to the stack and the new image replaces the old one. *)
Commit(p) ==
  LET t == th[p]
      stack == t.goal \div PGSIZE - 1 IN
  /\ At(p, "commit")
  /\ IF t.new.tab[PDX(stack - 1)] = 0 \/ t.new.tab[PDX(stack)] = 0 THEN Panic("clearpteu")
     ELSE IF t.new.pte[stack] = 0 THEN Bad(p, t, free) /\ UNCHANGED <<dropped, panicked>>
     ELSE /\ th' = [th EXCEPT ![p] = Return([t EXCEPT !.pgdir = t.new, !.sz = t.goal])]
          /\ free' = free \cup Freevm(t.pgdir)
          /\ UNCHANGED <<dropped, panicked>>
-----------------------------------------------------------------------------
Next ==
  \/ \E p \in Procs :
       \/ \E n \in Deltas : Sbrk(p, n)
       \/ \E c \in Procs : Fork(p, c) \/ Wait(p, c)
       \/ \E prog \in Programs : Exec(p, prog)
       \/ Exit(p) \/ Setupkvm(p) \/ Frame(p) \/ Mappages(p)
       \/ Load(p) \/ ExecFails(p) \/ Commit(p)

Spec == Init /\ [][Next]_vars
-----------------------------------------------------------------------------
(* The directory, tables and entries of an address space are pages or absent. *)
IsSpace(s) ==
  /\ s.dir \in Pages \cup {0} /\ s.ktabs \subseteq Pages
  /\ s.tab \in [0..NPD - 1 -> Pages \cup {0}] /\ s.pte \in [VPages -> Pages \cup {0}]
  /\ \A v \in VPages : s.pte[v] # 0 => s.tab[PDX(v)] # 0

(* The variables keep their types: only pages are given to kfree, an entry lies in a page
   table that exists, and a size is below KERNBASE whatever sbrk was called with. *)
TypeOK ==
  /\ free \subseteq Pages /\ dropped \subseteq Pages
  /\ \A p \in Procs :
       /\ th[p].state \in {"UNUSED", "EMBRYO", "RUNNING", "ZOMBIE"}
       /\ th[p].sz \in 0..KERNBASE - 1
       /\ IsSpace(th[p].pgdir) /\ IsSpace(th[p].new)
       /\ {th[p].kstack, th[p].mem} \subseteq Pages \cup {0}
       /\ th[p].child \in Procs

(* The places that refer to a page: the free list, and in each slot of ptable the kernel
   stack, the page in hand and every directory, table and entry of its address spaces. *)
Uses(pg) ==
  LET One(b) == IF b THEN 1 ELSE 0
      InSpace(s) == One(s.dir = pg) + One(pg \in s.ktabs)
                    + Quantify(DOMAIN s.tab, LAMBDA d : s.tab[d] = pg)
                    + Quantify(VPages, LAMBDA v : s.pte[v] = pg)
      InProc(t) == One(t.kstack = pg) + One(t.mem = pg) + InSpace(t.pgdir) + InSpace(t.new)
  IN  One(pg \in free) + One(pg \in dropped) + MapThenSumSet(LAMBDA p : InProc(th[p]), Procs)

(* Through every interleaving of sbrk, fork, exec, exit and wait and every failure of kalloc,
   each page has exactly one place: it is free, or belongs to one address space or kernel
   stack; only the pages that setupkvm and mappages drop when they fail are lost. *)
PagesConserved == \A pg \in Pages : Uses(pg) = 1

(* A process that runs in user mode has every page below its size and none above, as long as
   no mappages has failed, whether its last sbrk, fork or exec succeeded or not; the exception
   is a process that gave back all its memory, whose size growproc does not store. *)
SizeBacked ==
  \A p \in Procs :
    At(p, "user") /\ dropped = {} =>
      LET mapped == {v \in VPages : th[p].pgdir.pte[v] # 0}
      IN  mapped = {v \in VPages : v * PGSIZE < th[p].sz} \/ mapped = {}

(* The panics of vm.c and exec.c are out of reach while no mappages has failed. *)
NoVmPanic == panicked # "no" => dropped # {}

(* Address spaces stay well-formed, and no panic is reached while no mappages has failed. *)
VmInv == TypeOK /\ NoVmPanic
=============================================================================
