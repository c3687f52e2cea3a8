------------------------------- MODULE Sched -------------------------------
(***************************************************************************)
(* The scheduler of xv6 (src/xv6/proc.c) on several CPUs: each CPU's       *)
(* scheduler loop, the hand-over of ptable.lock across swtch, yield,       *)
(* sleep, wakeup and kill.                                                 *)
(*                                                                         *)
(* The clients are the smallest pair that uses sleep and wakeup the way    *)
(* piperead and pipewrite do: sleepers wait under a lock lk for an item,   *)
(* wakers add items.  A step is one acquire, one release or what runs      *)
(* between two of them; a CPU that holds a spinlock takes no interrupt, so *)
(* only a process that holds none may be made to yield.                    *)
(***************************************************************************)
EXTENDS Integers, FiniteSets

CONSTANTS
  CPUs,
  NPROC,      \* slots of the process table
  Sleepers,   \* slots of the processes that wait for items
  MaxItems,   \* bound on the items made available
  Free        \* no CPU, no process

Procs  == 1..NPROC
Wakers == Procs \ Sleepers

ASSUME SchedAssumption ==
  /\ NPROC \in Nat \ {0}
  /\ Sleepers \subseteq 1..NPROC
  /\ MaxItems \in Nat
  /\ Free \notin CPUs /\ Free \notin 1..NPROC

VARIABLES
  ptlock, lk,           \* the CPU that holds ptable.lock, the clients' lock
  state, chan, killed,  \* struct proc
  curr,                 \* per CPU: proc
  stack,                \* per CPU: the process whose kernel stack it runs on
  scan,                 \* per CPU: the slot its scheduler looks at, 0 outside the loop
  pc, ret,              \* per process: where its kernel stack stands, where yield returns to
  items, made           \* items available, items made so far

vars == <<ptlock, lk, state, chan, killed, curr, stack, scan, pc, ret, items, made>>

Init ==
  /\ ptlock = Free /\ lk = Free
  /\ state = [p \in Procs |-> "RUNNABLE"]
  /\ chan = [p \in Procs |-> 0]
  /\ killed = [p \in Procs |-> 0]
  /\ curr = [c \in CPUs |-> Free]
  /\ stack = [c \in CPUs |-> Free]
  /\ scan = [c \in CPUs |-> 0]
  /\ pc = [p \in Procs |-> "forkret"]
  /\ ret = [p \in Procs |-> "user"]
  /\ items = 0 /\ made = 0

Goto(p, l) == pc' = [pc EXCEPT ![p] = l]
-----------------------------------------------------------------------------
(* Definitions marked "Faulty" are not part of the specification: each is a plausible
   mistake in the operation that follows it, kept to show that a property notices. *)

(* scheduler(): the loop of a CPU that runs no process. *)
SchedAcquire(c) ==
  /\ stack[c] = Free /\ scan[c] = 0
  /\ ptlock = Free
  /\ ptlock' = c
  /\ scan' = [scan EXCEPT ![c] = 1]
  /\ UNCHANGED <<lk, state, chan, killed, curr, stack, pc, ret, items, made>>

SchedSkip(c) ==
  /\ stack[c] = Free /\ curr[c] = Free /\ scan[c] \in Procs
  /\ state[scan[c]] # "RUNNABLE"
  /\ scan' = [scan EXCEPT ![c] = @ + 1]
  /\ UNCHANGED <<ptlock, lk, state, chan, killed, curr, stack, pc, ret, items, made>>

(* proc = p; p->state = RUNNING; swtch *)
SchedRun(c) ==
  LET p == scan[c] IN
  /\ stack[c] = Free /\ curr[c] = Free /\ p \in Procs
  /\ state[p] = "RUNNABLE"
  /\ curr' = [curr EXCEPT ![c] = p]
  /\ state' = [state EXCEPT ![p] = "RUNNING"]
  /\ stack' = [stack EXCEPT ![c] = p]
  /\ UNCHANGED <<ptlock, lk, chan, killed, scan, pc, ret, items, made>>

(* Faulty: after each process the scan starts again. *)
SchedBackRestart(c) ==
  /\ stack[c] = Free /\ curr[c] # Free
  /\ curr' = [curr EXCEPT ![c] = Free]
  /\ scan' = [scan EXCEPT ![c] = 1]
  /\ UNCHANGED <<ptlock, lk, state, chan, killed, stack, pc, ret, items, made>>

(* back from swtch: proc = 0, next slot *)
SchedBack(c) ==
  /\ stack[c] = Free /\ curr[c] # Free
  /\ curr' = [curr EXCEPT ![c] = Free]
  /\ scan' = [scan EXCEPT ![c] = @ + 1]
  /\ UNCHANGED <<ptlock, lk, state, chan, killed, stack, pc, ret, items, made>>

SchedRelease(c) ==
  /\ stack[c] = Free /\ curr[c] = Free /\ scan[c] = NPROC + 1
  /\ ptlock' = Free
  /\ scan' = [scan EXCEPT ![c] = 0]
  /\ UNCHANGED <<lk, state, chan, killed, curr, stack, pc, ret, items, made>>
-----------------------------------------------------------------------------
(* sched() as called with l the point the process resumes at: the panics, then swtch. *)
Swtch(c, p, l) ==
  /\ Goto(p, IF ptlock = c /\ lk # c /\ state[p] # "RUNNING" THEN l ELSE "panic")
  /\ stack' = [stack EXCEPT ![c] = IF ptlock = c /\ lk # c /\ state[p] # "RUNNING"
                                   THEN Free ELSE p]
  /\ UNCHANGED <<ptlock, lk, state, chan, killed, curr, scan, ret, items, made>>

(* forkret, and the end of yield: release ptable.lock *)
Resume(c, p) ==
  /\ pc[p] \in {"forkret", "yielded"}
  /\ ptlock' = Free
  /\ Goto(p, ret[p])
  /\ UNCHANGED <<lk, state, chan, killed, curr, stack, scan, ret, items, made>>

(* A clock tick reaches a CPU that holds no spinlock: trap() calls yield(), except in
   user space for a killed process, which exits. *)
Interruptible(p) ==
  \/ pc[p] \in {"syscall", "relock", "exit"}
  \/ pc[p] = "user" /\ killed[p] = 0

(* Faulty: RUNNABLE is set without ptable.lock. *)
YieldUnlocked(c, p) ==
  /\ Interruptible(p)
  /\ state' = [state EXCEPT ![p] = "RUNNABLE"]
  /\ ret' = [ret EXCEPT ![p] = pc[p]]
  /\ Goto(p, "yield")
  /\ UNCHANGED <<ptlock, lk, chan, killed, curr, stack, scan, items, made>>

Yield(c, p) ==
  /\ Interruptible(p)
  /\ ptlock = Free
  /\ ptlock' = c
  /\ state' = [state EXCEPT ![p] = "RUNNABLE"]
  /\ ret' = [ret EXCEPT ![p] = pc[p]]
  /\ Goto(p, "yield")
  /\ UNCHANGED <<lk, chan, killed, curr, stack, scan, items, made>>

YieldSwtch(c, p) == pc[p] = "yield" /\ Swtch(c, p, "yielded")
-----------------------------------------------------------------------------
(* trap() on a system call: a killed process exits instead. *)
Syscall(c, p) ==
  /\ pc[p] = "user"
  /\ Goto(p, IF killed[p] = 1 THEN "exit" ELSE "syscall")
  /\ UNCHANGED <<ptlock, lk, state, chan, killed, curr, stack, scan, ret, items, made>>

(* A sleeper: acquire(lk); while no item, return if killed, else sleep(chan, lk). *)
Lock(c, p) ==
  /\ pc[p] \in {"syscall", "relock"}
  /\ lk = Free
  /\ lk' = c
  /\ Goto(p, IF p \in Sleepers THEN "check" ELSE "make")
  /\ UNCHANGED <<ptlock, state, chan, killed, curr, stack, scan, ret, items, made>>

Take(c, p) ==
  /\ pc[p] = "check" /\ items > 0
  /\ items' = items - 1
  /\ lk' = Free
  /\ Goto(p, "user")
  /\ UNCHANGED <<ptlock, state, chan, killed, curr, stack, scan, ret, made>>

GiveUp(c, p) ==
  /\ pc[p] = "check" /\ items = 0 /\ killed[p] = 1
  /\ lk' = Free
  /\ Goto(p, "user")
  /\ UNCHANGED <<ptlock, state, chan, killed, curr, stack, scan, ret, items, made>>

(* Faulty: lk is released before ptable.lock is taken. *)
CallSleepUnlocked(c, p) ==
  /\ pc[p] = "check" /\ items = 0 /\ killed[p] = 0
  /\ lk' = Free
  /\ Goto(p, "sleep")
  /\ UNCHANGED <<ptlock, state, chan, killed, curr, stack, scan, ret, items, made>>

CallSleep(c, p) ==
  /\ pc[p] = "check" /\ items = 0 /\ killed[p] = 0
  /\ Goto(p, "sleep")
  /\ UNCHANGED <<ptlock, lk, state, chan, killed, curr, stack, scan, ret, items, made>>

(* sleep(): acquire(&ptable.lock) before release(lk) *)
SleepAcquire(c, p) ==
  /\ pc[p] = "sleep"
  /\ ptlock = Free
  /\ ptlock' = c
  /\ Goto(p, "sleeplocked")
  /\ UNCHANGED <<lk, state, chan, killed, curr, stack, scan, ret, items, made>>

(* release(lk): from here on a waker may run up to its acquire(&ptable.lock) *)
SleepRelease(c, p) ==
  /\ pc[p] = "sleeplocked"
  /\ lk' = Free
  /\ Goto(p, "asleep")
  /\ UNCHANGED <<ptlock, state, chan, killed, curr, stack, scan, ret, items, made>>

(* proc->chan = chan; proc->state = SLEEPING *)
SleepMark(c, p) ==
  /\ pc[p] = "asleep"
  /\ chan' = [chan EXCEPT ![p] = 1]
  /\ state' = [state EXCEPT ![p] = "SLEEPING"]
  /\ Goto(p, "sleepswtch")
  /\ UNCHANGED <<ptlock, lk, killed, curr, stack, scan, ret, items, made>>

SleepSwtch(c, p) == pc[p] = "sleepswtch" /\ Swtch(c, p, "woken")

(* proc->chan = 0; release(&ptable.lock) *)
SleepEnd(c, p) ==
  /\ pc[p] = "woken"
  /\ chan' = [chan EXCEPT ![p] = 0]
  /\ ptlock' = Free
  /\ Goto(p, "relock")
  /\ UNCHANGED <<lk, state, killed, curr, stack, scan, ret, items, made>>
-----------------------------------------------------------------------------
(* A waker: make an item under lk, then wakeup(chan). *)
Make(c, p) ==
  /\ pc[p] = "make"
  /\ made < MaxItems
  /\ items' = items + 1 /\ made' = made + 1
  /\ Goto(p, "wakeup")
  /\ UNCHANGED <<ptlock, lk, state, chan, killed, curr, stack, scan, ret>>

(* With nothing to make a waker just unlocks. *)
MakeNothing(c, p) ==
  /\ pc[p] = "make"
  /\ lk' = Free
  /\ Goto(p, "user")
  /\ UNCHANGED <<ptlock, state, chan, killed, curr, stack, scan, ret, items, made>>

(* Faulty: the scan stops at the first sleeper. *)
Wakeup1First ==
  [p \in Procs |-> IF state[p] = "SLEEPING" /\ \A q \in Procs : state[q] = "SLEEPING" => p <= q
                   THEN "RUNNABLE" ELSE state[p]]

Wakeup1 ==
  [p \in Procs |-> IF state[p] = "SLEEPING" /\ chan[p] = 1 THEN "RUNNABLE" ELSE state[p]]

(* acquire(&ptable.lock); wakeup1(chan); release(&ptable.lock) *)
Wakeup(c, p) ==
  /\ pc[p] = "wakeup"
  /\ ptlock = Free
  /\ state' = Wakeup1
  /\ Goto(p, "unlock")
  /\ UNCHANGED <<ptlock, lk, chan, killed, curr, stack, scan, ret, items, made>>

Unlock(c, p) ==
  /\ pc[p] = "unlock"
  /\ lk' = Free
  /\ Goto(p, "user")
  /\ UNCHANGED <<ptlock, state, chan, killed, curr, stack, scan, ret, items, made>>

(* Faulty: the victim is made RUNNABLE whatever it was doing. *)
KillAnyState(c, p, q) ==
  /\ pc[p] = "syscall" /\ p \in Wakers
  /\ ptlock = Free
  /\ killed' = [killed EXCEPT ![q] = 1]
  /\ state' = [state EXCEPT ![q] = "RUNNABLE"]
  /\ Goto(p, "user")
  /\ UNCHANGED <<ptlock, lk, chan, curr, stack, scan, ret, items, made>>

(* kill(pid of q), under ptable.lock *)
Kill(c, p, q) ==
  /\ pc[p] = "syscall" /\ p \in Wakers
  /\ ptlock = Free
  /\ killed' = [killed EXCEPT ![q] = 1]
  /\ state' = [state EXCEPT ![q] = IF @ = "SLEEPING" THEN "RUNNABLE" ELSE @]
  /\ Goto(p, "user")
  /\ UNCHANGED <<ptlock, lk, chan, curr, stack, scan, ret, items, made>>

(* exit(): acquire(&ptable.lock); state = ZOMBIE; sched() *)
Exit(c, p) ==
  /\ pc[p] = "exit"
  /\ ptlock = Free
  /\ ptlock' = c
  /\ state' = [state EXCEPT ![p] = "ZOMBIE"]
  /\ Goto(p, "exitswtch")
  /\ UNCHANGED <<lk, chan, killed, curr, stack, scan, ret, items, made>>

ExitSwtch(c, p) == pc[p] = "exitswtch" /\ Swtch(c, p, "dead")
-----------------------------------------------------------------------------
Scheduler(c) ==
  SchedAcquire(c) \/ SchedSkip(c) \/ SchedRun(c) \/ SchedBack(c) \/ SchedRelease(c)

(* The steps of the process that runs on c. *)
Sleeper(c, p) ==
  \/ Lock(c, p) \/ Take(c, p) \/ GiveUp(c, p) \/ CallSleep(c, p)
  \/ SleepAcquire(c, p) \/ SleepRelease(c, p) \/ SleepMark(c, p) 
  \/ SleepSwtch(c, p) \/ SleepEnd(c, p)

Waker(c, p) ==
  \/ Make(c, p) \/ MakeNothing(c, p) \/ Wakeup(c, p) \/ Unlock(c, p)

Process(c, p) ==
  \/ Resume(c, p) \/ Yield(c, p) \/ YieldSwtch(c, p)
  \/ Sleeper(c, p) \/ Waker(c, p)
  \/ Syscall(c, p) \/ Exit(c, p) \/ ExitSwtch(c, p)

Next ==
  \E c \in CPUs :
    \/ Scheduler(c)
    \/ \E p \in Procs :
         /\ stack[c] = p
         /\ Process(c, p) \/ \E q \in Procs : Kill(c, p, q)

Spec == Init /\ [][Next]_vars

(* A CPU that can take a step takes one; a CPU that spins on a lock that is freed again
   and again gets it in the end; the clock ticks on every CPU. *)
On(c, A(_, _)) == \E p \in Procs : stack[c] = p /\ A(c, p)

Acquire(c) ==
  \/ SchedAcquire(c)
  \/ On(c, Lock) \/ On(c, SleepAcquire) \/ On(c, Wakeup) \/ On(c, Exit)

Fairness ==
  \A c \in CPUs :
    /\ WF_vars(Scheduler(c) \/ On(c, Process))
    /\ SF_vars(Acquire(c))
    /\ SF_vars(On(c, Yield))

FairSpec == Spec /\ Fairness
-----------------------------------------------------------------------------
States == {"RUNNABLE", "RUNNING", "SLEEPING", "ZOMBIE"}

(* The points of a process between acquire and release of ptable.lock, of lk. *)
PtPCs == {"forkret", "yield", "yielded", "sleeplocked", "asleep", "sleepswtch", "woken",
          "exitswtch"}
LkPCs == {"check", "sleep", "sleeplocked", "make", "wakeup", "unlock"}
UnlockedPCs == {"user", "syscall", "relock", "exit"}
PCs == PtPCs \cup LkPCs \cup UnlockedPCs \cup {"dead", "panic"}

(* The scheduler's variables keep their types. *)
TypeOK ==
  /\ ptlock \in CPUs \cup {Free} /\ lk \in CPUs \cup {Free}
  /\ state \in [Procs -> States]
  /\ chan \in [Procs -> {0, 1}] /\ killed \in [Procs -> {0, 1}]
  /\ curr \in [CPUs -> Procs \cup {Free}] /\ stack \in [CPUs -> Procs \cup {Free}]
  /\ scan \in [CPUs -> 0..(NPROC + 1)]
  /\ pc \in [Procs -> PCs] /\ ret \in [Procs -> UnlockedPCs]
  /\ items \in Nat /\ made \in Nat

(* No two CPUs ever run on the same kernel stack: a process marked RUNNABLE by yield or by
   a wakeup cannot be picked before swtch has saved its context. *)
OneCpuPerStack ==
  \A c, d \in CPUs : stack[c] # Free /\ stack[c] = stack[d] => c = d

(* ptable.lock is handed over across swtch without being lost or held twice: a CPU holds it
   exactly while its scheduler is inside the loop, or its process is at a point where the
   code has acquired it, possibly on another CPU before the last swtch. *)
HoldsPt(c) ==
  IF stack[c] = Free THEN scan[c] # 0 ELSE pc[stack[c]] \in PtPCs

LockHandover == \A c \in CPUs : ptlock = c <=> HoldsPt(c)

(* The checks at the head of sched() never panic. *)
NoSchedPanic == \A p \in Procs : pc[p] # "panic"

(* sleep() loses no wakeup: while an item is there, a process that sleeps, or has let go of
   lk on its way to sleep, has a waker about to call wakeup. *)
NoLostWakeup ==
  items > 0 /\ (\E p \in Procs : state[p] = "SLEEPING" \/ pc[p] = "asleep")
    => \E w \in Procs : pc[w] = "wakeup"

(* The clients' lock is held exactly between acquire(lk) and release(lk). *)
HoldsLk(c) == stack[c] # Free /\ pc[stack[c]] \in LkPCs

LkInv == \A c \in CPUs : lk = c <=> HoldsLk(c)

(* A CPU's proc and scan position agree with what it runs. *)
CpuInv ==
  \A c \in CPUs :
    /\ stack[c] # Free => curr[c] = stack[c]
    /\ curr[c] # Free => scan[c] = curr[c]

(* The state of a process follows from where it stands: RUNNING on its CPU, except between
   the change of state and swtch; and what no CPU runs waits in swtch. *)
RunInv ==
  \A c \in CPUs, p \in Procs : stack[c] = p =>
    /\ pc[p] # "dead"
    /\ pc[p] = "yield" => state[p] = "RUNNABLE"
    /\ pc[p] = "sleepswtch" => state[p] = "SLEEPING"
    /\ pc[p] = "exitswtch" => state[p] = "ZOMBIE"
    /\ pc[p] \notin {"yield", "sleepswtch", "exitswtch"} => state[p] = "RUNNING"

OffInv ==
  \A p \in Procs : (\A c \in CPUs : stack[c] # p) =>
    \/ pc[p] \in {"forkret", "yielded"} /\ state[p] = "RUNNABLE"
    \/ pc[p] = "woken" /\ state[p] \in {"SLEEPING", "RUNNABLE"}
    \/ pc[p] = "dead" /\ state[p] = "ZOMBIE"

SleepInv ==
  \A p \in Procs :
    /\ chan[p] = 1 <=> pc[p] \in {"sleepswtch", "woken"}
    /\ pc[p] \in {"sleep", "sleeplocked"} => items = 0

(* The inductive invariant: who holds the locks, what the CPUs run, and where the processes
   they do not run are waiting. *)
SchedInv ==
  /\ TypeOK /\ LockHandover /\ LkInv /\ OneCpuPerStack /\ CpuInv
  /\ RunInv /\ OffInv /\ SleepInv /\ NoSchedPanic /\ NoLostWakeup

(* The scan of the whole table starves no process: one that is RUNNABLE is run. *)
RunnableRuns == \A p \in Procs : state[p] = "RUNNABLE" ~> state[p] = "RUNNING"

(* A sleeper for whom an item is there wakes up, unless others took all items. *)
SleeperWakes ==
  \A p \in Sleepers : state[p] = "SLEEPING" /\ items > 0 ~> state[p] # "SLEEPING" \/ items = 0

(* What kill says it does: wake the process from sleep if necessary, so a killed process
   does not stay asleep. *)
KilledWakes ==
  \A p \in Sleepers : killed[p] = 1 /\ state[p] = "SLEEPING" ~> state[p] # "SLEEPING"
=============================================================================
