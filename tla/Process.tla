------------------------------ MODULE Process ------------------------------
(***************************************************************************)
(* The life of a process in xv6 (src/xv6/proc.c): allocproc, fork, exit,   *)
(* wait and kill, run by the processes of the table, of which slot 1 is    *)
(* init (src/xv6/init.c).                                                  *)
(*                                                                         *)
(* A section under ptable.lock is one step; what fork does outside the     *)
(* lock is a step of its own.  RUNNABLE stands for RUNNABLE and RUNNING    *)
(* (module Sched tells them apart), SLEEPING for sleeping in wait.         *)
(* Whether kalloc and copyuvm find memory is left open.                    *)
(***************************************************************************)
EXTENDS Integers, FiniteSets, FiniteSetsExt

CONSTANTS
  NPROC,        \* slots of the process table
  MaxPid,       \* bound on nextpid
  KillArgs,     \* the pids kill is called with
  Failing       \* whether memory may run out: {0}, {1} or {0, 1}

ASSUME ProcessAssumption ==
  /\ NPROC \in Nat \ {0}
  /\ MaxPid \in Nat \ {0}
  /\ KillArgs \subseteq Nat
  /\ Failing \subseteq {0, 1}

Procs    == 1..NPROC
initproc == 1
NoProc   == 0

VARIABLES
  state, pid, parent, killed,   \* struct proc
  nextpid,
  pc,        \* where the process stands: its system call, or user code
  np,        \* fork's np: the slot being filled
  shell,     \* init's pid variable: the child it waits for
  named,     \* history: the pids kill has been called with
  strays,    \* history: the slots kill has marked while no process lived there
  panicked   \* 1 once a CPU has panicked: the machine is frozen

vars == <<state, pid, parent, killed, nextpid, pc, np, shell, named, strays, panicked>>

(* userinit *)
Init ==
  /\ state = [p \in Procs |-> IF p = initproc THEN "RUNNABLE" ELSE "UNUSED"]
  /\ pid = [p \in Procs |-> IF p = initproc THEN 1 ELSE 0]
  /\ parent = [p \in Procs |-> NoProc]
  /\ killed = [p \in Procs |-> 0]
  /\ nextpid = 2
  /\ pc = [p \in Procs |-> "user"]
  /\ np = [p \in Procs |-> NoProc]
  /\ shell = 0 /\ named = {} /\ strays = {} /\ panicked = 0

Goto(p, l) == pc' = [pc EXCEPT ![p] = l]

(* p can take a step at l. *)
At(p, l) == panicked = 0 /\ state[p] = "RUNNABLE" /\ pc[p] = l

Unused == {p \in Procs : state[p] = "UNUSED"}
Children(p) == {q \in Procs : parent[q] = p}
Zombies(p) == {q \in Children(p) : state[q] = "ZOMBIE"}

(* wakeup1(chan) for the channels wait sleeps on, the waiting processes themselves. *)
Wakeup1(s, ps) ==
  [p \in Procs |-> IF p \in ps /\ s[p] = "SLEEPING" THEN "RUNNABLE" ELSE s[p]]
-----------------------------------------------------------------------------
(* Definitions marked "Faulty" are not part of the specification: each is a plausible
   mistake in the operation that follows it, kept to show that a property notices. *)

(* A failed fork returns -1; init then exits. *)
ForkFailed(p) == Goto(p, IF p = initproc THEN "exit" ELSE "user")

(* Faulty: the slot is not marked EMBRYO before the lock is released. *)
ForkUnmarked(p) ==
  /\ At(p, "user") /\ killed[p] = 0
  /\ nextpid <= MaxPid /\ Unused # {}
  /\ pid' = [pid EXCEPT ![Min(Unused)] = nextpid]
  /\ nextpid' = nextpid + 1
  /\ np' = [np EXCEPT ![p] = Min(Unused)]
  /\ Goto(p, "fork")
  /\ UNCHANGED <<state, parent, killed, shell, named, strays, panicked>>

(* allocproc, its locked part *)
Fork(p) ==
  /\ At(p, "user") /\ killed[p] = 0
  /\ nextpid <= MaxPid
  /\ IF Unused = {}
     THEN ForkFailed(p) /\ UNCHANGED <<state, pid, nextpid, np>>
     ELSE LET q == Min(Unused) IN
          /\ state' = [state EXCEPT ![q] = "EMBRYO"]
          /\ pid' = [pid EXCEPT ![q] = nextpid]
          /\ nextpid' = nextpid + 1
          /\ np' = [np EXCEPT ![p] = q]
          /\ Goto(p, "fork")
  /\ UNCHANGED <<parent, killed, shell, named, strays, panicked>>

(* No memory for the kernel stack or the copy: np->state = UNUSED, without the lock. *)
ForkNoMemory(p) ==
  /\ At(p, "fork")
  /\ 1 \in Failing
  /\ state' = [state EXCEPT ![np[p]] = "UNUSED"]
  /\ ForkFailed(p)
  /\ UNCHANGED <<pid, parent, killed, nextpid, np, shell, named, strays, panicked>>

ForkParent(p) ==
  /\ At(p, "fork")
  /\ 0 \in Failing
  /\ parent' = [parent EXCEPT ![np[p]] = p]
  /\ Goto(p, "forked")
  /\ UNCHANGED <<state, pid, killed, nextpid, np, shell, named, strays, panicked>>

(* np->state = RUNNABLE; init goes on to wait for the child. *)
ForkRunnable(p) ==
  /\ At(p, "forked")
  /\ state' = [state EXCEPT ![np[p]] = "RUNNABLE"]
  /\ pc' = [pc EXCEPT ![p] = IF p = initproc /\ killed[p] = 0 THEN "wait" ELSE "user",
                      ![np[p]] = "user"]
  /\ shell' = IF p = initproc THEN pid[np[p]] ELSE shell
  /\ UNCHANGED <<pid, parent, killed, nextpid, np, named, strays, panicked>>
-----------------------------------------------------------------------------
(* A process calls exit, or trap() makes it exit because it was killed. *)
CallExit(p) ==
  /\ At(p, "user")
  /\ p = initproc => killed[p] = 1
  /\ Goto(p, "exit")
  /\ UNCHANGED <<state, pid, parent, killed, nextpid, np, shell, named, strays, panicked>>

(* Faulty: the children keep their parent. *)
ExitKeepChildren(p) ==
  /\ At(p, "exit") /\ p # initproc
  /\ state' = [Wakeup1(state, {parent[p]}) EXCEPT ![p] = "ZOMBIE"]
  /\ UNCHANGED <<pid, parent, killed, nextpid, pc, np, shell, named, strays, panicked>>

(* Faulty: init is not told of the zombies it inherits. *)
ExitQuietly(p) ==
  /\ At(p, "exit") /\ p # initproc
  /\ parent' = [q \in Procs |-> IF parent[q] = p THEN initproc ELSE parent[q]]
  /\ state' = [Wakeup1(state, {parent[p]}) EXCEPT ![p] = "ZOMBIE"]
  /\ UNCHANGED <<pid, killed, nextpid, pc, np, shell, named, strays, panicked>>

(* exit: wake the parent, pass the children to init, become a zombie. *)
Exit(p) ==
  /\ At(p, "exit")
  /\ IF p = initproc
     THEN panicked' = 1 /\ UNCHANGED <<state, parent, pc>>
     ELSE /\ parent' = [q \in Procs |-> IF parent[q] = p THEN initproc ELSE parent[q]]
          /\ state' = [Wakeup1(state, {parent[p]} \cup
                               (IF Zombies(p) # {} THEN {initproc} ELSE {}))
                       EXCEPT ![p] = "ZOMBIE"]
          /\ UNCHANGED <<pc, panicked>>
  /\ UNCHANGED <<pid, killed, nextpid, np, shell, named, strays>>
-----------------------------------------------------------------------------
CallWait(p) ==
  /\ At(p, "user") /\ killed[p] = 0
  /\ p # initproc
  /\ Goto(p, "wait")
  /\ UNCHANGED <<state, pid, parent, killed, nextpid, np, shell, named, strays, panicked>>

(* Faulty: the killed flag is left in the slot. *)
WaitReapMarked(p) ==
  LET q == Min(Zombies(p)) IN
  /\ At(p, "wait")
  /\ Zombies(p) # {}
  /\ state' = [state EXCEPT ![q] = "UNUSED"]
  /\ pid' = [pid EXCEPT ![q] = 0]
  /\ parent' = [parent EXCEPT ![q] = NoProc]
  /\ strays' = strays \ {q}
  /\ Goto(p, "user")
  /\ UNCHANGED <<killed, nextpid, np, shell, named, panicked>>

(* wait finds a zombie child: free the slot and return its pid, after which init waits on
   unless it was the shell. *)
WaitReap(p) ==
  LET q == Min(Zombies(p)) IN
  /\ At(p, "wait")
  /\ Zombies(p) # {}
  /\ state' = [state EXCEPT ![q] = "UNUSED"]
  /\ pid' = [pid EXCEPT ![q] = 0]
  /\ parent' = [parent EXCEPT ![q] = NoProc]
  /\ killed' = [killed EXCEPT ![q] = 0]
  /\ strays' = strays \ {q}
  /\ Goto(p, IF p = initproc /\ killed[p] = 0 /\ pid[q] # shell THEN "wait" ELSE "user")
  /\ UNCHANGED <<nextpid, np, shell, named, panicked>>

WaitFails(p) ==
  /\ At(p, "wait")
  /\ Zombies(p) = {}
  /\ Children(p) = {} \/ killed[p] = 1
  /\ Goto(p, "user")
  /\ UNCHANGED <<state, pid, parent, killed, nextpid, np, shell, named, strays, panicked>>

(* sleep(proc, &ptable.lock): the lock is held from the scan to the change of state. *)
WaitSleep(p) ==
  /\ At(p, "wait")
  /\ Zombies(p) = {} /\ Children(p) # {} /\ killed[p] = 0
  /\ state' = [state EXCEPT ![p] = "SLEEPING"]
  /\ UNCHANGED <<pid, parent, killed, nextpid, pc, np, shell, named, strays, panicked>>
-----------------------------------------------------------------------------
(* Faulty: a sleeping victim is not woken. *)
KillNoWakeup(p, n) ==
  /\ At(p, "user") /\ killed[p] = 0 /\ p # initproc
  /\ named' = named \cup {n}
  /\ killed' = [q \in Procs |-> IF pid[q] = n THEN 1 ELSE killed[q]]
  /\ UNCHANGED <<state, pid, parent, nextpid, pc, np, shell, strays, panicked>>

(* kill(n): the first slot whose pid is n, whatever its state; -1 when there is none. *)
Kill(p, n) ==
  LET hits == {q \in Procs : pid[q] = n}
      q == Min(hits)
  IN
  /\ At(p, "user") /\ killed[p] = 0
  /\ p # initproc
  /\ named' = named \cup {n}
  /\ IF hits = {}
     THEN UNCHANGED <<state, killed, strays>>
     ELSE /\ killed' = [killed EXCEPT ![q] = 1]
          /\ state' = Wakeup1(state, {q})
          /\ strays' = IF state[q] \in {"UNUSED", "EMBRYO"} THEN strays \cup {q} ELSE strays
  /\ UNCHANGED <<pid, parent, nextpid, pc, np, shell, panicked>>

Step(p) ==
  \/ Fork(p) \/ ForkNoMemory(p) \/ ForkParent(p) \/ ForkRunnable(p)
  \/ CallExit(p) \/ Exit(p)
  \/ CallWait(p) \/ WaitReap(p) \/ WaitFails(p) \/ WaitSleep(p)

Next ==
  \E p \in Procs :
    \/ Step(p)
    \/ \E n \in KillArgs : Kill(p, n)

Spec == Init /\ [][Next]_vars

(* A process in the kernel finishes its call, and one that was killed reaches exit at its
   next trap; init never stops. *)
InKernel(p) ==
  \/ ForkNoMemory(p) \/ ForkParent(p) \/ ForkRunnable(p) \/ Exit(p)
  \/ WaitReap(p) \/ WaitFails(p) \/ WaitSleep(p)
  \/ killed[p] = 1 /\ CallExit(p)

Fairness ==
  /\ WF_vars(Step(initproc))
  /\ \A p \in Procs \ {initproc} : WF_vars(InKernel(p))

FairSpec == Spec /\ Fairness
-----------------------------------------------------------------------------
States == {"UNUSED", "EMBRYO", "RUNNABLE", "SLEEPING", "ZOMBIE"}
PCs    == {"user", "fork", "forked", "exit", "wait"}

(* The table's variables keep their types; nextpid is above every pid given out. *)
TypeOK ==
  /\ state \in [Procs -> States]
  /\ pid \in [Procs -> 0..nextpid - 1]
  /\ parent \in [Procs -> Procs \cup {NoProc}]
  /\ killed \in [Procs -> {0, 1}]
  /\ nextpid \in Nat
  /\ pc \in [Procs -> PCs]
  /\ np \in [Procs -> Procs \cup {NoProc}]
  /\ shell \in Nat /\ named \subseteq Nat /\ strays \subseteq Procs /\ panicked \in {0, 1}

Live(p) == state[p] \in {"RUNNABLE", "SLEEPING"}

(* Two slots in use never carry the same pid, although a failed fork leaves its pid behind
   in the slot. *)
PidsDistinct ==
  \A p, q \in Procs : state[p] # "UNUSED" /\ pid[p] = pid[q] => p = q

(* Every process but init has a parent that can still call wait: exit hands its children
   over, so no zombie is left that nobody can reap. *)
ParentLives ==
  \A p \in Procs \ {initproc} :
    state[p] \in {"RUNNABLE", "SLEEPING", "ZOMBIE"} =>
      parent[p] \in Procs /\ Live(parent[p])

(* fork fills a slot that is its own: no other fork has it, and nobody else frees it. *)
ForkOwnsSlot ==
  \A p, q \in Procs :
    /\ pc[p] \in {"fork", "forked"} => Live(p) /\ state[np[p]] = "EMBRYO"
    /\ pc[p] \in {"fork", "forked"} /\ pc[q] \in {"fork", "forked"} /\ np[p] = np[q] => p = q

(* A process sleeps in wait only while it has a child, none of its children is a zombie and
   nobody has killed it: neither exit's nor kill's wakeup is ever lost. *)
SleepJustified ==
  \A p \in Procs :
    state[p] = "SLEEPING" => Children(p) # {} /\ Zombies(p) = {} /\ killed[p] = 0

(* What a slot holds follows from its state.  init stays and has no parent; a slot in use has a
   pid; a free one, and one that fork has not come to fill, has no parent, then the forker is
   the parent; and only kill itself marks a slot in which no process lives. *)
SlotsInOrder ==
  /\ Live(initproc) /\ parent[initproc] = NoProc
  /\ \A p \in Procs :
       /\ parent[p] # p
       /\ IF state[p] = "UNUSED" THEN parent[p] = NoProc ELSE pid[p] # 0
       /\ pc[p] \in {"fork", "forked"} => np[p] \in Procs
       /\ pc[p] = "fork" => parent[np[p]] = NoProc
       /\ pc[p] = "forked" => parent[np[p]] = p
       /\ state[p] \in {"UNUSED", "EMBRYO"} /\ killed[p] = 1 => p \in strays

(* The slots and pids are used as allocproc, fork and wait mean them: the variables keep their
   types, no two slots in use carry the same pid although a failed fork leaves its pid behind,
   and two forks never fill the same slot. *)
ProcessInv == TypeOK /\ PidsDistinct /\ ForkOwnsSlot /\ SlotsInOrder

(* A process is marked killed only if kill was called with its pid, or if it was born in a
   slot that kill had matched by 0 or by the pid a failed fork left there: kill does not look
   at the state of the slot and allocproc does not clear the flag. *)
KilledWasNamed ==
  \A p \in Procs :
    state[p] # "UNUSED" /\ killed[p] = 1 => pid[p] \in named \/ p \in strays

(* init reaps what is handed to it: a zombie whose parent is init leaves the table (unless
   the machine panics or the pids of the model are used up). *)
OrphansReaped ==
  \A p \in Procs :
    state[p] = "ZOMBIE" /\ parent[p] = initproc
      ~> state[p] = "UNUSED" \/ panicked = 1 \/ nextpid > MaxPid
=============================================================================
