----------------------------- MODULE Interrupts -----------------------------
(***************************************************************************)
(* Spin locks against interrupts.  Each CPU runs a context: a process or   *)
(* the CPU's own scheduler.  System calls run with interrupts on, handlers *)
(* with them off; acquire and release nest them off and back with the      *)
(* CPU's ncli and intena, and sched carries intena along when a process    *)
(* leaves one CPU with ptable.lock held and resumes on another.            *)
(***************************************************************************)
EXTENDS Integers, Sequences, FiniteSets, Functions

CONSTANTS Cpus, Threads, DevLocks, NoneI

VARIABLES
  on,        \* CPU -> the context it runs
  IFlag,     \* CPU -> FL_IF: 1 when interrupts are on
  ncli,      \* CPU -> depth of pushcli
  intena,    \* CPU -> FL_IF before the first pushcli
  owner,     \* lock -> the CPU that holds it
  frame,     \* context -> what it executes: see below
  saved,     \* process -> sched's local intena
  oops       \* the panic that happened, or "none"

cliVars == <<on, IFlag, ncli, intena, owner, frame, saved, oops>>

Ptable == "ptable"
LockSet == DevLocks \cup {Ptable}
Contexts == Threads \cup Cpus

ASSUME CliAssumption ==
  Threads \cap Cpus = {} /\ NoneI \notin Cpus \cup LockSet /\ Ptable \notin DevLocks

\* kind: "call" a system call or user code, "handler", "new" a process that has
\* not run yet and "forkret" when it is on its way to user space, "sched" the
\* scheduler; outer: the code a
\* handler interrupted; locks: its own, innermost last; spin: the lock it
\* waits for.
Frame(kind) == [kind |-> kind, outer |-> "none", locks |-> <<>>, spin |-> NoneI]

CliInit ==
  /\ on = [c \in Cpus |-> c]
  /\ IFlag = [c \in Cpus |-> 0] /\ ncli = [c \in Cpus |-> 0] /\ intena = [c \in Cpus |-> 0]
  /\ owner = [l \in LockSet |-> NoneI]
  /\ frame = [x \in Contexts |-> Frame(IF x \in Cpus THEN "sched" ELSE "new")]
  /\ saved = [t \in Threads |-> 0]
  /\ oops = "none"

Ctx(c) == frame[on[c]]
Free(c) == oops = "none" /\ Ctx(c).spin = NoneI
SetFrame(c, f) == frame' = [frame EXCEPT ![on[c]] = f]

\* pushcli; intena is recorded at depth 0 only.
pushcli(c) ==
  /\ IFlag' = [IFlag EXCEPT ![c] = 0]
  /\ ncli' = [ncli EXCEPT ![c] = @ + 1]
  /\ intena' = [intena EXCEPT ![c] = IF ncli[c] = 0 THEN IFlag[c] ELSE @]

holding(c, l) == owner[l] = c

\* acquire until it spins.  A process takes a device lock, then perhaps
\* ptable.lock; a handler the same, whatever the code it interrupted holds.
Acquire(c, l) ==
  /\ Free(c) /\ l \notin Range(Ctx(c).locks)
  /\ Ctx(c).locks # <<>> => l = Ptable
  /\ Ctx(c).kind = "sched" => l = Ptable /\ IFlag[c] = 1
  /\ pushcli(c)
  /\ SetFrame(c, [Ctx(c) EXCEPT !.spin = l])
  /\ oops' = IF holding(c, l) THEN "acquire" ELSE oops
  /\ UNCHANGED <<on, owner, saved>>

\* The xchg that finds the lock free.
Acquired(c) ==
  /\ oops = "none" /\ Ctx(c).spin # NoneI /\ owner[Ctx(c).spin] = NoneI
  /\ owner' = [owner EXCEPT ![Ctx(c).spin] = c]
  /\ SetFrame(c, [Ctx(c) EXCEPT !.spin = NoneI, !.locks = Append(@, Ctx(c).spin)])
  /\ UNCHANGED <<on, IFlag, ncli, intena, saved, oops>>

\* popcli, whose sti is the last one's; its tests are in Release.
popcli(c) ==
  /\ ncli' = [ncli EXCEPT ![c] = @ - 1]
  /\ IFlag' = [IFlag EXCEPT ![c] = IF ncli[c] = 1 THEN intena[c] ELSE 0]

\* release, with the tests of release and popcli that panic
Release(c) ==
  /\ Free(c) /\ Ctx(c).locks # <<>>
  /\ LET l == Ctx(c).locks[Len(Ctx(c).locks)]
     IN /\ owner' = [owner EXCEPT ![l] = NoneI]
        /\ oops' = CASE ~holding(c, l) -> "release"
                     [] holding(c, l) /\ IFlag[c] = 1 -> "popcli - interruptible"
                     [] holding(c, l) /\ IFlag[c] = 0 /\ ncli[c] < 1 -> "popcli"
                     [] OTHER -> oops
  /\ popcli(c)
  /\ SetFrame(c, [Ctx(c) EXCEPT !.locks = SubSeq(@, 1, Len(@) - 1)])
  /\ UNCHANGED <<on, intena, saved>>

\* An interrupt: its gate turns interrupts off.  On return iret has them on.
Interrupt(c) ==
  /\ oops = "none" /\ IFlag[c] = 1
  /\ SetFrame(c, [kind |-> "handler", outer |-> Ctx(c).kind, locks |-> <<>>, spin |-> NoneI])
  /\ IFlag' = [IFlag EXCEPT ![c] = 0]
  /\ UNCHANGED <<on, ncli, intena, owner, saved, oops>>

\* The end of a handler, or a new process's first way to user space.
Iret(c) ==
  /\ Free(c) /\ Ctx(c).locks = <<>> /\ Ctx(c).kind \in {"handler", "forkret"}
  /\ SetFrame(c, Frame(IF Ctx(c).kind = "handler" THEN Ctx(c).outer ELSE "call"))
  /\ IFlag' = [IFlag EXCEPT ![c] = 1]
  /\ UNCHANGED <<on, ncli, intena, owner, saved, oops>>

\* yield, exit or sleep, once ptable.lock is all they hold: sched saves intena
\* and the scheduler goes on, with the lock.  A timer's yield is a handler's.
Sched(c) ==
  /\ Free(c) /\ on[c] \in Threads /\ Ctx(c).locks = <<Ptable>>
  /\ oops' = CASE ~holding(c, Ptable) -> "sched ptable.lock"
               [] holding(c, Ptable) /\ ncli[c] # 1 -> "sched locks"
               [] holding(c, Ptable) /\ ncli[c] = 1 /\ IFlag[c] = 1 -> "sched interruptible"
               [] OTHER -> oops
  /\ saved' = [saved EXCEPT ![on[c]] = intena[c]]
  /\ on' = [on EXCEPT ![c] = c]
  /\ frame' = [frame EXCEPT ![on[c]].locks = <<>>, ![c].locks = <<Ptable>>]
  /\ UNCHANGED <<IFlag, ncli, intena, owner>>

\* Faulty: the CPU's own value stays.
ResumedHere(c, t) == intena[c]

\* What sched does once the process runs again, perhaps on another CPU; a new
\* process comes out in forkret instead.
Resumed(c, t) == IF frame[t].kind = "new" THEN intena[c] ELSE saved[t]

\* The scheduler switches to a process; it has ptable.lock now.
Switch(c, t) ==
  /\ oops = "none" /\ on[c] = c /\ frame[c].kind = "sched" /\ frame[c].locks = <<Ptable>>
  /\ \A d \in Cpus : on[d] # t
  /\ on' = [on EXCEPT ![c] = t]
  /\ frame' = [frame EXCEPT ![c].locks = <<>>, ![t].locks = <<Ptable>>,
                            ![t].kind = IF @ = "new" THEN "forkret" ELSE @]
  /\ intena' = [intena EXCEPT ![c] = Resumed(c, t)]
  /\ UNCHANGED <<IFlag, ncli, owner, saved, oops>>

\* The sti at the top of the scheduler's loop.
Sti(c) ==
  /\ Free(c) /\ on[c] = c /\ frame[c].kind = "sched" /\ frame[c].locks = <<>> /\ IFlag[c] = 0
  /\ IFlag' = [IFlag EXCEPT ![c] = 1]
  /\ UNCHANGED <<on, ncli, intena, owner, frame, saved, oops>>

CliNext ==
  \E c \in Cpus :
    \/ \E l \in LockSet : Acquire(c, l)
    \/ Acquired(c) \/ Release(c) \/ Interrupt(c) \/ Iret(c) \/ Sched(c) \/ Sti(c)
    \/ \E t \in Threads : Switch(c, t)

CliSpec == CliInit /\ [][CliNext]_cliVars

-----------------------------------------------------------------------------
\* Locks and interrupts agree on every CPU: while it holds or waits for a lock
\* interrupts are off, so that no handler can spin on a lock of the code under
\* it; ncli counts those locks; with none, a system call runs with interrupts on
\* and a handler with them off, also when it was preempted in between and
\* resumed on another CPU; and none of the panics of spinlock.c and sched happens.
LocksNest ==
  /\ oops = "none"
  /\ \A c \in Cpus :
       LET f == Ctx(c)
           depth == Len(f.locks) + (IF f.spin = NoneI THEN 0 ELSE 1)
       IN /\ ncli[c] = depth
          /\ Cardinality({l \in LockSet : owner[l] = c}) = Len(f.locks)
          /\ depth > 0 => IFlag[c] = 0
          /\ depth = 0 /\ f.kind = "call" => IFlag[c] = 1
          /\ depth = 0 /\ f.kind = "handler" => IFlag[c] = 0
=============================================================================
