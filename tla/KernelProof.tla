---------------------------- MODULE KernelProof -----------------------------
(***************************************************************************)
(* Proofs about small parts of the kernel that share no state: the clock   *)
(* (module Clock), and spin locks and interrupts (module Interrupts).      *)
(***************************************************************************)
EXTENDS Clock, Interrupts, FiniteSetTheorems, SequenceTheorems, TLAPS

-----------------------------------------------------------------------------
(* The clock: what a sleeper has waited is the distance of the counter from where it was. *)

SleeperTimed(p) ==
  /\ slp[p] \in [pc : {"user", "check", "sleep", "asleep"}, n : 0..TICKS-1, ticks0 : 0..TICKS-1, passed : 0..TICKS-1]
  /\ slp[p].pc # "user" => Elapsed(ticks, slp[p].ticks0) = slp[p].passed
  /\ slp[p].pc \in {"sleep", "asleep"} => slp[p].passed < slp[p].n

ClockIInv ==
  /\ ticks \in 0..TICKS-1
  /\ slp = [p \in TProcs |-> slp[p]]
  /\ \A p \in TProcs : SleeperTimed(p)

(* A remainder of a number within one period of zero *)
LEMMA Remainder ==
  ASSUME NEW t \in Nat \ {0}, NEW x \in (-t)..t
  PROVE  (x % t) = IF x < 0 THEN x + t ELSE IF x = t THEN 0 ELSE x
OBVIOUS

LEMMA RemainderRange ==
  ASSUME NEW t \in Nat \ {0}, NEW x \in Int
  PROVE  (x % t) \in 0..t-1
OBVIOUS

(* The counter steps on: the distance from any earlier value grows by one, modulo TICKS. *)
LEMMA ElapsedTick ==
  ASSUME NEW a \in 0..TICKS-1, NEW b \in 0..TICKS-1, Elapsed(a, b) < TICKS - 1
  PROVE  /\ (a + 1) % TICKS \in 0..TICKS-1
         /\ Elapsed((a + 1) % TICKS, b) = Elapsed(a, b) + 1
<1>1. TICKS \in Nat \ {0}
  BY ClockAssumption
<1> DEFINE n == (a + 1) % TICKS
           d == Elapsed(a, b)
           e == Elapsed(n, b)
<1>2. a + 1 \in (-TICKS)..TICKS /\ a - b \in (-TICKS)..TICKS
  BY <1>1
<1>3. n = IF a + 1 < 0 THEN a + 1 + TICKS ELSE IF a + 1 = TICKS THEN 0 ELSE a + 1
  BY <1>1, <1>2, Remainder, Zenon
<1>4. d = IF a - b < 0 THEN a - b + TICKS ELSE IF a - b = TICKS THEN 0 ELSE a - b
  BY <1>1, <1>2, Remainder, Zenon DEF Elapsed
<1> HIDE DEF n
<1>5. n \in 0..TICKS-1
  BY <1>1, <1>3
<1>6. n - b \in (-TICKS)..TICKS
  BY <1>1, <1>5
<1>7. e = IF n - b < 0 THEN n - b + TICKS ELSE IF n - b = TICKS THEN 0 ELSE n - b
  BY <1>1, <1>6, Remainder, Zenon DEF Elapsed
<1>8. d < TICKS - 1
  OBVIOUS
<1> HIDE DEF d, e
<1>9. e = d + 1
  BY ONLY <1>1, <1>3, <1>4, <1>5, <1>7, <1>8, a \in 0..TICKS-1, b \in 0..TICKS-1
<1> QED
  BY <1>5, <1>9 DEF n, d, e

LEMMA ElapsedNow ==
  ASSUME NEW a \in 0..TICKS-1
  PROVE  Elapsed(a, a) = 0
<1>1. TICKS \in Nat \ {0} /\ 0 \in (-TICKS)..TICKS /\ a - a = 0 /\ 0 # TICKS
  BY ClockAssumption
<1>2. (0 % TICKS) = IF 0 < 0 THEN 0 + TICKS ELSE IF 0 = TICKS THEN 0 ELSE 0
  BY <1>1, Remainder, Zenon
<1> QED
  BY <1>1, <1>2 DEF Elapsed

LEMMA ClockStart == ClockInit => ClockIInv
BY ClockAssumption DEF ClockInit, ClockIInv, SleeperTimed, Awake

LEMMA TimerStep ==
  ASSUME ClockIInv, TimerIntr
  PROVE  ClockIInv'
<1>1. ticks' = (ticks + 1) % TICKS /\ \A p \in TProcs : slp[p].passed < TICKS - 1
  BY Zenon DEF TimerIntr
<1>2. slp' = [p \in TProcs |-> slp'[p]]
  BY Zenon DEF TimerIntr
<1>3. ticks \in 0..TICKS-1 /\ \A p \in TProcs : SleeperTimed(p)
  BY Zenon DEF ClockIInv
<1>4. ticks' \in 0..TICKS-1
  BY ONLY <1>1, <1>3, ClockAssumption, RemainderRange
<1>5. ASSUME NEW p \in TProcs
      PROVE  SleeperTimed(p)'
  <2>1. CASE slp[p].pc = "user"
    <3>1. slp'[p] = slp[p]
      BY <2>1, Zenon DEF TimerIntr
    <3> QED
      BY ONLY <2>1, <3>1, <1>3, p \in TProcs DEF SleeperTimed
  <2>2. CASE slp[p].pc # "user"
    <3>1. slp'[p] = [slp[p] EXCEPT !.passed = @ + 1, !.pc = "check"]
      BY <2>2, Zenon DEF TimerIntr
    <3>2. /\ Elapsed(ticks, slp[p].ticks0) = slp[p].passed /\ slp[p].passed < TICKS - 1
          /\ slp[p].ticks0 \in 0..TICKS-1
      BY ONLY <2>2, <1>1, <1>3, p \in TProcs DEF SleeperTimed
    <3>3. Elapsed(ticks', slp[p].ticks0) = slp[p].passed + 1
      BY ONLY <1>1, <1>3, <3>2, ElapsedTick
    <3> QED
      <4>1. slp[p] \in [pc : {"user", "check", "sleep", "asleep"}, n : 0..TICKS-1, ticks0 : 0..TICKS-1, passed : 0..TICKS-1]
        BY <1>3 DEF SleeperTimed
      <4>2. slp[p].passed + 1 \in 0..TICKS-1
        BY ONLY <3>2, <4>1, ClockAssumption
      <4>3. /\ slp'[p] \in [pc : {"user", "check", "sleep", "asleep"}, n : 0..TICKS-1, ticks0 : 0..TICKS-1, passed : 0..TICKS-1]
            /\ slp'[p].pc = "check" /\ slp'[p].ticks0 = slp[p].ticks0 /\ slp'[p].passed = slp[p].passed + 1
        BY ONLY <3>1, <4>1, <4>2, Zenon
      <4> QED
        BY ONLY <3>3, <4>3 DEF SleeperTimed
  <2> QED
    BY <2>1, <2>2
<1> QED
  BY <1>2, <1>4, <1>5 DEF ClockIInv

LEMMA SleeperStep ==
  ASSUME NEW p \in TProcs, ClockIInv,
         SleepLoop(p) \/ Sleep(p) \/ KillSleeper(p) \/ (\E n \in Lengths : SysSleep(p, n))
  PROVE  ClockIInv'
<1>1. ticks' = ticks /\ ticks' \in 0..TICKS-1
  BY DEF ClockIInv, SleepLoop, Sleep, KillSleeper, SysSleep
<1>2. slp' = [q \in TProcs |-> slp'[q]] /\ \A q \in TProcs : q # p => slp'[q] = slp[q]
  BY DEF ClockIInv, SleepLoop, Sleep, KillSleeper, SysSleep
<1>3. \A q \in TProcs : q # p => SleeperTimed(q)'
  BY <1>1, <1>2 DEF ClockIInv, SleeperTimed
<1>4. SleeperTimed(p)'
  <2> USE ClockAssumption
  <2>1. CASE SleepLoop(p)
    BY <2>1, <1>1 DEF ClockIInv, SleeperTimed, SleepLoop, TooEarly, Awake
  <2>2. CASE Sleep(p)
    BY <2>2, <1>1 DEF ClockIInv, SleeperTimed, Sleep
  <2>3. CASE KillSleeper(p)
    BY <2>3, <1>1 DEF ClockIInv, SleeperTimed, KillSleeper
  <2>4. CASE \E n \in Lengths : SysSleep(p, n)
    <3>1. PICK n \in Lengths : SysSleep(p, n)
      BY <2>4
    <3>2. slp'[p] = [pc |-> "check", n |-> n % TICKS, ticks0 |-> ticks, passed |-> 0]
      BY <3>1 DEF SysSleep, ClockIInv
    <3>3. (n % TICKS) \in 0..TICKS-1
      BY RemainderRange
    <3>4. Elapsed(ticks, ticks) = 0
      BY ElapsedNow DEF ClockIInv
    <3> QED
      BY <3>2, <3>3, <3>4, <1>1 DEF SleeperTimed
  <2> QED
    BY <2>1, <2>2, <2>3, <2>4
<1> QED
  BY <1>1, <1>2, <1>3, <1>4 DEF ClockIInv

LEMMA ClockStep == ClockIInv /\ [ClockNext]_clockVars => ClockIInv'
<1>1. ASSUME ClockIInv, UNCHANGED clockVars
      PROVE  ClockIInv'
  BY <1>1 DEF ClockIInv, SleeperTimed, clockVars
<1> QED
  BY <1>1, TimerStep, SleeperStep DEF ClockNext

(* sys_sleep against the timer interrupt and kill: the call ends when its ticks have passed
   and not before, unless the caller was killed, and also when the counter wraps around;
   a process asleep has ticks left to wait, and a killed one does not sleep through a tick. *)
THEOREM SleepLong == ClockSpec => SleepsLongEnough
<1> DEFINE OnTime ==
      \A p \in TProcs :
        /\ slp[p].pc = "check" /\ slp'[p].pc = "user" => slp[p].passed >= slp[p].n \/ p \in doomed
        /\ slp'[p].pc = "asleep" => slp'[p].passed < slp'[p].n
        /\ slp[p].pc = "asleep" /\ p \in doomed /\ ticks' # ticks => slp'[p].pc = "check"
<1>1. ASSUME ClockIInv, ClockNext
      PROVE  OnTime
  <2> SUFFICES ASSUME NEW p \in TProcs
               PROVE  /\ slp[p].pc = "check" /\ slp'[p].pc = "user" => slp[p].passed >= slp[p].n \/ p \in doomed
                      /\ slp'[p].pc = "asleep" => slp'[p].passed < slp'[p].n
                      /\ slp[p].pc = "asleep" /\ p \in doomed /\ ticks' # ticks => slp'[p].pc = "check"
    OBVIOUS
  <2>1. slp'[p].pc = "asleep" => slp'[p].passed < slp'[p].n
    <3>1. SleeperTimed(p)'
      BY <1>1, ClockStep DEF ClockIInv
    <3> QED
      BY <3>1 DEF SleeperTimed
  <2>2. CASE TimerIntr
    <3>1. CASE slp[p].pc = "user"
      BY <2>1, <3>1
    <3>2. CASE slp[p].pc # "user"
      <4>1. slp'[p] = [slp[p] EXCEPT !.passed = @ + 1, !.pc = "check"]
        BY <2>2, <3>2, Zenon DEF TimerIntr
      <4>2. SleeperTimed(p)
        BY <1>1 DEF ClockIInv
      <4>3. slp'[p].pc = "check"
        BY ONLY <4>1, <4>2 DEF SleeperTimed
      <4> QED
        BY <4>3
    <3> QED
      BY <3>1, <3>2
  <2>3. ASSUME NEW q \in TProcs, SleepLoop(q)
        PROVE  slp[p].pc = "check" /\ slp'[p].pc = "user" => slp[p].passed >= slp[p].n \/ p \in doomed
    BY <1>1, <2>3, ClockAssumption DEF SleepLoop, ClockIInv, SleeperTimed, TooEarly
  <2>4. ASSUME NEW q \in TProcs, Sleep(q) \/ KillSleeper(q) \/ (\E n \in Lengths : SysSleep(q, n))
        PROVE  ~(slp[p].pc = "check" /\ slp'[p].pc = "user")
    <3>1. slp = [r \in TProcs |-> slp[r]] /\ SleeperTimed(p)
      BY <1>1 DEF ClockIInv
    <3>2. CASE Sleep(q)
      BY ONLY <3>1, <3>2, p \in TProcs, q \in TProcs DEF Sleep, SleeperTimed
    <3>3. CASE KillSleeper(q)
      BY ONLY <3>1, <3>3, p \in TProcs, q \in TProcs DEF KillSleeper, SleeperTimed
    <3>4. CASE \E n \in Lengths : SysSleep(q, n)
      BY ONLY <3>1, <3>4, p \in TProcs, q \in TProcs DEF SysSleep
    <3> QED
      BY <2>4, <3>2, <3>3, <3>4
  <2>5. CASE ~TimerIntr
    <3>1. PICK q \in TProcs : SleepLoop(q) \/ Sleep(q) \/ KillSleeper(q) \/ (\E n \in Lengths : SysSleep(q, n))
      BY <1>1, <2>5 DEF ClockNext
    <3>2. ticks' = ticks
      BY <3>1 DEF SleepLoop, Sleep, KillSleeper, SysSleep
    <3> QED
      BY <2>1, <2>3, <2>4, <3>1, <3>2
  <2> QED
    BY <2>2, <2>5
<1>2. ClockIInv /\ [ClockNext]_clockVars => [OnTime]_clockVars
  BY <1>1
<1> QED
  BY <1>2, ClockStart, ClockStep, PTL DEF ClockSpec, SleepsLongEnough

-----------------------------------------------------------------------------
(* Spin locks and interrupts.  The locks a context holds are nested: a device lock, then
   perhaps ptable.lock. *)

Depth(s) == Len(s)
Inner(s) == s[Len(s)]
Rest(s) == SubSeq(s, 1, Len(s) - 1)
LockSeqs == {s \in Seq(LockSet) : Len(s) <= 2 /\ (Len(s) = 2 => s[1] # Ptable /\ s[2] = Ptable)}

Kinds == {"call", "handler", "new", "forkret", "sched"}

Frames == [kind : Kinds, outer : Kinds \cup {"none"}, locks : LockSeqs, spin : LockSet \cup {NoneI}]

CliTypeOK ==
  /\ on \in [Cpus -> Contexts]
  /\ IFlag \in [Cpus -> {0, 1}] /\ ncli \in [Cpus -> Nat] /\ intena \in [Cpus -> {0, 1}]
  /\ owner \in [LockSet -> Cpus \cup {NoneI}]
  /\ frame \in [Contexts -> Frames]
  /\ saved \in [Threads -> {0, 1}]
  /\ oops = "none"

(* A CPU runs its scheduler or a process, and no process runs on two CPUs. *)
Apart ==
  /\ \A c \in Cpus : on[c] \in Threads \cup {c}
  /\ \A c, d \in Cpus : on[c] = on[d] => c = d

(* CPU c, in frame f, is the owner of its locks; the lock it waits for is another one. *)
OwnsLocks(c, f) ==
  /\ \A l \in LockSet : owner[l] = c <=> l \in Range(f.locks)
  /\ f.spin # NoneI => f.spin \notin Range(f.locks) /\ (f.locks # <<>> => f.spin = Ptable)

(* ncli counts the locks; at depth 0 the flag, and else intena, says whether the code runs
   with interrupts on: a system call does, a handler does not. *)
FlagInStep(c, f) ==
  /\ ncli[c] = Depth(f.locks) + (IF f.spin = NoneI THEN 0 ELSE 1)
  /\ ncli[c] > 0 => IFlag[c] = 0
  /\ f.kind = "call" => IF ncli[c] = 0 THEN IFlag[c] = 1 ELSE intena[c] = 1
  /\ f.kind = "handler" => IF ncli[c] = 0 THEN IFlag[c] = 0 ELSE intena[c] = 0

(* What context x executes in frame f *)
KindOK(x, f) ==
  IF x \in Threads
  THEN /\ f.kind \in {"call", "handler", "new", "forkret"}
       /\ f.kind = "handler" => f.outer \in {"call", "forkret"}
  ELSE /\ f.kind \in {"sched", "handler"}
       /\ f.kind = "handler" => f.outer = "sched"

(* A context that no CPU runs has no lock; a scheduler was left in its own code, and a process
   in sched, with intena saved as its kind requires. *)
ParkedOK(x, f) ==
  /\ f.locks = <<>> /\ f.spin = NoneI
  /\ x \in Cpus => f.kind = "sched"
  /\ x \in Threads /\ f.kind = "call" => saved[x] = 1
  /\ x \in Threads /\ f.kind = "handler" => saved[x] = 0

RunningOK(c, f) == OwnsLocks(c, f) /\ FlagInStep(c, f) /\ f.kind # "new"

CliIInv ==
  /\ CliTypeOK /\ Apart
  /\ \A c \in Cpus : RunningOK(c, frame[on[c]])
  /\ \A x \in Contexts : KindOK(x, frame[x]) /\ ((\A c \in Cpus : on[c] # x) => ParkedOK(x, frame[x]))

(* The lists of locks: none, one, and what acquire and release make of one *)
LEMMA ListStart ==
  /\ <<>> \in LockSeqs /\ Depth(<<>>) = 0 /\ \A l \in LockSet : l \notin Range(<<>>)
  /\ <<Ptable>> \in LockSeqs /\ Depth(<<Ptable>>) = 1 /\ <<Ptable>> # <<>>
  /\ Ptable \in LockSet /\ \A l \in LockSet : l \in Range(<<Ptable>>) <=> l = Ptable
<1>1. Ptable \in LockSet
  BY DEF LockSet
<1>2. <<>> \in LockSeqs /\ Len(<<>>) = 0 /\ \A l \in LockSet : l \notin Range(<<>>)
  BY DEF LockSeqs, Range
<1>3. <<Ptable>> \in Seq(LockSet) /\ Len(<<Ptable>>) = 1 /\ <<Ptable>> # <<>> /\ <<Ptable>>[1] = Ptable
  BY <1>1
<1>4. <<Ptable>> \in LockSeqs
  BY ONLY <1>3 DEF LockSeqs
<1>5. \A l \in LockSet : l \in Range(<<Ptable>>) <=> l = Ptable
  BY DEF Range
<1> QED
  BY <1>1, <1>2, <1>3, <1>4, <1>5 DEF Depth

LEMMA ListLen ==
  ASSUME NEW s \in LockSeqs
  PROVE  /\ s \in Seq(LockSet) /\ Len(s) \in {0, 1, 2} /\ (Len(s) = 0 <=> s = <<>>)
         /\ Len(s) = 2 => s[1] # Ptable /\ s[2] = Ptable
<1>1. s \in Seq(LockSet) /\ Len(s) <= 2 /\ (Len(s) = 2 => s[1] # Ptable /\ s[2] = Ptable)
  BY Zenon DEF LockSeqs
<1>2. Len(s) \in Nat
  BY ONLY <1>1
<1> DEFINE n == Len(s)
<1>a. n <= 2 /\ n \in Nat
  BY ONLY <1>1, <1>2
<1> HIDE DEF n
<1>b. n \in {0, 1, 2}
  BY ONLY <1>a
<1>3. Len(s) \in {0, 1, 2}
  BY <1>b, Zenon DEF n
<1>4. Len(s) = 0 <=> s = <<>>
  BY ONLY <1>1
<1> QED
  BY <1>1, <1>3, <1>4, Zenon

LEMMA ListDepth ==
  ASSUME NEW s \in LockSeqs
  PROVE  /\ Depth(s) \in Nat /\ (Depth(s) = 0 => s = <<>>)
         /\ Cardinality({l \in LockSet : l \in Range(s)}) = Depth(s)
<1>1. s \in Seq(LockSet) /\ Len(s) \in {0, 1, 2} /\ (Len(s) = 2 => s[1] # Ptable /\ s[2] = Ptable)
  BY ListLen, Zenon
<1>2. Len(s) = 0 => s = <<>>
  BY <1>1
<1> DEFINE S == {l \in LockSet : l \in Range(s)}
<1>3. CASE Len(s) = 0
  <2>1. S = {}
    BY <1>1, <1>2, <1>3 DEF Range
  <2>2. Cardinality({}) = 0
    BY FS_EmptySet
  <2> QED
    BY <1>2, <1>3, <2>1, <2>2, Zenon DEF Depth
<1>4. CASE Len(s) = 1
  <2>1. S = {s[1]}
    BY <1>1, <1>4 DEF Range
  <2>2. Cardinality({s[1]}) = 1
    BY FS_Singleton, Zenon
  <2> QED
    BY <1>4, <2>1, <2>2 DEF Depth
<1>5. CASE Len(s) = 2
  <2>1. S = {s[1]} \cup {Ptable} /\ Ptable \notin {s[1]}
    BY <1>1, <1>5 DEF Range
  <2>2. IsFiniteSet({s[1]}) /\ Cardinality({s[1]}) = 1
    BY FS_Singleton, Zenon
  <2>3. Cardinality({s[1]} \cup {Ptable}) = 1 + 1
    BY ONLY <2>1, <2>2, FS_AddElement
  <2> QED
    BY <1>5, <2>1, <2>3 DEF Depth
<1> QED
  BY <1>1, <1>3, <1>4, <1>5

LEMMA ListAppend ==
  ASSUME NEW s \in LockSeqs, NEW l \in LockSet, l \notin Range(s), s # <<>> => l = Ptable
  PROVE  /\ Append(s, l) \in LockSeqs /\ Depth(Append(s, l)) = Depth(s) + 1
         /\ \A k \in LockSet : k \in Range(Append(s, l)) <=> k \in Range(s) \/ k = l
<1>1. s \in Seq(LockSet) /\ Len(s) \in {0, 1, 2} /\ (Len(s) = 2 => s[1] # Ptable /\ s[2] = Ptable)
  BY ListLen, Zenon
<1>2. \A i \in 1..Len(s) : s[i] # l
  BY <1>1 DEF Range
<1>3. Len(s) # 0 => l = Ptable
  BY <1>1
<1>4. Len(s) \in {0, 1} /\ (Len(s) = 1 => s[1] # Ptable /\ l = Ptable)
  BY <1>1, <1>2, <1>3
<1> DEFINE t == Append(s, l)
<1>5. t \in Seq(LockSet) /\ Len(t) = Len(s) + 1 /\ t[Len(s) + 1] = l /\ \A i \in 1..Len(s) : t[i] = s[i]
  BY <1>1
<1> HIDE DEF t
<1>6. t \in LockSeqs
  BY <1>1, <1>4, <1>5 DEF LockSeqs
<1>7. ASSUME NEW k \in LockSet
      PROVE  k \in Range(t) <=> k \in Range(s) \/ k = l
  <2>1. k \in Range(t) <=> \E i \in 1..Len(t) : t[i] = k
    BY <1>5 DEF Range
  <2>2. k \in Range(s) <=> \E i \in 1..Len(s) : s[i] = k
    BY <1>1 DEF Range
  <2> QED
    BY <1>1, <1>5, <2>1, <2>2
<1> QED
  BY <1>5, <1>6, <1>7 DEF Depth, t

LEMMA ListRest ==
  ASSUME NEW s \in LockSeqs, s # <<>>
  PROVE  /\ Rest(s) \in LockSeqs /\ Inner(s) \in LockSet
         /\ Depth(s) \in Nat \ {0} /\ Depth(Rest(s)) = Depth(s) - 1
         /\ \A l \in LockSet : l \in Range(Rest(s)) <=> l \in Range(s) /\ l # Inner(s)
         /\ Inner(s) \in Range(s)
<1>1. s \in Seq(LockSet) /\ Len(s) \in {1, 2} /\ (Len(s) = 2 => s[1] # Ptable /\ s[2] = Ptable)
  BY ListLen
<1> DEFINE t == Rest(s)
<1>2. t \in Seq(LockSet) /\ Len(t) = Len(s) - 1 /\ \A i \in 1..Len(s)-1 : t[i] = s[i]
  <2>a. Len(s) - 1 \in Nat
    <3>1. Len(s) \in {1, 2}
      BY <1>1, Zenon
    <3> QED
      BY ONLY <3>1
  <2>1. PICK n \in Nat : n = Len(s) - 1
    BY ONLY <2>a, Zenon
  <2>2. 1 \in Int /\ n \in Int /\ \A i \in 1..n : s[i] \in LockSet
    BY ONLY <1>1, <2>1
  <2>3. /\ SubSeq(s, 1, n) \in Seq(LockSet)
        /\ Len(SubSeq(s, 1, n)) = IF 1 <= n THEN n - 1 + 1 ELSE 0
        /\ \A i \in 1 .. n-1+1 : SubSeq(s, 1, n)[i] = s[1+i-1]
    BY ONLY <2>2, SubSeqProperties
  <2>4. /\ SubSeq(s, 1, n) \in Seq(LockSet)
        /\ Len(SubSeq(s, 1, n)) = n
        /\ \A i \in 1..n : SubSeq(s, 1, n)[i] = s[i]
    BY ONLY <2>1, <2>3
  <2> QED
    BY <2>1, <2>4, Zenon DEF Rest
<1> HIDE DEF t
<1>3. t \in LockSeqs /\ Inner(s) \in LockSet /\ Inner(s) \in Range(s)
  BY <1>1, <1>2 DEF LockSeqs, Inner, Range
<1>4. ASSUME NEW k \in LockSet
      PROVE  k \in Range(t) <=> k \in Range(s) /\ k # Inner(s)
  <2>1. k \in Range(t) <=> \E i \in 1..Len(t) : t[i] = k
    BY <1>2 DEF Range
  <2>2. k \in Range(s) <=> \E i \in 1..Len(s) : s[i] = k
    BY <1>1 DEF Range
  <2> QED
    BY <1>1, <1>2, <2>1, <2>2 DEF Inner
<1> QED
  BY <1>1, <1>2, <1>3, <1>4 DEF Depth, t

(* What the proofs keep needing of the constants *)
LEMMA CliConstants ==
  /\ \A t \in Threads : t \notin Cpus /\ t \in Contexts
  /\ \A c \in Cpus : c \notin Threads /\ c \in Contexts /\ c # NoneI
  /\ \A l \in LockSet : l # NoneI
  /\ \A x \in Contexts : x \in Threads \/ x \in Cpus
BY CliAssumption DEF Contexts, LockSet

(* The frames that the actions make *)
LEMMA FrameFields ==
  ASSUME NEW f \in Frames
  PROVE  /\ f.kind \in Kinds /\ f.outer \in Kinds \cup {"none"} /\ f.locks \in LockSeqs /\ f.spin \in LockSet \cup {NoneI}
         /\ f = [kind |-> f.kind, outer |-> f.outer, locks |-> f.locks, spin |-> f.spin]
BY DEF Frames

LEMMA SpinSet ==
  ASSUME NEW f \in Frames, NEW l \in LockSet \cup {NoneI}
  PROVE  \E g \in Frames : /\ g = [f EXCEPT !.spin = l] /\ g.kind = f.kind /\ g.outer = f.outer
                           /\ g.locks = f.locks /\ g.spin = l
<1>1. PICK g \in Frames : /\ g = [kind |-> f.kind, outer |-> f.outer, locks |-> f.locks, spin |-> l]
                          /\ g.kind = f.kind /\ g.outer = f.outer /\ g.locks = f.locks /\ g.spin = l
  <2>1. f.kind \in Kinds /\ f.outer \in Kinds \cup {"none"} /\ f.locks \in LockSeqs /\ f.spin \in LockSet \cup {NoneI}
    BY FrameFields, Zenon
  <2>2. [kind |-> f.kind, outer |-> f.outer, locks |-> f.locks, spin |-> l] \in Frames
    BY <2>1, Zenon DEF Frames
  <2> QED
    BY <2>2
<1>2. g = [f EXCEPT !.spin = l]
  BY ONLY <1>1, FrameFields
<1> QED
  BY <1>1, <1>2, Zenon

LEMMA LocksSet ==
  ASSUME NEW f \in Frames, NEW s \in LockSeqs
  PROVE  \E g \in Frames : /\ g = [f EXCEPT !.locks = s] /\ g.kind = f.kind /\ g.outer = f.outer
                           /\ g.locks = s /\ g.spin = f.spin
<1>1. PICK g \in Frames : /\ g = [kind |-> f.kind, outer |-> f.outer, locks |-> s, spin |-> f.spin]
                          /\ g.kind = f.kind /\ g.outer = f.outer /\ g.locks = s /\ g.spin = f.spin
  <2>1. f.kind \in Kinds /\ f.outer \in Kinds \cup {"none"} /\ f.locks \in LockSeqs /\ f.spin \in LockSet \cup {NoneI}
    BY FrameFields, Zenon
  <2>2. [kind |-> f.kind, outer |-> f.outer, locks |-> s, spin |-> f.spin] \in Frames
    BY <2>1, Zenon DEF Frames
  <2> QED
    BY <2>2
<1>2. g = [f EXCEPT !.locks = s]
  BY ONLY <1>1, FrameFields
<1> QED
  BY <1>1, <1>2, Zenon

LEMMA CliStart == CliInit => CliIInv
<1> SUFFICES ASSUME CliInit
             PROVE  CliIInv
  OBVIOUS
<1>1. \A k \in Kinds : Frame(k) \in Frames
  BY ListStart, Zenon DEF Frame, Frames
<1>2. \A k \in Kinds : Frame(k).kind = k /\ Frame(k).locks = <<>> /\ Frame(k).spin = NoneI
  BY DEF Frame
<1>3. "sched" \in Kinds /\ "new" \in Kinds
  BY DEF Kinds
<1>4. \A x \in Contexts : frame[x] = Frame(IF x \in Cpus THEN "sched" ELSE "new")
  BY Zenon DEF CliInit
<1>5. \A x \in Contexts : frame[x] \in Frames
  BY <1>1, <1>3, <1>4, Zenon
<1>6. frame \in [Contexts -> Frames]
  BY <1>5 DEF CliInit
<1>7. on \in [Cpus -> Contexts] /\ \A c \in Cpus : on[c] = c
  BY CliConstants DEF CliInit
<1>8. CliTypeOK
  BY <1>6, <1>7 DEF CliTypeOK, CliInit
<1>9. Apart
  BY <1>7 DEF Apart
<1>10. ASSUME NEW c \in Cpus
       PROVE  RunningOK(c, frame[on[c]])
  <2>1. frame[on[c]] = Frame("sched")
    BY <1>4, <1>7, CliConstants, Zenon
  <2>2. frame[on[c]].kind = "sched" /\ frame[on[c]].locks = <<>> /\ frame[on[c]].spin = NoneI
    BY <1>2, <1>3, <2>1, Zenon
  <2>3. OwnsLocks(c, frame[on[c]])
    <3>1. \A l \in LockSet : owner[l] # c
      BY CliConstants DEF CliInit
    <3> QED
      BY <2>2, <3>1, ListStart DEF OwnsLocks
  <2>4. FlagInStep(c, frame[on[c]])
    <3>1. ncli[c] = 0
      BY DEF CliInit
    <3> QED
      BY <2>2, <3>1, ListStart DEF FlagInStep
  <2> QED
    BY <2>2, <2>3, <2>4 DEF RunningOK
<1>11. ASSUME NEW x \in Contexts
       PROVE  KindOK(x, frame[x]) /\ ((\A c \in Cpus : on[c] # x) => ParkedOK(x, frame[x]))
  <2>1. x \in Cpus => frame[x].kind = "sched"
    BY <1>2, <1>3, <1>4, Zenon
  <2>2. x \in Threads => frame[x].kind = "new"
    BY <1>2, <1>3, <1>4, CliConstants, Zenon
  <2>3. frame[x].locks = <<>> /\ frame[x].spin = NoneI
    BY <1>2, <1>3, <1>4, Zenon
  <2> QED
    BY <2>1, <2>2, <2>3, CliConstants DEF KindOK, ParkedOK
<1> QED
  BY <1>8, <1>9, <1>10, <1>11, Zenon DEF CliIInv

(* The steps of CPU c leave the flags and the locks of every other one as they are. *)
OtherCpus(c) ==
  \A d \in Cpus \ {c} :
    /\ IFlag'[d] = IFlag[d] /\ ncli'[d] = ncli[d] /\ intena'[d] = intena[d]
    /\ \A l \in LockSet : owner'[l] = d <=> owner[l] = d

LEMMA OtherRuns ==
  ASSUME NEW c \in Cpus, NEW d \in Cpus, d # c, OtherCpus(c), NEW f, RunningOK(d, f)
  PROVE  RunningOK(d, f)'
<1>1. IFlag'[d] = IFlag[d] /\ ncli'[d] = ncli[d] /\ intena'[d] = intena[d]
  BY DEF OtherCpus
<1>2. \A l \in LockSet : owner'[l] = d <=> owner[l] = d
  BY DEF OtherCpus
<1>3. OwnsLocks(d, f)'
  BY <1>2, Zenon DEF OwnsLocks, RunningOK
<1>4. FlagInStep(d, f)'
  BY <1>1, Zenon DEF FlagInStep, RunningOK
<1> QED
  BY <1>3, <1>4 DEF RunningOK

(* What the CPU finds at the start of a step *)
LEMMA Running ==
  ASSUME CliIInv, NEW c \in Cpus
  PROVE  /\ on[c] \in Contexts /\ Ctx(c) \in Frames
         /\ RunningOK(c, Ctx(c)) /\ KindOK(on[c], Ctx(c))
         /\ ncli[c] \in Nat /\ IFlag[c] \in {0, 1} /\ intena[c] \in {0, 1}
         /\ frame \in [Contexts -> Frames]
<1>1. on[c] \in Contexts /\ frame \in [Contexts -> Frames]
  BY DEF CliIInv, CliTypeOK
<1>2. Ctx(c) \in Frames
  BY <1>1 DEF Ctx
<1>3. RunningOK(c, Ctx(c)) /\ KindOK(on[c], Ctx(c))
  BY <1>1, Zenon DEF CliIInv, Ctx
<1>4. ncli[c] \in Nat /\ IFlag[c] \in {0, 1} /\ intena[c] \in {0, 1}
  BY DEF CliIInv, CliTypeOK
<1> QED
  BY <1>1, <1>2, <1>3, <1>4, Zenon

(* A step of CPU c within its context: the invariant rests on what c itself runs. *)
LEMMA SameContext ==
  ASSUME CliIInv, NEW c \in Cpus, NEW g \in Frames, OtherCpus(c),
         on' = on, saved' = saved, oops' = "none", frame' = [frame EXCEPT ![on[c]] = g],
         IFlag' \in [Cpus -> {0, 1}], ncli' \in [Cpus -> Nat], intena' \in [Cpus -> {0, 1}],
         owner' \in [LockSet -> Cpus \cup {NoneI}],
         RunningOK(c, g)', KindOK(on[c], g)
  PROVE  CliIInv'
<1>1. frame \in [Contexts -> Frames] /\ on[c] \in Contexts
  BY Running, Zenon
<1>2. frame' \in [Contexts -> Frames]
  BY <1>1
<1>3. frame'[on[c]] = g /\ \A x \in Contexts : x # on[c] => frame'[x] = frame[x]
  BY <1>1
<1>4. CliTypeOK'
  BY <1>2, Zenon DEF CliIInv, CliTypeOK
<1>5. Apart'
  BY Zenon DEF CliIInv, Apart
<1>6. ASSUME NEW d \in Cpus
      PROVE  RunningOK(d, frame[on[d]])'
  <2>1. CASE d = c
    BY <1>3, <2>1, Zenon
  <2>2. CASE d # c
    <3>1. on[d] \in Contexts /\ on[d] # on[c]
      BY <2>2, Running, Zenon DEF CliIInv, Apart
    <3>2. RunningOK(d, frame[on[d]])
      BY Zenon DEF CliIInv
    <3>3. PICK f : f = frame[on[d]]
      OBVIOUS
    <3>4. RunningOK(d, f)'
      BY <2>2, <3>2, <3>3, OtherRuns, Zenon
    <3>5. f = frame'[on'[d]]
      BY <1>3, <3>1, <3>3, Zenon
    <3> QED
      BY <3>4, <3>5, Zenon
  <2> QED
    BY <2>1, <2>2
<1>7. ASSUME NEW x \in Contexts
      PROVE  (KindOK(x, frame[x]) /\ ((\A d \in Cpus : on[d] # x) => ParkedOK(x, frame[x])))'
  <2>1. KindOK(x, frame'[x])
    BY <1>3, Zenon DEF CliIInv
  <2>2. ASSUME \A d \in Cpus : on[d] # x
        PROVE  ParkedOK(x, frame[x])'
    <3>1. ParkedOK(x, frame[x]) /\ frame'[x] = frame[x]
      BY <1>3, <2>2, Zenon DEF CliIInv
    <3> QED
      BY <3>1, Zenon DEF ParkedOK
  <2> QED
    BY <2>1, <2>2, Zenon DEF KindOK
<1> QED
  BY <1>4, <1>5, <1>6, <1>7, Zenon DEF CliIInv

(* acquire, until it waits; the lock is not the context's own, nor that of the code under it:
   with interrupts on that code has none. *)
LEMMA AcquireStep ==
  ASSUME CliIInv, NEW c \in Cpus, NEW l \in LockSet, Acquire(c, l)
  PROVE  CliIInv'
<1>1. PICK f \in Frames : f = Ctx(c)
  BY Running, Zenon
<1>2. RunningOK(c, f) /\ KindOK(on[c], f) /\ ncli[c] \in Nat /\ IFlag[c] \in {0, 1} /\ intena[c] \in {0, 1}
  BY <1>1, Running, Zenon
<1>3. /\ f.spin = NoneI /\ l \notin Range(f.locks) /\ (f.locks # <<>> => l = Ptable)
      /\ f.kind = "sched" => IFlag[c] = 1
  BY <1>1, Zenon DEF Acquire, Free
<1>4. PICK g \in Frames : /\ g = [f EXCEPT !.spin = l] /\ g.kind = f.kind /\ g.outer = f.outer
                          /\ g.locks = f.locks /\ g.spin = l
  BY SpinSet, Zenon
<1>5. frame' = [frame EXCEPT ![on[c]] = g]
  BY <1>1, <1>4, Zenon DEF Acquire, SetFrame
<1>6. on' = on /\ owner' = owner /\ saved' = saved
  BY Zenon DEF Acquire
<1>7. oops' = "none"
  <2>1. owner[l] # c
    BY <1>2, <1>3, Zenon DEF RunningOK, OwnsLocks
  <2> QED
    BY <2>1, Zenon DEF Acquire, holding, Free
<1>8. /\ IFlag' = [IFlag EXCEPT ![c] = 0] /\ ncli' = [ncli EXCEPT ![c] = ncli[c] + 1]
      /\ intena' = [intena EXCEPT ![c] = IF ncli[c] = 0 THEN IFlag[c] ELSE intena[c]]
  BY Zenon DEF Acquire, pushcli
<1>9. /\ IFlag \in [Cpus -> {0, 1}] /\ ncli \in [Cpus -> Nat] /\ intena \in [Cpus -> {0, 1}]
      /\ owner \in [LockSet -> Cpus \cup {NoneI}]
  BY Zenon DEF CliIInv, CliTypeOK
<1>10. IFlag' \in [Cpus -> {0, 1}] /\ ncli' \in [Cpus -> Nat] /\ intena' \in [Cpus -> {0, 1}]
  BY ONLY <1>2, <1>8, <1>9
<1>11. OtherCpus(c)
  BY <1>6, <1>8, <1>9 DEF OtherCpus
<1>12. IFlag'[c] = 0 /\ ncli'[c] = ncli[c] + 1 /\ intena'[c] = (IF ncli[c] = 0 THEN IFlag[c] ELSE intena[c])
  BY <1>8, <1>9
<1>13. RunningOK(c, g)'
  <2>1. OwnsLocks(c, g)'
    BY <1>2, <1>3, <1>4, <1>6, Zenon DEF RunningOK, OwnsLocks
  <2>2. FlagInStep(c, g)'
    <3>1. Depth(f.locks) \in Nat /\ l # NoneI
      BY FrameFields, ListDepth, CliConstants, Zenon
    <3>2. FlagInStep(c, f)
      BY <1>2, Zenon DEF RunningOK
    <3> QED
      BY <1>2, <1>3, <1>4, <1>12, <3>1, <3>2 DEF FlagInStep
  <2> QED
    BY <1>2, <1>4, <2>1, <2>2, Zenon DEF RunningOK
<1>14. KindOK(on[c], g)
  BY <1>2, <1>4, Zenon DEF KindOK
<1> QED
  BY <1>5, <1>6, <1>7, <1>9, <1>10, <1>11, <1>13, <1>14, SameContext, Zenon

(* The lock turns from awaited to held. *)
LEMMA AcquiredStep ==
  ASSUME CliIInv, NEW c \in Cpus, Acquired(c)
  PROVE  CliIInv'
<1>1. PICK f \in Frames : f = Ctx(c)
  BY Running, Zenon
<1>2. RunningOK(c, f) /\ KindOK(on[c], f)
  BY <1>1, Running, Zenon
<1>3. PICK l \in LockSet : l = f.spin
  <2>1. f.spin \in LockSet \cup {NoneI} /\ f.spin # NoneI
    BY <1>1, FrameFields, Zenon DEF Acquired
  <2> QED
    BY <2>1
<1>4. owner[l] = NoneI /\ f.spin = l /\ l # NoneI
  BY <1>1, <1>3, Zenon DEF Acquired
<1>5. f.locks \in LockSeqs /\ l \notin Range(f.locks) /\ (f.locks # <<>> => l = Ptable)
  BY <1>2, <1>4, FrameFields, Zenon DEF RunningOK, OwnsLocks
<1>6. PICK s \in LockSeqs : /\ s = Append(f.locks, l) /\ Depth(s) = Depth(f.locks) + 1
                            /\ \A k \in LockSet : k \in Range(s) <=> k \in Range(f.locks) \/ k = l
  BY <1>5, ListAppend, Zenon
<1>7. PICK g \in Frames : /\ g = [f EXCEPT !.spin = NoneI, !.locks = Append(@, f.spin)]
                          /\ g.kind = f.kind /\ g.outer = f.outer /\ g.locks = s /\ g.spin = NoneI
  <2>1. NoneI \in LockSet \cup {NoneI}
    OBVIOUS
  <2>2. PICK h \in Frames : h = [f EXCEPT !.spin = NoneI] /\ h.kind = f.kind /\ h.outer = f.outer /\ h.spin = NoneI
    BY <2>1, SpinSet, Zenon
  <2>3. PICK g \in Frames : g = [h EXCEPT !.locks = s] /\ g.kind = h.kind /\ g.outer = h.outer /\ g.locks = s /\ g.spin = h.spin
    BY LocksSet, Zenon
  <2>4. g = [f EXCEPT !.spin = NoneI, !.locks = Append(@, f.spin)]
    BY ONLY <1>4, <1>6, <2>2, <2>3, FrameFields
  <2> QED
    BY <2>2, <2>3, <2>4, Zenon
<1>8. frame' = [frame EXCEPT ![on[c]] = g]
  BY <1>1, <1>7, Zenon DEF Acquired, SetFrame
<1>9. on' = on /\ saved' = saved /\ oops' = "none" /\ IFlag' = IFlag /\ ncli' = ncli /\ intena' = intena
  BY Zenon DEF Acquired
<1>10. owner' = [owner EXCEPT ![l] = c]
  BY <1>1, <1>3, Zenon DEF Acquired
<1>11. /\ IFlag \in [Cpus -> {0, 1}] /\ ncli \in [Cpus -> Nat] /\ intena \in [Cpus -> {0, 1}]
       /\ owner \in [LockSet -> Cpus \cup {NoneI}]
  BY Zenon DEF CliIInv, CliTypeOK
<1>12. owner' \in [LockSet -> Cpus \cup {NoneI}] /\ owner'[l] = c /\ \A k \in LockSet : k # l => owner'[k] = owner[k]
  BY <1>10, <1>11
<1>13. OtherCpus(c)
  BY <1>4, <1>9, <1>12, CliConstants, Zenon DEF OtherCpus
<1>14. RunningOK(c, g)'
  <2>1. OwnsLocks(c, g)'
    <3>1. \A k \in LockSet : owner[k] = c <=> k \in Range(f.locks)
      BY <1>2, Zenon DEF RunningOK, OwnsLocks
    <3>2. \A k \in LockSet : owner'[k] = c <=> k \in Range(s)
      <4> TAKE k \in LockSet
      <4>1. owner[k] = c <=> k \in Range(f.locks)
        BY <3>1, Zenon
      <4>2. k \in Range(s) <=> k \in Range(f.locks) \/ k = l
        BY <1>6, Zenon
      <4> QED
        BY <1>12, <4>1, <4>2, Zenon
    <3> QED
      BY <1>7, <3>2, Zenon DEF OwnsLocks
  <2>2. FlagInStep(c, g)'
    <3>1. Depth(f.locks) \in Nat
      BY <1>5, ListDepth, Zenon
    <3>2. FlagInStep(c, f)
      BY <1>2, Zenon DEF RunningOK
    <3>3. Depth(f.locks) + 1 = Depth(f.locks) + 1 + 0
      BY <3>1
    <3>4. ncli[c] = Depth(f.locks) + 1
      BY <1>4, <3>2, Zenon DEF FlagInStep
    <3>5. ncli'[c] = Depth(g.locks) + (IF g.spin = NoneI THEN 0 ELSE 1)
      BY <1>6, <1>7, <1>9, <3>3, <3>4, Zenon
    <3> QED
      BY <1>7, <1>9, <3>2, <3>5, Zenon DEF FlagInStep
  <2> QED
    BY <1>2, <1>7, <2>1, <2>2, Zenon DEF RunningOK
<1>15. KindOK(on[c], g)
  BY <1>2, <1>7, Zenon DEF KindOK
<1> QED
  BY <1>8, <1>9, <1>11, <1>12, <1>13, <1>14, <1>15, SameContext, Zenon

(* release gives back the innermost lock; the last one puts intena back in the flag. *)
LEMMA ReleaseStep ==
  ASSUME CliIInv, NEW c \in Cpus, Release(c)
  PROVE  CliIInv'
<1>1. PICK f \in Frames : f = Ctx(c)
  BY Running, Zenon
<1>2. RunningOK(c, f) /\ KindOK(on[c], f) /\ ncli[c] \in Nat /\ IFlag[c] \in {0, 1} /\ intena[c] \in {0, 1}
  BY <1>1, Running, Zenon
<1>3. f.spin = NoneI /\ f.locks # <<>> /\ f.locks \in LockSeqs /\ oops = "none"
  BY <1>1, FrameFields, Zenon DEF Release, Free
<1>4. PICK l \in LockSet : l = Inner(f.locks) /\ l \in Range(f.locks)
  BY <1>3, ListRest, Zenon
<1>5. PICK s \in LockSeqs : /\ s = Rest(f.locks) /\ Depth(f.locks) \in Nat \ {0} /\ Depth(s) = Depth(f.locks) - 1
                            /\ \A k \in LockSet : k \in Range(s) <=> k \in Range(f.locks) /\ k # l
  BY <1>3, <1>4, ListRest, Zenon
<1>6. PICK g \in Frames : g = [f EXCEPT !.locks = s] /\ g.kind = f.kind /\ g.outer = f.outer /\ g.locks = s /\ g.spin = f.spin
  BY LocksSet, Zenon
<1>7. frame' = [frame EXCEPT ![on[c]] = g]
  <2>1. g = [Ctx(c) EXCEPT !.locks = SubSeq(@, 1, Len(@) - 1)]
    BY <1>1, <1>5, <1>6, Zenon DEF Rest
  <2> QED
    BY <2>1, Zenon DEF Release, SetFrame
<1>8. on' = on /\ saved' = saved /\ intena' = intena
  BY Zenon DEF Release
<1>9. owner' = [owner EXCEPT ![l] = NoneI]
  BY <1>1, <1>4, Zenon DEF Release, Inner
<1>10. ncli' = [ncli EXCEPT ![c] = ncli[c] - 1] /\ IFlag' = [IFlag EXCEPT ![c] = IF ncli[c] = 1 THEN intena[c] ELSE 0]
  BY Zenon DEF Release, popcli
<1>11. FlagInStep(c, f) /\ OwnsLocks(c, f)
  BY <1>2, Zenon DEF RunningOK
<1>12. ncli[c] = Depth(f.locks) /\ ncli[c] >= 1 /\ IFlag[c] = 0
  BY <1>2, <1>3, <1>5, <1>11 DEF FlagInStep
<1>13. owner[l] = c
  BY <1>4, <1>11, Zenon DEF OwnsLocks
<1>14. oops' = "none"
  <2>1. holding(c, l) /\ IFlag[c] # 1 /\ ~(ncli[c] < 1)
    BY <1>2, <1>12, <1>13 DEF holding
  <2>2. oops' = CASE ~holding(c, l) -> "release"
                  [] holding(c, l) /\ IFlag[c] = 1 -> "popcli - interruptible"
                  [] holding(c, l) /\ IFlag[c] = 0 /\ ncli[c] < 1 -> "popcli"
                  [] OTHER -> oops
    BY <1>1, <1>4, Zenon DEF Release, Inner
  <2> QED
    BY ONLY <1>3, <2>1, <2>2
<1>15. /\ IFlag \in [Cpus -> {0, 1}] /\ ncli \in [Cpus -> Nat] /\ intena \in [Cpus -> {0, 1}]
       /\ owner \in [LockSet -> Cpus \cup {NoneI}]
  BY Zenon DEF CliIInv, CliTypeOK
<1>16. IFlag' \in [Cpus -> {0, 1}] /\ ncli' \in [Cpus -> Nat]
  BY ONLY <1>2, <1>10, <1>12, <1>15
<1>17. owner' \in [LockSet -> Cpus \cup {NoneI}] /\ owner'[l] = NoneI /\ \A k \in LockSet : k # l => owner'[k] = owner[k]
  BY <1>9, <1>15
<1>18. OtherCpus(c)
  <2>1. \A d \in Cpus \ {c} : IFlag'[d] = IFlag[d] /\ ncli'[d] = ncli[d] /\ intena'[d] = intena[d]
    BY ONLY <1>8, <1>10, <1>15
  <2> QED
    BY <1>13, <1>17, <2>1, CliConstants, Zenon DEF OtherCpus
<1>19. RunningOK(c, g)'
  <2>1. OwnsLocks(c, g)'
    <3>1. \A k \in LockSet : owner'[k] = c <=> k \in Range(s)
      BY <1>5, <1>11, <1>17, CliConstants, Zenon DEF OwnsLocks
    <3> QED
      BY <1>3, <1>6, <3>1, Zenon DEF OwnsLocks
  <2>2. FlagInStep(c, g)'
    <3>1. ncli'[c] = ncli[c] - 1 /\ IFlag'[c] = (IF ncli[c] = 1 THEN intena[c] ELSE 0) /\ intena'[c] = intena[c]
      BY ONLY <1>8, <1>10, <1>15
    <3> QED
      BY <1>3, <1>5, <1>6, <1>11, <1>12, <3>1 DEF FlagInStep
  <2> QED
    BY <1>2, <1>6, <2>1, <2>2, Zenon DEF RunningOK
<1>20. KindOK(on[c], g)
  BY <1>2, <1>6, Zenon DEF KindOK
<1> QED
  BY <1>7, <1>8, <1>14, <1>15, <1>16, <1>17, <1>18, <1>19, <1>20, SameContext, Zenon

(* A step that changes the flag and the kind of code only, with no lock held or awaited *)
LEMMA KindStep ==
  ASSUME CliIInv, NEW c \in Cpus, NEW v \in {0, 1}, NEW k \in Kinds, NEW o \in Kinds \cup {"none"},
         on' = on, saved' = saved, oops' = "none", ncli' = ncli, intena' = intena, owner' = owner,
         IFlag' = [IFlag EXCEPT ![c] = v], ncli[c] = 0,
         frame' = [frame EXCEPT ![on[c]] = [kind |-> k, outer |-> o, locks |-> <<>>, spin |-> NoneI]],
         k # "new", k = "call" => v = 1, k = "handler" => v = 0,
         IF on[c] \in Threads THEN k \in {"call", "handler", "new", "forkret"} /\ (k = "handler" => o \in {"call", "forkret"})
         ELSE k \in {"sched", "handler"} /\ (k = "handler" => o = "sched")
  PROVE  CliIInv'
<1>1. PICK f \in Frames : f = Ctx(c)
  BY Running, Zenon
<1>2. RunningOK(c, f) /\ f.locks \in LockSeqs /\ f.spin \in LockSet \cup {NoneI}
  BY <1>1, Running, FrameFields, Zenon
<1>3. Depth(f.locks) \in Nat /\ (Depth(f.locks) = 0 => f.locks = <<>>)
  BY <1>2, ListDepth, Zenon
<1>4. f.locks = <<>>
  <2>1. 0 = Depth(f.locks) + (IF f.spin = NoneI THEN 0 ELSE 1)
    BY <1>2, Zenon DEF RunningOK, FlagInStep
  <2>2. Depth(f.locks) = 0
    BY ONLY <1>3, <2>1
  <2> QED
    BY <1>3, <2>2, Zenon
<1>5. <<>> \in LockSeqs /\ NoneI \in LockSet \cup {NoneI} /\ Depth(<<>>) = 0
  BY ListStart
<1>6. PICK g \in Frames : /\ g = [kind |-> k, outer |-> o, locks |-> <<>>, spin |-> NoneI]
                          /\ g.kind = k /\ g.outer = o /\ g.locks = <<>> /\ g.spin = NoneI
  <2>1. [kind |-> k, outer |-> o, locks |-> <<>>, spin |-> NoneI] \in Frames
    BY <1>5, Zenon DEF Frames
  <2> QED
    BY <2>1
<1>7. /\ IFlag \in [Cpus -> {0, 1}] /\ ncli \in [Cpus -> Nat] /\ intena \in [Cpus -> {0, 1}]
      /\ owner \in [LockSet -> Cpus \cup {NoneI}]
  BY Zenon DEF CliIInv, CliTypeOK
<1>8. IFlag' \in [Cpus -> {0, 1}] /\ IFlag'[c] = v /\ \A d \in Cpus \ {c} : IFlag'[d] = IFlag[d]
  BY <1>7
<1>9. OtherCpus(c)
  BY <1>8, Zenon DEF OtherCpus
<1>10. OwnsLocks(c, g)'
  BY <1>2, <1>4, <1>6, Zenon DEF RunningOK, OwnsLocks
<1>11. FlagInStep(c, g)'
  <2>1. ncli'[c] = 0 /\ Depth(g.locks) = 0 /\ g.spin = NoneI
    BY <1>5, <1>6, Zenon
  <2> QED
    BY <1>6, <1>8, <2>1 DEF FlagInStep
<1>12. RunningOK(c, g)'
  BY <1>6, <1>10, <1>11, Zenon DEF RunningOK
<1>13. KindOK(on[c], g)
  BY <1>6, Zenon DEF KindOK
<1> QED
  BY <1>6, <1>7, <1>8, <1>9, <1>12, <1>13, SameContext, Zenon

(* With the flag on, no lock is held or awaited and the code is not a handler. *)
LEMMA InterruptStep ==
  ASSUME CliIInv, NEW c \in Cpus, Interrupt(c)
  PROVE  CliIInv'
<1>1. PICK f \in Frames : f = Ctx(c)
  BY Running, Zenon
<1>2. RunningOK(c, f) /\ KindOK(on[c], f) /\ ncli[c] \in Nat /\ IFlag[c] = 1 /\ f.kind \in Kinds
  BY <1>1, Running, FrameFields, Zenon DEF Interrupt
<1>3. ncli[c] = 0 /\ f.kind # "handler" /\ f.kind # "new"
  BY <1>2 DEF RunningOK, FlagInStep
<1>4. IF on[c] \in Threads THEN f.kind \in {"call", "forkret"} ELSE f.kind = "sched"
  BY <1>2, <1>3 DEF KindOK
<1>5. "handler" \in Kinds /\ f.kind \in Kinds \cup {"none"} /\ 0 \in {0, 1}
  BY <1>2 DEF Kinds
<1>6. /\ frame' = [frame EXCEPT ![on[c]] = [kind |-> "handler", outer |-> f.kind, locks |-> <<>>, spin |-> NoneI]]
      /\ IFlag' = [IFlag EXCEPT ![c] = 0]
  BY <1>1, Zenon DEF Interrupt, SetFrame
<1>7. /\ on' = on /\ saved' = saved /\ oops' = "none"
      /\ ncli' = ncli /\ intena' = intena /\ owner' = owner
  BY Zenon DEF Interrupt
<1> DEFINE k == "handler"
<1>8. /\ k # "new" /\ (k = "call" => 0 = 1) /\ (k = "handler" => 0 = 0)
      /\ IF on[c] \in Threads THEN k \in {"call", "handler", "new", "forkret"} /\ (k = "handler" => f.kind \in {"call", "forkret"})
         ELSE k \in {"sched", "handler"} /\ (k = "handler" => f.kind = "sched")
  BY <1>4
<1> HIDE DEF k
<1>9. k \in Kinds /\ frame' = [frame EXCEPT ![on[c]] = [kind |-> k, outer |-> f.kind, locks |-> <<>>, spin |-> NoneI]]
  BY <1>5, <1>6, Zenon DEF k
<1> QED
  BY <1>3, <1>5, <1>6, <1>7, <1>8, <1>9, KindStep, Zenon

(* iret goes back to code that ran with interrupts on. *)
LEMMA IretStep ==
  ASSUME CliIInv, NEW c \in Cpus, Iret(c)
  PROVE  CliIInv'
<1>1. PICK f \in Frames : f = Ctx(c)
  BY Running, Zenon
<1>2. RunningOK(c, f) /\ KindOK(on[c], f)
  BY <1>1, Running, Zenon
<1>3. f.spin = NoneI /\ f.locks = <<>> /\ f.kind \in {"handler", "forkret"} /\ oops = "none"
  BY <1>1, Zenon DEF Iret, Free
<1>4. ncli[c] = 0
  <2>1. ncli[c] = Depth(<<>>) + 0
    BY <1>2, <1>3, Zenon DEF RunningOK, FlagInStep
  <2> QED
    BY <2>1, ListStart
<1>5. PICK k \in Kinds : k = (IF f.kind = "handler" THEN f.outer ELSE "call") /\ k \in {"call", "forkret", "sched"}
  BY <1>2, <1>3 DEF KindOK, Kinds
<1>6. IF on[c] \in Threads THEN k \in {"call", "forkret"} ELSE k = "sched"
  BY <1>2, <1>3, <1>5 DEF KindOK
<1>7. /\ frame' = [frame EXCEPT ![on[c]] = [kind |-> k, outer |-> "none", locks |-> <<>>, spin |-> NoneI]]
      /\ IFlag' = [IFlag EXCEPT ![c] = 1]
  BY <1>1, <1>5, Zenon DEF Iret, SetFrame, Frame
<1>8. /\ on' = on /\ saved' = saved /\ oops' = "none"
      /\ ncli' = ncli /\ intena' = intena /\ owner' = owner
  BY <1>3, Zenon DEF Iret
<1>9. /\ k # "new" /\ k # "handler" /\ 1 \in {0, 1} /\ "none" \in Kinds \cup {"none"}
      /\ IF on[c] \in Threads THEN k \in {"call", "handler", "new", "forkret"} /\ (k = "handler" => "none" \in {"call", "forkret"})
         ELSE k \in {"sched", "handler"} /\ (k = "handler" => "none" = "sched")
  BY <1>5, <1>6
<1> QED
  BY <1>4, <1>7, <1>8, <1>9, KindStep, Zenon

LEMMA StiStep ==
  ASSUME CliIInv, NEW c \in Cpus, Sti(c)
  PROVE  CliIInv'
<1>1. PICK f \in Frames : f = Ctx(c)
  BY Running, Zenon
<1>2. RunningOK(c, f) /\ KindOK(on[c], f)
  BY <1>1, Running, Zenon
<1>3. f.spin = NoneI /\ f.locks = <<>> /\ f.kind = "sched" /\ oops = "none" /\ on[c] = c
  BY <1>1, Zenon DEF Sti, Free, Ctx
<1>4. frame' = [frame EXCEPT ![on[c]] = f]
  <2>1. frame \in [Contexts -> Frames] /\ f = frame[on[c]] /\ frame' = frame
    BY <1>1, Running, Zenon DEF Sti, Ctx
  <2> QED
    BY ONLY <2>1
<1>5. /\ on' = on /\ saved' = saved /\ oops' = "none" /\ IFlag' = [IFlag EXCEPT ![c] = 1]
      /\ ncli' = ncli /\ intena' = intena /\ owner' = owner
  BY <1>3, Zenon DEF Sti
<1>6. /\ IFlag \in [Cpus -> {0, 1}] /\ ncli \in [Cpus -> Nat] /\ intena \in [Cpus -> {0, 1}]
      /\ owner \in [LockSet -> Cpus \cup {NoneI}]
  BY Zenon DEF CliIInv, CliTypeOK
<1>7. IFlag' \in [Cpus -> {0, 1}] /\ \A d \in Cpus \ {c} : IFlag'[d] = IFlag[d]
  BY <1>5, <1>6
<1>8. OtherCpus(c)
  BY <1>5, <1>7, Zenon DEF OtherCpus
<1>9. OwnsLocks(c, f)'
  BY <1>2, <1>5, Zenon DEF RunningOK, OwnsLocks
<1>10. FlagInStep(c, f)'
  <2>1. ncli[c] = Depth(<<>>) + 0
    BY <1>2, <1>3, Zenon DEF RunningOK, FlagInStep
  <2>2. ncli[c] = 0 /\ Depth(f.locks) = 0
    BY <1>3, <2>1, ListStart
  <2> QED
    BY <1>3, <1>5, <2>2 DEF FlagInStep
<1>11. RunningOK(c, f)'
  BY <1>3, <1>9, <1>10 DEF RunningOK
<1> QED
  BY <1>2, <1>4, <1>5, <1>6, <1>7, <1>8, <1>11, SameContext, Zenon

(* swtch: CPU c leaves context x, which is parked, for y, which was. *)
LEMMA Swtch ==
  ASSUME CliIInv, NEW c \in Cpus, NEW x \in Contexts, NEW y \in Contexts, NEW f \in Frames, NEW g \in Frames,
         x = on[c], y \in Threads \cup {c}, \A d \in Cpus : on[d] # y,
         on' = [on EXCEPT ![c] = y], oops' = "none", IFlag' = IFlag, ncli' = ncli, owner' = owner,
         frame' \in [Contexts -> Frames], frame'[x] = f, frame'[y] = g,
         \A z \in Contexts \ {x, y} : frame'[z] = frame[z],
         intena' \in [Cpus -> {0, 1}], \A d \in Cpus \ {c} : intena'[d] = intena[d],
         saved' \in [Threads -> {0, 1}], \A t \in Threads \ {x} : saved'[t] = saved[t],
         RunningOK(c, g)', ParkedOK(x, f)', KindOK(x, f), KindOK(y, g)
  PROVE  CliIInv'
<1>1. /\ on \in [Cpus -> Contexts] /\ IFlag \in [Cpus -> {0, 1}] /\ ncli \in [Cpus -> Nat]
      /\ owner \in [LockSet -> Cpus \cup {NoneI}]
  BY Zenon DEF CliIInv, CliTypeOK
<1>2. on' \in [Cpus -> Contexts] /\ on'[c] = y /\ \A d \in Cpus \ {c} : on'[d] = on[d]
  BY <1>1
<1>3. CliTypeOK'
  BY <1>1, <1>2, Zenon DEF CliTypeOK
<1>4. \A d, e \in Cpus : on[d] = on[e] => d = e
  BY Zenon DEF CliIInv, Apart
<1>5. Apart'
  <2>1. \A d \in Cpus : on'[d] \in Threads \cup {d}
    BY <1>2, Zenon DEF CliIInv, Apart
  <2>2. \A d, e \in Cpus : on'[d] = on'[e] => d = e
    BY <1>2, <1>4, Zenon
  <2> QED
    BY <2>1, <2>2, Zenon DEF Apart
<1>6. OtherCpus(c)
  BY Zenon DEF OtherCpus
<1>7. ASSUME NEW d \in Cpus
      PROVE  RunningOK(d, frame[on[d]])'
  <2>1. CASE d = c
    BY <1>2, <2>1, Zenon
  <2>2. CASE d # c
    <3>1. on[d] \in Contexts \ {x, y} /\ on'[d] = on[d]
      BY <1>1, <1>2, <1>4, <2>2
    <3>2. RunningOK(d, frame[on[d]])
      BY Zenon DEF CliIInv
    <3>3. PICK h : h = frame[on[d]]
      OBVIOUS
    <3>4. RunningOK(d, h)'
      BY <1>6, <2>2, <3>2, <3>3, OtherRuns, Zenon
    <3>5. h = frame'[on'[d]]
      BY <3>1, <3>3, Zenon
    <3> QED
      BY <3>4, <3>5, Zenon
  <2> QED
    BY <2>1, <2>2
<1>8. ASSUME NEW z \in Contexts
      PROVE  (KindOK(z, frame[z]) /\ ((\A d \in Cpus : on[d] # z) => ParkedOK(z, frame[z])))'
  <2>1. CASE z = x
    BY <2>1, Zenon DEF KindOK
  <2>2. CASE z = y
    <3>1. KindOK(z, frame[z])'
      BY <2>2, Zenon DEF KindOK
    <3> QED
      BY <1>2, <2>2, <3>1, Zenon
  <2>3. CASE z \notin {x, y}
    <3>1. frame'[z] = frame[z] /\ KindOK(z, frame[z])
      BY <2>3, Zenon DEF CliIInv
    <3>2. KindOK(z, frame[z])'
      BY <3>1, Zenon DEF KindOK
    <3>3. ASSUME \A d \in Cpus : on'[d] # z
          PROVE  ParkedOK(z, frame[z])'
      <4>1. \A d \in Cpus : on[d] # z
        BY <1>2, <2>3, <3>3, Zenon
      <4>2. ParkedOK(z, frame[z])
        BY <4>1, Zenon DEF CliIInv
      <4>3. z \in Threads => saved'[z] = saved[z]
        BY <2>3, Zenon
      <4> QED
        BY <3>1, <4>2, <4>3, Zenon DEF ParkedOK
    <3> QED
      BY <3>2, <3>3, Zenon
  <2> QED
    BY <2>1, <2>2, <2>3
<1> QED
  BY <1>3, <1>5, <1>7, <1>8, Zenon DEF CliIInv

(* sched: the lock and its depth stay with the CPU, intena goes with the process. *)
LEMMA SchedStep ==
  ASSUME CliIInv, NEW c \in Cpus, Sched(c)
  PROVE  CliIInv'
<1>1. PICK f \in Frames : f = Ctx(c)
  BY Running, Zenon
<1>2. RunningOK(c, f) /\ KindOK(on[c], f) /\ IFlag[c] \in {0, 1} /\ intena[c] \in {0, 1}
  BY <1>1, Running, Zenon
<1>3. PICK x \in Threads : x = on[c]
  BY Zenon DEF Sched
<1>4. f.spin = NoneI /\ f.locks = <<Ptable>> /\ oops = "none"
  BY <1>1, Zenon DEF Sched, Free
<1>5. x \in Contexts /\ c \in Contexts /\ x # c /\ c \notin Threads /\ x \notin Cpus
  BY CliConstants, Zenon
<1>6. \A d \in Cpus : on[d] # c
  <2>1. on[c] # c
    BY <1>3, <1>5, Zenon
  <2>2. \A d \in Cpus : on[d] \in Threads \cup {d}
    BY Zenon DEF CliIInv, Apart
  <2> QED
    BY <1>5, <2>1, <2>2
<1>7. PICK h \in Frames : h = frame[c]
  BY <1>5, Zenon DEF CliIInv, CliTypeOK
<1>8. ParkedOK(c, h) /\ KindOK(c, h)
  BY <1>5, <1>6, <1>7, Zenon DEF CliIInv
<1>9. h.kind = "sched" /\ h.locks = <<>> /\ h.spin = NoneI
  BY <1>8, Zenon DEF ParkedOK
<1>10. <<>> \in LockSeqs /\ <<Ptable>> \in LockSeqs /\ Depth(<<Ptable>>) = 1 /\ Ptable \in LockSet
  BY ListStart, Zenon
<1>11. PICK a \in Frames : a = [f EXCEPT !.locks = <<>>] /\ a.kind = f.kind /\ a.outer = f.outer /\ a.locks = <<>> /\ a.spin = f.spin
  BY <1>10, LocksSet, Zenon
<1>12. PICK b \in Frames : b = [h EXCEPT !.locks = <<Ptable>>] /\ b.kind = h.kind /\ b.outer = h.outer /\ b.locks = <<Ptable>> /\ b.spin = h.spin
  BY <1>10, LocksSet, Zenon
<1>13. frame' \in [Contexts -> Frames] /\ frame'[x] = a /\ frame'[c] = b /\ \A z \in Contexts \ {x, c} : frame'[z] = frame[z]
  <2>1. frame' = [frame EXCEPT ![x].locks = <<>>, ![c].locks = <<Ptable>>]
    BY <1>3, Zenon DEF Sched
  <2>2. frame \in [Contexts -> Frames] /\ frame[x] = f
    BY <1>1, <1>3, Running, Zenon DEF Ctx
  <2>3. frame' = [[frame EXCEPT ![x] = a] EXCEPT ![c] = b]
    BY ONLY <1>5, <1>7, <1>11, <1>12, <2>1, <2>2, Zenon
  <2> QED
    BY ONLY <1>5, <1>11, <1>12, <2>2, <2>3
<1>14. on' = [on EXCEPT ![c] = c] /\ IFlag' = IFlag /\ ncli' = ncli /\ intena' = intena /\ owner' = owner
  BY Zenon DEF Sched
<1>15. saved' = [saved EXCEPT ![x] = intena[c]]
  BY <1>3, Zenon DEF Sched
<1>16. saved \in [Threads -> {0, 1}] /\ intena \in [Cpus -> {0, 1}]
  BY Zenon DEF CliIInv, CliTypeOK
<1>17. saved' \in [Threads -> {0, 1}] /\ saved'[x] = intena[c] /\ \A t \in Threads \ {x} : saved'[t] = saved[t]
  BY ONLY <1>2, <1>3, <1>15, <1>16
<1>18. ncli[c] = 1 /\ IFlag[c] = 0 /\ (f.kind = "call" => intena[c] = 1) /\ (f.kind = "handler" => intena[c] = 0)
  BY <1>2, <1>4, <1>10 DEF RunningOK, FlagInStep
<1>19. \A l \in LockSet : owner[l] = c <=> l \in Range(<<Ptable>>)
  BY <1>2, <1>4, Zenon DEF RunningOK, OwnsLocks
<1>20. oops' = "none"
  <2>1. holding(c, Ptable)
    BY <1>10, <1>19, ListStart, Zenon DEF holding
  <2>2. oops' = CASE ~holding(c, Ptable) -> "sched ptable.lock"
               [] holding(c, Ptable) /\ ncli[c] # 1 -> "sched locks"
               [] holding(c, Ptable) /\ ncli[c] = 1 /\ IFlag[c] = 1 -> "sched interruptible"
               [] OTHER -> oops
    BY Zenon DEF Sched
  <2> QED
    BY ONLY <1>4, <1>18, <2>1, <2>2
<1>21. RunningOK(c, b)'
  <2>1. OwnsLocks(c, b)'
    BY <1>9, <1>12, <1>14, <1>19, Zenon DEF OwnsLocks
  <2>2. FlagInStep(c, b)'
    BY <1>9, <1>10, <1>12, <1>14, <1>18 DEF FlagInStep
  <2> QED
    BY <1>9, <1>12, <2>1, <2>2, Zenon DEF RunningOK
<1>22. ParkedOK(x, a)'
  BY <1>4, <1>5, <1>11, <1>17, <1>18 DEF ParkedOK
<1>23. KindOK(x, a) /\ KindOK(c, b)
  BY <1>2, <1>3, <1>8, <1>11, <1>12, Zenon DEF KindOK
<1>24. c \in Threads \cup {c}
  OBVIOUS
<1> QED
  BY <1>3, <1>5, <1>6, <1>13, <1>14, <1>16, <1>17, <1>20, <1>21, <1>22, <1>23, <1>24, Swtch, Zenon

(* The scheduler's swtch: intena comes back with the process. *)
LEMMA SwitchStep ==
  ASSUME CliIInv, NEW c \in Cpus, NEW t \in Threads, Switch(c, t)
  PROVE  CliIInv'
<1>1. PICK f \in Frames : f = Ctx(c)
  BY Running, Zenon
<1>2. RunningOK(c, f) /\ KindOK(on[c], f) /\ intena[c] \in {0, 1}
  BY <1>1, Running, Zenon
<1>3. on[c] = c /\ oops' = "none" /\ \A d \in Cpus : on[d] # t
  BY Zenon DEF Switch
<1>4. f = frame[c] /\ f.kind = "sched" /\ f.locks = <<Ptable>>
  BY <1>1, <1>3, Zenon DEF Switch, Ctx
<1>5. t \in Contexts /\ c \in Contexts /\ t # c /\ c \notin Threads /\ t \notin Cpus
  BY CliConstants, Zenon
<1>6. PICK h \in Frames : h = frame[t]
  BY <1>5, Zenon DEF CliIInv, CliTypeOK
<1>7. ParkedOK(t, h) /\ KindOK(t, h)
  BY <1>3, <1>5, <1>6, Zenon DEF CliIInv
<1>8. h.locks = <<>> /\ h.spin = NoneI /\ (h.kind = "call" => saved[t] = 1) /\ (h.kind = "handler" => saved[t] = 0)
  BY <1>7, Zenon DEF ParkedOK
<1>9. <<>> \in LockSeqs /\ <<Ptable>> \in LockSeqs /\ Depth(<<Ptable>>) = 1
  BY ListStart, Zenon
<1>10. f.spin = NoneI /\ ncli[c] = 1 /\ IFlag[c] = 0
  <2>1. ncli[c] = 1 + (IF f.spin = NoneI THEN 0 ELSE 1) /\ (ncli[c] > 0 => IFlag[c] = 0)
    BY <1>2, <1>4, <1>9, Zenon DEF RunningOK, FlagInStep
  <2>2. f.spin = NoneI
    <3>1. f.spin # NoneI => f.spin = Ptable /\ f.spin \notin Range(<<Ptable>>)
      BY <1>2, <1>4, ListStart, Zenon DEF RunningOK, OwnsLocks
    <3> QED
      BY <3>1, ListStart, Zenon
  <2> QED
    BY ONLY <2>1, <2>2
<1>11. PICK a \in Frames : a = [f EXCEPT !.locks = <<>>] /\ a.kind = f.kind /\ a.outer = f.outer /\ a.locks = <<>> /\ a.spin = f.spin
  BY <1>9, LocksSet, Zenon
<1>12. PICK b \in Frames : b = [h EXCEPT !.locks = <<Ptable>>] /\ b.kind = h.kind /\ b.outer = h.outer /\ b.locks = <<Ptable>> /\ b.spin = h.spin
  BY <1>9, LocksSet, Zenon
<1>13. PICK g \in Frames : /\ g = [b EXCEPT !.kind = IF @ = "new" THEN "forkret" ELSE @]
                           /\ g.kind = (IF h.kind = "new" THEN "forkret" ELSE h.kind)
                           /\ g.outer = h.outer /\ g.locks = <<Ptable>> /\ g.spin = NoneI
  <2>1. PICK k \in Kinds : k = (IF h.kind = "new" THEN "forkret" ELSE h.kind)
    BY FrameFields DEF Kinds
  <2>2. b.outer \in Kinds \cup {"none"} /\ b.locks \in LockSeqs /\ b.spin \in LockSet \cup {NoneI}
    BY FrameFields, Zenon
  <2>3. [kind |-> k, outer |-> b.outer, locks |-> b.locks, spin |-> b.spin] \in Frames
    BY <2>2, Zenon DEF Frames
  <2>4. PICK g \in Frames : g = [kind |-> k, outer |-> b.outer, locks |-> b.locks, spin |-> b.spin]
    BY <2>3, Zenon
  <2>5. b = [kind |-> b.kind, outer |-> b.outer, locks |-> b.locks, spin |-> b.spin] /\ b.kind = h.kind
    BY <1>12, FrameFields, Zenon
  <2>6. g = [b EXCEPT !.kind = IF @ = "new" THEN "forkret" ELSE @]
    BY ONLY <2>1, <2>4, <2>5
  <2>7. g.kind = k /\ g.outer = b.outer /\ g.locks = b.locks /\ g.spin = b.spin
    BY ONLY <2>4
  <2> QED
    BY <1>8, <1>12, <2>1, <2>6, <2>7, Zenon
<1>14. frame' \in [Contexts -> Frames] /\ frame'[c] = a /\ frame'[t] = g /\ \A z \in Contexts \ {c, t} : frame'[z] = frame[z]
  <2>1. frame' = [frame EXCEPT ![c].locks = <<>>, ![t].locks = <<Ptable>>, ![t].kind = IF @ = "new" THEN "forkret" ELSE @]
    BY Zenon DEF Switch
  <2>2. frame \in [Contexts -> Frames]
    BY Running, Zenon
  <2>3. frame' = [[[frame EXCEPT ![c] = a] EXCEPT ![t] = b] EXCEPT ![t].kind = IF @ = "new" THEN "forkret" ELSE @]
    BY ONLY <1>4, <1>5, <1>6, <1>11, <1>12, <2>1, <2>2, Zenon
  <2>4. PICK m \in [Contexts -> Frames] : /\ m = [[frame EXCEPT ![c] = a] EXCEPT ![t] = b] /\ m[c] = a /\ m[t] = b
                                          /\ \A z \in Contexts \ {c, t} : m[z] = frame[z]
    <3>1. a \in Frames /\ b \in Frames
      OBVIOUS
    <3>2. PICK n \in [Contexts -> Frames] : n = [frame EXCEPT ![c] = a]
      BY ONLY <1>5, <2>2, <3>1, Zenon
    <3>3. n[c] = a /\ \A z \in Contexts \ {c} : n[z] = frame[z]
      BY ONLY <1>5, <2>2, <3>2
    <3>4. PICK m \in [Contexts -> Frames] : m = [n EXCEPT ![t] = b]
      BY ONLY <1>5, <3>1, <3>2, Zenon
    <3>5. m[t] = b /\ \A z \in Contexts \ {t} : m[z] = n[z]
      BY ONLY <1>5, <3>2, <3>4
    <3> QED
      BY ONLY <1>5, <3>2, <3>3, <3>4, <3>5, Zenon
  <2>5. frame' = [m EXCEPT ![t] = g]
    BY ONLY <1>5, <1>13, <2>3, <2>4, Zenon
  <2> QED
    BY ONLY <1>5, <1>13, <2>4, <2>5
<1>15. on' = [on EXCEPT ![c] = t] /\ IFlag' = IFlag /\ ncli' = ncli /\ saved' = saved /\ owner' = owner
  BY Zenon DEF Switch
<1>16. saved \in [Threads -> {0, 1}] /\ intena \in [Cpus -> {0, 1}]
  BY Zenon DEF CliIInv, CliTypeOK
<1>17. intena' = [intena EXCEPT ![c] = IF h.kind = "new" THEN intena[c] ELSE saved[t]]
  BY <1>6, Zenon DEF Switch, Resumed
<1>18. /\ intena' \in [Cpus -> {0, 1}] /\ \A d \in Cpus \ {c} : intena'[d] = intena[d]
       /\ intena'[c] = IF h.kind = "new" THEN intena[c] ELSE saved[t]
  BY ONLY <1>2, <1>16, <1>17
<1>19. \A l \in LockSet : owner[l] = c <=> l \in Range(<<Ptable>>)
  BY <1>2, <1>4, Zenon DEF RunningOK, OwnsLocks
<1>20. RunningOK(c, g)'
  <2>1. OwnsLocks(c, g)'
    BY <1>13, <1>15, <1>19, Zenon DEF OwnsLocks
  <2>2. FlagInStep(c, g)'
    <3>1. ncli'[c] = 1 /\ IFlag'[c] = 0 /\ Depth(g.locks) = 1 /\ g.spin = NoneI
      BY <1>9, <1>10, <1>13, <1>15, Zenon
    <3>2. (g.kind = "call" => intena'[c] = 1) /\ (g.kind = "handler" => intena'[c] = 0)
      BY <1>8, <1>13, <1>18
    <3> QED
      BY ONLY <3>1, <3>2 DEF FlagInStep
  <2>3. g.kind # "new"
    BY <1>13
  <2> QED
    BY <2>1, <2>2, <2>3, Zenon DEF RunningOK
<1>21. ParkedOK(c, a)'
  BY <1>4, <1>5, <1>10, <1>11, Zenon DEF ParkedOK
<1>22. KindOK(c, a)
  BY <1>2, <1>3, <1>11, Zenon DEF KindOK
<1>23. KindOK(t, g)
  BY <1>7, <1>13 DEF KindOK
<1>24. t \in Threads \cup {c} /\ c = on[c] /\ \A z \in Threads \ {c} : saved'[z] = saved[z]
  BY <1>3, <1>15
<1>25. saved' \in [Threads -> {0, 1}]
  BY <1>15, <1>16, Zenon
<1> QED
  BY <1>3, <1>5, <1>14, <1>15, <1>18, <1>20, <1>21, <1>22, <1>23, <1>24, <1>25, Swtch, Zenon

LEMMA CliStep == CliIInv /\ [CliNext]_cliVars => CliIInv'
<1> SUFFICES ASSUME CliIInv, [CliNext]_cliVars
             PROVE  CliIInv'
  BY Zenon
<1>1. CASE CliNext
  BY <1>1, AcquireStep, AcquiredStep, ReleaseStep, InterruptStep, IretStep, SchedStep, StiStep, SwitchStep, Zenon DEF CliNext
<1>2. CASE UNCHANGED cliVars
  <2>1. /\ on' = on /\ IFlag' = IFlag /\ ncli' = ncli /\ intena' = intena
        /\ owner' = owner /\ frame' = frame /\ saved' = saved /\ oops' = oops
    BY <1>2, Zenon DEF cliVars
  <2>2. CliTypeOK' /\ Apart'
    BY <2>1, Zenon DEF CliIInv, CliTypeOK, Apart
  <2>3. ASSUME NEW c \in Cpus
        PROVE  RunningOK(c, frame[on[c]])'
    <3>1. RunningOK(c, frame[on[c]])
      BY Zenon DEF CliIInv
    <3> QED
      BY <2>1, <3>1, Zenon DEF RunningOK, OwnsLocks, FlagInStep
  <2>4. ASSUME NEW x \in Contexts
        PROVE  (KindOK(x, frame[x]) /\ ((\A c \in Cpus : on[c] # x) => ParkedOK(x, frame[x])))'
    <3>1. KindOK(x, frame[x]) /\ ((\A c \in Cpus : on[c] # x) => ParkedOK(x, frame[x]))
      BY Zenon DEF CliIInv
    <3> QED
      BY <2>1, <3>1, Zenon DEF KindOK, ParkedOK
  <2> QED
    BY <2>2, <2>3, <2>4, Zenon DEF CliIInv
<1> QED
  BY <1>1, <1>2, Zenon

(* For every number of CPUs, processes and device locks: locks and interrupts agree on every
   CPU and none of the panics of acquire, release, popcli and sched happens. *)
THEOREM LocksAreNested == CliSpec => []LocksNest
<1>1. CliIInv => LocksNest
  <2> SUFFICES ASSUME CliIInv, NEW c \in Cpus
               PROVE  LET f == Ctx(c)
                          depth == Len(f.locks) + (IF f.spin = NoneI THEN 0 ELSE 1)
                      IN /\ ncli[c] = depth
                         /\ Cardinality({l \in LockSet : owner[l] = c}) = Len(f.locks)
                         /\ depth > 0 => IFlag[c] = 0
                         /\ depth = 0 /\ f.kind = "call" => IFlag[c] = 1
                         /\ depth = 0 /\ f.kind = "handler" => IFlag[c] = 0
    BY Zenon DEF LocksNest, CliIInv, CliTypeOK
  <2>1. PICK f \in Frames : f = Ctx(c)
    BY Running, Zenon
  <2>2. RunningOK(c, f) /\ f.locks \in LockSeqs
    BY <2>1, Running, FrameFields, Zenon
  <2>3. {l \in LockSet : owner[l] = c} = {l \in LockSet : l \in Range(f.locks)}
    BY <2>2, Zenon DEF RunningOK, OwnsLocks
  <2>4. Cardinality({l \in LockSet : owner[l] = c}) = Len(f.locks)
    BY <2>2, <2>3, ListDepth, Zenon DEF Depth
  <2>5. PICK n : n = Len(f.locks) + (IF f.spin = NoneI THEN 0 ELSE 1)
    BY Zenon
  <2>6. ncli[c] = n
    BY <2>2, <2>5, Zenon DEF RunningOK, FlagInStep, Depth
  <2>7. (n > 0 => IFlag[c] = 0) /\ (n = 0 /\ f.kind = "call" => IFlag[c] = 1) /\ (n = 0 /\ f.kind = "handler" => IFlag[c] = 0)
    BY <2>2, <2>6, Zenon DEF RunningOK, FlagInStep
  <2> QED
    BY <2>1, <2>4, <2>5, <2>6, <2>7, Zenon
<1> QED
  BY <1>1, CliStart, CliStep, PTL DEF CliSpec
=============================================================================
