----------------------------- MODULE SchedProof -----------------------------
(***************************************************************************)
(* Proofs about the scheduler, for any number of CPUs, processes and       *)
(* items: SchedInv is an inductive invariant, from which follow that no    *)
(* two CPUs share a kernel stack, that ptable.lock survives every swtch,   *)
(* that sched() never panics and that sleep() loses no wakeup.             *)
(***************************************************************************)
EXTENDS Sched, TLAPS

USE SchedAssumption DEF Procs, Wakers

LEMMA SchedAcquireKeepsInv ==
  ASSUME SchedInv, NEW c \in CPUs, SchedAcquire(c)
  PROVE  SchedInv'
<1>1. TypeOK'
  BY DEF SchedInv, TypeOK, States, PCs, PtPCs, LkPCs, UnlockedPCs, SchedAcquire
<1>2. LockHandover'
  BY DEF SchedInv, TypeOK, LockHandover, HoldsPt, PtPCs, SchedAcquire
<1>3. LkInv'
  BY DEF SchedInv, TypeOK, LkInv, HoldsLk, LkPCs, SchedAcquire
<1>4. OneCpuPerStack'
  BY DEF SchedInv, TypeOK, OneCpuPerStack, SchedAcquire
<1>5. CpuInv'
  BY DEF SchedInv, TypeOK, CpuInv, SchedAcquire
<1>6. RunInv'
  BY DEF SchedInv, TypeOK, RunInv, SchedAcquire
<1>7. OffInv'
  BY DEF SchedInv, TypeOK, OffInv, SchedAcquire
<1>8. SleepInv'
  BY DEF SchedInv, TypeOK, SleepInv, SchedAcquire
<1>9. NoSchedPanic'
  BY DEF SchedInv, TypeOK, NoSchedPanic, SchedAcquire
<1>10. NoLostWakeup'
  BY DEF SchedInv, TypeOK, NoLostWakeup, SchedAcquire
<1>. QED
  BY <1>1, <1>2, <1>3, <1>4, <1>5, <1>6, <1>7, <1>8, <1>9, <1>10 DEF SchedInv

LEMMA SchedSkipKeepsInv ==
  ASSUME SchedInv, NEW c \in CPUs, SchedSkip(c)
  PROVE  SchedInv'
<1>1. TypeOK'
  BY DEF SchedInv, TypeOK, States, PCs, PtPCs, LkPCs, UnlockedPCs, SchedSkip
<1>2. LockHandover'
  BY DEF SchedInv, TypeOK, LockHandover, HoldsPt, PtPCs, SchedSkip
<1>3. LkInv'
  BY DEF SchedInv, TypeOK, LkInv, HoldsLk, LkPCs, SchedSkip
<1>4. OneCpuPerStack'
  BY DEF SchedInv, TypeOK, OneCpuPerStack, SchedSkip
<1>5. CpuInv'
  BY DEF SchedInv, TypeOK, CpuInv, SchedSkip
<1>6. RunInv'
  BY DEF SchedInv, TypeOK, RunInv, SchedSkip
<1>7. OffInv'
  BY DEF SchedInv, TypeOK, OffInv, SchedSkip
<1>8. SleepInv'
  BY DEF SchedInv, TypeOK, SleepInv, SchedSkip
<1>9. NoSchedPanic'
  BY DEF SchedInv, TypeOK, NoSchedPanic, SchedSkip
<1>10. NoLostWakeup'
  BY DEF SchedInv, TypeOK, NoLostWakeup, SchedSkip
<1>. QED
  BY <1>1, <1>2, <1>3, <1>4, <1>5, <1>6, <1>7, <1>8, <1>9, <1>10 DEF SchedInv

LEMMA SchedRunKeepsInv ==
  ASSUME SchedInv, NEW c \in CPUs, SchedRun(c)
  PROVE  SchedInv'
<1>0. ptlock = c /\ (\A d \in CPUs : stack[d] # scan[c]) /\ pc[scan[c]] \in {"forkret", "yielded", "woken"}
  BY DEF SchedRun, SchedInv, LockHandover, HoldsPt, PtPCs, RunInv, OffInv
<1>1. TypeOK'
  BY <1>0 DEF SchedInv, TypeOK, States, PCs, PtPCs, LkPCs, UnlockedPCs, SchedRun
<1>2. LockHandover'
  BY <1>0 DEF SchedInv, TypeOK, LockHandover, HoldsPt, PtPCs, SchedRun
<1>3. LkInv'
  BY <1>0 DEF SchedInv, TypeOK, LkInv, HoldsLk, LkPCs, SchedRun
<1>4. OneCpuPerStack'
  BY <1>0 DEF SchedInv, TypeOK, OneCpuPerStack, SchedRun
<1>5. CpuInv'
  BY <1>0 DEF SchedInv, TypeOK, CpuInv, SchedRun
<1>6. RunInv'
  BY <1>0 DEF SchedInv, TypeOK, RunInv, SchedRun
<1>7. OffInv'
  BY <1>0 DEF SchedInv, TypeOK, OffInv, SchedRun
<1>8. SleepInv'
  BY <1>0 DEF SchedInv, TypeOK, SleepInv, SchedRun
<1>9. NoSchedPanic'
  BY <1>0 DEF SchedInv, TypeOK, NoSchedPanic, SchedRun
<1>10. NoLostWakeup'
  BY <1>0 DEF SchedInv, TypeOK, NoLostWakeup, SchedRun
<1>. QED
  BY <1>1, <1>2, <1>3, <1>4, <1>5, <1>6, <1>7, <1>8, <1>9, <1>10 DEF SchedInv

LEMMA SchedBackKeepsInv ==
  ASSUME SchedInv, NEW c \in CPUs, SchedBack(c)
  PROVE  SchedInv'
<1>1. TypeOK'
  BY DEF SchedInv, TypeOK, States, PCs, PtPCs, LkPCs, UnlockedPCs, CpuInv, OneCpuPerStack,
     SchedBack
<1>2. LockHandover'
  BY DEF SchedInv, TypeOK, LockHandover, HoldsPt, PtPCs, CpuInv, OneCpuPerStack, SchedBack
<1>3. LkInv'
  BY DEF SchedInv, TypeOK, LkInv, HoldsLk, LkPCs, SchedBack
<1>4. OneCpuPerStack'
  BY DEF SchedInv, TypeOK, OneCpuPerStack, SchedBack
<1>5. CpuInv'
  BY DEF SchedInv, TypeOK, CpuInv, SchedBack
<1>6. RunInv'
  BY DEF SchedInv, TypeOK, RunInv, SchedBack
<1>7. OffInv'
  BY DEF SchedInv, TypeOK, OffInv, SchedBack
<1>8. SleepInv'
  BY DEF SchedInv, TypeOK, SleepInv, SchedBack
<1>9. NoSchedPanic'
  BY DEF SchedInv, TypeOK, NoSchedPanic, SchedBack
<1>10. NoLostWakeup'
  BY DEF SchedInv, TypeOK, NoLostWakeup, SchedBack
<1>. QED
  BY <1>1, <1>2, <1>3, <1>4, <1>5, <1>6, <1>7, <1>8, <1>9, <1>10 DEF SchedInv

LEMMA SchedReleaseKeepsInv ==
  ASSUME SchedInv, NEW c \in CPUs, SchedRelease(c)
  PROVE  SchedInv'
<1>1. TypeOK'
  BY DEF SchedInv, TypeOK, States, PCs, PtPCs, LkPCs, UnlockedPCs, SchedRelease
<1>2. LockHandover'
  BY DEF SchedInv, TypeOK, LockHandover, HoldsPt, PtPCs, SchedRelease
<1>3. LkInv'
  BY DEF SchedInv, TypeOK, LkInv, HoldsLk, LkPCs, SchedRelease
<1>4. OneCpuPerStack'
  BY DEF SchedInv, TypeOK, OneCpuPerStack, SchedRelease
<1>5. CpuInv'
  BY DEF SchedInv, TypeOK, CpuInv, SchedRelease
<1>6. RunInv'
  BY DEF SchedInv, TypeOK, RunInv, SchedRelease
<1>7. OffInv'
  BY DEF SchedInv, TypeOK, OffInv, SchedRelease
<1>8. SleepInv'
  BY DEF SchedInv, TypeOK, SleepInv, SchedRelease
<1>9. NoSchedPanic'
  BY DEF SchedInv, TypeOK, NoSchedPanic, SchedRelease
<1>10. NoLostWakeup'
  BY DEF SchedInv, TypeOK, NoLostWakeup, SchedRelease
<1>. QED
  BY <1>1, <1>2, <1>3, <1>4, <1>5, <1>6, <1>7, <1>8, <1>9, <1>10 DEF SchedInv

LEMMA ResumeKeepsInv ==
  ASSUME SchedInv, NEW c \in CPUs, NEW p \in Procs, stack[c] = p, Resume(c, p)
  PROVE  SchedInv'
<1>0. pc[p] \in {"forkret", "yielded"} /\ ret[p] \in {"user", "syscall", "relock", "exit"} /\ ptlock = c /\ state[p] = "RUNNING"
  BY Zenon DEF Resume, SchedInv, TypeOK, UnlockedPCs, LockHandover, HoldsPt, PtPCs, RunInv
<1>1. TypeOK'
  BY <1>0 DEF SchedInv, TypeOK, States, PCs, PtPCs, LkPCs, UnlockedPCs, Resume, Goto
<1>2. LockHandover'
  BY <1>0 DEF SchedInv, TypeOK, LockHandover, HoldsPt, PtPCs, Resume, Goto
<1>3. LkInv'
  BY <1>0 DEF SchedInv, TypeOK, LkInv, HoldsLk, LkPCs, Resume, Goto
<1>4. OneCpuPerStack'
  BY <1>0 DEF SchedInv, TypeOK, OneCpuPerStack, Resume, Goto
<1>5. CpuInv'
  BY <1>0 DEF SchedInv, TypeOK, CpuInv, Resume, Goto
<1>6. RunInv'
  BY <1>0 DEF SchedInv, TypeOK, RunInv, Resume, Goto
<1>7. OffInv'
  BY <1>0 DEF SchedInv, TypeOK, OffInv, Resume, Goto
<1>8. SleepInv'
  BY <1>0 DEF SchedInv, TypeOK, SleepInv, Resume, Goto
<1>9. NoSchedPanic'
  BY <1>0 DEF SchedInv, TypeOK, NoSchedPanic, Resume, Goto
<1>10. NoLostWakeup'
  BY <1>0 DEF SchedInv, TypeOK, NoLostWakeup, Resume, Goto
<1>. QED
  BY <1>1, <1>2, <1>3, <1>4, <1>5, <1>6, <1>7, <1>8, <1>9, <1>10 DEF SchedInv

LEMMA YieldKeepsInv ==
  ASSUME SchedInv, NEW c \in CPUs, NEW p \in Procs, stack[c] = p, Yield(c, p)
  PROVE  SchedInv'
<1>0. pc[p] \in {"user", "syscall", "relock", "exit"} /\ state[p] = "RUNNING"
  BY DEF Yield, Interruptible, SchedInv, RunInv
<1>1. TypeOK'
  BY <1>0 DEF SchedInv, TypeOK, States, PCs, PtPCs, LkPCs, UnlockedPCs, Yield, Goto
<1>2. LockHandover'
  BY <1>0 DEF SchedInv, TypeOK, LockHandover, HoldsPt, PtPCs, CpuInv, OneCpuPerStack,
     Yield, Goto
<1>3. LkInv'
  BY <1>0 DEF SchedInv, TypeOK, LkInv, HoldsLk, LkPCs, Yield, Goto
<1>4. OneCpuPerStack'
  BY <1>0 DEF SchedInv, TypeOK, OneCpuPerStack, Yield, Goto
<1>5. CpuInv'
  BY <1>0 DEF SchedInv, TypeOK, CpuInv, Yield, Goto
<1>6. RunInv'
  BY <1>0 DEF SchedInv, TypeOK, RunInv, Yield, Goto
<1>7. OffInv'
  BY <1>0 DEF SchedInv, TypeOK, OffInv, Yield, Goto
<1>8. SleepInv'
  BY SMTT(60), <1>0 DEF SchedInv, TypeOK, SleepInv, Yield, Goto
<1>9. NoSchedPanic'
  BY <1>0 DEF SchedInv, TypeOK, NoSchedPanic, Yield, Goto
<1>10. NoLostWakeup'
  BY <1>0 DEF SchedInv, TypeOK, NoLostWakeup, Yield, Goto
<1>. QED
  BY <1>1, <1>2, <1>3, <1>4, <1>5, <1>6, <1>7, <1>8, <1>9, <1>10 DEF SchedInv

LEMMA YieldSwtchKeepsInv ==
  ASSUME SchedInv, NEW c \in CPUs, NEW p \in Procs, stack[c] = p, YieldSwtch(c, p)
  PROVE  SchedInv'
<1>0. ptlock' = ptlock /\ lk' = lk /\ state' = state /\ chan' = chan /\ killed' = killed
      /\ curr' = curr /\ scan' = scan /\ ret' = ret /\ items' = items /\ made' = made
      /\ ptlock = c /\ lk # c /\ pc[p] = "yield" /\ state[p] = "RUNNABLE"
      /\ pc' = [pc EXCEPT ![p] = "yielded"] /\ stack' = [stack EXCEPT ![c] = Free]
  BY Zenon DEF YieldSwtch, Swtch, Goto, SchedInv, LockHandover, HoldsPt, PtPCs, LkInv, HoldsLk, LkPCs, RunInv
<1>1. TypeOK'
  BY <1>0 DEF SchedInv, TypeOK, States, PCs, PtPCs, LkPCs, UnlockedPCs
<1>2. LockHandover'
  BY <1>0 DEF SchedInv, TypeOK, LockHandover, HoldsPt, PtPCs, CpuInv, OneCpuPerStack
<1>3. LkInv'
  BY <1>0 DEF SchedInv, TypeOK, LkInv, HoldsLk, LkPCs
<1>4. OneCpuPerStack'
  BY <1>0 DEF SchedInv, TypeOK, OneCpuPerStack
<1>5. CpuInv'
  BY <1>0 DEF SchedInv, TypeOK, CpuInv
<1>6. RunInv'
  BY <1>0 DEF SchedInv, TypeOK, RunInv, CpuInv, OneCpuPerStack
<1>7. OffInv'
  BY <1>0 DEF SchedInv, TypeOK, OffInv
<1>8. SleepInv'
  BY Zenon, <1>0 DEF SchedInv, TypeOK, SleepInv
<1>9. NoSchedPanic'
  BY <1>0 DEF SchedInv, TypeOK, NoSchedPanic
<1>10. NoLostWakeup'
  BY <1>0 DEF SchedInv, TypeOK, NoLostWakeup
<1>. QED
  BY <1>1, <1>2, <1>3, <1>4, <1>5, <1>6, <1>7, <1>8, <1>9, <1>10 DEF SchedInv

LEMMA SyscallKeepsInv ==
  ASSUME SchedInv, NEW c \in CPUs, NEW p \in Procs, stack[c] = p, Syscall(c, p)
  PROVE  SchedInv'
<1>1. TypeOK'
  BY DEF SchedInv, TypeOK, States, PCs, PtPCs, LkPCs, UnlockedPCs, Syscall, Goto
<1>2. LockHandover'
  BY DEF SchedInv, TypeOK, LockHandover, HoldsPt, PtPCs, Syscall, Goto
<1>3. LkInv'
  BY DEF SchedInv, TypeOK, LkInv, HoldsLk, LkPCs, Syscall, Goto
<1>4. OneCpuPerStack'
  BY DEF SchedInv, TypeOK, OneCpuPerStack, Syscall, Goto
<1>5. CpuInv'
  BY DEF SchedInv, TypeOK, CpuInv, Syscall, Goto
<1>6. RunInv'
  BY DEF SchedInv, TypeOK, RunInv, Syscall, Goto
<1>7. OffInv'
  BY DEF SchedInv, TypeOK, OffInv, Syscall, Goto
<1>8. SleepInv'
  BY Zenon DEF SchedInv, TypeOK, SleepInv, Syscall, Goto
<1>9. NoSchedPanic'
  BY DEF SchedInv, TypeOK, NoSchedPanic, Syscall, Goto
<1>10. NoLostWakeup'
  BY DEF SchedInv, TypeOK, NoLostWakeup, Syscall, Goto
<1>. QED
  BY <1>1, <1>2, <1>3, <1>4, <1>5, <1>6, <1>7, <1>8, <1>9, <1>10 DEF SchedInv

LEMMA LockKeepsInv ==
  ASSUME SchedInv, NEW c \in CPUs, NEW p \in Procs, stack[c] = p, Lock(c, p)
  PROVE  SchedInv'
<1>1. TypeOK'
  BY DEF SchedInv, TypeOK, States, PCs, PtPCs, LkPCs, UnlockedPCs, Lock, Goto
<1>2. LockHandover'
  BY DEF SchedInv, TypeOK, LockHandover, HoldsPt, PtPCs, Lock, Goto
<1>3. LkInv'
  BY DEF SchedInv, TypeOK, LkInv, HoldsLk, LkPCs, CpuInv, OneCpuPerStack, Lock, Goto
<1>4. OneCpuPerStack'
  BY DEF SchedInv, TypeOK, OneCpuPerStack, Lock, Goto
<1>5. CpuInv'
  BY DEF SchedInv, TypeOK, CpuInv, Lock, Goto
<1>6. RunInv'
  BY DEF SchedInv, TypeOK, RunInv, Lock, Goto
<1>7. OffInv'
  BY DEF SchedInv, TypeOK, OffInv, Lock, Goto
<1>8. SleepInv'
  BY Zenon DEF SchedInv, TypeOK, SleepInv, Lock, Goto
<1>9. NoSchedPanic'
  BY DEF SchedInv, TypeOK, NoSchedPanic, Lock, Goto
<1>10. NoLostWakeup'
  BY Zenon DEF SchedInv, TypeOK, NoLostWakeup, Lock, Goto
<1>. QED
  BY <1>1, <1>2, <1>3, <1>4, <1>5, <1>6, <1>7, <1>8, <1>9, <1>10 DEF SchedInv

LEMMA TakeKeepsInv ==
  ASSUME SchedInv, NEW c \in CPUs, NEW p \in Procs, stack[c] = p, Take(c, p)
  PROVE  SchedInv'
<1>0. lk = c
  BY DEF Take, SchedInv, LkInv, HoldsLk, LkPCs
<1>1. TypeOK'
  BY <1>0 DEF SchedInv, TypeOK, States, PCs, PtPCs, LkPCs, UnlockedPCs, Take, Goto
<1>2. LockHandover'
  BY <1>0 DEF SchedInv, TypeOK, LockHandover, HoldsPt, PtPCs, Take, Goto
<1>3. LkInv'
  BY <1>0 DEF SchedInv, TypeOK, LkInv, HoldsLk, LkPCs, Take, Goto
<1>4. OneCpuPerStack'
  BY <1>0 DEF SchedInv, TypeOK, OneCpuPerStack, Take, Goto
<1>5. CpuInv'
  BY <1>0 DEF SchedInv, TypeOK, CpuInv, Take, Goto
<1>6. RunInv'
  BY <1>0 DEF SchedInv, TypeOK, RunInv, Take, Goto
<1>7. OffInv'
  BY <1>0 DEF SchedInv, TypeOK, OffInv, Take, Goto
<1>8. SleepInv'
  BY <1>0 DEF SchedInv, TypeOK, SleepInv, CpuInv, OneCpuPerStack, Take, Goto
<1>9. NoSchedPanic'
  BY <1>0 DEF SchedInv, TypeOK, NoSchedPanic, Take, Goto
<1>10. NoLostWakeup'
  BY <1>0 DEF SchedInv, TypeOK, NoLostWakeup, Take, Goto
<1>. QED
  BY <1>1, <1>2, <1>3, <1>4, <1>5, <1>6, <1>7, <1>8, <1>9, <1>10 DEF SchedInv

LEMMA GiveUpKeepsInv ==
  ASSUME SchedInv, NEW c \in CPUs, NEW p \in Procs, stack[c] = p, GiveUp(c, p)
  PROVE  SchedInv'
<1>1. TypeOK'
  BY DEF SchedInv, TypeOK, States, PCs, PtPCs, LkPCs, UnlockedPCs, GiveUp, Goto
<1>2. LockHandover'
  BY DEF SchedInv, TypeOK, LockHandover, HoldsPt, PtPCs, GiveUp, Goto
<1>3. LkInv'
  BY DEF SchedInv, TypeOK, LkInv, HoldsLk, LkPCs, GiveUp, Goto
<1>4. OneCpuPerStack'
  BY DEF SchedInv, TypeOK, OneCpuPerStack, GiveUp, Goto
<1>5. CpuInv'
  BY DEF SchedInv, TypeOK, CpuInv, GiveUp, Goto
<1>6. RunInv'
  BY DEF SchedInv, TypeOK, RunInv, GiveUp, Goto
<1>7. OffInv'
  BY DEF SchedInv, TypeOK, OffInv, GiveUp, Goto
<1>8. SleepInv'
  BY DEF SchedInv, TypeOK, SleepInv, GiveUp, Goto
<1>9. NoSchedPanic'
  BY DEF SchedInv, TypeOK, NoSchedPanic, GiveUp, Goto
<1>10. NoLostWakeup'
  BY DEF SchedInv, TypeOK, NoLostWakeup, GiveUp, Goto
<1>. QED
  BY <1>1, <1>2, <1>3, <1>4, <1>5, <1>6, <1>7, <1>8, <1>9, <1>10 DEF SchedInv

LEMMA CallSleepKeepsInv ==
  ASSUME SchedInv, NEW c \in CPUs, NEW p \in Procs, stack[c] = p, CallSleep(c, p)
  PROVE  SchedInv'
<1>1. TypeOK'
  BY DEF SchedInv, TypeOK, States, PCs, PtPCs, LkPCs, UnlockedPCs, CallSleep, Goto
<1>2. LockHandover'
  BY DEF SchedInv, TypeOK, LockHandover, HoldsPt, PtPCs, CallSleep, Goto
<1>3. LkInv'
  BY DEF SchedInv, TypeOK, LkInv, HoldsLk, LkPCs, CallSleep, Goto
<1>4. OneCpuPerStack'
  BY DEF SchedInv, TypeOK, OneCpuPerStack, CallSleep, Goto
<1>5. CpuInv'
  BY DEF SchedInv, TypeOK, CpuInv, CallSleep, Goto
<1>6. RunInv'
  BY DEF SchedInv, TypeOK, RunInv, CallSleep, Goto
<1>7. OffInv'
  BY DEF SchedInv, TypeOK, OffInv, CallSleep, Goto
<1>8. SleepInv'
  BY DEF SchedInv, TypeOK, SleepInv, CallSleep, Goto
<1>9. NoSchedPanic'
  BY DEF SchedInv, TypeOK, NoSchedPanic, CallSleep, Goto
<1>10. NoLostWakeup'
  BY DEF SchedInv, TypeOK, NoLostWakeup, CallSleep, Goto
<1>. QED
  BY <1>1, <1>2, <1>3, <1>4, <1>5, <1>6, <1>7, <1>8, <1>9, <1>10 DEF SchedInv

LEMMA SleepAcquireKeepsInv ==
  ASSUME SchedInv, NEW c \in CPUs, NEW p \in Procs, stack[c] = p, SleepAcquire(c, p)
  PROVE  SchedInv'
<1>1. TypeOK'
  BY DEF SchedInv, TypeOK, States, PCs, PtPCs, LkPCs, UnlockedPCs, SleepAcquire, Goto
<1>2. LockHandover'
  BY DEF SchedInv, TypeOK, LockHandover, HoldsPt, PtPCs, CpuInv, OneCpuPerStack,
     SleepAcquire, Goto
<1>3. LkInv'
  BY DEF SchedInv, TypeOK, LkInv, HoldsLk, LkPCs, SleepAcquire, Goto
<1>4. OneCpuPerStack'
  BY DEF SchedInv, TypeOK, OneCpuPerStack, SleepAcquire, Goto
<1>5. CpuInv'
  BY DEF SchedInv, TypeOK, CpuInv, SleepAcquire, Goto
<1>6. RunInv'
  BY DEF SchedInv, TypeOK, RunInv, SleepAcquire, Goto
<1>7. OffInv'
  BY DEF SchedInv, TypeOK, OffInv, SleepAcquire, Goto
<1>8. SleepInv'
  BY Zenon DEF SchedInv, TypeOK, SleepInv, SleepAcquire, Goto
<1>9. NoSchedPanic'
  BY DEF SchedInv, TypeOK, NoSchedPanic, SleepAcquire, Goto
<1>10. NoLostWakeup'
  BY DEF SchedInv, TypeOK, NoLostWakeup, SleepAcquire, Goto
<1>. QED
  BY <1>1, <1>2, <1>3, <1>4, <1>5, <1>6, <1>7, <1>8, <1>9, <1>10 DEF SchedInv

LEMMA SleepReleaseKeepsInv ==
  ASSUME SchedInv, NEW c \in CPUs, NEW p \in Procs, stack[c] = p, SleepRelease(c, p)
  PROVE  SchedInv'
<1>1. TypeOK'
  BY DEF SchedInv, TypeOK, States, PCs, PtPCs, LkPCs, UnlockedPCs, SleepRelease, Goto
<1>2. LockHandover'
  BY DEF SchedInv, TypeOK, LockHandover, HoldsPt, PtPCs, SleepRelease, Goto
<1>3. LkInv'
  BY Zenon DEF SchedInv, TypeOK, LkInv, HoldsLk, LkPCs, SleepRelease, Goto
<1>4. OneCpuPerStack'
  BY DEF SchedInv, TypeOK, OneCpuPerStack, SleepRelease, Goto
<1>5. CpuInv'
  BY DEF SchedInv, TypeOK, CpuInv, SleepRelease, Goto
<1>6. RunInv'
  BY DEF SchedInv, TypeOK, RunInv, SleepRelease, Goto
<1>7. OffInv'
  BY DEF SchedInv, TypeOK, OffInv, SleepRelease, Goto
<1>8. SleepInv'
  BY DEF SchedInv, TypeOK, SleepInv, SleepRelease, Goto
<1>9. NoSchedPanic'
  BY DEF SchedInv, TypeOK, NoSchedPanic, SleepRelease, Goto
<1>10. NoLostWakeup'
  BY DEF SchedInv, TypeOK, NoLostWakeup, SleepInv, OffInv, OneCpuPerStack, SleepRelease,
     Goto
<1>. QED
  BY <1>1, <1>2, <1>3, <1>4, <1>5, <1>6, <1>7, <1>8, <1>9, <1>10 DEF SchedInv

LEMMA SleepMarkKeepsInv ==
  ASSUME SchedInv, NEW c \in CPUs, NEW p \in Procs, stack[c] = p, SleepMark(c, p)
  PROVE  SchedInv'
<1>1. TypeOK'
  BY Zenon DEF SchedInv, TypeOK, States, PCs, PtPCs, LkPCs, UnlockedPCs, SleepMark, Goto
<1>2. LockHandover'
  BY DEF SchedInv, TypeOK, LockHandover, HoldsPt, PtPCs, SleepMark, Goto
<1>3. LkInv'
  BY DEF SchedInv, TypeOK, LkInv, HoldsLk, LkPCs, SleepMark, Goto
<1>4. OneCpuPerStack'
  BY DEF SchedInv, TypeOK, OneCpuPerStack, SleepMark, Goto
<1>5. CpuInv'
  BY DEF SchedInv, TypeOK, CpuInv, SleepMark, Goto
<1>6. RunInv'
  BY DEF SchedInv, TypeOK, RunInv, SleepMark, Goto
<1>7. OffInv'
  BY DEF SchedInv, TypeOK, OffInv, SleepMark, Goto
<1>8. SleepInv'
  BY DEF SchedInv, TypeOK, SleepInv, SleepMark, Goto
<1>9. NoSchedPanic'
  BY DEF SchedInv, TypeOK, NoSchedPanic, SleepMark, Goto
<1>10. NoLostWakeup'
  BY DEF SchedInv, TypeOK, NoLostWakeup, SleepMark, Goto
<1>. QED
  BY <1>1, <1>2, <1>3, <1>4, <1>5, <1>6, <1>7, <1>8, <1>9, <1>10 DEF SchedInv

LEMMA SleepSwtchKeepsInv ==
  ASSUME SchedInv, NEW c \in CPUs, NEW p \in Procs, stack[c] = p, SleepSwtch(c, p)
  PROVE  SchedInv'
<1>0. ptlock' = ptlock /\ lk' = lk /\ state' = state /\ chan' = chan /\ killed' = killed
      /\ curr' = curr /\ scan' = scan /\ ret' = ret /\ items' = items /\ made' = made
      /\ ptlock = c /\ lk # c /\ pc[p] = "sleepswtch" /\ state[p] = "SLEEPING"
      /\ pc' = [pc EXCEPT ![p] = "woken"] /\ stack' = [stack EXCEPT ![c] = Free]
  BY Zenon DEF SleepSwtch, Swtch, Goto, SchedInv, LockHandover, HoldsPt, PtPCs, LkInv, HoldsLk, LkPCs, RunInv
<1>1. TypeOK'
  BY SMTT(30), <1>0 DEF SchedInv, TypeOK, States, PCs, PtPCs, LkPCs, UnlockedPCs
<1>2. LockHandover'
  BY <1>0 DEF SchedInv, TypeOK, LockHandover, HoldsPt, PtPCs, CpuInv, OneCpuPerStack
<1>3. LkInv'
  BY <1>0 DEF SchedInv, TypeOK, LkInv, HoldsLk, LkPCs
<1>4. OneCpuPerStack'
  BY <1>0 DEF SchedInv, TypeOK, OneCpuPerStack
<1>5. CpuInv'
  BY SMTT(30), <1>0 DEF SchedInv, TypeOK, CpuInv
<1>6. RunInv'
  BY <1>0 DEF SchedInv, TypeOK, RunInv, CpuInv, OneCpuPerStack
<1>7. OffInv'
  BY <1>0 DEF SchedInv, TypeOK, OffInv
<1>8. SleepInv'
  BY Zenon, <1>0 DEF SchedInv, TypeOK, SleepInv
<1>9. NoSchedPanic'
  BY SMTT(30), <1>0 DEF SchedInv, TypeOK, NoSchedPanic
<1>10. NoLostWakeup'
  BY <1>0 DEF SchedInv, TypeOK, NoLostWakeup
<1>. QED
  BY <1>1, <1>2, <1>3, <1>4, <1>5, <1>6, <1>7, <1>8, <1>9, <1>10 DEF SchedInv

LEMMA SleepEndKeepsInv ==
  ASSUME SchedInv, NEW c \in CPUs, NEW p \in Procs, stack[c] = p, SleepEnd(c, p)
  PROVE  SchedInv'
<1>1. TypeOK'
  BY DEF SchedInv, TypeOK, States, PCs, PtPCs, LkPCs, UnlockedPCs, SleepEnd, Goto
<1>2. LockHandover'
  BY DEF SchedInv, TypeOK, LockHandover, HoldsPt, PtPCs, SleepEnd, Goto
<1>3. LkInv'
  BY DEF SchedInv, TypeOK, LkInv, HoldsLk, LkPCs, SleepEnd, Goto
<1>4. OneCpuPerStack'
  BY DEF SchedInv, TypeOK, OneCpuPerStack, SleepEnd, Goto
<1>5. CpuInv'
  BY DEF SchedInv, TypeOK, CpuInv, SleepEnd, Goto
<1>6. RunInv'
  BY DEF SchedInv, TypeOK, RunInv, SleepEnd, Goto
<1>7. OffInv'
  BY Zenon DEF SchedInv, TypeOK, OffInv, SleepEnd, Goto
<1>8. SleepInv'
  BY DEF SchedInv, TypeOK, SleepInv, SleepEnd, Goto
<1>9. NoSchedPanic'
  BY DEF SchedInv, TypeOK, NoSchedPanic, SleepEnd, Goto
<1>10. NoLostWakeup'
  BY SMTT(30) DEF SchedInv, TypeOK, NoLostWakeup, SleepEnd, Goto
<1>. QED
  BY <1>1, <1>2, <1>3, <1>4, <1>5, <1>6, <1>7, <1>8, <1>9, <1>10 DEF SchedInv

LEMMA MakeKeepsInv ==
  ASSUME SchedInv, NEW c \in CPUs, NEW p \in Procs, stack[c] = p, Make(c, p)
  PROVE  SchedInv'
<1>1. TypeOK'
  BY DEF SchedInv, TypeOK, States, PCs, PtPCs, LkPCs, UnlockedPCs, Make, Goto
<1>2. LockHandover'
  BY Zenon DEF SchedInv, TypeOK, LockHandover, HoldsPt, PtPCs, Make, Goto
<1>3. LkInv'
  BY DEF SchedInv, TypeOK, LkInv, HoldsLk, LkPCs, Make, Goto
<1>4. OneCpuPerStack'
  BY DEF SchedInv, TypeOK, OneCpuPerStack, Make, Goto
<1>5. CpuInv'
  BY Zenon DEF SchedInv, TypeOK, CpuInv, Make, Goto
<1>6. RunInv'
  BY DEF SchedInv, TypeOK, RunInv, Make, Goto
<1>7. OffInv'
  BY DEF SchedInv, TypeOK, OffInv, Make, Goto
<1>8. SleepInv'
  <2>1. \A q \in Procs : pc[q] \notin {"sleep", "sleeplocked"}
    <3> SUFFICES ASSUME NEW q \in Procs, pc[q] \in {"sleep", "sleeplocked"}
                 PROVE  FALSE
      OBVIOUS
    <3>1. PICK d \in CPUs : stack[d] = q
      BY DEF SchedInv, OffInv
    <3>2. lk = d /\ lk = c
      BY <3>1 DEF SchedInv, LkInv, HoldsLk, LkPCs, Make
    <3>. QED
      BY <3>1, <3>2 DEF Make
  <2>. QED
    BY <2>1 DEF SchedInv, TypeOK, SleepInv, Make, Goto
<1>9. NoSchedPanic'
  BY DEF SchedInv, TypeOK, NoSchedPanic, Make, Goto
<1>10. NoLostWakeup'
  BY DEF SchedInv, TypeOK, NoLostWakeup, Make, Goto
<1>. QED
  BY <1>1, <1>2, <1>3, <1>4, <1>5, <1>6, <1>7, <1>8, <1>9, <1>10 DEF SchedInv

LEMMA MakeNothingKeepsInv ==
  ASSUME SchedInv, NEW c \in CPUs, NEW p \in Procs, stack[c] = p, MakeNothing(c, p)
  PROVE  SchedInv'
<1>0. lk = c
  BY DEF MakeNothing, SchedInv, LkInv, HoldsLk, LkPCs
<1>1. TypeOK'
  BY <1>0 DEF SchedInv, TypeOK, States, PCs, PtPCs, LkPCs, UnlockedPCs, MakeNothing, Goto
<1>2. LockHandover'
  BY Zenon, <1>0 DEF SchedInv, TypeOK, LockHandover, HoldsPt, PtPCs, MakeNothing, Goto
<1>3. LkInv'
  BY SMTT(30), <1>0 DEF SchedInv, TypeOK, LkInv, HoldsLk, LkPCs, MakeNothing, Goto
<1>4. OneCpuPerStack'
  BY <1>0 DEF SchedInv, TypeOK, OneCpuPerStack, MakeNothing, Goto
<1>5. CpuInv'
  BY SMTT(30), <1>0 DEF SchedInv, TypeOK, CpuInv, MakeNothing, Goto
<1>6. RunInv'
  BY <1>0 DEF SchedInv, TypeOK, RunInv, MakeNothing, Goto
<1>7. OffInv'
  BY SMTT(30), <1>0 DEF SchedInv, TypeOK, OffInv, MakeNothing, Goto
<1>8. SleepInv'
  BY <1>0 DEF SchedInv, TypeOK, SleepInv, MakeNothing, Goto
<1>9. NoSchedPanic'
  BY SMTT(30), <1>0 DEF SchedInv, TypeOK, NoSchedPanic, MakeNothing, Goto
<1>10. NoLostWakeup'
  BY <1>0 DEF SchedInv, TypeOK, NoLostWakeup, MakeNothing, Goto
<1>. QED
  BY <1>1, <1>2, <1>3, <1>4, <1>5, <1>6, <1>7, <1>8, <1>9, <1>10 DEF SchedInv

LEMMA WakeupKeepsInv ==
  ASSUME SchedInv, NEW c \in CPUs, NEW p \in Procs, stack[c] = p, Wakeup(c, p)
  PROVE  SchedInv'
<1>0. \A d \in CPUs : stack[d] # Free => pc[stack[d]] \notin PtPCs
  BY SMTT(30) DEF Wakeup, SchedInv, LockHandover, HoldsPt
<1>1. TypeOK'
  BY <1>0 DEF SchedInv, TypeOK, States, PCs, PtPCs, LkPCs, UnlockedPCs, Wakeup, Wakeup1,
     Goto
<1>2. LockHandover'
  BY SMTT(30), <1>0 DEF SchedInv, TypeOK, LockHandover, HoldsPt, PtPCs, Wakeup, Wakeup1, Goto
<1>3. LkInv'
  BY <1>0 DEF SchedInv, TypeOK, LkInv, HoldsLk, LkPCs, Wakeup, Wakeup1, Goto
<1>4. OneCpuPerStack'
  BY SMTT(30), <1>0 DEF SchedInv, TypeOK, OneCpuPerStack, Wakeup, Wakeup1, Goto
<1>5. CpuInv'
  BY <1>0 DEF SchedInv, TypeOK, CpuInv, Wakeup, Wakeup1, Goto
<1>6. RunInv'
  <2>1. /\ stack' = stack
        /\ \A q \in Procs : /\ pc'[q] = IF q = p THEN "unlock" ELSE pc[q]
                            /\ state'[q] = IF state[q] = "SLEEPING" /\ chan[q] = 1 THEN "RUNNABLE" ELSE state[q]
    BY DEF SchedInv, TypeOK, Wakeup, Wakeup1, Goto
  <2>2. \A d \in CPUs, q \in Procs : stack[d] = q => pc[q] # "sleepswtch" /\ q # Free
    BY <1>0 DEF SchedInv, TypeOK, PtPCs
  <2>3. pc[p] = "wakeup"
    BY DEF Wakeup
  <2>. QED
    BY <2>1, <2>2, <2>3 DEF SchedInv, RunInv
<1>7. OffInv'
  BY <1>0 DEF SchedInv, TypeOK, OffInv, Wakeup, Wakeup1, Goto
<1>8. SleepInv'
  BY <1>0 DEF SchedInv, TypeOK, SleepInv, Wakeup, Wakeup1, Goto
<1>9. NoSchedPanic'
  BY <1>0 DEF SchedInv, TypeOK, NoSchedPanic, Wakeup, Wakeup1, Goto
<1>10. NoLostWakeup'
  <2> SUFFICES ASSUME NEW q \in Procs
               PROVE  state'[q] # "SLEEPING" /\ pc'[q] # "asleep"
    BY DEF NoLostWakeup
  <2>1. CASE \E d \in CPUs : stack[d] = q
    <3>1. pc[q] \notin {"asleep", "sleepswtch"}
      BY <1>0, <2>1 DEF PtPCs
    <3>2. state[q] # "SLEEPING"
      BY <2>1, <3>1 DEF SchedInv, RunInv
    <3>. QED
      BY <3>1, <3>2 DEF SchedInv, TypeOK, Wakeup, Wakeup1, Goto
  <2>2. CASE \A d \in CPUs : stack[d] # q
    <3>1. pc[q] # "asleep" /\ (state[q] = "SLEEPING" => chan[q] = 1)
      BY SMTT(30), <2>2 DEF SchedInv, OffInv, SleepInv
    <3>. QED
      BY <3>1 DEF SchedInv, TypeOK, Wakeup, Wakeup1, Goto
  <2>. QED
    BY <2>1, <2>2
<1>. QED
  BY <1>1, <1>2, <1>3, <1>4, <1>5, <1>6, <1>7, <1>8, <1>9, <1>10 DEF SchedInv

LEMMA UnlockKeepsInv ==
  ASSUME SchedInv, NEW c \in CPUs, NEW p \in Procs, stack[c] = p, Unlock(c, p)
  PROVE  SchedInv'
<1>0. lk = c
  BY DEF Unlock, SchedInv, LkInv, HoldsLk, LkPCs
<1>1. TypeOK'
  BY Zenon, <1>0 DEF SchedInv, TypeOK, States, PCs, PtPCs, LkPCs, UnlockedPCs, Unlock, Goto
<1>2. LockHandover'
  BY <1>0 DEF SchedInv, TypeOK, LockHandover, HoldsPt, PtPCs, Unlock, Goto
<1>3. LkInv'
  BY SMTT(30), <1>0 DEF SchedInv, TypeOK, LkInv, HoldsLk, LkPCs, Unlock, Goto
<1>4. OneCpuPerStack'
  BY Zenon, <1>0 DEF SchedInv, TypeOK, OneCpuPerStack, Unlock, Goto
<1>5. CpuInv'
  BY SMTT(30), <1>0 DEF SchedInv, TypeOK, CpuInv, Unlock, Goto
<1>6. RunInv'
  BY <1>0 DEF SchedInv, TypeOK, RunInv, Unlock, Goto
<1>7. OffInv'
  BY SMTT(30), <1>0 DEF SchedInv, TypeOK, OffInv, Unlock, Goto
<1>8. SleepInv'
  BY <1>0 DEF SchedInv, TypeOK, SleepInv, Unlock, Goto
<1>9. NoSchedPanic'
  BY <1>0 DEF SchedInv, TypeOK, NoSchedPanic, Unlock, Goto
<1>10. NoLostWakeup'
  BY <1>0 DEF SchedInv, TypeOK, NoLostWakeup, Unlock, Goto
<1>. QED
  BY <1>1, <1>2, <1>3, <1>4, <1>5, <1>6, <1>7, <1>8, <1>9, <1>10 DEF SchedInv

LEMMA KillKeepsInv ==
  ASSUME SchedInv, NEW c \in CPUs, NEW p \in Procs, NEW q \in Procs,
         stack[c] = p, Kill(c, p, q)
  PROVE  SchedInv'
<1>0. \A d \in CPUs : stack[d] # Free => pc[stack[d]] \notin PtPCs
  BY DEF Kill, SchedInv, LockHandover, HoldsPt
<1>1. TypeOK'
  BY Zenon, <1>0 DEF SchedInv, TypeOK, States, PCs, PtPCs, LkPCs, UnlockedPCs, Kill, Goto
<1>2. LockHandover'
  BY <1>0 DEF SchedInv, TypeOK, LockHandover, HoldsPt, PtPCs, Kill, Goto
<1>3. LkInv'
  BY Zenon, <1>0 DEF SchedInv, TypeOK, LkInv, HoldsLk, LkPCs, Kill, Goto
<1>4. OneCpuPerStack'
  BY <1>0 DEF SchedInv, TypeOK, OneCpuPerStack, Kill, Goto
<1>5. CpuInv'
  BY SMTT(30), <1>0 DEF SchedInv, TypeOK, CpuInv, Kill, Goto
<1>6. RunInv'
  BY SMTT(30), <1>0 DEF SchedInv, TypeOK, RunInv, PCs, PtPCs, LkPCs, UnlockedPCs, Kill, Goto
<1>7. OffInv'
  BY Zenon, <1>0 DEF SchedInv, TypeOK, OffInv, Kill, Goto
<1>8. SleepInv'
  BY SMTT(30), <1>0 DEF SchedInv, TypeOK, SleepInv, Kill, Goto
<1>9. NoSchedPanic'
  BY <1>0 DEF SchedInv, TypeOK, NoSchedPanic, Kill, Goto
<1>10. NoLostWakeup'
  BY SMTT(30), <1>0 DEF SchedInv, TypeOK, NoLostWakeup, Kill, Goto
<1>. QED
  BY SMTT(30), <1>1, <1>2, <1>3, <1>4, <1>5, <1>6, <1>7, <1>8, <1>9, <1>10 DEF SchedInv

LEMMA ExitKeepsInv ==
  ASSUME SchedInv, NEW c \in CPUs, NEW p \in Procs, stack[c] = p, Exit(c, p)
  PROVE  SchedInv'
<1>1. TypeOK'
  BY Zenon DEF SchedInv, TypeOK, States, PCs, PtPCs, LkPCs, UnlockedPCs, Exit, Goto
<1>2. LockHandover'
  BY SMTT(30) DEF SchedInv, TypeOK, LockHandover, HoldsPt, PtPCs, CpuInv, OneCpuPerStack, Exit,
     Goto
<1>3. LkInv'
  BY DEF SchedInv, TypeOK, LkInv, HoldsLk, LkPCs, Exit, Goto
<1>4. OneCpuPerStack'
  BY DEF SchedInv, TypeOK, OneCpuPerStack, Exit, Goto
<1>5. CpuInv'
  BY Zenon DEF SchedInv, TypeOK, CpuInv, Exit, Goto
<1>6. RunInv'
  BY DEF SchedInv, TypeOK, RunInv, Exit, Goto
<1>7. OffInv'
  BY DEF SchedInv, TypeOK, OffInv, Exit, Goto
<1>8. SleepInv'
  BY Zenon DEF SchedInv, TypeOK, SleepInv, Exit, Goto
<1>9. NoSchedPanic'
  BY DEF SchedInv, TypeOK, NoSchedPanic, Exit, Goto
<1>10. NoLostWakeup'
  BY SMTT(30) DEF SchedInv, TypeOK, NoLostWakeup, Exit, Goto
<1>. QED
  BY <1>1, <1>2, <1>3, <1>4, <1>5, <1>6, <1>7, <1>8, <1>9, <1>10 DEF SchedInv

LEMMA ExitSwtchKeepsInv ==
  ASSUME SchedInv, NEW c \in CPUs, NEW p \in Procs, stack[c] = p, ExitSwtch(c, p)
  PROVE  SchedInv'
<1>0. ptlock' = ptlock /\ lk' = lk /\ state' = state /\ chan' = chan /\ killed' = killed
      /\ curr' = curr /\ scan' = scan /\ ret' = ret /\ items' = items /\ made' = made
      /\ ptlock = c /\ lk # c /\ pc[p] = "exitswtch" /\ state[p] = "ZOMBIE"
      /\ pc' = [pc EXCEPT ![p] = "dead"] /\ stack' = [stack EXCEPT ![c] = Free]
  BY Zenon DEF ExitSwtch, Swtch, Goto, SchedInv, LockHandover, HoldsPt, PtPCs, LkInv, HoldsLk, LkPCs, RunInv
<1>1. TypeOK'
  BY Zenon, <1>0 DEF SchedInv, TypeOK, States, PCs, PtPCs, LkPCs, UnlockedPCs
<1>2. LockHandover'
  BY <1>0 DEF SchedInv, TypeOK, LockHandover, HoldsPt, PtPCs, CpuInv, OneCpuPerStack
<1>3. LkInv'
  BY SMTT(30), <1>0 DEF SchedInv, TypeOK, LkInv, HoldsLk, LkPCs
<1>4. OneCpuPerStack'
  BY <1>0 DEF SchedInv, TypeOK, OneCpuPerStack
<1>5. CpuInv'
  BY Zenon, <1>0 DEF SchedInv, TypeOK, CpuInv
<1>6. RunInv'
  BY SMTT(30), <1>0 DEF SchedInv, TypeOK, RunInv, CpuInv, OneCpuPerStack
<1>7. OffInv'
  BY SMTT(30), <1>0 DEF SchedInv, TypeOK, OffInv
<1>8. SleepInv'
  BY Zenon, <1>0 DEF SchedInv, TypeOK, SleepInv
<1>9. NoSchedPanic'
  BY SMTT(30), <1>0 DEF SchedInv, TypeOK, NoSchedPanic
<1>10. NoLostWakeup'
  BY <1>0 DEF SchedInv, TypeOK, NoLostWakeup
<1>. QED
  BY <1>1, <1>2, <1>3, <1>4, <1>5, <1>6, <1>7, <1>8, <1>9, <1>10 DEF SchedInv

LEMMA InitInv == Init => SchedInv
<1> SUFFICES ASSUME Init PROVE SchedInv
  OBVIOUS
<1>1. TypeOK
  BY DEF Init, TypeOK, States, PCs, PtPCs, UnlockedPCs
<1>2. LockHandover /\ LkInv /\ OneCpuPerStack /\ CpuInv
  BY DEF Init, LockHandover, HoldsPt, LkInv, HoldsLk, OneCpuPerStack, CpuInv
<1>3. RunInv /\ OffInv /\ SleepInv /\ NoSchedPanic /\ NoLostWakeup
  BY DEF Init, RunInv, OffInv, SleepInv, NoSchedPanic, NoLostWakeup
<1>. QED
  BY <1>1, <1>2, <1>3 DEF SchedInv

LEMMA NextInv == SchedInv /\ [Next]_vars => SchedInv'
<1> SUFFICES ASSUME SchedInv, [Next]_vars PROVE SchedInv'
  BY SMTT(30)
<1>1. CASE UNCHANGED vars
  <2>1. TypeOK' /\ LockHandover' /\ LkInv' /\ OneCpuPerStack' /\ CpuInv'
    BY Zenon, <1>1 DEF vars, SchedInv, TypeOK, LockHandover, HoldsPt, LkInv, HoldsLk,
       OneCpuPerStack, CpuInv
  <2>2. RunInv' /\ OffInv' /\ SleepInv' /\ NoSchedPanic' /\ NoLostWakeup'
    BY Zenon, <1>1 DEF vars, SchedInv, RunInv, OffInv, SleepInv, NoSchedPanic, NoLostWakeup
  <2>. QED
    BY SMTT(60), <2>1, <2>2 DEF SchedInv
<1>2. ASSUME NEW c \in CPUs, Scheduler(c) PROVE SchedInv'
  BY <1>2, SchedAcquireKeepsInv, SchedSkipKeepsInv, SchedRunKeepsInv, SchedBackKeepsInv,
     SchedReleaseKeepsInv DEF Scheduler
<1>3. ASSUME NEW c \in CPUs, NEW p \in Procs, stack[c] = p, Process(c, p) PROVE SchedInv'
  <2>1. CASE Sleeper(c, p)
    BY <1>3, <2>1, LockKeepsInv, TakeKeepsInv, GiveUpKeepsInv, CallSleepKeepsInv,
       SleepAcquireKeepsInv, SleepReleaseKeepsInv, SleepMarkKeepsInv, SleepSwtchKeepsInv,
       SleepEndKeepsInv DEF Sleeper
  <2>2. CASE Waker(c, p)
    BY <1>3, <2>2, MakeKeepsInv, MakeNothingKeepsInv, WakeupKeepsInv, UnlockKeepsInv DEF Waker
  <2>3. CASE Resume(c, p) \/ Yield(c, p) \/ YieldSwtch(c, p)
             \/ Syscall(c, p) \/ Exit(c, p) \/ ExitSwtch(c, p)
    BY <1>3, <2>3, ResumeKeepsInv, YieldKeepsInv, YieldSwtchKeepsInv, SyscallKeepsInv,
       ExitKeepsInv, ExitSwtchKeepsInv
  <2>. QED
    BY <1>3, <2>1, <2>2, <2>3 DEF Process
<1>4. ASSUME NEW c \in CPUs, NEW p \in Procs, NEW q \in Procs, stack[c] = p, Kill(c, p, q)
      PROVE  SchedInv'
  BY <1>4, KillKeepsInv
<1>. QED
  BY <1>1, <1>2, <1>3, <1>4 DEF Next

(* SchedInv holds in every reachable state, whatever the number of CPUs and processes. *)
THEOREM SchedInvariant == Spec => []SchedInv
<1>. QED
  BY InitInv, NextInv, PTL DEF Spec

(* A process that yield or wakeup has marked RUNNABLE is never resumed by a second CPU while
   the first one is still on its kernel stack. *)
THEOREM OneCpuPerStackTheorem == Spec => []OneCpuPerStack
<1>1. SchedInv => OneCpuPerStack
  BY DEF SchedInv
<1>. QED
  BY <1>1, SchedInvariant, PTL

(* ptable.lock is held exactly where scheduler(), sched() and their callers expect it, and
   the checks of sched() never panic. *)
THEOREM HandoverTheorem == Spec => [](LockHandover /\ NoSchedPanic)
<1>1. SchedInv => LockHandover /\ NoSchedPanic
  BY DEF SchedInv
<1>. QED
  BY <1>1, SchedInvariant, PTL

(* Taking ptable.lock before releasing lk, sleep() misses no wakeup. *)
THEOREM NoLostWakeupTheorem == Spec => []NoLostWakeup
<1>1. SchedInv => NoLostWakeup
  BY DEF SchedInv
<1>. QED
  BY <1>1, SchedInvariant, PTL
=============================================================================
