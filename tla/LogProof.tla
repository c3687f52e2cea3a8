------------------------------ MODULE LogProof ------------------------------
(***************************************************************************)
(* Proofs about the log for any processes, blocks, contents and sizes: the *)
(* inductive invariant, its consequences, and that the log implements the  *)
(* atomic disk.                                                            *)
(***************************************************************************)
EXTENDS LogControl, LogData

(* The inductive invariant, for any processes, blocks, contents and sizes that leave
   enough room (begin_op, log_write, end_op, commit, recover_from_log and crashes). *)
THEOREM LogInvariant == EnoughRoom => (Spec => []LogInv)
<1> SUFFICES ASSUME EnoughRoom PROVE Spec => []LogInv
  OBVIOUS
<1>1. Init => LogInv
  BY ControlInit, SpaceInit, DataInit DEF LogInv
<1>2. LogInv /\ [Next]_vars => LogInv'
  BY TypeStep, ControlStep, SpaceStep, SpaceFits, DataStep DEF LogInv
<1> QED
  BY <1>1, <1>2, PTL DEF Spec

(* The log never outgrows its area on disk, whatever the interleaving of the unlocked
   checks of log_write. *)
THEOREM LogFitsTheorem == EnoughRoom => (Spec => []LogFits)
<1> SUFFICES ASSUME EnoughRoom PROVE Spec => []LogFits
  OBVIOUS
<1>1. LogInv => LogFits
  BY SpaceFits DEF LogInv
<1> QED
  BY <1>1, LogInvariant, PTL

(* Commits exclude each other and the calls, and nobody sleeps on &log without a waker. *)
THEOREM CommitTheorem == EnoughRoom => (Spec => [](TypeOK /\ CommitAlone /\ NoLostWakeup))
<1> SUFFICES ASSUME EnoughRoom PROVE Spec => [](TypeOK /\ CommitAlone /\ NoLostWakeup)
  OBVIOUS
<1>1. LogInv => TypeOK /\ CommitAlone /\ NoLostWakeup
  BY DEF LogInv, ControlInv
<1> QED
  BY <1>1, LogInvariant, PTL

(* With one entry to spare no call ever panics in log_write or end_op. *)
THEOREM NoPanicTheorem == AmpleRoom => (Spec => []NoPanic)
<1> SUFFICES ASSUME AmpleRoom PROVE Spec => []NoPanic
  OBVIOUS
<1>1. EnoughRoom
  BY DEF AmpleRoom
<1>2. Init => NoPanic
  BY DEF Init, NoPanic, Boot
<1>3. ASSUME LogInv, NoPanic, [Next]_vars PROVE NoPanic'
  <2> USE <1>3 DEF NoPanic, LogInv, TypeOK
  <2>1. ASSUME NEW p \in Procs, NEW b \in Blocks, NEW v \in Values, LogWriteCheck(p, b, v)
        PROVE  NoPanic'
    <3>1. Len(lh) < LogSize - 1 /\ Len(lh) < LOGSIZE
      BY ClaimsFinite, LogAssumption DEF AmpleRoom, ClaimsBounded, SpaceInv, Capacity
    <3>2. Active # {}
      BY <2>1 DEF LogWriteCheck, Active, OpPCs
    <3>3. outstanding >= 1
      <4>1. Cardinality(Active) \in Nat /\ Cardinality(Active) # 0
        BY ONLY <3>2, ActiveFinite, FS_EmptySet, FS_CardinalityType
      <4> QED
        BY SMTT(30), <4>1 DEF ControlInv, CounterInv
    <3>4. ~(Len(lh) >= LOGSIZE \/ Len(lh) >= LogSize - 1 \/ outstanding < 1)
      BY SMTT(30), <3>1, <3>3, LogAssumption
    <3>5. pc' = [pc EXCEPT ![p] = "log"]
      BY ONLY <2>1, <3>4 DEF LogWriteCheck
    <3> QED
      BY <3>5
  <2>2. ASSUME NEW p \in Procs, EndOp(p) PROVE NoPanic'
    <3>1. committing = 0
      BY SMTT(30), <2>2 DEF EndOp, ControlInv, CounterInv, CommitAlone, Active, OpPCs
    <3> QED
      BY SMTT(30), <2>2, <3>1 DEF EndOp, Wakeup
  <2>3. ASSUME NEW p \in Procs,
               \/ BeginSleep(p) \/ BeginEnter(p) \/ LogWrite(p)
               \/ Commit(p) \/ WriteLog(p) \/ WriteHead(p) \/ ClearHead(p)
        PROVE  NoPanic'
    BY SMTT(30), <2>3 DEF BeginSleep, BeginEnter, LogWrite, Commit, WriteLog, WriteHead, ClearHead
  <2>4. ASSUME NEW p \in Procs,
               \/ Install(p) \/ Done(p) \/ ReadHead(p) \/ RecoverInstall(p)
               \/ RecoverClear(p) \/ Crash(p)
        PROVE  NoPanic'
    BY <2>4 DEF Install, InstallTrans, Done, Wakeup, ReadHead, RecoverInstall, RecoverClear,
                Crash, Boot
  <2>5. ASSUME NEW b \in Blocks, Bread(b) \/ Recycle(b) PROVE NoPanic'
    BY <2>5 DEF Bread, Recycle
  <2>6. CASE UNCHANGED vars
    BY <2>6 DEF vars
  <2> QED
    BY SMTT(30), <2>1, <2>2, <2>3, <2>4, <2>5, <2>6 DEF Next, CommitStep, RecoveryStep
<1> QED
  BY <1>1, <1>2, <1>3, LogInvariant, PTL DEF Spec

(* A home block is overwritten only while the header on disk lists it. *)
THEOREM WriteAheadTheorem == EnoughRoom => (Spec => WriteAhead)
<1> SUFFICES ASSUME EnoughRoom PROVE Spec => WriteAhead
  OBVIOUS
<1>1. ASSUME LogInv, [Next]_vars
      PROVE  [\A b \in Blocks : home'[b] # home[b] => b \in Range(head)]_vars
  <2>1. ASSUME NEW p \in Procs, Install(p) \/ RecoverInstall(p)
        PROVE  \A b \in Blocks : home'[b] # home[b] => b \in Range(head)
    <3>1. /\ home' = [home EXCEPT ![lh[tail[p]]] = logblk[tail[p]]]
          /\ pc[p] \in {"install", "rinstall"}
      BY SMTT(30), <2>1 DEF Install, RecoverInstall, InstallTrans
    <3>2. tail[p] \in DOMAIN lh /\ head = lh
      BY <1>1, <3>1 DEF LogInv, DataInv, PhaseInv
    <3> QED
      BY SMTT(30), <1>1, <3>1, <3>2 DEF LogInv, TypeOK, Range
  <2>2. \/ \E p \in Procs : Install(p) \/ RecoverInstall(p)
        \/ home' = home
    BY Zenon, <1>1
    DEF Next, CommitStep, RecoveryStep, BeginSleep, BeginEnter, LogWrite, LogWriteCheck,
        EndOp, Commit, WriteLog, WriteHead, ClearHead, Done, Crash, ReadHead, RecoverClear,
        Bread, Recycle, vars, disk
  <2> QED
    BY <2>1, <2>2
<1> QED
  BY <1>1, LogInvariant, PTL DEF Spec, WriteAhead
-----------------------------------------------------------------------------
(* The log implements the atomic disk. *)

(* What recovery would make of the disk, entry by entry. *)
LEMMA RecoveredIs ==
  ASSUME IsInjective(head), head \in Seq(Blocks)
  PROVE  /\ \A i \in DOMAIN head : Recovered[head[i]] = logblk[i]
         /\ \A b \in Blocks : b \notin Range(head) => Recovered[b] = home[b]
<1>1. ASSUME NEW i \in DOMAIN head PROVE Recovered[head[i]] = logblk[i]
  <2>1. head[i] \in Blocks /\ head[i] \in Range(head)
    BY DEF Range
  <2>2. (CHOOSE j \in DOMAIN head : head[j] = head[i]) = i
    BY DEF IsInjective
  <2> QED
    BY Zenon, <2>1, <2>2 DEF Recovered
<1>2. ASSUME NEW b \in Blocks, b \notin Range(head) PROVE Recovered[b] = home[b]
  BY <1>2 DEF Recovered
<1> QED
  BY <1>1, <1>2

LEMMA RecoveredEmpty ==
  ASSUME head = <<>>, TypeOK PROVE Recovered = home
<1>1. \A b \in Blocks : b \notin Range(head)
  BY DEF Range
<1> QED
  BY <1>1 DEF Recovered, TypeOK

(* install_trans does not change what recovery would make of the disk. *)
LEMMA InstallRecovered ==
  ASSUME LogInv, EnoughRoom, NEW p \in Procs, Install(p) \/ RecoverInstall(p)
  PROVE  Recovered' = Recovered
<1> USE DEF LogInv, TypeOK
<1>1. /\ pc[p] \in {"install", "rinstall"}
      /\ home' = [home EXCEPT ![lh[tail[p]]] = logblk[tail[p]]]
      /\ UNCHANGED <<head, logblk>>
  BY DEF Install, RecoverInstall, InstallTrans
<1>2. tail[p] \in DOMAIN head /\ head = lh
  BY SMTT(30), <1>1 DEF DataInv, PhaseInv
<1>3. \A b \in Blocks : b \notin Range(head) => home'[b] = home[b]
  BY <1>1, <1>2 DEF Range
<1> QED
  BY SMTT(30), <1>1, <1>3 DEF Recovered

(* Erasing the header after everything has been installed changes nothing either. *)
LEMMA ClearRecovered ==
  ASSUME LogInv, NEW p \in Procs, ClearHead(p) \/ RecoverClear(p)
  PROVE  Recovered' = Recovered /\ Recovered = home
<1> USE DEF LogInv, TypeOK
<1>1. pc[p] \in {"clear", "rclear"} /\ head' = <<>> /\ home' = home
  BY DEF ClearHead, RecoverClear
<1>2. head = lh /\ \A i \in DOMAIN lh : home[lh[i]] = logblk[i]
  <2>1. /\ head = lh
        /\ \A i \in DOMAIN lh : i < tail[p] => home[lh[i]] = logblk[i]
        /\ \A i \in DOMAIN lh : i < tail[p]
    BY <1>1 DEF DataInv, PhaseInv
  <2> QED
    BY SMTT(30), <2>1
<1>3. ASSUME NEW b \in Blocks PROVE Recovered[b] = home[b]
  <2>1. CASE b \in Range(head)
    <3>1. PICK i \in DOMAIN head : head[i] = b
      BY SMTT(30), <2>1 DEF Range
    <3> QED
      BY <1>2, <3>1, RecoveredIs DEF DataInv
  <2>2. CASE b \notin Range(head)
    BY <2>2, RecoveredIs DEF DataInv
  <2> QED
    BY SMTT(30), <2>1, <2>2
<1>4. Recovered = home
  BY Zenon, <1>3 DEF Recovered
<1>5. \A b \in Blocks : b \notin Range(head')
  BY <1>1 DEF Range
<1>6. Recovered' = home
  BY SMTT(30), <1>1, <1>5 DEF Recovered
<1> QED
  BY <1>4, <1>6

(* The commit point: writing the header makes the running view durable. *)
LEMMA WriteHeadRecovered ==
  ASSUME LogInv, NEW p \in Procs, WriteHead(p)
  PROVE  Recovered' = [b \in Blocks |-> Contents(b)]
<1> USE DEF LogInv, TypeOK, WriteHead, cache, log
<1>1. \A q \in Procs : q # p => pc[q] \notin CommitPCs \cup RecoveryPCs
  BY SMTT(30), CommitterAlone DEF CommitPCs
<1>2. dirty = Range(lh)
  BY <1>1 DEF DataInv, QuietInv, CommitPCs, RecoveryPCs
<1>3. \A i \in DOMAIN lh : logblk[i] = buf[lh[i]]
  <2>1. /\ tail[p] = Len(lh) + 1
        /\ \A i \in DOMAIN lh : i < tail[p] => logblk[i] = buf[lh[i]]
    BY Zenon DEF DataInv, PhaseInv
  <2> QED
    BY SMTT(30), <2>1
<1>4. \A b \in Blocks : ~Busy(b)
  BY SMTT(30), CommitterAlone DEF CommitPCs
<1>5. ASSUME NEW b \in Blocks PROVE Recovered'[b] = Contents(b)
  <2>1. CASE b \in Range(lh)
    <3>1. PICK i \in DOMAIN lh : lh[i] = b
      BY <2>1 DEF Range
    <3>2. buf[b] # NotCached
      BY SMTT(30), <1>2, <2>1 DEF DataInv, CacheInv
    <3>3. (CHOOSE j \in DOMAIN lh : lh[j] = b) = i
      BY <3>1 DEF DataInv, IsInjective
    <3>4. Recovered'[b] = logblk[i]
      BY Zenon, <2>1, <3>3 DEF Recovered
    <3> QED
      BY SMTT(30), <1>3, <3>1, <3>2, <3>4 DEF Contents
  <2>2. CASE b \notin Range(lh)
    <3>1. Recovered'[b] = home[b]
      BY SMTT(30), <2>2 DEF Recovered
    <3> QED
      BY SMTT(30), <1>2, <1>4, <2>2, <3>1 DEF DataInv, CacheInv, Contents
  <2> QED
    BY <2>1, <2>2
<1> QED
  BY <1>5 DEF Recovered

(* Reading, recycling and installing buffers does not change what the calls see. *)
LEMMA BufferContents ==
  ASSUME LogInv, NEW b \in Blocks, Bread(b) \/ Recycle(b), NEW x \in Blocks
  PROVE  Contents(x)' = Contents(x)
  BY DEF LogInv, TypeOK, DataInv, CacheInv, Bread, Recycle, Contents, disk

LEMMA WriteLogContents ==
  ASSUME LogInv, NEW p \in Procs, WriteLog(p)
  PROVE  \A x \in Blocks : Contents(x)' = Contents(x)
<1> USE DEF LogInv, TypeOK, WriteLog
<1>1. lh[tail[p]] \in Blocks
  BY DEF DataInv, PhaseInv
<1> QED
  BY SMTT(30), <1>1 DEF Contents

LEMMA InstallContents ==
  ASSUME LogInv, NEW p \in Procs, Install(p)
  PROVE  \A x \in Blocks : Contents(x)' = Contents(x)
<1> DEFINE b == lh[tail[p]]
<1> USE DEF LogInv, TypeOK, Install, InstallTrans
<1>1. tail[p] \in DOMAIN lh /\ b \in Blocks
  BY SMTT(30) DEF DataInv, PhaseInv
<1>2. logblk[tail[p]] = buf[b] /\ b \in dirty
  BY SMTT(30), <1>1 DEF DataInv, PhaseInv
<1>3. buf[b] # NotCached
  BY SMTT(30), <1>1, <1>2 DEF DataInv, CacheInv
<1> QED
  BY SMTT(60), <1>1, <1>2, <1>3 DEF Contents

(* Every step of the log is a step of the atomic disk, or leaves it alone. *)
LEMMA AtomicStep ==
  ASSUME LogInv, EnoughRoom, [Next]_vars
  PROVE  [Abstract!Next]_(Abstract!vars)
<1> USE DEF LogInv
<1> DEFINE Stutter == Recovered' = Recovered /\ View' = View /\ Active' = Active
<1>0. Stutter => UNCHANGED Abstract!vars
  BY DEF Abstract!vars
<1>1. ASSUME UNCHANGED <<home, logblk, head, buf>>, Recovering' = Recovering
      PROVE  Recovered' = Recovered /\ View' = View
  <2>1. Recovered' = Recovered
    BY <1>1 DEF Recovered
  <2>2. View' = View
    BY <1>1, <2>1 DEF View, Contents
  <2> QED
    BY <2>1, <2>2
<1>2. ASSUME NEW p \in Procs, BeginSleep(p) PROVE Stutter
  <2>1. UNCHANGED <<home, logblk, head, buf>> /\ Active' = Active /\ Recovering' = Recovering
    BY <1>2 DEF BeginSleep, TypeOK, Active, Recovering, OpPCs, RecoveryPCs, disk, cache
  <2> QED
    BY <1>1, <2>1
<1>3. ASSUME NEW p \in Procs, BeginEnter(p) PROVE Abstract!Begin(p)
  <2>1. /\ UNCHANGED <<home, logblk, head, buf>> /\ Recovering' = Recovering
        /\ Active' = Active \cup {p} /\ p \notin Active
    BY <1>3 DEF BeginEnter, TypeOK, Active, Recovering, OpPCs, RecoveryPCs, disk, cache
  <2> QED
    BY <1>1, <2>1 DEF Abstract!Begin
<1>4. ASSUME NEW p \in Procs, NEW b \in Blocks, NEW v \in Values, LogWriteCheck(p, b, v)
      PROVE  Abstract!Write(p, b, v)
  <2>1. /\ UNCHANGED <<home, logblk, head>> /\ Active' = Active /\ p \in Active
        /\ buf' = [buf EXCEPT ![b] = v]
    BY <1>4 DEF LogWriteCheck, TypeOK, Active, OpPCs, disk
  <2>2. ~Recovering /\ ~Recovering'
    <3>1. \A q \in Procs : pc[q] \notin RecoveryPCs
      BY <2>1, ActiveAlone
    <3> QED
      BY SMTT(30), <1>4, <3>1 DEF LogWriteCheck, Recovering, RecoveryPCs, TypeOK
  <2>3. Recovered' = Recovered
    BY <2>1 DEF Recovered
  <2>4. \A x \in Blocks : Contents(x)' = IF x = b THEN v ELSE Contents(x)
    BY <2>1, LogAssumption DEF Contents, TypeOK
  <2>5. View' = [View EXCEPT ![b] = v]
    BY Zenon, <2>2, <2>4 DEF View
  <2> QED
    BY SMTT(30), <2>1, <2>3, <2>5 DEF Abstract!Write
<1>5. ASSUME NEW p \in Procs, LogWrite(p) PROVE Stutter
  <2>1. UNCHANGED <<home, logblk, head, buf>> /\ Active' = Active /\ Recovering' = Recovering
    BY <1>5 DEF LogWrite, TypeOK, Active, Recovering, OpPCs, RecoveryPCs, disk
  <2> QED
    BY <1>1, <2>1
<1>6. ASSUME NEW p \in Procs, EndOp(p) PROVE Abstract!End(p)
  <2>1. committing = 0
    BY Zenon, <1>6 DEF EndOp, TypeOK, ControlInv, CounterInv, CommitAlone, Active, OpPCs
  <2>2. /\ UNCHANGED <<home, logblk, head, buf>> /\ Recovering' = Recovering
        /\ Active' = Active \ {p} /\ p \in Active
    <3>1. /\ pc[p] = "op" /\ UNCHANGED <<home, logblk, head, buf>>
          /\ pc' = IF outstanding = 1 THEN [pc EXCEPT ![p] = "commit"]
                   ELSE Wakeup([pc EXCEPT ![p] = "idle"])
      BY <1>6, <2>1 DEF EndOp, disk, cache
    <3>2. \A q \in Procs : /\ pc'[q] \in OpPCs <=> pc[q] \in OpPCs /\ q # p
                           /\ pc'[q] \in RecoveryPCs <=> pc[q] \in RecoveryPCs
      BY SMTT(30), <3>1 DEF Wakeup, TypeOK, OpPCs, RecoveryPCs
    <3> QED
      BY Zenon, <3>1, <3>2 DEF Active, Recovering, OpPCs
  <2> QED
    BY SMTT(30), <1>1, <2>2 DEF Abstract!End
<1>7. ASSUME NEW p \in Procs, Commit(p) \/ Done(p) PROVE Stutter
  <2>1. UNCHANGED <<home, logblk, head, buf>> /\ Active' = Active /\ Recovering' = Recovering
    BY Zenon, <1>7 DEF Commit, Done, Wakeup, TypeOK, Active, Recovering, OpPCs, RecoveryPCs, disk, cache
  <2> QED
    BY <1>1, <2>1
<1>8. ASSUME NEW p \in Procs, pc[p] \in CommitPCs, pc' = [pc EXCEPT ![p] = pc'[p]],
             pc'[p] \in CommitPCs
      PROVE  Active' = Active /\ Active = {} /\ ~Recovering /\ ~Recovering'
  <2>1. \A q \in Procs : pc[q] \notin RecoveryPCs /\ pc'[q] \notin RecoveryPCs
    BY SMTT(30), <1>8, CommitterAlone DEF TypeOK, CommitPCs, RecoveryPCs
  <2>2. Active = {} /\ Active' = Active
    BY SMTT(30), <1>8 DEF ControlInv, CommitAlone, Active, TypeOK, OpPCs, CommitPCs
  <2> QED
    BY SMTT(30), <2>1, <2>2 DEF Recovering
<1>9. ASSUME NEW p \in Procs, WriteLog(p) \/ Install(p) \/ ClearHead(p) PROVE Stutter
  <2>1. Active' = Active /\ ~Recovering /\ ~Recovering'
    <3>1. /\ pc[p] \in CommitPCs /\ pc' = [pc EXCEPT ![p] = pc'[p]]
          /\ pc'[p] \in CommitPCs
      BY Zenon, <1>9 DEF WriteLog, Install, InstallTrans, ClearHead, TypeOK, CommitPCs
    <3> QED
      BY SMTT(30), <1>8, <3>1
  <2>2. Recovered' = Recovered
    <3>1. CASE WriteLog(p)
      <4>1. pc[p] = "write_log" /\ home' = home /\ head' = head
        BY <3>1 DEF WriteLog
      <4>2. \A q \in Procs : q # p => pc[q] \notin CommitPCs \cup RecoveryPCs
        BY <4>1, CommitterAlone DEF CommitPCs
      <4>3. head = <<>>
        BY <4>1, <4>2 DEF DataInv, QuietInv, CommitPCs, RecoveryPCs
      <4> QED
        BY <4>1, <4>3 DEF Recovered, Range
    <3>2. CASE Install(p)
      BY <3>2, InstallRecovered
    <3>3. CASE ClearHead(p)
      BY <3>3, ClearRecovered
    <3> QED
      BY SMTT(30), <1>9, <3>1, <3>2, <3>3
  <2>3. \A x \in Blocks : Contents(x)' = Contents(x)
    <3>1. CASE ClearHead(p)
      BY <3>1 DEF ClearHead, Contents, cache
    <3> QED
      BY <1>9, <3>1, WriteLogContents, InstallContents
  <2>4. View' = View
    BY <2>1, <2>3 DEF View
  <2> QED
    BY SMTT(30), <2>1, <2>2, <2>4
<1>10. ASSUME NEW p \in Procs, WriteHead(p) PROVE Abstract!Commit
  <2>1. Active' = Active /\ Active = {} /\ ~Recovering /\ ~Recovering'
    <3>1. /\ pc[p] \in CommitPCs /\ pc' = [pc EXCEPT ![p] = pc'[p]]
          /\ pc'[p] \in CommitPCs
      BY SMTT(30), <1>10 DEF WriteHead, TypeOK, CommitPCs
    <3> QED
      BY <1>8, <3>1
  <2>2. Recovered' = View
    BY SMTT(30), <1>10, <2>1, WriteHeadRecovered DEF View
  <2>3. View' = View
    BY <1>10, <2>1 DEF WriteHead, View, Contents, cache
  <2> QED
    BY SMTT(30), <2>1, <2>2, <2>3 DEF Abstract!Commit
<1>11. ASSUME NEW p \in Procs, Crash(p) PROVE Abstract!Crash
  <2>1. UNCHANGED <<home, logblk, head>> /\ Active' = {} /\ Recovering'
    BY <1>11 DEF Crash, Boot, Active, Recovering, OpPCs, RecoveryPCs, disk
  <2>2. Recovered' = Recovered
    BY <2>1 DEF Recovered
  <2>3. View' = Recovered
    BY SMTT(30), <2>1, <2>2 DEF View
  <2> QED
    BY <2>1, <2>2, <2>3 DEF Abstract!Crash
<1>12. ASSUME NEW p \in Procs, ReadHead(p) \/ RecoverInstall(p) PROVE Stutter
  <2>1. Active' = Active /\ Recovering /\ Recovering'
    BY Zenon, <1>12 DEF ReadHead, RecoverInstall, InstallTrans, TypeOK, Active, Recovering, OpPCs,
                 RecoveryPCs
  <2>2. Recovered' = Recovered
    <3>1. CASE ReadHead(p)
      BY <3>1 DEF ReadHead, Recovered, disk
    <3> QED
      BY <1>12, <3>1, InstallRecovered
  <2> QED
    BY SMTT(30), <2>1, <2>2 DEF View
<1>13. ASSUME NEW p \in Procs, RecoverClear(p) PROVE Stutter
  <2>1. Recovered' = Recovered /\ Recovered = home
    BY SMTT(30), <1>13, ClearRecovered
  <2>2. Active' = Active /\ Recovering /\ ~Recovering'
    BY SMTT(60), <1>13 DEF RecoverClear, ControlInv, RecoveryInv, Active, Recovering, OpPCs, RecoveryPCs
  <2>3. \A b \in Blocks : ~Busy(b) /\ b \notin dirty
    BY Zenon, <1>13, CommitterAlone DEF RecoverClear, DataInv, PhaseInv, RecoveryPCs
  <2>4. \A b \in Blocks : Contents(b)' = home[b]
    BY Zenon, <1>13, <2>3 DEF RecoverClear, DataInv, CacheInv, Contents, cache
  <2>5. View' = home
    BY <2>2, <2>4 DEF View, TypeOK
  <2> QED
    BY <2>1, <2>2, <2>5 DEF View
<1>14. ASSUME NEW b \in Blocks, Bread(b) \/ Recycle(b) PROVE Stutter
  <2>1. UNCHANGED <<home, logblk, head>> /\ Active' = Active /\ Recovering' = Recovering
    BY <1>14 DEF Bread, Recycle, Active, Recovering, disk
  <2>2. Recovered' = Recovered
    BY <2>1 DEF Recovered
  <2>3. \A x \in Blocks : Contents(x)' = Contents(x)
    BY <1>14, BufferContents
  <2> QED
    BY SMTT(30), <2>1, <2>2, <2>3 DEF View
<1>15. CASE UNCHANGED vars
  <2>1. UNCHANGED <<home, logblk, head, buf>> /\ Active' = Active /\ Recovering' = Recovering
    BY <1>15 DEF vars, disk, cache, Active, Recovering
  <2> QED
    BY <1>0, <1>1, <2>1
<1> QED
  BY SMTT(60), <1>0, <1>2, <1>3, <1>4, <1>5, <1>6, <1>7, <1>9, <1>10, <1>11, <1>12, <1>13, <1>14, <1>15
  DEF Next, CommitStep, RecoveryStep, Abstract!Next

(* Crash atomicity: the log with its buffers, its commit and its recovery implements the
   atomic disk, for any number of processes, blocks and crashes. *)
THEOREM AtomicCommitTheorem == EnoughRoom => (Spec => AtomicCommit)
<1> SUFFICES ASSUME EnoughRoom PROVE Spec => AtomicCommit
  OBVIOUS
<1>1. Init => Abstract!Init
  <2> SUFFICES ASSUME Init PROVE Abstract!Init
    OBVIOUS
  <2>1. Recovered = home
    BY DataInit, RecoveredEmpty DEF Init
  <2>2. Recovering /\ Active = {}
    BY DEF Init, Boot, Recovering, Active, OpPCs, RecoveryPCs
  <2> QED
    BY <2>1, <2>2 DEF Init, View, Abstract!Init
<1>2. LogInv /\ [Next]_vars => [Abstract!Next]_(Abstract!vars)
  BY AtomicStep
<1> QED
  BY <1>1, <1>2, LogInvariant, PTL DEF Spec, AtomicCommit, Abstract!Spec
=============================================================================
