------------------------------ MODULE LogData ------------------------------
(***************************************************************************)
(* Proofs about the log, second part: TypeOK and what the commit and the   *)
(* recovery have put on disk (DataInv) are preserved by every step.        *)
(***************************************************************************)
EXTENDS Log, TLAPS

(* Types and data. *)
LEMMA LogIndex ==
  ASSUME TypeOK, LogFits
  PROVE  DOMAIN lh = 1..Len(lh) /\ DOMAIN lh \subseteq 1..LogSize - 1
  BY SMTT(30), LogAssumption DEF TypeOK, LogFits

LEMMA TypeStep ==
  ASSUME LogInv, LogFits, [Next]_vars
  PROVE  TypeOK'
<1> USE DEF TypeOK, OpPCs, CommitPCs, RecoveryPCs, PCs, disk, cache, log, LogInv
<1>1. ASSUME NEW p \in Procs,
             BeginSleep(p) \/ BeginEnter(p) \/ EndOp(p) \/ Done(p) \/ Commit(p)
      PROVE TypeOK'
  <2>1. CASE BeginSleep(p)
    BY <2>1 DEF BeginSleep
  <2>2. CASE BeginEnter(p)
    BY <2>2 DEF BeginEnter
  <2>3. CASE EndOp(p)
    BY <2>3 DEF EndOp, Wakeup
  <2>4. CASE Done(p)
    BY <2>4 DEF Done, Wakeup
  <2>5. CASE Commit(p)
    BY <2>5 DEF Commit
  <2> QED
    BY Zenon, <1>1, <2>1, <2>2, <2>3, <2>4, <2>5
<1>2. ASSUME NEW p \in Procs, LogWrite(p) PROVE TypeOK'
  <2>1. hold[p] \in Blocks
    BY <1>2 DEF LogWrite, ControlInv, HoldInv
  <2> QED
    BY <1>2, <2>1 DEF LogWrite
<1>3. ASSUME NEW p \in Procs, NEW b \in Blocks, NEW v \in Values, LogWriteCheck(p, b, v)
      PROVE TypeOK'
  BY <1>3 DEF LogWriteCheck
<1>4. ASSUME NEW p \in Procs, WriteLog(p) PROVE TypeOK'
  <2>1. tail[p] \in DOMAIN lh /\ lh[tail[p]] \in Blocks
    BY <1>4 DEF WriteLog, DataInv, PhaseInv
  <2>2. Contents(lh[tail[p]]) \in Values
    BY <2>1 DEF Contents
  <2>3. buf' \in [Blocks -> Values \cup {NotCached}] /\ logblk' \in [1..LogSize - 1 -> Values]
    BY Zenon, <1>4, <2>1, <2>2 DEF WriteLog
  <2>4. tail' \in [Procs -> Nat] /\ pc' \in [Procs -> PCs]
    BY <1>4 DEF WriteLog
  <2> QED
    BY <1>4, <2>3, <2>4 DEF WriteLog
<1>5. ASSUME NEW p \in Procs, Install(p) \/ RecoverInstall(p) PROVE TypeOK'
  <2>1. tail[p] \in DOMAIN lh /\ lh[tail[p]] \in Blocks
    BY <1>5 DEF Install, RecoverInstall, InstallTrans, DataInv, PhaseInv
  <2>2. logblk[tail[p]] \in Values
    BY <2>1, LogIndex
  <2>3. buf' \in [Blocks -> Values \cup {NotCached}] /\ home' \in [Blocks -> Values]
    BY Zenon, <1>5, <2>1, <2>2 DEF Install, RecoverInstall, InstallTrans
  <2>4. tail' \in [Procs -> Nat] /\ pc' \in [Procs -> PCs] /\ dirty' \in SUBSET Blocks
    <3>1. CASE Install(p)
      BY <3>1 DEF Install, InstallTrans
    <3>2. CASE RecoverInstall(p)
      BY <3>2 DEF RecoverInstall, InstallTrans
    <3> QED
      BY <1>5, <3>1, <3>2
  <2>5. UNCHANGED <<logblk, head, hold, log, wrote>>
    BY <1>5 DEF Install, RecoverInstall, InstallTrans
  <2> QED
    BY <2>3, <2>4, <2>5
<1>6. ASSUME NEW p \in Procs,
             WriteHead(p) \/ ClearHead(p) \/ ReadHead(p) \/ RecoverClear(p) \/ Crash(p)
      PROVE TypeOK'
  <2>1. CASE WriteHead(p)
    BY <2>1 DEF WriteHead
  <2>2. CASE ClearHead(p)
    BY <2>2 DEF ClearHead
  <2>3. CASE ReadHead(p)
    BY <2>3 DEF ReadHead
  <2>4. CASE RecoverClear(p)
    BY <2>4 DEF RecoverClear
  <2>5. CASE Crash(p)
    BY <2>5 DEF Crash, Boot
  <2> QED
    BY Zenon, <1>6, <2>1, <2>2, <2>3, <2>4, <2>5
<1>7. ASSUME NEW b \in Blocks, Bread(b) \/ Recycle(b) PROVE TypeOK'
  BY Zenon, <1>7 DEF Bread, Recycle
<1>8. CASE UNCHANGED vars
  BY <1>8 DEF vars
<1> QED
  BY Zenon, <1>1, <1>2, <1>3, <1>4, <1>5, <1>6, <1>7, <1>8 DEF Next, CommitStep, RecoveryStep

LEMMA DataInit == Init => TypeOK /\ DataInv
<1> SUFFICES ASSUME Init PROVE TypeOK /\ DataInv
  OBVIOUS
<1>1. PICK p \in Procs : pc = Boot(p)
  BY DEF Init
<1>2. TypeOK
  BY <1>1, LogAssumption DEF Init, TypeOK, Boot, PCs, RecoveryPCs
<1>3. \A b \in Blocks : ~Busy(b)
  BY LogAssumption DEF Init, Busy
<1>4. CacheInv
  BY <1>3 DEF Init, CacheInv
<1>5. QuietInv
  BY <1>1 DEF QuietInv, Boot, RecoveryPCs
<1>6. \A q \in Procs : PhaseInv(q)
  BY <1>1 DEF Init, PhaseInv, Boot, RecoveryPCs
<1> QED
  BY <1>2, <1>4, <1>5, <1>6 DEF Init, DataInv, IsInjective

(* While a call is active nobody commits or recovers; while somebody commits or recovers
   nobody holds a buffer. *)
LEMMA ActiveAlone ==
  ASSUME TypeOK, ControlInv, NEW p \in Active, NEW q \in Procs
  PROVE  pc[q] \notin CommitPCs \cup RecoveryPCs
  BY Zenon DEF TypeOK, ControlInv, CommitAlone, RecoveryInv, Active, OpPCs, CommitPCs, RecoveryPCs

LEMMA CommitterAlone ==
  ASSUME TypeOK, ControlInv, NEW p \in Procs, pc[p] \in CommitPCs \cup RecoveryPCs
  PROVE  /\ \A q \in Procs : q # p => pc[q] \notin CommitPCs \cup RecoveryPCs
         /\ \A q \in Procs : hold[q] = None
         /\ \A b \in Blocks : ~Busy(b)
<1>1. \A q \in Procs : q # p => pc[q] \notin CommitPCs \cup RecoveryPCs
  BY DEF TypeOK, ControlInv, CommitAlone, RecoveryInv, OpPCs, CommitPCs, RecoveryPCs
<1>2. \A q \in Procs : hold[q] = None
  <2> SUFFICES ASSUME NEW q \in Procs, hold[q] # None PROVE FALSE
    OBVIOUS
  <2>1. q \in Active
    BY DEF ControlInv, HoldInv, Active, OpPCs
  <2> QED
    BY <2>1, ActiveAlone
<1>3. \A b \in Blocks : ~Busy(b)
  BY <1>2, LogAssumption DEF Busy
<1> QED
  BY <1>1, <1>2, <1>3

(* Steps that touch neither disk nor cache nor log keep the data invariant if the
   process that moves enters and leaves no phase of commit or recovery. *)
LEMMA ParkData ==
  ASSUME DataInv, UNCHANGED <<home, logblk, head, buf, dirty, hold, lh, tail>>,
         \A q \in Procs : pc'[q] = pc[q] \/ (pc[q] \notin RecoveryPCs \cup {"install", "clear"} /\ 
                                          pc'[q] \in {"idle", "sleep", "op", "commit", "panic"})
  PROVE  DataInv'
<1>1. CacheInv'
  BY DEF DataInv, CacheInv, Busy
<1>2. QuietInv'
  BY DEF DataInv, QuietInv, RecoveryPCs
<1>3. ASSUME NEW q \in Procs PROVE PhaseInv(q)'
  BY DEF DataInv, PhaseInv, RecoveryPCs
<1> QED
  BY <1>1, <1>2, <1>3 DEF DataInv, IsInjective

LEMMA LogWriteCheckData ==
  ASSUME TypeOK, ControlInv, DataInv, NEW p \in Procs, NEW b \in Blocks, NEW v \in Values,
         LogWriteCheck(p, b, v)
  PROVE  DataInv'
<1> USE DEF LogWriteCheck, TypeOK, disk, log
<1>1. p \in Active
  BY DEF Active, OpPCs
<1>2. \A q \in Procs : pc[q] \notin CommitPCs \cup RecoveryPCs
  BY <1>1, ActiveAlone
<1>3. \A q \in Procs : pc'[q] \notin CommitPCs \cup RecoveryPCs
  BY <1>2 DEF CommitPCs, RecoveryPCs, PCs
<1>4. hold[p] = None
  BY Zenon DEF ControlInv, HoldInv
<1>5. \A x \in Blocks : Busy(x)' <=> Busy(x) \/ x = b
  BY <1>4, LogAssumption DEF Busy
<1>6. CacheInv'
  BY <1>5, LogAssumption DEF DataInv, CacheInv
<1>7. QuietInv'
  BY <1>2, <1>3 DEF DataInv, QuietInv, CommitPCs, RecoveryPCs
<1>8. \A q \in Procs : PhaseInv(q)'
  BY <1>3 DEF PhaseInv, CommitPCs, RecoveryPCs
<1> QED
  BY <1>6, <1>7, <1>8 DEF DataInv, IsInjective

LEMMA LogWriteData ==
  ASSUME TypeOK, ControlInv, DataInv, NEW p \in Procs, LogWrite(p)
  PROVE  DataInv'
<1> USE DEF LogWrite, TypeOK, disk
<1>1. p \in Active
  BY DEF Active, OpPCs
<1>2. \A q \in Procs : pc[q] \notin CommitPCs \cup RecoveryPCs
  BY <1>1, ActiveAlone
<1>3. \A q \in Procs : pc'[q] \notin CommitPCs \cup RecoveryPCs
  BY <1>2 DEF CommitPCs, RecoveryPCs, PCs
<1>4. hold[p] \in Blocks /\ Busy(hold[p])
  BY DEF ControlInv, HoldInv, Busy
<1>5. \A x \in Blocks : Busy(x)' <=> Busy(x) /\ x # hold[p]
  BY <1>4, LogAssumption DEF Busy, ControlInv, HoldInv
<1>6. CacheInv'
  BY <1>4, <1>5 DEF DataInv, CacheInv
<1>7. IsInjective(lh') /\ Range(lh') = Range(lh) \cup {hold[p]}
  <2>1. CASE hold[p] \in Range(lh)
    BY <2>1 DEF DataInv
  <2>2. CASE hold[p] \notin Range(lh)
    <3>1. lh' = Append(lh, hold[p])
      BY <2>2
    <3>2. /\ DOMAIN lh' = DOMAIN lh \cup {Len(lh) + 1}
          /\ \A i \in DOMAIN lh : lh'[i] = lh[i]
          /\ lh'[Len(lh) + 1] = hold[p]
      BY <1>4, <3>1
    <3>3. IsInjective(lh)
      BY DEF DataInv
    <3> QED
      BY ONLY <2>2, <3>2, <3>3 DEF Range, IsInjective
  <2> QED
    BY <2>1, <2>2
<1>8. QuietInv'
  BY <1>2, <1>3, <1>7 DEF DataInv, QuietInv, CommitPCs, RecoveryPCs
<1>9. \A q \in Procs : PhaseInv(q)'
  BY <1>3 DEF PhaseInv, CommitPCs, RecoveryPCs
<1> QED
  BY <1>6, <1>7, <1>8, <1>9 DEF DataInv, IsInjective

LEMMA CommitData ==
  ASSUME TypeOK, ControlInv, DataInv, NEW p \in Procs, Commit(p)
  PROVE  DataInv'
<1> USE DEF Commit, TypeOK, disk, cache, log
<1>1. \A q \in Procs : q # p => pc'[q] = pc[q] /\ pc[q] \notin CommitPCs \cup RecoveryPCs
  BY CommitterAlone DEF CommitPCs
<1>2. CacheInv'
  BY DEF DataInv, CacheInv, Busy
<1>3. QuietInv'
  BY <1>1 DEF DataInv, QuietInv, CommitPCs, RecoveryPCs
<1>4. PhaseInv(p)'
  <2>1. lh # <<>> => 1 \in DOMAIN lh
    OBVIOUS
  <2> QED
    BY <2>1 DEF PhaseInv, RecoveryPCs
<1>5. \A q \in Procs : q # p => PhaseInv(q)'
  BY <1>1 DEF PhaseInv, CommitPCs, RecoveryPCs
<1> QED
  BY <1>2, <1>3, <1>4, <1>5 DEF DataInv, IsInjective

(* write_log copies buffers that B_DIRTY has kept in the cache. *)
LEMMA WriteLogData ==
  ASSUME TypeOK, ControlInv, DataInv, LogFits, NEW p \in Procs, WriteLog(p)
  PROVE  DataInv'
<1> DEFINE b == lh[tail[p]]
<1> USE DEF WriteLog, TypeOK, disk, cache, log
<1>1. \A q \in Procs : q # p => pc'[q] = pc[q] /\ pc[q] \notin CommitPCs \cup RecoveryPCs
  BY CommitterAlone DEF CommitPCs
<1>2. tail[p] \in DOMAIN lh /\ b \in Blocks
  BY DEF DataInv, PhaseInv
<1>3. b \in dirty
  <2>1. dirty = Range(lh)
    BY <1>1 DEF DataInv, QuietInv, CommitPCs, RecoveryPCs
  <2> QED
    BY <1>2, <2>1 DEF Range
<1>4. buf[b] # NotCached
  BY <1>2, <1>3 DEF DataInv, CacheInv
<1>5. Contents(b) = buf[b] /\ buf' = buf
  BY <1>2, <1>4 DEF Contents
<1>6. /\ logblk'[tail[p]] = buf[b]
      /\ \A i \in DOMAIN lh : i # tail[p] => logblk'[i] = logblk[i]
  BY <1>2, <1>5, LogIndex
<1>7. CacheInv'
  BY <1>5 DEF DataInv, CacheInv, Busy
<1>8. QuietInv'
  BY <1>1 DEF DataInv, QuietInv, CommitPCs, RecoveryPCs
<1>9. PhaseInv(p)'
  <2>1. \A i \in DOMAIN lh : i < tail'[p] => logblk'[i] = buf'[lh[i]]
    <3>1. \A i \in DOMAIN lh : i < tail[p] => logblk[i] = buf[lh[i]]
      BY DEF DataInv, PhaseInv
    <3>2. tail'[p] = tail[p] + 1 /\ tail[p] \in Nat /\ DOMAIN lh \subseteq Nat
      OBVIOUS
    <3> QED
      BY ONLY <1>5, <1>6, <3>1, <3>2
  <2>2. /\ pc'[p] = "write_log" => tail'[p] \in DOMAIN lh
        /\ pc'[p] = "write_head" => lh # <<>> /\ tail'[p] = Len(lh) + 1
        /\ pc'[p] \in {"write_log", "write_head"}
    BY <1>2
  <2>3. lh' = lh
    OBVIOUS
  <2> QED
    BY ONLY <2>1, <2>2, <2>3 DEF PhaseInv, RecoveryPCs
<1>10. \A q \in Procs : q # p => PhaseInv(q)'
  BY <1>1 DEF PhaseInv, CommitPCs, RecoveryPCs
<1> QED
  BY <1>7, <1>8, <1>9, <1>10 DEF DataInv, IsInjective

LEMMA WriteHeadData ==
  ASSUME TypeOK, ControlInv, DataInv, NEW p \in Procs, WriteHead(p)
  PROVE  DataInv'
<1> USE DEF WriteHead, TypeOK, cache, log
<1>1. \A q \in Procs : q # p => pc'[q] = pc[q] /\ pc[q] \notin CommitPCs \cup RecoveryPCs
  BY CommitterAlone DEF CommitPCs
<1>2. head = <<>> /\ dirty = Range(lh)
  BY <1>1 DEF DataInv, QuietInv, CommitPCs, RecoveryPCs
<1>3. lh # <<>>
  BY DEF DataInv, PhaseInv
<1>4. CacheInv'
  BY DEF DataInv, CacheInv, Busy
<1>5. PhaseInv(p)'
  <2>1. /\ tail'[p] = 1 /\ pc'[p] = "install" /\ head' = lh /\ lh' = lh
        /\ dirty' = dirty /\ logblk' = logblk /\ buf' = buf
    OBVIOUS
  <2>2. DOMAIN lh = 1..Len(lh) /\ 1 \in DOMAIN lh
    BY <1>3
  <2>3. dirty = {lh[i] : i \in {j \in DOMAIN lh : j >= 1}}
    BY <1>2, <2>2 DEF Range
  <2>4. \A i \in DOMAIN lh : logblk[i] = buf[lh[i]]
    <3>1. /\ tail[p] = Len(lh) + 1 /\ Len(lh) \in Nat
          /\ \A i \in DOMAIN lh : i < tail[p] => logblk[i] = buf[lh[i]]
      BY DEF DataInv, PhaseInv
    <3> QED
      BY ONLY <2>2, <3>1
  <2> QED
    BY ONLY <2>1, <2>2, <2>3, <2>4 DEF PhaseInv, RecoveryPCs
<1>6. \A q \in Procs : q # p => PhaseInv(q)'
  BY <1>1 DEF PhaseInv, CommitPCs, RecoveryPCs
<1>7. QuietInv'
  BY DEF QuietInv
<1> QED
  BY <1>4, <1>5, <1>6, <1>7 DEF DataInv, IsInjective

(* One turn of install_trans, in commit or in recovery: the block goes home and becomes
   clean, and the entries already installed stay installed. *)
LEMMA InstallData ==
  ASSUME TypeOK, ControlInv, DataInv, LogFits, NEW p \in Procs,
         Install(p) \/ RecoverInstall(p)
  PROVE  DataInv'
<1> DEFINE b == lh[tail[p]]
<1>1. /\ pc[p] \in {"install", "rinstall"}
      /\ buf' = [buf EXCEPT ![b] = logblk[tail[p]]]
      /\ home' = [home EXCEPT ![b] = logblk[tail[p]]]
      /\ dirty' = dirty \ {b}
      /\ tail' = [tail EXCEPT ![p] = @ + 1]
      /\ UNCHANGED <<logblk, head, hold, lh>>
      /\ pc[p] = "install" =>
           pc' = [pc EXCEPT ![p] = IF tail[p] = Len(lh) THEN "clear" ELSE "install"]
      /\ pc[p] = "rinstall" =>
           pc' = [pc EXCEPT ![p] = IF tail[p] = Len(lh) THEN "rclear" ELSE "rinstall"]
  BY DEF Install, RecoverInstall, InstallTrans, log
<1>2. \A q \in Procs : q # p => pc'[q] = pc[q] /\ pc[q] \notin CommitPCs \cup RecoveryPCs
  BY SMTT(30), <1>1, CommitterAlone DEF CommitPCs, RecoveryPCs, TypeOK
<1>3. /\ tail[p] \in DOMAIN lh /\ b \in Blocks /\ logblk[tail[p]] \in Values
      /\ DOMAIN lh = 1..Len(lh) /\ Len(lh) \in Nat
  BY <1>1, LogIndex DEF DataInv, PhaseInv, TypeOK
<1>4. \A i \in DOMAIN lh : i # tail[p] => lh[i] # b
  BY SMTT(30), <1>3 DEF DataInv, IsInjective
<1>5. CacheInv'
  <2>1. \A x \in Blocks : Busy(x)' <=> Busy(x)
    BY <1>1 DEF Busy
  <2>2. logblk[tail[p]] # NotCached
    BY <1>3, LogAssumption
  <2> QED
    BY <1>1, <1>3, <2>1, <2>2 DEF DataInv, CacheInv, TypeOK
<1>6. QuietInv'
  BY SMTT(30), <1>1 DEF QuietInv, RecoveryPCs, TypeOK
<1>7. PhaseInv(p)'
  <2>1. /\ head = lh
        /\ \A i \in DOMAIN lh : i < tail[p] => home[lh[i]] = logblk[i]
    BY Zenon, <1>1 DEF DataInv, PhaseInv
  <2>2. tail'[p] = tail[p] + 1 /\ tail[p] \in Nat
    BY <1>1 DEF TypeOK
  <2>3. \A i \in DOMAIN lh : i < tail'[p] => home'[lh[i]] = logblk[i]
    <3> SUFFICES ASSUME NEW i \in DOMAIN lh, i < tail'[p] PROVE home'[lh[i]] = logblk[i]
      OBVIOUS
    <3>1. CASE i = tail[p]
      BY SMTT(30), <1>1, <1>3, <3>1 DEF TypeOK
    <3>2. CASE i < tail[p]
      BY <1>1, <1>3, <1>4, <2>1, <3>2 DEF TypeOK
    <3> QED
      BY <1>3, <2>2, <3>1, <3>2
  <2>4. CASE pc[p] = "install"
    <3>1. /\ \A i \in DOMAIN lh : i >= tail[p] => logblk[i] = buf[lh[i]]
          /\ dirty = {lh[i] : i \in {j \in DOMAIN lh : j >= tail[p]}}
      BY Zenon, <2>4 DEF DataInv, PhaseInv
    <3>2. \A i \in DOMAIN lh : i >= tail'[p] => logblk[i] = buf'[lh[i]]
      <4>1. \A i \in DOMAIN lh : i >= tail'[p] => i >= tail[p] /\ i # tail[p]
        BY ONLY <1>3, <2>2
      <4>2. \A i \in DOMAIN lh : i # tail[p] => buf'[lh[i]] = buf[lh[i]]
        BY ONLY <1>1, <1>3, <1>4
      <4> QED
        BY ONLY Zenon, <3>1, <4>1, <4>2
    <3>3. dirty' = {lh[i] : i \in {j \in DOMAIN lh : j >= tail'[p]}}
      <4>1. \A j \in DOMAIN lh : j >= tail'[p] <=> j >= tail[p] /\ j # tail[p]
        BY SMTT(30), <1>3, <2>2
      <4> QED
        BY ONLY <1>1, <1>3, <1>4, <3>1, <4>1
    <3>4. \/ pc'[p] = "install" /\ tail'[p] \in DOMAIN lh
          \/ pc'[p] = "clear" /\ lh # <<>> /\ tail'[p] = Len(lh) + 1
      BY <1>1, <1>3, <2>2, <2>4 DEF TypeOK
    <3> QED
      BY ONLY SMTT(60), <1>1, <2>1, <2>3, <3>2, <3>3, <3>4 DEF PhaseInv, RecoveryPCs
  <2>5. CASE pc[p] = "rinstall"
    <3>1. dirty' = {}
      BY <1>1, <2>5 DEF DataInv, PhaseInv, RecoveryPCs
    <3>2. \/ pc'[p] = "rinstall" /\ tail'[p] \in DOMAIN lh
          \/ pc'[p] = "rclear" /\ \A i \in DOMAIN lh : i < tail'[p]
      BY <1>1, <1>3, <2>2, <2>5 DEF TypeOK
    <3> QED
      BY ONLY Zenon, <1>1, <2>1, <2>3, <3>1, <3>2 DEF PhaseInv, RecoveryPCs
  <2> QED
    BY <1>1, <2>4, <2>5
<1>8. \A q \in Procs : q # p => PhaseInv(q)'
  BY <1>2 DEF PhaseInv, CommitPCs, RecoveryPCs
<1> QED
  BY SMTT(30), <1>1, <1>5, <1>6, <1>7, <1>8 DEF DataInv, IsInjective

LEMMA ClearHeadData ==
  ASSUME TypeOK, ControlInv, DataInv, NEW p \in Procs, ClearHead(p)
  PROVE  DataInv'
<1> USE DEF ClearHead, TypeOK, cache
<1>1. \A q \in Procs : q # p => pc'[q] = pc[q] /\ pc[q] \notin CommitPCs \cup RecoveryPCs
  BY Zenon, CommitterAlone DEF CommitPCs
<1>2. dirty = {}
  <2>1. tail[p] = Len(lh) + 1 /\ dirty = {lh[i] : i \in {j \in DOMAIN lh : j >= tail[p]}}
    BY Zenon DEF DataInv, PhaseInv
  <2>2. {j \in DOMAIN lh : j >= tail[p]} = {}
    <3>1. DOMAIN lh = 1..Len(lh) /\ Len(lh) \in Nat
      OBVIOUS
    <3> QED
      BY ONLY <2>1, <3>1
  <2> QED
    BY SMTT(30), <2>1, <2>2
<1>3. CacheInv'
  BY DEF DataInv, CacheInv, Busy
<1>4. QuietInv'
  BY <1>2 DEF QuietInv, Range
<1>5. \A q \in Procs : PhaseInv(q)'
  BY Zenon, <1>1 DEF PhaseInv, CommitPCs, RecoveryPCs
<1> QED
  BY SMTT(30), <1>3, <1>4, <1>5 DEF DataInv, IsInjective

LEMMA RecoverClearData ==
  ASSUME TypeOK, ControlInv, DataInv, NEW p \in Procs, RecoverClear(p)
  PROVE  DataInv'
<1> USE DEF RecoverClear, TypeOK, cache
<1>1. dirty = {}
  BY Zenon DEF DataInv, PhaseInv, RecoveryPCs
<1>2. CacheInv'
  BY DEF DataInv, CacheInv, Busy
<1>3. QuietInv'
  BY <1>1 DEF QuietInv, Range
<1>4. \A q \in Procs : PhaseInv(q)'
  BY SMTT(30) DEF PhaseInv, RecoveryPCs
<1> QED
  BY SMTT(30), <1>2, <1>3, <1>4 DEF DataInv, IsInjective

LEMMA CrashData ==
  ASSUME TypeOK, DataInv, NEW p \in Procs, Crash(p)
  PROVE  DataInv'
<1> USE DEF Crash, TypeOK, disk
<1>1. \A b \in Blocks : ~Busy(b)'
  BY LogAssumption DEF Busy
<1>2. CacheInv'
  BY <1>1 DEF CacheInv
<1>3. QuietInv'
  BY DEF QuietInv, Boot, RecoveryPCs
<1>4. \A q \in Procs : PhaseInv(q)'
  BY Zenon DEF PhaseInv, Boot, RecoveryPCs
<1> QED
  BY <1>2, <1>3, <1>4 DEF DataInv, IsInjective

LEMMA ReadHeadData ==
  ASSUME TypeOK, ControlInv, DataInv, NEW p \in Procs, ReadHead(p)
  PROVE  DataInv'
<1> USE DEF ReadHead, TypeOK, disk, cache
<1>1. \A q \in Procs : q # p => pc'[q] = pc[q] /\ pc[q] \notin CommitPCs \cup RecoveryPCs
  BY Zenon, CommitterAlone DEF RecoveryPCs
<1>2. CacheInv'
  BY DEF DataInv, CacheInv, Busy
<1>3. QuietInv'
  BY DEF QuietInv, RecoveryPCs
<1>4. PhaseInv(p)'
  <2>1. head # <<>> => 1 \in DOMAIN head
    OBVIOUS
  <2>2. dirty = {}
    BY Zenon DEF DataInv, PhaseInv, RecoveryPCs
  <2> QED
    BY <2>1, <2>2 DEF PhaseInv, RecoveryPCs
<1>5. \A q \in Procs : q # p => PhaseInv(q)'
  BY Zenon, <1>1 DEF PhaseInv, CommitPCs, RecoveryPCs
<1> QED
  BY <1>2, <1>3, <1>4, <1>5 DEF DataInv, IsInjective

(* Loading and recycling buffers: a logged block is dirty, so it is neither. *)
LEMMA BufferData ==
  ASSUME TypeOK, ControlInv, DataInv, NEW b \in Blocks, Bread(b) \/ Recycle(b)
  PROVE  DataInv'
<1>1. /\ b \notin dirty /\ ~Busy(b)
      /\ \A x \in Blocks : x # b => buf'[x] = buf[x]
      /\ buf'[b] \in {home[b], NotCached}
      /\ home' = home /\ logblk' = logblk /\ head' = head /\ dirty' = dirty
      /\ hold' = hold /\ lh' = lh /\ pc' = pc /\ tail' = tail
  BY Zenon DEF Bread, Recycle, DataInv, CacheInv, disk, log, TypeOK
<1>2. \A x \in Blocks : Busy(x)' <=> Busy(x)
  BY Zenon, <1>1 DEF Busy
<1>3. CacheInv'
  BY Zenon, <1>1, <1>2 DEF DataInv, CacheInv
<1>4. QuietInv'
  BY Zenon, <1>1 DEF DataInv, QuietInv
<1>5. ASSUME NEW q \in Procs PROVE PhaseInv(q)'
  <2>1. PhaseInv(q)
    BY SMTT(30) DEF DataInv
  <2>2. \A i \in DOMAIN lh : lh[i] \in Blocks
    BY SMTT(30) DEF TypeOK
  <2>3. CASE pc[q] \in {"write_log", "write_head"}
    <3>1. \A r \in Procs : r # q => pc[r] \notin CommitPCs \cup RecoveryPCs
      BY Zenon, <2>3, CommitterAlone DEF CommitPCs
    <3>2. dirty = Range(lh)
      BY SMTT(60), <2>3, <3>1 DEF DataInv, QuietInv, CommitPCs, RecoveryPCs
    <3>3. \A i \in DOMAIN lh : lh[i] # b
      BY Zenon, <1>1, <3>2 DEF Range
    <3> QED
      BY Zenon, <1>1, <2>1, <2>2, <2>3, <3>3 DEF PhaseInv, RecoveryPCs
  <2>4. CASE pc[q] = "install"
    <3>1. \A i \in DOMAIN lh : i >= tail[q] => lh[i] # b
      BY Zenon, <1>1, <2>1, <2>4 DEF PhaseInv
    <3> QED
      BY SMTT(30), <1>1, <2>1, <2>2, <2>4, <3>1 DEF PhaseInv, RecoveryPCs
  <2>5. CASE pc[q] \notin {"write_log", "write_head", "install"}
    <3>1. UNCHANGED <<home, logblk, head, dirty, lh>> /\ pc'[q] = pc[q] /\ tail'[q] = tail[q]
      BY Zenon, <1>1
    <3>2. pc'[q] # "write_log" /\ pc'[q] # "write_head" /\ pc'[q] # "install"
      BY ONLY <2>5, <3>1
    <3>3. /\ pc'[q] = "rinstall" => tail'[q] \in DOMAIN lh'
          /\ pc'[q] = "clear" => lh' # <<>> /\ tail'[q] = Len(lh') + 1
          /\ pc'[q] = "rclear" => \A i \in DOMAIN lh' : i < tail'[q]
          /\ pc'[q] \in RecoveryPCs => dirty' = {}
      <4>1. /\ pc[q] = "rinstall" => tail[q] \in DOMAIN lh
            /\ pc[q] = "clear" => lh # <<>> /\ tail[q] = Len(lh) + 1
            /\ pc[q] = "rclear" => \A i \in DOMAIN lh : i < tail[q]
            /\ pc[q] \in RecoveryPCs => dirty = {}
        BY ONLY Zenon, <2>1 DEF PhaseInv
      <4> QED
        BY ONLY <3>1, <4>1
    <3>4. pc'[q] \in {"clear", "rinstall", "rclear"} =>
            head' = lh' /\ \A i \in DOMAIN lh' : i < tail'[q] => home'[lh'[i]] = logblk'[i]
      <4>1. pc[q] \in {"clear", "rinstall", "rclear"} =>
              head = lh /\ \A i \in DOMAIN lh : i < tail[q] => home[lh[i]] = logblk[i]
        BY ONLY Zenon, <2>1 DEF PhaseInv
      <4> QED
        BY ONLY <3>1, <4>1
    <3>5. pc'[q] = "clear" => dirty' = {lh'[i] : i \in {j \in DOMAIN lh' : j >= tail'[q]}}
      <4>1. pc[q] = "clear" => dirty = {lh[i] : i \in {j \in DOMAIN lh : j >= tail[q]}}
        BY ONLY Zenon, <2>1 DEF PhaseInv
      <4> QED
        BY ONLY Zenon, <3>1, <4>1
    <3> QED
      BY ONLY Zenon, <3>2, <3>3, <3>4, <3>5 DEF PhaseInv
  <2> QED
    BY <2>3, <2>4, <2>5
<1> QED
  BY Zenon, <1>1, <1>3, <1>4, <1>5 DEF DataInv, IsInjective

LEMMA DataStep ==
  ASSUME LogInv, LogFits, [Next]_vars
  PROVE  DataInv'
<1> USE DEF LogInv
<1>1. ASSUME NEW p \in Procs, BeginSleep(p) \/ BeginEnter(p) \/ EndOp(p) \/ Done(p)
      PROVE DataInv'
  <2>1. /\ UNCHANGED <<home, logblk, head, buf, dirty, hold, lh, tail>>
        /\ \A q \in Procs :
             pc'[q] = pc[q] \/ (/\ pc[q] \notin RecoveryPCs \cup {"install", "clear"}
                                /\ pc'[q] \in {"idle", "sleep", "op", "commit", "panic"})
    BY Zenon, <1>1 DEF BeginSleep, BeginEnter, EndOp, Done, Wakeup, TypeOK, RecoveryPCs,
                disk, cache, log
  <2> QED
    BY Zenon, <2>1, ParkData
<1>2. CASE UNCHANGED vars
  <2>1. UNCHANGED <<home, logblk, head, buf, dirty, hold, lh, tail, pc>>
    BY <1>2 DEF vars, disk, cache, log
  <2> QED
    BY <2>1, ParkData
<1> QED
  BY Zenon, <1>1, <1>2, LogWriteCheckData, LogWriteData, CommitData, WriteLogData, WriteHeadData,
     InstallData, ClearHeadData, RecoverClearData, CrashData, ReadHeadData, BufferData
  DEF Next, CommitStep, RecoveryStep
============================================================================
