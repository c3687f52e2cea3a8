----------------------------- MODULE LogControl -----------------------------
(***************************************************************************)
(* Proofs about the log, first part: who may be where (ControlInv) and     *)
(* what still fits the log area (SpaceInv) are preserved by every step.    *)
(***************************************************************************)
EXTENDS Log, FiniteSetTheorems, TLAPS

LEMMA ActiveFinite == IsFiniteSet(Active)
  BY LogAssumption, FS_Subset DEF Active

(* The steps that leave the set of active calls and the parking places of the others
   alone: only the phase of the process that moves changes. *)
LEMMA ControlInit == Init => ControlInv
<1> SUFFICES ASSUME Init PROVE ControlInv
  OBVIOUS
<1>1. PICK p \in Procs : pc = Boot(p)
  BY DEF Init
<1>2. Active = {}
  BY <1>1 DEF Active, Boot, OpPCs
<1>3. Cardinality(Active) = 0
  BY <1>2, FS_EmptySet
<1> QED
  BY <1>1, <1>2, <1>3, LogAssumption
  DEF Init, ControlInv, Boot, CommitAlone, NoLostWakeup, Recovering,
      CounterInv, EmptyInv, RecoveryInv, HoldInv, OpPCs, CommitPCs, RecoveryPCs

(* begin_op sleeps only when there is somebody to wake it: an empty log with no call
   active has room for one call. *)
LEMMA SleepHasWaker ==
  ASSUME TypeOK, ControlInv, EnoughRoom, NEW p \in Procs, BeginSleep(p)
  PROVE  outstanding > 0 \/ committing = 1
<1> SUFFICES ASSUME ~(outstanding > 0), committing # 1 PROVE FALSE
  OBVIOUS
<1>1. NoRoom
  BY DEF BeginSleep
<1>2. outstanding = 0
  BY ActiveFinite, FS_CardinalityType DEF ControlInv, CounterInv, TypeOK
<1>3. Active = {}
  BY Zenon, <1>2, ActiveFinite, FS_EmptySet DEF ControlInv, CounterInv
<1>4. ~Recovering
  BY DEF BeginSleep, Recovering, ControlInv, RecoveryInv, RecoveryPCs
<1>5. lh = <<>>
  BY <1>3, <1>4 DEF ControlInv, EmptyInv, TypeOK
<1>6. (outstanding + 1) * MAXOPBLOCKS = MAXOPBLOCKS
  BY <1>2, LogAssumption
<1> QED
  BY <1>1, <1>5, <1>6, LogAssumption DEF NoRoom, EnoughRoom

LEMMA BeginSleepControl ==
  ASSUME TypeOK, ControlInv, EnoughRoom, NEW p \in Procs, BeginSleep(p)
  PROVE  ControlInv'
<1> USE DEF BeginSleep, TypeOK, disk, cache, log, OpPCs, CommitPCs, RecoveryPCs, PCs
<1>1. Active' = Active
  BY DEF Active
<1>2. Recovering' = Recovering
  BY DEF Recovering
<1>3. CounterInv'
  BY <1>1 DEF CounterInv, ControlInv
<1>4. CommitAlone'
  BY <1>1 DEF CommitAlone, ControlInv
<1>5. NoLostWakeup'
  BY Zenon, SleepHasWaker DEF NoLostWakeup, ControlInv
<1>6. EmptyInv'
  BY <1>1, <1>2 DEF EmptyInv, ControlInv
<1>7. RecoveryInv'
  BY <1>2 DEF RecoveryInv, ControlInv
<1>8. HoldInv'
  BY DEF HoldInv, ControlInv
<1> QED
  BY <1>3, <1>4, <1>5, <1>6, <1>7, <1>8 DEF ControlInv

LEMMA BeginEnterControl ==
  ASSUME TypeOK, ControlInv, NEW p \in Procs, BeginEnter(p)
  PROVE  ControlInv'
<1> USE DEF BeginEnter, TypeOK, disk, cache, OpPCs, CommitPCs, RecoveryPCs, PCs
<1>1. Active' = Active \cup {p} /\ p \notin Active
  BY DEF Active
<1>2. ~Recovering /\ ~Recovering'
  BY DEF Recovering, ControlInv, RecoveryInv
<1>3. CounterInv'
  <2>1. Cardinality(Active') = Cardinality(Active) + 1
    BY ONLY Zenon, <1>1, ActiveFinite, FS_AddElement
  <2> QED
    BY <2>1 DEF CounterInv, ControlInv
<1>4. CommitAlone'
  BY DEF CommitAlone, CounterInv, ControlInv
<1>5. NoLostWakeup'
  BY ActiveFinite, FS_CardinalityType DEF NoLostWakeup, CounterInv, ControlInv
<1>6. EmptyInv'
  BY <1>1 DEF EmptyInv, ControlInv
<1>7. RecoveryInv'
  BY <1>2 DEF RecoveryInv, ControlInv, Recovering
<1>8. HoldInv'
  BY Zenon DEF HoldInv, ControlInv
<1> QED
  BY <1>3, <1>4, <1>5, <1>6, <1>7, <1>8 DEF ControlInv

(* Inside a call: the process stays active, and holds a buffer from the check of
   log_write to its end. *)
LEMMA OpControl ==
  ASSUME TypeOK, ControlInv, NEW p \in Procs,
         LogWrite(p) \/ \E b \in Blocks, v \in Values : LogWriteCheck(p, b, v)
  PROVE  ControlInv'
<1> USE DEF TypeOK, disk, OpPCs, CommitPCs, RecoveryPCs, PCs
<1>1. /\ pc[p] \in OpPCs
      /\ \E x \in OpPCs : pc' = [pc EXCEPT ![p] = x]
      /\ outstanding' = outstanding /\ committing' = committing
  BY Zenon DEF LogWrite, LogWriteCheck, log
<1>2. Active' = Active /\ Active # {}
  BY <1>1 DEF Active
<1>3. ~Recovering /\ ~Recovering'
  BY <1>1 DEF Recovering, ControlInv, RecoveryInv
<1>4. CounterInv'
  BY <1>1, <1>2 DEF CounterInv, ControlInv
<1>5. CommitAlone'
  BY <1>1, <1>2 DEF CommitAlone, ControlInv
<1>6. NoLostWakeup'
  BY <1>1 DEF NoLostWakeup, ControlInv
<1>7. EmptyInv'
  BY <1>1, <1>2, <1>3 DEF EmptyInv, CommitAlone, ControlInv, Recovering
<1>8. RecoveryInv'
  BY <1>1, <1>3 DEF RecoveryInv, ControlInv, Recovering
<1>9. HoldInv'
  <2>1. CASE LogWrite(p)
    BY <2>1 DEF LogWrite, HoldInv, ControlInv
  <2>2. ASSUME NEW b \in Blocks, NEW v \in Values, LogWriteCheck(p, b, v)
        PROVE  HoldInv'
    <3>1. \A q \in Procs : hold[q] # b
      BY <2>2 DEF LogWriteCheck, Busy
    <3> QED
      BY <2>2, <3>1, LogAssumption DEF LogWriteCheck, HoldInv, ControlInv
  <2> QED
    BY <2>1, <2>2
<1> QED
  BY <1>4, <1>5, <1>6, <1>7, <1>8, <1>9 DEF ControlInv

LEMMA EndOpControl ==
  ASSUME TypeOK, ControlInv, NEW p \in Procs, EndOp(p)
  PROVE  ControlInv'
<1> USE DEF EndOp, TypeOK, disk, cache, OpPCs, CommitPCs, RecoveryPCs, PCs
<1>1. p \in Active /\ committing = 0
  BY DEF Active, CommitAlone, CounterInv, ControlInv
<1>2. pc' = IF outstanding = 1 THEN [pc EXCEPT ![p] = "commit"]
            ELSE Wakeup([pc EXCEPT ![p] = "idle"])
  BY <1>1
<1>3. Active' = Active \ {p}
  BY <1>2 DEF Active, Wakeup
<1>4. /\ IsFiniteSet(Active')
      /\ outstanding' = Cardinality(Active')
  BY <1>1, <1>3, ActiveFinite, FS_RemoveElement DEF CounterInv, ControlInv
<1>5. Active' = {} <=> outstanding = 1
  BY <1>4, FS_EmptySet
<1>6. ~Recovering /\ ~Recovering'
  BY <1>2 DEF Recovering, ControlInv, RecoveryInv, Wakeup
<1>7. \A q \in Procs : pc[q] \notin CommitPCs
  BY <1>1 DEF CommitAlone, ControlInv
<1>8. CounterInv'
  BY <1>1, <1>2, <1>4, <1>7 DEF CounterInv, Wakeup
<1>9. CommitAlone'
  BY <1>2, <1>5, <1>7 DEF CommitAlone, Wakeup
<1>10. NoLostWakeup'
  BY <1>2 DEF NoLostWakeup, Wakeup
<1>11. EmptyInv'
  BY <1>1, <1>2, <1>5, <1>6, <1>7 DEF EmptyInv, Wakeup, Recovering
<1>12. RecoveryInv'
  BY <1>2, <1>6 DEF RecoveryInv, ControlInv, Wakeup, Recovering
<1>13. HoldInv'
  BY <1>2 DEF HoldInv, ControlInv, Wakeup
<1> QED
  BY <1>8, <1>9, <1>10, <1>11, <1>12, <1>13 DEF ControlInv

(* Inside commit: the committing process goes from phase to phase, and empties the log
   before the last one. *)
LEMMA CommitControl ==
  ASSUME TypeOK, ControlInv, NEW p \in Procs,
         Commit(p) \/ WriteLog(p) \/ WriteHead(p) \/ Install(p) \/ ClearHead(p)
  PROVE  ControlInv'
<1> USE DEF TypeOK, OpPCs, CommitPCs, RecoveryPCs, PCs
<1>1. PICK x \in CommitPCs :
        /\ pc[p] \in CommitPCs
        /\ pc' = [pc EXCEPT ![p] = x]
        /\ x = "done" => lh' = <<>>
        /\ lh' \in {lh, <<>>}
        /\ outstanding' = outstanding /\ committing' = committing /\ hold' = hold
  BY DEF Commit, WriteLog, WriteHead, Install, InstallTrans, ClearHead, cache, log
<1>2. Active' = Active
  BY <1>1 DEF Active
<1>3. ~Recovering /\ ~Recovering'
  BY <1>1 DEF Recovering, ControlInv, RecoveryInv
<1>4. CounterInv'
  BY <1>1, <1>2 DEF CounterInv, ControlInv
<1>5. CommitAlone'
  BY <1>1, <1>2 DEF CommitAlone, ControlInv
<1>6. NoLostWakeup'
  BY <1>1 DEF NoLostWakeup, ControlInv
<1>7. EmptyInv'
  BY <1>1, <1>2, <1>3 DEF EmptyInv, ControlInv, Recovering
<1>8. RecoveryInv'
  BY <1>1, <1>3 DEF RecoveryInv, ControlInv, Recovering
<1>9. HoldInv'
  BY <1>1 DEF HoldInv, ControlInv
<1> QED
  BY SMTT(30), <1>4, <1>5, <1>6, <1>7, <1>8, <1>9 DEF ControlInv

LEMMA DoneControl ==
  ASSUME TypeOK, ControlInv, NEW p \in Procs, Done(p)
  PROVE  ControlInv'
<1> USE DEF Done, TypeOK, disk, cache, OpPCs, CommitPCs, RecoveryPCs, PCs
<1>1. Active' = Active
  BY DEF Active, Wakeup
<1>2. ~Recovering /\ ~Recovering'
  BY Zenon DEF Recovering, ControlInv, RecoveryInv, Wakeup
<1>3. \A q \in Procs : pc'[q] \notin CommitPCs
  BY Zenon DEF CommitAlone, ControlInv, Wakeup
<1>4. CounterInv'
  BY <1>1, <1>3 DEF CounterInv, ControlInv, Wakeup
<1>5. CommitAlone'
  BY Zenon, <1>3 DEF CommitAlone
<1>6. NoLostWakeup'
  BY DEF NoLostWakeup, Wakeup
<1>7. EmptyInv'
  BY DEF EmptyInv, ControlInv
<1>8. RecoveryInv'
  BY <1>2 DEF RecoveryInv, ControlInv, Wakeup, Recovering
<1>9. HoldInv'
  BY DEF HoldInv, ControlInv, Wakeup
<1> QED
  BY <1>4, <1>5, <1>6, <1>7, <1>8, <1>9 DEF ControlInv

(* Boot and recovery: one process, no call active. *)
LEMMA CrashControl ==
  ASSUME NEW p \in Procs, Crash(p)
  PROVE  ControlInv'
<1>1. Active' = {}
  BY DEF Crash, Active, Boot, OpPCs
<1>2. Cardinality(Active') = 0
  BY <1>1, FS_EmptySet
<1> QED
  BY <1>1, <1>2
  DEF Crash, ControlInv, Boot, CommitAlone, NoLostWakeup, Recovering,
      CounterInv, EmptyInv, RecoveryInv, HoldInv, OpPCs, CommitPCs, RecoveryPCs

LEMMA RecoverControl ==
  ASSUME TypeOK, ControlInv, NEW p \in Procs,
         ReadHead(p) \/ RecoverInstall(p)
  PROVE  ControlInv'
<1> USE DEF TypeOK, OpPCs, CommitPCs, RecoveryPCs, PCs
<1>1. PICK x \in {"rinstall", "rclear"} :
        /\ pc[p] \in RecoveryPCs
        /\ pc' = [pc EXCEPT ![p] = x]
        /\ outstanding' = outstanding /\ committing' = committing /\ hold' = hold
  BY DEF ReadHead, RecoverInstall, InstallTrans, cache, log
<1>2. Active' = Active
  BY <1>1 DEF Active
<1>3. Recovering /\ Recovering'
  BY <1>1 DEF Recovering
<1>4. \A q \in Procs : q # p => pc'[q] = "unborn"
  BY SMTT(30), <1>1 DEF RecoveryInv, ControlInv
<1>5. CounterInv'
  BY <1>1, <1>2 DEF CounterInv, ControlInv
<1> QED
  BY SMTT(30), <1>1, <1>2, <1>3, <1>4, <1>5
  DEF ControlInv, CommitAlone, NoLostWakeup, EmptyInv, RecoveryInv, HoldInv

LEMMA RecoverClearControl ==
  ASSUME TypeOK, ControlInv, NEW p \in Procs, RecoverClear(p)
  PROVE  ControlInv'
<1> USE DEF RecoverClear, TypeOK, cache, OpPCs, CommitPCs, RecoveryPCs, PCs
<1>1. \A q \in Procs : q # p => pc[q] = "unborn"
  BY DEF RecoveryInv, ControlInv
<1>2. Active' = {} /\ Active = {}
  BY Zenon, <1>1 DEF Active
<1>3. committing = 0
  BY Zenon, <1>1 DEF CounterInv, ControlInv
<1>4. CounterInv'
  BY <1>2, <1>3 DEF CounterInv, ControlInv
<1>5. HoldInv'
  BY Zenon, <1>1 DEF HoldInv, ControlInv
<1> QED
  BY <1>2, <1>3, <1>4, <1>5
  DEF ControlInv, CommitAlone, NoLostWakeup, EmptyInv, RecoveryInv, Recovering

LEMMA ControlStep ==
  ASSUME TypeOK, ControlInv, EnoughRoom, [Next]_vars
  PROVE  ControlInv'
<1>1. ASSUME UNCHANGED <<pc, hold, lh, outstanding, committing>> PROVE ControlInv'
  BY Zenon, <1>1
  DEF ControlInv, CounterInv, CommitAlone, NoLostWakeup, EmptyInv, RecoveryInv, HoldInv,
      Active, Recovering
<1>2. ASSUME NEW b \in Blocks, Bread(b) \/ Recycle(b) PROVE ControlInv'
  BY <1>1, <1>2 DEF Bread, Recycle, log
<1>3. CASE UNCHANGED vars
  BY <1>1, <1>3 DEF vars, cache, log
<1> QED
  BY SMTT(60), <1>2, <1>3, BeginSleepControl, BeginEnterControl, OpControl, EndOpControl,
     CommitControl, DoneControl, CrashControl, RecoverControl, RecoverClearControl
  DEF Next, CommitStep, RecoveryStep
-----------------------------------------------------------------------------
(* Space.  Claims is a finite set of tokens: a call enters with OpBlocks of them and pays
   one for each block it adds to the log. *)
ClaimsBounded ==
  /\ IsFiniteSet(Claims)
  /\ Cardinality(Claims) \in Nat
  /\ Cardinality(Claims) <= Cardinality(Active) * OpBlocks

LEMMA ClaimsFinite == ClaimsBounded
<1>1. /\ IsFiniteSet(1..OpBlocks)
      /\ Cardinality(1..OpBlocks) = OpBlocks
  BY FS_Interval, LogAssumption
<1>2. /\ IsFiniteSet(Active \X (1..OpBlocks))
      /\ Cardinality(Active \X (1..OpBlocks)) = Cardinality(Active) * OpBlocks
  BY Zenon, <1>1, ActiveFinite, FS_Product
<1>3. Claims \in SUBSET (Active \X (1..OpBlocks))
  BY DEF Claims
<1> QED
  BY <1>2, <1>3, FS_Subset, FS_CardinalityType DEF ClaimsBounded

LEMMA ClaimsFinitePrime == ClaimsBounded'
  BY ClaimsFinite, PTL

(* What is reserved for o + 1 calls and not used leaves at least m - k entries free. *)
LEMMA Reservation ==
  ASSUME NEW n \in Nat, NEW o \in Nat, NEW m \in Nat, NEW k \in Nat, NEW size \in Nat,
         k <= m, n + (o + 1) * m <= size
  PROVE  n + (o + 1) * k <= size - (m - k)
<1>1. (o + 1) * m = (o + 1) * k + (o + 1) * (m - k)
  OBVIOUS
<1>2. (o + 1) * (m - k) >= m - k
  OBVIOUS
<1>3. (o + 1) * m \in Int /\ (o + 1) * k \in Int /\ (o + 1) * (m - k) \in Int
  OBVIOUS
<1>4. ASSUME NEW x \in Int, NEW y \in Int, NEW z \in Int,
             x = y + z, z >= m - k, n + x <= size
      PROVE  n + y <= size - (m - k)
  BY <1>4
<1> QED
  BY <1>1, <1>2, <1>3, <1>4

LEMMA SpaceInit == EnoughRoom /\ Init => SpaceInv
<1> SUFFICES ASSUME EnoughRoom, Init PROVE SpaceInv
  OBVIOUS
<1>1. Active = {}
  BY DEF Init, Active, Boot, OpPCs
<1>2. Claims = {}
  BY <1>1 DEF Claims
<1>3. Cardinality(Claims) = 0
  BY <1>2, FS_EmptySet
<1> QED
  BY <1>1, <1>3, LogAssumption DEF Init, SpaceInv, EnoughRoom, Capacity

(* begin_op: the reservations of all active calls, the new one included, fit LOGSIZE. *)
LEMMA BeginEnterSpace ==
  ASSUME TypeOK, ControlInv, SpaceInv, EnoughRoom, NEW p \in Procs, BeginEnter(p)
  PROVE  SpaceInv'
<1> USE DEF BeginEnter, TypeOK, disk, cache, OpPCs, PCs
<1>1. Active' = Active \cup {p} /\ p \notin Active
  BY DEF Active
<1>2. outstanding = Cardinality(Active) /\ outstanding \in Nat
  BY ActiveFinite, FS_CardinalityType DEF ControlInv, CounterInv
<1>3. Cardinality(Active') = outstanding + 1
  BY Zenon, <1>1, <1>2, ActiveFinite, FS_AddElement
<1>4. Len(lh) + (outstanding + 1) * OpBlocks <= Capacity
  <2>1. /\ Len(lh) \in Nat /\ OpBlocks <= MAXOPBLOCKS
        /\ Len(lh) + (outstanding + 1) * MAXOPBLOCKS <= LOGSIZE
    BY SMTT(60), <1>2, LogAssumption DEF NoRoom, EnoughRoom
  <2>2. Len(lh) + (outstanding + 1) * OpBlocks <= LOGSIZE - (MAXOPBLOCKS - OpBlocks)
    BY ONLY Zenon, <1>2, <2>1, LogAssumption, Reservation
  <2> QED
    BY <2>2 DEF Capacity
<1>5. Len(lh') + Cardinality(Claims') <= Capacity
  <2>1. Cardinality(Claims') <= (outstanding + 1) * OpBlocks /\ Cardinality(Claims') \in Nat
    BY <1>3, ClaimsFinitePrime DEF ClaimsBounded
  <2>2. (outstanding + 1) * OpBlocks \in Int /\ Capacity \in Int /\ Len(lh') = Len(lh)
    BY SMTT(30), <1>2, LogAssumption DEF Capacity
  <2> QED
    BY <1>4, <2>1, <2>2
<1>6. \A q \in Active' : /\ IsFiniteSet(wrote'[q])
                         /\ wrote'[q] \subseteq Range(lh')
                         /\ Cardinality(wrote'[q] \cup ({hold'[q]} \ {None})) <= OpBlocks
  <2> TAKE q \in Active'
  <2>1. CASE q # p
    BY Zenon, <1>1, <2>1 DEF SpaceInv, Active
  <2>2. CASE q = p
    <3>1. wrote'[q] = {} /\ hold'[q] = None
      BY Zenon, <2>2 DEF ControlInv, HoldInv
    <3>2. wrote'[q] \cup ({hold'[q]} \ {None}) = {}
      BY SMTT(30), <3>1
    <3>3. IsFiniteSet({}) /\ Cardinality({}) = 0
      BY SMTT(30), FS_EmptySet
    <3> QED
      BY ONLY <3>1, <3>2, <3>3, LogAssumption
  <2> QED
    BY <2>1, <2>2
<1> QED
  BY Zenon, <1>5, <1>6 DEF SpaceInv, Capacity

LEMMA LogWriteCheckSpace ==
  ASSUME TypeOK, ControlInv, SpaceInv, NEW p \in Procs, NEW b \in Blocks, NEW v \in Values,
         LogWriteCheck(p, b, v)
  PROVE  SpaceInv'
<1> USE DEF LogWriteCheck, TypeOK, disk, log, OpPCs, PCs
<1>1. Active' = Active
  BY DEF Active
<1>2. Claims' = Claims
  BY SMTT(30), <1>1 DEF Claims
<1>3. \A q \in Active' : /\ IsFiniteSet(wrote'[q])
                         /\ wrote'[q] \subseteq Range(lh')
                         /\ Cardinality(wrote'[q] \cup ({hold'[q]} \ {None})) <= OpBlocks
  <2> TAKE q \in Active'
  <2>1. CASE q # p
    BY Zenon, <1>1, <2>1 DEF SpaceInv, Active
  <2>2. CASE q = p
    <3>1. wrote'[p] \cup ({hold'[p]} \ {None}) = wrote[p] \cup {b}
      BY LogAssumption
    <3> QED
      BY Zenon, <1>1, <2>2, <3>1 DEF SpaceInv
  <2> QED
    BY <2>1, <2>2
<1> QED
  BY Zenon, <1>2, <1>3 DEF SpaceInv, Capacity

(* log_write: a block new to the log costs its call a claim, an absorbed one costs none. *)
LEMMA LogWriteSpace ==
  ASSUME TypeOK, ControlInv, SpaceInv, NEW p \in Procs, LogWrite(p)
  PROVE  SpaceInv'
<1> DEFINE b == hold[p]
           k == Cardinality(wrote[p])
<1> USE DEF LogWrite, TypeOK, disk, OpPCs, PCs
<1>1. Active' = Active /\ p \in Active
  BY DEF Active
<1>2. b \in Blocks
  BY DEF ControlInv, HoldInv
<1>3. /\ IsFiniteSet(wrote[p]) /\ k \in Nat
      /\ wrote[p] \subseteq Range(lh)
      /\ Cardinality(wrote[p] \cup {b}) <= OpBlocks
  <2>1. wrote[p] \cup ({hold[p]} \ {None}) = wrote[p] \cup {b}
    BY <1>2, LogAssumption
  <2> QED
    BY Zenon, <1>1, <2>1, FS_CardinalityType DEF SpaceInv
<1>4. /\ IsFiniteSet(wrote[p] \cup {b})
      /\ Cardinality(wrote[p] \cup {b}) = IF b \in wrote[p] THEN k ELSE k + 1
  BY Zenon, <1>3, FS_AddElement
<1>5. Claims' \subseteq Claims
  <2> SUFFICES ASSUME NEW c \in Claims' PROVE c \in Claims
    OBVIOUS
  <2>1. c \in Active \X (1..OpBlocks) /\ c[2] > Cardinality(wrote'[c[1]])
    BY SMTT(30), <1>1 DEF Claims
  <2>2. CASE c[1] = p
    <3>1. wrote'[c[1]] = wrote[p] \cup {b}
      BY SMTT(30), <2>2
    <3>2. c[2] > k
      BY ONLY <1>3, <1>4, <2>1, <3>1, LogAssumption
    <3> QED
      BY <2>1, <2>2, <3>2 DEF Claims
  <2>3. CASE c[1] # p
    <3>1. wrote'[c[1]] = wrote[c[1]]
      BY Zenon, <2>1, <2>3 DEF Active
    <3> QED
      BY SMTT(30), <2>1, <3>1 DEF Claims
  <2> QED
    BY SMTT(30), <2>2, <2>3
<1>6. Len(lh') + Cardinality(Claims') <= Capacity
  <2>1. Capacity \in Int /\ Len(lh) \in Nat /\ Len(lh) + Cardinality(Claims) <= Capacity
    BY LogAssumption DEF Capacity, SpaceInv
  <2>2. CASE b \in Range(lh)
    <3>1. Cardinality(Claims') <= Cardinality(Claims)
      BY <1>5, ClaimsFinite, FS_Subset DEF ClaimsBounded
    <3> QED
      BY SMTT(30), <2>1, <2>2, <3>1, ClaimsFinite, ClaimsFinitePrime DEF ClaimsBounded
  <2>3. CASE b \notin Range(lh)
    <3>1. Cardinality(wrote[p] \cup {b}) = k + 1 /\ k + 1 \in 1..OpBlocks
      BY SMTT(30), <1>3, <1>4, <2>3, LogAssumption
    <3>2. <<p, k + 1>> \in Claims
      BY SMTT(30), <1>1, <1>3, <3>1 DEF Claims
    <3>3. <<p, k + 1>> \notin Claims'
      <4>1. wrote'[p] = wrote[p] \cup {b}
        OBVIOUS
      <4>2. <<p, k + 1>> \in Claims' => k + 1 > Cardinality(wrote'[p])
        BY DEF Claims
      <4> HIDE DEF k
      <4> QED
        BY ONLY <1>3, <3>1, <4>1, <4>2
    <3>4. Claims' \in SUBSET (Claims \ {<<p, k + 1>>})
      BY Zenon, <1>5, <3>3
    <3>5. /\ IsFiniteSet(Claims \ {<<p, k + 1>>})
          /\ Cardinality(Claims \ {<<p, k + 1>>}) = Cardinality(Claims) - 1
      BY ONLY <3>2, ClaimsFinite, FS_RemoveElement DEF ClaimsBounded
    <3>6. Cardinality(Claims') <= Cardinality(Claims) - 1
      BY ONLY SMTT(30), <3>4, <3>5, FS_Subset
    <3>7. Len(lh') = Len(lh) + 1
      BY <1>2, <2>3
    <3> QED
      BY ONLY SMTT(60), <2>1, <3>6, <3>7, ClaimsFinite, ClaimsFinitePrime DEF ClaimsBounded
  <2> QED
    BY SMTT(30), <2>2, <2>3
<1>7. Range(lh) \subseteq Range(lh') /\ b \in Range(lh')
  <2>1. CASE b \in Range(lh)
    BY <2>1
  <2>2. CASE b \notin Range(lh)
    <3>1. lh' = Append(lh, b)
      BY <2>2
    <3>2. \A i \in DOMAIN lh : i \in DOMAIN lh' /\ lh'[i] = lh[i]
      BY SMTT(30), <1>2, <3>1
    <3>3. Len(lh) + 1 \in DOMAIN lh' /\ lh'[Len(lh) + 1] = b
      BY <1>2, <3>1
    <3> QED
      BY Zenon, <3>2, <3>3 DEF Range
  <2> QED
    BY <2>1, <2>2
<1>8. \A q \in Active' : /\ IsFiniteSet(wrote'[q])
                         /\ wrote'[q] \subseteq Range(lh')
                         /\ Cardinality(wrote'[q] \cup ({hold'[q]} \ {None})) <= OpBlocks
  <2> TAKE q \in Active'
  <2>1. CASE q # p
    BY Zenon, <1>1, <1>7, <2>1 DEF SpaceInv, Active
  <2>2. CASE q = p
    <3>1. wrote'[q] = wrote[p] \cup {b} /\ hold'[q] = None
      BY <2>2
    <3>2. wrote'[q] \cup ({hold'[q]} \ {None}) = wrote[p] \cup {b}
      BY SMTT(30), <3>1
    <3> QED
      BY ONLY Zenon, <1>3, <1>4, <1>7, <3>1, <3>2
  <2> QED
    BY Zenon, <2>1, <2>2
<1> QED
  BY Zenon, <1>6, <1>8 DEF SpaceInv, Capacity

(* Steps after which no call has more claims than before, and the log is no longer. *)
Shrinks ==
  /\ Active' \subseteq Active
  /\ \A q \in Active' : wrote'[q] = wrote[q] /\ hold'[q] = hold[q] /\ lh' = lh
  /\ lh' \in {lh, <<>>} \/ (Active = {} /\ lh' = head)
  /\ head' \in {<<>>, head, lh}

LEMMA ShrinkSpace ==
  ASSUME TypeOK, SpaceInv, EnoughRoom, Shrinks
  PROVE  SpaceInv'
<1>0. /\ Active' \subseteq Active
      /\ \A q \in Active' : wrote'[q] = wrote[q] /\ hold'[q] = hold[q] /\ lh' = lh
      /\ Len(lh') <= Len(lh) \/ (Active = {} /\ lh' = head)
      /\ Len(lh') \in Nat /\ head' \in {<<>>, head, lh}
  BY DEF Shrinks, TypeOK
<1>1. Claims' \in SUBSET Claims
  BY <1>0 DEF Claims
<1>2. Cardinality(Claims') <= Cardinality(Claims)
  BY <1>1, ClaimsFinite, FS_Subset DEF ClaimsBounded
<1>3. Len(lh') + Cardinality(Claims') <= Capacity
  <2>1. Capacity \in Int /\ Len(lh) \in Nat
    BY SMTT(30), LogAssumption DEF Capacity, TypeOK
  <2>2. CASE Len(lh') <= Len(lh)
    BY SMTT(60), <1>0, <1>2, <2>1, <2>2, ClaimsFinite, ClaimsFinitePrime DEF ClaimsBounded, SpaceInv
  <2>3. CASE Active = {} /\ lh' = head
    <3>1. Claims' = {}
      BY SMTT(30), <2>3, <1>1 DEF Claims
    <3>2. Cardinality(Claims') = 0
      BY <3>1, FS_EmptySet
    <3> QED
      BY <1>0, <2>1, <2>3, <3>2 DEF SpaceInv, TypeOK
  <2> QED
    BY <1>0, <2>2, <2>3
<1>4. Len(head') <= Capacity
  <2>1. Len(lh) <= Capacity
    BY SMTT(30), ClaimsFinite, LogAssumption DEF ClaimsBounded, SpaceInv, Capacity, TypeOK
  <2>2. 0 <= Capacity
    BY SMTT(60), LogAssumption DEF Capacity, EnoughRoom
  <2> QED
    BY <1>0, <2>1, <2>2 DEF SpaceInv
<1>5. \A q \in Active' : /\ IsFiniteSet(wrote'[q]) /\ wrote'[q] \subseteq Range(lh')
                         /\ Cardinality(wrote'[q] \cup ({hold'[q]} \ {None})) <= OpBlocks
  BY Zenon, <1>0 DEF SpaceInv
<1> QED
  BY Zenon, <1>3, <1>4, <1>5 DEF SpaceInv, Capacity

(* A process that goes on to a point outside an operation leaves the active ones. *)
LEMMA LeavesActive ==
  ASSUME TypeOK, NEW p \in Procs, NEW to, to \notin OpPCs, pc' = [pc EXCEPT ![p] = to]
  PROVE  Active' \subseteq Active
<1>1. \A q \in Procs : pc'[q] = IF q = p THEN to ELSE pc[q]
  BY DEF TypeOK
<1>. QED
  BY Zenon, <1>1 DEF Active

LEMMA SpaceStep ==
  ASSUME TypeOK, ControlInv, SpaceInv, EnoughRoom, [Next]_vars
  PROVE  SpaceInv'
<1>1. ASSUME NEW p \in Procs, BeginSleep(p) \/ EndOp(p) \/ Done(p) PROVE SpaceInv'
  <2>1. UNCHANGED <<wrote, hold, lh, head>>
    BY Zenon, <1>1 DEF BeginSleep, EndOp, Done, disk, cache, log
  <2>2. Active' \subseteq Active
    BY Zenon, <1>1 DEF BeginSleep, EndOp, Done, Wakeup, Active, TypeOK, OpPCs
  <2>3. Shrinks
    BY Zenon, <2>1, <2>2 DEF Shrinks
  <2> QED
    BY Zenon, <2>3, ShrinkSpace
<1>2. ASSUME NEW p \in Procs,
             Commit(p) \/ WriteLog(p) \/ WriteHead(p) \/ Install(p) \/ RecoverInstall(p)
      PROVE  SpaceInv'
  <2>1. UNCHANGED <<wrote, hold, lh>> /\ head' \in {head, lh}
    BY Zenon, <1>2 DEF Commit, WriteLog, WriteHead, Install, RecoverInstall, InstallTrans,
       disk, cache, log
  <2>2. PICK to : /\ pc' = [pc EXCEPT ![p] = to]
                  /\ to \in {"write_log", "write_head", "install", "clear", "done", "rinstall", "rclear"}
    <3>1. \/ pc' = [pc EXCEPT ![p] = "write_log"] \/ pc' = [pc EXCEPT ![p] = "write_head"]
          \/ pc' = [pc EXCEPT ![p] = "install"] \/ pc' = [pc EXCEPT ![p] = "clear"]
          \/ pc' = [pc EXCEPT ![p] = "done"] \/ pc' = [pc EXCEPT ![p] = "rinstall"]
          \/ pc' = [pc EXCEPT ![p] = "rclear"]
      BY Zenon, <1>2 DEF Commit, WriteLog, WriteHead, Install, RecoverInstall, InstallTrans
    <3>. QED
      BY Zenon, <3>1
  <2>3. to \notin OpPCs
    BY <2>2 DEF OpPCs
  <2>4. Shrinks
    <3>1. Active' \subseteq Active
      BY Zenon, <2>2, <2>3, LeavesActive
    <3>. QED
      BY Zenon, <2>1, <3>1 DEF Shrinks
  <2> QED
    BY Zenon, <2>4, ShrinkSpace
<1>3. ASSUME NEW p \in Procs, ClearHead(p) \/ RecoverClear(p) \/ Crash(p) PROVE SpaceInv'
  <2>1. lh' = <<>> /\ head' \in {<<>>, head}
    BY Zenon, <1>3 DEF ClearHead, RecoverClear, Crash, disk
  <2>2. Active' = {}
    <3>1. CASE ClearHead(p)
      <4>1. Active = {}
        BY <3>1 DEF ClearHead, CommitAlone, ControlInv, CommitPCs
      <4>2. Active' \subseteq Active
        <5>1. "done" \notin OpPCs /\ pc' = [pc EXCEPT ![p] = "done"]
          BY <3>1 DEF ClearHead, OpPCs
        <5>. QED
          BY Zenon, <5>1, LeavesActive
      <4>. QED
        BY <4>1, <4>2
    <3>2. CASE RecoverClear(p) \/ Crash(p)
      <4>1. \A q \in Procs : pc'[q] \in {"idle", "read_head", "unborn"}
        BY <3>2 DEF RecoverClear, Crash, Boot
      <4>. QED
        BY <4>1 DEF Active, OpPCs
    <3>. QED
      BY Zenon, <1>3, <3>1, <3>2
  <2>3. Shrinks
    BY Zenon, <2>1, <2>2 DEF Shrinks
  <2> QED
    BY Zenon, <2>3, ShrinkSpace
<1>4. ASSUME NEW p \in Procs, ReadHead(p) PROVE SpaceInv'
  <2>1. lh' = head /\ head' = head
    BY Zenon, <1>4 DEF ReadHead, disk
  <2>2. Active = {}
    <3>1. \A q \in Procs : pc[q] \in {"read_head", "unborn"}
      BY <1>4 DEF ReadHead, RecoveryInv, RecoveryPCs, ControlInv
    <3>. QED
      BY <3>1 DEF Active, OpPCs
  <2>3. Active' \subseteq Active
    <3>0. pc' = [pc EXCEPT ![p] = "rclear"] \/ pc' = [pc EXCEPT ![p] = "rinstall"]
      BY Zenon, <1>4 DEF ReadHead
    <3>1. PICK to : pc' = [pc EXCEPT ![p] = to] /\ to \in {"rclear", "rinstall"}
      BY Zenon, <3>0
    <3>2. to \notin OpPCs
      BY <3>1 DEF OpPCs
    <3>. QED
      BY Zenon, <3>1, <3>2, LeavesActive
  <2>4. Shrinks
    <3>1. Active' = {}
      BY <2>2, <2>3
    <3>. QED
      BY Zenon, <2>1, <2>2, <3>1 DEF Shrinks
  <2> QED
    BY Zenon, <2>4, ShrinkSpace
<1>5. ASSUME NEW b \in Blocks, Bread(b) \/ Recycle(b) PROVE SpaceInv'
  <2>1. UNCHANGED <<pc, wrote, hold, lh, head>>
    BY Zenon, <1>5 DEF Bread, Recycle, disk, log
  <2>2. Shrinks
    BY Zenon, <2>1 DEF Shrinks, Active
  <2> QED
    BY Zenon, <2>2, ShrinkSpace
<1>6. CASE UNCHANGED vars
  <2>1. UNCHANGED <<pc, wrote, hold, lh, head>>
    BY Zenon, <1>6 DEF vars, disk, cache, log
  <2>2. Shrinks
    BY Zenon, <2>1 DEF Shrinks, Active
  <2> QED
    BY Zenon, <2>2, ShrinkSpace
<1> QED
  BY Zenon, <1>1, <1>2, <1>3, <1>4, <1>5, <1>6, BeginEnterSpace, LogWriteCheckSpace, LogWriteSpace
  DEF Next, CommitStep, RecoveryStep

(* The space invariant is what keeps a transaction inside the log area. *)
LEMMA SpaceFits ==
  ASSUME TypeOK, SpaceInv, EnoughRoom
  PROVE  LogFits
  BY ClaimsFinite, LogAssumption
  DEF ClaimsBounded, SpaceInv, EnoughRoom, Capacity, TypeOK, LogFits
=============================================================================
