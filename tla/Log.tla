-------------------------------- MODULE Log --------------------------------
(***************************************************************************)
(* The write-ahead log of xv6 (src/xv6/log.c) over the buffer cache and    *)
(* the disk, with crashes at any step and recovery at boot.                *)
(*                                                                         *)
(* A section of code under log.lock is one step, and so is each write of   *)
(* a disk block (bwrite is synchronous).  A system call that writes a      *)
(* block holds its buffer (B_BUSY) from bread to brelse.                   *)
(***************************************************************************)
EXTENDS Integers, Sequences, FiniteSets, Functions

CONSTANTS
  Procs,        \* processes making file-system calls
  Blocks,       \* home blocks: everything outside the log area
  Values,       \* block contents
  Zero,         \* the contents mkfs gives the log blocks
  NotCached,    \* no buffer holds the block
  None,         \* no buffer held
  LOGSIZE,      \* param.h: entries of the header's block array
  LogSize,      \* log.size = sb.nlog: disk blocks of the log, its header included
  MAXOPBLOCKS,  \* param.h: blocks reserved for each system call
  OpBlocks      \* blocks a system call really writes, at most

ASSUME LogAssumption ==
  /\ IsFiniteSet(Procs)
  /\ Zero \in Values
  /\ NotCached \notin Values
  /\ None \notin Blocks
  /\ LOGSIZE \in Nat /\ LogSize \in Nat
  /\ MAXOPBLOCKS \in Nat /\ OpBlocks \in Nat
  /\ 0 < LogSize

VARIABLES
  home, logblk, head,             \* the disk: home blocks, log blocks, log header
  buf, dirty, hold,               \* the cache: contents, B_DIRTY, B_BUSY by process
  lh, outstanding, committing,    \* struct log: logged block numbers, counters
  pc, tail, wrote                 \* per process: where it is, loop index, blocks written

disk  == <<home, logblk, head>>
cache == <<buf, dirty, hold>>
log   == <<lh, outstanding, committing>>
vars  == <<disk, cache, log, pc, tail, wrote>>

Busy(b) == \E p \in Procs : hold[p] = b

OpPCs       == {"op", "log", "panic"}
CommitPCs   == {"commit", "write_log", "write_head", "install", "clear", "done"}
RecoveryPCs == {"read_head", "rinstall", "rclear"}
PCs == {"unborn", "idle", "sleep"} \cup OpPCs \cup CommitPCs \cup RecoveryPCs

(* What bread(b) returns: the cached contents, or the disk's. *)
Contents(b) == IF buf[b] = NotCached THEN home[b] ELSE buf[b]

(* wakeup(&log): every process asleep in begin_op goes round its loop again. *)
Wakeup(pcs) == [q \in Procs |-> IF pcs[q] = "sleep" THEN "idle" ELSE pcs[q]]

(* Boot: memory is zeroed; the first process runs initlog, the others do not exist yet. *)
Boot(p) == [q \in Procs |-> IF q = p THEN "read_head" ELSE "unborn"]

Init ==
  /\ home \in [Blocks -> Values]
  /\ logblk = [i \in 1..LogSize - 1 |-> Zero]
  /\ head = <<>>
  /\ buf = [b \in Blocks |-> NotCached] /\ dirty = {} /\ hold = [p \in Procs |-> None]
  /\ lh = <<>> /\ outstanding = 0 /\ committing = 0
  /\ tail = [p \in Procs |-> 0] /\ wrote = [p \in Procs |-> {}]
  /\ \E p \in Procs : pc = Boot(p)
-----------------------------------------------------------------------------
(* Definitions marked "Faulty" are not part of the specification: each is a plausible
   mistake in the operation that follows it, kept to show that a property notices. *)
(* begin_op *)
NoRoom == Len(lh) + (outstanding + 1) * MAXOPBLOCKS > LOGSIZE

BeginSleep(p) ==
  /\ pc[p] = "idle"
  /\ committing = 1 \/ NoRoom
  /\ pc' = [pc EXCEPT ![p] = "sleep"]
  /\ UNCHANGED <<disk, cache, log, tail, wrote>>

(* Faulty: begin_op does not look at log.committing. *)
BeginEnterAnyTime(p) ==
  /\ pc[p] = "idle"
  /\ ~NoRoom
  /\ outstanding' = outstanding + 1
  /\ pc' = [pc EXCEPT ![p] = "op"]
  /\ wrote' = [wrote EXCEPT ![p] = {}]
  /\ UNCHANGED <<disk, cache, lh, committing, tail>>

BeginEnter(p) ==
  /\ pc[p] = "idle"
  /\ committing = 0 /\ ~NoRoom
  /\ outstanding' = outstanding + 1
  /\ pc' = [pc EXCEPT ![p] = "op"]
  /\ wrote' = [wrote EXCEPT ![p] = {}]
  /\ UNCHANGED <<disk, cache, lh, committing, tail>>

(* A call reads block b, modifies its buffer and enters log_write, whose checks run
   before log.lock is taken. *)
LogWriteCheck(p, b, v) ==
  /\ pc[p] = "op"
  /\ ~Busy(b)
  /\ Cardinality(wrote[p] \cup {b}) <= OpBlocks
  /\ buf' = [buf EXCEPT ![b] = v]
  /\ hold' = [hold EXCEPT ![p] = b]
  /\ pc' = [pc EXCEPT ![p] =
       IF Len(lh) >= LOGSIZE \/ Len(lh) >= LogSize - 1 \/ outstanding < 1
       THEN "panic" ELSE "log"]
  /\ UNCHANGED <<disk, dirty, log, tail, wrote>>

(* Faulty: no absorption. *)
LogWriteAppend(p) ==
  /\ pc[p] = "log"
  /\ lh' = Append(lh, hold[p])
  /\ dirty' = dirty \cup {hold[p]}
  /\ wrote' = [wrote EXCEPT ![p] = @ \cup {hold[p]}]
  /\ hold' = [hold EXCEPT ![p] = None]
  /\ pc' = [pc EXCEPT ![p] = "op"]
  /\ UNCHANGED <<disk, buf, outstanding, committing, tail>>

(* The locked part of log_write (absorption, B_DIRTY), and the caller's brelse. *)
LogWrite(p) ==
  /\ pc[p] = "log"
  /\ lh' = IF hold[p] \in Range(lh) THEN lh ELSE Append(lh, hold[p])
  /\ dirty' = dirty \cup {hold[p]}
  /\ wrote' = [wrote EXCEPT ![p] = @ \cup {hold[p]}]
  /\ hold' = [hold EXCEPT ![p] = None]
  /\ pc' = [pc EXCEPT ![p] = "op"]
  /\ UNCHANGED <<disk, buf, outstanding, committing, tail>>

(* The locked part of end_op. *)
EndOp(p) ==
  /\ pc[p] = "op"
  /\ outstanding' = outstanding - 1
  /\ committing' = IF outstanding = 1 THEN 1 ELSE committing
  /\ pc' = IF committing = 1 THEN [pc EXCEPT ![p] = "panic"]
           ELSE IF outstanding = 1 THEN [pc EXCEPT ![p] = "commit"]
           ELSE Wakeup([pc EXCEPT ![p] = "idle"])
  /\ UNCHANGED <<disk, cache, lh, tail, wrote>>
-----------------------------------------------------------------------------
(* Faulty: the header is written before the blocks. *)
CommitHeadFirst(p) ==
  /\ pc[p] = "commit"
  /\ pc' = [pc EXCEPT ![p] = IF lh = <<>> THEN "done" ELSE "write_head"]
  /\ tail' = [tail EXCEPT ![p] = 1]
  /\ UNCHANGED <<disk, cache, log, wrote>>

(* commit, without the lock *)
Commit(p) ==
  /\ pc[p] = "commit"
  /\ pc' = [pc EXCEPT ![p] = IF lh = <<>> THEN "done" ELSE "write_log"]
  /\ tail' = [tail EXCEPT ![p] = 1]
  /\ UNCHANGED <<disk, cache, log, wrote>>

WriteLog(p) ==
  LET b == lh[tail[p]] IN
  /\ pc[p] = "write_log"
  /\ ~Busy(b)
  /\ buf' = [buf EXCEPT ![b] = Contents(b)]
  /\ logblk' = [logblk EXCEPT ![tail[p]] = Contents(b)]
  /\ tail' = [tail EXCEPT ![p] = @ + 1]
  /\ pc' = [pc EXCEPT ![p] = IF tail[p] = Len(lh) THEN "write_head" ELSE @]
  /\ UNCHANGED <<home, head, dirty, hold, log, wrote>>

(* Faulty: the header stays in memory. *)
WriteHeadNotYet(p) ==
  /\ pc[p] = "write_head"
  /\ pc' = [pc EXCEPT ![p] = "install"]
  /\ tail' = [tail EXCEPT ![p] = 1]
  /\ UNCHANGED <<disk, cache, log, wrote>>

(* write_head: the commit point *)
WriteHead(p) ==
  /\ pc[p] = "write_head"
  /\ head' = lh
  /\ pc' = [pc EXCEPT ![p] = "install"]
  /\ tail' = [tail EXCEPT ![p] = 1]
  /\ UNCHANGED <<home, logblk, cache, log, wrote>>

(* Faulty: the loop index does not advance. *)
InstallTransStuck(p, from, to) ==
  LET b == lh[tail[p]] IN
  /\ pc[p] = from
  /\ ~Busy(b)
  /\ buf' = [buf EXCEPT ![b] = logblk[tail[p]]]
  /\ home' = [home EXCEPT ![b] = logblk[tail[p]]]
  /\ dirty' = dirty \ {b}
  /\ UNCHANGED <<logblk, head, hold, log, pc, tail, wrote>>

(* One turn of install_trans; bwrite clears B_DIRTY. *)
InstallTrans(p, from, to) ==
  LET b == lh[tail[p]] IN
  /\ pc[p] = from
  /\ ~Busy(b)
  /\ buf' = [buf EXCEPT ![b] = logblk[tail[p]]]
  /\ home' = [home EXCEPT ![b] = logblk[tail[p]]]
  /\ dirty' = dirty \ {b}
  /\ tail' = [tail EXCEPT ![p] = @ + 1]
  /\ pc' = [pc EXCEPT ![p] = IF tail[p] = Len(lh) THEN to ELSE from]
  /\ UNCHANGED <<logblk, head, hold, log, wrote>>

Install(p) == InstallTrans(p, "install", "clear")

(* log.lh.n = 0; write_head() *)
ClearHead(p) ==
  /\ pc[p] = "clear"
  /\ lh' = <<>>
  /\ head' = <<>>
  /\ pc' = [pc EXCEPT ![p] = "done"]
  /\ UNCHANGED <<home, logblk, cache, outstanding, committing, tail, wrote>>

(* The last part of end_op. *)
Done(p) ==
  /\ pc[p] = "done"
  /\ committing' = 0
  /\ pc' = Wakeup([pc EXCEPT ![p] = "idle"])
  /\ UNCHANGED <<disk, cache, lh, outstanding, tail, wrote>>
-----------------------------------------------------------------------------
(* The cache between the log's own steps: bread of a block that is not cached, and
   bget recycling a buffer that is neither B_BUSY nor B_DIRTY. *)
Bread(b) ==
  /\ buf[b] = NotCached /\ ~Busy(b)
  /\ buf' = [buf EXCEPT ![b] = home[b]]
  /\ UNCHANGED <<disk, dirty, hold, log, pc, tail, wrote>>

Recycle(b) ==
  /\ buf[b] # NotCached
  /\ ~Busy(b) /\ b \notin dirty
  /\ buf' = [buf EXCEPT ![b] = NotCached]
  /\ UNCHANGED <<disk, dirty, hold, log, pc, tail, wrote>>
-----------------------------------------------------------------------------
(* Power fails and the machine boots. *)
Crash(p) ==
  /\ buf' = [b \in Blocks |-> NotCached] /\ dirty' = {} /\ hold' = [q \in Procs |-> None]
  /\ lh' = <<>> /\ outstanding' = 0 /\ committing' = 0
  /\ tail' = [q \in Procs |-> 0] /\ wrote' = [q \in Procs |-> {}]
  /\ pc' = Boot(p)
  /\ UNCHANGED disk

(* recover_from_log *)
ReadHead(p) ==
  /\ pc[p] = "read_head"
  /\ lh' = head
  /\ tail' = [tail EXCEPT ![p] = 1]
  /\ pc' = [pc EXCEPT ![p] = IF head = <<>> THEN "rclear" ELSE "rinstall"]
  /\ UNCHANGED <<disk, cache, outstanding, committing, wrote>>

RecoverInstall(p) == InstallTrans(p, "rinstall", "rclear")

RecoverClear(p) ==
  /\ pc[p] = "rclear"
  /\ lh' = <<>>
  /\ head' = <<>>
  /\ pc' = [q \in Procs |-> "idle"]
  /\ UNCHANGED <<home, logblk, cache, outstanding, committing, tail, wrote>>
-----------------------------------------------------------------------------
(* The steps of process p once it is inside end_op's commit or the recovery. *)
CommitStep(p) ==
  \/ Commit(p) \/ WriteLog(p) \/ WriteHead(p)
  \/ Install(p) \/ ClearHead(p) \/ Done(p)

RecoveryStep(p) == ReadHead(p) \/ RecoverInstall(p) \/ RecoverClear(p)

Next ==
  \/ \E p \in Procs :
       \/ BeginSleep(p) \/ BeginEnter(p) \/ LogWrite(p) \/ EndOp(p)
       \/ CommitStep(p) \/ RecoveryStep(p) \/ Crash(p)
  \/ \E p \in Procs, b \in Blocks, v \in Values : LogWriteCheck(p, b, v)
  \/ \E b \in Blocks : Bread(b) \/ Recycle(b)

Spec == Init /\ [][Next]_vars

(* Every process inside the kernel keeps being scheduled. *)
Fairness ==
  \A p \in Procs : WF_vars(CommitStep(p)) /\ WF_vars(RecoveryStep(p))

FairSpec == Spec /\ Fairness
-----------------------------------------------------------------------------
(* The most blocks a group of calls can log: begin_op reserves MAXOPBLOCKS for each call
   and admits the last one only if all reservations fit LOGSIZE. *)
Capacity == LOGSIZE - (MAXOPBLOCKS - OpBlocks)

(* The reservations are honest, one call fits an empty log, and a group fits the disk. *)
EnoughRoom ==
  /\ OpBlocks <= MAXOPBLOCKS /\ MAXOPBLOCKS <= LOGSIZE
  /\ Capacity <= LogSize - 1

(* log_write wants a free entry even for a block it will absorb, so a group that fills
   the log exactly is already too big for it. *)
AmpleRoom == EnoughRoom /\ Capacity < LogSize - 1 /\ Capacity < LOGSIZE
-----------------------------------------------------------------------------
(* The disk, the cache, the log and the processes keep their types. *)
TypeOK ==
  /\ home \in [Blocks -> Values]
  /\ logblk \in [1..LogSize - 1 -> Values]
  /\ head \in Seq(Blocks)
  /\ buf \in [Blocks -> Values \cup {NotCached}]
  /\ dirty \in SUBSET Blocks
  /\ hold \in [Procs -> Blocks \cup {None}]
  /\ lh \in Seq(Blocks)
  /\ outstanding \in Int
  /\ committing \in {0, 1}
  /\ pc \in [Procs -> PCs]
  /\ tail \in [Procs -> Nat]
  /\ wrote \in [Procs -> SUBSET Blocks]

(* The disk recovery would produce from what is on disk now. *)
Recovered ==
  [b \in Blocks |->
     IF b \in Range(head) THEN logblk[CHOOSE i \in DOMAIN head : head[i] = b]
     ELSE home[b]]

Recovering == \E p \in Procs : pc[p] \in RecoveryPCs

(* The disk the running system calls see; during recovery nobody looks. *)
View == IF Recovering THEN Recovered ELSE [b \in Blocks |-> Contents(b)]

Active == {p \in Procs : pc[p] \in OpPCs}

Abstract == INSTANCE AtomicDisk WITH durable <- Recovered, view <- View, active <- Active

(* The log implements the atomic disk: whatever step of end_op, of install_trans or of
   the recovery itself a crash interrupts, the next boot shows all or none of the blocks
   of the group of system calls, and write_head is the one step that makes them durable. *)
AtomicCommit == Abstract!Spec

(* A home block changes on disk only under a header that lists it, so a crash in the
   middle of install_trans can be repeated by recover_from_log. *)
WriteAhead == [][\A b \in Blocks : home'[b] # home[b] => b \in Range(head)]_vars

(* begin_op sleeps only while a later end_op is bound to wake it: no process stays
   asleep on &log once the last system call has ended and its commit is over. *)
NoLostWakeup == (\E p \in Procs : pc[p] = "sleep") => outstanding > 0 \/ committing = 1

(* The blocks of a transaction fit the log area on disk: with log.size blocks one of
   which is the header, write_log must never reach block log.start + log.size. *)
LogFits == Len(lh) <= LogSize - 1

(* No system call ends in one of the panics of log_write and end_op. *)
NoPanic == \A p \in Procs : pc[p] # "panic"

(* Only one process commits, and while it does no system call is between begin_op and
   end_op, although commit runs without log.lock. *)
CommitAlone ==
  \A p \in Procs : pc[p] \in CommitPCs =>
     /\ Active = {}
     /\ \A q \in Procs : pc[q] \in CommitPCs => q = p

(* Once crashes stop, a commit in progress finishes and wakes the waiting calls. *)
CommitEnds ==
  <>[][\A p \in Procs : ~Crash(p)]_vars => (committing = 1 ~> committing = 0)

(* Once crashes stop, the boot gets through recover_from_log. *)
RecoveryEnds ==
  <>[][\A p \in Procs : ~Crash(p)]_vars => <>[](~Recovering)

(* Neither end_op nor the boot stays in the middle of the log for ever. *)
LogProgress == CommitEnds /\ RecoveryEnds
-----------------------------------------------------------------------------
(* The inductive invariant, in three layers. *)

(* The counter counts, and the flag is set exactly while a process commits. *)
CounterInv ==
  /\ outstanding = Cardinality(Active)
  /\ committing = 1 <=> \E p \in Procs : pc[p] \in CommitPCs

(* Outside a group of calls and its commit the log is empty. *)
EmptyInv ==
  /\ Active = {} /\ committing = 0 /\ ~Recovering => lh = <<>>
  /\ \A p \in Procs : pc[p] \in {"done", "read_head"} => lh = <<>>

(* Recovery runs before any other process exists. *)
RecoveryInv ==
  /\ \A p, q \in Procs : pc[p] \in RecoveryPCs /\ q # p => pc[q] = "unborn"
  /\ \A p \in Procs : pc[p] = "unborn" => Recovering

(* A buffer is held only from bread to brelse, by one process. *)
HoldInv ==
  /\ \A p \in Procs : hold[p] # None <=> pc[p] \in {"log", "panic"}
  /\ \A p, q \in Procs : hold[p] = hold[q] /\ hold[p] # None => p = q

(* Who may be where. *)
ControlInv ==
  CounterInv /\ CommitAlone /\ NoLostWakeup /\ EmptyInv /\ RecoveryInv /\ HoldInv

(* The log blocks the active calls may still claim. *)
Claims == {c \in Active \X (1..OpBlocks) : c[2] > Cardinality(wrote[c[1]])}

(* Space: what is logged and what may still be claimed fits the log area. *)
SpaceInv ==
  /\ Len(lh) + Cardinality(Claims) <= Capacity
  /\ Len(head) <= Capacity
  /\ \A p \in Active :
       /\ IsFiniteSet(wrote[p])
       /\ wrote[p] \subseteq Range(lh)
       /\ Cardinality(wrote[p] \cup ({hold[p]} \ {None})) <= OpBlocks

(* A clean buffer agrees with the disk, and a modified one stays in the cache. *)
CacheInv ==
  \A b \in Blocks :
    /\ b \notin dirty /\ ~Busy(b) /\ buf[b] # NotCached => buf[b] = home[b]
    /\ b \in dirty \/ Busy(b) => buf[b] # NotCached

(* Between commits the header on disk is empty, and the dirty buffers are the logged ones. *)
QuietInv ==
  (\A p \in Procs : pc[p] \notin {"install", "clear"} \cup RecoveryPCs) =>
     head = <<>> /\ dirty = Range(lh)

(* What each phase of commit and of recovery has established on disk. *)
PhaseInv(p) ==
  /\ pc[p] \in {"write_log", "install", "rinstall"} => tail[p] \in DOMAIN lh
  /\ pc[p] \in {"write_head", "clear"} => lh # <<>> /\ tail[p] = Len(lh) + 1
  /\ pc[p] \in {"write_log", "write_head"} =>
       \A i \in DOMAIN lh : i < tail[p] => logblk[i] = buf[lh[i]]
  /\ pc[p] \in {"install", "clear", "rinstall", "rclear"} =>
       /\ head = lh
       /\ \A i \in DOMAIN lh : i < tail[p] => home[lh[i]] = logblk[i]
  /\ pc[p] = "install" => \A i \in DOMAIN lh : i >= tail[p] => logblk[i] = buf[lh[i]]
  /\ pc[p] \in {"install", "clear"} =>
       dirty = {lh[i] : i \in {j \in DOMAIN lh : j >= tail[p]}}
  /\ pc[p] = "rclear" => \A i \in DOMAIN lh : i < tail[p]
  /\ pc[p] \in RecoveryPCs => dirty = {}

DataInv ==
  /\ IsInjective(lh) /\ IsInjective(head)
  /\ CacheInv
  /\ QuietInv
  /\ \A p \in Procs : PhaseInv(p)

(* The inductive invariant: who may be where, what still fits, and what each step of
   commit and of recovery has put on disk. *)
LogInv == TypeOK /\ ControlInv /\ SpaceInv /\ DataInv
=============================================================================
