-------------------------------- MODULE Pipe --------------------------------
(***************************************************************************)
(* The pipes of xv6 (src/xv6/pipe.c) with the file-table reference counts  *)
(* (src/xv6/file.c) that decide when an end is closed.                     *)
(*                                                                         *)
(* The ring buffer and its counters are kept as in the code: nread and     *)
(* nwrite are unsigned and wrap around at W, a multiple of PIPESIZE.  What *)
(* runs under p->lock is one step up to the release or the sleep; a        *)
(* process about to sleep keeps the lock for one step more, between its    *)
(* test of proc->killed and sleep(), because kill does not need the lock.  *)
(* That sleep() itself misses no wakeup is shown in module Sched.          *)
(***************************************************************************)
EXTENDS Integers, Sequences, FiniteSets, FiniteSetsExt

CONSTANTS
  Readers, Writers,   \* processes that use the read end, the write end
  Bytes,
  PIPESIZE,
  W,                  \* 2^32, the modulus of the counters
  Writes,             \* the strings a writer may write
  MaxN,               \* bound on the size of a read or a write
  Killable,           \* processes that kill is called for
  None

Procs == Readers \cup Writers

ASSUME PipeAssumption ==
  /\ PIPESIZE \in Nat \ {0} /\ 1 \in Bytes
  /\ W \in Nat /\ W > PIPESIZE /\ W % PIPESIZE = 0
  /\ Readers \cap Writers = {} /\ None \notin Procs
  /\ MaxN \in Nat /\ Writes \subseteq Seq(Bytes) /\ \A s \in Writes : Len(s) <= MaxN

VARIABLES
  data, nread, nwrite, readopen, writeopen,   \* struct pipe
  freed,       \* 1 once the page of the pipe is freed
  lock,        \* the process that keeps p->lock between two steps
  fd,          \* per process: 1 while it has its end open
  closing,     \* processes between the last fileclose of an end and pipeclose
  pc,          \* per process: idle, again (in pipewrite or piperead), tosleep, asleep
  todo,        \* per writer: the bytes left to write
  want,        \* per reader: the size of the read
  killed,
  gaveup,      \* 1 after a killed writer left a full pipe, until the next wakeup(&p->nread)
  got          \* the bytes piperead returned in the last step

pipe == <<data, nread, nwrite, readopen, writeopen, freed>>
vars == <<pipe, lock, fd, closing, pc, todo, want, killed, gaveup, got>>

Strings == UNION {[1..k -> Bytes] : k \in 0..MaxN}

(* pipealloc; kfree has filled the page with 1s, and the processes have inherited their ends. *)
Init ==
  /\ data = [i \in 0..PIPESIZE - 1 |-> 1]
  /\ nread = 0 /\ nwrite = 0
  /\ readopen = 1 /\ writeopen = 1 /\ freed = 0
  /\ lock = None
  /\ fd = [p \in Procs |-> 1]
  /\ closing = {}
  /\ pc = [p \in Procs |-> "idle"]
  /\ todo = [p \in Writers |-> <<>>]
  /\ want = [p \in Readers |-> 0]
  /\ killed = [p \in Procs |-> 0]
  /\ gaveup = 0 /\ got = <<>>

Count == (nwrite - nread) % W

(* wakeup(&p->nread), wakeup(&p->nwrite) *)
Wakeup(ps, pcs) == [p \in Procs |-> IF p \in ps /\ pcs[p] = "asleep" THEN "again" ELSE pcs[p]]

(* Definitions marked "Faulty" are not part of the specification: each is a plausible
   mistake in the operation that follows it, kept to show that a property notices. *)
-----------------------------------------------------------------------------
(* sys_write and sys_read, filewrite and fileread of an open end; trap() lets no killed process
   start a system call. *)
CallWrite(p, s) ==
  /\ pc[p] = "idle" /\ fd[p] = 1 /\ killed[p] = 0
  /\ todo' = [todo EXCEPT ![p] = s]
  /\ pc' = [pc EXCEPT ![p] = "again"]
  /\ UNCHANGED <<pipe, lock, fd, closing, want, killed, gaveup>> /\ got' = <<>>

CallRead(p, n) ==
  /\ pc[p] = "idle" /\ fd[p] = 1 /\ killed[p] = 0
  /\ want' = [want EXCEPT ![p] = n]
  /\ pc' = [pc EXCEPT ![p] = "again"]
  /\ UNCHANGED <<pipe, lock, fd, closing, todo, killed, gaveup>> /\ got' = <<>>

Min2(a, b) == IF a < b THEN a ELSE b

(* The bytes pipewrite can store before the buffer is full. *)
Room(p) == Min2(Len(todo[p]), PIPESIZE - Count)

(* Faulty: the bytes are stored from the start of the buffer. *)
StoreAtStart(p, k) ==
  [i \in 0..PIPESIZE - 1 |-> IF i < k THEN todo[p][i + 1] ELSE data[i]]

(* p->data[p->nwrite++ % PIPESIZE] = addr[i], k times *)
Store(p, k) ==
  [i \in 0..PIPESIZE - 1 |->
     LET j == (i - nwrite) % PIPESIZE
     IN  IF j < k THEN todo[p][j + 1] ELSE data[i]]

(* pipewrite from acquire or the return of sleep to release or sleep *)
PipeWrite(p) ==
  LET k == Room(p)
      rest == SubSeq(todo[p], k + 1, Len(todo[p]))
  IN
  /\ pc[p] = "again" /\ lock = None
  /\ data' = Store(p, k)
  /\ nwrite' = (nwrite + k) % W
  /\ \/ /\ rest = <<>>
        /\ pc' = Wakeup(Readers, [pc EXCEPT ![p] = "idle"])
        /\ todo' = [todo EXCEPT ![p] = <<>>]
        /\ lock' = lock /\ gaveup' = 0
     \/ /\ rest # <<>> /\ (readopen = 0 \/ killed[p] = 1)
        /\ pc' = [pc EXCEPT ![p] = "idle"]
        /\ todo' = [todo EXCEPT ![p] = <<>>]
        /\ lock' = lock /\ gaveup' = 1
     \/ /\ rest # <<>> /\ readopen = 1 /\ killed[p] = 0
        /\ pc' = Wakeup(Readers, [pc EXCEPT ![p] = "tosleep"])
        /\ todo' = [todo EXCEPT ![p] = rest]
        /\ lock' = p /\ gaveup' = 0
  /\ UNCHANGED <<nread, readopen, writeopen, freed, fd, closing, want, killed>> /\ got' = <<>>

(* piperead, when there are bytes or no writers are left *)
PipeRead(p) ==
  LET k == Min2(want[p], Count) IN
  /\ pc[p] = "again" /\ lock = None
  /\ ~(Count = 0 /\ writeopen = 1)
  /\ got' = [i \in 1..k |-> data[(nread + i - 1) % PIPESIZE]]
  /\ nread' = (nread + k) % W
  /\ want' = [want EXCEPT ![p] = 0]
  /\ pc' = Wakeup(Writers, [pc EXCEPT ![p] = "idle"])
  /\ UNCHANGED <<data, nwrite, readopen, writeopen, freed, lock, fd, closing, todo, killed, gaveup>>

(* piperead, when the pipe is empty and a writer may still come *)
PipeReadEmpty(p) ==
  /\ pc[p] = "again" /\ lock = None
  /\ Count = 0 /\ writeopen = 1
  /\ IF killed[p] = 1
     THEN /\ pc' = [pc EXCEPT ![p] = "idle"]
          /\ want' = [want EXCEPT ![p] = 0]
          /\ lock' = lock
     ELSE /\ pc' = [pc EXCEPT ![p] = "tosleep"]
          /\ lock' = p
          /\ UNCHANGED want
  /\ UNCHANGED <<pipe, fd, closing, todo, killed, gaveup>> /\ got' = <<>>

(* sleep(), which releases p->lock *)
Sleep(p) ==
  /\ pc[p] = "tosleep"
  /\ pc' = [pc EXCEPT ![p] = "asleep"]
  /\ lock' = None
  /\ UNCHANGED <<pipe, fd, closing, todo, want, killed, gaveup>> /\ got' = <<>>
-----------------------------------------------------------------------------
(* The processes with the same end open. *)
Users(p) == {q \in (IF p \in Writers THEN Writers ELSE Readers) : fd[q] = 1}

(* filedup, when a process with the end open forks another one *)
Fork(p, q) ==
  /\ pc[p] = "idle" /\ killed[p] = 0 /\ p \in Users(q)
  /\ fd[q] = 0 /\ q \notin closing
  /\ fd' = [fd EXCEPT ![q] = 1]
  /\ killed' = [killed EXCEPT ![q] = 0]
  /\ UNCHANGED <<pipe, lock, closing, pc, todo, want, gaveup>> /\ got' = <<>>

(* Faulty: every close is taken for the last one. *)
FilecloseAlways(p) ==
  /\ pc[p] = "idle" /\ fd[p] = 1
  /\ fd' = [fd EXCEPT ![p] = 0]
  /\ closing' = closing \cup {p}
  /\ UNCHANGED <<pipe, lock, pc, todo, want, killed, gaveup>> /\ got' = <<>>

(* fileclose: the last process to close the end goes on to pipeclose. *)
Fileclose(p) ==
  /\ pc[p] = "idle" /\ fd[p] = 1
  /\ fd' = [fd EXCEPT ![p] = 0]
  /\ closing' = IF Users(p) = {p} THEN closing \cup {p} ELSE closing
  /\ UNCHANGED <<pipe, lock, pc, todo, want, killed, gaveup>> /\ got' = <<>>

(* Faulty: the readers are not told that the last writer has gone. *)
PipecloseQuietly(p) ==
  /\ p \in closing /\ lock = None
  /\ closing' = closing \ {p}
  /\ writeopen' = IF p \in Writers THEN 0 ELSE writeopen
  /\ readopen' = IF p \in Writers THEN readopen ELSE 0
  /\ pc' = Wakeup(IF p \in Writers THEN {} ELSE Writers, pc)
  /\ freed' = IF readopen' = 0 /\ writeopen' = 0 THEN 1 ELSE freed
  /\ UNCHANGED <<data, nread, nwrite, lock, fd, todo, want, killed, gaveup>> /\ got' = <<>>

Pipeclose(p) ==
  /\ p \in closing /\ lock = None
  /\ closing' = closing \ {p}
  /\ writeopen' = IF p \in Writers THEN 0 ELSE writeopen
  /\ readopen' = IF p \in Writers THEN readopen ELSE 0
  /\ pc' = Wakeup(IF p \in Writers THEN Readers ELSE Writers, pc)
  /\ freed' = IF readopen' = 0 /\ writeopen' = 0 THEN 1 ELSE freed
  /\ UNCHANGED <<data, nread, nwrite, lock, fd, todo, want, killed, gaveup>> /\ got' = <<>>

(* kill: sets the flag and wakes the process if it sleeps. *)
Kill(p) ==
  /\ p \in Killable /\ killed[p] = 0 /\ fd[p] = 1
  /\ killed' = [killed EXCEPT ![p] = 1]
  /\ pc' = Wakeup({p}, pc)
  /\ UNCHANGED <<pipe, lock, fd, closing, todo, want, gaveup>> /\ got' = <<>>
-----------------------------------------------------------------------------
Next ==
  \/ \E p \in Writers : \/ \E s \in Writes : CallWrite(p, s)
                        \/ PipeWrite(p)
  \/ \E p \in Readers : \/ \E n \in 0..MaxN : CallRead(p, n)
                        \/ PipeRead(p)
                        \/ PipeReadEmpty(p)
  \/ \E p \in Procs : \/ Sleep(p)
                      \/ \E q \in Procs : Fork(p, q)
                      \/ Fileclose(p)
                      \/ Pipeclose(p)
                      \/ Kill(p)

Spec == Init /\ [][Next]_vars

(* Every CPU goes on running the kernel code it is in, and no process waits for p->lock for
   ever while others take it again and again.  Nothing makes a process start a call. *)
Fairness ==
  /\ \A p \in Writers : SF_vars(PipeWrite(p) \/ Sleep(p) \/ Pipeclose(p))
  /\ \A p \in Readers : SF_vars(PipeRead(p) \/ PipeReadEmpty(p) \/ Sleep(p) \/ Pipeclose(p))

FairSpec == Spec /\ Fairness
-----------------------------------------------------------------------------
Bit == {0, 1}

(* The pipe's variables keep their types; nwrite is never more than PIPESIZE ahead of nread,
   also when one of them has wrapped around. *)
TypeOK ==
  /\ data \in [0..PIPESIZE - 1 -> Bytes]
  /\ nread \in 0..W - 1 /\ nwrite \in 0..W - 1 /\ Count \in 0..PIPESIZE
  /\ readopen \in Bit /\ writeopen \in Bit /\ freed \in Bit
  /\ lock \in Procs \cup {None}
  /\ fd \in [Procs -> Bit] /\ killed \in [Procs -> Bit]
  /\ closing \subseteq Procs /\ gaveup \in Bit
  /\ pc \in [Procs -> {"idle", "again", "tosleep", "asleep"}]
  /\ todo \in [Writers -> Strings] /\ want \in [Readers -> 0..MaxN] /\ got \in Seq(Bytes)

(* The bytes between the counters, oldest first. *)
Queue == [i \in 1..Count |-> data[(nread + i - 1) % PIPESIZE]]

Abstract == INSTANCE Fifo WITH queue <- Queue, got <- got, Capacity <- PIPESIZE

(* Whatever the sizes of reads and writes, and also when the counters wrap around, the ring
   buffer is a queue: no byte is lost, repeated or reordered. *)
PipeIsFifo == Abstract!Spec

(* A writer sleeps only while the pipe is full and a reader has it open. *)
WriterSleepsOnFull ==
  \A p \in Writers : pc[p] \in {"tosleep", "asleep"} => Count = PIPESIZE /\ readopen = 1

(* A reader sleeps only on a pipe that a writer has open, and that is empty.  The exception is
   what a killed writer leaves, which returns from the loop of pipewrite without the wakeup at
   its end. *)
ReaderSleepsOnEmpty ==
  \A p \in Readers : pc[p] \in {"tosleep", "asleep"} =>
    /\ writeopen = 1
    /\ Count = 0 \/ gaveup = 1

(* The page of the pipe is freed only when no process has an end open, is inside piperead or
   pipewrite, or is on its way to pipeclose. *)
NoUseAfterFree ==
  freed = 1 => closing = {} /\ \A p \in Procs : fd[p] = 0 /\ pc[p] = "idle"

(* An end counts as open while a process has it open or is on its way to close it, and only one
   that was the last to have it is; a process in a call has its end open, and keeps p->lock
   between its test of killed and sleep. *)
EndsInOrder ==
  /\ \A p \in Procs :
       /\ fd[p] = 1 \/ p \in closing => (IF p \in Writers THEN writeopen ELSE readopen) = 1
       /\ p \in closing => Users(p) = {}
       /\ pc[p] # "idle" => fd[p] = 1
       /\ pc[p] = "tosleep" => lock = p
  /\ \A p, q \in closing : (p \in Writers <=> q \in Writers) => p = q
  /\ freed = 1 => readopen = 0 /\ writeopen = 0

(* No process sleeps in piperead or pipewrite without cause, and none uses the pipe after
   pipeclose has freed it. *)
PipeInv == TypeOK /\ EndsInOrder /\ WriterSleepsOnFull /\ ReaderSleepsOnEmpty /\ NoUseAfterFree

(* Once one end is closed, every call on the other end returns: readers see the end of the file
   and writers an error, also those that were asleep when pipeclose ran. *)
CloseEndsCalls ==
  /\ \A p \in Readers : (writeopen = 0 /\ pc[p] # "idle") ~> (pc[p] = "idle")
  /\ \A p \in Writers : (readopen = 0 /\ pc[p] # "idle") ~> (pc[p] = "idle")
=============================================================================
