-------------------------------- MODULE Bio ---------------------------------
(***************************************************************************)
(* The buffer cache (src/xv6/bio.c) and the disk driver below it           *)
(* (src/xv6/ide.c).                                                        *)
(*                                                                         *)
(* bget and brelse run under bcache.lock, iderw and ideintr under idelock, *)
(* so each is one step up to the sleep it may contain; the two kinds of    *)
(* sleepers use the same channel, the buffer.  A process holds one buffer  *)
(* at a time.  The controller is external: it carries out a command and    *)
(* answers it with one interrupt; on a bad block the command may fail.     *)
(***************************************************************************)
EXTENDS Integers, Sequences, FiniteSets, FiniteSetsExt, Functions

CONSTANTS
  Procs, Blocks, Vals,
  BadBlocks,    \* blocks the disk may fail to read or write
  Contents,     \* the blocks and the values they are given: pairs
  NBUF,         \* number of buffers
  MaxPinned,    \* blocks the log may keep in the cache uncommitted (LOGSIZE - 1)
  None

Buffers == 1..NBUF
Bit == {0, 1}

ASSUME BioAssumption ==
  /\ NBUF \in Nat \ {0} /\ MaxPinned \in Nat
  /\ 0 \in Vals /\ BadBlocks \subseteq Blocks
  /\ Contents \subseteq Blocks \X Vals /\ \A n \in Blocks : \E v \in Vals : <<n, v>> \in Contents
  /\ None \notin Procs \cup Blocks \cup Buffers \cup [block : Blocks, write : Bit, data : Vals]

VARIABLES
  blockno, busy, valid, dirty, data,   \* struct buf
  lru,        \* bcache.head: buffers, the most recently used first
  idequeue,   \* buffers with a disk request, the active one first
  cmd,        \* the command the controller works on, None if it is idle
  disk,
  pc,         \* per process: idle, bget, wait, iderw, io, iowoken, hold or panic
  want,       \* per process: the block bread was called for
  buf         \* per process: the buffer it holds or sleeps on

flags == <<blockno, busy, valid, dirty, data>>
vars == <<flags, lru, idequeue, cmd, disk, pc, want, buf>>

(* binit; static memory is zero (Vals contains 0). *)
Init ==
  /\ blockno = [b \in Buffers |-> None]
  /\ busy = [b \in Buffers |-> 0]
  /\ valid = [b \in Buffers |-> 0]
  /\ dirty = [b \in Buffers |-> 0]
  /\ data = [b \in Buffers |-> 0]
  /\ lru = [i \in Buffers |-> NBUF + 1 - i]
  /\ idequeue = <<>> /\ cmd = None
  /\ disk \in {d \in [Blocks -> Vals] : \A n \in Blocks : <<n, d[n]>> \in Contents}
  /\ pc = [p \in Procs |-> "idle"]
  /\ want = [p \in Procs |-> None]
  /\ buf = [p \in Procs |-> None]

(* wakeup(b): the sleepers of bget look again, the sleeper of iderw tests the flags again. *)
Wakeup(b, pcs) ==
  [p \in Procs |->
     IF buf[p] # b THEN pcs[p]
     ELSE IF pcs[p] = "wait" THEN "bget"
     ELSE IF pcs[p] = "io" THEN "iowoken" ELSE pcs[p]]

(* Definitions marked "Faulty" are not part of the specification: each is a plausible
   mistake in the operation that follows it, kept to show that a property notices. *)
-----------------------------------------------------------------------------
(* bread(n) is called. *)
Bread(p, n) ==
  /\ pc[p] = "idle"
  /\ want' = [want EXCEPT ![p] = n]
  /\ pc' = [pc EXCEPT ![p] = "bget"]
  /\ UNCHANGED <<flags, lru, idequeue, cmd, disk, buf>>

Cached(n) == {b \in Buffers : blockno[b] = n}

(* Faulty: B_BUSY is not tested. *)
BgetHitBusy(p, b) ==
  /\ pc[p] = "bget" /\ b \in Cached(want[p])
  /\ busy' = [busy EXCEPT ![b] = 1]
  /\ buf' = [buf EXCEPT ![p] = b]
  /\ pc' = [pc EXCEPT ![p] = IF valid[b] = 1 THEN "hold" ELSE "iderw"]
  /\ UNCHANGED <<blockno, valid, dirty, data, lru, idequeue, cmd, disk, want>>

(* bget finds the block in a buffer that nobody uses. *)
BgetHit(p, b) ==
  /\ pc[p] = "bget" /\ b \in Cached(want[p]) /\ busy[b] = 0
  /\ busy' = [busy EXCEPT ![b] = 1]
  /\ buf' = [buf EXCEPT ![p] = b]
  /\ pc' = [pc EXCEPT ![p] = IF valid[b] = 1 THEN "hold" ELSE "iderw"]
  /\ UNCHANGED <<blockno, valid, dirty, data, lru, idequeue, cmd, disk, want>>

(* bget finds the block in a buffer in use and sleeps. *)
BgetWait(p, b) ==
  /\ pc[p] = "bget" /\ b \in Cached(want[p]) /\ busy[b] = 1
  /\ buf' = [buf EXCEPT ![p] = b]
  /\ pc' = [pc EXCEPT ![p] = "wait"]
  /\ UNCHANGED <<flags, lru, idequeue, cmd, disk, want>>

(* Faulty: a buffer whose changes are not committed is recycled. *)
RecyclableDirty(b) == busy[b] = 0

Recyclable(b) == busy[b] = 0 /\ dirty[b] = 0

(* bget misses: it recycles the least recently used buffer that is neither busy nor dirty,
   or panics. *)
BgetMiss(p) ==
  LET usable == {i \in Buffers : Recyclable(lru[i])}
      b == lru[Max(usable)] IN
  /\ pc[p] = "bget" /\ Cached(want[p]) = {}
  /\ IF usable = {}
     THEN /\ pc' = [pc EXCEPT ![p] = "panic"]
          /\ UNCHANGED <<blockno, busy, valid, dirty, buf>>
     ELSE /\ blockno' = [blockno EXCEPT ![b] = want[p]]
          /\ busy' = [busy EXCEPT ![b] = 1]
          /\ valid' = [valid EXCEPT ![b] = 0]
          /\ dirty' = [dirty EXCEPT ![b] = 0]
          /\ buf' = [buf EXCEPT ![p] = b]
          /\ pc' = [pc EXCEPT ![p] = "iderw"]
  /\ UNCHANGED <<data, lru, idequeue, cmd, disk, want>>
-----------------------------------------------------------------------------
(* The holder changes the block under the log: log_write marks it dirty. *)
LogWrite(p, v) ==
  LET b == buf[p] IN
  /\ pc[p] = "hold" /\ <<want[p], v>> \in Contents
  /\ dirty[b] = 1 \/ Cardinality({c \in Buffers : dirty[c] = 1}) < MaxPinned
  /\ data' = [data EXCEPT ![b] = v]
  /\ dirty' = [dirty EXCEPT ![b] = 1]
  /\ UNCHANGED <<blockno, busy, valid, lru, idequeue, cmd, disk, pc, want, buf>>

(* The holder changes the block and writes it to the disk. *)
Bwrite(p, v) ==
  LET b == buf[p] IN
  /\ pc[p] = "hold" /\ <<want[p], v>> \in Contents
  /\ data' = [data EXCEPT ![b] = v]
  /\ dirty' = [dirty EXCEPT ![b] = 1]
  /\ pc' = [pc EXCEPT ![p] = "iderw"]
  /\ UNCHANGED <<blockno, busy, valid, lru, idequeue, cmd, disk, want, buf>>

(* The list with buffer b taken out of its place and put at the head *)
MoveToFront(s, b) ==
  [i \in Buffers |-> IF i = 1 THEN b
                     ELSE IF \E j \in i..NBUF : s[j] = b THEN s[i - 1] ELSE s[i]]

(* Faulty: nobody who waits for the buffer is woken. *)
BrelseQuietly(p) ==
  LET b == buf[p] IN
  /\ pc[p] = "hold"
  /\ lru' = MoveToFront(lru, b)
  /\ busy' = [busy EXCEPT ![b] = 0]
  /\ pc' = [pc EXCEPT ![p] = "idle"]
  /\ buf' = [buf EXCEPT ![p] = None]
  /\ want' = [want EXCEPT ![p] = None]
  /\ UNCHANGED <<blockno, valid, dirty, data, idequeue, cmd, disk>>

Brelse(p) ==
  LET b == buf[p] IN
  /\ pc[p] = "hold"
  /\ lru' = MoveToFront(lru, b)
  /\ busy' = [busy EXCEPT ![b] = 0]
  /\ pc' = Wakeup(b, [pc EXCEPT ![p] = "idle"])
  /\ buf' = [buf EXCEPT ![p] = None]
  /\ want' = [want EXCEPT ![p] = None]
  /\ UNCHANGED <<blockno, valid, dirty, data, idequeue, cmd, disk>>
-----------------------------------------------------------------------------
(* idestart: the data of a write are sent to the controller now. *)
Idestart(q) ==
  IF q = <<>> THEN None
  ELSE [block |-> blockno[q[1]], write |-> dirty[q[1]], data |-> data[q[1]]]

(* iderw up to the first sleep *)
Iderw(p) ==
  LET b == buf[p] IN
  /\ pc[p] = "iderw"
  /\ IF busy[b] = 0 \/ (valid[b] = 1 /\ dirty[b] = 0)
     THEN /\ pc' = [pc EXCEPT ![p] = "panic"]
          /\ UNCHANGED <<idequeue, cmd>>
     ELSE /\ idequeue' = Append(idequeue, b)
          /\ cmd' = IF idequeue = <<>> THEN Idestart(idequeue') ELSE cmd
          /\ pc' = [pc EXCEPT ![p] = "io"]
  /\ UNCHANGED <<flags, lru, disk, want, buf>>

(* The loop of iderw after a wakeup *)
IderwTest(p) ==
  LET b == buf[p] IN
  /\ pc[p] = "iowoken"
  /\ pc' = [pc EXCEPT ![p] = IF valid[b] = 1 /\ dirty[b] = 0 THEN "hold" ELSE "io"]
  /\ UNCHANGED <<flags, lru, idequeue, cmd, disk, want, buf>>

(* The controller has carried out its command, or failed to, and ideintr runs: it does not
   copy the data of a read that failed, but marks the buffer valid all the same. *)
Ideintr(ok) ==
  LET b == Head(idequeue) IN
  /\ cmd # None /\ (ok = 0 => cmd.block \in BadBlocks)
  /\ disk' = IF cmd.write = 1 /\ ok = 1 THEN [disk EXCEPT ![cmd.block] = cmd.data] ELSE disk
  /\ data' = IF dirty[b] = 0 /\ ok = 1 THEN [data EXCEPT ![b] = disk[cmd.block]] ELSE data
  /\ valid' = [valid EXCEPT ![b] = 1]
  /\ dirty' = [dirty EXCEPT ![b] = 0]
  /\ pc' = Wakeup(b, pc)
  /\ idequeue' = Tail(idequeue)
  /\ cmd' = Idestart(idequeue')
  /\ UNCHANGED <<blockno, busy, lru, want, buf>>
-----------------------------------------------------------------------------
Bget(p) ==
  \/ \E b \in Buffers : BgetHit(p, b) \/ BgetWait(p, b)
  \/ BgetMiss(p)

Next ==
  \/ \E p \in Procs :
       \/ \E n \in Blocks : Bread(p, n)
       \/ Bget(p)
       \/ \E v \in Vals : LogWrite(p, v) \/ Bwrite(p, v)
       \/ Brelse(p) \/ Iderw(p) \/ IderwTest(p)
  \/ \E ok \in Bit : Ideintr(ok)

Spec == Init /\ [][Next]_vars
-----------------------------------------------------------------------------
(* The variables keep their types: the LRU list holds every buffer once, whatever order bget
   and brelse run in, and the disk queue holds none twice. *)
TypeOK ==
  /\ blockno \in [Buffers -> Blocks \cup {None}]
  /\ busy \in [Buffers -> Bit] /\ valid \in [Buffers -> Bit] /\ dirty \in [Buffers -> Bit]
  /\ data \in [Buffers -> Vals] /\ disk \in [Blocks -> Vals]
  /\ lru \in [Buffers -> Buffers] /\ Range(lru) = Buffers /\ IsInjective(lru)
  /\ idequeue \in Seq(Buffers) /\ IsInjective(idequeue)
  /\ cmd # None => cmd \in [block : Blocks, write : Bit, data : Vals]
  /\ pc \in [Procs -> {"idle", "bget", "wait", "iderw", "io", "iowoken", "hold", "panic"}]
  /\ want \in [Procs -> Blocks \cup {None}] /\ buf \in [Procs -> Buffers \cup {None}]

(* The value of a block as the kernel sees it. *)
Content ==
  [n \in Blocks |->
     LET copies == {b \in Buffers : blockno[b] = n /\ valid[b] = 1}
     IN  IF copies = {} THEN disk[n] ELSE data[CHOOSE b \in copies : TRUE]]

HasBuffer(p) == pc[p] \in {"hold", "iderw", "io", "iowoken"}

(* The process that bread has returned the block to, or is about to. *)
Owner ==
  [n \in Blocks |->
     LET holders == {p \in Procs : HasBuffer(p) /\ blockno[buf[p]] = n /\ valid[buf[p]] = 1}
     IN  IF holders = {} THEN None ELSE CHOOSE p \in holders : TRUE]

Abstract == INSTANCE LockedBlocks WITH content <- Content, owner <- Owner

(* However bread, bwrite, log_write, brelse and the interrupts interleave, and whatever is
   evicted, each block behaves as one variable with a lock: bread returns what the last holder
   left there, and an error of the disk, which ideintr hides from its caller, shows in the
   block it happened on and nowhere else. *)
BlocksAreLocked == Abstract!Spec

(* A block is never cached twice, and a busy buffer has one holder. *)
OneCopy ==
  /\ \A b, c \in Buffers : blockno[b] # None /\ blockno[b] = blockno[c] => b = c
  /\ \A p, q \in Procs : p # q /\ HasBuffer(p) /\ HasBuffer(q) => buf[p] # buf[q]

(* A process sleeps in bget only for a buffer in use that caches the block it wants, and in
   iderw only for a buffer in the queue of a working disk. *)
SleepersWillWake ==
  /\ \A p \in Procs : pc[p] = "wait" => busy[buf[p]] = 1 /\ blockno[buf[p]] = want[p]
  /\ \A p \in Procs : pc[p] = "io" => buf[p] \in Range(idequeue)
  /\ (idequeue # <<>>) => cmd # None /\ cmd.block = blockno[idequeue[1]]

(* With a buffer for each process besides those the log pins, no panic of bio.c or ide.c is
   reached. *)
NoPanic == \A p \in Procs : pc[p] # "panic"

(* A process that has a buffer has it busy, with the block it wants; it has the contents of the
   block once bread returns, and what it gives to iderw has something to read or to write. *)
HolderInOrder(p) ==
  /\ pc[p] = "bget" => want[p] \in Blocks
  /\ pc[p] = "wait" => want[p] \in Blocks /\ buf[p] \in Buffers
  /\ HasBuffer(p) => /\ want[p] \in Blocks /\ buf[p] \in Buffers
                     /\ busy[buf[p]] = 1 /\ blockno[buf[p]] = want[p]
  /\ pc[p] \in {"hold", "iowoken"} => valid[buf[p]] = 1
  /\ pc[p] = "iowoken" => dirty[buf[p]] = 0
  /\ pc[p] \in {"iderw", "io"} => valid[buf[p]] = 0 \/ dirty[buf[p]] = 1

HoldersInOrder == \A p \in Procs : HolderInOrder(p)

(* A busy buffer is some process's, a changed one has contents, and contents are a block's. *)
BufferInOrder(b) ==
  /\ busy[b] = 1 => \E p \in Procs : HasBuffer(p) /\ buf[p] = b
  /\ dirty[b] = 1 => valid[b] = 1
  /\ valid[b] = 1 => blockno[b] # None

BuffersInOrder == \A b \in Buffers : BufferInOrder(b)

(* The disk queue holds the buffers of the processes that sleep in iderw, and the controller
   works on the first with the data it has; a clean copy of a block agrees with the disk unless
   the disk has trouble with that block. *)
QueueInOrder ==
  /\ \A b \in Range(idequeue) : \E p \in Procs : pc[p] = "io" /\ buf[p] = b
  /\ idequeue = <<>> => cmd = None
  /\ idequeue # <<>> => cmd = Idestart(idequeue)
  /\ \A b \in Buffers : valid[b] = 1 /\ dirty[b] = 0 /\ blockno[b] \notin BadBlocks
                          => data[b] = disk[blockno[b]]

(* The buffers that only the log keeps from being recycled *)
Pinned ==
  {b \in Buffers : dirty[b] = 1 /\ ~\E p \in Procs : pc[p] \in {"iderw", "io", "iowoken"} /\ buf[p] = b}

(* The log never pins more buffers than it may. *)
PinsBounded == Cardinality(Pinned) <= MaxPinned

(* The cache holds what bget and brelse promise: the variables keep their types, a block has one
   buffer, a buffer one holder, and the log pins no more than it may. *)
CacheInOrder == TypeOK /\ OneCopy /\ HoldersInOrder /\ BuffersInOrder /\ QueueInOrder /\ PinsBounded

(* The cache is in order, and neither bget nor iderw panics. *)
BioInv == CacheInOrder /\ NoPanic
=============================================================================
