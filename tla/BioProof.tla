------------------------------ MODULE BioProof ------------------------------
(***************************************************************************)
(* Proofs about the buffer cache and the disk driver, for any number of    *)
(* processes, buffers and blocks, and any set of bad blocks.               *)
(***************************************************************************)
EXTENDS Bio, TLAPS, FiniteSetTheorems, SequenceTheorems, WellFoundedInduction

(* The inductive invariant; that the cache does not run out of buffers is apart, below. *)
Inv == TypeOK /\ OneCopy /\ SleepersWillWake /\ HoldersInOrder /\ BuffersInOrder /\ QueueInOrder

LEMMA BufferFacts ==
  /\ NBUF \in Nat \ {0} /\ Buffers = 1..NBUF /\ Buffers \subseteq Nat
  /\ None \notin Procs /\ None \notin Blocks /\ None \notin Buffers
  /\ 0 \in Vals /\ 0 \in Bit /\ 1 \in Bit /\ None \notin [block : Blocks, write : Bit, data : Vals]
BY BioAssumption DEF Buffers, Bit

(* The disk queue: a request joins at the end, the first one leaves. *)
LEMMA JoinQueue ==
  ASSUME NEW s \in Seq(Buffers), IsInjective(s), NEW b \in Buffers, b \notin Range(s)
  PROVE  LET t == Append(s, b)
         IN  /\ t \in Seq(Buffers) /\ IsInjective(t) /\ t # <<>>
             /\ Range(t) = Range(s) \cup {b}
             /\ t[1] = IF s = <<>> THEN b ELSE s[1]
<1>. DEFINE t == Append(s, b)
<1>1. /\ t \in Seq(Buffers) /\ Len(t) = Len(s) + 1 /\ Len(s) \in Nat
      /\ \A i \in 1..Len(s) : t[i] = s[i]
      /\ t[Len(s) + 1] = b
      /\ DOMAIN t = 1..Len(s) + 1 /\ DOMAIN s = 1..Len(s)
  BY AppendProperties
<1>2. \A i \in 1..Len(s) : s[i] # b
  BY <1>1 DEF Range
<1>. HIDE DEF t
<1>3. IsInjective(t)
  <2>. SUFFICES ASSUME NEW i \in DOMAIN t, NEW j \in DOMAIN t, t[i] = t[j] PROVE i = j
    BY DEF IsInjective
  <2>1. CASE i \in 1..Len(s) /\ j \in 1..Len(s)
    BY <1>1, <2>1 DEF IsInjective
  <2>2. CASE i = Len(s) + 1 \/ j = Len(s) + 1
    BY <1>1, <1>2, <2>2
  <2>. QED
    BY <1>1, <2>1, <2>2
<1>4. Range(t) = Range(s) \cup {b}
  BY <1>1 DEF Range
<1>5. t[1] = IF s = <<>> THEN b ELSE s[1]
  <2>1. CASE s = <<>>
    BY <1>1, <2>1
  <2>2. CASE s # <<>>
    BY <1>1, <2>2, EmptySeq
  <2>. QED
    BY <2>1, <2>2
<1>6. t # <<>>
  BY <1>1
<1>. QED
  BY <1>1, <1>3, <1>4, <1>5, <1>6 DEF t

LEMMA LeaveQueue ==
  ASSUME NEW s \in Seq(Buffers), IsInjective(s), s # <<>>
  PROVE  /\ Head(s) = s[1] /\ s[1] \in Buffers /\ s[1] \in Range(s)
         /\ Tail(s) \in Seq(Buffers) /\ IsInjective(Tail(s))
         /\ Range(Tail(s)) = Range(s) \ {s[1]}
         /\ Tail(s) # <<>> => Tail(s)[1] \in Range(Tail(s))
<1>. DEFINE t == Tail(s)
<1>1. /\ Head(s) = s[1] /\ t \in Seq(Buffers) /\ Len(t) = Len(s) - 1 /\ Len(s) \in Nat \ {0}
      /\ \A i \in 1..Len(t) : t[i] = s[i + 1]
      /\ DOMAIN t = 1..Len(t) /\ DOMAIN s = 1..Len(s)
  BY HeadTailProperties, EmptySeq, LenProperties
<1>2. s[1] \in Buffers /\ s[1] \in Range(s)
  BY <1>1, ElementOfSeq DEF Range
<1>. HIDE DEF t
<1>3. IsInjective(t)
  <2>. SUFFICES ASSUME NEW i \in 1..Len(t), NEW j \in 1..Len(t), t[i] = t[j] PROVE i = j
    BY <1>1 DEF IsInjective
  <2>1. i + 1 \in DOMAIN s /\ j + 1 \in DOMAIN s /\ s[i + 1] = s[j + 1]
    BY <1>1
  <2>2. i + 1 = j + 1
    BY Zenon, <2>1 DEF IsInjective
  <2>. QED
    BY <2>2
<1>4. Range(t) = Range(s) \ {s[1]}
  <2>1. \A x \in Range(t) : x \in Range(s) /\ x # s[1]
    BY <1>1 DEF Range, IsInjective
  <2>2. ASSUME NEW x \in Range(s), x # s[1] PROVE x \in Range(t)
    <3>1. PICK i \in 1..Len(s) : x = s[i]
      BY <1>1 DEF Range
    <3>2. i - 1 \in 1..Len(t) /\ t[i - 1] = x
      BY <1>1, <2>2, <3>1
    <3>. QED
      BY <1>1, <3>2 DEF Range
  <2>. QED
    BY <2>1, <2>2
<1>5. t # <<>> => t[1] \in Range(t)
  BY <1>1, EmptySeq DEF Range
<1>. QED
  BY <1>1, <1>2, <1>3, <1>4, <1>5 DEF t

(* A buffer that is moved to the front of the list leaves every other buffer in it, once. *)
LEMMA MoveToFrontPermutes ==
  ASSUME NEW s \in [Buffers -> Buffers], Range(s) = Buffers, IsInjective(s), NEW b \in Buffers
  PROVE  LET t == MoveToFront(s, b)
         IN  t \in [Buffers -> Buffers] /\ Range(t) = Buffers /\ IsInjective(t)
<1>. DEFINE t == MoveToFront(s, b)
<1>0. NBUF \in Nat \ {0} /\ Buffers = 1..NBUF
  BY BufferFacts
<1>1. PICK k \in Buffers : s[k] = b
  BY DEF Range
<1>2. ASSUME NEW i \in Buffers PROVE (\E j \in i..NBUF : s[j] = b) <=> i <= k
  <2>1. ASSUME NEW j \in i..NBUF, s[j] = b PROVE i <= k
    <3>1. j \in Buffers
      BY <1>0
    <3>2. j = k
      BY Zenon, <1>1, <2>1, <3>1 DEF IsInjective
    <3>. QED
      BY <1>0, <3>2
  <2>2. ASSUME i <= k PROVE k \in i..NBUF
    BY <1>0, <2>2
  <2>. QED
    BY Zenon, <1>1, <2>1, <2>2
<1>3. /\ t \in [Buffers -> Buffers]
      /\ \A i \in Buffers : t[i] = IF i = 1 THEN b ELSE IF i <= k THEN s[i - 1] ELSE s[i]
  <2>. DEFINE put(i) == IF i = 1 THEN b ELSE IF i <= k THEN s[i - 1] ELSE s[i]
  <2>1. t = [i \in Buffers |-> put(i)]
    BY Zenon, <1>2 DEF MoveToFront
  <2>2. \A i \in Buffers : put(i) \in Buffers
    BY <1>0
  <2>3. t \in [Buffers -> Buffers] /\ \A i \in Buffers : t[i] = put(i)
    <3>. HIDE DEF put, t
    <3>. QED
      BY Zenon, <2>1, <2>2
  <2>. QED
    BY Zenon, <2>3
<1>. HIDE DEF t
<1>. DEFINE from(i) == IF i = 1 THEN k ELSE IF i <= k THEN i - 1 ELSE i
<1>4. IsInjective(t)
  <2>1. ASSUME NEW i \in Buffers PROVE from(i) \in Buffers /\ t[i] = s[from(i)]
    <3>1. CASE i = 1
      BY <1>1, <1>3, <3>1
    <3>2. CASE i # 1 /\ i <= k
      BY <1>0, <1>3, <3>2
    <3>3. CASE i # 1 /\ ~(i <= k)
      BY <1>3, <3>3
    <3>. QED
      BY <3>1, <3>2, <3>3
  <2>2. \A i, j \in Buffers : from(i) = from(j) => i = j
    BY <1>0
  <2>3. DOMAIN t = Buffers /\ DOMAIN s = Buffers
    BY <1>3
  <2>. HIDE DEF from
  <2>. SUFFICES ASSUME NEW i \in Buffers, NEW j \in Buffers, t[i] = t[j] PROVE i = j
    BY Zenon, <2>3 DEF IsInjective
  <2>4. s[from(i)] = s[from(j)] /\ from(i) \in Buffers /\ from(j) \in Buffers
    BY Zenon, <2>1
  <2>5. from(i) = from(j)
    BY Zenon, <2>3, <2>4 DEF IsInjective
  <2>. QED
    BY Zenon, <2>2, <2>5
<1>5. Range(t) = Buffers
  <2>. SUFFICES ASSUME NEW c \in Buffers PROVE \E i \in Buffers : t[i] = c
    BY <1>3 DEF Range
  <2>1. PICK i \in Buffers : s[i] = c
    BY DEF Range
  <2>2. CASE i = k
    BY <1>0, <1>1, <1>3, <2>1, <2>2
  <2>3. CASE i < k
    <3>1. i + 1 \in Buffers /\ t[i + 1] = c
      BY <1>0, <1>3, <2>1, <2>3
    <3>. QED
      BY <3>1
  <2>4. CASE i > k
    BY <1>0, <1>3, <2>1, <2>4
  <2>. QED
    BY <1>0, <2>2, <2>3, <2>4
<1>. QED
  BY <1>3, <1>4, <1>5 DEF t

(* The buffer of a process that does not sleep in iderw is not in the disk queue. *)
LEMMA NotQueued ==
  ASSUME Inv, NEW p \in Procs, HasBuffer(p), pc[p] # "io"
  PROVE  buf[p] \notin Range(idequeue) /\ (idequeue # <<>> => idequeue[1] # buf[p])
<1>1. buf[p] \notin Range(idequeue)
  BY DEF Inv, OneCopy, QueueInOrder, HasBuffer
<1>2. idequeue # <<>> => idequeue[1] \in Range(idequeue)
  BY LeaveQueue DEF Inv, TypeOK
<1>. QED
  BY <1>1, <1>2

(* What a step does not touch stays in order. *)
LEMMA HolderKept ==
  ASSUME NEW q \in Procs, HolderInOrder(q),
         pc'[q] = pc[q], want'[q] = want[q], buf'[q] = buf[q],
         HasBuffer(q) => /\ busy'[buf[q]] = busy[buf[q]] /\ blockno'[buf[q]] = blockno[buf[q]]
                         /\ valid'[buf[q]] = valid[buf[q]] /\ dirty'[buf[q]] = dirty[buf[q]]
  PROVE  HolderInOrder(q)'
  BY DEF HolderInOrder, HasBuffer

LEMMA BufferKept ==
  ASSUME NEW b \in Buffers, BufferInOrder(b),
         busy'[b] = busy[b], blockno'[b] = blockno[b], valid'[b] = valid[b], dirty'[b] = dirty[b],
         \A q \in Procs : HasBuffer(q) /\ buf[q] = b => HasBuffer(q)' /\ buf'[q] = b
  PROVE  BufferInOrder(b)'
  BY Zenon DEF BufferInOrder

LEMMA InitInv == Init => Inv
<1>. SUFFICES ASSUME Init PROVE Inv
  OBVIOUS
<1>1. TypeOK
  <2>1. lru \in [Buffers -> Buffers] /\ Range(lru) = Buffers /\ IsInjective(lru)
    <3>1. lru \in [Buffers -> Buffers] /\ \A i \in Buffers : lru[i] = NBUF + 1 - i
      BY BufferFacts DEF Init
    <3>2. \A b \in Buffers : NBUF + 1 - b \in Buffers /\ lru[NBUF + 1 - b] = b
      BY <3>1, BufferFacts
    <3>3. Range(lru) = Buffers
      BY <3>1, <3>2 DEF Range
    <3>4. IsInjective(lru)
      BY <3>1, BufferFacts DEF IsInjective
    <3>. QED
      BY <3>1, <3>3, <3>4
  <2>2. idequeue \in Seq(Buffers) /\ IsInjective(idequeue)
    BY DEF Init, IsInjective
  <2>. QED
    BY <2>1, <2>2, BufferFacts DEF TypeOK, Init
<1>2. OneCopy /\ SleepersWillWake /\ HoldersInOrder /\ BuffersInOrder
  BY BufferFacts DEF OneCopy, HoldersInOrder, HolderInOrder, SleepersWillWake, BuffersInOrder, BufferInOrder, HasBuffer, Init
<1>3. QueueInOrder
  BY BufferFacts DEF QueueInOrder, Range, Init
<1>. QED
  BY <1>1, <1>2, <1>3 DEF Inv

LEMMA BreadInv ==
  ASSUME Inv, NEW p \in Procs, NEW n \in Blocks, Bread(p, n)
  PROVE  Inv'
<1>1. TypeOK'
  BY DEF Inv, TypeOK, Bread, flags
<1>2. OneCopy'
  BY DEF Inv, TypeOK, OneCopy, HasBuffer, Bread, flags
<1>3. SleepersWillWake'
  BY DEF Inv, TypeOK, SleepersWillWake, Bread, flags
<1>4. HoldersInOrder'
  BY DEF Inv, TypeOK, HoldersInOrder, HolderInOrder, HasBuffer, Bread, flags
<1>5. BuffersInOrder'
  BY DEF Inv, TypeOK, BuffersInOrder, BufferInOrder, HasBuffer, Bread, flags
<1>6. QueueInOrder'
  BY DEF Inv, TypeOK, QueueInOrder, Idestart, Bread, flags
<1>. QED
  BY Zenon, <1>1, <1>2, <1>3, <1>4, <1>5, <1>6 DEF Inv

LEMMA BgetHitInv ==
  ASSUME Inv, NEW p \in Procs, NEW b \in Buffers, BgetHit(p, b)
  PROVE  Inv'
<1>0. b # None /\ 1 \in Bit
  BY BufferFacts
<1>1. TypeOK'
  BY <1>0 DEF Inv, TypeOK, BgetHit
<1>2. OneCopy'
  BY <1>0 DEF Inv, TypeOK, OneCopy, HoldersInOrder, HolderInOrder, HasBuffer, BgetHit
<1>3. SleepersWillWake'
  BY <1>0 DEF Inv, TypeOK, SleepersWillWake, BgetHit
<1>4. HoldersInOrder'
  BY <1>0 DEF Inv, TypeOK, HoldersInOrder, HolderInOrder, HasBuffer, BgetHit, Cached, Bit
<1>5. BuffersInOrder'
  BY <1>0 DEF Inv, TypeOK, BuffersInOrder, BufferInOrder, HasBuffer, BgetHit, Cached
<1>6. QueueInOrder'
  BY <1>0 DEF Inv, TypeOK, QueueInOrder, Idestart, BgetHit
<1>. QED
  BY Zenon, <1>1, <1>2, <1>3, <1>4, <1>5, <1>6 DEF Inv

LEMMA BgetWaitInv ==
  ASSUME Inv, NEW p \in Procs, NEW b \in Buffers, BgetWait(p, b)
  PROVE  Inv'
<1>0. b # None
  BY BufferFacts
<1>1. TypeOK'
  BY <1>0 DEF Inv, TypeOK, BgetWait, flags
<1>2. OneCopy'
  BY <1>0 DEF Inv, TypeOK, OneCopy, HoldersInOrder, HolderInOrder, HasBuffer, BgetWait, flags
<1>3. SleepersWillWake'
  BY <1>0 DEF Inv, TypeOK, SleepersWillWake, BgetWait, flags, Cached
<1>4. HoldersInOrder'
  BY <1>0 DEF Inv, TypeOK, HoldersInOrder, HolderInOrder, HasBuffer, BgetWait, flags
<1>5. BuffersInOrder'
  BY <1>0 DEF Inv, TypeOK, BuffersInOrder, BufferInOrder, HasBuffer, BgetWait, flags
<1>6. QueueInOrder'
  BY <1>0 DEF Inv, TypeOK, QueueInOrder, Idestart, BgetWait, flags
<1>. QED
  BY Zenon, <1>1, <1>2, <1>3, <1>4, <1>5, <1>6 DEF Inv

LEMMA LogWriteInv ==
  ASSUME Inv, NEW p \in Procs, NEW v \in Vals, LogWrite(p, v)
  PROVE  Inv'
<1>0. /\ buf[p] \in Buffers /\ 1 \in Bit /\ pc[p] = "hold" /\ valid[buf[p]] = 1
      /\ buf[p] \notin Range(idequeue) /\ (idequeue # <<>> => idequeue[1] # buf[p])
  BY Zenon, BufferFacts, NotQueued DEF Inv, HoldersInOrder, HolderInOrder, HasBuffer, LogWrite
<1>1. TypeOK'
  BY <1>0 DEF Inv, TypeOK, LogWrite
<1>2. OneCopy'
  BY <1>0 DEF Inv, TypeOK, OneCopy, HoldersInOrder, HolderInOrder, HasBuffer, LogWrite
<1>3. SleepersWillWake'
  BY <1>0 DEF Inv, TypeOK, SleepersWillWake, LogWrite
<1>4. HoldersInOrder'
  BY <1>0 DEF Inv, TypeOK, HoldersInOrder, HolderInOrder, HasBuffer, OneCopy, LogWrite
<1>5. BuffersInOrder'
  BY <1>0 DEF Inv, TypeOK, BuffersInOrder, BufferInOrder, HasBuffer, LogWrite
<1>6. QueueInOrder'
  BY <1>0 DEF Inv, TypeOK, QueueInOrder, Idestart, LogWrite
<1>. QED
  BY Zenon, <1>1, <1>2, <1>3, <1>4, <1>5, <1>6 DEF Inv

LEMMA BwriteInv ==
  ASSUME Inv, NEW p \in Procs, NEW v \in Vals, Bwrite(p, v)
  PROVE  Inv'
<1>0. /\ buf[p] \in Buffers /\ 1 \in Bit /\ pc[p] = "hold" /\ valid[buf[p]] = 1
      /\ buf[p] \notin Range(idequeue) /\ (idequeue # <<>> => idequeue[1] # buf[p])
  BY BufferFacts, NotQueued DEF Inv, HoldersInOrder, HolderInOrder, HasBuffer, Bwrite
<1>1. TypeOK'
  BY <1>0 DEF Inv, TypeOK, Bwrite
<1>2. OneCopy'
  BY <1>0 DEF Inv, TypeOK, OneCopy, HoldersInOrder, HolderInOrder, HasBuffer, Bwrite
<1>3. SleepersWillWake'
  BY <1>0 DEF Inv, TypeOK, SleepersWillWake, Bwrite
<1>4. HoldersInOrder'
  BY <1>0 DEF Inv, TypeOK, HoldersInOrder, HolderInOrder, HasBuffer, OneCopy, Bwrite
<1>5. BuffersInOrder'
  BY <1>0 DEF Inv, TypeOK, BuffersInOrder, BufferInOrder, HasBuffer, Bwrite
<1>6. QueueInOrder'
  BY <1>0 DEF Inv, TypeOK, QueueInOrder, Idestart, Bwrite
<1>. QED
  BY Zenon, <1>1, <1>2, <1>3, <1>4, <1>5, <1>6 DEF Inv

LEMMA BrelseInv ==
  ASSUME Inv, NEW p \in Procs, Brelse(p)
  PROVE  Inv'
<1>0. /\ buf[p] \in Buffers /\ 0 \in Bit /\ pc[p] = "hold"
      /\ buf[p] \notin Range(idequeue) /\ busy[buf[p]] = 1 /\ None \notin Buffers
  BY Zenon, BufferFacts, NotQueued DEF Inv, HoldersInOrder, HolderInOrder, HasBuffer, Brelse
<1>7. lru' \in [Buffers -> Buffers] /\ Range(lru') = Buffers /\ IsInjective(lru')
  BY Zenon, <1>0, MoveToFrontPermutes DEF Inv, TypeOK, Brelse
<1>8. /\ busy' \in [Buffers -> Bit] /\ busy'[buf[p]] = 0
      /\ \A b \in Buffers : b # buf[p] => busy'[b] = busy[b]
      /\ buf' \in [Procs -> Buffers \cup {None}] /\ buf'[p] = None
      /\ want' \in [Procs -> Blocks \cup {None}]
      /\ \A q \in Procs : q # p => buf'[q] = buf[q] /\ want'[q] = want[q]
      /\ UNCHANGED <<blockno, valid, dirty, data, idequeue, cmd, disk>>
  BY Zenon, <1>0 DEF Inv, TypeOK, Brelse
<1>9. /\ pc' = [q \in Procs |-> IF q = p THEN "idle"
                               ELSE IF buf[q] = buf[p] /\ pc[q] = "wait" THEN "bget" ELSE pc[q]]
      /\ \A q \in Procs : q # p /\ HasBuffer(q) => pc'[q] = pc[q] /\ buf[q] # buf[p]
  <2>1. \A q \in Procs : q # p /\ HasBuffer(q) => buf[q] # buf[p]
    BY <1>0 DEF Inv, OneCopy, HasBuffer
  <2>2. pc' = [q \in Procs |-> IF q = p THEN "idle"
                              ELSE IF buf[q] = buf[p] /\ pc[q] = "wait" THEN "bget" ELSE pc[q]]
    BY Zenon, <1>0, <2>1 DEF Inv, TypeOK, HasBuffer, Wakeup, Brelse
  <2>. QED
    BY <2>1, <2>2 DEF HasBuffer
<1>1. TypeOK'
  BY <1>7, <1>8, <1>9 DEF Inv, TypeOK
<1>10. \A q \in Procs : HasBuffer(q)' <=> q # p /\ HasBuffer(q)
  BY ONLY <1>9 DEF HasBuffer
<1>2. OneCopy'
  BY Zenon, <1>8, <1>10 DEF Inv, OneCopy
<1>3. SleepersWillWake'
  <2>1. ASSUME NEW q \in Procs, pc'[q] = "wait" PROVE busy'[buf'[q]] = 1 /\ blockno'[buf'[q]] = want'[q]
    <3>1. q # p /\ pc[q] = "wait" /\ buf[q] # buf[p]
      BY ONLY <1>9, <2>1
    <3>2. buf[q] \in Buffers /\ busy[buf[q]] = 1 /\ blockno[buf[q]] = want[q]
      BY Zenon, <3>1 DEF Inv, SleepersWillWake, HoldersInOrder, HolderInOrder
    <3>. QED
      BY ONLY <1>8, <3>1, <3>2
  <2>2. ASSUME NEW q \in Procs, pc'[q] = "io" PROVE buf'[q] \in Range(idequeue')
    <3>1. q # p /\ pc[q] = "io"
      BY ONLY <1>9, <2>2
    <3>. QED
      BY Zenon, <1>8, <3>1 DEF Inv, SleepersWillWake
  <2>. QED
    BY Zenon, <1>8, <2>1, <2>2 DEF Inv, SleepersWillWake
<1>4. HoldersInOrder'
  <2>. SUFFICES ASSUME NEW q \in Procs, HolderInOrder(q) PROVE HolderInOrder(q)'
    BY Zenon DEF Inv, HoldersInOrder
  <2>1. CASE q = p
    BY ONLY <1>9, <2>1 DEF HolderInOrder, HasBuffer
  <2>2. CASE q # p /\ pc'[q] = pc[q]
    <3>1. HasBuffer(q) => buf[q] \in Buffers /\ buf[q] # buf[p]
      BY Zenon, <1>9, <2>2 DEF HolderInOrder
    <3>. QED
      BY Zenon, <1>8, <2>2, <3>1, HolderKept
  <2>3. CASE q # p /\ pc'[q] # pc[q]
    <3>1. pc[q] = "wait" /\ pc'[q] = "bget" /\ want'[q] = want[q]
      BY ONLY <1>8, <1>9, <2>3
    <3>. QED
      BY ONLY HolderInOrder(q), <3>1 DEF HolderInOrder, HasBuffer
  <2>. QED
    BY Zenon, <2>1, <2>2, <2>3
<1>5. BuffersInOrder'
  <2>. SUFFICES ASSUME NEW c \in Buffers, BufferInOrder(c) PROVE BufferInOrder(c)'
    BY Zenon DEF Inv, BuffersInOrder
  <2>1. CASE c = buf[p]
    BY ONLY BufferInOrder(c), <1>8, <2>1 DEF BufferInOrder
  <2>2. CASE c # buf[p]
    BY Zenon, <1>8, <1>10, <2>2, BufferKept
  <2>. QED
    BY Zenon, <2>1, <2>2
<1>6. QueueInOrder'
  <2>1. \A c \in Range(idequeue') : \E q \in Procs : pc'[q] = "io" /\ buf'[q] = c
    <3>. SUFFICES ASSUME NEW c \in Range(idequeue) PROVE \E q \in Procs : pc'[q] = "io" /\ buf'[q] = c
      BY Zenon, <1>8
    <3>1. PICK q \in Procs : pc[q] = "io" /\ buf[q] = c
      BY Zenon DEF Inv, QueueInOrder
    <3>2. q # p
      BY ONLY <1>0, <3>1
    <3>3. pc'[q] = "io" /\ buf'[q] = c
      BY ONLY <1>8, <1>9, <3>1, <3>2 DEF HasBuffer
    <3>. QED
      BY Zenon, <3>3
  <2>2. Idestart(idequeue)' = Idestart(idequeue)
    BY Zenon, <1>8 DEF Idestart
  <2>. QED
    BY Zenon, <1>8, <2>1, <2>2 DEF Inv, QueueInOrder
<1>. QED
  BY Zenon, <1>1, <1>2, <1>3, <1>4, <1>5, <1>6 DEF Inv

LEMMA IderwTestInv ==
  ASSUME Inv, NEW p \in Procs, IderwTest(p)
  PROVE  Inv'
<1>0. buf[p] \in Buffers /\ pc[p] = "iowoken" /\ valid[buf[p]] = 1 /\ dirty[buf[p]] = 0
  BY Zenon, BufferFacts DEF Inv, HoldersInOrder, HolderInOrder, HasBuffer, IderwTest
<1>1. TypeOK'
  BY <1>0 DEF Inv, TypeOK, IderwTest, flags
<1>2. OneCopy'
  BY <1>0 DEF Inv, TypeOK, OneCopy, HoldersInOrder, HolderInOrder, HasBuffer, IderwTest, flags
<1>3. SleepersWillWake'
  BY <1>0 DEF Inv, TypeOK, SleepersWillWake, IderwTest, flags
<1>4. HoldersInOrder'
  BY Zenon, <1>0 DEF Inv, TypeOK, HoldersInOrder, HolderInOrder, HasBuffer, IderwTest, flags
<1>5. BuffersInOrder'
  BY <1>0 DEF Inv, TypeOK, BuffersInOrder, BufferInOrder, HasBuffer, IderwTest, flags
<1>6. QueueInOrder'
  BY Zenon, <1>0 DEF Inv, TypeOK, QueueInOrder, Idestart, IderwTest, flags
<1>. QED
  BY Zenon, <1>1, <1>2, <1>3, <1>4, <1>5, <1>6 DEF Inv

LEMMA IderwInv ==
  ASSUME Inv, NEW p \in Procs, Iderw(p)
  PROVE  Inv' /\ pc'[p] = "io"
<1>. DEFINE b == buf[p]
<1>0. b \in Buffers /\ pc[p] = "iderw" /\ b \notin Range(idequeue) /\ HasBuffer(p)
  BY Zenon, NotQueued DEF Inv, HoldersInOrder, HolderInOrder, HasBuffer, Iderw
<1>7. /\ idequeue' = Append(idequeue, b)
      /\ cmd' = IF idequeue = <<>> THEN Idestart(idequeue') ELSE cmd
      /\ pc' = [pc EXCEPT ![p] = "io"]
      /\ UNCHANGED <<blockno, busy, valid, dirty, data, lru, disk, want, buf>>
  BY <1>0 DEF Inv, HoldersInOrder, HolderInOrder, Iderw, flags
<1>8. /\ idequeue' \in Seq(Buffers) /\ IsInjective(idequeue') /\ idequeue' # <<>>
      /\ Range(idequeue') = Range(idequeue) \cup {b}
      /\ idequeue'[1] = IF idequeue = <<>> THEN b ELSE idequeue[1]
  BY Zenon, <1>0, <1>7, JoinQueue DEF Inv, TypeOK
<1>9. /\ pc'[p] = "io" /\ \A q \in Procs : q # p => pc'[q] = pc[q]
      /\ \A q \in Procs : HasBuffer(q)' <=> HasBuffer(q)
  BY <1>0, <1>7 DEF Inv, TypeOK, HasBuffer
<1>10. cmd' = Idestart(idequeue)' /\ cmd' # None /\ cmd'.block = blockno[idequeue'[1]]
       /\ cmd' \in [block : Blocks, write : Bit, data : Vals]
  <2>. DEFINE h == idequeue'[1]
  <2>1. h \in Buffers /\ blockno[h] \in Blocks
    <3>1. CASE idequeue = <<>>
      BY <1>0, <1>8, <3>1 DEF Inv, HoldersInOrder, HolderInOrder
    <3>2. CASE idequeue # <<>>
      <4>1. h \in Buffers /\ h \in Range(idequeue)
        BY Zenon, <1>8, <3>2, LeaveQueue DEF Inv, TypeOK
      <4>2. PICK q \in Procs : pc[q] = "io" /\ buf[q] = h
        BY <4>1 DEF Inv, QueueInOrder
      <4>. QED
        BY <4>1, <4>2 DEF Inv, HoldersInOrder, HolderInOrder, HasBuffer
    <3>. QED
      BY Zenon, <3>1, <3>2
  <2>3. Idestart(idequeue)' = [block |-> blockno[h], write |-> dirty[h], data |-> data[h]]
    BY <1>7, <1>8 DEF Idestart
  <2>2. cmd' = [block |-> blockno[h], write |-> dirty[h], data |-> data[h]]
    BY Zenon, <1>7, <1>8 DEF Inv, QueueInOrder, Idestart
  <2>. HIDE DEF h
  <2>4. cmd' \in [block : Blocks, write : Bit, data : Vals]
    BY <2>1, <2>2 DEF Inv, TypeOK
  <2>. QED
    BY <2>2, <2>3, <2>4, BufferFacts DEF h
<1>1. TypeOK'
  BY Zenon, <1>7, <1>8, <1>10 DEF Inv, TypeOK
<1>2. OneCopy'
  BY <1>7, <1>9 DEF Inv, OneCopy
<1>3. SleepersWillWake'
  <2>1. \A q \in Procs : pc'[q] = "wait" => pc[q] = "wait"
    BY ONLY <1>9
  <2>2. \A q \in Procs : pc'[q] = "io" => q = p \/ pc[q] = "io"
    BY ONLY <1>9
  <2>. QED
    BY Zenon, <1>7, <1>8, <1>10, <2>1, <2>2 DEF Inv, SleepersWillWake
<1>4. HoldersInOrder'
  <2>. SUFFICES ASSUME NEW q \in Procs, HolderInOrder(q) PROVE HolderInOrder(q)'
    BY Zenon DEF Inv, HoldersInOrder
  <2>1. CASE q # p
    BY Zenon, <1>7, <1>9, <2>1, HolderKept
  <2>2. CASE q = p
    <3>1. pc'[q] = "io" /\ HasBuffer(q) /\ HasBuffer(q)' /\ buf' = buf
      BY Zenon, <1>0, <1>7, <1>9, <2>2 DEF HasBuffer
    <3>2. want[q] \in Blocks /\ buf[q] \in Buffers /\ busy[buf[q]] = 1 /\ blockno[buf[q]] = want[q]
      BY Zenon, <3>1 DEF HolderInOrder
    <3>3. valid[buf[q]] = 0 \/ dirty[buf[q]] = 1
      BY Zenon, <1>0, <2>2 DEF HolderInOrder
    <3>4. want'[q] = want[q] /\ busy' = busy /\ blockno' = blockno /\ valid' = valid /\ dirty' = dirty
      BY Zenon, <1>7
    <3>. QED
      BY ONLY <3>1, <3>2, <3>3, <3>4 DEF HolderInOrder
  <2>. QED
    BY Zenon, <2>1, <2>2
<1>5. BuffersInOrder'
  BY Zenon, <1>7, <1>9 DEF Inv, BuffersInOrder, BufferInOrder
<1>6. QueueInOrder'
  <2>1. \A c \in Range(idequeue') : \E q \in Procs : pc'[q] = "io" /\ buf'[q] = c
    <3>. SUFFICES ASSUME NEW c \in Range(idequeue) \cup {b} PROVE \E q \in Procs : pc'[q] = "io" /\ buf'[q] = c
      BY Zenon, <1>8
    <3>1. CASE c = b
      BY Zenon, <1>7, <1>9, <3>1
    <3>2. CASE c \in Range(idequeue)
      <4>1. PICK q \in Procs : pc[q] = "io" /\ buf[q] = c
        BY Zenon, <3>2 DEF Inv, QueueInOrder
      <4>2. pc'[q] = "io" /\ buf'[q] = c
        BY ONLY <1>0, <1>7, <1>9, <4>1
      <4>. QED
        BY Zenon, <4>2
    <3>. QED
      BY Zenon, <3>1, <3>2
  <2>2. \A c \in Buffers : valid'[c] = 1 /\ dirty'[c] = 0 /\ blockno'[c] \notin BadBlocks
                             => data'[c] = disk'[blockno'[c]]
    BY Zenon, <1>7 DEF Inv, QueueInOrder
  <2>. QED
    BY Zenon, <1>8, <1>10, <2>1, <2>2 DEF QueueInOrder
<1>. QED
  BY Zenon, <1>1, <1>2, <1>3, <1>4, <1>5, <1>6, <1>9 DEF Inv

(* The places of the list have a last one among any of them. *)
LEMMA MaxInSet ==
  ASSUME NEW S \in SUBSET Buffers, S # {}
  PROVE  Max(S) \in S
<1>. DEFINE R == {xy \in Nat \X Nat : xy[1] < xy[2]}
            T == {NBUF - x : x \in S}
<1>1. IsWellFoundedOn(R, Nat)
  BY NatLessThanWellFounded DEF OpToRel
<1>2. \A m, n \in Nat : ~(<<n, m>> \in R) => m <= n
  OBVIOUS
<1>3. T \subseteq Nat /\ T # {}
  BY BufferFacts
<1>. HIDE DEF R
<1>4. \E m \in T : \A n \in T : ~(<<n, m>> \in R)
  <2>. HIDE DEF T
  <2>. QED
    BY <1>1, <1>3, WFMin, Zenon
<1>5. PICK m \in T : \A n \in T : m <= n
  <2>. HIDE DEF T
  <2>. QED
    BY Zenon, <1>2, <1>3, <1>4
<1>6. PICK x \in S : m = NBUF - x
  BY <1>5
<1>7. ASSUME NEW y \in S PROVE x >= y
  <2>1. m <= NBUF - y
    BY <1>5
  <2>. QED
    BY <1>6, <2>1, BufferFacts
<1>. QED
  BY <1>7 DEF Max

LEMMA BgetMissInv ==
  ASSUME Inv, NEW p \in Procs, BgetMiss(p)
  PROVE  Inv'
<1>. DEFINE usable == {i \in Buffers : Recyclable(lru[i])}
            b == lru[Max(usable)]
<1>0. pc[p] = "bget" /\ want[p] \in Blocks /\ Cached(want[p]) = {} /\ 1 \in Bit /\ 0 \in Bit
  BY Zenon, BufferFacts DEF Inv, HoldersInOrder, HolderInOrder, BgetMiss
<1>1. CASE usable = {}
  <2>1. /\ pc' = [pc EXCEPT ![p] = "panic"]
        /\ UNCHANGED <<blockno, busy, valid, dirty, data, lru, idequeue, cmd, disk, want, buf>>
    BY Zenon, <1>1 DEF BgetMiss
  <2>2. TypeOK'
    BY <2>1 DEF Inv, TypeOK
  <2>3. OneCopy'
    BY <2>1 DEF Inv, TypeOK, OneCopy, HasBuffer
  <2>4. SleepersWillWake'
    BY <2>1 DEF Inv, TypeOK, SleepersWillWake
  <2>5. HoldersInOrder'
    BY Zenon, <2>1 DEF Inv, TypeOK, HoldersInOrder, HolderInOrder, HasBuffer
  <2>6. BuffersInOrder'
    BY <1>0, <2>1 DEF Inv, TypeOK, BuffersInOrder, BufferInOrder, HasBuffer
  <2>7. QueueInOrder'
    BY Zenon, <1>0, <2>1 DEF Inv, TypeOK, QueueInOrder, Idestart
  <2>. QED
    BY Zenon, <2>2, <2>3, <2>4, <2>5, <2>6, <2>7 DEF Inv
<1>2. CASE usable # {}
  <2>0. b \in Buffers /\ busy[b] = 0 /\ dirty[b] = 0
    <3>1. Max(usable) \in usable
      BY <1>2, MaxInSet
    <3>. QED
      BY <3>1 DEF Inv, TypeOK, Recyclable
  <2>1. /\ pc' = [pc EXCEPT ![p] = "iderw"] /\ buf' = [buf EXCEPT ![p] = b]
        /\ blockno' = [blockno EXCEPT ![b] = want[p]] /\ busy' = [busy EXCEPT ![b] = 1]
        /\ valid' = [valid EXCEPT ![b] = 0] /\ dirty' = [dirty EXCEPT ![b] = 0]
        /\ UNCHANGED <<data, lru, idequeue, cmd, disk, want>>
    BY Zenon, <1>2 DEF BgetMiss
  <2>. HIDE DEF b, usable
  <2>8. /\ b \notin Range(idequeue) /\ (idequeue # <<>> => idequeue[1] # b)
        /\ \A q \in Procs : q # p => HasBuffer(q)' = HasBuffer(q) /\ pc'[q] = pc[q] /\ buf'[q] = buf[q]
        /\ \A q \in Procs : HasBuffer(q) \/ pc[q] = "wait" => buf[q] # b /\ q # p
    <3>1. \A q \in Procs : HasBuffer(q) \/ pc[q] = "wait" => buf[q] # b
      <4>1. \A q \in Procs : HasBuffer(q) \/ pc[q] = "wait" => busy[buf[q]] = 1
        BY Zenon DEF Inv, HoldersInOrder, HolderInOrder, SleepersWillWake
      <4>. QED
        BY ONLY <2>0, <4>1
    <3>2. b \notin Range(idequeue)
      BY <3>1 DEF Inv, QueueInOrder, HasBuffer
    <3>3. idequeue # <<>> => idequeue[1] \in Range(idequeue)
      BY LeaveQueue DEF Inv, TypeOK
    <3>4. \A q \in Procs : q # p => HasBuffer(q)' = HasBuffer(q) /\ pc'[q] = pc[q] /\ buf'[q] = buf[q]
      BY <2>1 DEF Inv, TypeOK, HasBuffer
    <3>. QED
      BY <1>0, <3>1, <3>2, <3>3, <3>4 DEF HasBuffer
  <2>2. TypeOK'
    BY Zenon, <1>0, <2>0, <2>1 DEF Inv, TypeOK
  <2>9. /\ pc'[p] = "iderw" /\ buf'[p] = b /\ blockno'[b] = want[p] /\ busy'[b] = 1
        /\ valid'[b] = 0 /\ dirty'[b] = 0 /\ want' = want
        /\ \A c \in Buffers : c # b => /\ blockno'[c] = blockno[c] /\ busy'[c] = busy[c]
                                       /\ valid'[c] = valid[c] /\ dirty'[c] = dirty[c]
    BY <2>0, <2>1 DEF Inv, TypeOK
  <2>3. OneCopy'
    <3>1. \A c \in Buffers : blockno[c] # want[p]
      BY Zenon, <1>0 DEF Cached
    <3>2. ASSUME NEW c \in Buffers, NEW d \in Buffers, blockno'[c] # None, blockno'[c] = blockno'[d]
          PROVE  c = d
      <4>1. CASE c # b /\ d # b
        <5>1. blockno[c] # None /\ blockno[c] = blockno[d]
          BY ONLY <2>9, <3>2, <4>1
        <5>. QED
          BY Zenon, <5>1 DEF Inv, OneCopy
      <4>2. CASE c = b \/ d = b
        BY ONLY <2>9, <3>1, <3>2, <4>2
      <4>. QED
        BY Zenon, <4>1, <4>2
    <3>3. ASSUME NEW q \in Procs, NEW r \in Procs, q # r, HasBuffer(q)', HasBuffer(r)'
          PROVE  buf'[q] # buf'[r]
      <4>1. CASE q # p /\ r # p
        BY Zenon, <2>8, <3>3, <4>1 DEF Inv, OneCopy
      <4>2. CASE q = p \/ r = p
        BY Zenon, <2>8, <2>9, <3>3, <4>2
      <4>. QED
        BY Zenon, <4>1, <4>2
    <3>. QED
      BY Zenon, <3>2, <3>3 DEF OneCopy
  <2>4. SleepersWillWake'
    <3>1. ASSUME NEW q \in Procs, pc'[q] = "wait" PROVE busy'[buf'[q]] = 1 /\ blockno'[buf'[q]] = want'[q]
      <4>1. q # p
        BY ONLY <2>9, <3>1
      <4>2. pc[q] = "wait" /\ buf'[q] = buf[q] /\ buf[q] # b
        BY Zenon, <2>8, <3>1, <4>1
      <4>3. buf[q] \in Buffers /\ busy[buf[q]] = 1 /\ blockno[buf[q]] = want[q]
        BY Zenon, <4>2 DEF Inv, SleepersWillWake, HoldersInOrder, HolderInOrder
      <4>. QED
        BY ONLY <2>9, <4>2, <4>3
    <3>2. ASSUME NEW q \in Procs, pc'[q] = "io" PROVE buf'[q] \in Range(idequeue')
      <4>1. q # p
        BY ONLY <2>9, <3>2
      <4>. QED
        BY Zenon, <2>1, <2>8, <3>2, <4>1 DEF Inv, SleepersWillWake
    <3>3. idequeue' # <<>> => cmd' # None /\ cmd'.block = blockno'[idequeue'[1]]
      <4>1. idequeue # <<>> => idequeue[1] \in Buffers
        BY LeaveQueue DEF Inv, TypeOK
      <4>. QED
        BY Zenon, <2>1, <2>8, <2>9, <4>1 DEF Inv, SleepersWillWake
    <3>. QED
      BY Zenon, <3>1, <3>2, <3>3 DEF SleepersWillWake
  <2>5. HoldersInOrder'
    <3>. SUFFICES ASSUME NEW q \in Procs, HolderInOrder(q) PROVE HolderInOrder(q)'
      BY Zenon DEF Inv, HoldersInOrder
    <3>1. CASE q = p
      BY ONLY <1>0, <2>0, <2>9, <3>1 DEF HolderInOrder
    <3>2. CASE q # p
      <4>1. HasBuffer(q) => buf[q] \in Buffers /\ buf[q] # b
        BY Zenon, <2>8 DEF HolderInOrder
      <4>. QED
        BY Zenon, <2>8, <2>9, <3>2, <4>1, HolderKept
    <3>. QED
      BY Zenon, <3>1, <3>2
  <2>6. BuffersInOrder'
    <3>. SUFFICES ASSUME NEW c \in Buffers, BufferInOrder(c) PROVE BufferInOrder(c)'
      BY Zenon DEF Inv, BuffersInOrder
    <3>1. CASE c = b
      <4>1. HasBuffer(p)' /\ buf'[p] = c
        BY ONLY <2>9, <3>1 DEF HasBuffer
      <4>. QED
        BY <2>9, <3>1, <4>1 DEF BufferInOrder
    <3>2. CASE c # b
      BY Zenon, <2>8, <2>9, <3>2, BufferKept
    <3>. QED
      BY Zenon, <3>1, <3>2
  <2>7. QueueInOrder'
    <3>1. \A c \in Range(idequeue') : \E q \in Procs : pc'[q] = "io" /\ buf'[q] = c
      <4>. SUFFICES ASSUME NEW c \in Range(idequeue) PROVE \E q \in Procs : pc'[q] = "io" /\ buf'[q] = c
        BY Zenon, <2>1
      <4>1. PICK q \in Procs : pc[q] = "io" /\ buf[q] = c
        BY Zenon DEF Inv, QueueInOrder
      <4>2. q # p
        BY ONLY <1>0, <4>1
      <4>. QED
        BY Zenon, <2>8, <4>1, <4>2
    <3>2. \A c \in Buffers : valid'[c] = 1 /\ dirty'[c] = 0 /\ blockno'[c] \notin BadBlocks
                             => data'[c] = disk'[blockno'[c]]
      <4>. SUFFICES ASSUME NEW c \in Buffers, valid'[c] = 1, dirty'[c] = 0, blockno'[c] \notin BadBlocks
                    PROVE  data'[c] = disk'[blockno'[c]]
        OBVIOUS
      <4>1. c # b
        BY ONLY <2>9, valid'[c] = 1
      <4>2. valid[c] = 1 /\ dirty[c] = 0 /\ blockno'[c] = blockno[c]
        BY Zenon, <2>9, <4>1
      <4>. QED
        BY Zenon, <2>1, <4>2 DEF Inv, QueueInOrder
    <3>3. Idestart(idequeue)' = Idestart(idequeue)
      <4>1. idequeue # <<>> => idequeue[1] \in Buffers
        BY LeaveQueue DEF Inv, TypeOK
      <4>. QED
        <5>1. CASE idequeue = <<>>
          BY Zenon, <2>1, <5>1 DEF Idestart
        <5>2. CASE idequeue # <<>>
          <6>. DEFINE h == idequeue[1]
          <6>1. blockno'[h] = blockno[h] /\ dirty'[h] = dirty[h] /\ data'[h] = data[h] /\ idequeue' = idequeue
            BY Zenon, <2>1, <2>8, <2>9, <4>1, <5>2
          <6>. QED
            BY Zenon, <6>1 DEF Idestart
        <5>. QED
          BY Zenon, <5>1, <5>2
    <3>. QED
      BY Zenon, <2>1, <3>1, <3>2, <3>3 DEF Inv, QueueInOrder
  <2>. QED
    BY Zenon, <2>2, <2>3, <2>4, <2>5, <2>6, <2>7 DEF Inv
<1>. QED
  BY <1>1, <1>2

LEMMA IdeintrInv ==
  ASSUME Inv, NEW ok \in Bit, Ideintr(ok)
  PROVE  Inv'
<1>. DEFINE b == Head(idequeue)
<1>1. idequeue # <<>> /\ cmd = Idestart(idequeue) /\ cmd # None
  BY Zenon DEF Inv, QueueInOrder, Ideintr
<1>2. /\ b = idequeue[1] /\ b \in Buffers /\ b \in Range(idequeue)
      /\ Tail(idequeue) \in Seq(Buffers) /\ IsInjective(Tail(idequeue))
      /\ Range(Tail(idequeue)) = Range(idequeue) \ {b}
      /\ Tail(idequeue) # <<>> => Tail(idequeue)[1] \in Range(Tail(idequeue))
  <2>1. idequeue \in Seq(Buffers) /\ IsInjective(idequeue)
    BY Zenon DEF Inv, TypeOK
  <2>. QED
    BY <1>1, <2>1, LeaveQueue
<1>3. PICK p \in Procs : pc[p] = "io" /\ buf[p] = b
  BY <1>2 DEF Inv, QueueInOrder
<1>4. /\ cmd.block = blockno[b] /\ cmd.write = dirty[b] /\ cmd.data = data[b]
      /\ blockno[b] \in Blocks /\ busy[b] = 1 /\ (valid[b] = 0 \/ dirty[b] = 1)
  <2>1. cmd.block = blockno[b] /\ cmd.write = dirty[b] /\ cmd.data = data[b]
    BY Zenon, <1>1, <1>2 DEF Idestart
  <2>. QED
    BY Zenon, <1>3, <2>1 DEF Inv, HoldersInOrder, HolderInOrder, HasBuffer
<1>. HIDE DEF b
<1>5. /\ valid' = [valid EXCEPT ![b] = 1] /\ dirty' = [dirty EXCEPT ![b] = 0]
      /\ disk' = IF dirty[b] = 1 /\ ok = 1 THEN [disk EXCEPT ![blockno[b]] = data[b]] ELSE disk
      /\ data' = IF dirty[b] = 0 /\ ok = 1 THEN [data EXCEPT ![b] = disk[blockno[b]]] ELSE data
      /\ pc' = Wakeup(b, pc) /\ idequeue' = Tail(idequeue) /\ cmd' = Idestart(idequeue')
      /\ UNCHANGED <<blockno, busy, lru, want, buf>>
      /\ ok = 0 => blockno[b] \in BadBlocks
  BY Zenon, <1>4 DEF Ideintr, b
<1>6. /\ \A q \in Procs : pc'[q] = IF buf[q] # b THEN pc[q]
                                  ELSE IF pc[q] = "wait" THEN "bget"
                                  ELSE IF pc[q] = "io" THEN "iowoken" ELSE pc[q]
      /\ \A q \in Procs : HasBuffer(q)' <=> HasBuffer(q)
      /\ \A q \in Procs : q # p /\ HasBuffer(q) => buf[q] # b /\ pc'[q] = pc[q]
      /\ pc'[p] = "iowoken"
  <2>1. \A q \in Procs : pc'[q] = IF buf[q] # b THEN pc[q]
                                  ELSE IF pc[q] = "wait" THEN "bget"
                                  ELSE IF pc[q] = "io" THEN "iowoken" ELSE pc[q]
    BY Zenon, <1>5 DEF Wakeup
  <2>2. \A q \in Procs : HasBuffer(q)' <=> HasBuffer(q)
    BY <2>1 DEF HasBuffer
  <2>3. \A q \in Procs : q # p /\ HasBuffer(q) => buf[q] # b
    BY <1>3 DEF Inv, OneCopy, HasBuffer
  <2>. QED
    BY <1>3, <2>1, <2>2, <2>3
<1>7. /\ valid'[b] = 1 /\ dirty'[b] = 0
      /\ \A c \in Buffers : c # b => valid'[c] = valid[c] /\ dirty'[c] = dirty[c] /\ data'[c] = data[c]
      /\ blockno[b] \notin BadBlocks => data'[b] = disk'[blockno[b]]
      /\ \A n \in Blocks : n # blockno[b] => disk'[n] = disk[n]
      /\ valid' \in [Buffers -> Bit] /\ dirty' \in [Buffers -> Bit]
      /\ data' \in [Buffers -> Vals] /\ disk' \in [Blocks -> Vals]
  BY Zenon, <1>2, <1>4, <1>5, BufferFacts DEF Inv, TypeOK, Bit
<1>8. /\ idequeue' # <<>> => cmd' \in [block : Blocks, write : Bit, data : Vals]
                             /\ cmd' # None /\ cmd'.block = blockno[idequeue'[1]]
      /\ idequeue' = <<>> => cmd' = None
      /\ idequeue' # <<>> => cmd' = Idestart(idequeue)'
  <2>. DEFINE h == idequeue'[1]
  <2>1. CASE idequeue' = <<>>
    BY Zenon, <1>5, <2>1 DEF Idestart
  <2>2. CASE idequeue' # <<>>
    <3>1. h \in Buffers /\ h # b /\ h \in Range(idequeue)
      <4>1. h \in Range(idequeue) \ {b} /\ Tail(idequeue) \in Seq(Buffers) /\ Tail(idequeue) # <<>> /\ h = Tail(idequeue)[1]
        BY Zenon, <1>2, <1>5, <2>2
      <4>2. h \in Buffers
        BY Zenon, <1>2, <4>1, LeaveQueue
      <4>. QED
        BY Zenon, <4>1, <4>2
    <3>2. PICK q \in Procs : pc[q] = "io" /\ buf[q] = h
      BY <3>1 DEF Inv, QueueInOrder
    <3>3. blockno[h] \in Blocks
      BY <3>1, <3>2 DEF Inv, HoldersInOrder, HolderInOrder, HasBuffer
    <3>4. cmd' = [block |-> blockno[h], write |-> dirty[h], data |-> data[h]]
      BY <1>5, <2>2 DEF Idestart
    <3>5. Idestart(idequeue)' = [block |-> blockno[h], write |-> dirty[h], data |-> data[h]]
      BY Zenon, <1>5, <1>7, <2>2, <3>1 DEF Idestart
    <3>6. cmd' \in [block : Blocks, write : Bit, data : Vals] /\ cmd'.block = blockno[h]
      <4>. HIDE DEF h
      <4>. QED
        BY <3>1, <3>3, <3>4 DEF Inv, TypeOK
    <3>. QED
      BY <2>2, <3>4, <3>5, <3>6, BufferFacts
  <2>. QED
    BY <2>1, <2>2
<1>9. TypeOK'
  <2>1. pc' \in [Procs -> {"idle", "bget", "wait", "iderw", "io", "iowoken", "hold", "panic"}]
    BY Zenon, <1>5 DEF Inv, TypeOK, Wakeup
  <2>2. cmd' # None => cmd' \in [block : Blocks, write : Bit, data : Vals]
    BY Zenon, <1>8
  <2>. QED
    BY Zenon, <1>2, <1>5, <1>7, <2>1, <2>2 DEF Inv, TypeOK
<1>10. OneCopy'
  BY Zenon, <1>5, <1>6 DEF Inv, OneCopy
<1>11. SleepersWillWake'
  <2>1. ASSUME NEW q \in Procs, pc'[q] = "wait" PROVE busy'[buf'[q]] = 1 /\ blockno'[buf'[q]] = want'[q]
    <3>1. pc[q] = "wait"
      BY ONLY <1>6, <2>1
    <3>. QED
      BY Zenon, <1>5, <3>1 DEF Inv, SleepersWillWake
  <2>2. ASSUME NEW q \in Procs, pc'[q] = "io" PROVE buf'[q] \in Range(idequeue')
    <3>1. pc[q] = "io" /\ buf[q] # b
      BY ONLY <1>6, <2>2
    <3>. QED
      BY Zenon, <1>2, <1>5, <3>1 DEF Inv, SleepersWillWake
  <2>3. idequeue' # <<>> => cmd' # None /\ cmd'.block = blockno'[idequeue'[1]]
    BY Zenon, <1>5, <1>8
  <2>. QED
    BY Zenon, <2>1, <2>2, <2>3 DEF SleepersWillWake
<1>12. HoldersInOrder'
  <2>. SUFFICES ASSUME NEW q \in Procs, HolderInOrder(q) PROVE HolderInOrder(q)'
    BY Zenon DEF Inv, HoldersInOrder
  <2>1. CASE q = p
    <3>1. want[q] \in Blocks /\ busy[b] = 1 /\ blockno[b] = want[q] /\ b \in Buffers
      BY Zenon, <1>3, <2>1 DEF HolderInOrder, HasBuffer
    <3>2. pc'[q] = "iowoken" /\ buf'[q] = b /\ want' = want /\ busy' = busy /\ blockno' = blockno
      BY Zenon, <1>3, <1>5, <1>6, <2>1
    <3>3. valid'[b] = 1 /\ dirty'[b] = 0
      BY Zenon, <1>7
    <3>. QED
      BY ONLY <3>1, <3>2, <3>3 DEF HolderInOrder
  <2>2. CASE q # p /\ HasBuffer(q)
    <3>1. buf[q] \in Buffers /\ buf[q] # b /\ pc'[q] = pc[q]
      BY Zenon, <1>6, <2>2 DEF HolderInOrder
    <3>. QED
      BY Zenon, <1>5, <1>6, <1>7, <3>1, HolderKept
  <2>3. CASE ~HasBuffer(q)
    <3>1. pc'[q] = pc[q] \/ (pc[q] = "wait" /\ pc'[q] = "bget")
      BY ONLY <1>6, <2>3 DEF HasBuffer
    <3>2. want' = want /\ buf' = buf
      BY Zenon, <1>5
    <3>. QED
      BY ONLY HolderInOrder(q), <2>3, <3>1, <3>2 DEF HolderInOrder, HasBuffer
  <2>. QED
    BY Zenon, <2>1, <2>2, <2>3
<1>13. BuffersInOrder'
  <2>. SUFFICES ASSUME NEW c \in Buffers, BufferInOrder(c) PROVE BufferInOrder(c)'
    BY Zenon DEF Inv, BuffersInOrder
  <2>1. (busy[c] = 1)' => (\E q \in Procs : HasBuffer(q) /\ buf[q] = c)'
    BY Zenon, <1>5, <1>6 DEF BufferInOrder
  <2>2. CASE c = b
    <3>1. dirty'[c] = 0 /\ blockno'[c] # None
      BY Zenon, <1>4, <1>5, <1>7, <2>2, BufferFacts
    <3>2. dirty'[c] # 1
      BY ONLY <3>1
    <3>. QED
      BY Zenon, <2>1, <3>1, <3>2 DEF BufferInOrder
  <2>3. CASE c # b
    <3>1. valid'[c] = valid[c] /\ dirty'[c] = dirty[c] /\ blockno' = blockno
      BY Zenon, <1>5, <1>7, <2>3
    <3>. QED
      BY Zenon, <2>1, <3>1 DEF BufferInOrder
  <2>. QED
    BY Zenon, <2>2, <2>3
<1>14. QueueInOrder'
  <2>1. \A c \in Range(idequeue') : \E q \in Procs : pc'[q] = "io" /\ buf'[q] = c
    <3>. SUFFICES ASSUME NEW c \in Range(idequeue), c # b PROVE \E q \in Procs : pc'[q] = "io" /\ buf'[q] = c
      BY Zenon, <1>2, <1>5
    <3>1. PICK q \in Procs : pc[q] = "io" /\ buf[q] = c
      BY Zenon DEF Inv, QueueInOrder
    <3>2. pc'[q] = "io" /\ buf'[q] = c
      BY ONLY <1>5, <1>6, <3>1, c # b
    <3>. QED
      BY Zenon, <3>2
  <2>2. \A c \in Buffers : valid'[c] = 1 /\ dirty'[c] = 0 /\ blockno'[c] \notin BadBlocks
                             => data'[c] = disk'[blockno'[c]]
    <3>. SUFFICES ASSUME NEW c \in Buffers, c # b, valid[c] = 1, dirty[c] = 0, blockno[c] \notin BadBlocks
                  PROVE  data'[c] = disk'[blockno[c]]
      <4>1. blockno' = blockno
        BY Zenon, <1>5
      <4>2. \A c \in Buffers : c # b => valid'[c] = valid[c] /\ dirty'[c] = dirty[c]
        BY Zenon, <1>7
      <4>3. blockno[b] \notin BadBlocks => data'[b] = disk'[blockno[b]]
        BY Zenon, <1>7
      <4>. QED
        BY Zenon, <4>1, <4>2, <4>3
    <3>1. blockno[c] \in Blocks /\ blockno[c] # blockno[b]
      <4>1. blockno[c] # None /\ blockno[c] \in Blocks \cup {None}
        BY Zenon DEF Inv, TypeOK, BuffersInOrder, BufferInOrder
      <4>2. blockno[c] # blockno[b]
        BY Zenon, <1>2, <4>1 DEF Inv, OneCopy
      <4>. QED
        BY Zenon, <4>1, <4>2
    <3>. QED
      BY Zenon, <1>7, <3>1 DEF Inv, QueueInOrder
  <2>. QED
    BY Zenon, <1>8, <2>1, <2>2 DEF QueueInOrder
<1>. QED
  BY Zenon, <1>9, <1>10, <1>11, <1>12, <1>13, <1>14 DEF Inv

LEMMA StutterInv ==
  ASSUME Inv, UNCHANGED vars
  PROVE  Inv'
<1>1. /\ blockno' = blockno /\ busy' = busy /\ valid' = valid /\ dirty' = dirty /\ data' = data
      /\ lru' = lru /\ idequeue' = idequeue /\ cmd' = cmd /\ disk' = disk
      /\ pc' = pc /\ want' = want /\ buf' = buf
  BY DEF vars, flags
<1>2. TypeOK'
  BY Zenon, <1>1 DEF Inv, TypeOK
<1>3. OneCopy'
  BY Zenon, <1>1 DEF Inv, OneCopy, HasBuffer
<1>4. SleepersWillWake'
  BY Zenon, <1>1 DEF Inv, SleepersWillWake
<1>5. HoldersInOrder'
  BY Zenon, <1>1 DEF Inv, HoldersInOrder, HolderInOrder, HasBuffer
<1>6. BuffersInOrder'
  BY Zenon, <1>1 DEF Inv, BuffersInOrder, BufferInOrder, HasBuffer
<1>7. QueueInOrder'
  BY Zenon, <1>1 DEF Inv, QueueInOrder, Idestart
<1>. QED
  BY Zenon, <1>2, <1>3, <1>4, <1>5, <1>6, <1>7 DEF Inv

LEMMA NextInv ==
  ASSUME Inv, [Next]_vars
  PROVE  Inv'
  BY Zenon, BreadInv, BgetHitInv, BgetWaitInv, BgetMissInv, LogWriteInv, BwriteInv, BrelseInv,
     IderwInv, IderwTestInv, IdeintrInv, StutterInv
  DEF Next, Bget

LEMMA InvHolds == Spec => []Inv
  BY InitInv, NextInv, PTL DEF Spec

(* The sleeps of bget and iderw are justified: a process sleeps in bget only for a buffer in use
   that caches the block it wants, and in iderw only for a buffer that the disk, at work, has in
   its queue, so that a brelse or an ideintr to come wakes it. *)
THEOREM SleepersWake == Spec => []SleepersWillWake
<1>1. Inv => SleepersWillWake
  BY DEF Inv
<1>. QED
  BY <1>1, InvHolds, PTL
-----------------------------------------------------------------------------
(* The refinement of LockedBlocks: b caches the contents of block n, and p has block n. *)
Copies(b, n) == blockno[b] = n /\ valid[b] = 1
Holds(p, n) == HasBuffer(p) /\ blockno[buf[p]] = n /\ valid[buf[p]] = 1

(* What the refinement mapping comes to: a block is in at most one buffer and at most one process
   has it, so that the choices in Content and Owner are no choices. *)
Mapping ==
  /\ Content \in [Blocks -> Vals] /\ Owner \in [Blocks -> Procs \cup {None}]
  /\ \A n \in Blocks : \A b \in Buffers : Copies(b, n) => Content[n] = data[b]
  /\ \A n \in Blocks : (\A b \in Buffers : ~Copies(b, n)) => Content[n] = disk[n]
  /\ \A n \in Blocks : \A p \in Procs : Holds(p, n) => Owner[n] = p
  /\ \A n \in Blocks : (\A p \in Procs : ~Holds(p, n)) => Owner[n] = None

LEMMA MappingHolds == Inv => Mapping
<1>. SUFFICES ASSUME Inv PROVE Mapping
  OBVIOUS
<1>. DEFINE copies(n) == {b \in Buffers : blockno[b] = n /\ valid[b] = 1}
            holders(n) == {p \in Procs : HasBuffer(p) /\ blockno[buf[p]] = n /\ valid[buf[p]] = 1}
            value(n) == IF copies(n) = {} THEN disk[n] ELSE data[CHOOSE b \in copies(n) : TRUE]
            holder(n) == IF holders(n) = {} THEN None ELSE CHOOSE p \in holders(n) : TRUE
<1>1. Content = [n \in Blocks |-> value(n)]
  BY Zenon DEF Content
<1>2. Owner = [n \in Blocks |-> holder(n)]
  BY Zenon DEF Owner
<1>3. ASSUME NEW n \in Blocks, NEW b \in Buffers, Copies(b, n) PROVE copies(n) = {b}
  <2>1. n # None
    BY Zenon, BufferFacts
  <2>2. \A c \in Buffers : Copies(c, n) <=> c = b
    BY Zenon, <1>3, <2>1 DEF Copies, Inv, OneCopy
  <2>. QED
    BY <2>2 DEF Copies
<1>4. ASSUME NEW n \in Blocks, \A b \in Buffers : ~Copies(b, n) PROVE copies(n) = {}
  BY Zenon, <1>4 DEF Copies
<1>5. ASSUME NEW n \in Blocks, NEW p \in Procs, Holds(p, n) PROVE holders(n) = {p}
  <2>1. ASSUME NEW q \in Procs, Holds(q, n) PROVE q = p
    <3>1. buf[p] \in Buffers /\ buf[q] \in Buffers /\ n # None
      BY Zenon, <1>5, <2>1, BufferFacts DEF Holds, Inv, HoldersInOrder, HolderInOrder
    <3>2. buf[p] = buf[q]
      BY Zenon, <1>5, <2>1, <3>1 DEF Holds, Inv, OneCopy
    <3>. QED
      BY Zenon, <1>5, <2>1, <3>2 DEF Holds, Inv, OneCopy
  <2>2. \A q \in Procs : Holds(q, n) <=> q = p
    BY Zenon, <1>5, <2>1
  <2>. QED
    BY <2>2 DEF Holds
<1>6. ASSUME NEW n \in Blocks, \A p \in Procs : ~Holds(p, n) PROVE holders(n) = {}
  BY Zenon, <1>6 DEF Holds
<1>7. ASSUME NEW n \in Blocks PROVE value(n) \in Vals /\ holder(n) \in Procs \cup {None}
  <2>1. disk[n] \in Vals /\ \A b \in Buffers : data[b] \in Vals
    BY Zenon DEF Inv, TypeOK
  <2>2. copies(n) # {} => (CHOOSE b \in copies(n) : TRUE) \in Buffers
    BY Zenon
  <2>3. holders(n) # {} => (CHOOSE p \in holders(n) : TRUE) \in Procs
    BY Zenon
  <2>. QED
    BY Zenon, <2>1, <2>2, <2>3
<1>. HIDE DEF copies, holders
<1>8. ASSUME NEW n \in Blocks, NEW b \in Buffers, Copies(b, n) PROVE value(n) = data[b]
  <2>1. copies(n) = {b}
    BY Zenon, <1>3, <1>8
  <2>2. (CHOOSE c \in {b} : TRUE) = b
    OBVIOUS
  <2>. QED
    BY Zenon, <2>1, <2>2
<1>9. ASSUME NEW n \in Blocks, NEW p \in Procs, Holds(p, n) PROVE holder(n) = p
  <2>1. holders(n) = {p}
    BY Zenon, <1>5, <1>9
  <2>2. (CHOOSE q \in {p} : TRUE) = p
    OBVIOUS
  <2>. QED
    BY Zenon, <2>1, <2>2
<1>10. ASSUME NEW n \in Blocks, \A b \in Buffers : ~Copies(b, n) PROVE value(n) = disk[n]
  BY Zenon, <1>4, <1>10
<1>11. ASSUME NEW n \in Blocks, \A p \in Procs : ~Holds(p, n) PROVE holder(n) = None
  BY Zenon, <1>6, <1>11
<1>. HIDE DEF value, holder
<1>12. Content \in [Blocks -> Vals] /\ Owner \in [Blocks -> Procs \cup {None}]
  BY Zenon, <1>1, <1>2, <1>7
<1>13. \A n \in Blocks : Content[n] = value(n) /\ Owner[n] = holder(n)
  BY Zenon, <1>1, <1>2
<1>. QED
  BY Zenon, <1>8, <1>9, <1>10, <1>11, <1>12, <1>13 DEF Mapping

LEMMA MappingNext == Inv' => Mapping'
  BY MappingHolds, PTL

(* Where a step leaves the copy of a block and its holder alone. *)
LEMMA ContentKept ==
  ASSUME Mapping, Mapping', NEW n \in Blocks,
         \A b \in Buffers : Copies(b, n)' <=> Copies(b, n),
         \A b \in Buffers : Copies(b, n) => data'[b] = data[b],
         disk'[n] = disk[n] \/ \E b \in Buffers : Copies(b, n)
  PROVE  Content'[n] = Content[n]
<1>1. CASE \E b \in Buffers : Copies(b, n)
  <2>1. PICK b \in Buffers : Copies(b, n)
    BY <1>1
  <2>2. Content[n] = data[b]
    BY Zenon, <2>1 DEF Mapping
  <2>3. Copies(b, n)'
    BY Zenon, <2>1
  <2>4. Content'[n] = data'[b]
    BY Zenon, <2>3 DEF Mapping
  <2>. QED
    BY Zenon, <2>1, <2>2, <2>4
<1>2. CASE \A b \in Buffers : ~Copies(b, n)
  <2>1. Content[n] = disk[n]
    BY Zenon, <1>2 DEF Mapping
  <2>2. Content'[n] = disk'[n]
    <3>1. \A b \in Buffers : ~Copies(b, n)'
      BY Zenon, <1>2
    <3>. QED
      BY Zenon, <3>1 DEF Mapping
  <2>. QED
    BY Zenon, <1>2, <2>1, <2>2
<1>. QED
  BY Zenon, <1>1, <1>2

LEMMA OwnerKept ==
  ASSUME Mapping, Mapping', NEW n \in Blocks,
         \A p \in Procs : Holds(p, n)' <=> Holds(p, n)
  PROVE  Owner'[n] = Owner[n]
<1>1. CASE \E p \in Procs : Holds(p, n)
  <2>1. PICK p \in Procs : Holds(p, n) /\ Holds(p, n)'
    BY Zenon, <1>1
  <2>2. Owner[n] = p
    BY Zenon, <2>1 DEF Mapping
  <2>3. Owner'[n] = p
    BY Zenon, <2>1 DEF Mapping
  <2>. QED
    BY Zenon, <2>2, <2>3
<1>2. CASE \A p \in Procs : ~Holds(p, n)
  <2>1. Owner[n] = None
    BY Zenon, <1>2 DEF Mapping
  <2>2. \A p \in Procs : ~Holds(p, n)'
    BY Zenon, <1>2
  <2>3. Owner'[n] = None
    BY Zenon, <2>2 DEF Mapping
  <2>. QED
    BY Zenon, <2>1, <2>3
<1>. QED
  BY Zenon, <1>1, <1>2

(* A step that changes nothing of what the mapping shows is a stutter; one that changes only one
   block is determined by what it does to it. *)
LEMMA Unseen ==
  ASSUME Mapping, Mapping', \A n \in Blocks : Content'[n] = Content[n] /\ Owner'[n] = Owner[n]
  PROVE  UNCHANGED Abstract!vars
<1>. DEFINE c == Content
            d == Content'
            o == Owner
            w == Owner'
            V == Procs \cup {None}
<1>1. Content' = Content
  <2>1. c \in [Blocks -> Vals] /\ d \in [Blocks -> Vals] /\ \A n \in Blocks : d[n] = c[n]
    BY Zenon DEF Mapping
  <2>. HIDE DEF c, d
  <2>2. c = d
    BY ONLY <2>1
  <2>. QED
    BY Zenon, <2>2 DEF c, d
<1>2. Owner' = Owner
  <2>1. o \in [Blocks -> V] /\ w \in [Blocks -> V] /\ \A n \in Blocks : w[n] = o[n]
    BY Zenon DEF Mapping
  <2>. HIDE DEF o, w, V
  <2>2. o = w
    BY ONLY <2>1
  <2>. QED
    BY Zenon, <2>2 DEF o, w
<1>. QED
  BY Zenon, <1>1, <1>2 DEF Abstract!vars

LEMMA SeenContent ==
  ASSUME Mapping, Mapping', NEW n \in Blocks, \A m \in Blocks \ {n} : Content'[m] = Content[m]
  PROVE  Content' = [Content EXCEPT ![n] = Content'[n]]
<1>. DEFINE c == Content
            d == Content'
<1>1. c \in [Blocks -> Vals] /\ d \in [Blocks -> Vals]
  BY Zenon DEF Mapping
<1>2. \A m \in Blocks \ {n} : d[m] = c[m]
  OBVIOUS
<1>. HIDE DEF c, d
<1>3. d = [c EXCEPT ![n] = d[n]]
  BY ONLY <1>1, <1>2, n \in Blocks
<1>. QED
  BY Zenon, <1>3 DEF c, d

LEMMA SeenOwner ==
  ASSUME Mapping, Mapping', NEW n \in Blocks, \A m \in Blocks \ {n} : Owner'[m] = Owner[m]
  PROVE  Owner' = [Owner EXCEPT ![n] = Owner'[n]]
<1>. DEFINE c == Owner
            d == Owner'
            V == Procs \cup {None}
<1>1. c \in [Blocks -> V] /\ d \in [Blocks -> V]
  BY Zenon DEF Mapping
<1>2. \A m \in Blocks \ {n} : d[m] = c[m]
  OBVIOUS
<1>. HIDE DEF c, d, V
<1>3. d = [c EXCEPT ![n] = d[n]]
  BY ONLY <1>1, <1>2, n \in Blocks
<1>. QED
  BY Zenon, <1>3 DEF c, d

(* bread's call, the sleeps and the steps of iderw show nothing, and so does bget when it has no
   contents yet: no copy changes and no block with contents changes hands. *)
LEMMA Quiet ==
  ASSUME Mapping, Mapping', UNCHANGED <<blockno, valid, data, disk>>,
         \A q \in Procs : HasBuffer(q) => HasBuffer(q)' /\ buf'[q] = buf[q],
         \A q \in Procs : HasBuffer(q)' /\ ~HasBuffer(q) => valid[buf'[q]] = 0
  PROVE  UNCHANGED Abstract!vars
<1>. SUFFICES ASSUME NEW n \in Blocks PROVE Content'[n] = Content[n] /\ Owner'[n] = Owner[n]
  BY Zenon, Unseen
<1>1. Content'[n] = Content[n]
  <2>1. \A b \in Buffers : Copies(b, n)' <=> Copies(b, n)
    BY Zenon DEF Copies
  <2>2. data' = data /\ disk' = disk
    OBVIOUS
  <2>. QED
    BY Zenon, <2>1, <2>2, ContentKept
<1>2. ASSUME NEW q \in Procs PROVE Holds(q, n)' <=> Holds(q, n)
  <2>1. blockno' = blockno /\ valid' = valid
    OBVIOUS
  <2>2. CASE HasBuffer(q)
    BY Zenon, <2>1, <2>2 DEF Holds
  <2>3. CASE ~HasBuffer(q)
    <3>1. HasBuffer(q)' => valid'[buf'[q]] # 1
      <4>1. HasBuffer(q)' => valid[buf'[q]] = 0
        BY Zenon, <2>3
      <4>. QED
        BY ONLY <2>1, <4>1
    <3>. QED
      BY Zenon, <2>3, <3>1 DEF Holds
  <2>. QED
    BY Zenon, <2>2, <2>3
<1>. QED
  BY Zenon, <1>1, <1>2, OwnerKept

LEMMA BreadMap ==
  ASSUME Inv, Mapping, Mapping', NEW p \in Procs, NEW n \in Blocks, Bread(p, n)
  PROVE  UNCHANGED Abstract!vars
<1>1. UNCHANGED <<blockno, valid, data, disk>> /\ buf' = buf
  BY Zenon DEF Bread, flags
<1>2. \A q \in Procs : HasBuffer(q)' <=> HasBuffer(q)
  BY DEF Bread, Inv, TypeOK, HasBuffer
<1>. QED
  BY Zenon, <1>1, <1>2, Quiet

LEMMA BgetWaitMap ==
  ASSUME Inv, Mapping, Mapping', NEW p \in Procs, NEW b \in Buffers, BgetWait(p, b)
  PROVE  UNCHANGED Abstract!vars
<1>1. UNCHANGED <<blockno, valid, data, disk>>
  BY Zenon DEF BgetWait, flags
<1>2. \A q \in Procs : (HasBuffer(q)' <=> HasBuffer(q)) /\ (HasBuffer(q) => buf'[q] = buf[q])
  BY DEF BgetWait, Inv, TypeOK, HasBuffer
<1>. QED
  BY Zenon, <1>1, <1>2, Quiet

(* iderw is called with a buffer that has something to read or to write, and sleeps. *)
LEMMA IderwSleeps ==
  ASSUME Inv, NEW p \in Procs, Iderw(p)
  PROVE  pc[p] = "iderw" /\ pc' = [pc EXCEPT ![p] = "io"]
<1>1. pc[p] = "iderw"
  BY Zenon DEF Iderw
<1>2. HolderInOrder(p)
  BY Zenon DEF Inv, HoldersInOrder
<1>3. ~(busy[buf[p]] = 0 \/ (valid[buf[p]] = 1 /\ dirty[buf[p]] = 0))
  BY ONLY <1>1, <1>2 DEF HolderInOrder, HasBuffer
<1>. QED
  BY Zenon, <1>1, <1>3 DEF Iderw

LEMMA IderwMap ==
  ASSUME Inv, Mapping, Mapping', NEW p \in Procs, Iderw(p)
  PROVE  UNCHANGED Abstract!vars
<1>1. UNCHANGED <<blockno, valid, data, disk>> /\ buf' = buf /\ pc[p] = "iderw"
  BY Zenon DEF Iderw, flags
<1>2. pc' = [pc EXCEPT ![p] = "io"]
  BY Zenon, IderwSleeps
<1>3. \A q \in Procs : HasBuffer(q)' <=> HasBuffer(q)
  BY <1>1, <1>2 DEF Inv, TypeOK, HasBuffer
<1>. QED
  BY Zenon, <1>1, <1>3, Quiet

LEMMA IderwTestMap ==
  ASSUME Inv, Mapping, Mapping', NEW p \in Procs, IderwTest(p)
  PROVE  UNCHANGED Abstract!vars
<1>1. UNCHANGED <<blockno, valid, data, disk>> /\ buf' = buf /\ pc[p] = "iowoken"
  BY Zenon DEF IderwTest, flags
<1>2. \A q \in Procs : HasBuffer(q)' <=> HasBuffer(q)
  BY <1>1 DEF Inv, TypeOK, HasBuffer, IderwTest
<1>. QED
  BY Zenon, <1>1, <1>2, Quiet

(* The mapping in the state after a step *)
LEMMA HolderIsOwner ==
  ASSUME Mapping', NEW p, p \in Procs, NEW n, n \in Blocks, Holds(p, n)'
  PROVE  Owner'[n] = p
  BY Zenon DEF Mapping

(* bget finds the contents of the block in the cache: it locks the block. *)
LEMMA BgetHitMap ==
  ASSUME Inv, Mapping, Mapping', NEW p \in Procs, NEW b \in Buffers, BgetHit(p, b)
  PROVE  [Abstract!Next]_Abstract!vars
<1>0. want[p] \in Blocks
  BY Zenon DEF BgetHit, Inv, HoldersInOrder, HolderInOrder
<1>. PICK n \in Blocks : n = want[p]
  BY Zenon, <1>0
<1>1. /\ UNCHANGED <<blockno, valid, data, disk>> /\ pc[p] = "bget"
      /\ blockno[b] = n /\ busy[b] = 0 /\ buf' = [buf EXCEPT ![p] = b]
      /\ pc' = [pc EXCEPT ![p] = IF valid[b] = 1 THEN "hold" ELSE "iderw"]
  BY Zenon DEF BgetHit, Cached
<1>2. /\ \A q \in Procs : q # p => (HasBuffer(q)' <=> HasBuffer(q)) /\ buf'[q] = buf[q]
      /\ HasBuffer(p)' /\ ~HasBuffer(p) /\ buf'[p] = b
  BY <1>1 DEF Inv, TypeOK, HasBuffer
<1>3. CASE valid[b] # 1
  <2>1. valid[b] = 0
    BY <1>3 DEF Inv, TypeOK, Bit
  <2>2. UNCHANGED Abstract!vars
    BY Zenon, <1>1, <1>2, <2>1, Quiet
  <2>. QED
    BY Zenon, <2>2
<1>4. CASE valid[b] = 1
  <2>1. \A m \in Blocks : Content'[m] = Content[m]
    <3>1. \A m \in Blocks : \A c \in Buffers : Copies(c, m)' <=> Copies(c, m)
      BY Zenon, <1>1 DEF Copies
    <3>2. data' = data /\ disk' = disk
      BY Zenon, <1>1
    <3>. QED
      BY Zenon, <3>1, <3>2, ContentKept
  <2>2. \A m \in Blocks \ {n} : Owner'[m] = Owner[m]
    <3>1. \A m \in Blocks \ {n} : \A q \in Procs : Holds(q, m)' <=> Holds(q, m)
      BY Zenon, <1>1, <1>2 DEF Holds
    <3>. QED
      BY Zenon, <3>1, OwnerKept
  <2>3. Owner[n] = None
    <3>1. ASSUME NEW q \in Procs, Holds(q, n) PROVE FALSE
      <4>1. buf[q] \in Buffers /\ busy[buf[q]] = 1 /\ blockno[buf[q]] = blockno[b] /\ blockno[b] # None
        BY Zenon, <1>1, <3>1, BufferFacts DEF Holds, Inv, HoldersInOrder, HolderInOrder
      <4>2. buf[q] = b
        BY Zenon, <4>1 DEF Inv, OneCopy
      <4>. QED
        BY ONLY <1>1, <4>1, <4>2
    <3>. QED
      BY Zenon, <1>1, <3>1 DEF Mapping
  <2>4. Owner'[n] = p
    <3>1. Holds(p, n)'
      <4>1. blockno'[b] = n /\ valid'[b] = 1
        BY Zenon, <1>1, <1>4
      <4>2. HasBuffer(p)' /\ buf'[p] = b
        BY Zenon, <1>2
      <4>. QED
        BY Zenon, <4>1, <4>2 DEF Holds
    <3>. QED
      BY Zenon, <1>1, <3>1, HolderIsOwner
  <2>5. Owner' = [Owner EXCEPT ![n] = p]
    BY Zenon, <1>1, <2>2, <2>4, SeenOwner
  <2>6. Content' = [Content EXCEPT ![n] = Content[n]]
    BY Zenon, <1>1, <2>1, SeenContent
  <2>7. Abstract!Lock(p, n)
    BY Zenon, <2>3, <2>5, <2>6 DEF Abstract!Lock
  <2>. QED
    BY Zenon, <1>1, <2>7 DEF Abstract!Next
<1>. QED
  BY Zenon, <1>3, <1>4

(* bget recycles a buffer: a clean copy is lost, which shows only on a bad block. *)
LEMMA BgetMissMap ==
  ASSUME Inv, Mapping, Mapping', NEW p \in Procs, BgetMiss(p)
  PROVE  [Abstract!Next]_Abstract!vars
<1>. DEFINE usable == {i \in Buffers : Recyclable(lru[i])}
            b == lru[Max(usable)]
<1>0. pc[p] = "bget" /\ \A c \in Buffers : blockno[c] # want[p]
  BY Zenon DEF BgetMiss, Cached
<1>1. CASE usable = {}
  <2>1. UNCHANGED <<blockno, valid, data, disk>> /\ buf' = buf /\ pc' = [pc EXCEPT ![p] = "panic"]
    BY Zenon, <1>1 DEF BgetMiss
  <2>2. \A q \in Procs : HasBuffer(q)' <=> HasBuffer(q)
    BY <1>0, <2>1 DEF Inv, TypeOK, HasBuffer
  <2>. QED
    BY Zenon, <2>1, <2>2, Quiet
<1>2. CASE usable # {}
  <2>0. lru[Max(usable)] \in Buffers /\ busy[lru[Max(usable)]] = 0 /\ dirty[lru[Max(usable)]] = 0
    <3>1. Max(usable) \in usable
      BY <1>2, MaxInSet
    <3>. QED
      BY <3>1 DEF Inv, TypeOK, Recyclable
  <2>. PICK c \in Buffers : c = b
    BY Zenon, <2>0
  <2>1. /\ busy[c] = 0 /\ dirty[c] = 0 /\ UNCHANGED <<data, disk>>
        /\ pc' = [pc EXCEPT ![p] = "iderw"] /\ buf' = [buf EXCEPT ![p] = c]
        /\ blockno' = [blockno EXCEPT ![c] = want[p]] /\ valid' = [valid EXCEPT ![c] = 0]
    BY Zenon, <1>2, <2>0 DEF BgetMiss
  <2>. HIDE DEF b, usable
  <2>2. /\ \A q \in Procs : q # p => (HasBuffer(q)' <=> HasBuffer(q)) /\ buf'[q] = buf[q]
        /\ HasBuffer(p)' /\ ~HasBuffer(p) /\ buf'[p] = c
    BY <1>0, <2>1 DEF Inv, TypeOK, HasBuffer
  <2>3. /\ \A d \in Buffers : d # c => blockno'[d] = blockno[d] /\ valid'[d] = valid[d]
        /\ valid'[c] = 0 /\ valid'[c] # 1
    BY <2>1 DEF Inv, TypeOK
  <2>4. \A q \in Procs : HasBuffer(q) => buf[q] # c /\ buf[q] \in Buffers
    <3>1. \A q \in Procs : HasBuffer(q) => buf[q] \in Buffers /\ busy[buf[q]] = 1
      BY Zenon DEF Inv, HoldersInOrder, HolderInOrder
    <3>. QED
      BY ONLY <2>1, <3>1
  <2>5. ASSUME NEW m \in Blocks PROVE Owner'[m] = Owner[m]
    <3>1. ASSUME NEW q \in Procs PROVE Holds(q, m)' <=> Holds(q, m)
      <4>1. CASE q = p
        BY Zenon, <2>2, <2>3, <4>1 DEF Holds
      <4>2. CASE q # p
        BY Zenon, <2>2, <2>3, <2>4, <4>2 DEF Holds
      <4>. QED
        BY Zenon, <4>1, <4>2
    <3>. QED
      BY Zenon, <3>1, OwnerKept
  <2>6. ASSUME NEW m \in Blocks, ~Copies(c, m) PROVE Content'[m] = Content[m]
    <3>1. \A d \in Buffers : Copies(d, m)' <=> Copies(d, m)
      BY Zenon, <2>3, <2>6 DEF Copies
    <3>2. data' = data /\ disk' = disk
      BY Zenon, <2>1
    <3>. QED
      BY Zenon, <3>1, <3>2, ContentKept
  <2>7. CASE \A m \in Blocks : ~Copies(c, m)
    BY Zenon, <2>5, <2>6, <2>7, Unseen
  <2>8. ASSUME NEW n \in Blocks, Copies(c, n) PROVE [Abstract!Next]_Abstract!vars
    <3>1. \A m \in Blocks \ {n} : ~Copies(c, m)
      BY Zenon, <2>8 DEF Copies
    <3>2. \A d \in Buffers : ~Copies(d, n)'
      <4>1. \A d \in Buffers : d # c => ~Copies(d, n)
        BY Zenon, <2>8, BufferFacts DEF Copies, Inv, OneCopy
      <4>. QED
        BY Zenon, <2>3, <4>1 DEF Copies
    <3>3. Content[n] = data[c] /\ Content'[n] = disk[n] /\ disk[n] \in Vals
      <4>1. Content[n] = data[c]
        BY Zenon, <2>8 DEF Mapping
      <4>2. Content'[n] = disk'[n]
        BY Zenon, <3>2 DEF Mapping
      <4>. QED
        BY Zenon, <2>1, <4>1, <4>2 DEF Inv, TypeOK
    <3>4. CASE n \notin BadBlocks
      <4>1. data[c] = disk[n]
        BY Zenon, <2>1, <2>8, <3>4 DEF Inv, QueueInOrder, Copies
      <4>. QED
        BY Zenon, <2>5, <2>6, <3>1, <3>3, <4>1, Unseen
    <3>5. CASE n \in BadBlocks
      <4>1. Content' = [Content EXCEPT ![n] = disk[n]]
        BY Zenon, <2>6, <3>1, <3>3, SeenContent
      <4>2. Owner[n] = None
        <5>1. ASSUME NEW q \in Procs, Holds(q, n) PROVE FALSE
          <6>1. blockno[buf[q]] = blockno[c] /\ blockno[c] # None /\ buf[q] \in Buffers /\ buf[q] # c
            BY Zenon, <2>4, <2>8, <5>1, BufferFacts DEF Holds, Copies
          <6>. QED
            BY Zenon, <6>1 DEF Inv, OneCopy
        <5>. QED
          BY Zenon, <5>1 DEF Mapping
      <4>3. Owner' = Owner
        <5>1. Owner' = [Owner EXCEPT ![n] = Owner[n]]
          BY Zenon, <2>5, SeenOwner
        <5>2. Owner \in [Blocks -> Procs \cup {None}]
          BY Zenon DEF Mapping
        <5>. QED
          BY Zenon, <5>1, <5>2
      <4>4. Abstract!Decay(n)
        BY Zenon, <3>3, <3>5, <4>1, <4>2, <4>3 DEF Abstract!Decay
      <4>. QED
        BY Zenon, <4>4 DEF Abstract!Next
    <3>. QED
      BY Zenon, <3>4, <3>5
  <2>. QED
    BY Zenon, <2>7, <2>8
<1>. QED
  BY Zenon, <1>1, <1>2

(* The holder changes the block, for the log or to write it through. *)
LEMMA SetMap ==
  ASSUME Inv, Mapping, Mapping', NEW p \in Procs, NEW v \in Vals, LogWrite(p, v) \/ Bwrite(p, v)
  PROVE  [Abstract!Next]_Abstract!vars
<1>1. /\ UNCHANGED <<blockno, valid, disk, buf>> /\ pc[p] = "hold"
      /\ data' = [data EXCEPT ![buf[p]] = v]
      /\ pc' = pc \/ pc' = [pc EXCEPT ![p] = "iderw"]
  BY Zenon DEF LogWrite, Bwrite
<1>2. want[p] \in Blocks /\ buf[p] \in Buffers /\ blockno[buf[p]] = want[p] /\ valid[buf[p]] = 1
  BY Zenon, <1>1 DEF Inv, HoldersInOrder, HolderInOrder, HasBuffer
<1>3. PICK n \in Blocks, b \in Buffers : n = want[p] /\ b = buf[p]
  BY Zenon, <1>2
<1>4. HasBuffer(p) /\ \A q \in Procs : HasBuffer(q)' <=> HasBuffer(q)
  BY <1>1 DEF Inv, TypeOK, HasBuffer
<1>5. /\ \A c \in Buffers : c # b => data'[c] = data[c]
      /\ data'[b] = v
  BY <1>1, <1>3 DEF Inv, TypeOK
<1>6. \A m \in Blocks : \A c \in Buffers : Copies(c, m)' <=> Copies(c, m)
  BY Zenon, <1>1 DEF Copies
<1>7. Copies(b, n) /\ Holds(p, n)
  BY Zenon, <1>2, <1>3, <1>4 DEF Copies, Holds
<1>8. \A m \in Blocks : Owner'[m] = Owner[m]
  <2>1. \A m \in Blocks : \A q \in Procs : Holds(q, m)' <=> Holds(q, m)
    BY Zenon, <1>1, <1>4 DEF Holds
  <2>. QED
    BY Zenon, <2>1, OwnerKept
<1>9. \A m \in Blocks \ {n} : Content'[m] = Content[m]
  <2>1. \A m \in Blocks \ {n} : ~Copies(b, m)
    BY Zenon, <1>7 DEF Copies
  <2>2. \A m \in Blocks \ {n} : \A c \in Buffers : Copies(c, m) => data'[c] = data[c]
    BY Zenon, <1>5, <2>1
  <2>3. disk' = disk
    BY Zenon, <1>1
  <2>. QED
    BY Zenon, <1>6, <2>2, <2>3, ContentKept
<1>10. Content'[n] = v
  <2>1. Copies(b, n)'
    BY Zenon, <1>6, <1>7
  <2>2. Content'[n] = data'[b]
    BY Zenon, <2>1 DEF Mapping
  <2>. QED
    BY Zenon, <1>5, <2>2
<1>11. Owner[n] = p
  BY Zenon, <1>7 DEF Mapping
<1>12. Content' = [Content EXCEPT ![n] = v]
  BY Zenon, <1>9, <1>10, SeenContent
<1>13. Owner' = Owner
  <2>1. Owner' = [Owner EXCEPT ![n] = Owner[n]]
    BY Zenon, <1>8, SeenOwner
  <2>2. Owner \in [Blocks -> Procs \cup {None}]
    BY Zenon DEF Mapping
  <2>. QED
    BY Zenon, <2>1, <2>2
<1>14. Abstract!Set(p, n, v)
  BY Zenon, <1>11, <1>12, <1>13 DEF Abstract!Set
<1>. QED
  BY Zenon, <1>14 DEF Abstract!Next

(* brelse gives the block up. *)
LEMMA BrelseMap ==
  ASSUME Inv, Mapping, Mapping', NEW p \in Procs, Brelse(p)
  PROVE  [Abstract!Next]_Abstract!vars
<1>1. /\ UNCHANGED <<blockno, valid, data, disk>> /\ pc[p] = "hold"
      /\ buf' = [buf EXCEPT ![p] = None]
      /\ pc' = Wakeup(buf[p], [pc EXCEPT ![p] = "idle"])
  BY Zenon DEF Brelse
<1>2. HasBuffer(p) /\ want[p] \in Blocks /\ blockno[buf[p]] = want[p] /\ valid[buf[p]] = 1
  BY Zenon, <1>1 DEF Inv, HoldersInOrder, HolderInOrder, HasBuffer
<1>3. PICK n \in Blocks : n = want[p]
  BY Zenon, <1>2
<1>4. /\ \A q \in Procs : q # p => (HasBuffer(q)' <=> HasBuffer(q)) /\ buf'[q] = buf[q]
      /\ ~HasBuffer(p)'
  <2>1. \A q \in Procs : q # p => buf'[q] = buf[q]
    BY <1>1 DEF Inv, TypeOK
  <2>2. \A q \in Procs : q # p /\ HasBuffer(q) => buf[q] # buf[p]
    BY Zenon, <1>2 DEF Inv, OneCopy
  <2>3. /\ \A q \in Procs : q # p => pc'[q] = IF buf[q] # buf[p] THEN pc[q]
                                              ELSE IF pc[q] = "wait" THEN "bget"
                                              ELSE IF pc[q] = "io" THEN "iowoken" ELSE pc[q]
        /\ pc'[p] = "idle"
    BY <1>1 DEF Inv, TypeOK, Wakeup
  <2>4. \A q \in Procs : q # p => (HasBuffer(q)' <=> HasBuffer(q))
    BY ONLY <2>2, <2>3 DEF HasBuffer
  <2>5. ~HasBuffer(p)'
    BY ONLY <2>3 DEF HasBuffer
  <2>. QED
    BY Zenon, <2>1, <2>4, <2>5
<1>5. \A m \in Blocks : Content'[m] = Content[m]
  <2>1. \A m \in Blocks : \A c \in Buffers : Copies(c, m)' <=> Copies(c, m)
    BY Zenon, <1>1 DEF Copies
  <2>2. data' = data /\ disk' = disk
    BY Zenon, <1>1
  <2>. QED
    BY Zenon, <2>1, <2>2, ContentKept
<1>6. Holds(p, n) /\ \A m \in Blocks : ~Holds(p, m)' /\ (m # n => ~Holds(p, m))
  BY Zenon, <1>2, <1>3, <1>4 DEF Holds
<1>7. \A m \in Blocks : \A q \in Procs : q # p => (Holds(q, m)' <=> Holds(q, m))
  BY Zenon, <1>1, <1>4 DEF Holds
<1>8. \A m \in Blocks \ {n} : Owner'[m] = Owner[m]
  <2>1. \A m \in Blocks \ {n} : \A q \in Procs : Holds(q, m)' <=> Holds(q, m)
    BY Zenon, <1>6, <1>7
  <2>. QED
    BY Zenon, <2>1, OwnerKept
<1>9. Owner[n] = p
  BY Zenon, <1>6 DEF Mapping
<1>10. Owner'[n] = None
  <2>1. ASSUME NEW q \in Procs, Holds(q, n)' PROVE FALSE
    <3>1. q # p /\ Holds(q, n)
      BY Zenon, <1>6, <1>7, <2>1
    <3>2. Owner[n] = q
      BY Zenon, <3>1 DEF Mapping
    <3>. QED
      BY Zenon, <1>9, <3>1, <3>2
  <2>. QED
    BY Zenon, <2>1 DEF Mapping
<1>11. Owner' = [Owner EXCEPT ![n] = None]
  BY Zenon, <1>8, <1>10, SeenOwner
<1>12. Content' = Content
  <2>1. Content' = [Content EXCEPT ![n] = Content[n]]
    BY Zenon, <1>5, SeenContent
  <2>2. Content \in [Blocks -> Vals]
    BY Zenon DEF Mapping
  <2>. QED
    BY Zenon, <2>1, <2>2
<1>13. Abstract!Unlock(p, n)
  BY Zenon, <1>9, <1>11, <1>12 DEF Abstract!Unlock
<1>. QED
  BY Zenon, <1>13 DEF Abstract!Next

(* The disk answers.  A read gives its caller the block, with anything in it if the disk failed;
   a write changes no contents, for the copy in the cache counts. *)
LEMMA IdeintrMap ==
  ASSUME Inv, Mapping, Mapping', NEW ok \in Bit, Ideintr(ok)
  PROVE  [Abstract!Next]_Abstract!vars
<1>1. idequeue # <<>> /\ cmd = Idestart(idequeue) /\ cmd # None
  BY Zenon DEF Inv, QueueInOrder, Ideintr
<1>2. Head(idequeue) = idequeue[1] /\ idequeue[1] \in Buffers /\ idequeue[1] \in Range(idequeue)
  <2>1. idequeue \in Seq(Buffers) /\ IsInjective(idequeue)
    BY Zenon DEF Inv, TypeOK
  <2>. QED
    BY Zenon, <1>1, <2>1, LeaveQueue
<1>3. PICK b \in Buffers : b = idequeue[1]
  BY Zenon, <1>2
<1>4. PICK p \in Procs : pc[p] = "io" /\ buf[p] = b
  BY Zenon, <1>2, <1>3 DEF Inv, QueueInOrder
<1>5. want[p] \in Blocks /\ blockno[b] = want[p] /\ (valid[b] = 0 \/ dirty[b] = 1) /\ HasBuffer(p)
  BY Zenon, <1>4 DEF Inv, HoldersInOrder, HolderInOrder, HasBuffer
<1>6. PICK n \in Blocks : n = blockno[b]
  BY Zenon, <1>5
<1>7. cmd.block = n /\ cmd.write = dirty[b] /\ cmd.data = data[b]
  BY Zenon, <1>1, <1>3, <1>6 DEF Idestart
<1>8. /\ valid' = [valid EXCEPT ![b] = 1] /\ pc' = Wakeup(b, pc)
      /\ disk' = IF dirty[b] = 1 /\ ok = 1 THEN [disk EXCEPT ![n] = data[b]] ELSE disk
      /\ data' = IF dirty[b] = 0 /\ ok = 1 THEN [data EXCEPT ![b] = disk[n]] ELSE data
      /\ blockno' = blockno /\ buf' = buf
      /\ ok = 0 => n \in BadBlocks
  BY Zenon, <1>2, <1>3, <1>7 DEF Ideintr
<1>9. \A q \in Procs : HasBuffer(q)' <=> HasBuffer(q)
  <2>1. \A q \in Procs : pc'[q] = IF buf[q] # b THEN pc[q]
                                  ELSE IF pc[q] = "wait" THEN "bget"
                                  ELSE IF pc[q] = "io" THEN "iowoken" ELSE pc[q]
    BY Zenon, <1>8 DEF Wakeup
  <2>. QED
    BY ONLY <2>1 DEF HasBuffer
<1>10. /\ \A c \in Buffers : c # b => valid'[c] = valid[c] /\ data'[c] = data[c]
       /\ valid'[b] = 1
       /\ \A m \in Blocks : m # n => disk'[m] = disk[m]
       /\ data'[b] \in Vals /\ disk'[n] \in Vals
  BY Zenon, <1>8 DEF Inv, TypeOK
<1>11. \A c \in Buffers : blockno[c] = n => c = b
  BY Zenon, <1>6, BufferFacts DEF Inv, OneCopy
<1>12. \A m \in Blocks \ {n} : Content'[m] = Content[m]
  <2>. SUFFICES ASSUME NEW m \in Blocks \ {n} PROVE Content'[m] = Content[m]
    OBVIOUS
  <2>1. ~Copies(b, m) /\ ~Copies(b, m)'
    BY Zenon, <1>6, <1>8 DEF Copies
  <2>2. \A c \in Buffers : Copies(c, m)' <=> Copies(c, m)
    BY Zenon, <1>8, <1>10, <2>1 DEF Copies
  <2>3. \A c \in Buffers : Copies(c, m) => data'[c] = data[c]
    BY Zenon, <1>10, <2>1
  <2>4. disk'[m] = disk[m]
    BY Zenon, <1>10
  <2>. QED
    BY Zenon, <2>2, <2>3, <2>4, ContentKept
<1>13. \A m \in Blocks \ {n} : Owner'[m] = Owner[m]
  <2>1. ASSUME NEW m \in Blocks \ {n}, NEW q \in Procs PROVE Holds(q, m)' <=> Holds(q, m)
    <3>1. CASE ~HasBuffer(q)
      BY Zenon, <1>9, <3>1 DEF Holds
    <3>2. CASE HasBuffer(q)
      <4>1. buf[q] \in Buffers
        BY Zenon, <3>2 DEF Inv, HoldersInOrder, HolderInOrder
      <4>2. CASE buf[q] = b
        BY Zenon, <1>6, <1>8, <4>2 DEF Holds
      <4>3. CASE buf[q] # b
        BY Zenon, <1>8, <1>9, <1>10, <4>1, <4>3 DEF Holds
      <4>. QED
        BY Zenon, <4>2, <4>3
    <3>. QED
      BY Zenon, <3>1, <3>2
  <2>. QED
    BY Zenon, <2>1, OwnerKept
<1>14. Content'[n] = data'[b] /\ Owner'[n] = p
  <2>1. Copies(b, n)'
    BY Zenon, <1>6, <1>8, <1>10 DEF Copies
  <2>2. Holds(p, n)'
    <3>1. HasBuffer(p)' /\ buf'[p] = b
      BY Zenon, <1>4, <1>5, <1>8, <1>9
    <3>. QED
      BY Zenon, <2>1, <3>1 DEF Copies, Holds
  <2>3. Content'[n] = data'[b]
    BY Zenon, <2>1 DEF Mapping
  <2>. QED
    BY Zenon, <2>2, <2>3, HolderIsOwner
<1>15. CASE dirty[b] = 1
  <2>1. data' = data
    <3>1. dirty[b] # 0
      BY ONLY <1>15
    <3>. QED
      BY Zenon, <1>8, <3>1
  <2>2. valid[b] = 1
    BY Zenon, <1>15 DEF Inv, BuffersInOrder, BufferInOrder
  <2>3. Content[n] = data[b]
    BY Zenon, <1>6, <2>2 DEF Copies, Mapping
  <2>4. Owner[n] = p
    BY Zenon, <1>4, <1>5, <1>6, <2>2 DEF Holds, Mapping
  <2>. QED
    BY Zenon, <1>12, <1>13, <1>14, <2>1, <2>3, <2>4, Unseen
<1>16. CASE dirty[b] # 1
  <2>1. dirty[b] = 0 /\ valid[b] = 0 /\ valid[b] # 1
    <3>1. dirty[b] \in {0, 1}
      BY Zenon DEF Inv, TypeOK, Bit
    <3>. QED
      BY ONLY <1>5, <1>16, <3>1
  <2>2. Content[n] = disk[n]
    <3>1. \A c \in Buffers : ~Copies(c, n)
      BY Zenon, <1>11, <2>1 DEF Copies
    <3>. QED
      BY Zenon, <3>1 DEF Mapping
  <2>3. Owner[n] = None
    <3>1. ASSUME NEW q \in Procs, Holds(q, n) PROVE FALSE
      <4>1. buf[q] \in Buffers
        BY Zenon, <3>1 DEF Holds, Inv, HoldersInOrder, HolderInOrder
      <4>. QED
        BY Zenon, <1>11, <2>1, <3>1, <4>1 DEF Holds
    <3>. QED
      BY Zenon, <3>1 DEF Mapping
  <2>4. Content' = [Content EXCEPT ![n] = data'[b]] /\ Owner' = [Owner EXCEPT ![n] = p]
    BY Zenon, <1>12, <1>13, <1>14, SeenContent, SeenOwner
  <2>5. data'[b] \in {Content[n]} \cup (IF n \in BadBlocks THEN Vals ELSE {})
    <3>1. CASE n \in BadBlocks
      BY Zenon, <1>10, <3>1
    <3>2. CASE n \notin BadBlocks
      <4>1. ok = 1
        BY <1>8, <3>2 DEF Bit
      <4>2. data' = [data EXCEPT ![b] = disk[n]]
        BY Zenon, <1>8, <2>1, <4>1
      <4>3. data'[b] = disk[n]
        BY Zenon, <4>2 DEF Inv, TypeOK
      <4>. QED
        BY Zenon, <2>2, <4>3
    <3>. QED
      BY Zenon, <3>1, <3>2
  <2>6. Abstract!Lock(p, n)
    BY Zenon, <2>3, <2>4, <2>5 DEF Abstract!Lock
  <2>. QED
    BY Zenon, <2>6 DEF Abstract!Next
<1>. QED
  BY Zenon, <1>15, <1>16

(* The buffer cache implements locked blocks: every step of bget, brelse, bwrite, log_write, iderw
   and ideintr locks a block, changes one that its process holds, gives one up, lets a bad block
   decay, or shows nothing. *)
THEOREM BlocksRefined == Spec => BlocksAreLocked
<1>1. Init => Abstract!Init
  <2>. SUFFICES ASSUME Init PROVE Abstract!Init
    OBVIOUS
  <2>1. Mapping
    BY InitInv, MappingHolds
  <2>2. \A n \in Blocks : Owner[n] = None
    <3>1. \A q \in Procs : ~HasBuffer(q)
      BY DEF Init, HasBuffer
    <3>2. \A n \in Blocks : \A q \in Procs : ~Holds(q, n)
      BY Zenon, <3>1 DEF Holds
    <3>. QED
      BY Zenon, <2>1, <3>2 DEF Mapping
  <2>3. Owner = [n \in Blocks |-> None]
    <3>. DEFINE o == Owner
                V == Procs \cup {None}
    <3>1. o \in [Blocks -> V] /\ \A n \in Blocks : o[n] = None
      BY Zenon, <2>1, <2>2 DEF Mapping
    <3>. HIDE DEF o, V
    <3>2. o = [n \in Blocks |-> None]
      BY ONLY <3>1
    <3>. QED
      BY Zenon, <3>2 DEF o
  <2>. QED
    BY Zenon, <2>1, <2>3 DEF Mapping, Abstract!Init
<1>2. Inv /\ Inv' /\ [Next]_vars => [Abstract!Next]_Abstract!vars
  <2>. SUFFICES ASSUME Inv, Inv', [Next]_vars PROVE [Abstract!Next]_Abstract!vars
    OBVIOUS
  <2>1. Mapping /\ Mapping'
    BY Zenon, MappingHolds, MappingNext
  <2>2. CASE Next
    BY Zenon, <2>1, <2>2, BreadMap, BgetHitMap, BgetWaitMap, BgetMissMap, SetMap, BrelseMap,
       IderwMap, IderwTestMap, IdeintrMap
    DEF Next, Bget
  <2>3. CASE UNCHANGED vars
    <3>1. UNCHANGED <<blockno, valid, data, disk, pc, buf>>
      BY Zenon, <2>3 DEF vars, flags
    <3>2. \A q \in Procs : HasBuffer(q)' <=> HasBuffer(q)
      BY Zenon, <3>1 DEF HasBuffer
    <3>. QED
      BY Zenon, <2>1, <3>1, <3>2, Quiet
  <2>. QED
    BY Zenon, <2>2, <2>3
<1>. QED
  BY <1>1, <1>2, InvHolds, PTL DEF Spec, BlocksAreLocked, Abstract!Spec
-----------------------------------------------------------------------------
(* The log pins no more buffers than it may.  A step pins a buffer that was not pinned only in
   log_write, which has counted before. *)
LEMMA PinnedFinite == IsFiniteSet(Pinned) /\ IsFiniteSet(Buffers) /\ Cardinality(Buffers) = NBUF
<1>1. IsFiniteSet(Buffers) /\ Cardinality(Buffers) = NBUF
  BY BufferFacts, FS_Interval
<1>2. Pinned \subseteq Buffers
  BY Zenon DEF Pinned
<1>. QED
  BY Zenon, <1>1, <1>2, FS_Subset

LEMMA PinsShrink ==
  ASSUME PinsBounded, Pinned' \subseteq Pinned
  PROVE  PinsBounded'
<1>. DEFINE s == Pinned
            t == Pinned'
<1>1. IsFiniteSet(s) /\ t \subseteq s /\ Cardinality(s) <= MaxPinned /\ MaxPinned \in Nat
  BY PinnedFinite, BioAssumption DEF PinsBounded
<1>. HIDE DEF s, t
<1>2. IsFiniteSet(t) /\ Cardinality(t) <= Cardinality(s)
  BY Zenon, <1>1, FS_Subset
<1>3. Cardinality(t) \in Nat /\ Cardinality(s) \in Nat
  BY Zenon, <1>1, <1>2, FS_CardinalityType
<1>4. Cardinality(t) <= MaxPinned
  BY <1>1, <1>2, <1>3
<1>. QED
  BY Zenon, <1>4 DEF PinsBounded, t

(* Being written keeps a buffer from counting as pinned. *)
Writing(b) == \E p \in Procs : pc[p] \in {"iderw", "io", "iowoken"} /\ buf[p] = b

LEMMA PinnedKept ==
  ASSUME \A b \in Buffers : dirty'[b] = 1 /\ ~Writing(b)' => dirty[b] = 1 /\ ~Writing(b)
  PROVE  Pinned' \subseteq Pinned
<1>1. \A b : b \in Pinned <=> b \in Buffers /\ dirty[b] = 1 /\ ~Writing(b)
  BY Zenon DEF Pinned, Writing
<1>2. \A b : b \in Pinned' <=> b \in Buffers /\ dirty'[b] = 1 /\ ~Writing(b)'
  BY Zenon DEF Pinned, Writing
<1>. QED
  BY Zenon, <1>1, <1>2

LEMMA LogWritePins ==
  ASSUME Inv, PinsBounded, NEW p \in Procs, NEW v \in Vals, LogWrite(p, v)
  PROVE  PinsBounded'
<1>1. /\ pc[p] = "hold" /\ UNCHANGED <<pc, buf>> /\ dirty' = [dirty EXCEPT ![buf[p]] = 1]
      /\ dirty[buf[p]] = 1 \/ Cardinality({c \in Buffers : dirty[c] = 1}) < MaxPinned
  BY Zenon DEF LogWrite
<1>2. buf[p] \in Buffers /\ HasBuffer(p)
  BY Zenon, <1>1 DEF Inv, HoldersInOrder, HolderInOrder, HasBuffer
<1>3. PICK b \in Buffers : b = buf[p]
  BY Zenon, <1>2
<1>4. \A c \in Buffers : Writing(c)' <=> Writing(c)
  BY Zenon, <1>1 DEF Writing
<1>5. \A c \in Buffers : c # b => dirty'[c] = dirty[c]
  BY Zenon, <1>1, <1>3 DEF Inv, TypeOK
<1>6. CASE dirty[b] = 1
  BY Zenon, <1>4, <1>5, <1>6, PinnedKept, PinsShrink
<1>7. CASE dirty[b] # 1
  <2>. DEFINE D == {c \in Buffers : dirty[c] = 1}
  <2>1. Pinned' \subseteq D \cup {b}
    BY Zenon, <1>5 DEF Pinned
  <2>2. Cardinality(D) < MaxPinned
    BY Zenon, <1>1, <1>3, <1>7
  <2>3. IsFiniteSet(D)
    BY Zenon, PinnedFinite, FS_Subset
  <2>. DEFINE t == Pinned'
  <2>. HIDE DEF D, t
  <2>4. IsFiniteSet(D \cup {b}) /\ Cardinality(D) \in Nat /\ Cardinality(D \cup {b}) <= Cardinality(D) + 1
    <3>1. /\ IsFiniteSet(D \cup {b}) /\ Cardinality(D) \in Nat
          /\ Cardinality(D \cup {b}) = IF b \in D THEN Cardinality(D) ELSE Cardinality(D) + 1
      BY Zenon, <2>3, FS_AddElement, FS_CardinalityType
    <3>. QED
      BY ONLY <3>1
  <2>5. IsFiniteSet(t) /\ Cardinality(t) <= Cardinality(D \cup {b})
    BY Zenon, <2>1, <2>4, FS_Subset DEF t
  <2>6. Cardinality(t) \in Nat /\ Cardinality(D \cup {b}) \in Nat /\ MaxPinned \in Nat
    BY Zenon, <2>4, <2>5, FS_CardinalityType, BioAssumption
  <2>7. Cardinality(t) <= MaxPinned
    BY ONLY <2>2, <2>4, <2>5, <2>6
  <2>. QED
    BY Zenon, <2>7 DEF PinsBounded, t
<1>. QED
  BY Zenon, <1>6, <1>7

LEMMA BwritePins ==
  ASSUME Inv, PinsBounded, NEW p \in Procs, NEW v \in Vals, Bwrite(p, v)
  PROVE  PinsBounded'
<1>1. /\ pc[p] = "hold" /\ buf' = buf /\ dirty' = [dirty EXCEPT ![buf[p]] = 1]
      /\ pc' = [pc EXCEPT ![p] = "iderw"]
  BY Zenon DEF Bwrite
<1>2. pc'[p] = "iderw" /\ \A q \in Procs : q # p => pc'[q] = pc[q]
  BY <1>1 DEF Inv, TypeOK
<1>3. ASSUME NEW b \in Buffers, dirty'[b] = 1, ~Writing(b)' PROVE dirty[b] = 1 /\ ~Writing(b)
  <2>1. b # buf[p]
    BY Zenon, <1>1, <1>2, <1>3 DEF Writing
  <2>2. dirty[b] = 1
    BY Zenon, <1>1, <1>3, <2>1 DEF Inv, TypeOK
  <2>3. \A q \in Procs : buf[q] = b => q # p
    BY Zenon, <2>1
  <2>4. ~Writing(b)
    BY Zenon, <1>1, <1>2, <1>3, <2>3 DEF Writing
  <2>. QED
    BY Zenon, <2>2, <2>4
<1>. QED
  BY Zenon, <1>3, PinnedKept, PinsShrink

(* Steps after which every process that was writing a buffer still is, and none is dirty anew. *)
LEMMA QuietPins ==
  ASSUME PinsBounded,
         \A b \in Buffers : dirty'[b] = 1 => dirty[b] = 1,
         \A b \in Buffers, q \in Procs :
           dirty'[b] = 1 /\ pc[q] \in {"iderw", "io", "iowoken"} /\ buf[q] = b
           => pc'[q] \in {"iderw", "io", "iowoken"} /\ buf'[q] = b
  PROVE  PinsBounded'
<1>1. \A b \in Buffers : dirty'[b] = 1 /\ ~Writing(b)' => dirty[b] = 1 /\ ~Writing(b)
  BY Zenon DEF Writing
<1>. QED
  BY Zenon, <1>1, PinnedKept, PinsShrink

LEMMA OtherPins ==
  ASSUME Inv, PinsBounded, NEW p \in Procs,
         \/ \E n \in Blocks : Bread(p, n)
         \/ \E b \in Buffers : BgetHit(p, b) \/ BgetWait(p, b)
         \/ Iderw(p)
  PROVE  PinsBounded'
<1>1. /\ dirty' = dirty /\ (pc[p] \in {"idle", "bget"} \/ (pc[p] = "iderw" /\ buf' = buf /\ pc' = [pc EXCEPT ![p] = "io"]))
      /\ \A q \in Procs : q # p => pc'[q] = pc[q] /\ buf'[q] = buf[q]
  <2>1. CASE \E n \in Blocks : Bread(p, n)
    <3>1. dirty' = dirty /\ buf' = buf /\ pc[p] = "idle" /\ pc' = [pc EXCEPT ![p] = "bget"]
      BY Zenon, <2>1 DEF Bread, flags
    <3>2. \A q \in Procs : q # p => pc'[q] = pc[q] /\ buf'[q] = buf[q]
      BY Zenon, <3>1 DEF Inv, TypeOK
    <3>3. pc[p] \in {"idle", "bget"}
      BY ONLY <3>1
    <3>. QED
      BY Zenon, <3>1, <3>2, <3>3
  <2>2. CASE \E b \in Buffers : BgetHit(p, b)
    <3>1. PICK b \in Buffers : /\ dirty' = dirty /\ buf' = [buf EXCEPT ![p] = b] /\ pc[p] = "bget"
                               /\ pc' = [pc EXCEPT ![p] = IF valid[b] = 1 THEN "hold" ELSE "iderw"]
      BY Zenon, <2>2 DEF BgetHit
    <3>2. \A q \in Procs : q # p => pc'[q] = pc[q] /\ buf'[q] = buf[q]
      BY Zenon, <3>1 DEF Inv, TypeOK
    <3>3. pc[p] \in {"idle", "bget"}
      BY ONLY <3>1
    <3>. QED
      BY Zenon, <3>1, <3>2, <3>3
  <2>3. CASE \E b \in Buffers : BgetWait(p, b)
    <3>1. PICK b \in Buffers : /\ dirty' = dirty /\ buf' = [buf EXCEPT ![p] = b] /\ pc[p] = "bget"
                               /\ pc' = [pc EXCEPT ![p] = "wait"]
      BY Zenon, <2>3 DEF BgetWait, flags
    <3>2. \A q \in Procs : q # p => pc'[q] = pc[q] /\ buf'[q] = buf[q]
      BY Zenon, <3>1 DEF Inv, TypeOK
    <3>3. pc[p] \in {"idle", "bget"}
      BY ONLY <3>1
    <3>. QED
      BY Zenon, <3>1, <3>2, <3>3
  <2>4. CASE Iderw(p)
    <3>1. pc[p] = "iderw" /\ buf' = buf /\ dirty' = dirty
      BY Zenon, <2>4 DEF Iderw, flags
    <3>2. pc' = [pc EXCEPT ![p] = "io"]
      BY Zenon, <2>4, IderwSleeps
    <3>3. \A q \in Procs : q # p => pc'[q] = pc[q]
      BY Zenon, <3>2 DEF Inv, TypeOK
    <3>. QED
      BY Zenon, <3>1, <3>2, <3>3
  <2>. QED
    BY Zenon, <2>1, <2>2, <2>3, <2>4
<1>2. pc[p] = "iderw" => pc'[p] = "io" /\ buf'[p] = buf[p]
  BY <1>1 DEF Inv, TypeOK
<1>3. ASSUME NEW q \in Procs, pc[q] \in {"iderw", "io", "iowoken"}
      PROVE  pc'[q] \in {"iderw", "io", "iowoken"} /\ buf'[q] = buf[q]
  BY ONLY <1>1, <1>2, <1>3
<1>. QED
  BY Zenon, <1>1, <1>3, QuietPins

LEMMA IderwTestPins ==
  ASSUME Inv, PinsBounded, NEW p \in Procs, IderwTest(p)
  PROVE  PinsBounded'
<1>1. /\ pc[p] = "iowoken" /\ dirty' = dirty /\ buf' = buf
      /\ \A q \in Procs : q # p => pc'[q] = pc[q]
  BY DEF IderwTest, flags, Inv, TypeOK
<1>2. dirty[buf[p]] = 0
  BY Zenon, <1>1 DEF Inv, HoldersInOrder, HolderInOrder
<1>3. ASSUME NEW b \in Buffers, NEW q \in Procs,
             dirty'[b] = 1, pc[q] \in {"iderw", "io", "iowoken"}, buf[q] = b
      PROVE  pc'[q] \in {"iderw", "io", "iowoken"} /\ buf'[q] = b
  BY ONLY <1>1, <1>2, <1>3
<1>. QED
  BY Zenon, <1>1, <1>3, QuietPins

LEMMA BrelsePins ==
  ASSUME Inv, PinsBounded, NEW p \in Procs, Brelse(p)
  PROVE  PinsBounded'
<1>1. /\ pc[p] = "hold" /\ dirty' = dirty
      /\ \A q \in Procs : q # p => buf'[q] = buf[q] /\ pc'[q] = Wakeup(buf[p], pc)[q]
  BY DEF Brelse, Inv, TypeOK, Wakeup
<1>2. \A q \in Procs : pc[q] \in {"iderw", "io", "iowoken"} => Wakeup(buf[p], pc)[q] \in {"iderw", "io", "iowoken"}
  BY DEF Wakeup
<1>3. ASSUME NEW q \in Procs, pc[q] \in {"iderw", "io", "iowoken"}
      PROVE  pc'[q] \in {"iderw", "io", "iowoken"} /\ buf'[q] = buf[q]
  BY ONLY <1>1, <1>2, <1>3
<1>. QED
  BY Zenon, <1>1, <1>3, QuietPins

LEMMA BgetMissPins ==
  ASSUME Inv, PinsBounded, NEW p \in Procs, BgetMiss(p)
  PROVE  PinsBounded'
<1>1. /\ pc[p] = "bget"
      /\ \A q \in Procs : q # p => pc'[q] = pc[q] /\ buf'[q] = buf[q]
      /\ \A b \in Buffers : dirty'[b] = 1 => dirty[b] = 1
  <2>. DEFINE usable == {i \in Buffers : Recyclable(lru[i])}
              b == lru[Max(usable)]
  <2>1. CASE usable = {}
    <3>1. pc[p] = "bget" /\ dirty' = dirty /\ buf' = buf /\ pc' = [pc EXCEPT ![p] = "panic"]
      BY Zenon, <2>1 DEF BgetMiss
    <3>. QED
      BY <3>1 DEF Inv, TypeOK
  <2>2. CASE usable # {}
    <3>1. /\ pc[p] = "bget" /\ dirty' = [dirty EXCEPT ![b] = 0] /\ buf' = [buf EXCEPT ![p] = b]
          /\ pc' = [pc EXCEPT ![p] = "iderw"]
      BY Zenon, <2>2 DEF BgetMiss
    <3>. HIDE DEF b, usable
    <3>. QED
      BY <3>1 DEF Inv, TypeOK
  <2>. QED
    BY Zenon, <2>1, <2>2
<1>2. ASSUME NEW q \in Procs, pc[q] \in {"iderw", "io", "iowoken"}
      PROVE  pc'[q] \in {"iderw", "io", "iowoken"} /\ buf'[q] = buf[q]
  BY ONLY <1>1, <1>2
<1>. QED
  BY Zenon, <1>1, <1>2, QuietPins

LEMMA IdeintrPins ==
  ASSUME Inv, PinsBounded, NEW ok \in Bit, Ideintr(ok)
  PROVE  PinsBounded'
<1>. DEFINE b == Head(idequeue)
<1>1. dirty' = [dirty EXCEPT ![b] = 0] /\ buf' = buf /\ pc' = Wakeup(b, pc)
  BY Zenon DEF Ideintr
<1>. HIDE DEF b
<1>2. \A c \in Buffers : dirty'[c] = 1 => dirty[c] = 1
  BY <1>1 DEF Inv, TypeOK
<1>3. \A q \in Procs : pc[q] \in {"iderw", "io", "iowoken"} => pc'[q] \in {"iderw", "io", "iowoken"}
  BY <1>1 DEF Wakeup
<1>. QED
  BY Zenon, <1>1, <1>2, <1>3, QuietPins

LEMMA PinsInv == Spec => []PinsBounded
<1>1. Init => PinsBounded
  <2>. SUFFICES ASSUME Init PROVE PinsBounded
    OBVIOUS
  <2>1. Pinned = {}
    BY DEF Init, Pinned
  <2>2. Cardinality({}) = 0 /\ MaxPinned \in Nat
    BY Zenon, FS_EmptySet, BioAssumption
  <2>. QED
    BY <2>1, <2>2 DEF PinsBounded
<1>2. Inv /\ PinsBounded /\ [Next]_vars => PinsBounded'
  <2>. SUFFICES ASSUME Inv, PinsBounded, [Next]_vars PROVE PinsBounded'
    BY Zenon
  <2>1. CASE Next
    BY Zenon, <2>1, OtherPins, BgetMissPins, LogWritePins, BwritePins, BrelsePins, IderwTestPins, IdeintrPins
    DEF Next, Bget
  <2>2. CASE UNCHANGED vars
    BY Zenon, <2>2 DEF vars, flags, PinsBounded, Pinned
  <2>. QED
    BY Zenon, <2>1, <2>2
<1>. QED
  BY <1>1, <1>2, InvHolds, PTL DEF Spec

(* Whatever the sizes: a block has one buffer and a buffer one holder, a holder has the contents of
   its block, the disk queue holds what is waited for, clean copies agree with the disk, and the log
   pins no more than it may. *)
THEOREM CacheCorrect == Spec => []CacheInOrder
<1>1. Inv /\ PinsBounded => CacheInOrder
  BY Zenon DEF Inv, CacheInOrder
<1>. QED
  BY <1>1, InvHolds, PinsInv, PTL
-----------------------------------------------------------------------------
(* A buffer for each process that uses the cache at the same time, besides those that the log pins. *)
EnoughBuffers == IsFiniteSet(Procs) /\ Cardinality(Procs) + MaxPinned <= NBUF

(* A buffer that bget cannot recycle is some other process's or pinned; there are fewer of these
   than buffers. *)
LEMMA SomeRecyclable ==
  ASSUME Inv, PinsBounded, EnoughBuffers, NEW p \in Procs, pc[p] = "bget"
  PROVE  \E i \in Buffers : Recyclable(lru[i])
<1>. SUFFICES ASSUME \A i \in Buffers : ~Recyclable(lru[i]) PROVE FALSE
  OBVIOUS
<1>. DEFINE Others == Procs \ {p}
            used == [q \in Others |-> buf[q]]
            U == {buf[q] : q \in Others}
<1>1. ASSUME NEW b \in Buffers PROVE b \in U \cup Pinned
  <2>1. ~(busy[b] = 0 /\ dirty[b] = 0)
    <3>1. PICK i \in Buffers : lru[i] = b
      BY DEF Inv, TypeOK, Range
    <3>. QED
      BY Zenon, <3>1 DEF Recyclable
  <2>2. ASSUME NEW q \in Procs, HasBuffer(q), buf[q] = b PROVE b \in U
    <3>1. q # p
      BY <2>2 DEF HasBuffer
    <3>. QED
      BY Zenon, <2>2, <3>1
  <2>3. CASE busy[b] = 1
    BY Zenon, <2>2, <2>3 DEF Inv, BuffersInOrder, BufferInOrder
  <2>4. CASE dirty[b] = 1 /\ b \notin Pinned
    <3>1. PICK q \in Procs : pc[q] \in {"iderw", "io", "iowoken"} /\ buf[q] = b
      BY Zenon, <2>4 DEF Pinned
    <3>2. HasBuffer(q)
      BY <3>1 DEF HasBuffer
    <3>. QED
      BY Zenon, <2>2, <3>1, <3>2
  <2>5. busy[b] \in {0, 1} /\ dirty[b] \in {0, 1}
    BY Zenon DEF Inv, TypeOK, Bit
  <2>. QED
    BY <2>1, <2>3, <2>4, <2>5
<1>2. used \in Surjection(Others, U)
  BY Zenon DEF Surjection
<1>3. IsFiniteSet(Others) /\ Cardinality(Others) = Cardinality(Procs) - 1 /\ Cardinality(Procs) \in Nat
  BY Zenon, FS_RemoveElement, FS_CardinalityType DEF EnoughBuffers
<1>. HIDE DEF Others, used, U
<1>4. IsFiniteSet(U) /\ Cardinality(U) <= Cardinality(Others)
  BY Zenon, <1>2, <1>3, FS_Surjection
<1>. DEFINE P == Pinned
<1>5. IsFiniteSet(P) /\ Cardinality(P) <= MaxPinned /\ IsFiniteSet(Buffers) /\ Cardinality(Buffers) = NBUF
  BY Zenon, PinnedFinite DEF PinsBounded
<1>6. Buffers \subseteq U \cup P
  BY Zenon, <1>1
<1>. HIDE DEF P
<1>7. /\ IsFiniteSet(U \cup P) /\ Cardinality(U \cup P) = Cardinality(U) + Cardinality(P) - Cardinality(U \cap P)
      /\ IsFiniteSet(U \cap P)
  <2>1. U \cap P \in SUBSET U
    BY Zenon
  <2>2. IsFiniteSet(U \cap P)
    BY Zenon, <1>4, <2>1, FS_Subset
  <2>. QED
    BY Zenon, <1>4, <1>5, <2>2, FS_Union
<1>8. Cardinality(Buffers) <= Cardinality(U \cup P)
  BY Zenon, <1>6, <1>7, FS_Subset
<1>9. Cardinality(U) \in Nat /\ Cardinality(P) \in Nat /\ Cardinality(U \cap P) \in Nat
  BY Zenon, <1>4, <1>5, <1>7, FS_CardinalityType
<1>10. Cardinality(Procs) + MaxPinned <= NBUF /\ MaxPinned \in Nat /\ NBUF \in Nat
  BY Zenon, BioAssumption, BufferFacts DEF EnoughBuffers
<1>. QED
  BY ONLY <1>3, <1>4, <1>5, <1>7, <1>8, <1>9, <1>10

(* With so many buffers neither bget ("no buffers") nor iderw panics.  The code does not see to it:
   param.h has NBUF = LOGSIZE = 30 and NPROC = 64, and relies on few processes being in bread or
   bwrite at once. *)
THEOREM BioCorrect == EnoughBuffers => (Spec => []BioInv)
<1>. SUFFICES ASSUME EnoughBuffers PROVE Spec => []BioInv
  OBVIOUS
<1>1. Init => NoPanic
  BY DEF Init, NoPanic
<1>2. Inv /\ PinsBounded /\ NoPanic /\ [Next]_vars => NoPanic'
  <2>. SUFFICES ASSUME Inv, PinsBounded, NoPanic, [Next]_vars PROVE NoPanic'
    BY Zenon
  <2>1. ASSUME NEW p \in Procs, NEW n \in Blocks, Bread(p, n) PROVE NoPanic'
    BY <2>1 DEF Bread, NoPanic, Inv, TypeOK
  <2>2. ASSUME NEW p \in Procs, NEW b \in Buffers, BgetHit(p, b) \/ BgetWait(p, b) PROVE NoPanic'
    BY <2>2 DEF BgetHit, BgetWait, NoPanic, Inv, TypeOK
  <2>3. ASSUME NEW p \in Procs, BgetMiss(p) PROVE NoPanic'
    <3>1. \E i \in Buffers : Recyclable(lru[i])
      BY Zenon, <2>3, SomeRecyclable DEF BgetMiss
    <3>2. pc' = [pc EXCEPT ![p] = "iderw"]
      BY Zenon, <2>3, <3>1 DEF BgetMiss
    <3>. QED
      BY <3>2 DEF NoPanic, Inv, TypeOK
  <2>4. ASSUME NEW p \in Procs, NEW v \in Vals, LogWrite(p, v) \/ Bwrite(p, v) PROVE NoPanic'
    <3>1. pc' = pc \/ pc' = [pc EXCEPT ![p] = "iderw"]
      BY Zenon, <2>4 DEF LogWrite, Bwrite
    <3>. QED
      BY <3>1 DEF NoPanic, Inv, TypeOK
  <2>5. ASSUME NEW p \in Procs, Brelse(p) PROVE NoPanic'
    BY <2>5 DEF Brelse, Wakeup, NoPanic, Inv, TypeOK
  <2>6. ASSUME NEW p \in Procs, Iderw(p) PROVE NoPanic'
    <3>1. pc' = [pc EXCEPT ![p] = "io"]
      BY Zenon, <2>6, IderwSleeps
    <3>. QED
      BY <3>1 DEF NoPanic, Inv, TypeOK
  <2>7. ASSUME NEW p \in Procs, IderwTest(p) PROVE NoPanic'
    BY <2>7 DEF IderwTest, NoPanic, Inv, TypeOK
  <2>8. ASSUME NEW ok \in Bit, Ideintr(ok) PROVE NoPanic'
    <3>. DEFINE b == Head(idequeue)
    <3>1. pc' = Wakeup(b, pc)
      BY Zenon, <2>8 DEF Ideintr
    <3>. HIDE DEF b
    <3>. QED
      BY <3>1 DEF Wakeup, NoPanic
  <2>9. CASE UNCHANGED vars
    BY Zenon, <2>9 DEF vars, NoPanic
  <2>. QED
    BY Zenon, <2>1, <2>2, <2>3, <2>4, <2>5, <2>6, <2>7, <2>8, <2>9 DEF Next, Bget
<1>3. CacheInOrder /\ NoPanic => BioInv
  BY DEF BioInv
<1>. QED
  BY <1>1, <1>2, <1>3, InvHolds, PinsInv, CacheCorrect, PTL DEF Spec
=============================================================================
