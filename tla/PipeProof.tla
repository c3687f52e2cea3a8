------------------------------ MODULE PipeProof ------------------------------
(***************************************************************************)
(* Proofs about the pipes, for any number of readers and writers, any size *)
(* of the buffer and any modulus of the counters that it divides.          *)
(***************************************************************************)
EXTENDS Pipe, TLAPS, SequenceTheorems

-----------------------------------------------------------------------------
(* The remainder. *)
LEMMA DivMod ==
  ASSUME NEW a \in Int, NEW m \in Nat \ {0}
  PROVE  a % m \in 0..m - 1 /\ \E q \in Int : a = m * q + (a % m)
<1>. DEFINE q == a \div m
            r == a % m
<1>1. r \in 0..m - 1 /\ q \in Int
  OBVIOUS
<1>2. r = a - m * q
  BY Z3T(30)
<1>. HIDE DEF q, r
<1>3. a = m * q + r
  BY <1>1, <1>2
<1>. QED
  BY Zenon, <1>1, <1>3 DEF r

LEMMA ModIs ==
  ASSUME NEW a \in Int, NEW m \in Nat \ {0}, NEW q \in Int, NEW r \in 0..m - 1, a = m * q + r
  PROVE  a % m = r
<1>1. m \in Int /\ m > 0 /\ r \in Int /\ 0 <= r /\ r < m
  OBVIOUS
<1>. QED
  BY <1>1, SMTT(30)

(* k bytes more in the pipe. *)
LEMMA CountPlus ==
  ASSUME NEW m \in Nat \ {0}, NEW nr \in 0..m - 1, NEW nw \in 0..m - 1, NEW k \in Nat,
         ((nw - nr) % m) + k < m
  PROVE  (((nw + k) % m) - nr) % m = ((nw - nr) % m) + k
<1>. DEFINE c == (nw - nr) % m
            w == (nw + k) % m
<1>0. nw - nr \in Int /\ nw + k \in Int /\ nr + k \in Int
  OBVIOUS
<1>1. PICK x \in Int : nw - nr = m * x + c
  BY <1>0, DivMod, Zenon
<1>2. PICK y \in Int : nw + k = m * y + w
  BY <1>0, DivMod, Zenon
<1>3. c \in 0..m - 1 /\ w \in 0..m - 1
  BY DivMod
<1>4. c + k < m
  OBVIOUS
<1>. HIDE DEF c, w
<1>5. w - nr = m * (x - y) + (c + k)
  BY <1>1, <1>2, <1>3
<1>6. c + k \in 0..m - 1 /\ w - nr \in Int /\ x - y \in Int
  BY <1>3, <1>4
<1>7. (w - nr) % m = c + k
  BY Zenon, <1>5, <1>6, ModIs
<1>. QED
  BY <1>7 DEF c, w

(* k bytes fewer. *)
LEMMA CountMinus ==
  ASSUME NEW m \in Nat \ {0}, NEW nr \in 0..m - 1, NEW nw \in 0..m - 1, NEW k \in Nat,
         k <= (nw - nr) % m
  PROVE  (nw - ((nr + k) % m)) % m = ((nw - nr) % m) - k
<1>. DEFINE c == (nw - nr) % m
            v == (nr + k) % m
<1>0. nw - nr \in Int /\ nw + k \in Int /\ nr + k \in Int
  OBVIOUS
<1>1. PICK x \in Int : nw - nr = m * x + c
  BY <1>0, DivMod, Zenon
<1>2. PICK y \in Int : nr + k = m * y + v
  BY <1>0, DivMod, Zenon
<1>3. c \in 0..m - 1 /\ v \in 0..m - 1
  BY DivMod
<1>4. k <= c
  OBVIOUS
<1>. HIDE DEF c, v
<1>5. nw - v = m * (x + y) + (c - k)
  BY <1>1, <1>2, <1>3
<1>6. c - k \in 0..m - 1 /\ nw - v \in Int /\ x + y \in Int
  BY <1>3, <1>4
<1>7. (nw - v) % m = c - k
  BY Zenon, <1>5, <1>6, ModIs
<1>. QED
  BY <1>7 DEF c, v

(* The modulus of the counters is a multiple of the size of the buffer. *)
LEMMA Multiple == \E d \in Int : W = PIPESIZE * d
<1>1. W \in Int /\ PIPESIZE \in Nat \ {0} /\ W % PIPESIZE = 0
  BY PipeAssumption
<1>2. PICK d \in Int : W = PIPESIZE * d + (W % PIPESIZE)
  BY <1>1, DivMod, Zenon
<1>. QED
  BY <1>1, <1>2

(* Where the i-th byte from nread stands, counted from nwrite: behind it when it is one of the
   bytes already there, else at its place in what is written. *)
LEMMA StorePlace ==
  ASSUME NEW nr \in 0..W - 1, NEW nw \in 0..W - 1, NEW i \in Nat \ {0},
         (nw - nr) % W <= PIPESIZE, i <= PIPESIZE
  PROVE  (((nr + i - 1) % PIPESIZE) - nw) % PIPESIZE =
            IF i <= (nw - nr) % W THEN PIPESIZE - ((nw - nr) % W) + i - 1
            ELSE i - 1 - ((nw - nr) % W)
<1>. DEFINE c == (nw - nr) % W
            s == (nr + i - 1) % PIPESIZE
<1>. SUFFICES (s - nw) % PIPESIZE = IF i <= c THEN PIPESIZE - c + i - 1 ELSE i - 1 - c
  OBVIOUS
<1>0. W \in Nat \ {0} /\ PIPESIZE \in Nat \ {0}
  BY PipeAssumption
<1>1. PICK x \in Int : nw - nr = W * x + c
  <2>1. nw - nr \in Int
    BY <1>0
  <2>. QED
    BY <1>0, <2>1, DivMod, Zenon
<1>2. PICK y \in Int : nr + i - 1 = PIPESIZE * y + s
  <2>1. nr + i - 1 \in Int
    BY <1>0
  <2>. QED
    BY <1>0, <2>1, DivMod, Zenon
<1>3. PICK d \in Int : W = PIPESIZE * d
  BY Multiple
<1>4. c \in 0..W - 1 /\ s \in 0..PIPESIZE - 1
  BY <1>0, DivMod
<1>. HIDE DEF c, s
<1>5. W * x = PIPESIZE * (d * x)
  BY <1>0, <1>3
<1>. DEFINE z == d * x
<1>6. z \in Int
  OBVIOUS
<1>. HIDE DEF z
<1>7. nw - nr = PIPESIZE * z + c
  BY <1>1, <1>5 DEF z
<1>8. s - nw = PIPESIZE * (-y - z) + (i - 1 - c)
  BY <1>0, <1>2, <1>4, <1>6, <1>7
<1>9. CASE i <= c
  <2>1. s - nw = PIPESIZE * (-y - z - 1) + (PIPESIZE - c + i - 1)
    BY <1>0, <1>4, <1>6, <1>8
  <2>2. PIPESIZE - c + i - 1 \in 0..PIPESIZE - 1 /\ s - nw \in Int /\ -y - z - 1 \in Int
    BY <1>0, <1>4, <1>6, <1>9 DEF c
  <2>3. (s - nw) % PIPESIZE = PIPESIZE - c + i - 1
    BY Zenon, <1>0, <2>1, <2>2, ModIs
  <2>. QED
    BY <1>9, <2>3
<1>10. CASE ~(i <= c)
  <2>1. i - 1 - c \in 0..PIPESIZE - 1 /\ s - nw \in Int /\ -y - z \in Int
    BY <1>0, <1>4, <1>6, <1>10
  <2>2. (s - nw) % PIPESIZE = i - 1 - c
    BY Zenon, <1>0, <1>8, <2>1, ModIs
  <2>. QED
    BY <1>10, <2>2
<1>. QED
  BY <1>9, <1>10

(* Reading k bytes moves the place of the i-th by k, whether or not nread wraps around. *)
LEMMA ReadPlace ==
  ASSUME NEW nr \in 0..W - 1, NEW k \in Nat, NEW i \in Nat \ {0}
  PROVE  (((nr + k) % W) + i - 1) % PIPESIZE = (nr + (k + i) - 1) % PIPESIZE
<1>. DEFINE v == (nr + k) % W
<1>0. W \in Nat \ {0} /\ PIPESIZE \in Nat \ {0}
  BY PipeAssumption
<1>1. PICK y \in Int : nr + k = W * y + v
  <2>1. nr + k \in Int
    BY <1>0
  <2>. QED
    BY <1>0, <2>1, DivMod, Zenon
<1>2. PICK d \in Int : W = PIPESIZE * d
  BY Multiple
<1>3. v \in 0..W - 1
  BY <1>0, DivMod
<1>. HIDE DEF v
<1>4. W * y = PIPESIZE * (d * y)
  BY <1>0, <1>2
<1>. DEFINE z == d * y
<1>5. z \in Int
  OBVIOUS
<1>. HIDE DEF z
<1>6. nr + k = PIPESIZE * z + v
  BY <1>1, <1>4 DEF z
<1>7. nr + (k + i) - 1 = (v + i - 1) + PIPESIZE * z
  BY <1>0, <1>3, <1>5, <1>6
<1>. DEFINE r == (v + i - 1) % PIPESIZE
<1>8. v + i - 1 \in Int
  BY <1>3
<1>9. PICK q \in Int : v + i - 1 = PIPESIZE * q + r
  BY <1>0, <1>8, DivMod, Zenon
<1>10. r \in 0..PIPESIZE - 1
  BY <1>0, <1>8, DivMod, Zenon
<1>. HIDE DEF r
<1>11. nr + (k + i) - 1 = PIPESIZE * (q + z) + r /\ q + z \in Int /\ nr + (k + i) - 1 \in Int
  BY <1>0, <1>3, <1>5, <1>7, <1>9, <1>10
<1>12. (nr + (k + i) - 1) % PIPESIZE = r
  BY Zenon, <1>0, <1>10, <1>11, ModIs
<1>. QED
  BY <1>12 DEF v, r
-----------------------------------------------------------------------------
(* The inductive invariant. *)
Inv == TypeOK /\ EndsInOrder /\ WriterSleepsOnFull /\ ReaderSleepsOnEmpty

LEMMA StringIs == \A s : s \in Strings <=> s \in Seq(Bytes) /\ Len(s) <= MaxN
<1>1. ASSUME NEW s \in Strings PROVE s \in Seq(Bytes) /\ Len(s) <= MaxN
  <2>1. PICK k \in 0..MaxN : s \in [1..k -> Bytes]
    BY DEF Strings
  <2>. QED
    BY <2>1, PipeAssumption
<1>2. ASSUME NEW s \in Seq(Bytes), Len(s) <= MaxN PROVE s \in Strings
  <2>1. Len(s) \in 0..MaxN /\ s \in [1..Len(s) -> Bytes]
    BY <1>2, LenProperties, PipeAssumption
  <2>. QED
    BY <2>1 DEF Strings
<1>. QED
  BY <1>1, <1>2

LEMMA EmptyString == <<>> \in Strings
<1>1. <<>> \in Seq(Bytes) /\ Len(<<>>) = 0
  OBVIOUS
<1>2. Len(<<>>) <= MaxN
  BY <1>1, PipeAssumption
<1>. QED
  BY <1>1, <1>2, StringIs, Zenon

(* pipealloc *)
LEMMA InitInv == Init => Inv
<1>. SUFFICES ASSUME Init PROVE Inv
  OBVIOUS
<1>1. Count = 0
  <2>1. W \in Nat \ {0} /\ 0 = W * 0 + 0 /\ 0 \in 0..W - 1
    BY PipeAssumption
  <2>2. 0 % W = 0
    BY <2>1, ModIs
  <2>. QED
    BY <2>2 DEF Init, Count
<1>3. TypeOK
  BY <1>1, EmptyString, PipeAssumption DEF Init, TypeOK, Bit
<1>. QED
  BY <1>3, PipeAssumption DEF Inv, Init, EndsInOrder, WriterSleepsOnFull, ReaderSleepsOnEmpty, Procs

(* What pipewrite can store: all that is left, or as much as fits. *)
LEMMA RoomIs ==
  ASSUME TypeOK, NEW p \in Writers
  PROVE  /\ todo[p] \in Seq(Bytes) /\ Len(todo[p]) \in Nat /\ Len(todo[p]) <= MaxN
         /\ Room(p) \in Nat /\ Room(p) <= Len(todo[p]) /\ Count + Room(p) <= PIPESIZE
         /\ Room(p) < Len(todo[p]) => Count + Room(p) = PIPESIZE
<1>1. todo[p] \in Seq(Bytes) /\ Len(todo[p]) \in Nat /\ Len(todo[p]) <= MaxN
  BY StringIs DEF TypeOK
<1>2. Count \in 0..PIPESIZE
  BY DEF TypeOK
<1>. QED
  BY <1>1, <1>2, PipeAssumption DEF Room, Min2

(* It makes the pipe longer by that, although nwrite may wrap around. *)
LEMMA StoreCounts ==
  ASSUME TypeOK, NEW p \in Writers, PipeWrite(p)
  PROVE  nwrite' \in 0..W - 1 /\ Count' = Count + Room(p)
<1>0. Count + Room(p) < W
  BY RoomIs, PipeAssumption DEF TypeOK
<1>1. /\ W \in Nat \ {0} /\ nread \in 0..W - 1 /\ nwrite \in 0..W - 1 /\ Room(p) \in Nat
      /\ ((nwrite - nread) % W) + Room(p) < W
  BY <1>0, RoomIs, PipeAssumption DEF TypeOK, Count
<1>2. nwrite + Room(p) \in Int
  BY <1>1
<1>3. nwrite' = (nwrite + Room(p)) % W /\ nread' = nread
  BY DEF PipeWrite
<1>4. (nwrite + Room(p)) % W \in 0..W - 1
  BY <1>1, <1>2, DivMod, Zenon
<1>5. (((nwrite + Room(p)) % W) - nread) % W = ((nwrite - nread) % W) + Room(p)
  BY Zenon, <1>1, CountPlus
<1>. QED
  BY <1>3, <1>4, <1>5, Zenon DEF Count

(* The slots of the buffer hold bytes after it. *)
LEMMA StoreType ==
  ASSUME TypeOK, NEW p \in Writers
  PROVE  Store(p, Room(p)) \in [0..PIPESIZE - 1 -> Bytes]
<1>1. \A i \in 0..PIPESIZE - 1 : (i - nwrite) % PIPESIZE \in 0..PIPESIZE - 1
  <2>. SUFFICES ASSUME NEW i \in 0..PIPESIZE - 1
                PROVE  (i - nwrite) % PIPESIZE \in 0..PIPESIZE - 1
    OBVIOUS
  <2>1. i - nwrite \in Int /\ PIPESIZE \in Nat \ {0}
    BY PipeAssumption DEF TypeOK
  <2>. QED
    BY <2>1, DivMod, Zenon
<1>2. \A j \in 0..PIPESIZE - 1 : j < Room(p) => todo[p][j + 1] \in Bytes
  BY RoomIs, ElementOfSeq, PipeAssumption
<1>. QED
  BY SMTT(30), <1>1, <1>2 DEF Store, TypeOK

(* What is left to write. *)
LEMMA RestIs ==
  ASSUME TypeOK, NEW p \in Writers
  PROVE  LET rest == SubSeq(todo[p], Room(p) + 1, Len(todo[p]))
         IN  rest \in Strings /\ (rest = <<>> <=> Room(p) = Len(todo[p]))
<1>. DEFINE rest == SubSeq(todo[p], Room(p) + 1, Len(todo[p]))
<1>1. rest \in Seq(Bytes) /\ Len(rest) = Len(todo[p]) - Room(p)
  <2>1. \A i \in Room(p) + 1..Len(todo[p]) : todo[p][i] \in Bytes
    BY RoomIs, ElementOfSeq
  <2>. QED
    BY <2>1, RoomIs, SubSeqProperties
<1>. HIDE DEF rest
<1>2. rest \in Strings
  BY <1>1, RoomIs, StringIs, PipeAssumption
<1>3. rest = <<>> <=> Room(p) = Len(todo[p])
  BY <1>1, RoomIs, EmptySeq
<1>. QED
  BY <1>2, <1>3 DEF rest

(* piperead makes the pipe shorter by what it takes. *)
LEMMA ReadCounts ==
  ASSUME TypeOK, NEW p \in Readers, PipeRead(p)
  PROVE  /\ Min2(want[p], Count) \in Nat /\ Min2(want[p], Count) <= Count
         /\ nread' \in 0..W - 1 /\ Count' = Count - Min2(want[p], Count)
<1>. DEFINE k == Min2(want[p], Count)
<1>1. k \in Nat /\ k <= Count
  BY PipeAssumption DEF Min2, TypeOK
<1>2. nread' = (nread + k) % W /\ nwrite' = nwrite
  BY DEF PipeRead
<1>. HIDE DEF k
<1>3. /\ W \in Nat \ {0} /\ nread \in 0..W - 1 /\ nwrite \in 0..W - 1 /\ nread + k \in Int
      /\ k <= (nwrite - nread) % W
  BY <1>1, PipeAssumption DEF TypeOK, Count
<1>4. (nread + k) % W \in 0..W - 1
  BY <1>3, DivMod, Zenon
<1>5. (nwrite - ((nread + k) % W)) % W = ((nwrite - nread) % W) - k
  BY Zenon, <1>1, <1>3, CountMinus
<1>6. nread' \in 0..W - 1 /\ Count' = Count - k
  BY <1>2, <1>4, <1>5, Zenon DEF Count
<1>. QED
  BY <1>1, <1>6 DEF k

(* The bytes of the queue. *)
QueueFacts ==
  /\ Count \in 0..PIPESIZE /\ Queue \in Seq(Bytes) /\ Len(Queue) = Count
  /\ \A i \in 1..Count : Queue[i] = data[(nread + i - 1) % PIPESIZE]

LEMMA QueueIs == TypeOK => QueueFacts
<1>. SUFFICES ASSUME TypeOK PROVE QueueFacts
  OBVIOUS
<1>1. Count \in Nat
  BY PipeAssumption DEF TypeOK
<1>2. \A i \in 1..Count : data[(nread + i - 1) % PIPESIZE] \in Bytes
  <2>. SUFFICES ASSUME NEW i \in 1..Count PROVE data[(nread + i - 1) % PIPESIZE] \in Bytes
    OBVIOUS
  <2>1. nread + i - 1 \in Int /\ PIPESIZE \in Nat \ {0}
    BY <1>1, PipeAssumption DEF TypeOK
  <2>2. (nread + i - 1) % PIPESIZE \in 0..PIPESIZE - 1
    BY <2>1, DivMod, Zenon
  <2>. QED
    BY <2>2 DEF TypeOK
<1>3. Queue \in [1..Count -> Bytes]
  BY <1>2 DEF Queue
<1>4. Queue \in Seq(Bytes) /\ Len(Queue) = Count
  BY <1>1, <1>3
<1>5. Count \in 0..PIPESIZE
  BY DEF TypeOK
<1>. QED
  BY <1>4, <1>5 DEF Queue, QueueFacts

(* It takes the first bytes of the queue. *)
LEMMA ReadGets ==
  ASSUME TypeOK, NEW p \in Readers, PipeRead(p)
  PROVE  got' \in Seq(Bytes) /\ got' = SubSeq(Queue, 1, Min2(want[p], Count))
<1>. DEFINE k == Min2(want[p], Count)
<1>1. k \in Nat /\ k <= Count /\ Count \in Nat
  BY ReadCounts, PipeAssumption DEF TypeOK
<1>2. got' = [i \in 1..k |-> data[(nread + i - 1) % PIPESIZE]]
  BY DEF PipeRead
<1>. HIDE DEF k
<1>3. got' = [i \in 1..k |-> Queue[i]]
  BY <1>1, <1>2, QueueIs DEF QueueFacts
<1>4. \A i \in 1..k : Queue[i] \in Bytes
  BY <1>1, QueueIs, ElementOfSeq DEF QueueFacts
<1>5. got' \in Seq(Bytes) /\ Len(got') = k
  BY <1>1, <1>3, <1>4
<1>6. /\ SubSeq(Queue, 1, k) \in Seq(Bytes) /\ Len(SubSeq(Queue, 1, k)) = k
      /\ \A i \in 1..k : SubSeq(Queue, 1, k)[i] = Queue[i]
  BY <1>1, <1>4, SubSeqProperties
<1>7. got' = SubSeq(Queue, 1, k)
  BY <1>3, <1>5, <1>6, SeqEqual
<1>. QED
  BY <1>5, <1>7 DEF k

(* A call that starts stores nothing yet. *)
LEMMA CallWriteKeepsInv ==
  ASSUME Inv, NEW p \in Writers, NEW s \in Writes, CallWrite(p, s)
  PROVE  Inv'
<1>0. Count' = Count /\ UNCHANGED <<data, nread, nwrite, readopen, writeopen, freed>>
  BY DEF CallWrite, Count, pipe
<1>1. TypeOK'
  <2>1. s \in Strings
    BY PipeAssumption, StringIs
  <2>. QED
    BY <1>0, <2>1, PipeAssumption DEF Inv, TypeOK, Bit, CallWrite, Procs
<1>2. EndsInOrder'
  BY SMTT(30), PipeAssumption, <1>0 DEF Inv, TypeOK, EndsInOrder, Users, Procs, CallWrite
<1>3. WriterSleepsOnFull'
  BY PipeAssumption, <1>0 DEF Inv, TypeOK, WriterSleepsOnFull, EndsInOrder, Procs, CallWrite
<1>4. ReaderSleepsOnEmpty'
  BY PipeAssumption, <1>0 DEF Inv, TypeOK, ReaderSleepsOnEmpty, EndsInOrder, Procs, CallWrite
<1>. QED
  BY <1>1, <1>2, <1>3, <1>4 DEF Inv

(* A call that starts takes nothing yet. *)
LEMMA CallReadKeepsInv ==
  ASSUME Inv, NEW p \in Readers, NEW n \in 0..MaxN, CallRead(p, n)
  PROVE  Inv'
<1>0. Count' = Count /\ UNCHANGED <<data, nread, nwrite, readopen, writeopen, freed>>
  BY DEF CallRead, Count, pipe
<1>1. TypeOK'
  BY PipeAssumption, <1>0 DEF Inv, TypeOK, Bit, CallRead, Procs
<1>2. EndsInOrder'
  BY PipeAssumption, <1>0 DEF Inv, TypeOK, EndsInOrder, Users, Procs, CallRead
<1>3. WriterSleepsOnFull'
  BY PipeAssumption, <1>0 DEF Inv, TypeOK, WriterSleepsOnFull, EndsInOrder, Procs, CallRead
<1>4. ReaderSleepsOnEmpty'
  BY PipeAssumption, <1>0 DEF Inv, TypeOK, ReaderSleepsOnEmpty, EndsInOrder, Procs, CallRead
<1>. QED
  BY <1>1, <1>2, <1>3, <1>4 DEF Inv

(* pipewrite wakes the readers when it has stored, or notes that it gave up; it sleeps on a full pipe only. *)
LEMMA PipeWriteKeepsInv ==
  ASSUME Inv, NEW p \in Writers, PipeWrite(p)
  PROVE  Inv'
<1>. DEFINE k == Room(p)
            rest == SubSeq(todo[p], k + 1, Len(todo[p]))
<1>1. /\ k \in Nat /\ Count + k <= PIPESIZE /\ Count \in 0..PIPESIZE
      /\ rest # <<>> => Count + k = PIPESIZE
      /\ rest \in Strings
      /\ nwrite' \in 0..W - 1 /\ Count' = Count + k /\ data' \in [0..PIPESIZE - 1 -> Bytes]
  <2>1. /\ k \in Nat /\ Count + k <= PIPESIZE /\ Count \in 0..PIPESIZE
        /\ rest # <<>> => Count + k = PIPESIZE
    BY RoomIs, RestIs DEF Inv, TypeOK
  <2>2. rest \in Strings
    BY RestIs DEF Inv
  <2>3. nwrite' \in 0..W - 1 /\ Count' = Count + k
    BY StoreCounts DEF Inv
  <2>4. data' = Store(p, k)
    BY Zenon DEF PipeWrite
  <2>5. data' \in [0..PIPESIZE - 1 -> Bytes]
    BY <2>4, StoreType DEF Inv
  <2>. HIDE DEF k, rest
  <2>. QED
    BY <2>1, <2>2, <2>3, <2>5
<1>2. /\ pc[p] = "again" /\ lock = None /\ got' = <<>> /\ <<>> \in Strings
      /\ UNCHANGED <<nread, readopen, writeopen, freed, fd, closing, want, killed>>
  BY EmptyString, Zenon DEF PipeWrite
<1>3. \/ /\ rest = <<>>
         /\ pc' = Wakeup(Readers, [pc EXCEPT ![p] = "idle"])
         /\ todo' = [todo EXCEPT ![p] = <<>>]
         /\ lock' = lock /\ gaveup' = 0
      \/ /\ rest # <<>> /\ (readopen = 0 \/ killed[p] = 1)
         /\ pc' = [pc EXCEPT ![p] = "idle"]
         /\ todo' = [todo EXCEPT ![p] = <<>>]
         /\ lock' = lock /\ gaveup' = 1
      \/ /\ rest # <<>> /\ readopen = 1 /\ killed[p] = 0
         /\ pc' = Wakeup(Readers, [pc EXCEPT ![p] = "tosleep"])
         /\ todo' = [todo EXCEPT ![p] = rest]
         /\ lock' = p /\ gaveup' = 0
  BY Zenon DEF PipeWrite
<1>. HIDE DEF k, rest
<1>4. TypeOK'
  <2>1. pc' \in [Procs -> {"idle", "again", "tosleep", "asleep"}]
    BY <1>3 DEF Inv, TypeOK, Wakeup
  <2>2. todo' \in [Writers -> Strings]
    BY Zenon, <1>1, <1>2, <1>3 DEF Inv, TypeOK
  <2>3. lock' \in Procs \cup {None} /\ gaveup' \in Bit
    BY <1>2, <1>3 DEF Procs, Bit
  <2>4. Count' \in 0..PIPESIZE
    BY <1>1, PipeAssumption
  <2>. QED
    BY <1>1, <1>2, <2>1, <2>2, <2>3, <2>4 DEF Inv, TypeOK
<1>5. EndsInOrder'
  <2>1. \A q \in Procs : pc[q] # "tosleep"
    BY <1>2, PipeAssumption DEF Inv, EndsInOrder
  <2>2. \A q \in Procs : q # p => pc'[q] # "tosleep" /\ (pc'[q] # "idle" => pc[q] # "idle")
    BY <1>3, <2>1 DEF Inv, TypeOK, Wakeup
  <2>3. p \in Procs /\ (pc'[p] = "tosleep" => lock' = p)
    BY SMTT(30), <1>3 DEF Inv, TypeOK, Wakeup, Procs
  <2>. QED
    BY <1>2, <2>2, <2>3 DEF Inv, EndsInOrder, Users
<1>6. WriterSleepsOnFull'
  BY PipeAssumption, <1>1, <1>2, <1>3 DEF Inv, TypeOK, WriterSleepsOnFull, EndsInOrder, Procs,
     Wakeup
<1>7. ReaderSleepsOnEmpty'
  BY PipeAssumption, <1>1, <1>2, <1>3 DEF Inv, TypeOK, ReaderSleepsOnEmpty, EndsInOrder,
     Procs, Wakeup
<1>. QED
  BY <1>4, <1>5, <1>6, <1>7 DEF Inv

(* piperead wakes all writers. *)
LEMMA PipeReadKeepsInv ==
  ASSUME Inv, NEW p \in Readers, PipeRead(p)
  PROVE  Inv'
<1>. DEFINE k == Min2(want[p], Count)
<1>1. k \in Nat /\ k <= Count /\ Count \in 0..PIPESIZE
  BY PipeAssumption DEF Min2, Inv, TypeOK
<1>2. nread' \in 0..W - 1 /\ Count' = Count - k /\ got' \in Seq(Bytes)
  BY SMTT(30), <1>1, ReadCounts, ReadGets DEF Inv
<1>3. /\ pc[p] = "again" /\ lock = None /\ (Count = 0 => writeopen = 0)
      /\ want' = [want EXCEPT ![p] = 0]
      /\ pc' = Wakeup(Writers, [pc EXCEPT ![p] = "idle"])
      /\ UNCHANGED <<data, nwrite, readopen, writeopen, freed, lock, fd, closing, todo, killed, gaveup>>
  BY DEF PipeRead, Inv, TypeOK, Bit
<1>. HIDE DEF k
<1>4. TypeOK'
  BY SMTT(30), PipeAssumption, <1>1, <1>2, <1>3 DEF Inv, TypeOK, Bit, Wakeup, Procs
<1>5. EndsInOrder'
  BY PipeAssumption, <1>1, <1>2, <1>3 DEF Inv, TypeOK, EndsInOrder, Users, Procs, Wakeup
<1>6. WriterSleepsOnFull'
  BY Zenon, PipeAssumption, <1>1, <1>2, <1>3 DEF Inv, TypeOK, WriterSleepsOnFull, EndsInOrder, Procs,
     Wakeup
<1>7. ReaderSleepsOnEmpty'
  BY PipeAssumption, <1>1, <1>2, <1>3 DEF Inv, TypeOK, ReaderSleepsOnEmpty, EndsInOrder,
     Procs, Wakeup
<1>. QED
  BY <1>4, <1>5, <1>6, <1>7 DEF Inv

(* piperead goes to sleep only on an empty pipe, with the lock. *)
LEMMA PipeReadEmptyKeepsInv ==
  ASSUME Inv, NEW p \in Readers, PipeReadEmpty(p)
  PROVE  Inv'
<1>0. Count' = Count /\ UNCHANGED <<data, nread, nwrite, readopen, writeopen, freed>>
  BY DEF PipeReadEmpty, Count, pipe
<1>1. TypeOK'
  <2>1. pc' \in [Procs -> {"idle", "again", "tosleep", "asleep"}]
    BY Zenon DEF Inv, TypeOK, PipeReadEmpty
  <2>3. want' \in [Readers -> 0..MaxN]
    BY PipeAssumption DEF Inv, TypeOK, PipeReadEmpty
  <2>2. lock' \in Procs \cup {None}
    BY SMTT(30) DEF Inv, TypeOK, PipeReadEmpty, Procs
  <2>. QED
    BY <1>0, <2>1, <2>2, <2>3 DEF Inv, TypeOK, PipeReadEmpty
<1>2. EndsInOrder'
  BY PipeAssumption, <1>0 DEF Inv, TypeOK, EndsInOrder, Users, Procs, PipeReadEmpty
<1>3. WriterSleepsOnFull'
  BY PipeAssumption, <1>0 DEF Inv, TypeOK, WriterSleepsOnFull, EndsInOrder, Procs,
     PipeReadEmpty
<1>4. ReaderSleepsOnEmpty'
  BY PipeAssumption, <1>0 DEF Inv, TypeOK, ReaderSleepsOnEmpty, EndsInOrder, Procs,
     PipeReadEmpty
<1>. QED
  BY <1>1, <1>2, <1>3, <1>4 DEF Inv

(* sleep gives up the lock. *)
LEMMA SleepKeepsInv ==
  ASSUME Inv, NEW p \in Procs, Sleep(p)
  PROVE  Inv'
<1>0. Count' = Count /\ UNCHANGED <<data, nread, nwrite, readopen, writeopen, freed>>
  BY DEF Sleep, Count, pipe
<1>1. TypeOK'
  BY SMTT(30), PipeAssumption, <1>0 DEF Inv, TypeOK, Bit, Sleep, Procs
<1>2. EndsInOrder'
  BY PipeAssumption, <1>0 DEF Inv, TypeOK, EndsInOrder, Users, Procs, Sleep
<1>3. WriterSleepsOnFull'
  BY PipeAssumption, <1>0 DEF Inv, TypeOK, WriterSleepsOnFull, EndsInOrder, Procs, Sleep
<1>4. ReaderSleepsOnEmpty'
  BY PipeAssumption, <1>0 DEF Inv, TypeOK, ReaderSleepsOnEmpty, EndsInOrder, Procs, Sleep
<1>. QED
  BY <1>1, <1>2, <1>3, <1>4 DEF Inv

(* The new process shares an end that is open. *)
LEMMA ForkKeepsInv ==
  ASSUME Inv, NEW p \in Procs, NEW q \in Procs, Fork(p, q)
  PROVE  Inv'
<1>0. Count' = Count /\ UNCHANGED <<data, nread, nwrite, readopen, writeopen, freed>>
  BY DEF Fork, Count, pipe
<1>1. TypeOK'
  BY SMTT(30), PipeAssumption, <1>0 DEF Inv, TypeOK, Bit, Fork
<1>2. EndsInOrder'
  BY PipeAssumption, <1>0 DEF Inv, TypeOK, EndsInOrder, Users, Procs, Fork
<1>3. WriterSleepsOnFull'
  BY Zenon, PipeAssumption, <1>0 DEF Inv, TypeOK, WriterSleepsOnFull, EndsInOrder, Procs, Fork
<1>4. ReaderSleepsOnEmpty'
  BY PipeAssumption, <1>0 DEF Inv, TypeOK, ReaderSleepsOnEmpty, EndsInOrder, Procs, Fork
<1>. QED
  BY <1>1, <1>2, <1>3, <1>4 DEF Inv

(* Only the last process with the end open goes on to close it. *)
LEMMA FilecloseKeepsInv ==
  ASSUME Inv, NEW p \in Procs, Fileclose(p)
  PROVE  Inv'
<1>0. Count' = Count /\ UNCHANGED <<data, nread, nwrite, readopen, writeopen, freed>>
  BY DEF Fileclose, Count, pipe
<1>1. TypeOK'
  BY PipeAssumption, <1>0 DEF Inv, TypeOK, Bit, Fileclose
<1>2. EndsInOrder'
  BY SMTT(30), PipeAssumption, <1>0 DEF Inv, TypeOK, EndsInOrder, Users, Procs, Fileclose
<1>3. WriterSleepsOnFull'
  BY PipeAssumption, <1>0 DEF Inv, TypeOK, WriterSleepsOnFull, EndsInOrder, Procs, Fileclose
<1>4. ReaderSleepsOnEmpty'
  BY SMTT(30), PipeAssumption, <1>0 DEF Inv, TypeOK, ReaderSleepsOnEmpty, EndsInOrder, Procs, Fileclose
<1>. QED
  BY <1>1, <1>2, <1>3, <1>4 DEF Inv

(* pipeclose wakes all who sleep at the other end. *)
LEMMA PipecloseKeepsInv ==
  ASSUME Inv, NEW p \in Procs, Pipeclose(p)
  PROVE  Inv'
<1>0. Count' = Count /\ UNCHANGED <<data, nread, nwrite>>
  BY DEF Pipeclose, Count
<1>1. TypeOK'
  BY SMTT(30), PipeAssumption, <1>0 DEF Inv, TypeOK, Bit, Pipeclose, Wakeup
<1>2. EndsInOrder'
  BY PipeAssumption, <1>0 DEF Inv, TypeOK, EndsInOrder, Users, Procs, Pipeclose, Wakeup
<1>3. WriterSleepsOnFull'
  BY SMTT(30), PipeAssumption, <1>0 DEF Inv, TypeOK, WriterSleepsOnFull, EndsInOrder, Procs, Pipeclose,
     Wakeup
<1>4. ReaderSleepsOnEmpty'
  BY PipeAssumption, <1>0 DEF Inv, TypeOK, ReaderSleepsOnEmpty, EndsInOrder, Procs, Pipeclose,
     Wakeup
<1>. QED
  BY <1>1, <1>2, <1>3, <1>4 DEF Inv

(* kill wakes the process it marks. *)
LEMMA KillKeepsInv ==
  ASSUME Inv, NEW p \in Procs, Kill(p)
  PROVE  Inv'
<1>0. Count' = Count /\ UNCHANGED <<data, nread, nwrite, readopen, writeopen, freed>>
  BY SMTT(30) DEF Kill, Count, pipe
<1>1. TypeOK'
  BY PipeAssumption, <1>0 DEF Inv, TypeOK, Bit, Kill, Wakeup, Procs
<1>2. EndsInOrder'
  BY SMTT(30), PipeAssumption, <1>0 DEF Inv, TypeOK, EndsInOrder, Users, Procs, Kill, Wakeup
<1>3. WriterSleepsOnFull'
  BY PipeAssumption, <1>0 DEF Inv, TypeOK, WriterSleepsOnFull, EndsInOrder, Procs, Kill,
     Wakeup
<1>4. ReaderSleepsOnEmpty'
  BY PipeAssumption, <1>0 DEF Inv, TypeOK, ReaderSleepsOnEmpty, EndsInOrder, Procs, Kill,
     Wakeup
<1>. QED
  BY <1>1, <1>2, <1>3, <1>4 DEF Inv

(* Every step keeps the invariant. *)
LEMMA NextKeepsInv == Inv /\ [Next]_vars => Inv'
<1>. SUFFICES ASSUME Inv, [Next]_vars PROVE Inv'
  BY SMTT(30)
<1>1. CASE UNCHANGED vars
  BY Zenon, <1>1 DEF vars, pipe, Inv, TypeOK, EndsInOrder, Users, WriterSleepsOnFull, ReaderSleepsOnEmpty, Count
<1>2. CASE Next
  BY <1>2, CallWriteKeepsInv, PipeWriteKeepsInv, CallReadKeepsInv, PipeReadKeepsInv,
     PipeReadEmptyKeepsInv, SleepKeepsInv, ForkKeepsInv, FilecloseKeepsInv, PipecloseKeepsInv,
     KillKeepsInv DEF Next
<1>. QED
  BY <1>1, <1>2

LEMMA InvHolds == Spec => []Inv
BY InitInv, NextKeepsInv, PTL DEF Spec

(* However reads, writes, forks, closes and kills interleave, a process sleeps in pipewrite only
   on a full pipe and in piperead only on an empty one, but for what a killed writer leaves, and
   pipeclose frees the page after its last use. *)
THEOREM PipeCorrect == Spec => []PipeInv
<1>1. Inv => PipeInv
  BY PipeAssumption DEF Inv, PipeInv, TypeOK, Bit, EndsInOrder, NoUseAfterFree, Procs
<1>. QED
  BY <1>1, InvHolds, PTL
-----------------------------------------------------------------------------
LEMMA QueueIsNext == TypeOK' => QueueFacts'
BY QueueIs, PTL

(* pipewrite puts what it stores at the end of the queue: the bytes that were there keep their
   slots, wherever in the ring they are. *)
LEMMA StoreAppends ==
  ASSUME TypeOK, TypeOK', NEW p \in Writers, PipeWrite(p)
  PROVE  /\ SubSeq(todo[p], 1, Room(p)) \in Seq(Bytes)
         /\ Len(SubSeq(todo[p], 1, Room(p))) = Room(p)
         /\ Queue' = Queue \o SubSeq(todo[p], 1, Room(p))
<1>. DEFINE k == Room(p)
            s == SubSeq(todo[p], 1, k)
            place(i) == (nread + i - 1) % PIPESIZE
<1>1. k \in Nat /\ Count \in Nat /\ Count + k <= PIPESIZE /\ PIPESIZE \in Nat \ {0}
  <2>1. k \in Nat /\ Count + k <= PIPESIZE /\ Count \in 0..PIPESIZE
    BY Zenon, RoomIs DEF TypeOK
  <2>. QED
    BY ONLY PipeAssumption, <2>1
<1>2. s \in Seq(Bytes) /\ Len(s) = k /\ \A i \in 1..k : s[i] = todo[p][i]
  <2>1. k \in Nat /\ \A i \in 1..k : todo[p][i] \in Bytes
    BY SMTT(30), RoomIs, ElementOfSeq
  <2>. HIDE DEF k
  <2>. QED
    BY <2>1, SubSeqProperties
<1>3. Count' = Count + k /\ nread' = nread
  BY Zenon, StoreCounts DEF PipeWrite
<1>4. \A i \in 1..Count + k : place(i) \in 0..PIPESIZE - 1
  <2>. SUFFICES ASSUME NEW i \in 1..Count + k PROVE (nread + i - 1) % PIPESIZE \in 0..PIPESIZE - 1
    OBVIOUS
  <2>. HIDE DEF k
  <2>1. nread + i - 1 \in Int
    BY <1>1 DEF TypeOK
  <2>. QED
    BY <1>1, <2>1, DivMod, Zenon
<1>5. \A i \in 1..Count + k :
        data'[place(i)] = IF i <= Count THEN data[place(i)] ELSE todo[p][i - Count]
  <2>. SUFFICES ASSUME NEW i \in 1..Count + k
                PROVE  data'[place(i)] = IF i <= Count THEN data[place(i)] ELSE todo[p][i - Count]
    OBVIOUS
  <2>. DEFINE j == (place(i) - nwrite) % PIPESIZE
  <2>1. data'[place(i)] = IF j < k THEN todo[p][j + 1] ELSE data[place(i)]
    <3>1. data' = Store(p, k) /\ place(i) \in 0..PIPESIZE - 1
      BY <1>4, Zenon DEF PipeWrite
    <3>. HIDE DEF k, place
    <3>. QED
      BY <3>1 DEF Store
  <2>2. j = IF i <= Count THEN PIPESIZE - Count + i - 1 ELSE i - 1 - Count
    <3>1. /\ nread \in 0..W - 1 /\ nwrite \in 0..W - 1 /\ i \in Nat \ {0} /\ i <= PIPESIZE
          /\ (nwrite - nread) % W <= PIPESIZE
      <4>1. Count <= PIPESIZE
        BY DEF TypeOK
      <4>2. i \in Nat \ {0} /\ i <= PIPESIZE
        BY <1>1
      <4>. QED
        BY <4>1, <4>2 DEF TypeOK, Count
    <3>. QED
      BY <3>1, StorePlace, Zenon DEF Count
  <2>. HIDE DEF k, j, place
  <2>. QED
    BY <1>1, <2>1, <2>2
<1>6. Queue' \in Seq(Bytes) /\ Len(Queue') = Count + k
  BY <1>3, QueueIsNext DEF QueueFacts
<1>7. \A i \in 1..Count + k : Queue'[i] = data'[place(i)]
  BY <1>3, QueueIsNext DEF QueueFacts
<1>8. Queue \in Seq(Bytes) /\ Len(Queue) = Count /\ \A i \in 1..Count : Queue[i] = data[place(i)]
  BY QueueIs DEF QueueFacts
<1>. HIDE DEF k, s, place
<1>9. /\ Queue \o s \in Seq(Bytes) /\ Len(Queue \o s) = Count + k
      /\ \A i \in 1..Count + k : (Queue \o s)[i] = IF i <= Count THEN Queue[i] ELSE s[i - Count]
  BY Zenon, <1>2, <1>8, ConcatProperties
<1>10. ASSUME NEW i \in 1..Count + k PROVE Queue'[i] = (Queue \o s)[i]
  <2>1. CASE i <= Count
    <3>1. i \in 1..Count
      BY <1>1, <2>1
    <3>. QED
      BY Zenon, <1>5, <1>7, <1>8, <1>9, <2>1, <3>1
  <2>2. CASE ~(i <= Count)
    <3>1. i - Count \in 1..k
      BY <1>1, <2>2
    <3>. QED
      BY Zenon, <1>2, <1>5, <1>7, <1>9, <2>2, <3>1
  <2>. QED
    BY Zenon, <2>1, <2>2
<1>11. Queue' = Queue \o s
  BY <1>6, <1>9, <1>10, SeqEqual
<1>. QED
  BY SMTT(30), <1>2, <1>11 DEF k, s

(* piperead leaves the rest of the queue. *)
LEMMA ReadLeaves ==
  ASSUME TypeOK, TypeOK', NEW p \in Readers, PipeRead(p)
  PROVE  Queue' = SubSeq(Queue, Min2(want[p], Count) + 1, Len(Queue))
<1>. DEFINE k == Min2(want[p], Count)
            rest == SubSeq(Queue, k + 1, Len(Queue))
<1>1. k \in Nat /\ k <= Count /\ Count \in Nat /\ Count' = Count - k
  BY SMTT(30), ReadCounts DEF TypeOK
<1>2. nread' = (nread + k) % W /\ data' = data
  BY DEF PipeRead
<1>. HIDE DEF k
<1>3. Queue \in Seq(Bytes) /\ Len(Queue) = Count
  BY QueueIs DEF QueueFacts
<1>4. /\ rest \in Seq(Bytes) /\ Len(rest) = Count - k
      /\ \A i \in 1..Count - k : rest[i] = Queue[k + i]
  <2>1. \A i \in k + 1..Len(Queue) : Queue[i] \in Bytes
    BY <1>1, <1>3, ElementOfSeq
  <2>. QED
    BY <1>1, <1>3, <2>1, SubSeqProperties
<1>5. Queue' \in Seq(Bytes) /\ Len(Queue') = Count - k
  BY <1>1, QueueIsNext DEF QueueFacts
<1>6. \A i \in 1..Count - k : Queue'[i] = Queue[k + i]
  <2>. SUFFICES ASSUME NEW i \in 1..Count - k PROVE Queue'[i] = Queue[k + i]
    OBVIOUS
  <2>1. Queue'[i] = data[(nread' + i - 1) % PIPESIZE]
    BY <1>1, <1>2, QueueIsNext DEF QueueFacts
  <2>2. Queue[k + i] = data[(nread + (k + i) - 1) % PIPESIZE]
    <3>1. k + i \in 1..Count
      BY <1>1
    <3>. QED
      BY <3>1, QueueIs, Zenon DEF QueueFacts
  <2>3. (((nread + k) % W) + i - 1) % PIPESIZE = (nread + (k + i) - 1) % PIPESIZE
    <3>1. nread \in 0..W - 1 /\ k \in Nat /\ i \in Nat \ {0}
      BY <1>1 DEF TypeOK
    <3>. QED
      BY <3>1, ReadPlace, Zenon
  <2>. QED
    BY <1>2, <2>1, <2>2, <2>3, Zenon
<1>. HIDE DEF rest
<1>7. Queue' = rest
  BY <1>4, <1>5, <1>6, SeqEqual
<1>. QED
  BY <1>7 DEF rest, k

(* A step of a pipe is a step of the queue. *)
LEMMA FifoStep == TypeOK /\ TypeOK' /\ [Next]_vars => [Abstract!Next]_(Abstract!vars)
<1>. SUFFICES ASSUME TypeOK, TypeOK', [Next]_vars PROVE [Abstract!Next]_(Abstract!vars)
  OBVIOUS
<1>1. CASE UNCHANGED vars
  BY <1>1 DEF vars, pipe, Queue, Count, Abstract!vars
<1>2. ASSUME NEW p \in Writers, PipeWrite(p) PROVE Abstract!Next
  <2>. DEFINE k == Room(p)
              s == SubSeq(todo[p], 1, k)
  <2>1. s \in Seq(Bytes) /\ Len(s) = k /\ Queue' = Queue \o s
    BY SMTT(30), <1>2, StoreAppends
  <2>2. k \in 0..PIPESIZE /\ Count + k <= PIPESIZE
    <3>1. k \in Nat /\ Count + k <= PIPESIZE /\ Count \in 0..PIPESIZE
      BY Zenon, RoomIs DEF TypeOK
    <3>. QED
      BY ONLY PipeAssumption, <3>1
  <2>3. got' = <<>> /\ Len(Queue) = Count
    BY Zenon, <1>2, QueueIs DEF PipeWrite, QueueFacts
  <2>. HIDE DEF k, s
  <2>4. s \in Abstract!BoundedSeq(PIPESIZE)
    <3>1. s \in [1..k -> Bytes]
      BY SMTT(30), <2>1, LenProperties
    <3>. QED
      BY <2>2, <3>1 DEF Abstract!BoundedSeq
  <2>5. Abstract!Put(s)
    BY <2>1, <2>2, <2>3 DEF Abstract!Put
  <2>. QED
    BY <2>4, <2>5 DEF Abstract!Next
<1>3. ASSUME NEW p \in Readers, PipeRead(p) PROVE Abstract!Next
  <2>. DEFINE k == Min2(want[p], Count)
  <2>1. k \in 0..PIPESIZE /\ k <= Count
    BY SMTT(30), <1>3, ReadCounts, PipeAssumption DEF TypeOK
  <2>2. got' = SubSeq(Queue, 1, k) /\ Queue' = SubSeq(Queue, k + 1, Len(Queue)) /\ Len(Queue) = Count
    BY <1>3, ReadGets, ReadLeaves, QueueIs DEF QueueFacts
  <2>. HIDE DEF k
  <2>3. Abstract!Get(k)
    BY <2>1, <2>2 DEF Abstract!Get
  <2>. QED
    BY SMTT(30), <2>1, <2>3 DEF Abstract!Next
<1>4. ASSUME UNCHANGED <<data, nread, nwrite>>, got' = <<>> PROVE Abstract!Next
  <2>1. Queue' = Queue
    BY <1>4 DEF Queue, Count
  <2>2. Queue \in Seq(Bytes) /\ Len(Queue) <= PIPESIZE /\ Len(Queue) \in Nat
    BY QueueIs, PipeAssumption DEF QueueFacts
  <2>3. Queue \o <<>> = Queue /\ Len(<<>>) = 0
    BY <2>2, ConcatEmptySeq
  <2>4. Abstract!Put(<<>>)
    BY <1>4, <2>1, <2>2, <2>3 DEF Abstract!Put
  <2>5. <<>> \in Abstract!BoundedSeq(PIPESIZE)
    <3>1. <<>> \in [1..0 -> Bytes] /\ 0 \in 0..PIPESIZE
      BY PipeAssumption
    <3>. QED
      BY <3>1 DEF Abstract!BoundedSeq
  <2>. QED
    BY SMTT(30), <2>4, <2>5 DEF Abstract!Next
<1>5. CASE Next
  <2>1. \/ \E p \in Writers : PipeWrite(p)
        \/ \E p \in Readers : PipeRead(p)
        \/ UNCHANGED <<data, nread, nwrite>> /\ got' = <<>>
    BY <1>5, Zenon DEF Next, CallWrite, CallRead, PipeReadEmpty, Sleep, Fork, Fileclose, Pipeclose, Kill, pipe
  <2>. QED
    BY <1>2, <1>3, <1>4, <2>1
<1>. QED
  BY <1>1, <1>5

(* For any sizes of the buffer, of reads and of writes, any numbers of readers and writers, and
   wherever the counters wrap around, a pipe is a bounded queue: no byte is lost, repeated or
   reordered. *)
THEOREM RingIsQueue == Spec => PipeIsFifo
<1>1. Init => Abstract!Init
  <2>. SUFFICES ASSUME Init PROVE Abstract!Init
    OBVIOUS
  <2>1. TypeOK
    BY InitInv DEF Inv
  <2>2. nwrite - nread = 0 /\ W \in Nat \ {0} /\ 0 = W * 0 + 0 /\ 0 \in 0..W - 1
    BY PipeAssumption DEF Init
  <2>3. Count = 0
    BY <2>2, ModIs DEF Count
  <2>4. Queue = <<>>
    BY <2>1, <2>3, QueueIs, EmptySeq DEF QueueFacts
  <2>. QED
    BY <2>4 DEF Init, Abstract!Init
<1>2. Inv => TypeOK
  BY DEF Inv
<1>. QED
  BY <1>1, <1>2, FifoStep, InvHolds, PTL DEF Spec, PipeIsFifo, Abstract!Spec
=============================================================================
