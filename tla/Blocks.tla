------------------------------- MODULE Blocks -------------------------------
(***************************************************************************)
(* The blocks under the files: mkfs's image, the free bitmap, the direct   *)
(* and indirect addresses of an inode, and the read, write and truncate    *)
(* that use them.  A call of filewrite is cut into chunks, a transaction   *)
(* each; a transaction is one step, which is what the log and the inode    *)
(* lock give it (modules Log and Fs).  Between the chunks of one writer    *)
(* anyone else may run, also on the same open file, whose offset is shared.*)
(***************************************************************************)
EXTENDS Integers, Sequences, FiniteSetsExt, SequencesExt

CONSTANTS
  BProcs,       \* processes
  BFiles,       \* open files, each on the inode InodeOf[f]
  InodeOf,
  BSIZE,        \* block size, in units: a byte, an address and a directory
                \* entry are one unit each
  NDIRECT,      \* addresses held in the inode itself
  FSSIZE,       \* blocks of the data area
  LOGSIZE,      \* blocks of the on-disk log
  Images,       \* how many (one-unit) files mkfs may be given
  Writes,       \* the buffers write() is called with
  ReadSizes,    \* the lengths read() is called with
  MaxWrites     \* bound: calls of write() in a behaviour

VARIABLES
  disk,     \* bitmap, blocks, inodes on disk and in core, and what the
            \* transaction in progress logged and returned
  fpos,     \* f->off of every open file
  wr,       \* per process: the write() it is in
  nwrites,  \* calls of write() so far
  image,    \* how many files mkfs was given
  bytes     \* history: the bytes each file should hold

blockVars == <<disk, fpos, wr, nwrites, image, bytes>>

ROOTINO == 1
Inums == {ROOTINO} \cup {InodeOf[f] : f \in BFiles}
NINDIRECT == BSIZE
MAXFILE == NDIRECT + NINDIRECT
Zeros == [k \in 0..BSIZE - 1 |-> 0]
NoFile == [size |-> 0, addrs |-> [k \in 0..NDIRECT |-> 0]]
BITMAP == 0          \* the logged blocks that are not data blocks
INODES == -1
NoCall == [pc |-> "none"]

-----------------------------------------------------------------------------
\* The operations are functions of the disk d.  After a panic nothing happens.

LogWrite(d, b) == [d EXCEPT !.log = @ \cup {b}]

bzero(d, b) == LogWrite([d EXCEPT !.cell[b] = Zeros], b)

\* Take the first free block, zeroed; d.addr is the address returned.
balloc(d) ==
  LET free == 1..FSSIZE \ d.bitmap
      b == Min(free)
  IN IF free = {} THEN [d EXCEPT !.panic = "balloc: out of blocks"]
     ELSE bzero(LogWrite([d EXCEPT !.bitmap = @ \cup {b}, !.addr = b], BITMAP), b)

bfree(d, b) ==
  IF b \notin d.bitmap THEN [d EXCEPT !.panic = "freeing free block"]
  ELSE LogWrite([d EXCEPT !.bitmap = @ \ {b}], BITMAP)

iupdate(d, i) == LogWrite([d EXCEPT !.dinode[i] = d.inode[i]], INODES)

\* The address of block bn of inode i, allocated when there is none.  Only
\* the copy of the inode in core changes.
bmap(d, i, bn) ==
  LET ad == d.inode[i].addrs
      e == IF ad[NDIRECT] # 0 THEN d
           ELSE LET a == balloc(d) IN [a EXCEPT !.inode[i].addrs[NDIRECT] = a.addr]
      ind == e.inode[i].addrs[NDIRECT]
      slot == bn - NDIRECT
  IN CASE bn < NDIRECT /\ ad[bn] # 0 -> [d EXCEPT !.addr = ad[bn]]
       [] bn < NDIRECT /\ ad[bn] = 0 ->
            LET a == balloc(d) IN [a EXCEPT !.inode[i].addrs[bn] = a.addr]
       [] bn >= NDIRECT /\ slot >= NINDIRECT -> [d EXCEPT !.panic = "bmap: out of range"]
       [] OTHER ->
            IF e.panic # "" THEN e
            ELSE IF e.cell[ind][slot] # 0 THEN [e EXCEPT !.addr = e.cell[ind][slot]]
            ELSE LET a == balloc(e) IN LogWrite([a EXCEPT !.cell[ind][slot] = a.addr], ind)

\* The blocks of an inode: direct, indirect, and those it lists.
BlocksOf(d, ino) ==
  LET ind == ino.addrs[NDIRECT]
      entries == IF ind = 0 THEN <<>> ELSE [k \in 1..NINDIRECT |-> d.cell[ind][k - 1]]
  IN SelectSeq([k \in 1..NDIRECT |-> ino.addrs[k - 1]] \o entries \o <<ind>>, LAMBDA b : b # 0)

Freed(d, ino) == FoldLeft(bfree, d, BlocksOf(d, ino))

itrunc(d, i) ==
  iupdate([Freed(d, d.inode[i]) EXCEPT !.inode[i] = NoFile], i)

\* The offsets off..off+n-1, split where blocks end.
Pieces(off, n) ==
  LET first == off \div BSIZE
      last == (off + n - 1) \div BSIZE
  IN [k \in 1..(IF n = 0 THEN 0 ELSE last - first + 1) |->
        LET bn == first + k - 1
        IN [bn |-> bn, from |-> Max({off, bn * BSIZE}), to |-> Min({off + n, (bn + 1) * BSIZE}) - 1]]

\* d.got is what is copied to the caller.
readi(d, i, off, n0) ==
  LET size == d.inode[i].size
      n == IF off + n0 > size THEN size - off ELSE n0
      Copy(x, piece) ==
        LET e == bmap(x, i, piece.bn)
        IN IF x.panic # "" \/ e.panic # "" THEN e
           ELSE [e EXCEPT !.got = @ \o [k \in 1..piece.to - piece.from + 1 |->
                                          e.cell[e.addr][(piece.from + k - 1) % BSIZE]]]
  IN IF off > size THEN d ELSE FoldLeft(Copy, d, Pieces(off, n))

\* Faulty: the new size stays in core.
GrowInCore(d, i, end) ==
  IF end > d.inode[i].size THEN [d EXCEPT !.inode[i].size = end] ELSE d

\* Write back the inode when it grew.
Grow(d, i, end) ==
  IF end > d.inode[i].size THEN iupdate([d EXCEPT !.inode[i].size = end], i) ELSE d

\* d.r is what is returned.
writei(d, i, src, off) ==
  LET n == Len(src)
      Copy(x, piece) ==
        LET e == bmap(x, i, piece.bn)
            old == e.cell[e.addr]
        IN IF x.panic # "" \/ e.panic # "" THEN e
           ELSE LogWrite([e EXCEPT !.cell[e.addr] =
                            [k \in 0..BSIZE - 1 |->
                               IF piece.bn * BSIZE + k \in piece.from..piece.to
                               THEN src[piece.bn * BSIZE + k - off + 1] ELSE old[k]]], e.addr)
  IN IF off > d.inode[i].size \/ off + n > MAXFILE * BSIZE THEN [d EXCEPT !.r = -1]
     ELSE Grow(FoldLeft(Copy, [d EXCEPT !.r = n], Pieces(off, n)), i, off + n)

-----------------------------------------------------------------------------
\* mkfs: blocks are handed out in order; the root directory lists itself
\* twice and every file, and its size is then rounded up past its last entry.

iappend(d, i, v) ==
  LET off == d.dinode[i].size
      fbn == off \div BSIZE
      Take(x, has) == IF has THEN x ELSE [x EXCEPT !.freeblock = @ + 1]
      e == Take(d, fbn < NDIRECT \/ d.dinode[i].addrs[NDIRECT] # 0)
      ind == IF d.dinode[i].addrs[NDIRECT] # 0 THEN d.dinode[i].addrs[NDIRECT] ELSE d.freeblock
      old == IF fbn < NDIRECT THEN d.dinode[i].addrs[fbn] ELSE d.cell[ind][fbn - NDIRECT]
      x == IF old # 0 THEN old ELSE e.freeblock
      f == [Take(e, old # 0) EXCEPT !.cell[x][off % BSIZE] = v, !.dinode[i].size = off + 1]
  IN IF fbn < NDIRECT THEN [f EXCEPT !.dinode[i].addrs[fbn] = x]
     ELSE [f EXCEPT !.dinode[i].addrs[NDIRECT] = ind, !.cell[ind][fbn - NDIRECT] = x]

\* The files of the image each hold one unit, and are inodes 2, 3, ...
Mkfs(files) ==
  LET blank == [bitmap |-> {}, cell |-> [b \in 1..FSSIZE |-> Zeros],
                dinode |-> [i \in Inums |-> NoFile], inode |-> [i \in Inums |-> NoFile],
                freeblock |-> 1, log |-> {}, addr |-> 0, r |-> 0, got |-> <<>>, panic |-> ""]
      AddFile(d, i) == iappend(iappend(d, ROOTINO, i), i, 1)
      full == FoldLeft(AddFile, iappend(iappend(blank, ROOTINO, ROOTINO), ROOTINO, ROOTINO),
                       [k \in 1..files |-> k + 1])
      sized == [full EXCEPT !.dinode[ROOTINO].size = ((@ \div BSIZE) + 1) * BSIZE]
  IN [sized EXCEPT !.bitmap = 1..sized.freeblock - 1, !.freeblock = 0, !.inode = sized.dinode]

-----------------------------------------------------------------------------
BlocksInit ==
  /\ image \in Images
  /\ disk = Mkfs(image)
  /\ fpos = [f \in BFiles |-> 0]
  /\ wr = [p \in BProcs |-> NoCall]
  /\ nwrites = 0
  /\ bytes = [i \in Inums \ {ROOTINO} |-> IF i <= image + 1 THEN <<1>> ELSE <<>>]

\* begin_op and end_op: a transaction begins with nothing logged, and ends
\* with only what it logged to show.
Txn == [disk EXCEPT !.log = {}]
Done(d) == [d EXCEPT !.addr = 0, !.r = 0, !.got = <<>>]
Running == disk.panic = ""
Unused(f) == ~\E p \in BProcs : wr[p] # NoCall /\ wr[p].f = f

\* Faulty: the slop is not allowed for.
MaxChunkAll == (LOGSIZE - 1) * BSIZE

\* As much as a transaction is given: half the log, less what may come on top.
MaxChunk == ((LOGSIZE - 1 - 1 - 2) \div 2) * BSIZE

Overwrite(s, off, src) ==
  [k \in 1..Max({Len(s), off + Len(src)}) |->
     IF k \in off + 1..off + Len(src) THEN src[k - off] ELSE s[k]]

\* write() begins: filewrite's i = 0.
FilewriteCall(p, f, src) ==
  /\ Running /\ wr[p] = NoCall /\ nwrites < MaxWrites
  /\ nwrites' = nwrites + 1
  /\ wr' = [wr EXCEPT ![p] = [pc |-> "loop", f |-> f, src |-> src, i |-> 0]]
  /\ UNCHANGED <<disk, fpos, image, bytes>>

\* One turn of filewrite's loop, up to end_op and the tests after it.
FilewriteChunk(p) ==
  /\ Running /\ wr[p] # NoCall
  /\ LET w == wr[p]
         i == InodeOf[w.f]
         n1 == Min({Len(w.src) - w.i, MaxChunk})
         src == SubSeq(w.src, w.i + 1, w.i + n1)
         e == writei(Txn, i, src, fpos[w.f])
     IN /\ disk' = Done(IF e.r \notin {-1, n1} THEN [e EXCEPT !.panic = "short filewrite"] ELSE e)
        /\ fpos' = [fpos EXCEPT ![w.f] = IF e.r > 0 THEN @ + e.r ELSE @]
        /\ wr' = [wr EXCEPT ![p] = IF e.r = -1 \/ w.i + n1 = Len(w.src) THEN NoCall
                                   ELSE [w EXCEPT !.i = @ + n1]]
        /\ bytes' = IF e.r = -1 THEN bytes
                    ELSE [bytes EXCEPT ![i] = Overwrite(@, fpos[w.f], src)]
  /\ UNCHANGED <<nwrites, image>>

Fileread(f, n) ==
  /\ Running
  /\ LET e == readi(Txn, InodeOf[f], fpos[f], n)
     IN disk' = Done(e) /\ fpos' = [fpos EXCEPT ![f] = @ + Len(e.got)]
  /\ UNCHANGED <<wr, nwrites, image, bytes>>

\* sys_open: a new open file, at the beginning.
OpenAgain(f) ==
  /\ Running /\ Unused(f)
  /\ fpos' = [fpos EXCEPT ![f] = 0]
  /\ UNCHANGED <<disk, wr, nwrites, image, bytes>>

\* iput of a file without links or references; the name is made anew later.
RemoveFile(i) ==
  /\ Running /\ \A f \in BFiles : InodeOf[f] = i => Unused(f) /\ fpos[f] = 0
  /\ disk' = Done(itrunc(Txn, i))
  /\ bytes' = [bytes EXCEPT ![i] = <<>>]
  /\ UNCHANGED <<fpos, wr, nwrites, image>>

\* dirlookup of a name the root does not have: every entry is read.
LookupRoot ==
  /\ Running
  /\ disk' = Done(readi(Txn, ROOTINO, 0, disk.inode[ROOTINO].size))
  /\ UNCHANGED <<fpos, wr, nwrites, image, bytes>>

\* ilock reads an inode from the disk again, after the cache dropped it or (the
\* root is always in use) the machine was restarted.
Reload(i) ==
  /\ Running /\ \A p \in BProcs : wr[p] = NoCall
  /\ disk' = [Txn EXCEPT !.inode[i] = disk.dinode[i]]
  /\ UNCHANGED <<fpos, wr, nwrites, image, bytes>>

BlocksHalted == ~Running /\ UNCHANGED blockVars

BlocksNext ==
  \/ \E p \in BProcs, f \in BFiles, src \in Writes : FilewriteCall(p, f, src)
  \/ \E p \in BProcs : FilewriteChunk(p)
  \/ \E f \in BFiles, n \in ReadSizes : Fileread(f, n)
  \/ \E f \in BFiles : OpenAgain(f)
  \/ \E i \in Inums \ {ROOTINO} : RemoveFile(i)
  \/ LookupRoot
  \/ \E i \in Inums : Reload(i)
  \/ BlocksHalted

-----------------------------------------------------------------------------
\* mkfs rounds the root's size up past a block it does not have when the
\* entries end on a block boundary.
RootHasHole == (2 + image) % BSIZE = 0

\* Reading a file from its beginning gives exactly the bytes written to it,
\* in core and from the disk alike: no write of another file, of another
\* process between the chunks of this one, or of a reused block shows; and a
\* read allocates nothing, so it needs no transaction (readi, writei, bmap).
FilesKeepContents ==
  Running =>
    \A i \in Inums \ {ROOTINO} :
      LET e == readi(Txn, i, 0, disk.dinode[i].size)
      IN e.got = bytes[i] /\ e.log = {}

\* Nothing is freed twice and no file grows past its last address; the disk
\* panics only for want of a block, and then every block is in use.  A
\* transaction fits an otherwise empty log, whatever the write's length and
\* alignment, though it may log more than the MAXOPBLOCKS begin_op kept for it.
\* No block belongs to two files or twice to one; the blocks marked used are
\* those of files, so nothing is lost; and the inode in core is the one on disk
\* (balloc, bfree, bmap, itrunc, iupdate).  The exception is a root directory
\* whose entries fill its blocks exactly: a lookup then allocates the block that
\* mkfs counted but did not write, in core only, and it leaks when the machine is
\* restarted.
BlocksInv ==
  /\ disk.panic \in {"", "balloc: out of blocks"}
  /\ ~Running => disk.bitmap = 1..FSSIZE
  /\ Cardinality(disk.log) <= LOGSIZE - 1
  /\ Running =>
       LET own == [i \in Inums |-> BlocksOf(disk, disk.inode[i])]
           all == UNION {Range(own[i]) : i \in Inums}
       IN /\ \A i \in Inums : IsInjective(own[i])
          /\ \A i, j \in Inums : i # j => Range(own[i]) \cap Range(own[j]) = {}
          /\ all \subseteq disk.bitmap /\ (all = disk.bitmap \/ RootHasHole)
          /\ \A i \in Inums : disk.inode[i] = disk.dinode[i] \/ (i = ROOTINO /\ RootHasHole)
=============================================================================
