--------------------------------- MODULE Fs ---------------------------------
(***************************************************************************)
(* The inode cache, directories and path lookup (src/xv6/fs.c) and the     *)
(* system calls that change names (src/xv6/sysfile.c): open, create,       *)
(* mkdir, link, unlink and close, run by several processes.                *)
(*                                                                         *)
(* icache.lock makes iget, iput and the test and set of I_BUSY atomic; the *)
(* code between an ilock and an iunlock is one step, in which no other     *)
(* process can touch that inode.  ilock waits: that sleep and wakeup lose  *)
(* nothing is shown in module Sched.  I_BUSY carries the name of the       *)
(* process that set it.  The calls run inside log transactions (module     *)
(* Log), so no crash is modelled here.  Paths start at the root.           *)
(***************************************************************************)
EXTENDS Integers, Sequences, FiniteSets, FiniteSetsExt

CONSTANTS
  Procs, Names,
  NInodes,      \* inodes on the disk, ROOTINO = 1 included
  NINODE,       \* entries of the inode cache
  Calls,        \* calls the processes make: records with op, path and new
  None

Inums == 1..NInodes
Entries == 1..NINODE
ROOTINO == 1
T_DIR == 1
T_FILE == 2

ASSUME FsAssumption ==
  /\ NInodes \in Nat \ {0} /\ NINODE \in Nat \ {0}
  /\ IsFiniteSet(Procs) /\ IsFiniteSet(Names)
  /\ None \notin Procs \cup Calls
  /\ \A c \in Calls : /\ c.op \in {"open", "create", "mkdir", "link", "unlink"}
                      /\ c.path \in Seq(Names) /\ c.path # <<>>
                      /\ c.op = "link" => c.new \in Seq(Names) /\ c.new # <<>>

VARIABLES
  dinode,    \* per inode number: type and nlink on the disk
  dents,     \* per inode number: the inode each name stands for, 0 if none
  icache,    \* per entry: inum, ref, busy, valid, type, nlink
  th,        \* per process: pc, call, path left, and the entries it points to
  panicked,  \* the message of the panic that stopped the system, or "none"
  astray     \* history: inodes that got a link from a directory that was already removed

vars == <<dinode, dents, icache, th, panicked, astray>>

Free == [type |-> 0, nlink |-> 0]
NoDents == [n \in Names |-> 0]
(* A free entry of the cache; what is left in one is never used, since iget clears its flags. *)
Empty == [inum |-> 0, ref |-> 0, busy |-> None, valid |-> 0, type |-> 0, nlink |-> 0]
Idle == [pc |-> "idle", call |-> None, path |-> <<>>,
         ip |-> 0, dp |-> 0, old |-> 0, put |-> 0, ret |-> "idle"]

(* mkfs: a root directory that nobody has opened *)
Init ==
  /\ dinode = [i \in Inums |-> IF i = ROOTINO THEN [type |-> T_DIR, nlink |-> 1] ELSE Free]
  /\ dents = [i \in Inums |-> NoDents]
  /\ icache = [e \in Entries |-> Empty]
  /\ th = [p \in Procs |-> Idle]
  /\ panicked = "none" /\ astray = {}

Panic(msg) == panicked' = msg /\ UNCHANGED <<dinode, dents, icache, th>>

At(p, l) == th[p].pc = l /\ panicked = "none"

Goes(p, t) == th' = [th EXCEPT ![p] = t]

(* The process leaves inode entry e, which it still points to, to iput and goes on at l. *)
PutThen(t, e, l) == [t EXCEPT !.pc = "iput", !.put = e, !.ret = l]

(* What iput returns to *)
Return(t) == IF t.ret = "idle" THEN Idle ELSE [t EXCEPT !.pc = t.ret, !.put = 0, !.ret = "idle"]

(* Definitions marked "Faulty" are not part of the specification: each is a plausible
   mistake in the operation that follows it, kept to show that a property notices. *)
-----------------------------------------------------------------------------
(* Faulty: an entry counts as cached only once it has been read. *)
SlotValid(i) ==
  LET cached == {e \in Entries : icache[e].valid = 1 /\ icache[e].inum = i}
      empty == {e \in Entries : icache[e].ref = 0}
  IN  IF cached # {} THEN Min(cached) ELSE IF empty # {} THEN Min(empty) ELSE 0

(* iget: the entry of inode i, and the cache with one reference more *)
Slot(i) ==
  LET cached == {e \in Entries : icache[e].ref > 0 /\ icache[e].inum = i}
      empty == {e \in Entries : icache[e].ref = 0}
  IN  IF cached # {} THEN Min(cached) ELSE IF empty # {} THEN Min(empty) ELSE 0

AddRef(e) == [e EXCEPT !.ref = @ + 1]

Iget(i) ==
  [icache EXCEPT ![Slot(i)] =
     IF @.ref > 0 THEN AddRef(@) ELSE [Empty EXCEPT !.inum = i, !.ref = 1]]

(* Where ilock is called: the pointer it is called with and the point after it *)
LockSite ==
  [namex      |-> [ptr |-> "ip", next |-> "walk"],
   openlock   |-> [ptr |-> "ip", next |-> "opened"],
   create     |-> [ptr |-> "dp", next |-> "create2"],
   createold  |-> [ptr |-> "ip", next |-> "createhit"],
   createnew  |-> [ptr |-> "ip", next |-> "create3"],
   unlink     |-> [ptr |-> "dp", next |-> "unlink2"],
   unlinkip   |-> [ptr |-> "ip", next |-> "unlink3"],
   link       |-> [ptr |-> "ip", next |-> "link2"],
   linkdp     |-> [ptr |-> "dp", next |-> "link3"],
   linkbad    |-> [ptr |-> "old", next |-> "linkbad2"]]

Wanted(p) == th[p][LockSite[th[p].pc].ptr]

(* ilock: waits while I_BUSY is set, then reads the inode from the disk if need be. *)
Ilock(p) ==
  /\ panicked = "none" /\ th[p].pc \in DOMAIN LockSite
  /\ LET e == Wanted(p)
         i == icache[e].inum
     IN  /\ icache[e].busy = None
         /\ IF icache[e].valid = 0 /\ dinode[i].type = 0
            THEN Panic("ilock: no type")
            ELSE /\ icache' = [icache EXCEPT ![e] =
                      IF @.valid = 1 THEN [@ EXCEPT !.busy = p]
                      ELSE [@ EXCEPT !.busy = p, !.valid = 1,
                                     !.type = dinode[i].type, !.nlink = dinode[i].nlink]]
                 /\ Goes(p, [th[p] EXCEPT !.pc = LockSite[@].next])
                 /\ UNCHANGED <<dinode, dents, panicked>>

(* dirlookup and dirlink: the inode that name n stands for in directory entry e, 0 if none,
   and the directories after n is made to stand for i *)
Dirlookup(e, n) == dents[icache[e].inum][n]
Dirlink(e, n, i) == [dents EXCEPT ![icache[e].inum][n] = i]

(* Faulty: I_BUSY is not cleared. *)
IunlockNothing(ic, e) == ic

(* iunlock, in a given cache *)
Iunlock(ic, e) == [ic EXCEPT ![e].busy = None]

(* iupdate: a given inode count goes to the cache entry and to the disk. *)
SetNlink(ic, e, k) == [ic EXCEPT ![e].nlink = k]

Iupdate(di, e, k) == [di EXCEPT ![icache[e].inum].nlink = k]

(* Faulty: the inode is freed although another process points to it. *)
LastReference(e) == icache[e].valid = 1 /\ icache[e].nlink = 0

(* Faulty: the count is compared with the number of pointers that are left. *)
UnreferencedOffByOne(e) == icache[e].ref = 0 /\ icache[e].valid = 1 /\ icache[e].nlink = 0

(* The last pointer to an inode without links is dropped. *)
Unreferenced(e) == icache[e].ref = 1 /\ icache[e].valid = 1 /\ icache[e].nlink = 0

DropRef(e) == IF e.ref = 1 THEN Empty ELSE [e EXCEPT !.ref = @ - 1]

Iput(p) ==
  LET e == th[p].put IN
  /\ At(p, "iput")
  /\ IF Unreferenced(e)
     THEN IF icache[e].busy # None THEN Panic("iput busy")
          ELSE /\ icache' = [icache EXCEPT ![e].busy = p]
               /\ Goes(p, [th[p] EXCEPT !.pc = "itrunc"])
               /\ UNCHANGED <<dinode, dents, panicked>>
     ELSE /\ icache' = [icache EXCEPT ![e] = DropRef(@)]
          /\ Goes(p, Return(th[p]))
          /\ UNCHANGED <<dinode, dents, panicked>>

(* iput: itrunc, ip->type = 0 and iupdate, with icache.lock released *)
Itrunc(p) ==
  LET e == th[p].put
      i == icache[e].inum
  IN
  /\ At(p, "itrunc")
  /\ dinode' = [dinode EXCEPT ![i].type = 0]
  /\ dents' = [dents EXCEPT ![i] = NoDents]
  /\ icache' = [icache EXCEPT ![e].type = 0]
  /\ Goes(p, [th[p] EXCEPT !.pc = "ifree"])
  /\ UNCHANGED panicked

(* iput: the flags are cleared and the reference is dropped under icache.lock. *)
Ifree(p) ==
  LET e == th[p].put IN
  /\ At(p, "ifree")
  /\ icache' = [icache EXCEPT ![e] = DropRef([@ EXCEPT !.busy = None, !.valid = 0])]
  /\ Goes(p, Return(th[p]))
  /\ UNCHANGED <<dinode, dents, panicked>>
-----------------------------------------------------------------------------
(* namex starts at the root. *)
Namex(p, t) ==
  IF Slot(ROOTINO) = 0 THEN Panic("iget: no inodes")
  ELSE /\ icache' = Iget(ROOTINO)
       /\ Goes(p, [t EXCEPT !.pc = "namex", !.ip = Slot(ROOTINO)])
       /\ UNCHANGED <<dinode, dents, panicked>>

Call(p, c) ==
  /\ At(p, "idle")
  /\ Namex(p, [Idle EXCEPT !.call = c, !.path = c.path])

(* Where namex returns to: the second lookup of link is for its new name. *)
Found(t) ==
  CASE t.call.op = "open" -> "openlock"
    [] t.call.op = "unlink" -> "unlink"
    [] t.call.op = "link" -> IF t.old = 0 THEN "link" ELSE "linkdp"
    [] OTHER -> "create"
NotFound(t) == IF t.old = 0 THEN "idle" ELSE "linkbad"
Nameiparent(t) == t.call.op \in {"create", "mkdir", "unlink"} \/ t.old # 0

(* The body of the loop of namex, with ip locked: it ends one level early for nameiparent,
   fails, or goes one level down. *)
Walk(p) ==
  LET t == th[p]
      ip == icache[t.ip]
      next == IF ip.type = T_DIR THEN Dirlookup(t.ip, Head(t.path)) ELSE 0
  IN
  /\ At(p, "walk")
  /\ IF ip.type = T_DIR /\ Nameiparent(t) /\ Len(t.path) = 1
     THEN /\ icache' = Iunlock(icache, t.ip)
          /\ Goes(p, [t EXCEPT !.pc = Found(t), !.dp = t.ip, !.ip = 0])
          /\ UNCHANGED <<dinode, dents, panicked>>
     ELSE IF next = 0
     THEN /\ icache' = Iunlock(icache, t.ip)
          /\ Goes(p, PutThen([t EXCEPT !.ip = 0, !.path = <<>>], t.ip, NotFound(t)))
          /\ UNCHANGED <<dinode, dents, panicked>>
     ELSE IF Slot(next) = 0 THEN Panic("iget: no inodes")
     ELSE /\ icache' = Iunlock(Iget(next), t.ip)
          /\ Goes(p, PutThen([t EXCEPT !.ip = Slot(next), !.path = Tail(t.path)], t.ip,
                             IF Len(t.path) = 1 THEN Found(t) ELSE "namex"))
          /\ UNCHANGED <<dinode, dents, panicked>>
-----------------------------------------------------------------------------
(* The end of sys_open, with ip locked: the file keeps the reference, unless the call fails
   (no file structure or descriptor is left, or a directory is opened for writing). *)
OpenEnd(p) ==
  LET t == th[p] IN
  /\ icache' = Iunlock(icache, t.ip)
  /\ \/ Goes(p, [Idle EXCEPT !.pc = "open", !.ip = t.ip])
     \/ Goes(p, PutThen(Idle, t.ip, "idle"))
  /\ UNCHANGED <<dinode, dents, panicked>>

Opened(p) == At(p, "opened") /\ OpenEnd(p)

(* fileclose *)
Close(p) ==
  /\ At(p, "open")
  /\ Goes(p, PutThen(Idle, th[p].ip, "idle"))
  /\ UNCHANGED <<dinode, dents, icache, panicked>>

FileType(t) == IF t.call.op = "mkdir" THEN T_DIR ELSE T_FILE

(* The inodes ialloc can take *)
FreeInodes == {i \in Inums : dinode[i].type = 0}

(* create, with dp locked: the name exists, or ialloc takes the first free inode. *)
Create2(p) ==
  LET t == th[p]
      i == Dirlookup(t.dp, Head(t.path))
      new == Min(FreeInodes)
  IN
  /\ At(p, "create2")
  /\ IF i # 0
     THEN IF Slot(i) = 0 THEN Panic("iget: no inodes")
          ELSE /\ icache' = Iunlock(Iget(i), t.dp)
               /\ Goes(p, PutThen([t EXCEPT !.ip = Slot(i), !.dp = 0, !.path = <<>>], t.dp, "createold"))
               /\ UNCHANGED <<dinode, dents, panicked>>
     ELSE IF FreeInodes = {} THEN Panic("ialloc: no inodes")
     ELSE IF Slot(new) = 0 THEN Panic("iget: no inodes")
     ELSE /\ dinode' = [dinode EXCEPT ![new] = [type |-> FileType(t), nlink |-> 0]]
          /\ icache' = Iget(new)
          /\ Goes(p, [t EXCEPT !.pc = "createnew", !.ip = Slot(new)])
          /\ UNCHANGED <<dents, panicked>>

(* create, with the existing ip locked *)
CreateHit(p) ==
  LET t == th[p] IN
  /\ At(p, "createhit")
  /\ IF t.call.op = "create" /\ icache[t.ip].type = T_FILE
     THEN OpenEnd(p)
     ELSE /\ icache' = Iunlock(icache, t.ip)
          /\ Goes(p, PutThen(Idle, t.ip, "idle"))
          /\ UNCHANGED <<dinode, dents, panicked>>

(* create, with dp and the new ip locked: ip gets its link, dp the link of .. and the entry. *)
Create3(p) ==
  LET t == th[p]
      k == icache[t.dp].nlink + (IF t.call.op = "mkdir" THEN 1 ELSE 0)
  IN
  /\ At(p, "create3")
  /\ dinode' = Iupdate(Iupdate(dinode, t.ip, 1), t.dp, k)
  /\ icache' = Iunlock(SetNlink(SetNlink(icache, t.ip, 1), t.dp, k), t.dp)
  /\ dents' = Dirlink(t.dp, Head(t.path), icache[t.ip].inum)
  /\ Goes(p, PutThen([t EXCEPT !.dp = 0, !.path = <<>>], t.dp, "created"))
  /\ UNCHANGED panicked

(* sys_open and sys_mkdir after create *)
Created(p) ==
  LET t == th[p] IN
  /\ At(p, "created")
  /\ IF t.call.op = "create" THEN OpenEnd(p)
     ELSE /\ icache' = Iunlock(icache, t.ip)
          /\ Goes(p, PutThen(Idle, t.ip, "idle"))
          /\ UNCHANGED <<dinode, dents, panicked>>
-----------------------------------------------------------------------------
(* sys_unlink, with dp locked *)
Unlink2(p) ==
  LET t == th[p]
      i == Dirlookup(t.dp, Head(t.path))
  IN
  /\ At(p, "unlink2")
  /\ IF i = 0
     THEN /\ icache' = Iunlock(icache, t.dp)
          /\ Goes(p, PutThen(Idle, t.dp, "idle"))
          /\ UNCHANGED <<dinode, dents, panicked>>
     ELSE IF Slot(i) = 0 THEN Panic("iget: no inodes")
     ELSE /\ icache' = Iget(i)
          /\ Goes(p, [t EXCEPT !.pc = "unlinkip", !.ip = Slot(i)])
          /\ UNCHANGED <<dinode, dents, panicked>>

(* sys_unlink removes only empty directories. *)
Isdirempty(i) == dents[i] = NoDents

(* sys_unlink, with dp and ip locked: the entry is erased and dp released. *)
Unlink3(p) ==
  LET t == th[p]
      ip == icache[t.ip]
      k == icache[t.dp].nlink - (IF ip.type = T_DIR THEN 1 ELSE 0)
  IN
  /\ At(p, "unlink3")
  /\ IF ip.nlink < 1 THEN Panic("unlink: nlink < 1")
     ELSE IF ip.type = T_DIR /\ ~Isdirempty(ip.inum)
     THEN /\ icache' = Iunlock(icache, t.ip)
          /\ Goes(p, PutThen([t EXCEPT !.ip = 0, !.path = <<>>], t.ip, "unlinkbad"))
          /\ UNCHANGED <<dinode, dents, panicked>>
     ELSE /\ dents' = Dirlink(t.dp, Head(t.path), 0)
          /\ dinode' = Iupdate(dinode, t.dp, k)
          /\ icache' = Iunlock(SetNlink(icache, t.dp, k), t.dp)
          /\ Goes(p, PutThen([t EXCEPT !.dp = 0, !.path = <<>>], t.dp, "unlink4"))
          /\ UNCHANGED panicked

(* iunlockput(dp) of a call that fails *)
UnlinkBad(p) ==
  LET t == th[p] IN
  /\ At(p, "unlinkbad")
  /\ icache' = Iunlock(icache, t.dp)
  /\ Goes(p, PutThen(Idle, t.dp, "idle"))
  /\ UNCHANGED <<dinode, dents, panicked>>

(* The link count falls, and the call ends with iunlockput. *)
DropLink(p, e) ==
  LET k == icache[e].nlink - 1 IN
  /\ dinode' = Iupdate(dinode, e, k)
  /\ icache' = Iunlock(SetNlink(icache, e, k), e)
  /\ Goes(p, PutThen(Idle, e, "idle"))
  /\ UNCHANGED <<dents, panicked>>

Unlink4(p) == At(p, "unlink4") /\ DropLink(p, th[p].ip)
-----------------------------------------------------------------------------
(* Faulty: the link is not counted. *)
MoreLinksNone(e) == icache[e].nlink

(* ip->nlink++ *)
MoreLinks(e) == icache[e].nlink + 1

(* sys_link, with ip locked: the count rises first, then the new name is looked up. *)
Link2(p) ==
  LET t == th[p]
      k == MoreLinks(t.ip)
  IN
  /\ At(p, "link2")
  /\ IF icache[t.ip].type = T_DIR
     THEN /\ icache' = Iunlock(icache, t.ip)
          /\ Goes(p, PutThen(Idle, t.ip, "idle"))
          /\ UNCHANGED <<dinode, dents, panicked>>
     ELSE /\ dinode' = Iupdate(dinode, t.ip, k)
          /\ icache' = Iunlock(SetNlink(icache, t.ip, k), t.ip)
          /\ Goes(p, [t EXCEPT !.pc = "linknew", !.old = t.ip, !.ip = 0, !.path = t.call.new])
          /\ UNCHANGED <<dents, panicked>>

LinkNew(p) == At(p, "linknew") /\ Namex(p, th[p])

(* sys_link, with dp locked: dirlink fails if the name exists. *)
Link3(p) ==
  LET t == th[p]
      i == Dirlookup(t.dp, Head(t.path))
  IN
  /\ At(p, "link3")
  /\ IF i = 0
     THEN /\ dents' = Dirlink(t.dp, Head(t.path), icache[t.old].inum)
          /\ icache' = Iunlock(icache, t.dp)
          /\ Goes(p, PutThen([t EXCEPT !.dp = 0, !.path = <<>>], t.dp, "linked"))
          /\ UNCHANGED <<dinode, panicked>>
     ELSE IF Slot(i) = 0 THEN Panic("iget: no inodes")
     ELSE /\ icache' = Iget(i)
          /\ Goes(p, PutThen(t, Slot(i), "link4"))
          /\ UNCHANGED <<dinode, dents, panicked>>

Link4(p) ==
  LET t == th[p] IN
  /\ At(p, "link4")
  /\ icache' = Iunlock(icache, t.dp)
  /\ Goes(p, PutThen([t EXCEPT !.dp = 0, !.path = <<>>], t.dp, "linkbad"))
  /\ UNCHANGED <<dinode, dents, panicked>>

Linked(p) ==
  /\ At(p, "linked")
  /\ Goes(p, PutThen(Idle, th[p].old, "idle"))
  /\ UNCHANGED <<dinode, dents, icache, panicked>>

LinkBad2(p) == At(p, "linkbad2") /\ DropLink(p, th[p].old)
-----------------------------------------------------------------------------
(* Bookkeeping for LinksCounted: p has entered a name in a directory without links, or in one
   that is itself astray; the inode and, when it is a directory whose .. counts as a link, the
   directory are out of step. *)
Astray(p) ==
  LET t == th[p]
      linked == IF t.pc = "link3" THEN {icache[t.old].inum}
                ELSE {icache[t.ip].inum} \cup
                     (IF t.call.op = "mkdir" THEN {icache[t.dp].inum} ELSE {})
      removed == /\ t.pc \in {"create3", "link3"} /\ dents' # dents
                 /\ icache[t.dp].nlink = 0 \/ icache[t.dp].inum \in astray
  IN  {i \in astray \cup (IF removed THEN linked ELSE {}) : dinode'[i].type # 0}

Step(p) ==
  \/ \E c \in Calls : Call(p, c)
  \/ Ilock(p) \/ Iput(p) \/ Itrunc(p) \/ Ifree(p) \/ Walk(p)
  \/ Opened(p) \/ Close(p)
  \/ Create2(p) \/ CreateHit(p) \/ Create3(p) \/ Created(p)
  \/ Unlink2(p) \/ Unlink3(p) \/ UnlinkBad(p) \/ Unlink4(p)
  \/ Link2(p) \/ LinkNew(p) \/ Link3(p) \/ Link4(p) \/ Linked(p) \/ LinkBad2(p)

Next == \E p \in Procs : Step(p) /\ astray' = Astray(p)

Spec == Init /\ [][Next]_vars
-----------------------------------------------------------------------------
(* Where a thread is in its call, past the iput it may be in; the points where it has the
   pointers ip, dp and old, a path left to look up, and a lock *)
Putting == {"iput", "itrunc", "ifree"}
Point(t) == IF t.pc \in Putting THEN t.ret ELSE t.pc

HasIp == {"namex", "walk", "openlock", "opened", "open", "createold", "createhit", "createnew",
          "create3", "created", "unlinkip", "unlink3", "unlink4", "link", "link2"}
HasDp == {"create", "create2", "createnew", "create3", "unlink", "unlink2", "unlinkip",
          "unlink3", "unlinkbad", "linkdp", "link3", "link4"}
HasOld == {"linknew", "linkdp", "link3", "link4", "linked", "linkbad", "linkbad2"}
HasPath == {"namex", "walk", "create", "create2", "createnew", "create3", "unlink", "unlink2",
            "unlinkip", "unlink3", "linknew", "linkdp", "link3"}
LocksIp == {"walk", "opened", "createhit", "create3", "created", "unlink3", "unlink4", "link2"}
LocksDp == {"create2", "createnew", "create3", "unlink2", "unlinkip", "unlink3", "unlinkbad",
            "link3", "link4"}
Points == HasIp \cup HasDp \cup HasOld \cup {"idle"}
(* The points to which an iput returns *)
Returns == {"idle", "namex", "openlock", "createold", "created", "unlinkbad", "unlink4", "link",
            "link4", "linked", "linkbad"}

(* What a thread, an inode on the disk and an entry of the cache are made of *)
Threads ==
  [pc : Points \cup Putting, call : Calls \cup {None}, path : Seq(Names), ip : Entries \cup {0},
   dp : Entries \cup {0}, old : Entries \cup {0}, put : Entries \cup {0}, ret : Returns]
Dinodes == [type : {0, T_DIR, T_FILE}, nlink : Int]
Cached ==
  [inum : Inums \cup {0}, ref : Nat, busy : Procs \cup {None}, valid : {0, 1},
   type : {0, T_DIR, T_FILE}, nlink : Int]

(* The variables keep their types: no reference count falls below zero, and an entry in use
   names an inode.  That no link count falls below zero is part of NlinkInv. *)
TypeOK ==
  /\ dinode \in [Inums -> Dinodes]
  /\ dents \in [Inums -> [Names -> Inums \cup {0}]]
  /\ icache \in [Entries -> Cached]
  /\ th \in [Procs -> Threads]
  /\ \A e \in Entries : icache[e].ref > 0 => icache[e].inum # 0

(* A thread has the pointers that its place in the call needs, and no others. *)
Shape(t) ==
  LET l == Point(t) IN
  /\ IF t.pc \in Putting THEN t.put # 0 ELSE t.put = 0 /\ t.ret = "idle"
  /\ t.pc \in {"itrunc", "ifree"} => t.put \notin {t.ip, t.dp, t.old}
  /\ t.ip # 0 <=> l \in HasIp
  /\ t.dp # 0 <=> l \in HasDp
  /\ l \in HasOld => t.old # 0
  /\ t.old # 0 => l \in HasOld \cup {"namex", "walk"} /\ t.call.op = "link"
  /\ l \in HasPath => t.path # <<>>
  /\ l \notin {"idle", "open"} => t.call \in Calls
  /\ l \in {"link", "link2"} => t.call.op = "link"
  /\ l \in {"create3", "unlink3"} => t.ip # t.dp

(* The threads whose pointer k is to entry e *)
Users(k, e) == {p \in Procs : th[p][k] = e}

(* ip->ref is the number of pointers to the entry, also while iget and iput race. *)
RefsCounted ==
  \A e \in Entries :
    icache[e].ref = Cardinality(Users("ip", e)) + Cardinality(Users("dp", e))
                    + Cardinality(Users("old", e)) + Cardinality(Users("put", e))

(* I_BUSY is set by the thread that has the inode locked, and by no other; it is never left set. *)
Holds(t, e) ==
  \/ t.ip = e /\ Point(t) \in LocksIp
  \/ t.dp = e /\ Point(t) \in LocksDp
  \/ t.old = e /\ Point(t) = "linkbad2"
  \/ t.put = e /\ t.pc \in {"itrunc", "ifree"}

LocksHeld ==
  \A e \in Entries : /\ \A p \in Procs : icache[e].busy = p <=> Holds(th[p], e)
                     /\ icache[e].busy # None => icache[e].valid = 1

(* An inode has one place in memory: two processes that use it lock the same entry, also
   when iget, iput and ialloc race for it. *)
OneEntry ==
  \A e, f \in Entries :
    icache[e].inum = icache[f].inum /\ icache[e].ref > 0 /\ icache[f].ref > 0 => e = f

CacheInv == (\A p \in Procs : Shape(th[p])) /\ RefsCounted /\ LocksHeld /\ OneEntry
-----------------------------------------------------------------------------
Ino(e) == icache[e].inum
Type(e) == dinode[Ino(e)].type
Nlink(e) == dinode[Ino(e)].nlink

(* p made the inode at e with ialloc and has not locked it. *)
MadeBy(p, e) == Point(th[p]) = "createnew" /\ th[p].ip = e

(* What the disk looks like to the thread t of process p: the inodes it points to are allocated (but
   for the one it has just freed, which a create may have taken since), a new inode is known to
   its maker only, and a name that was looked up with the directory locked is still there. *)
Local(p, t) ==
  LET l == Point(t) IN
  /\ t.ip # 0 => Type(t.ip) # 0
  /\ t.dp # 0 => Type(t.dp) = T_DIR
  /\ t.old # 0 => Type(t.old) = T_FILE
  /\ t.pc = "iput" => Type(t.put) # 0
  /\ t.pc = "itrunc" => Type(t.put) # 0 /\ Nlink(t.put) = 0 /\ icache[t.put].ref = 1
  /\ t.pc = "ifree" => Type(t.put) = 0 \/ \E q \in Procs : MadeBy(q, t.put)
  /\ l \in {"createnew", "create3"} =>
       /\ t.ip # t.dp /\ dinode[Ino(t.ip)] = [type |-> FileType(t), nlink |-> 0]
       /\ dents[Ino(t.ip)] = NoDents
       /\ dents[Ino(t.dp)][Head(t.path)] = 0
       /\ \A q \in Procs : q # p =>
            /\ t.ip \notin {th[q].ip, th[q].dp, th[q].old}
            /\ th[q].put = t.ip => th[q].pc = "ifree"
  /\ l \in {"unlinkip", "unlink3"} => dents[Ino(t.dp)][Head(t.path)] = Ino(t.ip)
  /\ l = "unlink4" => dents[Ino(t.ip)] = NoDents

(* What is cached agrees with the disk, but while the inode is being freed; an inode that has
   not been read from the disk has a link or is new. *)
CacheAgrees ==
  \A e \in Entries : icache[e].ref > 0 =>
    /\ icache[e].valid = 1 =>
         \/ icache[e].type = Type(e) /\ icache[e].nlink = Nlink(e)
         \/ \E p \in Procs : th[p].pc = "ifree" /\ th[p].put = e
    /\ icache[e].valid = 0 => Nlink(e) > 0 \/ \E p \in Procs : MadeBy(p, e)

(* No name stands for a free inode, whatever is unlinked while others open, link or create. *)
NoDangling ==
  \A d \in Inums, n \in Names : dents[d][n] # 0 => dinode[dents[d][n]].type # 0

(* What counts as a link of inode i: the names that stand for it, the .. of its subdirectories,
   the calls of unlink that have erased its name and not yet lowered the count, and those of link
   that have raised the count and not yet entered the name; the root has its own .. as well. *)
NamesOf(i) == {dn \in Inums \X Names : dents[dn[1]][dn[2]] = i}
Subdirs(i) == {n \in Names : dents[i][n] # 0 /\ dinode[dents[i][n]].type = T_DIR}
Unlinking(i) == {p \in Procs : Point(th[p]) = "unlink4" /\ Ino(th[p].ip) = i}
Linking(i) == {p \in Procs : th[p].old # 0 /\ Point(th[p]) # "linked" /\ Ino(th[p].old) = i}
Links(i) ==
  Cardinality(NamesOf(i)) + Cardinality(Subdirs(i)) + Cardinality(Unlinking(i))
  + Cardinality(Linking(i)) + (IF i = ROOTINO THEN 1 ELSE 0)

(* The link count is never too small, and exact but for inodes that are astray. *)
NlinkInv ==
  \A i \in Inums : dinode[i].type # 0 =>
    LET k == Links(i) IN dinode[i].nlink >= k /\ (i \notin astray => dinode[i].nlink = k)

(* Whatever is in a directory that is astray, or that was removed, is astray. *)
Gone(d) == d # ROOTINO /\ NamesOf(d) = {}
AstrayInv ==
  /\ \A d \in Inums : Gone(d) \/ d \in astray => \A n \in Names : dents[d][n] \in astray \cup {0}
  /\ \A d \in Inums : Subdirs(d) # {} /\ Gone(d) => d \in astray
  /\ \A i \in astray : i \in Inums /\ dinode[i].type # 0

(* The directories are a forest: any set of them has one without a subdirectory in the set. *)
DirsInv ==
  /\ dinode[ROOTINO].type = T_DIR
  /\ \A d \in Inums : dinode[d].type # T_DIR => dents[d] = NoDents
  /\ \A S \in SUBSET Inums : S # {} =>
       \E d \in S : \A n \in Names : dents[d][n] \in S => dinode[dents[d][n]].type # T_DIR

(* An inode without links is in the hands of some process, so that iput will free it. *)
NotLost ==
  \A i \in Inums : dinode[i].type # 0 /\ dinode[i].nlink = 0 =>
    \E e \in Entries : icache[e].ref > 0 /\ Ino(e) = i

DiskInv ==
  /\ \A p \in Procs : Local(p, th[p])
  /\ \A i \in Inums : dinode[i].type = 0 => dinode[i].nlink = 0
  /\ CacheAgrees /\ NoDangling /\ NlinkInv /\ AstrayInv /\ DirsInv /\ NotLost

(* The inode cache and the directories agree: an inode in use has one entry, with as many
   references as there are pointers to it, locked by the process that set its lock and in step
   with the disk; no name stands for a free inode; the directories are a forest; and link counts
   account for the names, also in the middle of link and unlink. *)
FsInv == TypeOK /\ CacheInv /\ DiskInv

(* The panics about inconsistent inodes are not reached. *)
NoFsPanic == panicked \notin {"ilock: no type", "iput busy", "unlink: nlink < 1"}

(* The process that holds the inode a process waits for *)
WaitsFor(p) == IF th[p].pc \in DOMAIN LockSite THEN icache[Wanted(p)].busy ELSE None

(* Processes never wait for each other's inodes in a circle: unlink and create lock two
   inodes, always the parent first. *)
NoLockCycle ==
  \A ps \in SUBSET Procs : ps # {} => \E p \in ps : WaitsFor(p) \notin ps

Quiet == \A p \in Procs : th[p].pc \in {"idle", "open"}

(* When no call is in progress, an inode without links is either free or open. *)
UnlinkedIsFreed ==
  Quiet => \A i \in Inums : dinode[i].type # 0 /\ dinode[i].nlink = 0
             => \E p \in Procs : th[p].pc = "open" /\ icache[th[p].ip].inum = i

(* When no call is in progress, the link count of an inode is the number of directory entries
   that refer to it, those of the .. of its subdirectories included.  The exception is an inode
   that create or link entered in a directory another process had removed since nameiparent
   returned it: nobody looks at dp->nlink, and the inode keeps a link that no name accounts for. *)
LinksCounted ==
  Quiet => \A i \in Inums \ astray : dinode[i].type # 0 =>
    dinode[i].nlink =
      Cardinality(NamesOf(i)) + Cardinality(Subdirs(i)) + (IF i = ROOTINO THEN 1 ELSE 0)
=============================================================================
