------------------------------ MODULE Syscalls ------------------------------
(***************************************************************************)
(* The system calls as a user program sees them: files and directories by  *)
(* name, descriptors, pipes, processes and their memory (src/xv6/sysfile.c,*)
(* sysproc.c and the functions below them).                                *)
(*                                                                         *)
(* A call is one step; what happens inside one, the locks, the log and the *)
(* caches, is in the modules Fs, FileTable, Pipe, Process, Vm and Log.  A  *)
(* program is a sequence of calls, each with the result the program wants: *)
(* "ok", "fail", "any", or "need" when it exits without it.  Processes     *)
(* interleave; a call that has to wait is not enabled.  init (process 1)   *)
(* reaps its children at once.  The system is the record s: the inodes ino,*)
(* the open files file, the pipes pipe, the processes task, what was       *)
(* written to the console out, and whether a program met a result it did   *)
(* not want, oops.                                                         *)
(***************************************************************************)
EXTENDS Integers, Sequences, FiniteSets, FiniteSetsExt, SequencesExt, TLC

CONSTANTS
  NINO, NFILE, NOFILE, NPIPE, NPROC,   \* sizes of the tables
  MAXFILE, PIPESIZE,                   \* bytes in a file, and in a pipe
  PGSIZE, NPAGES,                      \* bytes in a page, pages of user memory
  STACK                                \* bytes of arguments that fit on a new stack

Fds == 0..(NOFILE - 1)
INIT == 1
ROOTINO == 1

NoInode == [type |-> "free", nlink |-> 0, ent |-> <<>>, data |-> <<>>]
NoFile == [type |-> "none", obj |-> 0, off |-> 0, r |-> FALSE, w |-> FALSE]
NoTask == [st |-> "unused", prog |-> <<>>, fd |-> [d \in Fds |-> 0], var |-> <<>>, got |-> <<>>,
           cwd |-> 0, par |-> 0, killed |-> FALSE, mem |-> <<>>, sz |-> 0]

Ret(s, r) == [s |-> s, r |-> r, data |-> <<>>, then |-> <<>>]
-----------------------------------------------------------------------------
(* skipelem: a component has at most DIRSIZ = 14 characters. *)
skipelem(n) == IF n = "123456789012345" THEN "12345678901234" ELSE n

Names(p) == LET q == IF p # <<>> /\ Head(p) = "/" THEN Tail(p) ELSE p
            IN  [i \in DOMAIN q |-> skipelem(q[i])]

Isdir(s, i) == i # 0 /\ s.ino[i].type = "dir"

Dirlookup(s, d, n) ==
  IF Isdir(s, d) /\ n \in DOMAIN s.ino[d].ent THEN s.ino[d].ent[n] ELSE 0

(* namex: 0 when a name is missing or a component on the way is not a directory *)
namex(s, t, p, q) ==
  FoldLeft(LAMBDA d, n : Dirlookup(s, d, n),
           IF p # <<>> /\ Head(p) = "/" THEN ROOTINO ELSE s.task[t].cwd, q)

namei(s, t, p) == namex(s, t, p, Names(p))

nameiparent(s, t, p) ==
  LET d == IF Names(p) = <<>> THEN 0 ELSE namex(s, t, p, Front(Names(p)))
  IN  IF Isdir(s, d) THEN d ELSE 0

(* dirlink *)
Dirlink(s, d, n, i) == [s EXCEPT !.ino[d].ent = (n :> i) @@ @]

(* create: the inode, or 0 *)
create(s, t, p, type) ==
  LET d == nameiparent(s, t, p)
      n == Last(Names(p))
      old == Dirlookup(s, d, n)
      i == Min({j \in DOMAIN s.ino : s.ino[j].type = "free"})
      s1 == [s EXCEPT !.ino[i] = [NoInode EXCEPT
               !.type = type, !.nlink = 1,
               !.ent = IF type = "dir" THEN (".." :> d) @@ ("." :> i) ELSE <<>>],
             !.ino[d].nlink = IF type = "dir" THEN @ + 1 ELSE @]
  IN  IF d = 0 THEN [s |-> s, i |-> 0]
      ELSE IF old # 0
           THEN [s |-> s, i |-> IF type = "file" /\ s.ino[old].type = "file" THEN old ELSE 0]
           ELSE [s |-> Dirlink(s1, d, n, i), i |-> i]

sys_mkdir(s, t, p) == LET c == create(s, t, p, "dir") IN Ret(c.s, IF c.i = 0 THEN -1 ELSE 0)

sys_chdir(s, t, p) ==
  LET i == namei(s, t, p)
  IN  IF Isdir(s, i) THEN Ret([s EXCEPT !.task[t].cwd = i], 0) ELSE Ret(s, -1)

sys_link(s, t, p, q) ==
  LET i == namei(s, t, p)
      d == nameiparent(s, t, q)
  IN  IF i = 0 \/ Isdir(s, i) \/ d = 0 \/ Dirlookup(s, d, Last(Names(q))) # 0
      THEN Ret(s, -1)
      ELSE Ret([Dirlink(s, d, Last(Names(q)), i) EXCEPT !.ino[i].nlink = @ + 1], 0)

isdirempty(s, i) == DOMAIN s.ino[i].ent = {".", ".."}

sys_unlink(s, t, p) ==
  LET d == nameiparent(s, t, p)
      n == Last(Names(p))
      i == Dirlookup(s, d, n)
      dir == Isdir(s, i)
  IN  IF d = 0 \/ n \in {".", ".."} \/ i = 0 \/ (dir /\ ~isdirempty(s, i))
      THEN Ret(s, -1)
      ELSE Ret([s EXCEPT !.ino[i].nlink = @ - 1,
                         !.ino[d].nlink = IF dir THEN @ - 1 ELSE @,
                         !.ino[d].ent = [m \in DOMAIN @ \ {n} |-> @[m]]], 0)
-----------------------------------------------------------------------------
fdalloc(s, t) == {d \in Fds : s.task[t].fd[d] = 0}
filealloc(s) == {f \in DOMAIN s.file : s.file[f].type = "none"}

(* argfd: the file of the descriptor in variable v, 0 if it is not open *)
argfd(s, t, v) == LET d == s.task[t].var[v] IN IF d \in Fds THEN s.task[t].fd[d] ELSE 0

Install(s, t, f, file) ==
  LET d == Min(fdalloc(s, t))
  IN  Ret([s EXCEPT !.file[f] = file, !.task[t].fd[d] = f], d)

sys_open(s, t, p, mode) ==
  LET c == IF "CREATE" \in mode THEN create(s, t, p, "file") ELSE [s |-> s, i |-> namei(s, t, p)]
  IN  IF c.i = 0 \/ (Isdir(c.s, c.i) /\ mode # {}) \/ filealloc(s) = {} \/ fdalloc(s, t) = {}
      THEN Ret(c.s, -1)
      ELSE Install(c.s, t, Min(filealloc(s)),
                   [type |-> "inode", obj |-> c.i, off |-> 0, r |-> "WRONLY" \notin mode,
                    w |-> mode \cap {"WRONLY", "RDWR"} # {}])

sys_dup(s, t, v) ==
  LET f == argfd(s, t, v)
  IN  IF f = 0 \/ fdalloc(s, t) = {} THEN Ret(s, -1) ELSE Install(s, t, f, s.file[f])

sys_close(s, t, v) ==
  IF argfd(s, t, v) = 0 THEN Ret(s, -1) ELSE Ret([s EXCEPT !.task[t].fd[s.task[t].var[v]] = 0], 0)

(* sys_pipe: the descriptors go to the variables v and w. *)
sys_pipe(s, t, v, w) ==
  LET n == Min({k \in 1..NPIPE : \A f \in DOMAIN s.file : s.file[f].type = "pipe" => s.file[f].obj # k})
      end == [NoFile EXCEPT !.type = "pipe", !.obj = n]
      a == Install(s, t, Min(filealloc(s)), [end EXCEPT !.r = TRUE])
      b == Install(a.s, t, Min(filealloc(a.s)), [end EXCEPT !.w = TRUE])
  IN  IF Cardinality(filealloc(s)) < 2 \/ Cardinality(fdalloc(s, t)) < 2
      THEN Ret(s, -1)
      ELSE Ret([b.s EXCEPT !.pipe[n] = <<>>, !.task[t].var = (v :> a.r) @@ (w :> b.r) @@ @], 0)

PipeEnds(s, f) == {g \in DOMAIN s.file : s.file[g].type = "pipe" /\ s.file[g].obj = s.file[f].obj}
Readers(s, f) == {g \in PipeEnds(s, f) : s.file[g].r}
Writers(s, f) == {g \in PipeEnds(s, f) : s.file[g].w}

Take(s, data) == [Ret(s, Len(data)) EXCEPT !.data = data]

(* fileread: at most n bytes *)
sys_read(s, t, v, n) ==
  LET f == argfd(s, t, v)
      x == s.file[f]
      bytes == IF x.type = "inode" THEN SubSeq(s.ino[x.obj].data, x.off + 1, Len(s.ino[x.obj].data))
               ELSE IF x.type = "pipe" THEN s.pipe[x.obj] ELSE <<>>
      k == Min({n, Len(bytes)})
  IN  IF f = 0 \/ ~x.r THEN Ret(s, -1)
      ELSE Take(IF x.type = "inode" THEN [s EXCEPT !.file[f].off = @ + k]
                ELSE IF x.type = "pipe" THEN [s EXCEPT !.pipe[x.obj] = SubSeq(@, k + 1, Len(@))]
                ELSE s,
                SubSeq(bytes, 1, k))

(* Faulty: the offset of the file is not moved. *)
AdvanceNot(s, f, n) == s

(* f->off += r, in the file all its descriptors share *)
Advance(s, f, n) == [s EXCEPT !.file[f].off = @ + n]

(* filewrite; a write to a pipe goes on with what did not fit. *)
sys_write(s, t, i) ==
  LET f == argfd(s, t, i.v)
      x == s.file[f]
      n == Len(i.data)
      k == Min({n, PIPESIZE - Len(s.pipe[x.obj])})
  IN  IF f = 0 \/ ~x.w THEN Ret(s, -1)
      ELSE IF x.type = "cons" THEN Ret([s EXCEPT !.out = @ \o i.data], n)
      ELSE IF x.type = "pipe"
           THEN IF Readers(s, f) = {} THEN Ret(s, -1)
                ELSE [Ret([s EXCEPT !.pipe[x.obj] = @ \o SubSeq(i.data, 1, k)], k)
                      EXCEPT !.then = IF k = n THEN <<>>
                                      ELSE <<[i EXCEPT !.data = SubSeq(@, k + 1, n)]>>]
      ELSE IF x.off + n > MAXFILE THEN Ret(s, -1)
      ELSE Ret(Advance([s EXCEPT !.ino[x.obj].data =
                          SubSeq(@, 1, x.off) \o i.data \o SubSeq(@, x.off + n + 1, Len(@))], f, n), n)
-----------------------------------------------------------------------------
Pages(n) == (n + PGSIZE - 1) \div PGSIZE
FreePages(s) == NPAGES - FoldSet(LAMBDA t, a : a + Len(s.task[t].mem) \div PGSIZE, 0, DOMAIN s.task)

(* growproc: pages that are added are zero, pages that are left are freed. *)
sys_sbrk(s, t, n) ==
  LET old == s.task[t].sz
      more == Pages(old + n) - Pages(old)
  IN  IF more > FreePages(s) THEN Ret(s, -1)
      ELSE Ret([s EXCEPT !.task[t].sz = old + n,
                         !.task[t].mem = [a \in 1..(Pages(old + n) * PGSIZE) |->
                                            IF a \in DOMAIN @ THEN @[a] ELSE 0]], old)

Children(s, t) == {c \in DOMAIN s.task : s.task[c].st # "unused" /\ s.task[c].par = t}

(* fork: the child runs its own part of the program. *)
sys_fork(s, t, child) ==
  LET free == {c \in DOMAIN s.task : s.task[c].st = "unused"}
      c == Min(free)
  IN  IF free = {} \/ Pages(s.task[t].sz) > FreePages(s) THEN Ret(s, -1)
      ELSE Ret([s EXCEPT !.task[c] = [s.task[t] EXCEPT !.prog = child, !.par = t, !.killed = FALSE]], c)

(* exit: the files and the directory are let go, the children go to init. *)
sys_exit(s, t) ==
  LET Now(c) == LET p == s.task[c]
                    par == IF p.par = t THEN INIT ELSE p.par
                IN  IF (c = t \/ p.st = "zombie") /\ par = INIT THEN NoTask
                    ELSE IF c = t THEN [NoTask EXCEPT !.st = "zombie", !.par = par, !.mem = p.mem]
                    ELSE [p EXCEPT !.par = par]
  IN  [s EXCEPT !.task = [c \in DOMAIN s.task |-> Now(c)]]

Zombies(s, t) == {c \in Children(s, t) : s.task[c].st = "zombie"}

sys_wait(s, t) ==
  IF Zombies(s, t) = {} THEN Ret(s, -1)
  ELSE LET c == Min(Zombies(s, t)) IN Ret([s EXCEPT !.task[c] = NoTask], c)

sys_kill(s, v) ==
  IF v \in DOMAIN s.task /\ s.task[v].st # "unused"
  THEN Ret([s EXCEPT !.task[v].killed = TRUE], 0) ELSE Ret(s, -1)

(* exec: n bytes of arguments; image is the program in the file. *)
sys_exec(s, t, p, n, image) ==
  IF namei(s, t, p) = 0 \/ n > STACK THEN Ret(s, -1)
  ELSE Ret([s EXCEPT !.task[t].prog = <<[op |-> "exec"]>> \o image], 0)
=============================================================================
