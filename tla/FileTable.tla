----------------------------- MODULE FileTable ------------------------------
(***************************************************************************)
(* The table of open files and the descriptors of processes: open, dup,    *)
(* close, pipe, fork and exit, with every way they fail half-way.  A step  *)
(* is one hold of ftable.lock or the work between two; the slots of the    *)
(* table, the descriptors and the pages for pipes may all run out.         *)
(***************************************************************************)
EXTENDS Integers, Sequences, FiniteSetsExt

CONSTANTS
  FProcs,    \* process slots
  InitP,     \* the one that init has: it never exits
  NOFILE,    \* descriptors per process
  NFILE,     \* slots of the table
  Pipes,     \* pages kalloc can give to pipes
  NoneF      \* no file, no pipe, no process

VARIABLES
  ftable,    \* slot -> [ref, type, pipe, writable]
  ofile,     \* process -> descriptor -> slot, 0 when closed
  call,      \* process -> the system call it is in
  alive,     \* processes that may call
  pipes      \* pipe -> its ends that are open

fileVars == <<ftable, ofile, call, alive, pipes>>

Slots == 1..NFILE
Fds == 0..NOFILE - 1
Returned == [pc |-> "user", files |-> <<>>, ff |-> NoneF, child |-> NoneF, fd |-> 0]
Blank == [ref |-> 0, type |-> "FD_NONE", pipe |-> NoneF, writable |-> 0]
Is(p, pc) == p \in alive /\ call[p].pc = pc
Goto(p, c) == call' = [call EXCEPT ![p] = c]

TablesInit ==
  /\ ftable = [f \in Slots |-> Blank]
  /\ alive = {InitP}
  /\ ofile = [p \in FProcs |-> [fd \in Fds |-> 0]]
  /\ call = [p \in FProcs |-> Returned]
  /\ pipes = [q \in Pipes |-> {}]

\* The first free slot, or 0.
FreeSlot == LET free == {f \in Slots : ftable[f].ref = 0} IN IF free = {} THEN 0 ELSE Min(free)

\* fdalloc: the process's descriptors with f in the first free one.
FdFull(fds) == \A fd \in Fds : fds[fd] # 0
fdalloc(fds, f) == [fds EXCEPT ![Min({fd \in Fds : fds[fd] = 0})] = f]

\* filealloc, by sys_open or as the first or second of pipealloc.  Failing, the
\* caller closes what it has.
filealloc(p, next) ==
  IF FreeSlot = 0
  THEN /\ Goto(p, [call[p] EXCEPT !.pc = "close"])
       /\ UNCHANGED ftable
  ELSE /\ Goto(p, [call[p] EXCEPT !.pc = next, !.files = Append(@, FreeSlot)])
       /\ ftable' = [ftable EXCEPT ![FreeSlot].ref = 1]

SysOpen(p) ==
  /\ Is(p, "user") /\ filealloc(p, "opened")
  /\ UNCHANGED <<ofile, alive, pipes>>

\* The type is set only when the descriptor is there.
SysOpenInstall(p) ==
  /\ Is(p, "opened")
  /\ LET f == call[p].files[1]
     IN IF FdFull(ofile[p])
        THEN Goto(p, [call[p] EXCEPT !.pc = "close"]) /\ UNCHANGED <<ofile, ftable>>
        ELSE /\ ofile' = [ofile EXCEPT ![p] = fdalloc(@, f)]
             /\ ftable' = [ftable EXCEPT ![f].type = "FD_INODE"]
             /\ Goto(p, Returned)
  /\ UNCHANGED <<alive, pipes>>

SysPipe(p) ==
  /\ \/ Is(p, "user") /\ filealloc(p, "pipe1")
     \/ Is(p, "pipe1") /\ filealloc(p, "pipe2")
  /\ UNCHANGED <<ofile, alive, pipes>>

\* pipealloc from kalloc on.
Pipealloc(p) ==
  /\ Is(p, "pipe2")
  /\ LET free == {q \in Pipes : pipes[q] = {}}
         End(q, w) == [ref |-> 1, type |-> "FD_PIPE", pipe |-> q, writable |-> w]
     IN IF free = {}
        THEN Goto(p, [call[p] EXCEPT !.pc = "close"]) /\ UNCHANGED <<ftable, pipes>>
        ELSE \E q \in free :
               /\ ftable' = [ftable EXCEPT ![call[p].files[1]] = End(q, 0), ![call[p].files[2]] = End(q, 1)]
               /\ pipes' = [pipes EXCEPT ![q] = {0, 1}]
               /\ Goto(p, [call[p] EXCEPT !.pc = "pipe3"])
  /\ UNCHANGED <<ofile, alive>>

\* Faulty: when the second descriptor is refused the first one stays.
PipeInstallKeeps(p) ==
  /\ Is(p, "pipe3")
  /\ LET rf == call[p].files[1]
         wf == call[p].files[2]
     IN IF FdFull(ofile[p])
        THEN Goto(p, [call[p] EXCEPT !.pc = "close"]) /\ UNCHANGED ofile
        ELSE IF FdFull(fdalloc(ofile[p], rf))
        THEN ofile' = [ofile EXCEPT ![p] = fdalloc(@, rf)] /\ Goto(p, [call[p] EXCEPT !.pc = "close"])
        ELSE ofile' = [ofile EXCEPT ![p] = fdalloc(fdalloc(@, rf), wf)] /\ Goto(p, Returned)
  /\ UNCHANGED <<ftable, alive, pipes>>

\* The rest of sys_pipe: both descriptors or neither.
SysPipeInstall(p) ==
  /\ Is(p, "pipe3")
  /\ LET rf == call[p].files[1]
         wf == call[p].files[2]
     IN IF FdFull(ofile[p]) \/ FdFull(fdalloc(ofile[p], rf))
        THEN Goto(p, [call[p] EXCEPT !.pc = "close"]) /\ UNCHANGED ofile
        ELSE ofile' = [ofile EXCEPT ![p] = fdalloc(fdalloc(@, rf), wf)] /\ Goto(p, Returned)
  /\ UNCHANGED <<ftable, alive, pipes>>

\* sys_dup: the descriptor first, then the count.
SysDup(p, fd) ==
  /\ Is(p, "user") /\ ofile[p][fd] # 0 /\ ~FdFull(ofile[p])
  /\ ofile' = [ofile EXCEPT ![p] = fdalloc(@, ofile[p][fd])]
  /\ Goto(p, [Returned EXCEPT !.pc = "dup", !.files = <<ofile[p][fd]>>])
  /\ UNCHANGED <<ftable, alive, pipes>>

Filedup(p) ==
  /\ Is(p, "dup")
  /\ ftable' = [ftable EXCEPT ![call[p].files[1]].ref = @ + 1]
  /\ Goto(p, Returned)
  /\ UNCHANGED <<ofile, alive, pipes>>

SysClose(p, fd) ==
  /\ Is(p, "user") /\ ofile[p][fd] # 0
  /\ ofile' = [ofile EXCEPT ![p][fd] = 0]
  /\ Goto(p, [Returned EXCEPT !.pc = "close", !.files = <<ofile[p][fd]>>])
  /\ UNCHANGED <<ftable, alive, pipes>>

\* What becomes of a slot whose last reference goes.  (The pipe and mode left
\* in it mean nothing without a type, and are dropped here.)
LastRef(s) == Blank

\* fileclose under the lock: of what close, or exit, or a failed call must
\* give up.  With the last reference, a copy is kept for the rest.
Fileclose(p) ==
  /\ Is(p, "close") /\ call[p].files # <<>> /\ call[p].ff = NoneF
  /\ LET f == Head(call[p].files)
         s == ftable[f]
     IN IF s.ref > 1
        THEN /\ ftable' = [ftable EXCEPT ![f].ref = @ - 1]
             /\ Goto(p, [call[p] EXCEPT !.files = Tail(@)])
        ELSE /\ ftable' = [ftable EXCEPT ![f] = LastRef(@)]
             /\ Goto(p, [call[p] EXCEPT !.files = Tail(@), !.ff = s])
  /\ UNCHANGED <<ofile, alive, pipes>>

\* The rest of fileclose: pipeclose (or iput, which is module Fs's).
FilecloseRest(p) ==
  /\ Is(p, "close") /\ call[p].ff # NoneF
  /\ LET ff == call[p].ff
     IN pipes' = IF ff.type = "FD_PIPE" THEN [pipes EXCEPT ![ff.pipe] = @ \ {ff.writable}] ELSE pipes
  /\ Goto(p, [call[p] EXCEPT !.ff = NoneF])
  /\ UNCHANGED <<ftable, ofile, alive>>

\* The call returns; exit's loop has closed every descriptor.
CloseReturn(p) ==
  /\ Is(p, "close") /\ call[p].files = <<>> /\ call[p].ff = NoneF
  /\ Goto(p, Returned)
  /\ alive' = IF call[p].child = p THEN alive \ {p} ELSE alive
  /\ UNCHANGED <<ftable, ofile, pipes>>

\* exit: its loop closes the open descriptors, one by one.  What it has not
\* closed yet only it can see.
Exit(p) ==
  /\ Is(p, "user") /\ p # InitP
  /\ Goto(p, [Returned EXCEPT !.pc = "close", !.child = p,
                !.files = SelectSeq([k \in 1..NOFILE |-> ofile[p][k - 1]], LAMBDA f : f # 0)])
  /\ ofile' = [ofile EXCEPT ![p] = [fd \in Fds |-> 0]]
  /\ UNCHANGED <<ftable, alive, pipes>>

\* fork: the child's slot, then a filedup for every open descriptor; the child
\* runs when it has them all.
Fork(p, c) ==
  /\ Is(p, "user") /\ c \notin alive /\ ~\E q \in FProcs : q # c /\ call[q].child = c
  /\ Goto(p, [Returned EXCEPT !.pc = "fork", !.child = c])
  /\ UNCHANGED <<ftable, ofile, alive, pipes>>

ForkDup(p) ==
  /\ Is(p, "fork")
  /\ LET fd == call[p].fd
         f == ofile[p][fd]
         c == call[p].child
     IN IF fd = NOFILE
        THEN alive' = alive \cup {c} /\ Goto(p, Returned) /\ UNCHANGED <<ftable, ofile>>
        ELSE /\ ofile' = [ofile EXCEPT ![c][fd] = f]
             /\ ftable' = IF f = 0 THEN ftable ELSE [ftable EXCEPT ![f].ref = @ + 1]
             /\ Goto(p, [call[p] EXCEPT !.fd = fd + 1])
             /\ UNCHANGED alive
  /\ UNCHANGED pipes

TablesNext ==
  \E p \in FProcs :
    \/ SysOpen(p) \/ SysOpenInstall(p) \/ SysPipe(p) \/ Pipealloc(p) \/ SysPipeInstall(p)
    \/ Filedup(p) \/ Fileclose(p) \/ FilecloseRest(p) \/ CloseReturn(p) \/ Exit(p) \/ ForkDup(p)
    \/ \E fd \in Fds : SysDup(p, fd) \/ SysClose(p, fd)
    \/ \E c \in FProcs \ {p} : Fork(p, c)

-----------------------------------------------------------------------------
\* References to slot f: descriptors, and files calls hold on to.  A dup in
\* progress has its descriptor but not yet its count.
Refs(f) ==
  Cardinality({pf \in FProcs \X Fds : ofile[pf[1]][pf[2]] = f})
    + MapThenSumSet(LAMBDA p : LET held == Cardinality({k \in DOMAIN call[p].files : call[p].files[k] = f})
                               IN IF call[p].pc = "dup" THEN -held ELSE held, FProcs)

\* Every slot counts exactly its references, however open, pipe, dup, fork,
\* close and exit of several processes interleave and wherever they fail; a free
\* slot has no type, so the failure paths of pipealloc and sys_open never close
\* a pipe that is somebody else's; and an end of a pipe is open exactly while a
\* slot in use, or a fileclose in progress, stands for it: the page is freed once.
FilesCounted ==
  /\ \A f \in Slots : ftable[f].ref = Refs(f)
  /\ \A f \in Slots : ftable[f].ref = 0 => ftable[f].type = "FD_NONE"
  /\ \A q \in Pipes, w \in {0, 1} :
       LET users == {f \in Slots : ftable[f].type = "FD_PIPE" /\ ftable[f].pipe = q /\ ftable[f].writable = w}
           closing == {p \in FProcs : call[p].ff # NoneF /\ call[p].ff.type = "FD_PIPE"
                                        /\ call[p].ff.pipe = q /\ call[p].ff.writable = w}
       IN Cardinality(users) + Cardinality(closing) = (IF w \in pipes[q] THEN 1 ELSE 0)
=============================================================================
