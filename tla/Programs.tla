------------------------------ MODULE Programs ------------------------------
(***************************************************************************)
(* User programs as sequences of system calls (module Syscalls), run by    *)
(* processes that interleave call by call; a variable of a program is a    *)
(* name in var, and every name used has been assigned.                     *)
(***************************************************************************)
EXTENDS Syscalls

VARIABLES
  sys,    \* the system: a record, see Syscalls
  goal    \* what the console shows when all is over, <<"any">> if that is not said

programVars == <<sys, goal>>

(* The calls.  w is what the program wants, v the variable for the result. *)
open(v, p, mode, w) == [op |-> "open", v |-> v, p |-> p, mode |-> mode, w |-> w]
close(v) == [op |-> "close", v |-> v, w |-> "any"]
dup(v) == [op |-> "dup", v |-> v, w |-> "any"]
pipe(v1, v2, w) == [op |-> "pipe", v |-> v1, v2 |-> v2, w |-> w]
write(v, data, w) == [op |-> "write", v |-> v, data |-> data, w |-> w]
mkdir(p, w) == [op |-> "mkdir", p |-> p, w |-> w]
chdir(p, w) == [op |-> "chdir", p |-> p, w |-> w]
unlink(p, w) == [op |-> "unlink", p |-> p, w |-> w]
link(p, q, w) == [op |-> "link", p |-> p, q |-> q, w |-> w]
fork(v, child, w) == [op |-> "fork", v |-> v, child |-> child, w |-> w]
wait(w) == [op |-> "wait", w |-> w]
kill(v) == [op |-> "kill", v |-> v, w |-> "any"]
exec(p, n, image) == [op |-> "exec", p |-> p, n |-> n, image |-> image, w |-> "any"]
exit == [op |-> "exit"]
(* sbrk(n); sbrkto(x): sbrk of what is missing to the size in x *)
sbrk(v, n, w) == [op |-> "sbrk", v |-> v, n |-> n, w |-> w]
sbrkto(v, x, w) == [op |-> "sbrkto", v |-> v, x |-> x, w |-> w]
(* read, which wants n bytes, the first of them c; the loop that reads m bytes at a time, or m,
   2m, 4m ... when m doubles, to the end, each read full when all is set; and its check *)
read(v, m, n, c) == [op |-> "read", v |-> v, m |-> m, n |-> n, c |-> c, w |-> "read"]
drain(v, m, k, all) == [op |-> "drain", v |-> v, m |-> m, k |-> k, all |-> all, w |-> "drain"]
expect(data) == [op |-> "expect", data |-> data, w |-> "ok"]
expectCount(c, n) == [op |-> "count", c |-> c, n |-> n, w |-> "ok"]
(* while((n = read(v)) > 0) write(v2), each value raised by inc, until it is last *)
copy(v, v2, inc, last) == [op |-> "copy", v |-> v, v2 |-> v2, inc |-> inc, last |-> last, w |-> "any"]
(* the names in a directory; *a = x and x = *a; x == y + n; a loop that never ends; a message
   that something is wrong; fork until it fails, then wait for them all *)
list(v, names) == [op |-> "list", v |-> v, names |-> names, w |-> "ok"]
store(a, x) == [op |-> "store", a |-> a, x |-> x, w |-> "ok"]
load(v, a) == [op |-> "load", v |-> v, a |-> a, w |-> "any"]
same(v, v2, n) == [op |-> "same", v |-> v, v2 |-> v2, n |-> n, w |-> "ok"]
spin == [op |-> "spin"]
wrong == [op |-> "wrong", w |-> "ok"]
forkmany(n) == [op |-> "forkmany", n |-> n, w |-> "any"]
waitmany(n) == [op |-> "waitmany", n |-> n, w |-> "ok"]
-----------------------------------------------------------------------------
Then(r, i) == [r EXCEPT !.then = @ \o i]

(* The result of call i of process t. *)
Call(s, t, i) ==
  LET me == s.task[t] IN
  CASE i.op = "open" -> sys_open(s, t, i.p, i.mode)
    [] i.op = "close" -> sys_close(s, t, i.v)
    [] i.op = "dup" -> sys_dup(s, t, i.v)
    [] i.op = "pipe" -> sys_pipe(s, t, i.v, i.v2)
    [] i.op = "write" -> sys_write(s, t, i)
    [] i.op = "mkdir" -> sys_mkdir(s, t, i.p)
    [] i.op = "chdir" -> sys_chdir(s, t, i.p)
    [] i.op = "unlink" -> sys_unlink(s, t, i.p)
    [] i.op = "link" -> sys_link(s, t, i.p, i.q)
    [] i.op = "fork" -> sys_fork(s, t, i.child)
    [] i.op = "wait" -> sys_wait(s, t)
    [] i.op = "kill" -> sys_kill(s, me.var[i.v])
    [] i.op = "exec" -> sys_exec(s, t, i.p, i.n, i.image)
    [] i.op = "sbrk" -> sys_sbrk(s, t, i.n)
    [] i.op = "sbrkto" -> sys_sbrk(s, t, me.var[i.x] - me.sz)
    [] i.op = "read" -> sys_read(s, t, i.v, i.m)
    [] i.op = "drain" ->
         LET r == sys_read(s, t, i.v, i.m)
         IN  IF r.r <= 0 THEN r
             ELSE Then([r EXCEPT !.s.task[t].got = @ \o r.data], <<[i EXCEPT !.m = @ * i.k]>>)
    [] i.op = "copy" ->
         LET r == sys_read(s, t, i.v, 1)
         IN  IF r.r <= 0 \/ (i.inc > 0 /\ r.data = <<i.last>>) THEN r
             ELSE Then(r, <<write(i.v2, IF i.inc = 0 THEN r.data ELSE <<r.data[1] + i.inc>>, "any"), i>>)
    [] i.op = "expect" -> Ret([s EXCEPT !.task[t].got = <<>>], IF me.got = i.data THEN 0 ELSE -1)
    [] i.op = "count" -> Ret(s, IF Len(SelectSeq(me.got, LAMBDA c : c = i.c)) = i.n THEN 0 ELSE -1)
    [] i.op = "list" ->
         Ret(s, IF i.names \subseteq DOMAIN s.ino[s.file[argfd(s, t, i.v)].obj].ent THEN 0 ELSE -1)
    [] i.op = "store" -> Ret([s EXCEPT !.task[t].mem[me.var[i.a]] = i.x], 0)
    [] i.op = "load" ->
         IF me.var[i.a] \in DOMAIN me.mem THEN Ret(s, me.mem[me.var[i.a]])
         ELSE Ret([s EXCEPT !.task[t].killed = TRUE], 0)
    [] i.op = "same" -> Ret(s, IF me.var[i.v] = me.var[i.v2] + i.n THEN 0 ELSE -1)
    [] i.op = "wrong" -> Ret(s, -1)
    [] i.op = "forkmany" ->
         LET r == sys_fork(s, t, <<>>)
         IN  Then(r, IF r.r < 0 THEN <<waitmany(i.n)>> ELSE <<forkmany(i.n + 1)>>)
    [] i.op = "waitmany" ->
         IF i.n = 0 THEN Then(Ret(s, 0), <<wait("fail")>>)
         ELSE Then(sys_wait(s, t), <<waitmany(i.n - 1)>>)

(* The call can return; a killed process leaves whatever it waits for. *)
Ready(s, t, i) ==
  \/ s.task[t].killed
  \/ LET f == IF "v" \in DOMAIN i /\ i.op \in {"read", "drain", "copy", "write"}
              THEN argfd(s, t, i.v) ELSE 0
         onpipe == f # 0 /\ s.file[f].type = "pipe"
         p == s.pipe[s.file[f].obj]
     IN  CASE i.op \in {"read", "drain", "copy"} ->
                onpipe /\ s.file[f].r => p # <<>> \/ Writers(s, f) = {}
           [] i.op = "write" ->
                onpipe /\ s.file[f].w => Len(p) < PIPESIZE \/ Readers(s, f) = {}
           [] i.op = "wait" \/ (i.op = "waitmany" /\ i.n > 0) ->
                Zombies(s, t) # {} \/ Children(s, t) = {}
           [] OTHER -> i.op # "spin"

Wanted(i, r, me) ==
  CASE i.w = "ok" -> r.r >= 0
    [] i.w = "pid" -> r.r = me.var["pid"]
    [] i.w = "fail" -> r.r < 0
    [] i.w = "read" -> r.r = i.n /\ (r.data # <<>> /\ i.c # "any" => Head(r.data) = i.c)
    [] i.w = "drain" -> r.r >= 0 /\ (i.all /\ r.r > 0 => r.r = i.m)
    [] OTHER -> TRUE

(* Files nobody has open are closed (fileclose), and inodes without a name or a user freed (iput). *)
Release(s) ==
  LET held == {s.task[t].fd[d] : t \in DOMAIN s.task, d \in Fds}
      file == [f \in DOMAIN s.file |-> IF f \in held THEN s.file[f] ELSE NoFile]
      used == {file[f].obj : f \in {g \in held \ {0} : file[g].type = "inode"}}
                \cup {s.task[t].cwd : t \in DOMAIN s.task}
  IN  [s EXCEPT !.file = file,
                !.ino = [i \in DOMAIN @ |-> IF @[i].nlink = 0 /\ i \notin used THEN NoInode ELSE @[i]]]

(* The call i of process t has returned r: the program has what it wants, or ends. *)
Return(t, i, r) ==
  IF ~Wanted(i, r, sys.task[t]) THEN [sys_exit(r.s, t) EXCEPT !.oops = TRUE]
  ELSE IF i.w = "need" /\ r.r < 0 THEN sys_exit(r.s, t)
  ELSE [r.s EXCEPT
          !.task[t].prog = r.then \o Tail(@),
          !.task[t].var = IF "v" \in DOMAIN i /\ i.op \in {"open", "fork", "sbrk", "sbrkto", "load"}
                          THEN (i.v :> r.r) @@ @ ELSE @]

(* Process t makes its next call, or finds itself killed or at the end of its program. *)
Step(t) ==
  LET me == sys.task[t]
      i == Head(me.prog)
  IN
  /\ me.st = "run" /\ t # INIT
  /\ sys' = Release(IF me.killed \/ me.prog = <<>> \/ i.op = "exit" THEN sys_exit(sys, t)
                    ELSE Return(t, i, Call(sys, t, i)))
  /\ UNCHANGED goal

CanStep(t) ==
  sys.task[t].st = "run" /\ t # INIT
  /\ (sys.task[t].prog # <<>> => Ready(sys, t, Head(sys.task[t].prog)))

(* The system with init, and process 2 about to run a program; nothing is typed at the console. *)
Boot(names, prog, vars0) ==
  LET dir == [n \in {".", ".."} \cup ToSet(names) |->
                IF n \in ToSet(names) THEN ROOTINO + SelectInSeq(names, LAMBDA m : m = n) ELSE ROOTINO]
  IN  [ino |-> [i \in 1..NINO |->
                  IF i = ROOTINO THEN [NoInode EXCEPT !.type = "dir", !.nlink = 1, !.ent = dir]
                  ELSE IF i <= Len(names) + 1 THEN [NoInode EXCEPT !.type = "file", !.nlink = 1]
                  ELSE NoInode],
       file |-> [f \in 1..NFILE |-> IF f = 1 THEN [NoFile EXCEPT !.type = "cons", !.r = TRUE, !.w = TRUE]
                                    ELSE NoFile],
       pipe |-> [n \in 0..NPIPE |-> <<>>],
       task |-> [t \in 1..NPROC |->
                   IF t > 2 THEN NoTask
                   ELSE [NoTask EXCEPT !.st = "run", !.cwd = ROOTINO, !.par = INIT,
                                       !.fd = [d \in Fds |-> IF d < 3 THEN 1 ELSE 0],
                                       !.prog = IF t = 2 THEN prog ELSE <<>>,
                                       !.var = vars0 @@ [stdin |-> 0, stdout |-> 1]]],
       out |-> <<>>, oops |-> FALSE]

ProgramsNext == \E t \in 2..NPROC : CanStep(t) /\ Step(t)

Finished == \A t \in 2..NPROC : sys.task[t].st = "unused"

(* Every program gets the results it wants from every call, nobody waits for ever, nothing is
   left running, and the console shows what it should. *)
ProgramsInv ==
  /\ ~sys.oops
  /\ Finished \/ \E t \in 2..NPROC : CanStep(t)
  /\ Finished /\ goal # <<"any">> => sys.out = goal
=============================================================================
