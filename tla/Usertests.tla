------------------------------ MODULE Usertests -----------------------------
(***************************************************************************)
(* The kernel's own tests (src/xv6/usertests.c) and the small programs     *)
(* stressfs, forktest and zombie, as programs of module Programs.  Each    *)
(* operator is the test of its name; a loop runs a smaller number of times *)
(* (Few), and the bytes of a message are one token each.                   *)
(***************************************************************************)
EXTENDS Programs

CONSTANT Few    \* how often the loops of the tests run

Times(n, p) == FlattenSeq([i \in 1..n |-> p])
Each(names, F(_)) == FlattenSeq([i \in DOMAIN names |-> F(names[i])])

RDONLY == {}
RDWR == {"RDWR"}
WRONLY == {"WRONLY"}
CREATE == {"CREATE"}
CREATE_RDWR == {"CREATE", "RDWR"}

iputtest == <<mkdir(<<"iputdir">>, "ok"), chdir(<<"iputdir">>, "ok"),
              unlink(<<"..", "iputdir">>, "ok"), chdir(<<"/">>, "ok")>>

exitiputtest ==
  <<fork("pid", <<mkdir(<<"iputdir">>, "ok"), chdir(<<"iputdir">>, "ok"),
                  unlink(<<"..", "iputdir">>, "ok"), exit>>, "ok"),
    wait("any")>>

openiputtest ==
  <<mkdir(<<"oidir">>, "ok"),
    fork("pid", <<open("fd", <<"oidir">>, RDWR, "fail"), exit>>, "ok"),
    unlink(<<"oidir">>, "ok"), wait("any")>>

opentest == <<open("fd", <<"echo">>, RDONLY, "ok"), close("fd"),
              open("fd", <<"doesnotexist">>, RDONLY, "fail")>>

writetest ==
  <<open("fd", <<"small">>, CREATE_RDWR, "ok")>>
  \o Times(Few, <<write("fd", <<"a">>, "ok"), write("fd", <<"b">>, "ok")>>)
  \o <<close("fd"), open("fd", <<"small">>, RDONLY, "ok"),
       read("fd", 2 * Few, 2 * Few, "any"), close("fd"), unlink(<<"small">>, "ok")>>

writetest1 ==
  LET blocks == [i \in 1..MAXFILE |-> i] IN
  <<open("fd", <<"big">>, CREATE_RDWR, "ok")>>
  \o [i \in 1..MAXFILE |-> write("fd", <<i>>, "ok")]
  \o <<close("fd"), open("fd", <<"big">>, RDONLY, "ok"), drain("fd", 1, 1, TRUE), expect(blocks),
       close("fd"), unlink(<<"big">>, "ok")>>

createtest ==
  LET names == <<"a0", "a1", "a2">> IN
  Each(names, LAMBDA n : <<open("fd", <<n>>, CREATE_RDWR, "any"), close("fd")>>)
  \o Each(names, LAMBDA n : <<unlink(<<n>>, "any")>>)

dirtest == <<mkdir(<<"dir0">>, "ok"), chdir(<<"dir0">>, "ok"), chdir(<<"..">>, "ok"),
             unlink(<<"dir0">>, "ok")>>

exectest == <<exec(<<"echo">>, 1, <<exit>>), wrong>>

pipe1 ==
  LET part(n) == <<2 * n - 1, 2 * n>> IN
  <<pipe("r", "w", "ok"),
    fork("pid", <<close("r")>> \o [n \in 1..Few |-> write("w", part(n), "ok")] \o <<exit>>, "ok"),
    close("w"), drain("r", 1, 2, FALSE), expect([i \in 1..(2 * Few) |-> i]),
    close("r"), wait("any")>>

preempt ==
  <<fork("pid1", <<spin>>, "any"), fork("pid2", <<spin>>, "any"), pipe("r", "w", "any"),
    fork("pid3", <<close("r"), write("w", <<"x">>, "ok"), close("w"), spin>>, "any"),
    close("w"), read("r", 4, 1, "any"), close("r"), kill("pid1"), kill("pid2"), kill("pid3"),
    wait("any"), wait("any"), wait("any")>>

exitwait == Times(Few, <<fork("pid", <<exit>>, "ok"), wait("pid")>>)

(* Both processes write through the descriptor they share. *)
sharedfd ==
  LET writes(c) == Times(Few, <<write("fd", <<c, c>>, "ok")>>) IN
  <<unlink(<<"sharedfd">>, "any"), open("fd", <<"sharedfd">>, CREATE_RDWR, "ok"),
    fork("pid", writes("c") \o <<exit>>, "any")>>
  \o writes("p")
  \o <<wait("any"), close("fd"), open("fd", <<"sharedfd">>, RDONLY, "ok"), drain("fd", 2, 1, FALSE),
       close("fd"), unlink(<<"sharedfd">>, "any"),
       expectCount("c", 2 * Few), expectCount("p", 2 * Few)>>

fourfiles ==
  LET names == <<"f0", "f1">> IN
  Each(names, LAMBDA n :
    <<unlink(<<n>>, "any"),
      fork("pid", <<open("fd", <<n>>, CREATE_RDWR, "ok")>> \o Times(Few, <<write("fd", <<n>>, "ok")>>)
                  \o <<exit>>, "ok")>>)
  \o <<wait("any"), wait("any")>>
  \o Each(names, LAMBDA n :
       <<open("fd", <<n>>, RDONLY, "any"), drain("fd", 4, 1, FALSE), close("fd"),
         expect([i \in 1..Few |-> n]), unlink(<<n>>, "any")>>)

(* N = 4: after creating file i, an even i > 0, each process removes file i / 2. *)
createdelete ==
  LET name(p) == IF p = 0 THEN <<"p0", "p1", "p2", "p3">> ELSE <<"q0", "q1", "q2", "q3">>
      child(p) == FlattenSeq([i \in 1..4 |->
                    <<open("fd", <<name(p)[i]>>, CREATE_RDWR, "ok"), close("fd")>>
                    \o (IF i > 1 /\ (i - 1) % 2 = 0
                        THEN <<unlink(<<name(p)[(i - 1) \div 2 + 1]>>, "ok")>> ELSE <<>>)])
      check(p) == FlattenSeq([i \in 1..4 |->
                    <<open("fd", <<name(p)[i]>>, RDONLY, IF i = 1 \/ i - 1 >= 2 THEN "ok" ELSE "fail"),
                      close("fd")>>])
  IN  <<fork("pid", child(0) \o <<exit>>, "ok"), fork("pid", child(1) \o <<exit>>, "ok"),
        wait("any"), wait("any")>>
      \o check(0) \o check(1)
      \o <<unlink(<<"p0">>, "any"), unlink(<<"q1">>, "any")>>

unlinkread ==
  LET f == <<"unlinkread">> IN
  <<open("fd", f, CREATE_RDWR, "ok"), write("fd", <<"h", "i">>, "any"), close("fd"),
    open("fd", f, RDWR, "ok"), unlink(f, "ok"),
    open("fd1", f, CREATE_RDWR, "any"), write("fd1", <<"y">>, "any"), close("fd1"),
    read("fd", 4, 2, "h"), write("fd", <<"h", "i">>, "ok"), close("fd"), unlink(f, "any")>>

linktest ==
  LET lf1 == <<"lf1">>
      lf2 == <<"lf2">> IN
  <<unlink(lf1, "any"), unlink(lf2, "any"), open("fd", lf1, CREATE_RDWR, "ok"),
    write("fd", <<"h", "i">>, "ok"), close("fd"), link(lf1, lf2, "ok"), unlink(lf1, "any"),
    open("fd", lf1, RDONLY, "fail"), open("fd", lf2, RDONLY, "ok"), read("fd", 4, 2, "any"), close("fd"),
    link(lf2, lf2, "fail"), unlink(lf2, "any"), link(lf2, lf1, "fail"), link(<<".">>, lf1, "fail")>>

(* File i is made by link or by open, by the parent and the child at once, then removed while
   the other opens it. *)
concreate ==
  LET names == <<"C0", "C1", "C2">>
      file(i) == <<names[i + 1]>>
      make(i, l) == IF l THEN <<link(<<"C0">>, file(i), "any")>>
                    ELSE <<open("fd", file(i), CREATE_RDWR, "ok"), close("fd")>>
      drop(i, o) == IF o THEN Times(2, <<open("fd", file(i), RDONLY, "any"), close("fd")>>)
                    ELSE Times(2, <<unlink(file(i), "any")>>)
  IN  FlattenSeq([j \in 1..3 |-> LET i == j - 1 IN
        <<unlink(file(i), "any"), fork("pid", make(i, i % 5 = 1) \o <<exit>>, "any")>>
        \o make(i, i % 3 = 1) \o <<wait("any")>>])
      \o <<open("fd", <<".">>, RDONLY, "any"), list("fd", ToSet(names)), close("fd")>>
      \o FlattenSeq([j \in 1..3 |-> LET i == j - 1 IN
           <<fork("pid", drop(i, i % 3 = 0) \o <<exit>>, "ok")>> \o drop(i, i % 3 = 1) \o <<wait("any")>>])

(* The first of the pseudo-random choices x % 3 of the two processes, from the seeds 97 and 1. *)
linkunlink ==
  LET x == <<"x">>
      act(k) == IF k = 0 THEN <<open("fd", x, CREATE_RDWR, "any"), close("fd")>>
                ELSE IF k = 1 THEN <<link(<<"cat">>, x, "any")>> ELSE <<unlink(x, "any")>>
  IN  <<unlink(x, "any"), fork("pid", Each(<<0, 1, 1, 0, 1, 0, 2>>, act) \o <<exit>>, "ok")>>
      \o Each(<<0, 2, 1, 0, 0, 2, 1>>, act) \o <<wait("any")>>

bigdir ==
  LET names == <<"x00", "x01", "x02">> IN
  <<unlink(<<"bd">>, "any"), open("fd", <<"bd">>, CREATE, "ok"), close("fd")>>
  \o Each(names, LAMBDA n : <<link(<<"bd">>, <<n>>, "ok")>>)
  \o <<unlink(<<"bd">>, "any")>>
  \o Each(names, LAMBDA n : <<unlink(<<n>>, "ok")>>)

subdir ==
  LET dd == <<"dd">>
      ff == <<"dd", "ff">>
      ddff == <<"dd", "dd", "ff">>
      ffff == <<"dd", "dd", "ffff">>
      in_ff == <<"dd", "ff", "ff">>
      in_xx == <<"dd", "xx", "ff">>
  IN
  <<unlink(<<"ff">>, "any"), mkdir(dd, "ok"),
    open("fd", ff, CREATE_RDWR, "ok"), write("fd", <<"f", "f">>, "any"), close("fd"),
    unlink(dd, "fail"), mkdir(<<"/", "dd", "dd">>, "ok"),
    open("fd", ddff, CREATE_RDWR, "ok"), write("fd", <<"F", "F">>, "any"), close("fd"),
    open("fd", <<"dd", "dd", "..", "ff">>, RDONLY, "ok"), read("fd", 4, 2, "f"), close("fd"),
    link(ddff, ffff, "ok"), unlink(ddff, "ok"), open("fd", ddff, RDONLY, "fail"),
    chdir(dd, "ok"), chdir(<<"dd", "..", "..", "dd">>, "ok"),
    chdir(<<"dd", "..", "..", "..", "dd">>, "ok"), chdir(<<".", "..">>, "ok"),
    open("fd", ffff, RDONLY, "ok"), read("fd", 4, 2, "any"), close("fd"),
    open("fd", ddff, RDONLY, "fail"),
    open("fd", in_ff, CREATE_RDWR, "fail"), open("fd", in_xx, CREATE_RDWR, "fail"),
    open("fd", dd, CREATE, "fail"), open("fd", dd, RDWR, "fail"), open("fd", dd, WRONLY, "fail"),
    link(in_ff, <<"dd", "dd", "xx">>, "fail"), link(in_xx, <<"dd", "dd", "xx">>, "fail"),
    link(ff, ffff, "fail"), mkdir(in_ff, "fail"), mkdir(in_xx, "fail"), mkdir(ffff, "fail"),
    unlink(in_xx, "fail"), unlink(in_ff, "fail"), chdir(ff, "fail"), chdir(<<"dd", "xx">>, "fail"),
    unlink(ffff, "ok"), unlink(ff, "ok"), unlink(dd, "fail"), unlink(<<"dd", "dd">>, "ok"),
    unlink(dd, "ok")>>

bigwrite ==
  <<unlink(<<"bigwrite">>, "any")>>
  \o FlattenSeq([n \in 1..(MAXFILE \div 2) |->
       <<open("fd", <<"bigwrite">>, CREATE_RDWR, "ok")>>
       \o Times(2, <<write("fd", [k \in 1..n |-> "b"], "ok")>>)
       \o <<close("fd"), unlink(<<"bigwrite">>, "any")>>])

(* Written two bytes at a time, read one at a time. *)
bigfile ==
  <<unlink(<<"bigfile">>, "any"), open("fd", <<"bigfile">>, CREATE_RDWR, "ok")>>
  \o [i \in 1..Few |-> write("fd", <<i, i>>, "ok")]
  \o <<close("fd"), open("fd", <<"bigfile">>, RDONLY, "ok"), drain("fd", 1, 1, TRUE),
       close("fd"), expect([i \in 1..(2 * Few) |-> (i + 1) \div 2]), unlink(<<"bigfile">>, "any")>>

fourteen ==
  LET n14 == "12345678901234"
      n15 == "123456789012345"
  IN  <<mkdir(<<n14>>, "ok"), mkdir(<<n14, n15>>, "ok"),
        open("fd", <<n15, n15, n15>>, CREATE, "ok"), close("fd"),
        open("fd", <<n14, n14, n14>>, RDONLY, "ok"), close("fd"),
        mkdir(<<n14, n14>>, "fail"), mkdir(<<n15, n14>>, "fail")>>

rmdot ==
  <<mkdir(<<"dots">>, "ok"), chdir(<<"dots">>, "ok"), unlink(<<".">>, "fail"), unlink(<<"..">>, "fail"),
    chdir(<<"/">>, "ok"), unlink(<<"dots", ".">>, "fail"), unlink(<<"dots", "..">>, "fail"),
    unlink(<<"dots">>, "ok")>>

dirfile ==
  LET xx == <<"dirfile", "xx">> IN
  <<open("fd", <<"dirfile">>, CREATE, "ok"), close("fd"), chdir(<<"dirfile">>, "fail"),
    open("fd", xx, RDONLY, "fail"), open("fd", xx, CREATE, "fail"), mkdir(xx, "fail"),
    unlink(xx, "fail"), link(<<"README">>, xx, "fail"), unlink(<<"dirfile">>, "ok"),
    open("fd", <<".">>, RDWR, "fail"), open("fd", <<".">>, RDONLY, "any"),
    write("fd", <<"x">>, "fail"), close("fd")>>

iref ==
  Times(Few, <<mkdir(<<"irefd">>, "ok"), chdir(<<"irefd">>, "ok"), mkdir(<<>>, "any"),
               link(<<"README">>, <<>>, "any"), open("fd", <<>>, CREATE, "any"), close("fd"),
               open("fd", <<"xx">>, CREATE, "any"), close("fd"), unlink(<<"xx">>, "any")>>)
  \o <<chdir(<<"/">>, "any")>>

(* Also the program forktest. *)
forktest == <<forkmany(0)>>

(* BIG is a size that fits in memory twice, and not three times; an address outside the process, as KERNBASE is, kills
   the process that reads it.  The child that reads it would say so. *)
sbrktest ==
  LET pids == <<"pid0", "pid1", "pid2">> IN
  <<sbrk("oldbrk", 0, "any"), sbrk("a", 0, "any")>>
  \o Times(Few, <<sbrk("b", 1, "any"), same("b", "a", 0), sbrk("a", 0, "any"), store("a", 1)>>)
  \o <<fork("pid", <<sbrk("c", 1, "any"), sbrk("c", 1, "any"), same("c", "a", 1), exit>>, "ok"),
       sbrk("c", 1, "any"), sbrk("c", 1, "any"), same("c", "a", 1), wait("any"),
       sbrk("a", 0, "any"), sbrkto("p", "BIG", "any"), same("p", "a", 0), store("BIG", 99),
       sbrk("a", 0, "any"), sbrk("c", -PGSIZE, "ok"), sbrk("c", 0, "any"), same("c", "a", -PGSIZE),
       sbrk("a", 0, "any"), sbrk("c", PGSIZE, "any"), same("c", "a", 0),
       sbrk("c", 0, "any"), same("c", "a", PGSIZE), load("last", "BIG"), same("last", "zero", 0),
       sbrk("a", 0, "any"), sbrkto("c", "oldbrk", "any"), same("c", "a", 0),
       fork("pid", <<load("x", "KERNBASE"), wrong>>, "ok"), wait("any"),
       pipe("r", "w", "ok")>>
  \o Each(pids, LAMBDA pid : <<fork(pid, <<sbrkto("c", "BIG", "any"), write("w", <<"x">>, "any"), spin>>, "any"),
                               read("r", 1, 1, "any")>>)
  \o <<sbrk("c", PGSIZE, "ok")>>
  \o Each(pids, LAMBDA pid : <<kill(pid), wait("any")>>)
  \o <<sbrkto("c", "oldbrk", "any")>>

(* The child's bad stack pointer makes sleep fail, or sleep for any time. *)
validatetest ==
  FlattenSeq([i \in 1..2 |->
    <<fork("pid", IF i = 1 THEN <<spin>> ELSE <<exit>>, "any"), kill("pid"), wait("any"),
      link(<<"nosuchfile">>, <<"p">>, "fail")>>])

bigargtest ==
  <<unlink(<<"bigarg-ok">>, "any"),
    fork("pid", <<exec(<<"echo">>, STACK + 1, <<exit>>), open("fd", <<"bigarg-ok">>, CREATE, "any"),
                  close("fd"), exit>>, "ok"),
    wait("any"), open("fd", <<"bigarg-ok">>, RDONLY, "ok"), close("fd"), unlink(<<"bigarg-ok">>, "any")>>

(* stressfs: a chain of processes, each with its file. *)
stressfs ==
  LET rest(n) == <<open("fd", <<n>>, CREATE_RDWR, "any")>> \o Times(Few, <<write("fd", <<"a">>, "any")>>)
                 \o <<close("fd"), open("fd", <<n>>, RDONLY, "any")>>
                 \o Times(Few, <<read("fd", 1, 1, "a")>>) \o <<close("fd"), wait("any"), exit>>
  IN  <<fork("pid", <<fork("pid", rest("stressfs2"), "any")>> \o rest("stressfs1"), "any")>>
      \o rest("stressfs0")

zombie == <<fork("pid", <<exit>>, "any"), exit>>

(* main: the mark it leaves is found by a second run. *)
ran == <<open("fd", <<"usertests.ran">>, RDONLY, "fail"), open("fd", <<"usertests.ran">>, CREATE, "any"),
         close("fd"), open("fd", <<"usertests.ran">>, RDONLY, "ok")>>

Tests ==
  {createdelete, linkunlink, concreate, fourfiles, sharedfd, bigargtest, bigwrite, sbrktest,
   validatetest, opentest, writetest, writetest1, createtest, openiputtest, exitiputtest, iputtest,
   pipe1, preempt, exitwait, rmdot, fourteen, bigfile, subdir, linktest, unlinkread, dirfile, iref,
   forktest, bigdir, exectest, dirtest, stressfs, zombie, ran}
=============================================================================
