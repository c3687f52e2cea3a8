-------------------------------- MODULE Shell -------------------------------
(***************************************************************************)
(* The shell (src/xv6/sh.c): its parser, on the characters of a line, and  *)
(* runcmd, which runs a command with the calls of module Programs; with    *)
(* them echo, cat, mkdir and rm, named e, c, m and r: names have one       *)
(* letter, and messages are left out.  Two references say what the shell   *)
(* should do: the grammar, as the set of all trees of a line, and the      *)
(* meaning of a command, which runs its parts one after the other.         *)
(***************************************************************************)
EXTENDS Programs

CONSTANTS MAXARGS,
          Chars, MaxLine   \* what is typed to the parser, and how much

VARIABLE line    \* the characters typed so far

lineVars == <<line>>

Whitespace == {" ", "\n"}
Symbols == {"<", "|", ">", "&", ";", "(", ")"}

execcmd(argv) == [type |-> "EXEC", argv |-> argv]
redircmd(c, file, mode, fd) == [type |-> "REDIR", cmd |-> c, file |-> file, mode |-> mode, fd |-> fd]
pipecmd(l, r) == [type |-> "PIPE", left |-> l, right |-> r]
listcmd(l, r) == [type |-> "LIST", left |-> l, right |-> r]
backcmd(c) == [type |-> "BACK", cmd |-> c]
-----------------------------------------------------------------------------
(* The line l is read from position s; a NUL follows it. *)
At(l, s) == IF s > Len(l) THEN "NUL" ELSE l[s]
Skip(l, s) == Min({j \in s..(Len(l) + 1) : At(l, j) \notin Whitespace})

(* The token at s, its first character, the one after its last, and where to go on. *)
Token(l, s) ==
  LET c == At(l, s)
      eq == CASE c = "NUL" -> s
              [] c = ">" /\ At(l, s + 1) = ">" -> s + 2
              [] c \in Symbols -> s + 1
              [] OTHER -> Min({j \in s..(Len(l) + 1) : At(l, j) \in Whitespace \cup Symbols \cup {"NUL"}})
      tok == IF eq = s + 2 /\ c = ">" THEN "+" ELSE IF c \in Symbols \cup {"NUL"} THEN c ELSE "a"
  IN  [tok |-> tok, word |-> <<s, eq>>, s |-> Skip(l, eq)]

gettoken(l, s) == Token(l, Skip(l, s))

peek(l, s, toks) == At(l, Skip(l, s)) \in toks
Past(l, s) == gettoken(l, s).s

(* A parse gives a tree and where to go on, or panics. *)
Got(c, s) == [ok |-> TRUE, c |-> c, s |-> s]
panic == [ok |-> FALSE, c |-> execcmd(<<>>), s |-> 0]

RECURSIVE parseredirs(_, _, _)

(* The command with the redirection that tok and the file after it make. *)
Redirect(c, l, tok, file) ==
  IF file.tok # "a" THEN panic
  ELSE parseredirs(IF tok = "<" THEN redircmd(c, file.word, {}, "stdin")
                   ELSE redircmd(c, file.word, {"WRONLY", "CREATE"}, "stdout"), l, file.s)

parseredirs(c, l, s) ==
  IF peek(l, s, {"<", ">"}) THEN Redirect(c, l, gettoken(l, s).tok, gettoken(l, Past(l, s)))
  ELSE Got(c, s)

(* cmd->argv[argc] = q, in the exec command that ret may have wrapped in redirections *)
RECURSIVE AddArg(_, _)
AddArg(c, word) ==
  IF c.type = "EXEC" THEN [c EXCEPT !.argv = Append(@, word)] ELSE [c EXCEPT !.cmd = AddArg(@, word)]

RECURSIVE ParseArgs(_, _, _)

(* The loop of parseexec, at the token a. *)
ParseArg(p, l, argc, a) ==
  IF a.tok \in {"NUL", "|", ")", "&", ";"} THEN p
  ELSE IF a.tok # "a" \/ argc + 1 >= MAXARGS THEN panic
  ELSE ParseArgs(parseredirs(AddArg(p.c, a.word), l, a.s), l, argc + 1)

ParseArgs(p, l, argc) == IF p.ok THEN ParseArg(p, l, argc, gettoken(l, p.s)) ELSE panic

RECURSIVE parseline(_, _)
RECURSIVE parsepipe(_, _)

CloseBlock(p, l) ==
  IF p.ok /\ peek(l, p.s, {")"}) THEN parseredirs(p.c, l, Past(l, p.s)) ELSE panic

parseblock(l, s) == CloseBlock(parseline(l, Past(l, s)), l)

parseexec(l, s) ==
  IF peek(l, s, {"("}) THEN parseblock(l, s) ELSE ParseArgs(parseredirs(execcmd(<<>>), l, s), l, 0)

(* Two parts make one command, unless the second has panicked. *)
Both(Cmd(_, _), p, q) == IF q.ok THEN Got(Cmd(p.c, q.c), q.s) ELSE panic

(* What follows the first part of a pipe. *)
PipeRest(p, l) ==
  IF p.ok /\ peek(l, p.s, {"|"}) THEN Both(pipecmd, p, parsepipe(l, Past(l, p.s))) ELSE p

parsepipe(l, s) == PipeRest(parseexec(l, s), l)

RECURSIVE Background(_, _)
Background(p, l) ==
  IF p.ok /\ peek(l, p.s, {"&"}) THEN Background(Got(backcmd(p.c), Past(l, p.s)), l) ELSE p

(* Faulty: what follows ; is a pipe, not a list. *)
ListRestPipe(p, l) ==
  IF p.ok /\ peek(l, p.s, {";"})
  THEN Both(listcmd, p, Background(parsepipe(l, Past(l, p.s)), l)) ELSE p

(* What follows the first part of a list. *)
ListRest(p, l) ==
  IF p.ok /\ peek(l, p.s, {";"}) THEN Both(listcmd, p, parseline(l, Past(l, p.s))) ELSE p

parseline(l, s) == ListRest(Background(parsepipe(l, s), l), l)

(* nulterminate: the positions it clears. *)
RECURSIVE nulterminate(_)
nulterminate(c) ==
  CASE c.type = "EXEC" -> {c.argv[i][2] : i \in DOMAIN c.argv}
    [] c.type = "REDIR" -> nulterminate(c.cmd) \cup {c.file[2]}
    [] c.type \in {"PIPE", "LIST"} -> nulterminate(c.left) \cup nulterminate(c.right)
    [] c.type = "BACK" -> nulterminate(c.cmd)

(* The tree with each word as the string that its pointer then is. *)
RECURSIVE Strings(_, _, _)
Strings(c, l, nuls) ==
  LET str(w) == SubSeq(l, w[1], Min({j \in nuls \cup {Len(l) + 1} : j >= w[1]}) - 1)
  IN  CASE c.type = "EXEC" -> execcmd([i \in DOMAIN c.argv |-> str(c.argv[i])])
        [] c.type = "REDIR" -> [c EXCEPT !.cmd = Strings(@, l, nuls), !.file = str(@)]
        [] c.type \in {"PIPE", "LIST"} ->
             [c EXCEPT !.left = Strings(@, l, nuls), !.right = Strings(@, l, nuls)]
        [] c.type = "BACK" -> [c EXCEPT !.cmd = Strings(@, l, nuls)]

(* The tree of the whole line: there must be no leftovers. *)
Whole(p, l) ==
  IF ~p.ok \/ Skip(l, p.s) # Len(l) + 1 THEN panic
  ELSE [p EXCEPT !.c = Strings(p.c, l, nulterminate(p.c))]

parsecmd(l) == Whole(parseline(l, 1), l)

(* getcmd: a line is typed. *)
Getcmd(ch) == Len(line) < MaxLine /\ line' = Append(line, ch)

ShellNext == \E ch \in Chars : Getcmd(ch)
-----------------------------------------------------------------------------
(* The grammar: all the trees of a piece of text. *)
Trim(t) ==
  LET solid == {i \in DOMAIN t : t[i] \notin Whitespace}
  IN  IF solid = {} THEN <<>> ELSE SubSeq(t, Min(solid), Max(solid))
Before(t, i) == SubSeq(t, 1, i - 1)
After(t, i) == SubSeq(t, i + 1, Len(t))
Places(t, ch) == {i \in DOMAIN t : t[i] = ch}

RECURSIVE Argc(_)
Argc(c) == IF c.type = "EXEC" THEN Len(c.argv) ELSE Argc(c.cmd)

RECURSIVE Lines(_)

(* command ::= | command word | command > file ;  block ::= ( line ) | block > file *)
RECURSIVE Commands(_, _)
Commands(t0, block) ==
  LET t == Trim(t0)
      at == Max({0} \cup {i \in DOMAIN t : t[i] \in Symbols \cup Whitespace})
      word == After(t, at)
      u == Trim(Before(t, at + 1))
      n == Len(u)
      Redirected(k, mode, fd) == {redircmd(c, word, mode, fd) : c \in Commands(Before(u, n + 1 - k), block)}
  IN  IF t = <<>> THEN IF block THEN {} ELSE {execcmd(<<>>)}
      ELSE IF word = <<>>
           THEN IF block /\ Last(t) = ")" /\ Head(t) = "(" THEN Lines(SubSeq(t, 2, Len(t) - 1)) ELSE {}
      ELSE IF n > 0 /\ u[n] = "<" THEN Redirected(1, {}, "stdin")
      ELSE IF n > 0 /\ u[n] = ">"
           THEN Redirected(IF n > 1 /\ u[n - 1] = ">" THEN 2 ELSE 1, {"WRONLY", "CREATE"}, "stdout")
      ELSE IF block THEN {}
      ELSE {AddArg(c, word) : c \in {d \in Commands(u, FALSE) : Argc(d) + 1 < MAXARGS}}

RECURSIVE Pipes(_)
Pipes(t) ==
  Commands(t, FALSE) \cup Commands(t, TRUE)
  \cup UNION {{pipecmd(c, d) : c \in Commands(Before(t, i), FALSE) \cup Commands(Before(t, i), TRUE),
                              d \in Pipes(After(t, i))} : i \in Places(t, "|")}

RECURSIVE Jobs(_)
Jobs(t) ==
  Pipes(t) \cup (IF Trim(t) # <<>> /\ Last(Trim(t)) = "&" THEN {backcmd(c) : c \in Jobs(Front(Trim(t)))}
                 ELSE {})

Lines(t) ==
  Jobs(t) \cup UNION {{listcmd(c, d) : c \in Jobs(Before(t, i)), d \in Lines(After(t, i))} :
                        i \in Places(t, ";")}

(* The parser of sh.c is exact: a line has the tree that parsecmd builds, with each word as
   nulterminate leaves it in the buffer, and no other; and where parsecmd panics it has none. *)
ShellParses == LET p == parsecmd(line) IN Lines(line) = IF p.ok THEN {p.c} ELSE {}
-----------------------------------------------------------------------------
echo(args) == LET text == FlattenSeq(args) IN [i \in DOMAIN text |-> write("stdout", <<text[i]>>, "any")]
cat(args) ==
  IF args = <<>> THEN <<copy("stdin", "stdout", 0, "")>>
  ELSE FlattenSeq([i \in DOMAIN args |->
         <<open("fd", args[i], {}, "need"), copy("fd", "stdout", 0, ""), close("fd")>>])
rm(args) == [i \in DOMAIN args |-> unlink(args[i], "need")]
makedir(args) == [i \in DOMAIN args |-> mkdir(args[i], "need")]

Image(argv) ==
  CASE argv[1] = <<"e">> -> echo(Tail(argv))
    [] argv[1] = <<"c">> -> cat(Tail(argv))
    [] argv[1] = <<"r">> -> rm(Tail(argv))
    [] OTHER -> makedir(Tail(argv))

(* The word is the path: a name has one letter. *)
RECURSIVE runcmd(_)
runcmd(c) ==
  CASE c.type = "EXEC" ->
         IF c.argv = <<>> THEN <<exit>>
         ELSE <<exec(c.argv[1], Len(c.argv), Image(c.argv) \o <<exit>>), exit>>
    [] c.type = "REDIR" -> <<close(c.fd), open("rfd", c.file, c.mode, "need")>> \o runcmd(c.cmd)
    [] c.type = "LIST" -> <<fork("pid", runcmd(c.left), "need"), wait("any")>> \o runcmd(c.right)
    [] c.type = "PIPE" ->
         <<pipe("p0", "p1", "need"),
           fork("pid", <<close("stdout"), dup("p1"), close("p0"), close("p1")>> \o runcmd(c.left), "need"),
           fork("pid", <<close("stdin"), dup("p0"), close("p0"), close("p1")>> \o runcmd(c.right), "need"),
           close("p0"), close("p1"), wait("any"), wait("any"), exit>>
    [] c.type = "BACK" -> <<fork("pid", runcmd(c.cmd), "need"), exit>>

(* main: cd is done by the shell, all else by a child. *)
IsCd(l) == Len(l) > 3 /\ SubSeq(l, 1, 3) = <<"c", "d", " ">>
shell(lines) ==
  FlattenSeq([i \in DOMAIN lines |->
    LET l == lines[i]
        p == parsecmd(l)
    IN  IF IsCd(l) THEN <<chdir(SubSeq(l, 4, Len(l) - 1), "any")>>
        ELSE <<fork("pid", IF p.ok THEN runcmd(p.c) ELSE <<exit>>, "need"), wait("any")>>])
  \o <<exit>>
-----------------------------------------------------------------------------
(* What a command means in the world w: its input, what it has put out, the files by their path,
   the directories, and where it is. *)
Over(new, old) == new \o SubSeq(old, Len(new) + 1, Len(old))

RECURSIVE Meaning(_, _)
Meaning(c, w) ==
  LET args == Tail(c.argv)
      file == w.cwd \o c.file
      old == IF file \in DOMAIN w.fs THEN w.fs[file] ELSE <<>>
      paths == {w.cwd \o args[i] : i \in DOMAIN args}
      inner == Meaning(c.cmd, [w EXCEPT !.out = <<>>, !.fs = (file :> old) @@ @])
      left == Meaning(c.left, [w EXCEPT !.out = <<>>])
      right == Meaning(c.right, [left EXCEPT !.in = left.out, !.out = w.out])
  IN
  CASE c.type = "EXEC" ->
         IF c.argv = <<>> \/ w.cwd # <<>> THEN w    \* the commands are in the root only
         ELSE CASE c.argv[1] = <<"e">> -> [w EXCEPT !.out = @ \o FlattenSeq(args)]
                [] c.argv[1] = <<"c">> ->
                     IF args = <<>> THEN [w EXCEPT !.out = @ \o w.in, !.in = <<>>]
                     ELSE [w EXCEPT !.out = @ \o FlattenSeq([i \in DOMAIN args |-> w.fs[w.cwd \o args[i]]])]
                [] c.argv[1] = <<"r">> -> [w EXCEPT !.fs = [f \in DOMAIN @ \ paths |-> @[f]]]
                [] c.argv[1] = <<"m">> -> [w EXCEPT !.dirs = @ \cup paths]
                [] OTHER -> w
    [] c.type = "REDIR" /\ c.fd = "stdin" ->
         IF file \in DOMAIN w.fs THEN [Meaning(c.cmd, [w EXCEPT !.in = old]) EXCEPT !.in = w.in] ELSE w
    [] c.type = "REDIR" /\ c.fd = "stdout" ->
         [inner EXCEPT !.out = w.out, !.fs[file] = Over(inner.out, old)]
    [] c.type = "LIST" -> Meaning(c.right, Meaning(c.left, w))
    [] c.type = "PIPE" -> [right EXCEPT !.in = left.in]
    [] c.type = "BACK" -> Meaning(c.cmd, w)

MeaningOf(lines) ==
  FoldLeft(LAMBDA w, l : LET p == parsecmd(l)
                             d == SubSeq(l, 4, Len(l) - 1)
                         IN  IF IsCd(l) THEN CASE d = <<"/">> -> [w EXCEPT !.cwd = <<>>]
                                               [] w.cwd \o d \in w.dirs -> [w EXCEPT !.cwd = @ \o d]
                                               [] OTHER -> w
                             ELSE IF p.ok THEN Meaning(p.c, w) ELSE w,
           [in |-> <<>>, out |-> <<>>, fs |-> <<>>, dirs |-> {}, cwd |-> <<>>], lines).out
=============================================================================
