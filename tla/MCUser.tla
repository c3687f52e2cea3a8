------------------------------- MODULE MCUser -------------------------------
(***************************************************************************)
(* Small instances of the user side: the heaps, the programs that share    *)
(* memory between threads, the parser of the shell, and the programs that  *)
(* make system calls.  Each behaviour runs one of them.                    *)
(***************************************************************************)
EXTENDS Umalloc, FitAlloc, HoleList, ExThread, ProdutorConsumidor, LeitorRedator, Filosofos, Simulador,
        Shell, Usertests, Exemplos

CONSTANTS t1, t2, t3, l1, l2, l3, w1, w2

VARIABLE part    \* the part that runs

Parts == {"umalloc", "gm", "mmu", "exthread", "prodcons", "leitor", "filosofos", "simulador",
          "parser", "programs"}

MCPassos == [p \in 0..3 |-> IF p = 1 THEN 4 ELSE 2]
MCChars == {"a", " ", "<", ">", "|", "&", ";", "(", ")"}

NL == "\n"

\* What is typed to the shell.  No command here races with another for a file.
Scripts == {
  <<<<"e", " ", "x", "|", "c", NL>>>>,
  <<<<"e", " ", "x", "y", ">", "f", NL>>, <<"e", " ", "z", ">", ">", "f", NL>>, <<"c", " ", "f", NL>>>>,
  <<<<"(", "e", " ", "x", ";", "e", " ", "y", ")", "|", "c", NL>>>>,
  <<<<"e", " ", "x", "&", NL>>>>,
  <<<<"c", "<", "g", ";", "e", " ", "x", NL>>, <<"z", ";", "e", " ", "y", NL>>, <<")", NL>>>>,
  <<<<"e", " ", "x", ">", "f", ";", "c", "<", "f", "|", "c", NL>>>>,
  <<<<"m", " ", "d", NL>>, <<"c", "d", " ", "d", NL>>, <<"e", " ", "x", ">", "f", NL>>,
    <<"c", "d", " ", "n", NL>>, <<"c", "d", " ", "/", NL>>, <<"e", " ", "y", NL>>>>,
  <<<<"e", " ", "x", "y", "z", "|", "e", " ", "w", NL>>>>,
  <<<<"e", " ", "x", ">", "f", NL>>, <<"r", " ", "f", NL>>, <<"c", "<", "f", NL>>, <<"e", " ", "y", NL>>>>,
  <<<<"e", " ", "x", "y", "z", "|", "c", "|", "c", ">", "f", ";", "c", " ", "f", NL>>>>}

MemVars == [BIG |-> 6, zero |-> 0, KERNBASE |-> 100, oldbrk |-> 0]

\* Every program, and what it shows.
Started ==
  {<<Boot(<<"echo", "README", "cat">>, p, MemVars), <<"any">>>> : p \in Tests}
  \cup {<<Boot(<<"cat", "grep", "ls", "wc">>, r[1], <<>>), r[2]>> : r \in Resultados}
  \cup {<<Boot(<<"e", "c", "m", "r">>, shell(s), <<>>), MeaningOf(s)>> : s \in Scripts}

heapVars == <<umallocVars, gmVars, mmuVars>>
threadVars == <<exThreadVars, prodConsVars, leitorVars, filosofosVars, simuladorVars>>
allVars == <<part, heapVars, threadVars, lineVars, programVars>>

Init ==
  /\ part \in Parts
  /\ UmallocInit /\ MmuInit
  /\ GmInit /\ (part # "gm" => fit = "simples")
  /\ ExThreadInit /\ (part # "exthread" => versao = "c")
  /\ ProdConsInit /\ LeitorInit /\ FilosofosInit /\ SimuladorInit
  /\ line = <<>>
  /\ IF part = "programs" THEN \E st \in Started : sys = st[1] /\ goal = st[2]
     ELSE sys = Boot(<<>>, <<exit>>, <<>>) /\ goal = <<>>

Next ==
  /\ UNCHANGED part
  /\ \/ /\ \/ part = "umalloc" /\ UmallocNext /\ UNCHANGED <<gmVars, mmuVars>>
           \/ part = "gm" /\ GmNext /\ UNCHANGED <<umallocVars, mmuVars>>
           \/ part = "mmu" /\ MmuNext /\ UNCHANGED <<umallocVars, gmVars>>
        /\ UNCHANGED <<threadVars, lineVars, programVars>>
     \/ /\ \/ part = "exthread" /\ ExThreadNext
              /\ UNCHANGED <<prodConsVars, leitorVars, filosofosVars, simuladorVars>>
           \/ part = "prodcons" /\ ProdConsNext
              /\ UNCHANGED <<exThreadVars, leitorVars, filosofosVars, simuladorVars>>
           \/ part = "leitor" /\ LeitorNext
              /\ UNCHANGED <<exThreadVars, prodConsVars, filosofosVars, simuladorVars>>
           \/ part = "filosofos" /\ FilosofosNext
              /\ UNCHANGED <<exThreadVars, prodConsVars, leitorVars, simuladorVars>>
           \/ part = "simulador" /\ SimuladorNext
              /\ UNCHANGED <<exThreadVars, prodConsVars, leitorVars, filosofosVars>>
        /\ UNCHANGED <<heapVars, lineVars, programVars>>
     \/ part = "parser" /\ ShellNext /\ UNCHANGED <<heapVars, threadVars, programVars>>
     \/ part = "programs" /\ ProgramsNext /\ UNCHANGED <<heapVars, threadVars, lineVars>>

Spec == Init /\ [][Next]_allVars

\* malloc and free of umalloc.c, meu_aloca and meu_libera of gmsimples.c and gm.c, and those of
\* MMU.c keep their memory: no unit is in two blocks, and none is lost but as those modules say.
HeapsInv == UmallocInv /\ GmInv /\ MmuInv

\* ex_thread, ProdutorConsumidor, LeitorRedator and Filosofos exclude, count and go on as those
\* modules say, and the escalonador of simulador_so.c resumes each process where it was.
ThreadsInv == ExThreadInv /\ ProdConsInv /\ LeitorRedatorInv /\ FilosofosInv /\ SimuladorInv
=============================================================================
