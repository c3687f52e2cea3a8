------------------------------ MODULE FitAlloc ------------------------------
(***************************************************************************)
(* The memory managers gmsimples.c and gm (falta next).c: one list of free *)
(* blocks in address order, from which a block is taken by first, worst or *)
(* best fit, and to which it is given back and joined with its neighbours. *)
(* Pointers count in headers, as the code's pointer arithmetic does, and   *)
(* the memory is taken to be as long as that (the code asks malloc for as  *)
(* many bytes); the header takes HDR of them, and 0 is NULL.               *)
(***************************************************************************)
EXTENDS Integers, Sequences, FiniteSetsExt, SequencesExt

CONSTANTS
  HDR,           \* sizeof(struct header)
  MEMORIA,       \* tamMemoria
  Pedidos,       \* sizes asked for
  Fits           \* "simples" (gmsimples.c), "first", "worst", "best" (gm)

VARIABLES
  fit,           \* the policy compiled in
  bloco,         \* address -> [tam, prox]
  listaLivres,   \* first free block
  alocados,      \* blocks the program holds
  perdidos,      \* history: free blocks dropped from the list
  falha          \* the program has dereferenced NULL

gmVars == <<fit, bloco, listaLivres, alocados, perdidos, falha>>

NULL == 0
NoBloco == [tam |-> 0, prox |-> NULL]

\* inicializa_mem
GmInit ==
  /\ fit \in Fits
  /\ bloco = [a \in 1..MEMORIA |-> IF a = 1 THEN [tam |-> MEMORIA - HDR, prox |-> NULL] ELSE NoBloco]
  /\ listaLivres = 1 /\ alocados = {} /\ perdidos = {} /\ falha = FALSE

RECURSIVE Lista(_)
Lista(a) == IF a = NULL THEN <<>> ELSE <<a>> \o Lista(bloco[a].prox)

\* The free block chosen, as a position of the list; 0 when none is large
\* enough.  Of equally good ones the loops keep the first.
Cabem(l, tam) == {k \in DOMAIN l : bloco[l[k]].tam >= tam + HDR}
Tams(l, tam) == {bloco[l[k]].tam : k \in Cabem(l, tam)}
firstFit(l, tam) == Min(Cabem(l, tam))
worstFit(l, tam) == Min({k \in Cabem(l, tam) : bloco[l[k]].tam = Max(Tams(l, tam))})
bestFit(l, tam) == Min({k \in Cabem(l, tam) : bloco[l[k]].tam = Min(Tams(l, tam))})

Escolhe(l, tam) ==
  CASE Cabem(l, tam) = {} -> 0
    [] Cabem(l, tam) # {} /\ fit = "worst" -> worstFit(l, tam)
    [] Cabem(l, tam) # {} /\ fit = "best" -> bestFit(l, tam)
    [] OTHER -> firstFit(l, tam)

\* Where the rest of a block that is split begins.
NovoBloco(a, tam) == a + tam + HDR

\* meu_aloca.  gm's firstFit, finding nothing, runs into NULL.  A perfect fit of
\* the first free block clears its own link before the list's head is moved
\* along it, and the rest of the list is dropped.
MeuAloca(tam) ==
  LET l == Lista(listaLivres)
      k == Escolhe(l, tam)
      a == l[k]
      ant == l[Max({k - 1, 1})]
      perfeito == bloco[a].tam = HDR + tam
      novo == NovoBloco(a, tam)
      resto == [tam |-> bloco[a].tam - HDR - tam, prox |-> bloco[a].prox]
      seguinte == IF perfeito THEN bloco[a].prox ELSE novo
      b == IF perfeito THEN bloco ELSE [bloco EXCEPT ![novo] = resto, ![a].tam = tam]
  IN IF k = 0
     THEN falha' = (fit = "first") /\ UNCHANGED <<bloco, listaLivres, alocados, perdidos>>
     ELSE /\ bloco' = [(IF k = 1 THEN b ELSE [b EXCEPT ![ant].prox = seguinte]) EXCEPT ![a].prox = NULL]
          /\ listaLivres' = IF k > 1 THEN listaLivres ELSE IF perfeito THEN NULL ELSE novo
          /\ perdidos' = IF k = 1 /\ perfeito THEN perdidos \cup ToSet(Tail(l)) ELSE perdidos
          /\ alocados' = alocados \cup {a}
          /\ UNCHANGED falha

\* merge: post is taken into ant when it begins where ant ends.
Merge(b, ant, post) ==
  IF post - ant - b[ant].tam - HDR = 0
  THEN [b EXCEPT ![ant] = [prox |-> b[post].prox, tam |-> HDR + b[ant].tam + b[post].tam], ![post] = NoBloco]
  ELSE b

\* meu_libera.  The walk to the block's place needs a free block above it.
MeuLibera(a) ==
  LET l == Lista(listaLivres)
      abaixo == {k \in DOMAIN l : l[k] < a}
      ant == l[Max(abaixo)]
      atual == bloco[ant].prox
      ligado == [bloco EXCEPT ![a].prox = atual, ![ant].prox = a]
      um == Merge(ligado, ant, a)
  IN /\ alocados' = alocados \ {a}
     /\ UNCHANGED perdidos
     /\ IF listaLivres > a
        THEN /\ bloco' = Merge([bloco EXCEPT ![a].prox = listaLivres], a, listaLivres)
             /\ listaLivres' = a /\ UNCHANGED falha
        ELSE IF l = <<>> \/ Last(l) < a
        THEN falha' = TRUE /\ UNCHANGED <<bloco, listaLivres>>
        ELSE /\ bloco' = IF um # ligado THEN Merge(um, ant, atual) ELSE Merge(ligado, a, atual)
             /\ UNCHANGED <<listaLivres, falha>>

GmNext ==
  /\ ~falha /\ UNCHANGED fit
  /\ (\E tam \in Pedidos : MeuAloca(tam)) \/ (\E a \in alocados : MeuLibera(a))

-----------------------------------------------------------------------------
\* Until the program dies, blocks in use, free blocks and dropped ones tile the
\* memory, which is the walk mostra_mem makes, so no two overlap; the list is in
\* address order; and no free block ends where the next begins (meu_aloca,
\* meu_libera, merge).
GmInv ==
  ~falha =>
    LET livres == ToSet(Lista(listaLivres))
        todos == livres \cup alocados \cup perdidos
        Fim(a) == a + HDR + bloco[a].tam
    IN /\ \A a \in livres : bloco[a].prox = NULL \/ bloco[a].prox > a
       /\ livres \cap alocados = {} /\ perdidos \cap (livres \cup alocados) = {}
       /\ {Fim(a) : a \in todos} = (todos \cup {MEMORIA + 1}) \ {1}
       /\ \A a, b \in todos : a < b => Fim(a) <= b
       /\ \A a \in livres : Fim(a) \notin livres
=============================================================================
