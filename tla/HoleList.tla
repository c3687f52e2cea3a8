------------------------------ MODULE HoleList ------------------------------
(***************************************************************************)
(* The memory manager MMU.c: one doubly linked list of all blocks, holes   *)
(* with a positive size and blocks in use with a negative one.  A block is *)
(* cut from the end of the first hole that is large enough.                *)
(***************************************************************************)
EXTENDS Integers, Sequences, FiniteSetsExt, SequencesExt

CONSTANTS
  HS,            \* hole_size: the size of the header
  MEMSIZE,       \* the argument of inicializa_memoria
  Sizes          \* sizes asked for

VARIABLES
  hole,          \* address -> [tam, next, prev]; 0 is NULL
  torto          \* history: the sizes have gone wrong, see MmuInv

mmuVars == <<hole, torto>>

NoHole == [tam |-> 0, next |-> 0, prev |-> 0]

\* inicializa_memoria
MmuInit ==
  /\ hole = [a \in 1..MEMSIZE |-> IF a = 1 THEN [tam |-> MEMSIZE - HS, next |-> 0, prev |-> 0] ELSE NoHole]
  /\ torto = FALSE

RECURSIVE Chain(_)
Chain(a) == IF a = 0 THEN <<>> ELSE <<a>> \o Chain(hole[a].next)

\* History: how far the recorded end of a hole lies beyond the next header.
Excess(h, a) == IF h[a].next = 0 \/ h[a].tam <= 0 THEN 0 ELSE a + HS + h[a].tam - h[a].next

\* Where the block cut from hole a begins.
CutAt(a, size) == a + hole[a].tam - size - HS

SetPrev(h, a, p) == IF a = 0 THEN h ELSE [h EXCEPT ![a].prev = p]

\* meu_aloca: the first hole that fits exactly or can be cut.
MmuAloca(size) ==
  LET l == Chain(1)
      fits == {k \in DOMAIN l : hole[l[k]].tam = size \/ hole[l[k]].tam > size + HS}
      a == l[Min(fits)]
      aux == CutAt(a, size)
  IN /\ fits # {}
     /\ IF hole[a].tam = size
        THEN /\ hole' = [hole EXCEPT ![a].tam = -size]
             /\ torto' = (torto \/ Excess(hole, a) > 0)
        ELSE /\ hole' = SetPrev([hole EXCEPT ![aux] = [tam |-> -size, next |-> hole[a].next, prev |-> a],
                                             ![a].next = aux, ![a].tam = @ - size - HS],
                                hole[a].next, aux)
             /\ UNCHANGED torto

\* meu_desaloca: joins with the hole after it, then with the one before.
MmuDesaloca(a) ==
  LET h0 == [hole EXCEPT ![a].tam = -@]
      n == hole[a].next
      p == hole[a].prev
      h1 == IF n = 0 \/ hole[n].tam <= 0 THEN h0
            ELSE SetPrev([h0 EXCEPT ![a].tam = @ + HS + hole[n].tam, ![a].next = hole[n].next,
                                    ![n] = NoHole], hole[n].next, a)
  IN /\ hole' = IF p = 0 \/ hole[p].tam <= 0 THEN h1
                ELSE SetPrev([h1 EXCEPT ![p].tam = @ + h1[a].tam + HS, ![p].next = h1[a].next,
                                        ![a] = NoHole], h1[a].next, p)
     /\ torto' = (torto \/ \E x \in {a, p} \ {0} : Excess(hole', x) > HS)

\* What the program does to itself with overlapping blocks is not followed.
MmuNext ==
  /\ ~torto
  /\ \/ \E size \in Sizes : MmuAloca(size)
     \/ \E a \in {x \in ToSet(Chain(1)) : hole[x].tam < 0} : MmuDesaloca(a)

-----------------------------------------------------------------------------
\* Headers and sizes always add up to the whole memory; the two directions of
\* the list agree and its addresses grow; no two holes are neighbours; and a
\* block in use ends before the next header.  The exceptions come from the cut,
\* which leaves the hole one header too long: a request that exactly fills such
\* a hole, and two such holes joined.  The next block cut then overlaps another.
MmuInv ==
  LET l == Chain(1)
      Abs(x) == IF x < 0 THEN -x ELSE x
  IN /\ FoldLeft(LAMBDA s, a : s + Abs(hole[a].tam) + HS, 0, l) = MEMSIZE
     /\ \A k \in 1..Len(l) - 1 :
          /\ hole[l[k + 1]].prev = l[k] /\ l[k] < l[k + 1]
          /\ hole[l[k]].tam <= 0 \/ hole[l[k + 1]].tam <= 0
          /\ hole[l[k]].tam < 0 /\ ~torto => l[k] + HS - hole[l[k]].tam <= l[k + 1]
=============================================================================
