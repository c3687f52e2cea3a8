------------------------------ MODULE Umalloc -------------------------------
(***************************************************************************)
(* The user library's malloc and free: a circular list of free blocks in   *)
(* address order, searched from where the last search ended.  Sizes and    *)
(* addresses are in headers; address 0 is the static header base.          *)
(***************************************************************************)
EXTENDS Integers, FiniteSetsExt

CONSTANTS
  NALLOC,     \* the least that morecore asks for
  HEAPMAX,    \* sbrk fails beyond this
  Requests    \* block sizes asked for, the header included

VARIABLES
  hdr,       \* header at an address: [ptr, size]
  freep,     \* where the search starts; -1 before the first call
  brk,       \* end of the heap
  inUse      \* addresses of the blocks the program holds

umallocVars == <<hdr, freep, brk, inUse>>

\* A header that no longer starts a block, or the link of one that is in use,
\* is never read again; it is cleared to keep the state small.
NoHdr == [ptr |-> 0, size |-> 0]

UmallocInit ==
  /\ hdr = [a \in 0..HEAPMAX |-> NoHdr]
  /\ freep = -1 /\ brk = 1 /\ inUse = {}

\* free's search for the block below bp.
RECURSIVE FindPrev(_, _, _)
FindPrev(h, p, bp) ==
  IF bp > p /\ bp < h[p].ptr THEN p
  ELSE IF p >= h[p].ptr /\ (bp > p \/ bp < h[p].ptr) THEN p
  ELSE FindPrev(h, h[p].ptr, bp)

\* Faulty: does not join with the block above.
FreeNoJoin(h, from, bp) ==
  LET p == FindPrev(h, from, bp)
      up == [h EXCEPT ![bp].ptr = h[p].ptr]
  IN [p |-> p,
      h |-> IF p + h[p].size = bp
            THEN [up EXCEPT ![p] = [ptr |-> up[bp].ptr, size |-> @.size + up[bp].size], ![bp] = NoHdr]
            ELSE [up EXCEPT ![p].ptr = bp]]

\* free: link bp after p, joined with its neighbours; freep becomes p.
Free(h, from, bp) ==
  LET p == FindPrev(h, from, bp)
      next == h[p].ptr
      up == IF bp + h[bp].size = next
            THEN [h EXCEPT ![bp] = [ptr |-> h[next].ptr, size |-> @.size + h[next].size], ![next] = NoHdr]
            ELSE [h EXCEPT ![bp].ptr = next]
  IN [p |-> p,
      h |-> IF p + h[p].size = bp
            THEN [up EXCEPT ![p] = [ptr |-> up[bp].ptr, size |-> @.size + up[bp].size], ![bp] = NoHdr]
            ELSE [up EXCEPT ![p].ptr = bp]]

\* malloc's search: s is [h, freep, brk], prevp the block before p.  Having come
\* round to freep it asks for more, and goes on from where free put it.
RECURSIVE Search(_, _, _)
Search(s, prevp, n) ==
  LET p == s.h[prevp].ptr
      nu == Max({n, NALLOC})
      f == Free([s.h EXCEPT ![s.brk].size = nu], s.freep, s.brk)
  IN IF s.h[p].size = n
     THEN [h |-> [s.h EXCEPT ![prevp].ptr = s.h[p].ptr, ![p].ptr = 0], freep |-> prevp, brk |-> s.brk, got |-> p]
     ELSE IF s.h[p].size > n
     THEN LET q == p + s.h[p].size - n
          IN [h |-> [s.h EXCEPT ![p].size = @ - n, ![q].size = n], freep |-> prevp, brk |-> s.brk, got |-> q]
     ELSE IF p # s.freep THEN Search(s, p, n)
     ELSE IF s.brk + nu > HEAPMAX THEN [h |-> s.h, freep |-> s.freep, brk |-> s.brk, got |-> -1]
     ELSE Search([h |-> f.h, freep |-> f.p, brk |-> s.brk + nu], f.p, n)

Malloc(n) ==
  /\ LET start == IF freep = -1 THEN 0 ELSE freep
         r == Search([h |-> hdr, freep |-> start, brk |-> brk], start, n)
     IN /\ hdr' = r.h /\ freep' = r.freep /\ brk' = r.brk
        /\ inUse' = IF r.got = -1 THEN inUse ELSE inUse \cup {r.got}

FreeBlock(a) ==
  /\ LET f == Free(hdr, freep, a) IN hdr' = f.h /\ freep' = f.p
  /\ inUse' = inUse \ {a}
  /\ UNCHANGED brk

UmallocNext == (\E n \in Requests : Malloc(n)) \/ (\E a \in inUse : FreeBlock(a))

-----------------------------------------------------------------------------
\* The free blocks: those the list reaches from base.
RECURSIVE Listed(_)
Listed(p) == IF hdr[p].ptr = 0 THEN {p} ELSE {p} \cup Listed(hdr[p].ptr)

\* The blocks in use and the free ones tile what sbrk has given, so no two
\* overlap and none is lost; the list is in address order from base and back,
\* and joined: no free block ends where the next begins (malloc, free, morecore).
UmallocInv ==
  LET free == Listed(0) \ {0}
      blocks == free \cup inUse
      End(a) == a + hdr[a].size
  IN freep # -1 =>
       /\ \A a \in free \cup {0} : hdr[a].ptr > a \/ hdr[a].ptr = 0
       /\ free \cap inUse = {} /\ freep \in free \cup {0}
       /\ {End(a) : a \in blocks} = (blocks \cup {brk}) \ {1}
       /\ \A a, b \in blocks : a < b => End(a) <= b
       /\ \A a \in free : End(a) \notin free
=============================================================================
