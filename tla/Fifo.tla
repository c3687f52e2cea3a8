-------------------------------- MODULE Fifo --------------------------------
(***************************************************************************)
(* What a pipe promises: a bounded queue of bytes.  Bytes come out in the  *)
(* order they went in, each of them once.                                  *)
(***************************************************************************)
EXTENDS Integers, Sequences

CONSTANTS Bytes, Capacity

VARIABLES
  queue,   \* the bytes in the pipe
  got      \* the bytes returned by a read in the last step

vars == <<queue, got>>

Init == queue = <<>> /\ got = <<>>

Put(s) ==
  /\ Len(queue) + Len(s) <= Capacity
  /\ queue' = queue \o s
  /\ got' = <<>>

Get(n) ==
  /\ n <= Len(queue)
  /\ got' = SubSeq(queue, 1, n)
  /\ queue' = SubSeq(queue, n + 1, Len(queue))

BoundedSeq(n) == UNION {[1..k -> Bytes] : k \in 0..n}

Next ==
  \/ \E s \in BoundedSeq(Capacity) : Put(s)
  \/ \E n \in 0..Capacity : Get(n)

Spec == Init /\ [][Next]_vars
=============================================================================
