---------------------------- MODULE LockedBlocks ----------------------------
(***************************************************************************)
(* What the buffer cache promises: the disk is a set of blocks, each with  *)
(* a lock, and the contents of a block change only while it is locked, by  *)
(* the process that holds it.  On the blocks the disk has trouble with, a  *)
(* write may be undone later and a read may give anything, but no other    *)
(* block is affected.                                                      *)
(***************************************************************************)
CONSTANTS Procs, Blocks, BadBlocks, Vals, None

VARIABLES
  content,   \* the value of each block
  owner      \* the process that has each block locked

vars == <<content, owner>>

Init ==
  /\ content \in [Blocks -> Vals]
  /\ owner = [n \in Blocks |-> None]

Lock(p, n) ==
  /\ owner[n] = None
  /\ owner' = [owner EXCEPT ![n] = p]
  /\ \E v \in {content[n]} \cup (IF n \in BadBlocks THEN Vals ELSE {}) :
       content' = [content EXCEPT ![n] = v]

Set(p, n, v) ==
  /\ owner[n] = p
  /\ content' = [content EXCEPT ![n] = v]
  /\ UNCHANGED owner

Unlock(p, n) ==
  /\ owner[n] = p
  /\ owner' = [owner EXCEPT ![n] = None]
  /\ UNCHANGED content

Decay(n) ==
  /\ n \in BadBlocks /\ owner[n] = None
  /\ \E v \in Vals : content' = [content EXCEPT ![n] = v]
  /\ UNCHANGED owner

(* Steps that change nothing come first: most steps of the cache are not visible here. *)
Next ==
  \/ UNCHANGED vars
  \/ \E n \in Blocks :
       \/ \E p \in Procs : Lock(p, n) \/ Unlock(p, n) \/ \E v \in Vals : Set(p, n, v)
       \/ Decay(n)

Spec == Init /\ [][Next]_vars
=============================================================================
