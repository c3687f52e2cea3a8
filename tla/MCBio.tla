------------------------------- MODULE MCBio --------------------------------
(* Small instances of Bio for TLC. *)
EXTENDS Bio, TLC

CONSTANTS w, x   \* the bad block, and the good block whose values change

(* The other blocks keep one value, which differs from one of x's. *)
SomeContents == {w, x} \X Vals \cup Blocks \X {1}

Symmetry == Permutations(Procs) \cup Permutations(Blocks \ {w, x})
=============================================================================
