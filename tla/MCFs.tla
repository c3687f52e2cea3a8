-------------------------------- MODULE MCFs --------------------------------
(* Small instances of Fs for TLC. *)
EXTENDS Fs, TLC

CONSTANTS a, b

C(op, path, new) == [op |-> op, path |-> path, new |-> new]

(* Calls on /a, /b and /a/b, where /a may be a file or a directory *)
SomeCalls ==
  {C("create", <<a, b>>, <<>>), C("mkdir", <<a>>, <<>>),
   C("create", <<a>>, <<>>), C("unlink", <<a>>, <<>>), C("unlink", <<a, b>>, <<>>),
   C("link", <<a>>, <<b>>), C("unlink", <<b>>, <<>>), C("open", <<b>>, <<>>)}

Symmetry == Permutations(Procs)
=============================================================================
