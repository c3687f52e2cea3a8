------------------------------- MODULE MCPipe -------------------------------
(* Small instances of Pipe for TLC. *)
EXTENDS Pipe, TLC

SomeWrites == {<<0>>, <<1, 0, 1>>}

Symmetry == Permutations(Readers) \cup Permutations(Writers)
=============================================================================
