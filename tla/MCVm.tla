-------------------------------- MODULE MCVm --------------------------------
(* Small instances of Vm for TLC: a page holds two bytes. *)
EXTENDS Vm

SomePrograms == {<< <<0, 2>> >>, << <<0, 1>>, <<1, 3>> >>}
SomeDeltas == {-4, -2, -1, 1, 3}
=============================================================================
