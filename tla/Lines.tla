------------------------------- MODULE Lines --------------------------------
(***************************************************************************)
(* What the console promises its readers: what is typed can be edited      *)
(* until its line ends, and is then read in order, once.                   *)
(***************************************************************************)
EXTENDS Integers, Sequences, SequencesExt

CONSTANTS Chars, Size    \* characters, and how many the console holds

VARIABLES queue, line    \* finished input, and the line being edited

vars == <<queue, line>>

Init == queue = <<>> /\ line = <<>>

\* A character; it ends the line when it says so or when there is no more room.
Type(c) ==
  /\ Len(queue) + Len(line) < Size
  /\ IF c \in {"nl", "eof"} \/ Len(queue) + Len(line) = Size - 1
     THEN queue' = queue \o line \o <<c>> /\ line' = <<>>
     ELSE line' = Append(line, c) /\ UNCHANGED queue

Rubout == line # <<>> /\ line' = Front(line) /\ UNCHANGED queue
KillLine == line' = <<>> /\ UNCHANGED queue
Take == queue # <<>> /\ queue' = Tail(queue) /\ UNCHANGED line

Next == UNCHANGED vars \/ (\E c \in Chars : Type(c)) \/ Rubout \/ KillLine \/ Take

Spec == Init /\ [][Next]_vars
=============================================================================
