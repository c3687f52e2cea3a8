------------------------------ MODULE Console -------------------------------
(***************************************************************************)
(* The console: the input ring that interrupt handlers fill and edit and   *)
(* readers empty.                                                          *)
(* A handler or a reader holds input.lock from its first access to the     *)
(* ring until it returns or sleeps; a reader's steps are a character each. *)
(* kill does not take it, so sleep() is a step after the test of killed.   *)
(***************************************************************************)
EXTENDS Integers, Sequences, FiniteSetsExt

CONSTANTS
  Readers,      \* processes that read the console
  INPUT_BUF,    \* size of the ring
  UINT,         \* the indices count modulo this; INPUT_BUF divides it
  ReadLens,     \* the lengths read() is called with
  Typed,        \* characters getc may deliver
  NoneR

VARIABLES
  input,     \* [buf, r, w, e]
  rd,        \* reader -> [pc, n, target]
  lockedBy,  \* the reader that holds input.lock, or NoneR
  dead       \* readers with proc->killed

consoleVars == <<input, rd, lockedBy, dead>>

NotReading == [pc |-> "user", n |-> 0, target |-> 0]
At(x) == input.buf[x % INPUT_BUF]
Plus(x, k) == (x + k + UINT) % UINT

ConsoleInit ==
  /\ input = [buf |-> [k \in 0..INPUT_BUF - 1 |-> ""], r |-> 0, w |-> 0, e |-> 0]
  /\ rd = [p \in Readers |-> NotReading]
  /\ lockedBy = NoneR /\ dead = {}

-----------------------------------------------------------------------------
\* Faulty: not when the ring is full.
EndsAtNewline(in, c) == c \in {"nl", "eof"}

\* When a character ends what may be edited.
Ends(in, c) == c \in {"nl", "eof"} \/ in.e = Plus(in.r, INPUT_BUF)

WakeReaders == [p \in Readers |-> IF rd[p].pc = "asleep" THEN [rd[p] EXCEPT !.pc = "loop"] ELSE rd[p]]

\* One character through consoleintr's switch.  ^P only lists processes; a
\* key without a character gives 0.
ConsoleChar(c) ==
  LET kept == {k \in 0..INPUT_BUF :
                 \A j \in 1..k : Plus(input.e, 1 - j) # input.w /\ At(Plus(input.e, -j)) # "nl"}
      erased == IF c = "bs" THEN (IF input.e # input.w THEN 1 ELSE 0) ELSE Max(kept)
      in == [input EXCEPT !.buf[input.e % INPUT_BUF] = c, !.e = Plus(@, 1)]
  IN IF c = "" THEN UNCHANGED <<input, rd>>
     ELSE IF c \in {"bs", "kill"}
     THEN input' = [input EXCEPT !.e = Plus(@, -erased)] /\ UNCHANGED rd
     ELSE IF Plus(input.e, -input.r) < INPUT_BUF
     THEN /\ input' = IF Ends(in, c) THEN [in EXCEPT !.w = in.e] ELSE in
          /\ rd' = IF Ends(in, c) THEN WakeReaders ELSE rd
     ELSE UNCHANGED <<input, rd>>

\* kbdintr or uartintr, for one character.
Consoleintr ==
  /\ lockedBy = NoneR
  /\ \E c \in Typed : ConsoleChar(c)
  /\ UNCHANGED <<lockedBy, dead>>

-----------------------------------------------------------------------------
CallRead(p, n) ==
  /\ rd[p].pc = "user" /\ p \notin dead
  /\ rd' = [rd EXCEPT ![p] = [pc |-> "loop", n |-> n, target |-> n]]
  /\ UNCHANGED <<input, lockedBy, dead>>

\* consoleread: acquire, or wake up with the lock, and one turn of its loop.
Consoleread(p) ==
  /\ rd[p].pc = "loop" /\ lockedBy \in {p, NoneR}
  /\ LET me == rd[p]
         c == At(input.r)
         return == me.n = 0 \/ (input.r = input.w /\ p \in dead)
     IN IF return
        THEN /\ rd' = [rd EXCEPT ![p] = NotReading] /\ lockedBy' = NoneR
             /\ UNCHANGED input
        ELSE IF input.r = input.w
        THEN /\ rd' = [rd EXCEPT ![p].pc = "sleep"] /\ lockedBy' = p
             /\ UNCHANGED input
        ELSE /\ input' = IF c = "eof" /\ me.n < me.target THEN input ELSE [input EXCEPT !.r = Plus(@, 1)]
             /\ IF c \in {"eof", "nl"}
                THEN rd' = [rd EXCEPT ![p] = NotReading] /\ lockedBy' = NoneR
                ELSE rd' = [rd EXCEPT ![p].n = @ - 1] /\ lockedBy' = p
  /\ UNCHANGED dead

\* sleep(&input.r, &input.lock)
ReaderSleeps(p) ==
  /\ rd[p].pc = "sleep"
  /\ rd' = [rd EXCEPT ![p].pc = "asleep"]
  /\ lockedBy' = NoneR
  /\ UNCHANGED <<input, dead>>

KillReader(p) ==
  /\ p \notin dead
  /\ dead' = dead \cup {p}
  /\ rd' = [rd EXCEPT ![p].pc = IF @ = "asleep" THEN "loop" ELSE @]
  /\ UNCHANGED <<input, lockedBy>>

ConsoleNext ==
  \/ Consoleintr
  \/ \E p \in Readers :
       Consoleread(p) \/ ReaderSleeps(p) \/ KillReader(p) \/ (\E n \in ReadLens : CallRead(p, n))

-----------------------------------------------------------------------------
Segment(from, to) == [k \in 1..Plus(to, -from) |-> At(Plus(from, k - 1))]

\* The ring is a line editor in front of a queue, also when its indices wrap
\* around and when it is full: what is typed is edited and delivered whole, in
\* order and once, whoever reads (consoleintr, consoleread).
LineDiscipline ==
  INSTANCE Lines WITH Chars <- {"a", "A", "nl", "eof"}, Size <- INPUT_BUF,
                      queue <- Segment(input.r, input.w), line <- Segment(input.w, input.e)
ConsoleIsLines == LineDiscipline!Spec

\* Nobody sleeps with input to read; a full ring has been handed to the
\* readers, since a newline could no longer be typed.  (A reader killed on its way
\* to sleep() does sleep on: that is KilledWakes of module Sched.)
ConsoleInv ==
  /\ \A p \in Readers : rd[p].pc = "asleep" => input.r = input.w
  /\ Plus(input.e, -input.r) = INPUT_BUF => input.w = input.e
=============================================================================
