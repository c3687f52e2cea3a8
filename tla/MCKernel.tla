------------------------------ MODULE MCKernel ------------------------------
(***************************************************************************)
(* Small instances of the parts of the kernel that share no state here:    *)
(* each behaviour runs one of them.                                        *)
(***************************************************************************)
EXTENDS Blocks, FileTable, Console, Terminal, Interrupts, Clock, TLC

CONSTANTS p1, p2, f1, f2, c1, c2, t1, t2, t3

VARIABLE part    \* the part that runs

\* The threads of the interrupts are alike.
Symmetry == Permutations({t1, t2, t3})

MCInodeOf == f1 :> 2 @@ f2 :> 3

\* An aligned block, and more than two chunks, in turn of one value or two.
MCWrites == {<<2, 2>>, <<1, 2, 1, 2, 1>>}

Parts == {"blocks", "tables", "console", "terminal", "interrupts", "clock"}

allVars == <<part, blockVars, fileVars, consoleVars, terminalVars, cliVars, clockVars>>

Init ==
  /\ part \in Parts
  /\ BlocksInit /\ (part # "blocks" => image = Min(Images))
  /\ TablesInit /\ ConsoleInit /\ TerminalInit /\ CliInit /\ ClockInit

Next ==
  /\ UNCHANGED part
  /\ \/ part = "blocks" /\ BlocksNext
        /\ UNCHANGED <<fileVars, consoleVars, terminalVars, cliVars, clockVars>>
     \/ part = "tables" /\ TablesNext
        /\ UNCHANGED <<blockVars, consoleVars, terminalVars, cliVars, clockVars>>
     \/ part = "console" /\ ConsoleNext
        /\ UNCHANGED <<blockVars, fileVars, terminalVars, cliVars, clockVars>>
     \/ part = "terminal" /\ TerminalNext
        /\ UNCHANGED <<blockVars, fileVars, consoleVars, cliVars, clockVars>>
     \/ part = "interrupts" /\ CliNext
        /\ UNCHANGED <<blockVars, fileVars, consoleVars, terminalVars, clockVars>>
     \/ part = "clock" /\ ClockNext
        /\ UNCHANGED <<blockVars, fileVars, consoleVars, terminalVars, cliVars>>

Spec == Init /\ [][Next]_allVars

\* Nobody sleeps in consoleread over input that is there, and a full ring has been handed to the
\* readers; cgaputc keeps the cursor on the screen, and kbdgetc no shift key that is up.
DeviceInv == ConsoleInv /\ TerminalInv
=============================================================================
