------------------------------ MODULE ExThread ------------------------------
(***************************************************************************)
(* Threads that count to a limit together: ex_thread.c tests x before it   *)
(* takes the lock, ex_thread.py while it holds it.                         *)
(***************************************************************************)
EXTENDS Integers, FiniteSets

CONSTANTS Linhas,   \* the threads
          LIMITE    \* 2000 in the C program, 200 in the Python one

VARIABLES x, xpc, versao   \* the counter, where each thread is, "c" or "py"

exThreadVars == <<x, xpc, versao>>

ExThreadInit ==
  /\ x = 0
  /\ versao \in {"c", "py"}
  /\ xpc = [t \in Linhas |-> IF versao = "c" THEN "testa" ELSE "soma"]

(* while( x < 2000 ), outside the lock *)
Testa(t) ==
  /\ versao = "c" /\ xpc[t] = "testa"
  /\ xpc' = [xpc EXCEPT ![t] = IF x < LIMITE THEN "soma" ELSE "fim"]
  /\ UNCHANGED <<x, versao>>

(* lock; ++x; unlock.  Nobody sees x in between except at a test, which reads one value or the other. *)
Mythread(t) ==
  /\ versao = "c" /\ xpc[t] = "soma"
  /\ x' = x + 1
  /\ xpc' = [xpc EXCEPT ![t] = "testa"]
  /\ UNCHANGED versao

(* The body of run in Python, under the lock, and the test after it. *)
Run(t) ==
  /\ versao = "py" /\ xpc[t] = "soma"
  /\ x' = IF x < LIMITE THEN x + 1 ELSE x
  /\ xpc' = [xpc EXCEPT ![t] = "sai"]
  /\ UNCHANGED versao

Sai(t) ==
  /\ versao = "py" /\ xpc[t] = "sai"
  /\ xpc' = [xpc EXCEPT ![t] = IF x >= LIMITE THEN "fim" ELSE "soma"]
  /\ UNCHANGED <<x, versao>>

ExThreadNext == \E t \in Linhas : Testa(t) \/ Mythread(t) \/ Run(t) \/ Sai(t)

(* The count never passes the limit by more than the threads that had tested before the last of
   them added, which is never with the test under the lock, and no thread ends below the limit. *)
ExThreadInv ==
  /\ x + Cardinality({t \in Linhas : versao = "c" /\ xpc[t] = "soma"})
       <= LIMITE + (IF versao = "c" THEN Cardinality(Linhas) - 1 ELSE 0)
       \/ x < LIMITE
  /\ \A t \in Linhas : xpc[t] = "fim" => x >= LIMITE
=============================================================================
