---------------------------- MODULE LeitorRedator ---------------------------
(***************************************************************************)
(* Readers and writers (LeitorRedator.c).  The mutexes have the default    *)
(* kind: any thread's unlock opens them.  A reader tests no_of_readers     *)
(* after it has let counter go, so it may see a number other than the one  *)
(* its own update left and go the other way; trocado records that this has *)
(* happened.                                                               *)
(***************************************************************************)
EXTENDS Integers, FiniteSets

CONSTANTS Leitores, Redatores

VARIABLES
  no_wait, no_acc,   \* TRUE: locked; counter is never held across a step
  no_of_readers,
  visto,             \* the number a reader's own update left
  rpc,               \* where each thread is
  trocado

leitorVars == <<no_wait, no_acc, no_of_readers, visto, rpc, trocado>>

LeitorInit ==
  /\ no_wait = FALSE /\ no_acc = FALSE /\ no_of_readers = 0
  /\ visto = [t \in Leitores |-> 0]
  /\ rpc = [t \in Leitores \cup Redatores |-> "fora"]
  /\ trocado = FALSE

Vai(t, pc) == rpc' = [rpc EXCEPT ![t] = pc]

(* check_and_wait, check_and_wait_if_busy: trylock, then lock *)
CheckAndWait(t) ==
  /\ rpc[t] = "fora" /\ ~no_wait
  /\ no_wait' = TRUE
  /\ Vai(t, IF t \in Leitores THEN "conta" ELSE "acesso")
  /\ UNCHANGED <<no_acc, no_of_readers, visto, trocado>>

(* no_of_readers++ and no_of_readers-- with counter held *)
Conta(t) ==
  /\ rpc[t] \in {"conta", "le"}
  /\ LET n == no_of_readers + (IF rpc[t] = "conta" THEN 1 ELSE -1)
     IN  no_of_readers' = n /\ visto' = [visto EXCEPT ![t] = n]
  /\ Vai(t, IF rpc[t] = "conta" THEN "primeiro" ELSE "ultimo")
  /\ UNCHANGED <<no_wait, no_acc, trocado>>

(* The test for n readers went another way than it would have with the lock held. *)
Viu(t, n) == trocado' = (trocado \/ (visto[t] = n) # (no_of_readers = n))

(* if(no_of_readers==1) *)
Primeiro(t) ==
  /\ rpc[t] = "primeiro"
  /\ Vai(t, IF no_of_readers = 1 THEN "acesso" ELSE "entra")
  /\ Viu(t, 1)
  /\ UNCHANGED <<no_wait, no_acc, no_of_readers, visto>>

(* lock(&no_acc) of the first reader and of a writer *)
Acesso(t) ==
  /\ rpc[t] = "acesso" /\ ~no_acc
  /\ no_acc' = TRUE
  /\ Vai(t, "entra")
  /\ UNCHANGED <<no_wait, no_of_readers, visto, trocado>>

(* unlock(&no_wait) *)
Entra(t) ==
  /\ rpc[t] = "entra"
  /\ no_wait' = FALSE
  /\ Vai(t, IF t \in Leitores THEN "le" ELSE "escreve")
  /\ UNCHANGED <<no_acc, no_of_readers, visto, trocado>>

(* if(no_of_readers==0) unlock(&no_acc) *)
Ultimo(t) ==
  /\ rpc[t] = "ultimo"
  /\ no_acc' = (no_acc /\ no_of_readers # 0)
  /\ Viu(t, 0)
  /\ Vai(t, "fora")
  /\ UNCHANGED <<no_wait, no_of_readers, visto>>

(* the end of write *)
Escreve(t) ==
  /\ rpc[t] = "escreve"
  /\ no_acc' = FALSE
  /\ Vai(t, "fora")
  /\ UNCHANGED <<no_wait, no_of_readers, visto, trocado>>

LeitorNext ==
  \E t \in Leitores \cup Redatores :
    \/ CheckAndWait(t) \/ Conta(t) \/ Primeiro(t) \/ Acesso(t) \/ Entra(t) \/ Ultimo(t) \/ Escreve(t)

(* While no reader's test of no_of_readers went another way than its own update says, a writer
   is alone and some thread can go on. *)
LeitorRedatorInv ==
  trocado \/
  /\ \A w \in Redatores : rpc[w] = "escreve" =>
       \A t \in (Leitores \cup Redatores) \ {w} : rpc[t] \notin {"le", "escreve"}
  /\ \E t \in Leitores \cup Redatores :
       (rpc[t] = "fora" => ~no_wait) /\ (rpc[t] = "acesso" => ~no_acc)
=============================================================================
