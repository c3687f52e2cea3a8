------------------------- MODULE ProdutorConsumidor -------------------------
(***************************************************************************)
(* A producer and a consumer share a ring (ProdutorConsumidor.c) with the  *)
(* System V semaphores of mysem.c: 0 is the mutex, a full ring waits at 2  *)
(* and an empty one at 1.  Item numbers are kept modulo ITENS.             *)
(***************************************************************************)
EXTENDS Integers

CONSTANTS MAX_BUF, ITENS

VARIABLES sem, buffer, head, tail, count, item_id, fflag, eflag,
          ppc, cpc,       \* where the producer and the consumer are
          consumido       \* the last item consumed

prodConsVars == <<sem, buffer, head, tail, count, item_id, fflag, eflag, ppc, cpc, consumido>>

(* The ints of main, read as the shorts that SETALL takes. *)
sem_init_diff_val(values) == [i \in DOMAIN values |-> IF i % 2 = 0 THEN values[i \div 2] % 2^16
                                                      ELSE values[i \div 2] \div 2^16]

ProdConsInit ==
  /\ sem = sem_init_diff_val([i \in 0..2 |-> IF i = 0 THEN 1 ELSE 0])
  /\ buffer = [i \in 0..(MAX_BUF - 1) |-> 0]
  /\ head = 0 /\ tail = 0 /\ count = 0 /\ item_id = 1
  /\ fflag = FALSE /\ eflag = FALSE
  /\ ppc = "entra" /\ cpc = "entra"
  /\ consumido = 0

CanChange(i, amount) == sem[i] + amount >= 0
sem_change(i, amount) == CanChange(i, amount) /\ sem' = [sem EXCEPT ![i] = @ + amount]

Ring == <<buffer, head, tail, count, item_id, consumido>>

Produz ==
  /\ count' = count + 1
  /\ buffer' = [buffer EXCEPT ![head] = item_id]
  /\ item_id' = (item_id + 1) % ITENS
  /\ eflag' = IF count = 0 THEN FALSE ELSE eflag
  /\ sem' = IF count = 0 /\ eflag THEN [sem EXCEPT ![1] = @ + 1] ELSE sem
  /\ head' = (head + 1) % MAX_BUF
  /\ ppc' = "sai"
  /\ UNCHANGED <<tail, fflag, cpc, consumido>>

(* count==MAX_BUF-1 && fflag==1, after count-- *)
Avisa == count = MAX_BUF /\ fflag

Consome ==
  /\ count' = count - 1
  /\ consumido' = buffer[tail]
  /\ tail' = (tail + 1) % MAX_BUF
  /\ fflag' = IF Avisa THEN FALSE ELSE fflag
  /\ sem' = IF Avisa THEN [sem EXCEPT ![2] = @ + 1] ELSE sem
  /\ cpc' = "sai"
  /\ UNCHANGED <<buffer, head, item_id, eflag, ppc>>

Producer ==
  \/ /\ ppc = "entra" /\ sem_change(0, -1)
     /\ ppc' = IF count = MAX_BUF THEN "cheio" ELSE "produz"
     /\ fflag' = (fflag \/ count = MAX_BUF)
     /\ UNCHANGED <<Ring, eflag, cpc>>
  \/ /\ ppc = "cheio" /\ sem_change(0, 1) /\ ppc' = "espera" /\ UNCHANGED <<Ring, fflag, eflag, cpc>>
  \/ /\ ppc = "espera" /\ sem_change(2, -1) /\ ppc' = "volta" /\ UNCHANGED <<Ring, fflag, eflag, cpc>>
  \/ /\ ppc = "volta" /\ sem_change(0, -1) /\ ppc' = "produz" /\ UNCHANGED <<Ring, fflag, eflag, cpc>>
  \/ ppc = "produz" /\ Produz
  \/ /\ ppc = "sai" /\ sem_change(0, 1) /\ ppc' = "entra" /\ UNCHANGED <<Ring, fflag, eflag, cpc>>

Consumer ==
  \/ /\ cpc = "entra" /\ sem_change(0, -1)
     /\ cpc' = IF count = 0 THEN "vazio" ELSE "consome"
     /\ eflag' = (eflag \/ count = 0)
     /\ UNCHANGED <<Ring, fflag, ppc>>
  \/ /\ cpc = "vazio" /\ sem_change(0, 1) /\ cpc' = "espera" /\ UNCHANGED <<Ring, fflag, eflag, ppc>>
  \/ /\ cpc = "espera" /\ sem_change(1, -1) /\ cpc' = "volta" /\ UNCHANGED <<Ring, fflag, eflag, ppc>>
  \/ /\ cpc = "volta" /\ sem_change(0, -1) /\ cpc' = "consome" /\ UNCHANGED <<Ring, fflag, eflag, ppc>>
  \/ cpc = "consome" /\ Consome
  \/ /\ cpc = "sai" /\ sem_change(0, 1) /\ cpc' = "entra" /\ UNCHANGED <<Ring, fflag, eflag, ppc>>

ProdConsNext == Producer \/ Consumer

Parado(pc, i) == (pc \in {"entra", "volta"} /\ sem[0] = 0) \/ (pc = "espera" /\ sem[i] = 0)

(* The ring holds the last count items in order, with 0 <= count <= MAX_BUF, each item is
   consumed once and in order, and the two threads never wait for each other. *)
ProdConsInv ==
  /\ count \in 0..MAX_BUF /\ head = (tail + count) % MAX_BUF
  /\ \A i \in 0..(count - 1) : buffer[(tail + i) % MAX_BUF] = (item_id - count + i) % ITENS
  /\ consumido = (item_id - count - 1) % ITENS
  /\ ~(Parado(ppc, 2) /\ Parado(cpc, 1))
=============================================================================
