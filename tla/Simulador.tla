------------------------------ MODULE Simulador -----------------------------
(***************************************************************************)
(* The scheduler simulator (simulador_so.c): an alarm every 200 ms of CPU  *)
(* time runs escalonador, which is not interrupted by another alarm, and   *)
(* main has made its processes long before the first.  The registers are   *)
(* saved and restored as ci is; none of the processes uses them.           *)
(***************************************************************************)
EXTENDS Integers

CONSTANTS NUM_TICKS,
          Passos      \* how many steps each process of main has before it starts again

VARIABLES
  processo_id, pid, contador, ci,
  tabela,       \* tabela_Processos: ci and proximo
  rodou,        \* the calls of each process, modulo its steps
  fatia         \* the calls of the running process in its turn, and the turns each has begun

simuladorVars == <<processo_id, pid, contador, ci, tabela, rodou, fatia>>

Processos == DOMAIN Passos

SimuladorInit ==
  /\ processo_id = -1 /\ pid = 0 /\ contador = 0 /\ ci = 0
  /\ tabela = [p \in Processos |-> [ci |-> 0, proximo |-> 0]]
  /\ rodou = [p \in Processos |-> 0]
  /\ fatia = 0

CriaProcesso ==
  /\ processo_id + 1 \in Processos
  /\ processo_id' = processo_id + 1
  /\ tabela' = [tabela EXCEPT ![processo_id + 1] = [ci |-> 0, proximo |-> processo_id]]
  /\ UNCHANGED <<pid, contador, ci, rodou, fatia>>

escolhe_processo == IF tabela[pid].proximo < 0 THEN processo_id ELSE tabela[pid].proximo

salva_contexto == [tabela EXCEPT ![pid].ci = ci]

restaura_contexto(t, p) == t[p].ci

(* processo_1 .. processo_4 *)
Processo(p, c) == IF c + 1 < Passos[p] THEN c + 1 ELSE 0

Escalonador ==
  LET troca == contador + 1 > NUM_TICKS
      p == IF troca THEN escolhe_processo ELSE pid
  IN
  /\ processo_id + 1 \notin Processos
  /\ tabela' = salva_contexto
  /\ pid' = p
  /\ contador' = IF troca THEN 0 ELSE contador + 1
  /\ ci' = Processo(p, restaura_contexto(salva_contexto, p))
  /\ rodou' = [rodou EXCEPT ![p] = (@ + 1) % Passos[p]]
  /\ fatia' = IF troca THEN 1 ELSE fatia + 1
  /\ UNCHANGED processo_id

SimuladorNext == CriaProcesso \/ Escalonador

(* Each process goes on where it stopped, whatever ran in between, a turn is never longer than
   NUM_TICKS + 1 alarms, and from any process the turns go round all of them. *)
SimuladorInv ==
  /\ \A p \in Processos : p <= processo_id => (IF p = pid THEN ci ELSE tabela[p].ci) = rodou[p]
  /\ fatia <= NUM_TICKS + 1
  /\ processo_id + 1 \notin Processos =>
       LET prox(p) == IF tabela[p].proximo < 0 THEN processo_id ELSE tabela[p].proximo
       IN  {prox(p) : p \in Processos} = Processos
=============================================================================
