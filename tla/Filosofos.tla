------------------------------ MODULE Filosofos -----------------------------
(***************************************************************************)
(* The dining philosophers (Filosofos.c).  Philosopher 0's back spoon has  *)
(* the index PHILOSOPHERS, one past the array: memory that starts as zero, *)
(* which is an unlocked mutex, and that nothing else in the program uses.  *)
(***************************************************************************)
EXTENDS Integers

CONSTANT PHILOSOPHERS

Philos == 0..(PHILOSOPHERS - 1)
Spoons == 0..PHILOSOPHERS

VARIABLES spoon,    \* who has it, -1 if nobody
          fpc,      \* "pensa", "segunda", "espera", "come", "larga"
          falta     \* the spoons a philosopher's trylocks missed

filosofosVars == <<spoon, fpc, falta>>

FilosofosInit ==
  /\ spoon = [c \in Spoons |-> -1]
  /\ fpc = [a \in Philos |-> "pensa"]
  /\ falta = [a \in Philos |-> {}]

(* Faulty: the last spoon of the array, as at a round table. *)
BackRing(a) == IF a > 0 THEN a - 1 ELSE PHILOSOPHERS - 1

(* phil_init *)
back(a) == IF a > 0 THEN a - 1 ELSE PHILOSOPHERS
front(a) == a

Segue(a, pc) == fpc' = [fpc EXCEPT ![a] = pc]

TryLock(a, c) ==
  /\ spoon' = IF spoon[c] = -1 THEN [spoon EXCEPT ![c] = a] ELSE spoon
  /\ falta' = IF spoon[c] = -1 THEN falta ELSE [falta EXCEPT ![a] = @ \cup {c}]

Lock(a, c) == spoon[c] = -1 /\ spoon' = [spoon EXCEPT ![c] = a] /\ falta' = [falta EXCEPT ![a] = @ \ {c}]

(* check_If_Spoons_Are_Available: an odd philosopher tries the front one first. *)
Primeira(a) == fpc[a] = "pensa" /\ TryLock(a, IF a % 2 = 1 THEN front(a) ELSE back(a)) /\ Segue(a, "segunda")

Segunda(a) ==
  /\ fpc[a] = "segunda"
  /\ TryLock(a, IF a % 2 = 1 THEN back(a) ELSE front(a))
  /\ Segue(a, IF falta'[a] = {} THEN "come" ELSE "espera")

(* wait_for_others_to_finish: the one that is missing, or the front one and then the back one *)
Espera(a) ==
  /\ fpc[a] = "espera"
  /\ Lock(a, IF front(a) \in falta[a] THEN front(a) ELSE back(a))
  /\ Segue(a, IF falta'[a] = {} THEN "come" ELSE "espera")

(* Eat, and the first unlock of Release_Spoons *)
Come(a) ==
  /\ fpc[a] = "come"
  /\ spoon' = [spoon EXCEPT ![IF a % 2 = 1 THEN back(a) ELSE front(a)] = -1]
  /\ Segue(a, "larga")
  /\ UNCHANGED falta

Larga(a) ==
  /\ fpc[a] = "larga"
  /\ spoon' = [spoon EXCEPT ![IF a % 2 = 1 THEN front(a) ELSE back(a)] = -1]
  /\ Segue(a, "pensa")
  /\ UNCHANGED falta

FilosofosNext == \E a \in Philos : Primeira(a) \/ Segunda(a) \/ Espera(a) \/ Come(a) \/ Larga(a)

(* Philosophers a and a + 1 never eat at once, and somebody is never waiting: the spoons form a
   line, not a ring, so the last philosopher and the first may eat together. *)
FilosofosInv ==
  /\ \A a \in Philos : fpc[a] = "come" => spoon[front(a)] = a /\ spoon[back(a)] = a
  /\ \A a \in Philos : a > 0 => ~(fpc[a] = "come" /\ fpc[a - 1] = "come")
  /\ \E a \in Philos : fpc[a] = "espera" =>
       spoon[IF front(a) \in falta[a] THEN front(a) ELSE back(a)] = -1
=============================================================================
