---------------------------- MODULE ProcessProof ----------------------------
(***************************************************************************)
(* Proofs about the process table, for any number of slots, of pids and of *)
(* kills, and whether or not memory runs out.                              *)
(***************************************************************************)
EXTENDS Process, TLAPS, WellFoundedInduction

USE ProcessAssumption DEF Procs, initproc, NoProc

(* The inductive invariant: the safety properties of the module hold each other up. *)
Inv == ProcessInv /\ ParentLives /\ SleepJustified /\ KilledWasNamed

(* The first slot that a loop over the table finds is one of those it looks for. *)
LEMMA MinInSet ==
  ASSUME NEW S \in SUBSET Procs, S # {}
  PROVE  Min(S) \in S
<1>. DEFINE R == {xy \in Nat \X Nat : xy[1] < xy[2]}
<1>1. IsWellFoundedOn(R, Nat)
  BY NatLessThanWellFounded DEF OpToRel
<1>2. \A x, y \in Nat : ~ (<<y, x>> \in R) => x <= y
  OBVIOUS
<1>3. S \subseteq Nat
  OBVIOUS
<1>. HIDE DEF R
<1>4. \E x \in S : \A y \in S : ~ (<<y, x>> \in R)
  BY <1>1, <1>3, WFMin, Zenon
<1>5. \E x \in S : \A y \in S : x <= y
  BY Zenon, <1>2, <1>3, <1>4
<1>. QED
  BY Zenon, <1>5 DEF Min

(* userinit makes init and nothing else. *)
LEMMA InitInv == Init => Inv
BY DEF Init, Inv, ProcessInv, TypeOK, States, PCs, PidsDistinct, ForkOwnsSlot, SlotsInOrder, Live,
       ParentLives, SleepJustified, KilledWasNamed

(* allocproc takes a slot that is UNUSED. *)
LEMMA ForkTakesUnused ==
  ASSUME NEW p \in Procs, Fork(p), Unused # {}
  PROVE  \E q \in Procs :
           /\ state[q] = "UNUSED"
           /\ state' = [state EXCEPT ![q] = "EMBRYO"]
           /\ pid' = [pid EXCEPT ![q] = nextpid]
           /\ nextpid' = nextpid + 1
           /\ np' = [np EXCEPT ![p] = q]
           /\ pc' = [pc EXCEPT ![p] = "fork"]
<1>1. Unused \in SUBSET Procs
  BY DEF Unused
<1>2. Min(Unused) \in Procs /\ state[Min(Unused)] = "UNUSED"
  BY <1>1, MinInSet DEF Unused
<1>. QED
  BY <1>2, Zenon DEF Fork, Goto

(* allocproc's locked part: the slot was UNUSED, so no fork had it, and nextpid is in no slot. *)
LEMMA ForkKeepsInv ==
  ASSUME Inv, NEW p \in Procs, Fork(p)
  PROVE  Inv'
<1>. /\ state[p] = "RUNNABLE" /\ pc[p] = "user" /\ killed[p] = 0
     /\ UNCHANGED <<parent, killed, shell, named, strays, panicked>>
  BY DEF Fork, At
<1>1. CASE Unused = {}
  <2>. pc' = [pc EXCEPT ![p] = IF p = initproc THEN "exit" ELSE "user"]
       /\ UNCHANGED <<state, pid, nextpid, np>>
    BY <1>1 DEF Fork, ForkFailed, Goto
  <2>1. TypeOK'
    BY DEF Inv, ProcessInv, TypeOK, States, PCs
  <2>2. PidsDistinct'
    BY DEF Inv, ProcessInv, TypeOK, PidsDistinct
  <2>3. ForkOwnsSlot'
    BY DEF Inv, ProcessInv, TypeOK, ForkOwnsSlot, Live, SlotsInOrder
  <2>4. SlotsInOrder'
    BY DEF Inv, ProcessInv, TypeOK, SlotsInOrder, ForkOwnsSlot, Live
  <2>5. ParentLives'
    BY DEF Inv, ProcessInv, TypeOK, ParentLives, Live, SlotsInOrder, ForkOwnsSlot
  <2>6. SleepJustified'
    BY DEF Inv, ProcessInv, TypeOK, SleepJustified, Children, Zombies
  <2>7. KilledWasNamed'
    BY DEF Inv, ProcessInv, TypeOK, KilledWasNamed, SlotsInOrder
  <2>. QED
    BY <2>1, <2>2, <2>3, <2>4, <2>5, <2>6, <2>7 DEF Inv, ProcessInv
<1>2. CASE Unused # {}
  <2>. PICK q \in Procs :
         /\ state[q] = "UNUSED"
         /\ state' = [state EXCEPT ![q] = "EMBRYO"]
         /\ pid' = [pid EXCEPT ![q] = nextpid]
         /\ nextpid' = nextpid + 1
         /\ np' = [np EXCEPT ![p] = q]
         /\ pc' = [pc EXCEPT ![p] = "fork"]
    BY <1>2, ForkTakesUnused
  <2>1. TypeOK'
    BY SMTT(30) DEF Inv, ProcessInv, TypeOK, States, PCs
  <2>2. PidsDistinct'
    BY DEF Inv, ProcessInv, TypeOK, PidsDistinct
  <2>3. ForkOwnsSlot'
    BY SMTT(30) DEF Inv, ProcessInv, TypeOK, ForkOwnsSlot, Live, SlotsInOrder
  <2>4. SlotsInOrder'
    BY DEF Inv, ProcessInv, TypeOK, SlotsInOrder, ForkOwnsSlot, Live
  <2>5. ParentLives'
    BY SMTT(30) DEF Inv, ProcessInv, TypeOK, ParentLives, Live, SlotsInOrder, ForkOwnsSlot
  <2>6. SleepJustified'
    BY SMTT(30) DEF Inv, ProcessInv, TypeOK, SleepJustified, Children, Zombies
  <2>7. KilledWasNamed'
    BY DEF Inv, ProcessInv, TypeOK, KilledWasNamed, SlotsInOrder
  <2>. QED
    BY <2>1, <2>2, <2>3, <2>4, <2>5, <2>6, <2>7 DEF Inv, ProcessInv
<1>. QED
  BY <1>1, <1>2

(* A failed fork gives back the slot that only it had. *)
LEMMA ForkNoMemoryKeepsInv ==
  ASSUME Inv, NEW p \in Procs, ForkNoMemory(p)
  PROVE  Inv'
<1>1. TypeOK'
  BY SMTT(30) DEF Inv, ProcessInv, TypeOK, States, PCs, SlotsInOrder, ForkOwnsSlot, Live, ForkFailed,
     At, Goto, ForkNoMemory
<1>2. PidsDistinct'
  BY DEF Inv, ProcessInv, TypeOK, PidsDistinct, SlotsInOrder, ForkOwnsSlot, Live, ForkFailed,
     At, Goto, ForkNoMemory
<1>3. ForkOwnsSlot'
  BY SMTT(30) DEF Inv, ProcessInv, TypeOK, ForkOwnsSlot, Live, SlotsInOrder, ForkFailed, At, Goto,
     ForkNoMemory
<1>4. SlotsInOrder'
  BY DEF Inv, ProcessInv, TypeOK, SlotsInOrder, ForkOwnsSlot, Live, ForkFailed, At, Goto,
     ForkNoMemory
<1>5. ParentLives'
  BY DEF Inv, ProcessInv, TypeOK, ParentLives, Live, SlotsInOrder, ForkOwnsSlot, ForkFailed,
     At, Goto, ForkNoMemory
<1>6. SleepJustified'
  BY DEF Inv, ProcessInv, TypeOK, SleepJustified, Children, Zombies, SlotsInOrder,
     ForkOwnsSlot, Live, ForkFailed, At, Goto, ForkNoMemory
<1>7. KilledWasNamed'
  BY DEF Inv, ProcessInv, TypeOK, KilledWasNamed, SlotsInOrder, ForkOwnsSlot, Live,
     ForkFailed, At, Goto, ForkNoMemory
<1>. QED
  BY <1>1, <1>2, <1>3, <1>4, <1>5, <1>6, <1>7 DEF Inv, ProcessInv

(* The child gets a parent that lives. *)
LEMMA ForkParentKeepsInv ==
  ASSUME Inv, NEW p \in Procs, ForkParent(p)
  PROVE  Inv'
<1>1. TypeOK'
  BY DEF Inv, ProcessInv, TypeOK, States, PCs, SlotsInOrder, ForkOwnsSlot, Live, At, Goto,
     ForkParent
<1>2. PidsDistinct'
  BY DEF Inv, ProcessInv, TypeOK, PidsDistinct, SlotsInOrder, ForkOwnsSlot, Live, At, Goto,
     ForkParent
<1>3. ForkOwnsSlot'
  BY DEF Inv, ProcessInv, TypeOK, ForkOwnsSlot, Live, SlotsInOrder, At, Goto, ForkParent
<1>4. SlotsInOrder'
  BY SMTT(30) DEF Inv, ProcessInv, TypeOK, SlotsInOrder, ForkOwnsSlot, Live, At, Goto, ForkParent
<1>5. ParentLives'
  BY DEF Inv, ProcessInv, TypeOK, ParentLives, Live, SlotsInOrder, ForkOwnsSlot, At, Goto,
     ForkParent
<1>6. SleepJustified'
  BY DEF Inv, ProcessInv, TypeOK, SleepJustified, Children, Zombies, SlotsInOrder,
     ForkOwnsSlot, Live, At, Goto, ForkParent
<1>7. KilledWasNamed'
  BY DEF Inv, ProcessInv, TypeOK, KilledWasNamed, SlotsInOrder, ForkOwnsSlot, Live, At, Goto,
     ForkParent
<1>. QED
  BY <1>1, <1>2, <1>3, <1>4, <1>5, <1>6, <1>7 DEF Inv, ProcessInv

(* The child runs: its parent lives, and was set before. *)
LEMMA ForkRunnableKeepsInv ==
  ASSUME Inv, NEW p \in Procs, ForkRunnable(p)
  PROVE  Inv'
<1>1. TypeOK'
  <2>1. np[p] \in Procs
    BY DEF Inv, ProcessInv, SlotsInOrder, ForkRunnable, At
  <2>2. pc' \in [Procs -> PCs] /\ state' \in [Procs -> States]
    BY SMTT(30), <2>1 DEF Inv, ProcessInv, TypeOK, States, PCs, ForkRunnable
  <2>3. shell' \in Nat
    BY <2>1 DEF Inv, ProcessInv, TypeOK, ForkRunnable
  <2>. QED
    BY SMTT(30), <2>2, <2>3 DEF Inv, ProcessInv, TypeOK, ForkRunnable
<1>2. PidsDistinct'
  BY DEF Inv, ProcessInv, TypeOK, PidsDistinct, SlotsInOrder, ForkOwnsSlot, Live, At, Goto,
     ForkRunnable
<1>3. ForkOwnsSlot'
  BY SMTT(30) DEF Inv, ProcessInv, TypeOK, ForkOwnsSlot, Live, SlotsInOrder, At, Goto, ForkRunnable
<1>4. SlotsInOrder'
  BY SMTT(30) DEF Inv, ProcessInv, TypeOK, SlotsInOrder, ForkOwnsSlot, Live, At, Goto, ForkRunnable
<1>5. ParentLives'
  BY DEF Inv, ProcessInv, TypeOK, ParentLives, Live, SlotsInOrder, ForkOwnsSlot, At, Goto,
     ForkRunnable
<1>6. SleepJustified'
  BY SMTT(30) DEF Inv, ProcessInv, TypeOK, SleepJustified, Children, Zombies, SlotsInOrder,
     ForkOwnsSlot, Live, At, Goto, ForkRunnable
<1>7. KilledWasNamed'
  BY DEF Inv, ProcessInv, TypeOK, KilledWasNamed, SlotsInOrder, ForkOwnsSlot, Live, At, Goto,
     ForkRunnable
<1>. QED
  BY <1>1, <1>2, <1>3, <1>4, <1>5, <1>6, <1>7 DEF Inv, ProcessInv

(* A step that changes pc only. *)
LEMMA CallExitKeepsInv ==
  ASSUME Inv, NEW p \in Procs, CallExit(p)
  PROVE  Inv'
<1>1. TypeOK'
  BY DEF Inv, ProcessInv, TypeOK, States, PCs, At, Goto, CallExit
<1>2. PidsDistinct'
  BY DEF Inv, ProcessInv, TypeOK, PidsDistinct, At, Goto, CallExit
<1>3. ForkOwnsSlot'
  BY DEF Inv, ProcessInv, TypeOK, ForkOwnsSlot, Live, SlotsInOrder, At, Goto, CallExit
<1>4. SlotsInOrder'
  BY DEF Inv, ProcessInv, TypeOK, SlotsInOrder, ForkOwnsSlot, Live, At, Goto, CallExit
<1>5. ParentLives'
  BY DEF Inv, ProcessInv, TypeOK, ParentLives, Live, SlotsInOrder, ForkOwnsSlot, At, Goto,
     CallExit
<1>6. SleepJustified'
  BY DEF Inv, ProcessInv, TypeOK, SleepJustified, Children, Zombies, At, Goto, CallExit
<1>7. KilledWasNamed'
  BY DEF Inv, ProcessInv, TypeOK, KilledWasNamed, SlotsInOrder, At, Goto, CallExit
<1>. QED
  BY <1>1, <1>2, <1>3, <1>4, <1>5, <1>6, <1>7 DEF Inv, ProcessInv

(* exit wakes whoever it gives a zombie to, and its children get init, which lives. *)
LEMMA ExitKeepsInv ==
  ASSUME Inv, NEW p \in Procs, Exit(p)
  PROVE  Inv'
<1>. state[p] = "RUNNABLE" /\ pc[p] = "exit" /\ UNCHANGED <<pid, killed, nextpid, np, shell, named, strays>>
  BY DEF Exit, At
<1>1. CASE p = initproc
  <2>. panicked' = 1 /\ UNCHANGED <<state, parent, pc>>
    BY <1>1 DEF Exit
  <2>1. TypeOK'
    BY SMTT(30) DEF Inv, ProcessInv, TypeOK, States, PCs
  <2>2. PidsDistinct'
    BY DEF Inv, ProcessInv, TypeOK, PidsDistinct
  <2>3. ForkOwnsSlot'
    BY DEF Inv, ProcessInv, TypeOK, ForkOwnsSlot, Live, SlotsInOrder
  <2>4. SlotsInOrder'
    BY DEF Inv, ProcessInv, TypeOK, SlotsInOrder, ForkOwnsSlot, Live
  <2>5. ParentLives'
    BY DEF Inv, ProcessInv, TypeOK, ParentLives, Live, SlotsInOrder, ForkOwnsSlot
  <2>6. SleepJustified'
    BY DEF Inv, ProcessInv, TypeOK, SleepJustified, Children, Zombies
  <2>7. KilledWasNamed'
    BY DEF Inv, ProcessInv, TypeOK, KilledWasNamed, SlotsInOrder
  <2>. QED
    BY <2>1, <2>2, <2>3, <2>4, <2>5, <2>6, <2>7 DEF Inv, ProcessInv
<1>2. CASE p # initproc
  <2>. DEFINE woken(q) == q = parent[p] \/ (q = initproc /\ Zombies(p) # {})
  <2>a. /\ parent' = [q \in Procs |-> IF parent[q] = p THEN initproc ELSE parent[q]]
        /\ UNCHANGED <<pc, panicked>>
    BY <1>2 DEF Exit
  <2>b. state' = [q \in Procs |-> IF q = p THEN "ZOMBIE"
                                 ELSE IF woken(q) /\ state[q] = "SLEEPING" THEN "RUNNABLE" ELSE state[q]]
    <3>. DEFINE ps == {parent[p]} \cup (IF Zombies(p) # {} THEN {initproc} ELSE {})
    <3>1. state' = [Wakeup1(state, ps) EXCEPT ![p] = "ZOMBIE"]
      BY <1>2 DEF Exit
    <3>2. \A q \in Procs : q \in ps <=> woken(q)
      OBVIOUS
    <3>. HIDE DEF ps, woken
    <3>. QED
      BY Zenon, <3>1, <3>2 DEF Wakeup1
  <2>c. \A q \in Procs : Zombies(p) = {} /\ state[q] = "ZOMBIE" => parent[q] # p
    BY DEF Zombies, Children
  <2>. HIDE DEF woken
  <2>1. TypeOK'
    BY <1>2, <2>a, <2>b DEF Inv, ProcessInv, TypeOK, States, PCs
  <2>2. PidsDistinct'
    BY <1>2, <2>a, <2>b DEF Inv, ProcessInv, TypeOK, PidsDistinct
  <2>3. ForkOwnsSlot'
    BY SMTT(30), <1>2, <2>a, <2>b DEF Inv, ProcessInv, TypeOK, ForkOwnsSlot, Live, SlotsInOrder
  <2>4. SlotsInOrder'
    BY <1>2, <2>a, <2>b DEF Inv, ProcessInv, TypeOK, SlotsInOrder, ForkOwnsSlot, Live
  <2>5. ParentLives'
    BY <1>2, <2>a, <2>b DEF Inv, ProcessInv, TypeOK, ParentLives, Live, SlotsInOrder,
       ForkOwnsSlot
  <2>6. SleepJustified'
    <3>. SUFFICES ASSUME NEW q \in Procs, state'[q] = "SLEEPING"
                  PROVE  Children(q)' # {} /\ Zombies(q)' = {} /\ killed'[q] = 0
      BY DEF SleepJustified
    <3>1. q # p /\ state[q] = "SLEEPING" /\ ~woken(q)
      BY <2>b DEF woken
    <3>2. \E r \in Procs : parent[r] = q
      BY <3>1 DEF Inv, SleepJustified, Children
    <3>3. \A r \in Procs : parent[r] = q => state[r] # "ZOMBIE"
      BY <3>1 DEF Inv, SleepJustified, Children, Zombies
    <3>4. \A r \in Procs : parent'[r] = q <=> parent[r] = q \/ (q = initproc /\ parent[r] = p)
      BY <2>a, <3>1 DEF Inv, ProcessInv, TypeOK
    <3>5. ASSUME NEW r \in Procs, parent'[r] = q PROVE state'[r] # "ZOMBIE"
      <4>1. CASE r = p
        BY <3>1, <3>4, <3>5, <4>1 DEF woken, Inv, ProcessInv, SlotsInOrder
      <4>2. CASE r # p
        BY <2>b, <2>c, <3>1, <3>3, <3>4, <3>5, <4>2 DEF woken, Inv, ProcessInv, TypeOK
      <4>. QED
        BY <4>1, <4>2
    <3>6. killed'[q] = 0
      BY <3>1 DEF Inv, SleepJustified
    <3>. QED
      BY <3>2, <3>4, <3>5, <3>6 DEF Children, Zombies
  <2>7. KilledWasNamed'
    BY <1>2, <2>a, <2>b DEF Inv, ProcessInv, TypeOK, KilledWasNamed, SlotsInOrder
  <2>. QED
    BY <2>1, <2>2, <2>3, <2>4, <2>5, <2>6, <2>7 DEF Inv, ProcessInv
<1>. QED
  BY <1>1, <1>2

(* A step that changes pc only. *)
LEMMA CallWaitKeepsInv ==
  ASSUME Inv, NEW p \in Procs, CallWait(p)
  PROVE  Inv'
<1>1. TypeOK'
  BY DEF Inv, ProcessInv, TypeOK, States, PCs, At, Goto, CallWait
<1>2. PidsDistinct'
  BY DEF Inv, ProcessInv, TypeOK, PidsDistinct, At, Goto, CallWait
<1>3. ForkOwnsSlot'
  BY DEF Inv, ProcessInv, TypeOK, ForkOwnsSlot, Live, SlotsInOrder, At, Goto, CallWait
<1>4. SlotsInOrder'
  BY DEF Inv, ProcessInv, TypeOK, SlotsInOrder, ForkOwnsSlot, Live, At, Goto, CallWait
<1>5. ParentLives'
  BY DEF Inv, ProcessInv, TypeOK, ParentLives, Live, SlotsInOrder, ForkOwnsSlot, At, Goto,
     CallWait
<1>6. SleepJustified'
  BY DEF Inv, ProcessInv, TypeOK, SleepJustified, Children, Zombies, At, Goto, CallWait
<1>7. KilledWasNamed'
  BY DEF Inv, ProcessInv, TypeOK, KilledWasNamed, SlotsInOrder, At, Goto, CallWait
<1>. QED
  BY <1>1, <1>2, <1>3, <1>4, <1>5, <1>6, <1>7 DEF Inv, ProcessInv

(* wait frees the slot of a zombie, which is the parent of nobody. *)
LEMMA WaitReapKeepsInv ==
  ASSUME Inv, NEW p \in Procs, WaitReap(p)
  PROVE  Inv'
<1>1. PICK q \in Procs :
        /\ state[q] = "ZOMBIE" /\ parent[q] = p
        /\ state' = [state EXCEPT ![q] = "UNUSED"]
        /\ pid' = [pid EXCEPT ![q] = 0]
        /\ parent' = [parent EXCEPT ![q] = NoProc]
        /\ killed' = [killed EXCEPT ![q] = 0]
        /\ strays' = strays \ {q}
  <2>1. Zombies(p) \in SUBSET Procs /\ Zombies(p) # {}
    BY DEF WaitReap, Zombies, Children
  <2>2. Min(Zombies(p)) \in Procs /\ state[Min(Zombies(p))] = "ZOMBIE" /\ parent[Min(Zombies(p))] = p
    BY <2>1, MinInSet DEF Zombies, Children
  <2>. QED
    BY <2>2, Zenon DEF WaitReap
<1>2. PICK l \in {"wait", "user"} : pc' = [pc EXCEPT ![p] = l]
  <2>. DEFINE more == p = initproc /\ killed[p] = 0 /\ pid[Min(Zombies(p))] # shell
  <2>1. pc' = [pc EXCEPT ![p] = IF more THEN "wait" ELSE "user"]
    BY Zenon DEF WaitReap, Goto
  <2>. HIDE DEF more
  <2>. QED
    BY Zenon, <2>1
<1>. /\ state[p] = "RUNNABLE" /\ pc[p] = "wait"
     /\ UNCHANGED <<nextpid, np, shell, named, panicked>>
  BY DEF WaitReap, At
<1>3. TypeOK'
  BY SMTT(30), <1>1, <1>2 DEF Inv, ProcessInv, TypeOK, States, PCs
<1>4. PidsDistinct'
  BY <1>1, <1>2 DEF Inv, ProcessInv, TypeOK, PidsDistinct, SlotsInOrder
<1>5. ForkOwnsSlot'
  BY SMTT(30), <1>1, <1>2 DEF Inv, ProcessInv, TypeOK, ForkOwnsSlot, Live, SlotsInOrder
<1>6. SlotsInOrder'
  BY <1>1, <1>2 DEF Inv, ProcessInv, TypeOK, SlotsInOrder, ForkOwnsSlot, Live
<1>7. ParentLives'
  BY <1>1, <1>2 DEF Inv, ProcessInv, TypeOK, ParentLives, Live, SlotsInOrder, ForkOwnsSlot
<1>8. SleepJustified'
  BY SMTT(30), <1>1, <1>2 DEF Inv, ProcessInv, TypeOK, SleepJustified, Children, Zombies
<1>9. KilledWasNamed'
  BY <1>1, <1>2 DEF Inv, ProcessInv, TypeOK, KilledWasNamed, SlotsInOrder
<1>. QED
  BY <1>3, <1>4, <1>5, <1>6, <1>7, <1>8, <1>9 DEF Inv, ProcessInv

(* A step that changes pc only. *)
LEMMA WaitFailsKeepsInv ==
  ASSUME Inv, NEW p \in Procs, WaitFails(p)
  PROVE  Inv'
<1>1. TypeOK'
  BY SMTT(30) DEF Inv, ProcessInv, TypeOK, States, PCs, At, Goto, WaitFails
<1>2. PidsDistinct'
  BY DEF Inv, ProcessInv, TypeOK, PidsDistinct, At, Goto, WaitFails
<1>3. ForkOwnsSlot'
  BY DEF Inv, ProcessInv, TypeOK, ForkOwnsSlot, Live, SlotsInOrder, At, Goto, WaitFails
<1>4. SlotsInOrder'
  BY DEF Inv, ProcessInv, TypeOK, SlotsInOrder, ForkOwnsSlot, Live, At, Goto, WaitFails
<1>5. ParentLives'
  BY DEF Inv, ProcessInv, TypeOK, ParentLives, Live, SlotsInOrder, ForkOwnsSlot, At, Goto,
     WaitFails
<1>6. SleepJustified'
  BY DEF Inv, ProcessInv, TypeOK, SleepJustified, Children, Zombies, At, Goto, WaitFails
<1>7. KilledWasNamed'
  BY DEF Inv, ProcessInv, TypeOK, KilledWasNamed, SlotsInOrder, At, Goto, WaitFails
<1>. QED
  BY <1>1, <1>2, <1>3, <1>4, <1>5, <1>6, <1>7 DEF Inv, ProcessInv

(* wait sleeps only after it has seen children, none of them a zombie. *)
LEMMA WaitSleepKeepsInv ==
  ASSUME Inv, NEW p \in Procs, WaitSleep(p)
  PROVE  Inv'
<1>1. TypeOK'
  BY SMTT(30) DEF Inv, ProcessInv, TypeOK, States, PCs, At, WaitSleep
<1>2. PidsDistinct'
  BY DEF Inv, ProcessInv, TypeOK, PidsDistinct, At, WaitSleep
<1>3. ForkOwnsSlot'
  BY DEF Inv, ProcessInv, TypeOK, ForkOwnsSlot, Live, SlotsInOrder, At, WaitSleep
<1>4. SlotsInOrder'
  BY DEF Inv, ProcessInv, TypeOK, SlotsInOrder, ForkOwnsSlot, Live, At, WaitSleep
<1>5. ParentLives'
  BY DEF Inv, ProcessInv, TypeOK, ParentLives, Live, SlotsInOrder, ForkOwnsSlot, At, WaitSleep
<1>6. SleepJustified'
  BY DEF Inv, ProcessInv, TypeOK, SleepJustified, Children, Zombies, At, WaitSleep
<1>7. KilledWasNamed'
  BY DEF Inv, ProcessInv, TypeOK, KilledWasNamed, SlotsInOrder, At, WaitSleep
<1>. QED
  BY <1>1, <1>2, <1>3, <1>4, <1>5, <1>6, <1>7 DEF Inv, ProcessInv

(* kill wakes the process it marks, and remembers a slot in which none lives. *)
LEMMA KillKeepsInv ==
  ASSUME Inv, NEW p \in Procs, NEW n \in KillArgs, Kill(p, n)
  PROVE  Inv'
<1>. n \in Nat
  OBVIOUS
<1>. named' = named \cup {n} /\ UNCHANGED <<pid, parent, nextpid, pc, np, shell, panicked>>
  BY Zenon DEF Kill
<1>1. CASE {q \in Procs : pid[q] = n} = {}
  <2>. UNCHANGED <<state, killed, strays>>
    BY <1>1 DEF Kill
  <2>1. TypeOK'
    BY SMTT(30) DEF Inv, ProcessInv, TypeOK, States, PCs
  <2>2. PidsDistinct'
    BY DEF Inv, ProcessInv, TypeOK, PidsDistinct
  <2>3. ForkOwnsSlot'
    BY DEF Inv, ProcessInv, TypeOK, ForkOwnsSlot, Live, SlotsInOrder
  <2>4. SlotsInOrder'
    BY Zenon DEF Inv, ProcessInv, TypeOK, SlotsInOrder, ForkOwnsSlot, Live
  <2>5. ParentLives'
    BY Zenon DEF Inv, ProcessInv, TypeOK, ParentLives, Live, SlotsInOrder, ForkOwnsSlot
  <2>6. SleepJustified'
    BY DEF Inv, ProcessInv, TypeOK, SleepJustified, Children, Zombies
  <2>7. KilledWasNamed'
    BY DEF Inv, ProcessInv, TypeOK, KilledWasNamed, SlotsInOrder
  <2>. QED
    BY <2>1, <2>2, <2>3, <2>4, <2>5, <2>6, <2>7 DEF Inv, ProcessInv
<1>2. CASE {q \in Procs : pid[q] = n} # {}
  <2>. DEFINE hits == {q \in Procs : pid[q] = n}
              v == Min(hits)
  <2>a. v \in Procs /\ pid[v] = n
    <3>1. hits \in SUBSET Procs /\ hits # {}
      BY <1>2
    <3>. QED
      BY <3>1, MinInSet
  <2>b. /\ killed' = [killed EXCEPT ![v] = 1]
        /\ state' = [q \in Procs |-> IF q = v /\ state[q] = "SLEEPING" THEN "RUNNABLE" ELSE state[q]]
        /\ strays' = IF state[v] \in {"UNUSED", "EMBRYO"} THEN strays \cup {v} ELSE strays
    BY Zenon, <1>2 DEF Kill, Wakeup1
  <2>. HIDE DEF v
  <2>1. TypeOK'
    BY SMTT(30), <2>a, <2>b DEF Inv, ProcessInv, TypeOK, States, PCs
  <2>2. PidsDistinct'
    BY <2>a, <2>b DEF Inv, ProcessInv, TypeOK, PidsDistinct
  <2>3. ForkOwnsSlot'
    BY SMTT(30), <2>a, <2>b DEF Inv, ProcessInv, TypeOK, ForkOwnsSlot, Live, SlotsInOrder
  <2>4. SlotsInOrder'
    BY SMTT(30), <2>a, <2>b DEF Inv, ProcessInv, TypeOK, SlotsInOrder, ForkOwnsSlot, Live
  <2>5. ParentLives'
    BY <2>a, <2>b DEF Inv, ProcessInv, TypeOK, ParentLives, Live, SlotsInOrder, ForkOwnsSlot
  <2>6. SleepJustified'
    BY <2>a, <2>b DEF Inv, ProcessInv, TypeOK, SleepJustified, Children, Zombies
  <2>7. KilledWasNamed'
    BY <2>a, <2>b DEF Inv, ProcessInv, TypeOK, KilledWasNamed, SlotsInOrder
  <2>. QED
    BY <2>1, <2>2, <2>3, <2>4, <2>5, <2>6, <2>7 DEF Inv, ProcessInv
<1>. QED
  BY <1>1, <1>2

(* Every step of every process keeps the invariant. *)
LEMMA NextKeepsInv == Inv /\ [Next]_vars => Inv'
<1>. SUFFICES ASSUME Inv, [Next]_vars PROVE Inv'
  BY SMTT(30)
<1>1. CASE UNCHANGED vars
  <2>1. ProcessInv'
    BY <1>1 DEF vars, Inv, ProcessInv, TypeOK, PidsDistinct, ForkOwnsSlot, SlotsInOrder, Live
  <2>2. ParentLives' /\ KilledWasNamed'
    BY <1>1 DEF vars, Inv, ParentLives, KilledWasNamed, Live
  <2>3. SleepJustified'
    BY <1>1 DEF vars, Inv, SleepJustified, Children, Zombies
  <2>. QED
    BY <2>1, <2>2, <2>3 DEF Inv
<1>2. ASSUME NEW p \in Procs, Step(p) PROVE Inv'
  BY <1>2, ForkKeepsInv, ForkNoMemoryKeepsInv, ForkParentKeepsInv, ForkRunnableKeepsInv,
     CallExitKeepsInv, ExitKeepsInv, CallWaitKeepsInv, WaitReapKeepsInv, WaitFailsKeepsInv,
     WaitSleepKeepsInv DEF Step
<1>3. ASSUME NEW p \in Procs, NEW n \in KillArgs, Kill(p, n) PROVE Inv'
  BY <1>3, KillKeepsInv
<1>. QED
  BY <1>1, <1>2, <1>3 DEF Next

LEMMA InvHolds == Spec => []Inv
BY InitInv, NextKeepsInv, PTL DEF Spec

(* allocproc, fork and wait use the slots and the pids as they mean to: no two slots in use have
   the same pid, no two forks fill the same slot, and a slot holds what its state says. *)
THEOREM ProcessCorrect == Spec => []ProcessInv
<1>1. Inv => ProcessInv
  BY DEF Inv
<1>. QED
  BY <1>1, InvHolds, PTL

(* Whatever the order of forks, exits, waits and kills, a process that is alive or a zombie has
   a parent that lives, and can reap it. *)
THEOREM ParentsLive == Spec => []ParentLives
<1>1. Inv => ParentLives
  BY DEF Inv
<1>. QED
  BY <1>1, InvHolds, PTL

(* No wakeup of wait is lost, neither exit's nor kill's. *)
THEOREM SleepersJustified == Spec => []SleepJustified
<1>1. Inv => SleepJustified
  BY DEF Inv
<1>. QED
  BY <1>1, InvHolds, PTL

(* kill marks no process but the one named, unless the mark was left in the slot before it. *)
THEOREM OnlyNamedKilled == Spec => []KilledWasNamed
<1>1. Inv => KilledWasNamed
  BY DEF Inv
<1>. QED
  BY <1>1, InvHolds, PTL
=============================================================================
