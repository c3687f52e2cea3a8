------------------------------- MODULE Clock --------------------------------
(***************************************************************************)
(* The clock: the timer interrupt of CPU 0 and sys_sleep.  The unsigned    *)
(* tick counter wraps around.  tickslock makes each step whole; kill does  *)
(* not take it, so sleep() is a step of its own after the test of killed.  *)
(***************************************************************************)
EXTENDS Integers

CONSTANTS
  TProcs,     \* processes
  TICKS,      \* the counter counts modulo this
  Lengths     \* arguments of sleep(); a negative one counts as unsigned

ASSUME ClockAssumption == TICKS \in Nat \ {0} /\ Lengths \subseteq Int

VARIABLES
  ticks,
  slp,       \* process -> [pc, n, ticks0, passed]; passed is history: the ticks since
  doomed     \* processes with proc->killed

clockVars == <<ticks, slp, doomed>>

Awake == [pc |-> "user", n |-> 0, ticks0 |-> 0, passed |-> 0]
Elapsed(now, then) == (now - then) % TICKS

ClockInit == ticks = 0 /\ slp = [p \in TProcs |-> Awake] /\ doomed = {}

\* tickslock is held by a process on its way from the test of killed to sleep().
Locked == \E p \in TProcs : slp[p].pc = "sleep"

\* trap's timer case: every sleeper is woken to look again.  The bound is that a
\* woken process gets a CPU before the counter has gone all the way round.
TimerIntr ==
  /\ ~Locked
  /\ \A p \in TProcs : slp[p].passed < TICKS - 1
  /\ ticks' = (ticks + 1) % TICKS
  /\ slp' = [p \in TProcs |->
               IF slp[p].pc = "user" THEN slp[p]
               ELSE [slp[p] EXCEPT !.passed = @ + 1, !.pc = "check"]]
  /\ UNCHANGED doomed

SysSleep(p, n) ==
  /\ slp[p].pc = "user" /\ p \notin doomed /\ ~Locked
  /\ slp' = [slp EXCEPT ![p] = [pc |-> "check", n |-> n % TICKS, ticks0 |-> ticks, passed |-> 0]]
  /\ UNCHANGED <<ticks, doomed>>

\* Faulty: compares the counter with a deadline.
TooEarlyDeadline(s) == ticks < (s.ticks0 + s.n) % TICKS

\* The loop's test.
TooEarly(s) == Elapsed(ticks, s.ticks0) < s.n

SleepLoop(p) ==
  /\ slp[p].pc = "check" /\ ~Locked
  /\ slp' = [slp EXCEPT ![p] = IF ~TooEarly(@) \/ p \in doomed THEN Awake ELSE [@ EXCEPT !.pc = "sleep"]]
  /\ UNCHANGED <<ticks, doomed>>

\* sleep(&ticks, &tickslock)
Sleep(p) ==
  /\ slp[p].pc = "sleep"
  /\ slp' = [slp EXCEPT ![p].pc = "asleep"]
  /\ UNCHANGED <<ticks, doomed>>

KillSleeper(p) ==
  /\ p \notin doomed
  /\ doomed' = doomed \cup {p}
  /\ slp' = [slp EXCEPT ![p].pc = IF @ = "asleep" THEN "check" ELSE @]
  /\ UNCHANGED ticks

ClockNext ==
  \/ TimerIntr
  \/ \E p \in TProcs : SleepLoop(p) \/ Sleep(p) \/ KillSleeper(p) \/ (\E n \in Lengths : SysSleep(p, n))

ClockSpec == ClockInit /\ [][ClockNext]_clockVars

-----------------------------------------------------------------------------
\* sleep(n) returns after n ticks and not before, unless the caller is killed,
\* also when the counter wraps around in between; a process asleep has ticks
\* left to wait, and one killed on its way to sleep() does not sleep through the
\* next tick (sys_sleep, trap, kill).
SleepsLongEnough ==
  [][ \A p \in TProcs :
        /\ slp[p].pc = "check" /\ slp'[p].pc = "user" => slp[p].passed >= slp[p].n \/ p \in doomed
        /\ slp'[p].pc = "asleep" => slp'[p].passed < slp'[p].n
        /\ slp[p].pc = "asleep" /\ p \in doomed /\ ticks' # ticks => slp'[p].pc = "check" ]_clockVars
=============================================================================
