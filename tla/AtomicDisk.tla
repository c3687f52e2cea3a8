----------------------------- MODULE AtomicDisk -----------------------------
(***************************************************************************)
(* What the xv6 log promises to the file system (header comment of         *)
(* src/xv6/log.c): the block updates of the system calls between begin_op  *)
(* and end_op reach the disk as a group, only when no call is active, and  *)
(* a crash loses the whole uncommitted group and nothing else.             *)
(***************************************************************************)
CONSTANTS Procs, Blocks, Values

VARIABLES
  durable,   \* the disk a reboot would show
  view,      \* the disk the running system calls see
  active     \* the processes between begin_op and end_op

vars == <<durable, view, active>>

Init ==
  /\ durable \in [Blocks -> Values]
  /\ view = durable
  /\ active = {}

Begin(p) ==
  /\ p \notin active
  /\ active' = active \cup {p}
  /\ UNCHANGED <<durable, view>>

Write(p, b, v) ==
  /\ p \in active
  /\ view' = [view EXCEPT ![b] = v]
  /\ UNCHANGED <<durable, active>>

End(p) ==
  /\ p \in active
  /\ active' = active \ {p}
  /\ UNCHANGED <<durable, view>>

Commit ==
  /\ active = {}
  /\ durable' = view
  /\ UNCHANGED <<view, active>>

Crash ==
  /\ view' = durable
  /\ active' = {}
  /\ UNCHANGED durable

Next ==
  \/ \E p \in Procs : Begin(p) \/ End(p)
  \/ \E p \in Procs, b \in Blocks, v \in Values : Write(p, b, v)
  \/ Commit
  \/ Crash

Spec == Init /\ [][Next]_vars
=============================================================================
