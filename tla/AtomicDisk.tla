----------------------------- MODULE AtomicDisk -----------------------------
(***************************************************************************)
(* What the logging layer promises to the file system: a set of blocks     *)
(* whose contents change only by whole groups of system calls.             *)
(*   stable  what a reboot would find on the disk;                         *)
(*   view    what system calls read and write;                             *)
(*   active  the system calls between begin_op() and end_op().             *)
(* A commit makes the whole view stable and happens only when no system    *)
(* call is active, so no call is ever half visible after a crash.          *)
(***************************************************************************)
CONSTANTS Proc, Block, Val

VARIABLES stable, view, active

vars == <<stable, view, active>>

Init ==
  /\ stable \in [Block -> Val]
  /\ view = stable
  /\ active = {}

Begin(p) ==
  /\ p \notin active
  /\ active' = active \cup {p}
  /\ UNCHANGED <<stable, view>>

Write(p, b, v) ==
  /\ p \in active
  /\ view' = [view EXCEPT ![b] = v]
  /\ UNCHANGED <<stable, active>>

End(p) ==
  /\ p \in active
  /\ active' = active \ {p}
  /\ UNCHANGED <<stable, view>>

Commit ==
  /\ active = {}
  /\ stable' = view
  /\ UNCHANGED <<view, active>>

Crash ==
  /\ view' = stable
  /\ active' = {}
  /\ UNCHANGED stable

Next ==
  \/ \E p \in Proc : Begin(p) \/ End(p)
  \/ \E p \in Proc, b \in Block, v \in Val : Write(p, b, v)
  \/ Commit
  \/ Crash

Spec == Init /\ [][Next]_vars
=============================================================================
