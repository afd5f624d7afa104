--------------------------- MODULE FgBgScheduler ---------------------------
(***************************************************************************)
(* The scheduler of lab 3 for foreground (policy 0) and background          *)
(* (policy 1) processes on one CPU.  At each pass over the table it sets    *)
(* the budgets of the two classes from all ticks since boot, and takes one  *)
(* from a class for every slice that a process of it gets.                  *)
(***************************************************************************)
EXTENDS Integers

CONSTANTS
  NProc,         \* entries of the process table
  MaxTicks       \* bound on ticks

VARIABLES
  ticks, state, policy,
  i,             \* the entry the pass has come to
  firstSec, endbaSec

vars == <<ticks, state, policy, i, firstSec, endbaSec>>
Entry == 1..NProc

Init ==
  /\ ticks = 0
  /\ state = [p \in Entry |-> "runnable"]
  /\ policy \in [Entry -> {0, 1}]
  /\ i = NProc + 1 /\ firstSec = 0 /\ endbaSec = 0

Running == \E p \in Entry : state[p] = "running"

(* Faulty: the background gets what the foreground leaves of ten ticks.    *)
Leftover(t) == IF t > 10 THEN 0 ELSE 10 - t

BackgroundShare(t) == t \div 10

(* The budgets set after the last pass are overwritten here before use.     *)
Pass ==
  /\ ~Running /\ i > NProc
  /\ i' = 1
  /\ firstSec' = (ticks * 9) \div 10
  /\ endbaSec' = BackgroundShare(ticks)
  /\ UNCHANGED <<ticks, state, policy>>

HasBudget(p) == IF policy[p] = 0 THEN firstSec > 0 ELSE endbaSec > 0

(* The entry runs, or is passed over.                                      *)
Choose ==
  /\ ~Running /\ i <= NProc
  /\ i' = i + 1
  /\ IF state[i] = "runnable" /\ HasBudget(i)
     THEN /\ state' = [state EXCEPT ![i] = "running"]
          /\ firstSec' = IF policy[i] = 0 THEN firstSec - 1 ELSE firstSec
          /\ endbaSec' = IF policy[i] = 1 THEN endbaSec - 1 ELSE endbaSec
     ELSE UNCHANGED <<state, firstSec, endbaSec>>
  /\ UNCHANGED <<ticks, policy>>

(* The timer interrupt: the process that runs yields.                      *)
Tick ==
  /\ ticks' = IF ticks < MaxTicks THEN ticks + 1 ELSE ticks
  /\ state' = [p \in Entry |-> IF state[p] = "running" THEN "runnable" ELSE state[p]]
  /\ UNCHANGED <<policy, i, firstSec, endbaSec>>

Sleep(p) ==
  /\ state[p] = "running"
  /\ state' = [state EXCEPT ![p] = "sleeping"]
  /\ UNCHANGED <<ticks, policy, i, firstSec, endbaSec>>

WakeUp(p) ==
  /\ state[p] = "sleeping"
  /\ state' = [state EXCEPT ![p] = "runnable"]
  /\ UNCHANGED <<ticks, policy, i, firstSec, endbaSec>>

(* set_sched_policy(): a process chooses its class.                        *)
SetPolicy(p, c) ==
  /\ state[p] = "running"
  /\ policy' = [policy EXCEPT ![p] = c]
  /\ UNCHANGED <<ticks, state, i, firstSec, endbaSec>>

Next ==
  \/ Pass \/ Choose \/ Tick
  \/ \E p \in Entry : Sleep(p) \/ WakeUp(p) \/ \E c \in {0, 1} : SetPolicy(p, c)

(* The timer ticks and the scheduler's loop goes on.                       *)
Fairness == WF_vars(Pass) /\ WF_vars(Choose) /\ WF_vars(Tick)
Spec == Init /\ [][Next]_vars /\ Fairness

(* lab3: a background process runs in the end however many foreground        *)
(* processes keep running, and a foreground one whatever the background does.*)
NoStarvation == \A p \in Entry : state[p] = "runnable" ~> state[p] = "running"
=============================================================================
