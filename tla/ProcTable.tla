------------------------------ MODULE ProcTable ------------------------------
(***************************************************************************)
(* The process table of xv6 (proc.c) on several CPUs: fork, exit, wait,    *)
(* kill, yield, the scheduler, and sleep()/wakeup() as sys_sleep() and the *)
(* timer interrupt use them.                                               *)
(*                                                                         *)
(* A section under ptable.lock is one step, except where the lock is held  *)
(* across a switch of stacks: sched() is entered with the lock taken by    *)
(* the process, and the scheduler or another process releases it.  A CPU   *)
(* that holds a lock takes no interrupts.  Which runnable process a scan   *)
(* of the table comes to is left open, and so is when fork() finds no      *)
(* memory.  Nobody kills the first process (its exit() panics).            *)
(***************************************************************************)
EXTENDS Naturals, FiniteSets

CONSTANTS
  Proc,     \* entries of the process table
  First,    \* initproc
  NoProc,
  Cpu,
  Boot,     \* the CPU that counts ticks
  NoCpu,
  Ticks     \* &ticks, the channel of sys_sleep()

ASSUME ConstantsAssumption ==
  First \in Proc /\ NoProc \notin Proc /\ Boot \in Cpu /\ NoCpu \notin Cpu
    /\ Ticks \notin Proc \cup {NoProc}

VARIABLES
  state,   \* p->state
  chan,    \* p->chan
  killed,  \* p->killed
  parent,  \* p->parent
  kstack,  \* p->kstack # 0
  on,      \* c->proc: whose stack CPU c is on, NoProc for the scheduler's
  lock,    \* the CPU that holds ptable.lock
  tlock,   \* the CPU that holds tickslock
  intr,    \* where the timer interrupt handler of CPU c is
  due,     \* sys_sleep() of p: ticks - ticks0 >= n
  pc,      \* where p is in the kernel
  off,     \* p is in sched()
  kid      \* the entry fork() has allocated for p

vars == <<state, chan, killed, parent, kstack, on, lock, tlock, intr, due, pc,
          off, kid>>

Init ==
  /\ state = [p \in Proc |-> IF p = First THEN "runnable" ELSE "unused"]
  /\ chan = [p \in Proc |-> NoProc]
  /\ killed = [p \in Proc |-> FALSE]
  /\ parent = [p \in Proc |-> NoProc]
  /\ kstack = [p \in Proc |-> p = First]
  /\ on = [c \in Cpu |-> NoProc]
  /\ lock = NoCpu /\ tlock = NoCpu
  /\ intr = [c \in Cpu |-> "none"]
  /\ due = [p \in Proc |-> FALSE]
  /\ pc = [p \in Proc |-> "user"]
  /\ off = [p \in Proc |-> p = First]
  /\ kid = [p \in Proc |-> NoProc]

(* CPU c runs p, outside sched() and outside the interrupt handler.        *)
Runs(c, p) == on[c] = p /\ ~off[p] /\ intr[c] = "none"
Calls(c, p) == Runs(c, p) /\ pc[p] = "user" /\ ~killed[p]

(* acquire(&ptable.lock) ... release(&ptable.lock) in one step             *)
Locked == lock = NoCpu /\ UNCHANGED lock

(* wakeup1(ch) for the channels in chs, in the state table s               *)
Wakeup1(s, chs) ==
  [p \in Proc |-> IF s[p] = "sleeping" /\ chan[p] \in chs
                  THEN "runnable" ELSE s[p]]

-----------------------------------------------------------------------------
(* The scheduler and the switch of stacks.                                 *)

(* sched(): swtch() to the scheduler of the CPU, which holds the lock now. *)
Swtch(c) ==
  /\ lock = c /\ on[c] # NoProc /\ off[on[c]] /\ state[on[c]] # "running"
  /\ on' = [on EXCEPT ![c] = NoProc]
  /\ UNCHANGED <<state, chan, killed, parent, kstack, lock, tlock, intr, due,
                 pc, off, kid>>

SchedulerLock(c) ==
  /\ on[c] = NoProc /\ intr[c] = "none" /\ lock = NoCpu
  /\ lock' = c
  /\ UNCHANGED <<state, chan, killed, parent, kstack, on, tlock, intr, due,
                 pc, off, kid>>

Run(c, p) ==
  /\ on[c] = NoProc /\ lock = c /\ state[p] = "runnable"
  /\ on' = [on EXCEPT ![c] = p]
  /\ state' = [state EXCEPT ![p] = "running"]
  /\ UNCHANGED <<chan, killed, parent, kstack, lock, tlock, intr, due, pc, off,
                 kid>>

SchedulerUnlock(c) ==
  /\ on[c] = NoProc /\ lock = c
  /\ lock' = NoCpu
  /\ UNCHANGED <<state, chan, killed, parent, kstack, on, tlock, intr, due, pc,
                 off, kid>>

(* p is back from sched() with the lock: yield() and forkret() release it, *)
(* sleep() clears the channel first and takes its own lock next.           *)
Back(c, p) == on[c] = p /\ off[p] /\ lock = c /\ state[p] = "running"

Resume(c, p) ==
  /\ Back(c, p) /\ pc[p] # "wait"
  /\ off' = [off EXCEPT ![p] = FALSE]
  /\ lock' = NoCpu
  /\ IF pc[p] = "asleep"
       THEN /\ chan' = [chan EXCEPT ![p] = NoProc]
            /\ pc' = [pc EXCEPT ![p] = "relock"]
       ELSE UNCHANGED <<chan, pc>>
  /\ UNCHANGED <<state, killed, parent, kstack, on, tlock, intr, due, kid>>

-----------------------------------------------------------------------------
(* fork(), exit(), wait(), kill()                                          *)

(* allocproc() *)
Fork(c, p, q) ==
  /\ Calls(c, p) /\ Locked /\ state[q] = "unused"
  /\ state' = [state EXCEPT ![q] = "embryo"]
  /\ kstack' = [kstack EXCEPT ![q] = TRUE]
  /\ kid' = [kid EXCEPT ![p] = q]
  /\ pc' = [pc EXCEPT ![p] = "fork", ![q] = "user"]
  /\ off' = [off EXCEPT ![q] = TRUE]
  /\ UNCHANGED <<chan, killed, parent, on, tlock, intr, due>>

ForkReturn(c, p) ==
  /\ Runs(c, p) /\ pc[p] = "fork" /\ Locked
  /\ state' = [state EXCEPT ![kid[p]] = "runnable"]
  /\ parent' = [parent EXCEPT ![kid[p]] = p]
  /\ kid' = [kid EXCEPT ![p] = NoProc]
  /\ pc' = [pc EXCEPT ![p] = "user"]
  /\ UNCHANGED <<chan, killed, kstack, on, tlock, intr, due, off>>

(* allocproc() finds no page for the stack, or copyuvm() none.             *)
ForkFail(c, p) ==
  /\ Runs(c, p) /\ pc[p] = "fork"
  /\ kstack' = [kstack EXCEPT ![kid[p]] = FALSE]
  /\ state' = [state EXCEPT ![kid[p]] = "unused"]
  /\ kid' = [kid EXCEPT ![p] = NoProc]
  /\ pc' = [pc EXCEPT ![p] = "user"]
  /\ UNCHANGED <<chan, killed, parent, on, lock, tlock, intr, due, off>>

(* p calls exit(), or trap() does because p was killed: also at the end of *)
(* the timer interrupt, before its yield().                                *)
Exits(c, p) ==
  /\ on[c] = p /\ ~off[p] /\ pc[p] = "user" /\ p # First
  /\ intr[c] = "none" \/ (intr[c] = "yield" /\ killed[p])

(* Faulty: exit() releases ptable.lock before it switches away.            *)
ExitUnlocked(c, p) ==
  LET orphans == {q \in Proc : parent[q] = p}
      told == {parent[p]} \cup
              (IF \E q \in orphans : state[q] = "zombie" THEN {First} ELSE {}) IN
  /\ Exits(c, p) /\ Locked
  /\ state' = [Wakeup1(state, told) EXCEPT ![p] = "zombie"]
  /\ parent' = [q \in Proc |-> IF q \in orphans THEN First ELSE parent[q]]
  /\ off' = [off EXCEPT ![p] = TRUE]
  /\ intr' = [intr EXCEPT ![c] = "none"]
  /\ UNCHANGED <<chan, killed, kstack, on, tlock, due, pc, kid>>

(* Faulty: init is not told of the zombies it inherits.                    *)
ExitTellsParent(c, p) ==
  /\ Exits(c, p) /\ lock = NoCpu
  /\ lock' = c
  /\ state' = [Wakeup1(state, {parent[p]}) EXCEPT ![p] = "zombie"]
  /\ parent' = [q \in Proc |-> IF parent[q] = p THEN First ELSE parent[q]]
  /\ off' = [off EXCEPT ![p] = TRUE]
  /\ intr' = [intr EXCEPT ![c] = "none"]
  /\ UNCHANGED <<chan, killed, kstack, on, tlock, due, pc, kid>>

(* Closing the files of the process comes before, and is left out.         *)
Exit(c, p) ==
  LET orphans == {q \in Proc : parent[q] = p}
      told == {parent[p]} \cup
              (IF \E q \in orphans : state[q] = "zombie" THEN {First} ELSE {}) IN
  /\ Exits(c, p) /\ lock = NoCpu
  /\ lock' = c
  /\ state' = [Wakeup1(state, told) EXCEPT ![p] = "zombie"]
  /\ parent' = [q \in Proc |-> IF q \in orphans THEN First ELSE parent[q]]
  /\ off' = [off EXCEPT ![p] = TRUE]
  /\ intr' = [intr EXCEPT ![c] = "none"]
  /\ UNCHANGED <<chan, killed, kstack, on, tlock, due, pc, kid>>

Children(p) == {q \in Proc : parent[q] = p}

(* wait() scans the table, at its call and after every sleep.              *)
Scans(c, p) ==
  \/ Calls(c, p) /\ lock = NoCpu
  \/ Back(c, p) /\ pc[p] = "wait"

WaitReap(c, p, q) ==
  /\ Scans(c, p) /\ q \in Children(p) /\ state[q] = "zombie"
  /\ kstack' = [kstack EXCEPT ![q] = FALSE]
  /\ parent' = [parent EXCEPT ![q] = NoProc]
  /\ killed' = [killed EXCEPT ![q] = FALSE]
  /\ state' = [state EXCEPT ![q] = "unused"]
  /\ chan' = [chan EXCEPT ![p] = NoProc]
  /\ lock' = NoCpu
  /\ pc' = [pc EXCEPT ![p] = "user"]
  /\ off' = [off EXCEPT ![p] = FALSE]
  /\ UNCHANGED <<on, tlock, intr, due, kid>>

WaitFail(c, p) ==
  /\ Scans(c, p) /\ \A q \in Children(p) : state[q] # "zombie"
  /\ Children(p) = {} \/ killed[p]
  /\ chan' = [chan EXCEPT ![p] = NoProc]
  /\ lock' = NoCpu
  /\ pc' = [pc EXCEPT ![p] = "user"]
  /\ off' = [off EXCEPT ![p] = FALSE]
  /\ UNCHANGED <<state, killed, parent, kstack, on, tlock, intr, due, kid>>

(* sleep(curproc, &ptable.lock) *)
WaitSleep(c, p) ==
  /\ Scans(c, p) /\ \A q \in Children(p) : state[q] # "zombie"
  /\ Children(p) # {} /\ ~killed[p]
  /\ lock' = c
  /\ chan' = [chan EXCEPT ![p] = p]
  /\ state' = [state EXCEPT ![p] = "sleeping"]
  /\ pc' = [pc EXCEPT ![p] = "wait"]
  /\ off' = [off EXCEPT ![p] = TRUE]
  /\ UNCHANGED <<killed, parent, kstack, on, tlock, intr, due, kid>>

(* kill() looks for the pid alone: pid 0 is that of an unused entry.       *)
Kill(c, p, q) ==
  /\ Calls(c, p) /\ Locked /\ q # First
  /\ killed' = [killed EXCEPT ![q] = TRUE]
  /\ state' = [state EXCEPT ![q] = IF @ = "sleeping" THEN "runnable" ELSE @]
  /\ UNCHANGED <<chan, parent, kstack, on, tlock, intr, due, pc, off, kid>>

-----------------------------------------------------------------------------
(* sys_sleep() and sleep(&ticks, &tickslock)                               *)

SleepCall(c, p) ==
  /\ Calls(c, p) /\ tlock = NoCpu
  /\ tlock' = c
  /\ \E zero \in BOOLEAN : due' = [due EXCEPT ![p] = zero]
  /\ pc' = [pc EXCEPT ![p] = "test"]
  /\ UNCHANGED <<state, chan, killed, parent, kstack, on, lock, intr, off, kid>>

SleepReturn(c, p) ==
  /\ Runs(c, p) /\ pc[p] = "test" /\ (due[p] \/ killed[p])
  /\ tlock' = NoCpu
  /\ due' = [due EXCEPT ![p] = FALSE]
  /\ pc' = [pc EXCEPT ![p] = "user"]
  /\ UNCHANGED <<state, chan, killed, parent, kstack, on, lock, intr, off, kid>>

(* Faulty: tickslock is released before ptable.lock is taken.              *)
SleepAgainUnlocks(c, p) ==
  /\ Runs(c, p) /\ pc[p] = "test" /\ ~due[p] /\ ~killed[p]
  /\ tlock' = NoCpu
  /\ pc' = [pc EXCEPT ![p] = "sleep"]
  /\ UNCHANGED <<state, chan, killed, parent, kstack, on, lock, intr, due, off,
                 kid>>

SleepAgain(c, p) ==
  /\ Runs(c, p) /\ pc[p] = "test" /\ ~due[p] /\ ~killed[p]
  /\ pc' = [pc EXCEPT ![p] = "sleep"]
  /\ UNCHANGED <<state, chan, killed, parent, kstack, on, lock, tlock, intr,
                 due, off, kid>>

(* sleep(): take ptable.lock, then release the caller's lock, then sleep.  *)
SleepLock(c, p) ==
  /\ Runs(c, p) /\ pc[p] = "sleep" /\ lock = NoCpu
  /\ lock' = c
  /\ pc' = [pc EXCEPT ![p] = "unlock"]
  /\ UNCHANGED <<state, chan, killed, parent, kstack, on, tlock, intr, due, off,
                 kid>>
(* Faulty: sleep() does not release the caller's lock.                     *)
SleepLocked(c, p) ==
  /\ Runs(c, p) /\ pc[p] = "unlock"
  /\ chan' = [chan EXCEPT ![p] = Ticks]
  /\ state' = [state EXCEPT ![p] = "sleeping"]
  /\ pc' = [pc EXCEPT ![p] = "asleep"]
  /\ off' = [off EXCEPT ![p] = TRUE]
  /\ UNCHANGED <<killed, parent, kstack, on, lock, tlock, intr, due, kid>>

Sleep(c, p) ==
  /\ Runs(c, p) /\ pc[p] = "unlock"
  /\ tlock' = NoCpu
  /\ chan' = [chan EXCEPT ![p] = Ticks]
  /\ state' = [state EXCEPT ![p] = "sleeping"]
  /\ pc' = [pc EXCEPT ![p] = "asleep"]
  /\ off' = [off EXCEPT ![p] = TRUE]
  /\ UNCHANGED <<killed, parent, kstack, on, lock, intr, due, kid>>

Relock(c, p) ==
  /\ Runs(c, p) /\ pc[p] = "relock" /\ tlock = NoCpu
  /\ tlock' = c
  /\ pc' = [pc EXCEPT ![p] = "test"]
  /\ UNCHANGED <<state, chan, killed, parent, kstack, on, lock, intr, due, off,
                 kid>>

-----------------------------------------------------------------------------
(* The timer interrupt: only a CPU that holds no lock takes it.            *)

Interruptible(c) ==
  /\ intr[c] = "none" /\ lock # c /\ tlock # c
  /\ on[c] \in Proc => ~off[on[c]]

InSleep == {p \in Proc : pc[p] \notin {"user", "fork", "wait"}}

(* The boot CPU counts the tick under tickslock; whose sys_sleep() is over *)
(* depends on how long each one asked for.                                 *)
Tick ==
  /\ Interruptible(Boot) /\ tlock = NoCpu
  /\ tlock' = Boot
  /\ \E over \in SUBSET InSleep : due' = [p \in Proc |-> due[p] \/ p \in over]
  /\ intr' = [intr EXCEPT ![Boot] = "wakeup"]
  /\ UNCHANGED <<state, chan, killed, parent, kstack, on, lock, pc, off, kid>>

TickWakeup ==
  /\ intr[Boot] = "wakeup" /\ Locked
  /\ state' = Wakeup1(state, {Ticks})
  /\ tlock' = NoCpu
  /\ intr' = [intr EXCEPT ![Boot] = "yield"]
  /\ UNCHANGED <<chan, killed, parent, kstack, on, due, pc, off, kid>>

Timer(c) ==
  /\ c # Boot /\ Interruptible(c) /\ on[c] \in Proc
  /\ intr' = [intr EXCEPT ![c] = "yield"]
  /\ UNCHANGED <<state, chan, killed, parent, kstack, on, lock, tlock, due, pc,
                 off, kid>>

(* Faulty: yield() does not hold ptable.lock across the switch.            *)
YieldUnlocked(c, p) ==
  /\ intr[c] = "yield" /\ on[c] = p /\ Locked
  /\ state' = [state EXCEPT ![p] = "runnable"]
  /\ off' = [off EXCEPT ![p] = TRUE]
  /\ intr' = [intr EXCEPT ![c] = "none"]
  /\ UNCHANGED <<chan, killed, parent, kstack, on, tlock, due, pc, kid>>

Yield(c, p) ==
  /\ intr[c] = "yield" /\ on[c] = p /\ lock = NoCpu
  /\ lock' = c
  /\ state' = [state EXCEPT ![p] = "runnable"]
  /\ off' = [off EXCEPT ![p] = TRUE]
  /\ intr' = [intr EXCEPT ![c] = "none"]
  /\ UNCHANGED <<chan, killed, parent, kstack, on, tlock, due, pc, kid>>

TimerReturn(c) ==
  /\ intr[c] = "yield" /\ on[c] = NoProc
  /\ intr' = [intr EXCEPT ![c] = "none"]
  /\ UNCHANGED <<state, chan, killed, parent, kstack, on, lock, tlock, due, pc,
                 off, kid>>

-----------------------------------------------------------------------------

Next ==
  \/ Tick \/ TickWakeup
  \/ \E c \in Cpu : \/ Swtch(c) \/ SchedulerLock(c) \/ SchedulerUnlock(c)
                    \/ Timer(c) \/ TimerReturn(c)
  \/ \E c \in Cpu, p \in Proc :
       \/ Run(c, p) \/ Resume(c, p) \/ Yield(c, p)
       \/ ForkReturn(c, p) \/ ForkFail(c, p) \/ Exit(c, p) \/ WaitFail(c, p) \/ WaitSleep(c, p)
       \/ SleepCall(c, p) \/ SleepReturn(c, p) \/ SleepAgain(c, p)
       \/ SleepLock(c, p) \/ Sleep(c, p) \/ Relock(c, p)
  \/ \E c \in Cpu, p, q \in Proc : Fork(c, p, q) \/ WaitReap(c, p, q) \/ Kill(c, p, q)

Spec == Init /\ [][Next]_vars

-----------------------------------------------------------------------------
(* The state of every variable; an entry is held exactly inside fork().    *)
TypeOK ==
  /\ state \in [Proc -> {"unused", "embryo", "runnable", "running", "sleeping",
                         "zombie"}]
  /\ chan \in [Proc -> Proc \cup {NoProc, Ticks}]
  /\ killed \in [Proc -> BOOLEAN]
  /\ parent \in [Proc -> Proc \cup {NoProc}]
  /\ kstack \in [Proc -> BOOLEAN]
  /\ on \in [Cpu -> Proc \cup {NoProc}]
  /\ lock \in Cpu \cup {NoCpu} /\ tlock \in Cpu \cup {NoCpu}
  /\ intr \in [Cpu -> {"none", "wakeup", "yield"}]
  /\ due \in [Proc -> BOOLEAN]
  /\ pc \in [Proc -> {"user", "fork", "wait", "test", "sleep", "unlock",
                      "asleep", "relock"}]
  /\ off \in [Proc -> BOOLEAN]
  /\ kid \in [Proc -> Proc \cup {NoProc}]
  /\ \A p \in Proc : kid[p] \in Proc <=> pc[p] = "fork"

(* No two CPUs execute on the kernel stack of one process: a process that  *)
(* yields, sleeps or exits is chosen again only after its CPU has left it. *)
OneCpu == \A p \in Proc, c, d \in Cpu : on[c] = p /\ on[d] = p => c = d

(* wait() frees the kernel stack of a zombie only after the CPU that ran   *)
(* its exit() has switched away from it.                                   *)
StackKept ==
  \A c \in Cpu, p \in Proc :
    on[c] = p => kstack[p] /\ state[p] \notin {"unused", "embryo"}

(* sched() does not panic: a process that switches away holds ptable.lock  *)
(* and no other lock.                                                      *)
SchedChecks ==
  \A c \in Cpu, p \in Proc :
    on[c] = p /\ off[p] => lock = c /\ tlock # c

(* A process asleep in wait() has a child to wait for, none of them is a   *)
(* zombie, and it has not been killed: exit() and kill() woke it up.       *)
WaiterIsTold ==
  \A p \in Proc : state[p] = "sleeping" /\ chan[p] = p =>
    /\ ~killed[p] /\ Children(p) # {}
    /\ \A q \in Children(p) : state[q] # "zombie"

(* A process asleep in sys_sleep() whose time is over is about to be woken *)
(* by the timer interrupt that counted the last tick.                      *)
NoLostWakeup ==
  \A p \in Proc :
    state[p] = "sleeping" /\ chan[p] = Ticks /\ due[p] => intr[Boot] = "wakeup"

=============================================================================
