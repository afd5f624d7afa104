--------------------------- MODULE ProcTableProofs ---------------------------
(***************************************************************************)
(* Safety of the process table for every number of processes and CPUs.     *)
(* The argument follows the locks: a process that is leaving its stack, or *)
(* has just been chosen, is covered by ptable.lock, and a process between  *)
(* its test of the clock and its sleep is covered by tickslock.            *)
(***************************************************************************)
EXTENDS ProcTable, TLAPS

InSection == {"test", "sleep", "unlock"}

(* Who holds a lock, and where: a CPU with tickslock is in the timer       *)
(* interrupt or executes sys_sleep(), and one with ptable.lock that is not *)
(* switching stacks is about to sleep.                                     *)
Locks ==
  /\ \A c \in Cpu : lock = c => intr[c] = "none"
  /\ \A c \in Cpu : intr[c] = "wakeup" => c = Boot /\ tlock = c
  /\ \A c \in Cpu : tlock = c =>
       \/ intr[c] = "wakeup"
       \/ /\ intr[c] = "none" /\ on[c] \in Proc
          /\ ~off[on[c]] /\ pc[on[c]] \in InSection
  /\ \A c \in Cpu, p \in Proc :
       lock = c /\ on[c] = p /\ ~off[p] => pc[p] = "unlock"
  /\ \A p \in Proc : pc[p] \in InSection =>
       \E c \in Cpu : /\ on[c] = p /\ ~off[p] /\ tlock = c /\ intr[c] = "none"
                      /\ pc[p] = "unlock" => lock = c

(* What the state of a process says of its stack.                          *)
States ==
  /\ \A c \in Cpu, p \in Proc : on[c] = p => state[p] = "running" \/ off[p]
  /\ \A p \in Proc : state[p] \notin {"running", "unused"} => off[p]
  /\ \A p \in Proc : state[p] # "unused" => kstack[p]
  /\ \A p \in Proc : state[p] \in {"unused", "embryo", "zombie"} => pc[p] = "user"

(* fork() owns the entry it allocated.                                     *)
Kids ==
  /\ \A p \in Proc : pc[p] = "fork" => state[kid[p]] = "embryo"
  /\ \A p, q \in Proc : pc[p] = "fork" /\ pc[q] = "fork" /\ kid[p] = kid[q] => p = q

(* A process on its way to sleep has not seen its time come.               *)
Undue == \A p \in Proc : pc[p] \in {"sleep", "unlock"} => ~due[p]

Inv ==
  /\ TypeOK /\ OneCpu /\ StackKept /\ SchedChecks
  /\ Locks /\ States /\ Kids /\ Undue /\ NoLostWakeup

-----------------------------------------------------------------------------
(* The switch to the scheduler: the process had left "running" before it,
   so no CPU is on a running stack it does not execute. *)
LEMMA SwtchStep ==
  ASSUME Inv, NEW c \in Cpu, Swtch(c)
  PROVE  Inv'
<1>1. TypeOK' /\ Kids' /\ Undue' /\ NoLostWakeup'
  BY DEF Inv, TypeOK, Kids, Undue, NoLostWakeup, Swtch
<1>2. OneCpu'
  BY ConstantsAssumption DEF Inv, OneCpu, Swtch
<1>3. StackKept'
  BY ConstantsAssumption DEF Inv, StackKept, Swtch
<1>4. SchedChecks'
  BY DEF Inv, SchedChecks, TypeOK, Swtch
<1>5. Locks'
  BY ConstantsAssumption DEF Inv, Locks, Swtch
<1>6. States'
  BY DEF Inv, States, TypeOK, Swtch
<1> QED
  BY <1>1, <1>2, <1>3, <1>4, <1>5, <1>6 DEF Inv

(* The scheduler takes ptable.lock between processes. *)
LEMMA SchedulerLockStep ==
  ASSUME Inv, NEW c \in Cpu, SchedulerLock(c)
  PROVE  Inv'
<1>1. TypeOK' /\ OneCpu' /\ StackKept' /\ States' /\ Kids' /\ Undue' /\ NoLostWakeup'
  BY DEF Inv, TypeOK, OneCpu, StackKept, States, Kids, Undue, NoLostWakeup,
       SchedulerLock
<1>2. SchedChecks'
  BY ConstantsAssumption DEF Inv, SchedChecks, SchedulerLock
<1>3. Locks'
  BY ConstantsAssumption DEF Inv, Locks, SchedulerLock
<1> QED
  BY <1>1, <1>2, <1>3 DEF Inv

(* The scheduler chooses a process. No other CPU is on its stack: a CPU on
   the stack of a runnable process holds ptable.lock, which this one has. *)
LEMMA RunStep ==
  ASSUME Inv, NEW c \in Cpu, NEW p \in Proc, Run(c, p)
  PROVE  Inv'
<1>1. TypeOK' /\ States' /\ Kids' /\ Undue' /\ NoLostWakeup'
  BY DEF Inv, TypeOK, States, Kids, Undue, NoLostWakeup, Run
<1>2. OneCpu'
  BY DEF Inv, OneCpu, SchedChecks, States, Run
<1>3. StackKept'
  BY DEF Inv, StackKept, States, Run
<1>4. SchedChecks'
  BY ConstantsAssumption DEF Inv, SchedChecks, Locks, Run
<1>5. Locks'
  BY ConstantsAssumption DEF Inv, Locks, States, Run
<1> QED
  BY <1>1, <1>2, <1>3, <1>4, <1>5 DEF Inv

(* The scheduler ends a scan of the table. *)
LEMMA SchedulerUnlockStep ==
  ASSUME Inv, NEW c \in Cpu, SchedulerUnlock(c)
  PROVE  Inv'
<1>1. TypeOK' /\ OneCpu' /\ StackKept' /\ States' /\ Kids' /\ Undue' /\ NoLostWakeup'
  BY DEF Inv, TypeOK, OneCpu, StackKept, States, Kids, Undue, NoLostWakeup,
       SchedulerUnlock
<1>2. SchedChecks'
  BY ConstantsAssumption DEF Inv, SchedChecks, SchedulerUnlock
<1>3. Locks'
  BY ConstantsAssumption DEF Inv, Locks, SchedulerUnlock
<1> QED
  BY <1>1, <1>2, <1>3 DEF Inv

(* A process comes back from sched() and releases ptable.lock. *)
LEMMA ResumeStep ==
  ASSUME Inv, NEW c \in Cpu, NEW p \in Proc, Resume(c, p)
  PROVE  Inv'
<1>1. TypeOK' /\ OneCpu' /\ StackKept'
  BY DEF Inv, TypeOK, OneCpu, StackKept, Resume
<1>2. SchedChecks'
  BY DEF Inv, SchedChecks, TypeOK, Resume, Back
<1>3. Locks'
  BY ConstantsAssumption DEF Inv, Locks, TypeOK, InSection, Resume, Back
<1>4. States'
  BY DEF Inv, States, TypeOK, Resume, Back
<1>5. Kids'
  BY DEF Inv, Kids, TypeOK, Resume
<1>6. Undue'
  BY DEF Inv, Undue, TypeOK, Resume
<1>7. NoLostWakeup'
  BY DEF Inv, NoLostWakeup, TypeOK, Resume, Back
<1> QED
  BY <1>1, <1>2, <1>3, <1>4, <1>5, <1>6, <1>7 DEF Inv

(* allocproc() takes an unused entry: no CPU is on its stack. *)
LEMMA ForkStep ==
  ASSUME Inv, NEW c \in Cpu, NEW p \in Proc, NEW q \in Proc, Fork(c, p, q)
  PROVE  Inv'
<1>1. OneCpu' /\ StackKept' /\ NoLostWakeup'
  BY DEF Inv, OneCpu, StackKept, NoLostWakeup, Fork
<1>2. TypeOK'
  BY DEF Inv, TypeOK, States, Fork, Locked
<1>3. SchedChecks'
  BY DEF Inv, SchedChecks, States, Fork, Locked
<1>4. Locks'
  BY DEF Inv, Locks, TypeOK, States, InSection, Fork, Calls, Locked
<1>5. States'
  BY DEF Inv, States, TypeOK, Fork, Calls, Runs, Locked
<1>6. Kids'
  BY DEF Inv, Kids, TypeOK, Fork
<1>7. Undue'
  BY DEF Inv, Undue, TypeOK, Fork
<1> QED
  BY <1>1, <1>2, <1>3, <1>4, <1>5, <1>6, <1>7 DEF Inv

(* fork() makes the entry it allocated runnable: it is still an embryo, and
   no other fork() has it. *)
LEMMA ForkReturnStep ==
  ASSUME Inv, NEW c \in Cpu, NEW p \in Proc, ForkReturn(c, p)
  PROVE  Inv'
<1>1. OneCpu' /\ StackKept' /\ Undue' /\ NoLostWakeup'
  BY DEF Inv, OneCpu, StackKept, Undue, NoLostWakeup, ForkReturn
<1>2. TypeOK'
  BY ConstantsAssumption DEF Inv, TypeOK, ForkReturn, Locked
<1>3. SchedChecks'
  BY DEF Inv, SchedChecks, ForkReturn, Runs, Locked
<1>4. Locks'
  BY DEF Inv, Locks, InSection, ForkReturn, Runs, Locked
<1>5. States'
  BY DEF Inv, States, Kids, ForkReturn
<1>6. Kids'
  BY DEF Inv, Kids, TypeOK, ForkReturn
<1> QED
  BY <1>1, <1>2, <1>3, <1>4, <1>5, <1>6 DEF Inv

(* fork() gives the entry back, and its stack with it. *)
LEMMA ForkFailStep ==
  ASSUME Inv, NEW c \in Cpu, NEW p \in Proc, ForkFail(c, p)
  PROVE  Inv'
<1>1. OneCpu' /\ SchedChecks' /\ Locks' /\ Undue' /\ NoLostWakeup'
  BY DEF Inv, OneCpu, SchedChecks, Locks, InSection, Undue, NoLostWakeup,
       ForkFail
<1>2. TypeOK'
  BY ConstantsAssumption DEF Inv, TypeOK, ForkFail
<1>3. StackKept'
  BY DEF Inv, StackKept, Kids, ForkFail
<1>4. States'
  BY DEF Inv, States, TypeOK, Kids, ForkFail
<1>5. Kids'
  BY DEF Inv, Kids, TypeOK, ForkFail
<1> QED
  BY <1>1, <1>2, <1>3, <1>4, <1>5 DEF Inv

(* exit() becomes a zombie with ptable.lock held. *)
LEMMA ExitStep ==
  ASSUME Inv, NEW c \in Cpu, NEW p \in Proc, Exit(c, p)
  PROVE  Inv'
<1>1. OneCpu' /\ Undue'
  BY DEF Inv, OneCpu, Undue, Exit
<1>2. TypeOK'
  BY ConstantsAssumption DEF Inv, TypeOK, Exit, Wakeup1
<1>3. StackKept'
  BY DEF Inv, StackKept, Exit, Exits, Wakeup1
<1>4. SchedChecks'
  BY ConstantsAssumption DEF Inv, SchedChecks, OneCpu, Locks, InSection,
       Exit, Exits
<1>5. Locks'
  BY ConstantsAssumption DEF Inv, Locks, TypeOK, InSection, Exit, Exits
<1>6. States'
  BY DEF Inv, States, TypeOK, Exit, Exits, Wakeup1
<1>7. Kids'
  BY DEF Inv, Kids, TypeOK, States, Exit, Exits, Wakeup1
<1>8. NoLostWakeup'
  BY DEF Inv, NoLostWakeup, Exit, Exits, Wakeup1
<1> QED
  BY <1>1, <1>2, <1>3, <1>4, <1>5, <1>6, <1>7, <1>8 DEF Inv

(* wait() frees the stack of a zombie. No CPU is on it: such a CPU would
   hold ptable.lock, which the caller of wait() holds or finds free. *)
LEMMA WaitReapStep ==
  ASSUME Inv, NEW c \in Cpu, NEW p \in Proc, NEW q \in Proc, WaitReap(c, p, q)
  PROVE  Inv'
<1>1. OneCpu' /\ Kids' /\ Undue'
  BY DEF Inv, OneCpu, Kids, Undue, WaitReap
<1>2. TypeOK'
  BY DEF Inv, TypeOK, WaitReap, Scans, Calls, Runs, Back, Children
<1>3. StackKept'
  BY ConstantsAssumption DEF Inv, StackKept, SchedChecks, States, WaitReap,
       Scans, Back
<1>4. SchedChecks'
  BY DEF Inv, SchedChecks, TypeOK, WaitReap, Scans, Calls, Runs, Back,
       Children
<1>5. Locks'
  BY ConstantsAssumption DEF Inv, Locks, States, WaitReap, Scans, Calls, Back
<1>6. States'
  BY DEF Inv, States, TypeOK, WaitReap, Scans, Calls, Runs, Back, Children
<1>7. NoLostWakeup'
  BY DEF Inv, NoLostWakeup, States, WaitReap, Scans, Calls, Runs, Back
<1> QED
  BY <1>1, <1>2, <1>3, <1>4, <1>5, <1>6, <1>7 DEF Inv

(* wait() has nothing to wait for. *)
LEMMA WaitFailStep ==
  ASSUME Inv, NEW c \in Cpu, NEW p \in Proc, WaitFail(c, p)
  PROVE  Inv'
<1>1. OneCpu' /\ StackKept' /\ Kids' /\ Undue'
  BY DEF Inv, OneCpu, StackKept, Kids, Undue, WaitFail
<1>2. TypeOK'
  BY DEF Inv, TypeOK, WaitFail, Scans, Calls, Runs, Back
<1>3. SchedChecks'
  BY DEF Inv, SchedChecks, TypeOK, WaitFail, Scans, Calls, Runs, Back
<1>4. Locks'
  BY ConstantsAssumption DEF Inv, Locks, InSection, WaitFail, Scans, Calls,
       Back
<1>5. States'
  BY DEF Inv, States, WaitFail, Scans, Calls, Runs, Back
<1>6. NoLostWakeup'
  BY DEF Inv, NoLostWakeup, States, WaitFail, Scans, Calls, Runs, Back
<1> QED
  BY <1>1, <1>2, <1>3, <1>4, <1>5, <1>6 DEF Inv

(* wait() goes to sleep with ptable.lock held. *)
LEMMA WaitSleepStep ==
  ASSUME Inv, NEW c \in Cpu, NEW p \in Proc, WaitSleep(c, p)
  PROVE  Inv'
<1>1. OneCpu' /\ StackKept' /\ Undue'
  BY DEF Inv, OneCpu, StackKept, Undue, WaitSleep
<1>2. TypeOK'
  BY DEF Inv, TypeOK, WaitSleep, Scans, Calls, Runs, Back
<1>3. SchedChecks'
  BY ConstantsAssumption DEF Inv, SchedChecks, OneCpu, Locks, InSection,
       WaitSleep, Scans, Calls, Runs, Back
<1>4. Locks'
  BY ConstantsAssumption DEF Inv, Locks, TypeOK, InSection, WaitSleep, Scans,
       Calls, Runs, Back
<1>5. States'
  BY DEF Inv, States, TypeOK, WaitSleep, Scans, Calls, Runs, Back
<1>6. Kids'
  BY DEF Inv, Kids, States, WaitSleep, Scans, Calls, Runs
<1>7. NoLostWakeup'
  BY ConstantsAssumption DEF Inv, NoLostWakeup, TypeOK, WaitSleep
<1> QED
  BY <1>1, <1>2, <1>3, <1>4, <1>5, <1>6, <1>7 DEF Inv

(* kill() makes a sleeping process runnable: it is off its CPU already, or
   its CPU holds ptable.lock. *)
LEMMA KillStep ==
  ASSUME Inv, NEW c \in Cpu, NEW p \in Proc, NEW q \in Proc, Kill(c, p, q)
  PROVE  Inv'
<1>1. OneCpu' /\ StackKept' /\ States' /\ Kids' /\ Undue' /\ NoLostWakeup'
  BY DEF Inv, OneCpu, StackKept, States, Kids, Undue, NoLostWakeup, Kill
<1>2. TypeOK'
  BY DEF Inv, TypeOK, Kill, Calls, Runs, Locked
<1>3. SchedChecks'
  BY DEF Inv, SchedChecks, Kill, Calls, Runs, Locked
<1>4. Locks'
  BY DEF Inv, Locks, InSection, Kill, Calls, Runs, Locked
<1> QED
  BY <1>1, <1>2, <1>3, <1>4 DEF Inv

(* sys_sleep() takes tickslock. *)
LEMMA SleepCallStep ==
  ASSUME Inv, NEW c \in Cpu, NEW p \in Proc, SleepCall(c, p)
  PROVE  Inv'
<1>1. OneCpu' /\ StackKept' /\ Kids'
  BY DEF Inv, OneCpu, StackKept, Kids, SleepCall
<1>2. TypeOK'
  BY DEF Inv, TypeOK, SleepCall, Calls, Runs
<1>3. SchedChecks'
  BY DEF Inv, SchedChecks, SleepCall, Calls, Runs
<1>4. Locks'
  BY ConstantsAssumption DEF Inv, Locks, TypeOK, InSection, SleepCall, Calls,
       Runs
<1>5. States'
  BY DEF Inv, States, SleepCall, Calls, Runs
<1>6. Undue'
  BY DEF Inv, Undue, TypeOK, SleepCall
<1>7. NoLostWakeup'
  BY DEF Inv, NoLostWakeup, States, SleepCall, Calls, Runs
<1> QED
  BY <1>1, <1>2, <1>3, <1>4, <1>5, <1>6, <1>7 DEF Inv

(* sys_sleep() releases tickslock when its time is over. *)
LEMMA SleepReturnStep ==
  ASSUME Inv, NEW c \in Cpu, NEW p \in Proc, SleepReturn(c, p)
  PROVE  Inv'
<1>1. TypeOK' /\ OneCpu' /\ StackKept' /\ States' /\ Kids' /\ Undue' /\ NoLostWakeup'
  BY DEF Inv, TypeOK, OneCpu, StackKept, States, Kids, Undue, NoLostWakeup,
       SleepReturn
<1>2. SchedChecks'
  BY ConstantsAssumption DEF Inv, SchedChecks, SleepReturn
<1>3. Locks'
  BY ConstantsAssumption DEF Inv, Locks, TypeOK, InSection, SleepReturn
<1> QED
  BY <1>1, <1>2, <1>3 DEF Inv

(* sys_sleep() has seen that its time is not over, and calls sleep(). *)
LEMMA SleepAgainStep ==
  ASSUME Inv, NEW c \in Cpu, NEW p \in Proc, SleepAgain(c, p)
  PROVE  Inv'
<1>1. TypeOK' /\ OneCpu' /\ StackKept' /\ SchedChecks' /\ Locks' /\ States' /\ Kids' /\ Undue' /\ NoLostWakeup'
  BY DEF Inv, TypeOK, OneCpu, StackKept, SchedChecks, Locks, InSection,
       States, Kids, Undue, NoLostWakeup, SleepAgain
<1> QED
  BY <1>1 DEF Inv

(* sleep() takes ptable.lock while it still holds tickslock. *)
LEMMA SleepLockStep ==
  ASSUME Inv, NEW c \in Cpu, NEW p \in Proc, SleepLock(c, p)
  PROVE  Inv'
<1>1. TypeOK' /\ OneCpu' /\ StackKept' /\ States' /\ Kids' /\ Undue' /\ NoLostWakeup'
  BY DEF Inv, TypeOK, OneCpu, StackKept, States, Kids, Undue, NoLostWakeup,
       SleepLock
<1>2. SchedChecks'
  BY ConstantsAssumption DEF Inv, SchedChecks, SleepLock
<1>3. Locks'
  BY DEF Inv, Locks, TypeOK, OneCpu, InSection, SleepLock, Runs
<1> QED
  BY <1>1, <1>2, <1>3 DEF Inv

(* sleep() falls asleep. Its time is not over: the clock cannot have moved
   since the test, under tickslock. *)
LEMMA SleepStep ==
  ASSUME Inv, NEW c \in Cpu, NEW p \in Proc, Sleep(c, p)
  PROVE  Inv'
<1>1. TypeOK' /\ OneCpu' /\ StackKept' /\ Undue'
  BY DEF Inv, TypeOK, OneCpu, StackKept, Undue, Sleep
<1>2. SchedChecks'
  BY ConstantsAssumption DEF Inv, SchedChecks, OneCpu, Locks, InSection,
       Sleep
<1>3. Locks'
  BY ConstantsAssumption DEF Inv, Locks, TypeOK, InSection, Sleep
<1>4. States'
  BY DEF Inv, States, TypeOK, Sleep
<1>5. Kids'
  BY DEF Inv, Kids, States, Sleep
<1>6. NoLostWakeup'
  BY DEF Inv, NoLostWakeup, Undue, Sleep
<1> QED
  BY <1>1, <1>2, <1>3, <1>4, <1>5, <1>6 DEF Inv

(* sleep() takes its caller's lock again. *)
LEMMA RelockStep ==
  ASSUME Inv, NEW c \in Cpu, NEW p \in Proc, Relock(c, p)
  PROVE  Inv'
<1>1. TypeOK' /\ OneCpu' /\ StackKept' /\ States' /\ Kids' /\ Undue' /\ NoLostWakeup'
  BY DEF Inv, TypeOK, OneCpu, StackKept, States, Kids, Undue, NoLostWakeup,
       Relock
<1>2. SchedChecks'
  BY DEF Inv, SchedChecks, Relock, Runs
<1>3. Locks'
  BY ConstantsAssumption DEF Inv, Locks, TypeOK, InSection, Relock, Runs
<1> QED
  BY <1>1, <1>2, <1>3 DEF Inv

(* The boot CPU counts a tick under tickslock: no process is between its
   test of the clock and its sleep. *)
LEMMA TickStep ==
  ASSUME Inv, Tick
  PROVE  Inv'
<1>1. OneCpu' /\ StackKept' /\ States' /\ Kids'
  BY DEF Inv, OneCpu, StackKept, States, Kids, Tick
<1>2. TypeOK'
  BY ConstantsAssumption DEF Inv, TypeOK, Tick
<1>3. SchedChecks'
  BY DEF Inv, SchedChecks, Tick, Interruptible, InSleep
<1>4. Locks'
  BY ConstantsAssumption DEF Inv, Locks, TypeOK, Tick, Interruptible
<1>5. Undue'
  BY ConstantsAssumption DEF Inv, Undue, Locks, InSection, Tick
<1>6. NoLostWakeup'
  BY ConstantsAssumption DEF Inv, NoLostWakeup, TypeOK, Tick
<1> QED
  BY <1>1, <1>2, <1>3, <1>4, <1>5, <1>6 DEF Inv

(* wakeup(&ticks) makes every sleeper on the clock runnable. *)
LEMMA TickWakeupStep ==
  ASSUME Inv, TickWakeup
  PROVE  Inv'
<1>1. OneCpu' /\ Undue'
  BY DEF Inv, OneCpu, Undue, TickWakeup
<1>2. TypeOK'
  BY DEF Inv, TypeOK, TickWakeup, Locked, Wakeup1
<1>3. StackKept'
  BY DEF Inv, StackKept, TickWakeup, Locked, Wakeup1
<1>4. SchedChecks'
  BY ConstantsAssumption DEF Inv, SchedChecks, TickWakeup, Locked
<1>5. Locks'
  BY ConstantsAssumption DEF Inv, Locks, TypeOK, TickWakeup, Locked
<1>6. States'
  BY DEF Inv, States, TickWakeup, Locked, Wakeup1
<1>7. Kids'
  BY DEF Inv, Kids, TypeOK, TickWakeup, Locked, Wakeup1
<1>8. NoLostWakeup'
  BY DEF Inv, NoLostWakeup, TickWakeup, Locked, Wakeup1
<1> QED
  BY <1>1, <1>2, <1>3, <1>4, <1>5, <1>6, <1>7, <1>8 DEF Inv

(* A timer interrupt of another CPU, in a process. *)
LEMMA TimerStep ==
  ASSUME Inv, NEW c \in Cpu, Timer(c)
  PROVE  Inv'
<1>1. TypeOK' /\ OneCpu' /\ StackKept' /\ SchedChecks' /\ States' /\ Kids' /\ Undue' /\ NoLostWakeup'
  BY DEF Inv, TypeOK, OneCpu, StackKept, SchedChecks, States, Kids, Undue,
       NoLostWakeup, Timer
<1>2. Locks'
  BY DEF Inv, Locks, InSection, Timer, Interruptible
<1> QED
  BY <1>1, <1>2 DEF Inv

(* The timer interrupt makes the process runnable with ptable.lock held. *)
LEMMA YieldStep ==
  ASSUME Inv, NEW c \in Cpu, NEW p \in Proc, Yield(c, p)
  PROVE  Inv'
<1>1. TypeOK' /\ OneCpu' /\ StackKept' /\ Undue' /\ NoLostWakeup'
  BY DEF Inv, TypeOK, OneCpu, StackKept, Undue, NoLostWakeup, Yield
<1>2. SchedChecks'
  BY ConstantsAssumption DEF Inv, SchedChecks, OneCpu, Locks, Yield
<1>3. Locks'
  BY ConstantsAssumption DEF Inv, Locks, TypeOK, OneCpu, Yield
<1>4. States'
  BY DEF Inv, States, TypeOK, StackKept, Yield
<1>5. Kids'
  BY DEF Inv, Kids, StackKept, Yield
<1> QED
  BY <1>1, <1>2, <1>3, <1>4, <1>5 DEF Inv

(* A timer interrupt of a CPU that is in its scheduler. *)
LEMMA TimerReturnStep ==
  ASSUME Inv, NEW c \in Cpu, TimerReturn(c)
  PROVE  Inv'
<1>1. TypeOK' /\ OneCpu' /\ StackKept' /\ SchedChecks' /\ Locks' /\ States' /\ Kids' /\ Undue' /\ NoLostWakeup'
  BY DEF Inv, TypeOK, OneCpu, StackKept, SchedChecks, Locks, InSection,
       States, Kids, Undue, NoLostWakeup, TimerReturn
<1> QED
  BY <1>1 DEF Inv

-----------------------------------------------------------------------------
(* At boot no CPU is on a stack and no lock is held.                       *)
LEMMA InitInv == Init => Inv
<1> SUFFICES ASSUME Init PROVE Inv
  OBVIOUS
<1>1. TypeOK
  BY ConstantsAssumption DEF Init, TypeOK
<1>2. OneCpu /\ StackKept /\ SchedChecks
  BY ConstantsAssumption DEF Init, OneCpu, StackKept, SchedChecks
<1>3. Locks
  BY ConstantsAssumption DEF Init, Locks, InSection
<1>4. States /\ Kids /\ Undue /\ NoLostWakeup
  BY ConstantsAssumption DEF Init, States, Kids, Undue, NoLostWakeup
<1> QED
  BY <1>1, <1>2, <1>3, <1>4 DEF Inv

(* A step that changes no variable.                                        *)
LEMMA StutterStep ==
  ASSUME Inv, UNCHANGED vars
  PROVE  Inv'
<1>1. TypeOK' /\ OneCpu' /\ StackKept' /\ SchedChecks'
  BY DEF Inv, TypeOK, OneCpu, StackKept, SchedChecks, vars
<1>2. Locks' /\ States' /\ Kids' /\ Undue' /\ NoLostWakeup'
  BY DEF Inv, Locks, States, Kids, Undue, NoLostWakeup, vars
<1> QED
  BY <1>1, <1>2 DEF Inv

(* Every step of every CPU keeps the invariant.                            *)
LEMMA NextInv ==
  ASSUME Inv, [Next]_vars
  PROVE  Inv'
<1>1. CASE Tick
  BY <1>1, TickStep
<1>2. CASE TickWakeup
  BY <1>2, TickWakeupStep
<1>3. ASSUME NEW c \in Cpu,
             Swtch(c) \/ SchedulerLock(c) \/ SchedulerUnlock(c)
               \/ Timer(c) \/ TimerReturn(c)
      PROVE  Inv'
  BY <1>3, SwtchStep, SchedulerLockStep, SchedulerUnlockStep, TimerStep,
     TimerReturnStep
<1>4. ASSUME NEW c \in Cpu, NEW p \in Proc,
             \/ Run(c, p) \/ Resume(c, p) \/ Yield(c, p)
             \/ ForkReturn(c, p) \/ ForkFail(c, p) \/ Exit(c, p)
             \/ WaitFail(c, p) \/ WaitSleep(c, p)
      PROVE  Inv'
  BY <1>4, RunStep, ResumeStep, YieldStep, ForkReturnStep, ForkFailStep,
     ExitStep, WaitFailStep, WaitSleepStep
<1>5. ASSUME NEW c \in Cpu, NEW p \in Proc,
             \/ SleepCall(c, p) \/ SleepReturn(c, p) \/ SleepAgain(c, p)
             \/ SleepLock(c, p) \/ Sleep(c, p) \/ Relock(c, p)
      PROVE  Inv'
  BY <1>5, SleepCallStep, SleepReturnStep, SleepAgainStep, SleepLockStep,
     SleepStep, RelockStep
<1>6. ASSUME NEW c \in Cpu, NEW p \in Proc, NEW q \in Proc,
             Fork(c, p, q) \/ WaitReap(c, p, q) \/ Kill(c, p, q)
      PROVE  Inv'
  BY <1>6, ForkStep, WaitReapStep, KillStep
<1>7. CASE UNCHANGED vars
  BY <1>7, StutterStep
<1> QED
  BY <1>1, <1>2, <1>3, <1>4, <1>5, <1>6, <1>7 DEF Next

(* The inductive invariant: the five properties below, the discipline of   *)
(* the two locks, and what state and kid say of stacks and entries.        *)
THEOREM Invariance == Spec => []Inv
<1>1. Init => Inv
  BY InitInv
<1>2. Inv /\ [Next]_vars => Inv'
  BY NextInv
<1> QED
  BY <1>1, <1>2, PTL DEF Spec

(* Every variable of the process table keeps its type, and an entry is     *)
(* held exactly inside fork().                                             *)
THEOREM TypeCorrect == Spec => []TypeOK
<1>1. Inv => TypeOK
  BY DEF Inv
<1> QED
  BY <1>1, Invariance, PTL

(* No two CPUs ever execute on one kernel stack (scheduler(), yield(),     *)
(* sleep(), exit()).                                                       *)
THEOREM OneCpuPerStack == Spec => []OneCpu
<1>1. Inv => OneCpu
  BY DEF Inv
<1> QED
  BY <1>1, Invariance, PTL

(* wait() and a failed fork() never free the stack a CPU executes on.      *)
THEOREM StackIsKept == Spec => []StackKept
<1>1. Inv => StackKept
  BY DEF Inv
<1> QED
  BY <1>1, Invariance, PTL

(* sched() is entered with ptable.lock held and no other lock: its panics  *)
(* are never reached.                                                      *)
THEOREM SchedNeverPanics == Spec => []SchedChecks
<1>1. Inv => SchedChecks
  BY DEF Inv
<1> QED
  BY <1>1, Invariance, PTL

(* The two locks of sleep() lose no wakeup of the clock: a sleeper whose   *)
(* time is over is one the interrupt handler is about to wake.             *)
THEOREM ClockWakesSleepers == Spec => []NoLostWakeup
<1>1. Inv => NoLostWakeup
  BY DEF Inv
<1> QED
  BY <1>1, Invariance, PTL

-----------------------------------------------------------------------------
(* Parents and children.  The first process has no parent and never exits, *)
(* so it can inherit; an entry that fork() has not finished belongs to     *)
(* nobody, so filling it in takes no child away from a process that waits. *)
Family ==
  /\ parent[First] = NoProc
  /\ state[First] \notin {"unused", "embryo", "zombie"}
  /\ \A p \in Proc : parent[p] # p
  /\ \A p \in Proc : state[p] \in {"unused", "embryo"} => parent[p] = NoProc

Waiting == Family /\ WaiterIsTold

LEMMA InitWaiting == Init => Waiting
BY ConstantsAssumption DEF Init, Waiting, Family, WaiterIsTold, Children

(* Steps in which nobody becomes a child, a zombie, a victim or a sleeper  *)
(* of wait().                                                              *)
LEMMA WaitingFrame ==
  ASSUME Inv, Waiting, parent' = parent,
         \A p \in Proc : chan'[p] = p /\ state'[p] = "sleeping"
           => /\ chan[p] = p /\ state[p] = "sleeping"
              /\ killed'[p] => killed[p],
         \A p \in Proc : state'[p] = "zombie" => state[p] = "zombie",
         \A p \in Proc : state'[p] \in {"unused", "embryo"}
           <=> state[p] \in {"unused", "embryo"}
  PROVE  Waiting'
<1>1. Family'
  BY ConstantsAssumption DEF Waiting, Family, Inv, TypeOK
<1>2. WaiterIsTold'
  BY DEF Waiting, WaiterIsTold, Children, Inv, TypeOK
<1> QED
  BY <1>1, <1>2 DEF Waiting

(* The scheduler, the timer and sys_sleep() touch no family.               *)
LEMMA SchedulerWaiting ==
  ASSUME Inv, Waiting, NEW c \in Cpu,
         \/ Swtch(c) \/ SchedulerLock(c) \/ SchedulerUnlock(c)
         \/ Timer(c) \/ TimerReturn(c) \/ Tick \/ TickWakeup
  PROVE  Waiting'
<1>1. /\ parent' = parent /\ chan' = chan /\ killed' = killed
      /\ state' = state \/ state' = Wakeup1(state, {Ticks})
  BY DEF Swtch, SchedulerLock, SchedulerUnlock, Timer, TimerReturn, Tick,
         TickWakeup
<1>2. \A p \in Proc :
        state'[p] = state[p] \/ (state'[p] = "runnable" /\ state[p] = "sleeping")
  BY <1>1 DEF Wakeup1
<1> QED
  BY <1>1, <1>2, WaitingFrame

LEMMA SleepWaiting ==
  ASSUME Inv, Waiting, NEW c \in Cpu, NEW p \in Proc,
         \/ Run(c, p) \/ Resume(c, p) \/ Yield(c, p)
         \/ SleepCall(c, p) \/ SleepReturn(c, p) \/ SleepAgain(c, p)
         \/ SleepLock(c, p) \/ Sleep(c, p) \/ Relock(c, p)
  PROVE  Waiting'
<1>1. parent' = parent /\ killed' = killed
  BY DEF Run, Resume, Yield, SleepCall, SleepReturn, SleepAgain, SleepLock,
         Sleep, Relock
<1>2. CASE Run(c, p)
  BY <1>1, <1>2, WaitingFrame DEF Run, Inv, TypeOK
<1>3. CASE Resume(c, p)
  BY <1>1, <1>3, WaitingFrame, ConstantsAssumption DEF Resume, Inv, TypeOK
<1>4. CASE Yield(c, p)
  <2>1. state[p] \notin {"unused", "embryo"}
    BY <1>4 DEF Yield, Inv, StackKept
  <2>2. QED
    BY <1>1, <1>4, <2>1, WaitingFrame DEF Yield, Inv, TypeOK
<1>5. CASE Sleep(c, p)
  <2>1. state[p] \notin {"unused", "embryo"}
    BY <1>5 DEF Sleep, Runs, Inv, StackKept
  <2>2. QED
    BY <1>1, <1>5, <2>1, WaitingFrame, ConstantsAssumption
    DEF Sleep, Inv, TypeOK
<1>6. CASE \/ SleepCall(c, p) \/ SleepReturn(c, p) \/ SleepAgain(c, p)
           \/ SleepLock(c, p) \/ Relock(c, p)
  <2>1. state' = state /\ chan' = chan
    BY <1>6 DEF SleepCall, SleepReturn, SleepAgain, SleepLock, Relock
  <2>2. QED
    BY <1>1, <2>1, WaitingFrame DEF Inv, TypeOK
<1> QED
  BY <1>2, <1>3, <1>4, <1>5, <1>6

(* A process that executes is neither asleep nor a free entry.             *)
LEMMA RunnerIsRunning ==
  ASSUME Inv, NEW c \in Cpu, NEW p \in Proc, on[c] = p, ~off[p]
  PROVE  state[p] = "running"
BY DEF Inv, States, StackKept, TypeOK

LEMMA ForkWaiting ==
  ASSUME Inv, Waiting, NEW c \in Cpu, NEW p \in Proc, NEW q \in Proc,
         Fork(c, p, q)
  PROVE  Waiting'
<1>1. /\ state[q] = "unused" /\ state' = [state EXCEPT ![q] = "embryo"]
      /\ parent' = parent /\ chan' = chan /\ killed' = killed
  BY DEF Fork
<1> QED
  BY <1>1, WaitingFrame DEF Inv, TypeOK

LEMMA ForkFailWaiting ==
  ASSUME Inv, Waiting, NEW c \in Cpu, NEW p \in Proc, ForkFail(c, p)
  PROVE  Waiting'
<1>1. /\ kid[p] \in Proc /\ state[kid[p]] = "embryo"
      /\ state' = [state EXCEPT ![kid[p]] = "unused"]
      /\ parent' = parent /\ chan' = chan /\ killed' = killed
  BY DEF ForkFail, Inv, TypeOK, Kids
<1> QED
  BY <1>1, WaitingFrame DEF Inv, TypeOK

(* fork() gives its caller a child that nobody else had.                   *)
LEMMA ForkReturnWaiting ==
  ASSUME Inv, Waiting, NEW c \in Cpu, NEW p \in Proc, ForkReturn(c, p)
  PROVE  Waiting'
<1> DEFINE k == kid[p]
<1>1. /\ k \in Proc /\ state[k] = "embryo" /\ parent[k] = NoProc
      /\ state[p] = "running"
  BY RunnerIsRunning DEF ForkReturn, Runs, Inv, TypeOK, Kids, Waiting, Family
<1>2. /\ state' = [state EXCEPT ![k] = "runnable"]
      /\ parent' = [parent EXCEPT ![k] = p]
      /\ chan' = chan /\ killed' = killed
  BY DEF ForkReturn
<1> HIDE DEF k
<1>3. Family'
  BY <1>1, <1>2, ConstantsAssumption DEF Waiting, Family, Inv, TypeOK
<1>4. WaiterIsTold'
  <2>1. ASSUME NEW a \in Proc, state'[a] = "sleeping", chan'[a] = a
        PROVE  /\ ~killed'[a] /\ Children(a)' # {}
               /\ \A q \in Children(a)' : state'[q] # "zombie"
    <3>1. /\ state[a] = "sleeping" /\ chan[a] = a /\ a # k /\ a # p
      BY <1>1, <1>2, <2>1 DEF Inv, TypeOK
    <3>2. Children(a)' = Children(a)
      BY <1>1, <1>2, <3>1, ConstantsAssumption DEF Children, Inv, TypeOK
    <3>3. QED
      BY <1>2, <3>1, <3>2 DEF Waiting, WaiterIsTold, Children, Inv, TypeOK
  <2>2. QED
    BY <2>1 DEF WaiterIsTold
<1> QED
  BY <1>3, <1>4 DEF Waiting

(* exit() wakes its parent, and init if it hands it a zombie; nobody else  *)
(* who waits loses a child or has one that died.                           *)
LEMMA ExitWaiting ==
  ASSUME Inv, Waiting, NEW c \in Cpu, NEW p \in Proc, Exit(c, p)
  PROVE  Waiting'
<1> DEFINE orphans == {q \in Proc : parent[q] = p}
           told == {parent[p]} \cup
             (IF \E q \in orphans : state[q] = "zombie" THEN {First} ELSE {})
<1>1. /\ state' = [Wakeup1(state, told) EXCEPT ![p] = "zombie"]
      /\ parent' = [q \in Proc |-> IF q \in orphans THEN First ELSE parent[q]]
      /\ chan' = chan /\ killed' = killed /\ p # First
      /\ state[p] = "running"
  BY RunnerIsRunning DEF Exit, Exits
<1>2. /\ state'[p] = "zombie"
      /\ \A q \in Proc : q # p =>
           state'[q] = IF state[q] = "sleeping" /\ chan[q] \in told
                       THEN "runnable" ELSE state[q]
  BY <1>1 DEF Wakeup1
<1>3. Family'
  <2>1. /\ First \in Proc /\ First \notin orphans
        /\ \A q \in orphans : q \in Proc /\ parent[q] # NoProc
    BY ConstantsAssumption DEF Waiting, Family
  <2>2. parent'[First] = NoProc /\ state'[First] \notin {"unused", "embryo", "zombie"}
    BY <1>1, <1>2, <2>1 DEF Waiting, Family
  <2>3. ASSUME NEW q \in Proc
        PROVE  /\ parent'[q] # q
               /\ state'[q] \in {"unused", "embryo"} => parent'[q] = NoProc
    <3>1. parent'[q] = IF q \in orphans THEN First ELSE parent[q]
      BY <1>1
    <3>2. state'[q] \in {"unused", "embryo"} => state[q] \in {"unused", "embryo"}
      BY <1>2
    <3>3. QED
      BY <2>1, <3>1, <3>2 DEF Waiting, Family
  <2>4. QED
    BY <2>2, <2>3 DEF Family
<1>4. WaiterIsTold'
  <2>1. ASSUME NEW a \in Proc, state'[a] = "sleeping", chan'[a] = a
        PROVE  /\ ~killed'[a] /\ Children(a)' # {}
               /\ \A q \in Children(a)' : state'[q] # "zombie"
    <3>1. /\ state[a] = "sleeping" /\ chan[a] = a /\ a # p
          /\ a # parent[p]
          /\ a = First => \A q \in orphans : state[q] # "zombie"
      BY <1>1, <1>2, <2>1
    <3>2. /\ ~killed[a] /\ Children(a) # {}
          /\ \A q \in Children(a) : state[q] # "zombie"
      BY <3>1 DEF Waiting, WaiterIsTold
    <3>3. p \notin orphans
      BY DEF Waiting, Family
    <3>4. Children(a) \subseteq Children(a)'
      BY <1>1, <3>1 DEF Children
    <3>5. ASSUME NEW q \in Children(a)'
          PROVE  q # p /\ state[q] # "zombie"
      BY <1>1, <3>1, <3>2, <3>3, <3>5 DEF Children
    <3>6. QED
      BY <1>1, <1>2, <3>2, <3>4, <3>5 DEF Children
  <2>2. QED
    BY <2>1 DEF WaiterIsTold
<1> QED
  BY <1>3, <1>4 DEF Waiting

(* A process in wait() that scans the table is running, and it reaps a     *)
(* child of its own, finds that it need not wait, or sleeps with reason.   *)
LEMMA ScanIsRunning ==
  ASSUME Inv, NEW c \in Cpu, NEW p \in Proc, Scans(c, p)
  PROVE  state[p] = "running"
BY RunnerIsRunning DEF Scans, Calls, Runs, Back

LEMMA WaitReapWaiting ==
  ASSUME Inv, Waiting, NEW c \in Cpu, NEW p \in Proc, NEW q \in Proc,
         WaitReap(c, p, q)
  PROVE  Waiting'
<1>1. /\ state[p] = "running" /\ parent[q] = p /\ state[q] = "zombie"
      /\ parent' = [parent EXCEPT ![q] = NoProc]
      /\ state' = [state EXCEPT ![q] = "unused"]
      /\ killed' = [killed EXCEPT ![q] = FALSE]
      /\ chan' = [chan EXCEPT ![p] = NoProc]
  BY ScanIsRunning DEF WaitReap, Children
<1>2. Family'
  BY <1>1, ConstantsAssumption DEF Waiting, Family, Inv, TypeOK
<1>3. WaiterIsTold'
  <2>1. ASSUME NEW a \in Proc, state'[a] = "sleeping", chan'[a] = a
        PROVE  /\ ~killed'[a] /\ Children(a)' # {}
               /\ \A r \in Children(a)' : state'[r] # "zombie"
    <3>1. state[a] = "sleeping" /\ chan[a] = a /\ a # p /\ a # q
      BY <1>1, <2>1, ConstantsAssumption DEF Inv, TypeOK
    <3>2. Children(a)' = Children(a)
      BY <1>1, <3>1, ConstantsAssumption DEF Children, Inv, TypeOK
    <3>3. QED
      BY <1>1, <3>1, <3>2 DEF Waiting, WaiterIsTold, Children, Inv, TypeOK
  <2>2. QED
    BY <2>1 DEF WaiterIsTold
<1> QED
  BY <1>2, <1>3 DEF Waiting

LEMMA WaitFailWaiting ==
  ASSUME Inv, Waiting, NEW c \in Cpu, NEW p \in Proc, WaitFail(c, p)
  PROVE  Waiting'
<1>1. /\ state' = state /\ parent' = parent /\ killed' = killed
      /\ chan' = [chan EXCEPT ![p] = NoProc]
  BY DEF WaitFail
<1> QED
  BY <1>1, WaitingFrame, ConstantsAssumption DEF Inv, TypeOK

LEMMA WaitSleepWaiting ==
  ASSUME Inv, Waiting, NEW c \in Cpu, NEW p \in Proc, WaitSleep(c, p)
  PROVE  Waiting'
<1>1. /\ state[p] = "running" /\ parent' = parent /\ killed' = killed
      /\ state' = [state EXCEPT ![p] = "sleeping"]
      /\ chan' = [chan EXCEPT ![p] = p]
      /\ ~killed[p] /\ Children(p) # {}
      /\ \A q \in Children(p) : state[q] # "zombie"
  BY ScanIsRunning DEF WaitSleep
<1>2. Family'
  BY <1>1, ConstantsAssumption DEF Waiting, Family, Inv, TypeOK
<1>3. WaiterIsTold'
  BY <1>1 DEF Waiting, WaiterIsTold, Children, Inv, TypeOK
<1> QED
  BY <1>2, <1>3 DEF Waiting

LEMMA KillWaiting ==
  ASSUME Inv, Waiting, NEW c \in Cpu, NEW p \in Proc, NEW q \in Proc,
         Kill(c, p, q)
  PROVE  Waiting'
<1>1. /\ parent' = parent /\ chan' = chan
      /\ killed' = [killed EXCEPT ![q] = TRUE]
      /\ state' = [state EXCEPT ![q] = IF @ = "sleeping" THEN "runnable" ELSE @]
  BY DEF Kill
<1> QED
  BY <1>1, WaitingFrame DEF Inv, TypeOK

LEMMA NextWaiting ==
  ASSUME Inv, Waiting, [Next]_vars
  PROVE  Waiting'
<1>1. CASE UNCHANGED vars
  BY <1>1 DEF vars, Waiting, Family, WaiterIsTold, Children
<1>2. CASE Tick \/ TickWakeup
  BY <1>2, SchedulerWaiting, ConstantsAssumption
<1> QED
  BY <1>1, <1>2, SchedulerWaiting, SleepWaiting, ForkWaiting, ForkFailWaiting,
     ForkReturnWaiting, ExitWaiting, WaitReapWaiting, WaitFailWaiting,
     WaitSleepWaiting, KillWaiting DEF Next

(* wait() loses no wakeup: exit() and kill() wake up whoever sleeps there  *)
(* for them, init included, which inherits the children of the dead.       *)
THEOREM ExitWakesParent == Spec => []WaiterIsTold
<1>1. Init => Waiting
  BY InitWaiting
<1>2. Inv /\ Waiting /\ [Next]_vars => Waiting'
  BY NextWaiting
<1>3. Waiting => WaiterIsTold
  BY DEF Waiting
<1> QED
  BY <1>1, <1>2, <1>3, Invariance, PTL DEF Spec
=============================================================================
