------------------------------ MODULE Spinlock ------------------------------
(***************************************************************************)
(* Spin locks with interrupts (spinlock.c): acquire() and release() are     *)
(* built from pushcli(), an atomic exchange and popcli().  Interrupts come   *)
(* in wherever the CPU lets them and their handlers take locks too.  A CPU   *)
(* asks for a lock only above all it holds, which is the kernel's order.    *)
(***************************************************************************)
EXTENDS Integers, FiniteSets, Sequences, SequencesExt

CONSTANTS
  Cpu,
  NLock,         \* locks, numbered in the order they are taken
  Depth,         \* bound on nested interrupts
  Free

(* What is asked of the constants.                                        *)
SpinlockAssumption == NLock \in Nat \ {0} /\ Depth \in Nat /\ Free \notin Cpu

VARIABLES
  owner,         \* lk->locked and lk->cpu of each lock
  ifl,           \* the CPU's interrupt flag
  ncli, intena,  \* its struct cpu
  pc,            \* what its kernel code does: "run", "cli", "spin", "pop" or "panic"
  eflags,        \* what pushcli() read
  want,          \* the lock acquire() is called for
  saved          \* the interrupted code, innermost last

vars == <<owner, ifl, ncli, intena, pc, eflags, want, saved>>
Lock == 1..NLock
Held(c) == {l \in Lock : owner[l] = c}

TypeOK ==
  /\ owner \in [Lock -> Cpu \cup {Free}]
  /\ ifl \in [Cpu -> BOOLEAN] /\ ncli \in [Cpu -> Int] /\ intena \in [Cpu -> BOOLEAN]
  /\ pc \in [Cpu -> {"run", "cli", "spin", "pop", "panic"}]
  /\ eflags \in [Cpu -> BOOLEAN] /\ want \in [Cpu -> Lock]
  /\ saved \in [Cpu -> Seq([pc : {"run", "cli"}, eflags : BOOLEAN, want : Lock])]

Init ==
  /\ owner = [l \in Lock |-> Free]
  /\ ifl = [c \in Cpu |-> TRUE] /\ ncli = [c \in Cpu |-> 0] /\ intena = [c \in Cpu |-> FALSE]
  /\ pc = [c \in Cpu |-> "run"] /\ eflags = [c \in Cpu |-> FALSE] /\ want = [c \in Cpu |-> 1]
  /\ saved = [c \in Cpu |-> <<>>]

Goto(c, s) == pc' = [pc EXCEPT ![c] = s]

(* acquire(): pushcli() reads eflags, and interrupts come in until cli().   *)
Acquire(c, l) ==
  /\ pc[c] = "run" /\ \A h \in Held(c) : h < l
  /\ want' = [want EXCEPT ![c] = l]
  /\ eflags' = [eflags EXCEPT ![c] = ifl[c]]
  /\ Goto(c, "cli")
  /\ UNCHANGED <<owner, ifl, ncli, intena, saved>>

(* Faulty: a nested pushcli() overwrites what popcli() will restore.        *)
Outermost(k) == TRUE

FirstCli(k) == k = 0

Cli(c) ==
  /\ pc[c] = "cli"
  /\ ifl' = [ifl EXCEPT ![c] = FALSE]
  /\ intena' = [intena EXCEPT ![c] = IF FirstCli(ncli[c]) THEN eflags[c] ELSE @]
  /\ ncli' = [ncli EXCEPT ![c] = @ + 1]
  /\ Goto(c, IF want[c] \in Held(c) THEN "panic" ELSE "spin")
  /\ UNCHANGED <<owner, eflags, want, saved>>

Xchg(c) ==
  /\ pc[c] = "spin" /\ owner[want[c]] = Free
  /\ owner' = [owner EXCEPT ![want[c]] = c]
  /\ Goto(c, "run")
  /\ UNCHANGED <<ifl, ncli, intena, eflags, want, saved>>

(* release(), in any order, and then popcli().                             *)
Release(c, l) ==
  /\ pc[c] = "run" /\ l \in Held(c)
  /\ owner' = [owner EXCEPT ![l] = Free]
  /\ Goto(c, "pop")
  /\ UNCHANGED <<ifl, ncli, intena, eflags, want, saved>>

Popcli(c) ==
  /\ pc[c] = "pop"
  /\ IF ifl[c] \/ ncli[c] < 1
     THEN Goto(c, "panic") /\ UNCHANGED <<ifl, ncli>>
     ELSE /\ ncli' = [ncli EXCEPT ![c] = @ - 1]
          /\ ifl' = [ifl EXCEPT ![c] = ncli[c] = 1 /\ intena[c]]
          /\ Goto(c, "run")
  /\ UNCHANGED <<owner, intena, eflags, want, saved>>

(* An interrupt gate clears the flag, and iret restores it.                 *)
Interrupt(c) ==
  /\ ifl[c] /\ pc[c] # "panic" /\ Len(saved[c]) < Depth
  /\ saved' = [saved EXCEPT ![c] = Append(@, [pc |-> pc[c], eflags |-> eflags[c], want |-> want[c]])]
  /\ ifl' = [ifl EXCEPT ![c] = FALSE]
  /\ Goto(c, "run")
  /\ UNCHANGED <<owner, ncli, intena, eflags, want>>

Iret(c) ==
  /\ pc[c] = "run" /\ Held(c) = {} /\ saved[c] # <<>>
  /\ LET s == Last(saved[c]) IN
     /\ Goto(c, s.pc)
     /\ eflags' = [eflags EXCEPT ![c] = s.eflags]
     /\ want' = [want EXCEPT ![c] = s.want]
  /\ saved' = [saved EXCEPT ![c] = Front(@)]
  /\ ifl' = [ifl EXCEPT ![c] = TRUE]
  /\ UNCHANGED <<owner, ncli, intena>>

Next ==
  \E c \in Cpu :
    \/ \E l \in Lock : Acquire(c, l) \/ Release(c, l)
    \/ Cli(c) \/ Xchg(c) \/ Popcli(c) \/ Interrupt(c) \/ Iret(c)

Spec == Init /\ [][Next]_vars

(* spinlock.c:27: "disable interrupts to avoid deadlock".  No handler ever   *)
(* runs on a CPU that holds a lock or spins for one, however calls and       *)
(* interrupts nest, no panic() of spinlock.c is reached, and when the last   *)
(* lock is released interrupts are as they were before the first.           *)
LocksAreQuiet ==
  \A c \in Cpu :
    /\ pc[c] # "panic"
    /\ Held(c) # {} \/ pc[c] = "spin" => ~ifl[c]
    /\ pc[c] = "run" /\ Held(c) = {} => ncli[c] = 0 /\ ifl[c] = (saved[c] = <<>>)
=============================================================================
