-------------------------------- MODULE Parts --------------------------------
(***************************************************************************)
(* Parts with theorems, side by side: the contents of files on disk blocks    *)
(* (FileBlocks, by EXTENDS), spin locks (Spinlock) and the heap of a program  *)
(* (UserAlloc).  They share no state.                                       *)
(***************************************************************************)
EXTENDS FileBlocks

CONSTANTS
  Cpu, NLock, Depth, Free,
  MaxBrk, Chunk, Requests

VARIABLES
  owner, ifl, ncli, intena, at, eflags, want, saved,          \* Spinlock
  ptr, size, freep, brk, used                                 \* UserAlloc

Locks == INSTANCE Spinlock WITH pc <- at
Heap == INSTANCE UserAlloc

ASSUME LocksAssumption == Locks!SpinlockAssumption
ASSUME HeapLimits == Heap!HeapAssumption

lockVars == <<owner, ifl, ncli, intena, at, eflags, want, saved>>
heapVars == <<ptr, size, freep, brk, used>>

(* spinlock.c:27: "disable interrupts to avoid deadlock".  No handler ever   *)
(* runs on a CPU that holds a lock or spins for one, no panic of the lock     *)
(* code is reached, and the last release leaves interrupts as they were       *)
(* before the first acquire.                                                *)
LocksAreQuiet == Locks!LocksAreQuiet

(* umalloc.c:25-90.  The blocks on the free list and those given out are the  *)
(* heap, without overlap or gap; free neighbours are joined; the list has    *)
(* one wrap, at base.                                                      *)
HeapPartition == Heap!HeapPartition
=============================================================================
