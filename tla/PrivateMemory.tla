---------------------------- MODULE PrivateMemory ----------------------------
(***************************************************************************)
(* What user programs may assume of their memory: every process has pages  *)
(* of its own, fork() gives the child a copy of the parent's, nothing a    *)
(* process does changes the pages of another, and the kernel changes none  *)
(* on its way through a system call or a page fault.                       *)
(***************************************************************************)
EXTENDS Naturals, Sequences

CONSTANTS Proc, Val, Zero, MaxPages, First

VARIABLES
  image,  \* image[p]: the pages process p sees, <<>> when p has none
  user    \* user[p]: p executes its program, not the kernel

NewImages == {[i \in 1 .. n |-> Zero] : n \in 1 .. MaxPages}

Init ==
  \E v \in NewImages : image = [p \in Proc |-> IF p = First THEN v ELSE <<>>]

(* Only the program writes; everything below is done by the kernel.        *)
Write(p, i, v) ==
  /\ user[p] /\ i \in DOMAIN image[p]
  /\ image' = [image EXCEPT ![p][i] = v]

Fork(p, c) ==
  /\ image[p] # <<>> /\ image[c] = <<>>
  /\ image' = [image EXCEPT ![c] = image[p]]

Grow(p) ==
  /\ Len(image[p]) \in 1 .. MaxPages - 1
  /\ image' = [image EXCEPT ![p] = Append(@, Zero)]

Shrink(p) ==
  /\ Len(image[p]) > 1
  /\ image' = [image EXCEPT ![p] = SubSeq(@, 1, Len(@) - 1)]

Exec(p) ==
  /\ image[p] # <<>>
  /\ \E v \in NewImages : image' = [image EXCEPT ![p] = v]

Exit(p) ==
  /\ image[p] # <<>>
  /\ image' = [image EXCEPT ![p] = <<>>]

EnterOrLeaveKernel == image' = image

Kernel(p) ==
  \/ EnterOrLeaveKernel \/ Grow(p) \/ Shrink(p) \/ Exec(p) \/ Exit(p)
  \/ \E c \in Proc : Fork(p, c)

Next ==
  \/ user' \in [Proc -> BOOLEAN] /\ \E p \in Proc : Kernel(p)
  \/ user' = user /\ \E p \in Proc, i \in 1 .. MaxPages, v \in Val : Write(p, i, v)

Spec == Init /\ user \in [Proc -> BOOLEAN] /\ [][Next]_<<image, user>>
=============================================================================
