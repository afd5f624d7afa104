------------------------------ MODULE SwapAlone ------------------------------
(***************************************************************************)
(* What page swapping promises to a process that shares no page: alone says *)
(* whether fork() ever succeeds.  The code keeps these promises only then:   *)
(* a page of a zombie that is evicted leaves its slot to nobody, and a page  *)
(* that was shared comes back from its slot writable for all its users.     *)
(***************************************************************************)
EXTENDS SwapMemory

VARIABLE alone

aloneVars == <<alone, vars>>

AloneInit == alone \in BOOLEAN /\ Init
AloneNext == Next /\ UNCHANGED alone /\ (alone => UNCHANGED state)
AloneSpec == AloneInit /\ [][AloneNext]_aloneVars

(* pageswap.c:253.  A slot in use is needed by the process, or by a swap_in() *)
(* under way: slots never run out.                                          *)
NoSlotLost ==
  alone => \A s \in Slot : \/ slotfree[s] \/ Holders(s) # {}
                           \/ \E p \in Proc : pc[p] # "user" /\ loc[p].slot = s

(* What the process sees of its memory; a constant for one that may fork.   *)
ownUser == IF alone THEN InUser ELSE [p \in Proc |-> TRUE]
ownImage == IF alone THEN Image ELSE [p \in Proc |-> IF p = First THEN <<Zero>> ELSE <<>>]

(* pageswap.c:202-255.  Eviction and swapping in cannot be observed: the     *)
(* process has a memory of its own.                                         *)
Private == INSTANCE PrivateMemory WITH user <- ownUser, image <- ownImage
PrivateSpec == Private!Spec
=============================================================================
