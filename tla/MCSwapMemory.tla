---------------------------- MODULE MCSwapMemory ----------------------------
(***************************************************************************)
(* SwapMemory on three frames and three slots: a lone process with one page  *)
(* more than there are frames, whose accesses all go through eviction, or    *)
(* two processes that share pages and want more frames together than there   *)
(* are.                                                                     *)
(***************************************************************************)
EXTENDS SwapAlone

CONSTANTS v0, v1

MCProc == {1, 2}
MCVal == {v0, v1}

(* Bounds of the second case: pages of a process, slots in use.            *)
MaxShared == 2
MaxSlots == 2

MCNext ==
  /\ AloneNext
  /\ ~alone => /\ \A p \in Proc : loc'[p].why = "grow" => loc'[p].i < MaxShared
               /\ mem' \in [Page -> {Zero}]
               /\ \A s \in Slot : s >= MaxSlots => slotfree'[s]
MCSpec == AloneInit /\ [][MCNext]_aloneVars
=============================================================================
