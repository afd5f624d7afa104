---------------------------- MODULE MCProcTable ----------------------------
(***************************************************************************)
(* A small instance of ProcTable: four entries, three generations below     *)
(* init, and two CPUs.                                                      *)
(***************************************************************************)
EXTENDS ProcTable, TLC

CONSTANTS init, p1, p2, p3, c0, c1

MCProc4 == {init, p1, p2, p3}
MCCpu == {c0, c1}

(* The second CPU rests while all four entries are in use.                  *)
MCNarrow ==
  \/ \E p \in Proc : state[p] = "unused" /\ ~killed[p]
  \/ on[c1] = NoProc /\ lock # c1 /\ intr[c1] = "none"

(* Nothing tells one entry from another but the process it was forked by.  *)
MCSymmetry == Permutations({p1, p2, p3})
=============================================================================
