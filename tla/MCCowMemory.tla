----------------------------- MODULE MCCowMemory -----------------------------
(***************************************************************************)
(* Small instances of CowMemory.                                           *)
(***************************************************************************)
EXTENDS CowMemory, TLC

CONSTANTS p1, p2, p3, d1, d2, d3, g1, g2, g3, g4, v0, v1

MCProc2 == {p1, p2}
MCProc3 == {p1, p2, p3}
MCPgdir == {d1, d2, d3}
MCPage4 == {g1, g2, g3, g4}
MCVal == {v0, v1}
MCChild == {p2}

(* Three processes of one page, or two of two pages.                       *)
MCNarrow == (\A p \in Proc : sz[p] <= 1) \/ state[p3] = "unused"

(* Page directories and physical pages are interchangeable.                *)
MCSymmetry == Permutations(MCPgdir) \cup Permutations(MCPage4)
=============================================================================
