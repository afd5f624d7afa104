------------------------------ MODULE MCBlocks ------------------------------
(***************************************************************************)
(* A small instance of the buffer cache and of the undo log.               *)
(***************************************************************************)
EXTENDS Blocks, TLC

CONSTANTS p1, p2, b1, b2, b3, k1, k2, k3, k4, u1, u2, u3, v1

MCProc == {p1, p2}
MCBuf == {b1, b2, b3}
MCBlock == {k1, k2, k3, k4}
MCLogged == {u1, u2, u3}
MCVal == {v0, v1}
MCSymmetry == Permutations(MCBlock) \cup Permutations(MCLogged) \cup Permutations(MCProc)
=============================================================================
