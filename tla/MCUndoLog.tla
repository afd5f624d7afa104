----------------------------- MODULE MCUndoLog -----------------------------
(***************************************************************************)
(* A small instance of UndoLog.                                            *)
(***************************************************************************)
EXTENDS UndoLog, TLC

CONSTANTS b1, b2, b3, v0, v1

MCBlock == {b1, b2, b3}
MCVal == {v0, v1}
MCSymmetry == Permutations(MCBlock)
=============================================================================
