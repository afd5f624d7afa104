------------------------------ MODULE MCRedoLog ------------------------------
(***************************************************************************)
(* A small instance of RedoLog.                                            *)
(***************************************************************************)
EXTENDS RedoLog

CONSTANTS p1, p2, b1, b2, v1, v2

MCProc == {p1, p2}
MCBlock == {b1, b2}
MCVal == {v1, v2}
=============================================================================
