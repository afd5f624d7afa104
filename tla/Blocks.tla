------------------------------- MODULE Blocks -------------------------------
(***************************************************************************)
(* What lies under the file system of the two kernels, side by side: the    *)
(* buffer cache with its disk driver (BufferCache, by EXTENDS), or the undo *)
(* log of lab 2 (UndoLog) on blocks of its own.  undo tells which one runs. *)
(***************************************************************************)
EXTENDS BufferCache

CONSTANTS
  Logged,   \* the blocks that the undo log protects
  LogSize, NLog, MaxHeld

VARIABLES undo, home, slot, head, lh, cache, held, at, tail, before

Undo == INSTANCE UndoLog WITH
  Block <- Logged, Zero <- v0, disk <- home, pc <- at

ASSUME UndoLogIsLarge == Undo!LogIsLarge

undoVars == <<home, slot, head, lh, cache, held, at, tail, before>>

BlocksInit == undo \in BOOLEAN /\ Init /\ Undo!Init
BlocksNext ==
  \/ ~undo /\ Next /\ UNCHANGED <<undo, undoVars>>
  \/ undo /\ Undo!Next /\ UNCHANGED <<undo, vars>>
BlocksSpec == BlocksInit /\ [][BlocksNext]_<<undo, vars, undoVars>>

(* lab2-undo-logging/log.c:105-122.  Whenever the machine stops, the header   *)
(* on disk names every block that differs from what it was before.           *)
ChangesAreNamed == Undo!ChangesAreNamed
=============================================================================
