------------------------------ MODULE UndoLog ------------------------------
(***************************************************************************)
(* The undo log of lab2-undo-logging (log.c, bread_wr() in bio.c).  Before *)
(* a block is modified its contents go to the next log slot; commit()      *)
(* writes the header, then the blocks at home, then an empty header.       *)
(*                                                                         *)
(* That kernel has one thread of control and begin_op() is empty, so a     *)
(* system call is a sequence of bread_wr(), log_write() and brelse().  The *)
(* machine may stop between any two of them and between any two disk       *)
(* writes; PANIC_1 .. PANIC_5 stop it at some of these points.             *)
(***************************************************************************)
EXTENDS Integers, Sequences, FiniteSets, SequencesExt

CONSTANTS
  Block,    \* blocks that system calls modify
  Val, Zero,
  LogSize,  \* LOGSIZE
  NLog,     \* sb.nlog: the header and NLog - 1 slots
  MaxHeld   \* how many blocks a call holds at once: bmap() holds the
            \* indirect block while balloc() modifies others

(* A call modifies at most MAXOPBLOCKS blocks, a third of the log, and     *)
(* commits at its end: log_write() does not panic, and bread_wr() finds a  *)
(* slot.  To be assumed by who instantiates the module.                    *)
LogIsLarge ==
  /\ Zero \in Val /\ MaxHeld \in Nat \ {0}
  /\ LogSize \in Nat /\ NLog \in Nat
  /\ IsFiniteSet(Block)
  /\ Cardinality(Block) < LogSize /\ Cardinality(Block) < NLog - 1

VARIABLES
  disk,    \* home blocks
  slot,    \* log slots
  head,    \* log header on disk: the blocks it names
  lh,      \* log.lh
  cache,   \* what bread() of a home block returns
  held,    \* blocks between bread_wr() and brelse(), innermost last
  pc, tail,
  before   \* what the home blocks were when the log was last cleared

vars == <<disk, slot, head, lh, cache, held, pc, tail, before>>

Slot == 1 .. NLog - 1

Init ==
  /\ disk = [b \in Block |-> Zero]
  /\ slot = [i \in Slot |-> Zero]
  /\ head = <<>> /\ lh = <<>>
  /\ cache = disk
  /\ held = <<>>
  /\ pc = "boot" /\ tail = 1
  /\ before = disk

-----------------------------------------------------------------------------
(* System calls.                                                           *)

(* bread_wr(): save the contents in the slot the block will get.           *)
BreadWr(b) ==
  /\ pc = "op" /\ Len(held) < MaxHeld /\ ~Contains(held, b)
  /\ slot' = [slot EXCEPT ![Len(lh) + 1] = cache[b]]
  /\ held' = Append(held, b)
  /\ UNCHANGED <<disk, head, lh, cache, pc, tail, before>>

(* The call modifies the block it read last, log_write() and brelse().     *)
LogWrite(v) ==
  /\ pc = "op" /\ held # <<>>
  /\ cache' = [cache EXCEPT ![Last(held)] = v]
  /\ lh' = IF Contains(lh, Last(held)) THEN lh ELSE Append(lh, Last(held))
  /\ held' = Front(held)
  /\ UNCHANGED <<disk, slot, head, pc, tail, before>>

(* ialloc() and itrunc() release blocks they did not modify.               *)
Brelse ==
  /\ pc = "op" /\ held # <<>>
  /\ held' = Front(held)
  /\ UNCHANGED <<disk, slot, head, lh, cache, pc, tail, before>>

-----------------------------------------------------------------------------
(* end_op(): commit()                                                      *)

(* Faulty: commit() leaves the header for later.                           *)
WriteHeadNot ==
  /\ pc = "op" /\ held = <<>> /\ lh # <<>>
  /\ pc' = "install" /\ tail' = 1
  /\ UNCHANGED <<disk, slot, head, lh, cache, held, before>>

WriteHead ==
  /\ pc = "op" /\ held = <<>> /\ lh # <<>>
  /\ head' = lh
  /\ pc' = "install" /\ tail' = 1
  /\ UNCHANGED <<disk, slot, lh, cache, held, before>>

(* install_trans() writes the block at home with the contents that bread() *)
(* returns; the line that copied the log slot into it is commented out.    *)
InstallBlock ==
  /\ pc \in {"install", "undo"} /\ tail <= Len(lh)
  /\ disk' = [disk EXCEPT ![lh[tail]] = cache[lh[tail]]]
  /\ tail' = tail + 1
  /\ UNCHANGED <<slot, head, lh, cache, held, pc, before>>

Installed ==
  /\ pc \in {"install", "undo"} /\ tail > Len(lh)
  /\ pc' = IF pc = "install" THEN "erase" ELSE "clear"
  /\ UNCHANGED <<disk, slot, head, lh, cache, held, tail, before>>

Erase ==
  /\ pc \in {"erase", "clear"}
  /\ lh' = <<>> /\ head' = <<>>
  /\ pc' = "op"
  /\ before' = disk
  /\ UNCHANGED <<disk, slot, cache, held, tail>>

-----------------------------------------------------------------------------
(* The machine stops; initlog() runs at the next boot.                     *)

Crash ==
  /\ cache' = disk
  /\ lh' = <<>> /\ held' = <<>>
  /\ pc' = "boot" /\ tail' = 1
  /\ UNCHANGED <<disk, slot, head, before>>

ReadHead ==
  /\ pc = "boot"
  /\ lh' = head
  /\ pc' = "undo" /\ tail' = 1
  /\ UNCHANGED <<disk, slot, head, cache, held, before>>

Next ==
  \/ \E b \in Block : BreadWr(b)
  \/ \E v \in Val : LogWrite(v)
  \/ Brelse \/ WriteHead \/ InstallBlock \/ Installed \/ Erase
  \/ Crash \/ ReadHead

Spec == Init /\ [][Next]_vars

-----------------------------------------------------------------------------
(* Whenever the machine stops, the header on disk names every block that   *)
(* differs from what it was before the transaction.                        *)
ChangesAreNamed == \A b \in Block : disk[b] # before[b] => Contains(head, b)

(* No system call starts while the header names blocks of an earlier one:  *)
(* recovery would undo what has been committed.                            *)
CallsStartClean == pc = "op" => head = <<>>

(* Recovery leaves the disk as it was before the transaction that was cut  *)
(* short.                                                                  *)
RecoveryUndoes == pc = "clear" => disk = before

(* Every block that the header names has its old contents in its slot.     *)
OldValuesSaved == \A i \in 1 .. Len(head) : slot[i] = before[head[i]]
=============================================================================
