----------------------------- MODULE LineBuffer -----------------------------
(***************************************************************************)
(* What the console promises its readers: a line can be edited until it     *)
(* ends; characters come in order, none twice; a read stops at the end of   *)
(* a line, and the end-of-file mark is a result of its own.                 *)
(***************************************************************************)
EXTENDS Integers, Sequences, SequencesExt

CONSTANTS Letter, NewLine, EndMark, Capacity

VARIABLES ready, line

Mark == {NewLine, EndMark}

Init == ready = <<>> /\ line = <<>>

Type(c) ==
  LET all == Append(line, c) IN
  /\ Len(ready) + Len(line) < Capacity
  /\ IF c \in Mark \/ Len(ready) + Len(all) = Capacity
     THEN ready' = ready \o all /\ line' = <<>>
     ELSE line' = all /\ UNCHANGED ready

Erase == line # <<>> /\ line' = Front(line) /\ UNCHANGED ready
EraseAll == line' = <<>> /\ UNCHANGED ready

Take(k) ==
  /\ k \in 1..Len(ready)
  /\ \A i \in 1..(k - 1) : ready[i] \notin Mark
  /\ k > 1 => ready[k] # EndMark
  /\ ready' = SubSeq(ready, k + 1, Len(ready)) /\ UNCHANGED line

Next == (\E c \in Letter \cup Mark : Type(c)) \/ Erase \/ EraseAll \/ \E k \in 1..Capacity : Take(k)

Spec == Init /\ [][Next]_<<ready, line>>
=============================================================================
