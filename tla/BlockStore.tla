----------------------------- MODULE BlockStore -----------------------------
(***************************************************************************)
(* What bread(), log_write(), bwrite() and brelse() promise their callers   *)
(* while the machine stays up: every block is one cell with one owner at a  *)
(* time, and only its owner changes it.                                    *)
(***************************************************************************)
CONSTANTS Block, Val, Proc, Free, v0

VARIABLES content, owner

Init == content = [k \in Block |-> v0] /\ owner = [k \in Block |-> Free]

Take(p, k) ==
  /\ owner[k] = Free
  /\ owner' = [owner EXCEPT ![k] = p] /\ UNCHANGED content

Put(p, k, v) ==
  /\ owner[k] = p
  /\ content' = [content EXCEPT ![k] = v] /\ UNCHANGED owner

Give(p, k) ==
  /\ owner[k] = p
  /\ owner' = [owner EXCEPT ![k] = Free] /\ UNCHANGED content

Next == \E p \in Proc, k \in Block : Take(p, k) \/ Give(p, k) \/ \E v \in Val : Put(p, k, v)

Spec == Init /\ [][Next]_<<content, owner>>
=============================================================================
