----------------------------- MODULE ByteQueue -----------------------------
(***************************************************************************)
(* What a pipe promises: a bounded queue of bytes with a reading and a      *)
(* writing end.  A read returns the oldest bytes, and nothing only when     *)
(* there is nothing left and nobody can write any more.                     *)
(***************************************************************************)
EXTENDS Integers, Sequences

CONSTANTS Byte, Capacity, None

VARIABLES q, open, got

Init == q = <<>> /\ open = {} /\ got = None

New == open = {} /\ open' = {"r", "w"} /\ q' = <<>> /\ UNCHANGED got

Shut(e) ==
  /\ e \in open /\ open' = open \ {e}
  /\ IF open' = {} THEN q' = <<>> /\ got' = None ELSE UNCHANGED <<q, got>>

Add(s) ==
  /\ Len(q) + Len(s) <= Capacity /\ "w" \in open
  /\ q' = q \o s /\ UNCHANGED <<open, got>>

Take(n) ==
  /\ n \in 1..Len(q) /\ "r" \in open
  /\ got' = SubSeq(q, 1, n)
  /\ q' = SubSeq(q, n + 1, Len(q)) /\ UNCHANGED open

EndOfFile ==
  /\ q = <<>> /\ "w" \notin open
  /\ got' = <<>> /\ UNCHANGED <<q, open>>

Next ==
  \/ New
  \/ \E e \in {"r", "w"} : Shut(e)
  \/ \E n \in 1..Capacity : \E s \in [1..n -> Byte] : Add(s)
  \/ EndOfFile \/ \E n \in 1..Capacity : Take(n)

Spec == Init /\ [][Next]_<<q, open, got>>
=============================================================================
