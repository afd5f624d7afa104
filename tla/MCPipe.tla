------------------------------- MODULE MCPipe -------------------------------
(***************************************************************************)
(* A pipe of two bytes whose writes never fit, with counters that wrap at    *)
(* four, under up to three processes with two descriptors an end; and a      *)
(* console with a ring of three characters, counters that wrap at six and    *)
(* two readers.                                                             *)
(***************************************************************************)
EXTENDS Rings, TLC

CONSTANTS p1, p2, p3, b1, b2, char1, char2

MCProc == {p1, p2, p3}
MCByte == {b1, b2}
MCStrings == {<<b1, b2, b1>>}
MCReadSizes == {2}
MCReader == {p2, p3}
MCLetter == {char1, char2}
MCLengths == {1, 3}

(* When all three run, they share the pipe as a shell leaves it: one         *)
(* descriptor an end, one for the process that called pipe(), and at most    *)
(* one is killed or exits at a time.  That still lets two sleep on either    *)
(* channel; two processes do everything.                                   *)
MCNarrow ==
  (\A p \in Proc : pc[p] # "unused") =>
    /\ \A p \in Proc, e \in End : fd[p][e] <= 1
    /\ fd[first]["r"] + fd[first]["w"] <= 1
    /\ Cardinality({p \in Proc : killed[p] \/ pc[p] = "exit"}) <= 1

MCSymmetry == Permutations({p2, p3})
=============================================================================
