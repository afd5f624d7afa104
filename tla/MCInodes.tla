------------------------------ MODULE MCInodes ------------------------------
(***************************************************************************)
(* Small instances of Inodes.                                              *)
(***************************************************************************)
EXTENDS Inodes, TLC

CONSTANTS p1, p2, nd, nx

Call(op, path, new) == [op |-> op, rel |-> FALSE, path |-> path, new |-> new]
Here(op, path) == [op |-> op, rel |-> TRUE, path |-> path, new |-> <<>>]

MCProc == {p1, p2}
MCName == {nd, nx}

MCCalls ==
  {Here("mkdir", <<nd>>), Here("create", <<nx>>), Call("open", <<nd>>, <<>>),
   Call("link", <<nx>>, <<nd, nx>>), Call("link", <<nd>>, <<nx>>), Call("unlink", <<nd>>, <<>>),
   Here("unlink", <<nd>>), Here("unlink", <<nx>>),
   Call("chdir", <<nd>>, <<>>), Call("close", <<>>, <<>>)}

MCSymmetry == Permutations(MCProc)
=============================================================================
