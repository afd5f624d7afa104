------------------------------ MODULE MCParts ------------------------------
(***************************************************************************)
(* Six parts of the kernel and its programs that share no state, checked     *)
(* in one run: part names the one that moves.  Files, spin locks and the     *)
(* heap come with Parts, for their theorems; the others are instances.      *)
(***************************************************************************)
EXTENDS Parts, TLC

CONSTANTS c0, c1, proc1, proc2

VARIABLES
  part,
  ticks, state, policy, i, firstSec, endbaSec,                \* FgBgScheduler
  does, cmd, fd, parent, behind,                              \* Shell
  input, re, source, text, line, printed                      \* Grep

MCCpu == {c0, c1}
MCProc == {proc1, proc2}
MCFile == {1, 2}
MCSizes == {3}
MCRequests == {2, 3, 5}

schedVars == <<ticks, state, policy, i, firstSec, endbaSec>>
shellVars == <<does, cmd, fd, parent, behind>>
grepVars == <<input, re, source, text, line, printed>>
all == <<part, lockVars, schedVars, heapVars, vars, shellVars, grepVars>>

Sched == INSTANCE FgBgScheduler WITH NProc <- 2, MaxTicks <- 20

(* Both ends of pipes that nobody reads or writes, three programs in a row,  *)
(* lists, redirections, background commands, and lines with faults.          *)
MCLines == {
  <<"reader", "|", "reader">>, <<"writer", "|", "plain">>,
  <<"plain", "|", "filter", "|", "reader">>, <<"writer", "|", "(", "plain", ";", "plain", ")">>,
  <<"(", "plain", "&", ")", "|", "reader", ">", "f">>, <<"plain", "<", "f", ";", "reader">>,
  <<"plain", ";">>, <<"plain", "|", ")">>}
Sh == INSTANCE Shell WITH Lines <- MCLines, NProc <- 7, MaxJob <- 5, NOFILE <- 6, pc <- does

(* Every operator where it is one and where it is a letter.                 *)
MCPatterns == {
  <<>>, <<"a">>, <<"^", "a">>, <<"a", "$">>, <<"a", "*">>, <<"a", "*", "b">>, <<"^", "a", "*", "$">>,
  <<"^", "b", ".", "*", "a">>, <<"$", "a">>, <<"*">>, <<"^", ".", "*", ".", "$">>, <<"$", "*">>}
Lines == INSTANCE Grep WITH
  Letter <- {"a", "b"}, NL <- "nl", MaxInput <- 5, Patterns <- MCPatterns,
  Sources <- {"file", "console"}, BufSize <- 4, buf <- line

MCInit ==
  /\ part \in {"locks", "scheduler", "heap", "files", "shell", "grep"}
  /\ Init /\ Locks!Init /\ Heap!Init /\ Sh!Init
  /\ Lines!Init /\ (part = "grep" \/ (input = <<>> /\ re = <<>> /\ source = "file"))
  /\ Sched!Init /\ (part = "scheduler" \/ policy = [x \in 1..2 |-> 0])

MCNext ==
  \/ /\ part = "locks" /\ Locks!Next
     /\ UNCHANGED <<part, schedVars, heapVars, vars, shellVars, grepVars>>
  \/ /\ part = "scheduler" /\ Sched!Next
     /\ UNCHANGED <<part, lockVars, heapVars, vars, shellVars, grepVars>>
  \/ /\ part = "heap" /\ Heap!Next
     /\ UNCHANGED <<part, lockVars, schedVars, vars, shellVars, grepVars>>
  \/ /\ part = "files" /\ Next
     /\ UNCHANGED <<part, lockVars, schedVars, heapVars, shellVars, grepVars>>
  \/ /\ part = "shell" /\ Sh!Next
     /\ UNCHANGED <<part, lockVars, schedVars, heapVars, vars, grepVars>>
  \/ /\ part = "grep" /\ Lines!Next
     /\ UNCHANGED <<part, lockVars, schedVars, heapVars, vars, shellVars>>

(* Only the part that moves is treated fairly: Sched!Fairness and            *)
(* Sh!Fairness, each while it is its turn.                                  *)
ShellMoves(x) == part = "shell" /\ Sh!Step(x)
MCSpec ==
  /\ MCInit /\ [][MCNext]_all
  /\ WF_schedVars(part = "scheduler" /\ Sched!Pass)
  /\ WF_schedVars(part = "scheduler" /\ Sched!Choose)
  /\ WF_schedVars(part = "scheduler" /\ Sched!Tick)
  /\ \A x \in 1..7 : WF_shellVars(ShellMoves(x))

ShellWaits == Sh!ShellWaits
NoStarvation == \A x \in 1..2 : (part = "scheduler" /\ state[x] = "runnable") ~> state[x] = "running"
MatchingLinesPrinted == Lines!MatchingLinesPrinted
=============================================================================
