------------------------------- MODULE Shell -------------------------------
(***************************************************************************)
(* The shell (sh.c): its parser, and the processes of runcmd() with their    *)
(* descriptors.  A pipe gives end of file to its readers, and an error to    *)
(* its writers, when no descriptor of the other end is left (Pipe), so the   *)
(* prompt comes back only if everybody closes what he does not use.          *)
(*                                                                         *)
(* A run of system calls without a wait that only touch the caller's         *)
(* descriptors is one step.                                                 *)
(***************************************************************************)
EXTENDS Integers, Sequences, FiniteSets, FiniteSetsExt, SequencesExt

CONSTANTS
  Lines,         \* what the user types, as sequences of tokens
  NProc,         \* processes: entries 1..NProc, of which 1 is the shell
  MaxJob,        \* processes a line needs at most
  NOFILE, None

VARIABLES
  pc,            \* what a process does; "unused" without one
  cmd,           \* the command it interprets
  fd,            \* its descriptors: 0 is its input and 1 its output
  parent,
  behind         \* it was started with "&"

vars == <<pc, cmd, fd, parent, behind>>
Entry == 1..NProc
Fd == 0..(NOFILE - 1)
Shell == 1
Nobody == 0      \* init, which waits for its children at all times

-----------------------------------------------------------------------------
(* The parser.  A function of it returns the command and the tokens that     *)
(* follow; panic() ends the process, whatever has been parsed.               *)

Panic == [type |-> "PANIC"]
Result(c, rest) == [cmd |-> c, rest |-> rest]
Peek(s, toks) == s # <<>> /\ Head(s) \in toks

Execcmd(prog) == [type |-> "EXEC", prog |-> prog]
Redircmd(c, n) == IF c = Panic THEN Panic ELSE [type |-> "REDIR", cmd |-> c, fd |-> n]
Backcmd(c) == IF c = Panic THEN Panic ELSE [type |-> "BACK", cmd |-> c]
Binary(type, left, right) ==
  IF Panic \in {left, right} THEN Panic ELSE [type |-> type, left |-> left, right |-> right]

Symbols == {"|", "&", ";", "<", ">", ">>", "(", ")"}

(* ">>" opens the file like ">".                                           *)
RECURSIVE Parseredirs(_, _)
Parseredirs(c, s) ==
  IF ~Peek(s, {"<", ">", ">>"}) THEN Result(c, s)
  ELSE IF Len(s) = 1 \/ s[2] \in Symbols THEN Result(Panic, <<>>)
  ELSE Parseredirs(Redircmd(c, IF Head(s) = "<" THEN 0 ELSE 1), SubSeq(s, 3, Len(s)))

RECURSIVE Parseline(_), Parsepipe(_), Parseexec(_), Arguments(_, _, _), Ampersands(_, _)

Ampersands(c, s) ==
  IF Peek(s, {"&"}) THEN Ampersands(Backcmd(c), Tail(s)) ELSE Result(c, s)

Parseline(s) ==
  LET pipe == Parsepipe(s)
      first == Ampersands(pipe.cmd, pipe.rest)
      more == Parseline(Tail(first.rest))
  IN IF Peek(first.rest, {";"}) THEN Result(Binary("LIST", first.cmd, more.cmd), more.rest)
     ELSE first

Parsepipe(s) ==
  LET left == Parseexec(s)
      right == Parsepipe(Tail(left.rest))
  IN IF Peek(left.rest, {"|"}) THEN Result(Binary("PIPE", left.cmd, right.cmd), right.rest)
     ELSE left

(* parseblock() after "(", or a program with its arguments.                 *)
Parseexec(s) ==
  IF Peek(s, {"("})
  THEN LET block == Parseline(Tail(s)) IN
       IF Peek(block.rest, {")"}) THEN Parseredirs(block.cmd, Tail(block.rest))
       ELSE Result(Panic, <<>>)
  ELSE LET redirs == Parseredirs(Execcmd(None), s)
       IN Arguments(None, redirs.cmd, redirs.rest)

(* The redirections stand around the program, whose name is put in last.     *)
RECURSIVE Named(_, _)
Named(c, prog) ==
  CASE c = Panic -> Panic
    [] c.type = "EXEC" -> Execcmd(prog)
    [] c.type = "REDIR" -> [c EXCEPT !.cmd = Named(@, prog)]

Arguments(prog, c, s) ==
  IF s = <<>> \/ Peek(s, {"|", ")", "&", ";"}) THEN Result(Named(c, prog), s)
  ELSE IF Head(s) \in Symbols THEN Result(Panic, <<>>)
  ELSE LET redirs == Parseredirs(c, Tail(s))
       IN Arguments(IF prog = None THEN Head(s) ELSE prog, redirs.cmd, redirs.rest)

Parsecmd(s) ==
  LET line == Parseline(s) IN IF line.rest # <<>> THEN Panic ELSE line.cmd

-----------------------------------------------------------------------------
(* System calls.                                                           *)

Unused == {p \in Entry : pc[p] = "unused"}
Children(p) == {q \in Entry : parent[q] = p /\ pc[q] # "unused"}
Lowest(t) == Min({n \in Fd : t[n] = None})
Dup(t, n) == [t EXCEPT ![Lowest(t)] = t[n]]
CloseAll(t, fds) == [n \in Fd |-> IF n \in fds THEN None ELSE t[n]]
Holds(q, end) == \E n \in Fd : fd[q][n] = end

PipeEnd(i, e) == [pipe |-> i, end |-> e]
NoPipe == PipeEnd(0, "both")     \* the console, or a file
NewPipe == CHOOSE i \in Entry : \A q \in Entry, e \in {"r", "w"} : ~Holds(q, PipeEnd(i, e))

Init ==
  /\ pc = [p \in Entry |-> IF p = Shell THEN "prompt" ELSE "unused"]
  /\ cmd = [p \in Entry |-> None]
  /\ fd = [p \in Entry |-> [n \in Fd |-> IF p = Shell /\ n < 3 THEN NoPipe ELSE None]]
  /\ parent = [p \in Entry |-> Nobody]
  /\ behind = [p \in Entry |-> FALSE]

(* fork1(): the child has the caller's descriptors; it begins at start, and  *)
(* the caller goes on at next.                                              *)
Fork(p, start, c, next, back) ==
  /\ Unused # {}
  /\ LET q == Min(Unused) IN
     /\ pc' = [pc EXCEPT ![p] = next, ![q] = start]
     /\ cmd' = [cmd EXCEPT ![q] = c]
     /\ fd' = [fd EXCEPT ![q] = fd[p]]
     /\ parent' = [parent EXCEPT ![q] = p]
     /\ behind' = [behind EXCEPT ![q] = back]

(* exit(): descriptors are closed, and children go to init, which waits for  *)
(* them at once.                                                           *)
Exit(p) ==
  LET gone == {q \in Children(p) : pc[q] = "zombie"} \cup (IF parent[p] = Nobody THEN {p} ELSE {}) IN
  /\ pc' = [q \in Entry |-> IF q \in gone THEN "unused" ELSE IF q = p THEN "zombie" ELSE pc[q]]
  /\ cmd' = [cmd EXCEPT ![p] = None]
  /\ fd' = [fd EXCEPT ![p] = [n \in Fd |-> None]]
  /\ parent' = [q \in Entry |-> IF q \in Children(p) THEN Nobody ELSE parent[q]]
  /\ behind' = [q \in Entry |-> q \notin gone /\ behind[q]]

(* wait() returns a child that has ended, or fails when there is none.      *)
Wait(p, next) ==
  /\ \/ /\ Children(p) = {}
        /\ pc' = [pc EXCEPT ![p] = next] /\ UNCHANGED <<parent, behind>>
     \/ \E q \in Children(p) :
          /\ pc[q] = "zombie"
          /\ pc' = [pc EXCEPT ![p] = next, ![q] = "unused"]
          /\ parent' = [parent EXCEPT ![q] = Nobody]
          /\ behind' = [behind EXCEPT ![q] = FALSE]
  /\ UNCHANGED <<cmd, fd>>

-----------------------------------------------------------------------------
(* main() of the shell; there is room for the processes of the line.        *)
Getcmd(line) ==
  /\ pc[Shell] = "prompt" /\ Cardinality(Unused) >= MaxJob
  /\ Fork(Shell, "runcmd", Parsecmd(line), "waitcmd", FALSE)

(* runcmd().                                                               *)
Runs(p, type) == pc[p] = "runcmd" /\ cmd[p].type = type
Become(p, next, c, t) ==
  /\ pc' = [pc EXCEPT ![p] = next] /\ cmd' = [cmd EXCEPT ![p] = c] /\ fd' = [fd EXCEPT ![p] = t]
  /\ UNCHANGED <<parent, behind>>

Ends(p) ==
  /\ pc[p] = "exit" \/ Runs(p, "PANIC") \/ (Runs(p, "EXEC") /\ cmd[p].prog = None)
  /\ Exit(p)

Exec(p) == Runs(p, "EXEC") /\ cmd[p].prog # None /\ Become(p, "program", cmd[p], fd[p])

(* open() takes the lowest free descriptor, or fails.                       *)
Redir(p) ==
  LET closed == CloseAll(fd[p], {cmd[p].fd}) IN
  /\ Runs(p, "REDIR")
  /\ \/ Become(p, "runcmd", cmd[p].cmd, [closed EXCEPT ![Lowest(closed)] = NoPipe])
     \/ Become(p, "exit", cmd[p], closed)

ForkLeft(p) == Runs(p, "LIST") /\ Fork(p, "runcmd", cmd[p].left, "waitleft", behind[p])
ListRight(p) == pc[p] = "right" /\ Become(p, "runcmd", cmd[p].right, fd[p])

Back(p) == Runs(p, "BACK") /\ Fork(p, "runcmd", cmd[p].cmd, "exit", TRUE)

(* pipe() takes two descriptors p0 and p1.                                  *)
Pipe(p) ==
  LET p0 == Lowest(fd[p])
      p1 == Lowest([fd[p] EXCEPT ![p0] = NoPipe]) IN
  /\ Runs(p, "PIPE")
  /\ Become(p, "forkleft", [left |-> cmd[p].left, right |-> cmd[p].right, p0 |-> p0, p1 |-> p1],
            [fd[p] EXCEPT ![p0] = PipeEnd(NewPipe, "r"), ![p1] = PipeEnd(NewPipe, "w")])

ForkPipe(p) ==
  \/ pc[p] = "forkleft" /\ Fork(p, "left", cmd[p], "forkright", behind[p])
  \/ pc[p] = "forkright" /\ Fork(p, "right end", cmd[p], "close", behind[p])

(* close(1), dup(p[1]) or close(0), dup(p[0]), and both ends are closed.     *)
PlugIn(p) ==
  \/ /\ pc[p] = "left"
     /\ Become(p, "runcmd", cmd[p].left, CloseAll(Dup(CloseAll(fd[p], {1}), cmd[p].p1), {cmd[p].p0, cmd[p].p1}))
  \/ /\ pc[p] = "right end"
     /\ Become(p, "runcmd", cmd[p].right, CloseAll(Dup(CloseAll(fd[p], {0}), cmd[p].p0), {cmd[p].p0, cmd[p].p1}))

(* Faulty: the parent keeps the end that is written.                       *)
KeepsWriteEnd(c) == {c.p0}

ParentCloses(c) == {c.p0, c.p1}
ClosePipe(p) == pc[p] = "close" /\ Become(p, "wait1", cmd[p], CloseAll(fd[p], ParentCloses(cmd[p])))

Waits(p) ==
  \/ pc[p] = "waitcmd" /\ Wait(p, "prompt")
  \/ pc[p] = "waitleft" /\ Wait(p, "right")
  \/ pc[p] = "wait1" /\ Wait(p, "wait2")
  \/ pc[p] = "wait2" /\ Wait(p, "exit")

-----------------------------------------------------------------------------
(* The programs, which are external: one that ends by itself, one that reads *)
(* to the end of file, one that writes until it fails, and one that does both.*)
Closed(end, other) == ~\E q \in Entry : Holds(q, PipeEnd(end.pipe, other))
IsPipe(end) == end \notin {None, NoPipe}
InputEnds(p) == IsPipe(fd[p][0]) => Closed(fd[p][0], "w")
OutputFails(p) == IsPipe(fd[p][1]) => Closed(fd[p][1], "r")

Program(p) ==
  /\ pc[p] = "program"
  /\ CASE cmd[p].prog = "reader" -> InputEnds(p)
       [] cmd[p].prog = "writer" -> OutputFails(p)
       [] cmd[p].prog = "filter" -> InputEnds(p) \/ OutputFails(p)
       [] OTHER -> TRUE
  /\ Exit(p)

Step(p) ==
  \/ Ends(p) \/ Exec(p) \/ Redir(p) \/ ForkLeft(p) \/ ListRight(p) \/ Back(p)
  \/ Pipe(p) \/ ForkPipe(p) \/ PlugIn(p) \/ ClosePipe(p) \/ Waits(p) \/ Program(p)

Next == (\E line \in Lines : Getcmd(line)) \/ \E p \in Entry : Step(p)

(* A process that can go on does (scheduler(), wakeup()).                   *)
Fairness == \A p \in Entry : WF_vars(Step(p))
Spec == Init /\ [][Next]_vars /\ Fairness

-----------------------------------------------------------------------------
(* sh.c:118-121 and 169.  After every line the prompt comes back: every       *)
(* reader of a pipeline sees the end of its input and every writer that       *)
(* nobody reads fails; and it comes back only when all that the line started *)
(* has ended, but for what was started with "&".                            *)
ShellWaits ==
  /\ [](pc[Shell] = "prompt" => \A p \in Entry \ {Shell} : pc[p] = "unused" \/ behind[p])
  /\ pc[Shell] = "waitcmd" ~> pc[Shell] = "prompt"
=============================================================================
