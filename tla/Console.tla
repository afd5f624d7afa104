------------------------------ MODULE Console ------------------------------
(***************************************************************************)
(* The input of the console (console.c): a ring of INPUT_BUF characters with *)
(* the indices r (read), w (end of the last complete line) and e (edited    *)
(* end).  cons.lock is held within one action.                              *)
(***************************************************************************)
EXTENDS Integers, Sequences, SequencesExt

CONSTANTS
  Letter, NewLine, EndMark,
  INPUT_BUF, Width,  \* r, w and e count modulo Width (2^32 in the code)
  Proc,
  ReadSizes          \* how many characters read() is called for

(* What is asked of the constants: the ring stays in step when indices wrap. *)
ConsoleAssumption ==
  /\ INPUT_BUF \in Nat \ {0} /\ Width \in Nat /\ INPUT_BUF < Width /\ Width % INPUT_BUF = 0
  /\ ReadSizes \subseteq Nat

VARIABLES buf, r, w, e,
  target, n          \* the read() of each process: its size, what it still wants

inputVars == <<buf, r, w, e>>
vars == <<inputVars, target, n>>

Init ==
  /\ buf = [i \in 0..(INPUT_BUF - 1) |-> NewLine]
  /\ r = 0 /\ w = 0 /\ e = 0
  /\ target = [p \in Proc |-> 0] /\ n = [p \in Proc |-> 0]

Distance(i, j) == (j - i) % Width
From(i, j) == [k \in 1..Distance(i, j) |-> buf[(i + k - 1) % INPUT_BUF]]

(* Faulty: only the end of a line makes it readable.                       *)
LineEnds(c, end) == c \in {NewLine, EndMark}

Completes(c, end) == c \in {NewLine, EndMark} \/ end = (r + INPUT_BUF) % Width

(* consoleintr(): any other character                                      *)
Key(c) ==
  LET end == (e + 1) % Width IN
  /\ Distance(r, e) < INPUT_BUF
  /\ buf' = [buf EXCEPT ![e % INPUT_BUF] = c]
  /\ e' = end
  /\ w' = IF Completes(c, end) THEN end ELSE w
  /\ UNCHANGED <<r, target, n>>

Backspace ==
  /\ e # w /\ e' = (e - 1) % Width
  /\ UNCHANGED <<buf, r, w, target, n>>

(* ^U erases back to the end of the line before.                           *)
KillLine ==
  /\ e' = (w + SelectLastInSeq(From(w, e), LAMBDA c : c = NewLine)) % Width
  /\ UNCHANGED <<buf, r, w, target, n>>

StartRead(p, k) ==
  /\ n[p] = 0
  /\ target' = [target EXCEPT ![p] = k] /\ n' = [n EXCEPT ![p] = k]
  /\ UNCHANGED inputVars

(* The call of p wants k more characters, or has returned.                  *)
Wants(p, k) ==
  /\ n' = [n EXCEPT ![p] = k]
  /\ target' = IF k = 0 THEN [target EXCEPT ![p] = 0] ELSE target

(* consoleread(): takes characters until the call ends or it must sleep;     *)
(* an end mark after other characters is put back.                          *)
Read(p) ==
  LET chars == From(r, w)
      mark == SelectInSeq(chars, LAMBDA c : c \in {NewLine, EndMark})
      most == IF n[p] < Len(chars) THEN n[p] ELSE Len(chars)
      stops == mark # 0 /\ mark <= most
      putBack == stops /\ chars[mark] = EndMark /\ (mark > 1 \/ n[p] < target[p])
      taken == IF stops /\ ~putBack THEN mark ELSE IF stops THEN mark - 1 ELSE most
  IN
  /\ n[p] > 0 /\ r # w
  /\ r' = (r + taken) % Width
  /\ Wants(p, IF stops THEN 0 ELSE n[p] - taken)
  /\ UNCHANGED <<buf, w, e>>

(* A killed process gets -1 instead of sleeping, whatever it has taken.     *)
ReadKilled(p) == n[p] > 0 /\ r = w /\ Wants(p, 0) /\ UNCHANGED inputVars

Next ==
  \/ \E c \in Letter \cup {NewLine, EndMark} : Key(c)
  \/ Backspace \/ KillLine
  \/ \E p \in Proc : Read(p) \/ ReadKilled(p) \/ \E k \in ReadSizes : StartRead(p, k)

Spec == Init /\ [][Next]_vars

(* Typing, editing and reading a ring whose indices wrap amounts to a line   *)
(* buffer: no character is lost, read twice or read while it can be edited.  *)
Lines == INSTANCE LineBuffer WITH
  ready <- From(r, w), line <- From(w, e), Capacity <- INPUT_BUF
LineSpec == Lines!Spec
=============================================================================
