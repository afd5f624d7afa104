-------------------------------- MODULE Grep --------------------------------
(***************************************************************************)
(* grep (grep.c): its matcher, and the loop that reads the input in pieces   *)
(* that begin and end anywhere and keeps the unfinished line in its buffer.  *)
(* A step is one call of read() with what the loop does with the result.    *)
(***************************************************************************)
EXTENDS Integers, Sequences, SequencesExt

CONSTANTS
  Letter, NL,    \* what the input is made of; NL ends a line
  MaxInput,      \* length of the longest input
  Patterns,
  Sources,       \* where the input comes from: "file", "console" or "pipe"
  BufSize        \* sizeof(buf)

VARIABLES input, re, source,   \* the arguments
          text,                \* what has not been read yet
          buf,                 \* the first m characters of buf
          printed              \* the lines written

vars == <<input, re, source, text, buf, printed>>

-----------------------------------------------------------------------------
(* The matcher.  A sequence ends where the string has its '\0'.             *)
From(s, i) == SubSeq(s, i, Len(s))

RECURSIVE Matchhere(_, _), Matchstar(_, _, _)
Matchhere(r, s) ==
  CASE r = <<>> -> TRUE
    [] Len(r) > 1 /\ r[2] = "*" -> Matchstar(r[1], From(r, 3), s)
    [] r = <<"$">> -> s = <<>>
    [] OTHER -> s # <<>> /\ r[1] \in {".", s[1]} /\ Matchhere(Tail(r), Tail(s))
Matchstar(c, r, s) ==
  Matchhere(r, s) \/ (s # <<>> /\ c \in {".", s[1]} /\ Matchstar(c, r, Tail(s)))

Match(r, s) ==
  IF r # <<>> /\ r[1] = "^" THEN Matchhere(Tail(r), s)
  ELSE \E i \in 1..(Len(s) + 1) : Matchhere(r, From(s, i))

-----------------------------------------------------------------------------
Init ==
  /\ input \in UNION {[1..k -> Letter \cup {NL}] : k \in 0..MaxInput}
  /\ re \in Patterns /\ source \in Sources
  /\ text = input /\ buf = <<>> /\ printed = <<>>

(* read() of at most n characters: a file gives as many as there are, the    *)
(* console stops at the end of a line, a pipe gives what it has.             *)
Chunks(n) ==
  LET most == IF n < Len(text) THEN n ELSE Len(text)
      line == {k \in 1..most : text[k] = NL} IN
  CASE source = "file" -> {most}
    [] source = "console" -> {IF line = {} THEN most ELSE CHOOSE k \in line : \A j \in line : k <= j}
    [] source = "pipe" -> 1..most

(* strchr() from line to line; what follows the last end is kept.           *)
RECURSIVE LinesOf(_)
LinesOf(s) ==
  IF ~Contains(s, NL) THEN <<>>
  ELSE LET q == CHOOSE k \in DOMAIN s : s[k] = NL /\ ~Contains(SubSeq(s, 1, k - 1), NL)
       IN <<SubSeq(s, 1, q - 1)>> \o LinesOf(From(s, q + 1))

(* Faulty: the unfinished line is not moved to the front of the buffer.      *)
RestForgotten(s) == <<>>

(* m is 0 when the buffer has no end of a line.                             *)
Rest(s) ==
  LET ends == {k \in DOMAIN s : s[k] = NL}
  IN IF ends = {} THEN <<>> ELSE From(s, 1 + CHOOSE k \in ends : \A j \in ends : j <= k)

Read ==
  /\ text # <<>>
  /\ \E n \in Chunks(BufSize - Len(buf) - 1) :
       LET got == buf \o SubSeq(text, 1, n) IN
       /\ text' = From(text, n + 1)
       /\ printed' = printed \o SelectSeq(LinesOf(got), LAMBDA s : Match(re, s))
       /\ buf' = Rest(got)
  /\ UNCHANGED <<input, re, source>>

Next == Read
Spec == Init /\ [][Next]_vars

-----------------------------------------------------------------------------
(* What a pattern means: its items stand for pieces of the text one after    *)
(* the other, a starred one for any number of characters.                   *)
RECURSIVE Items(_)
Items(r) ==
  CASE r = <<>> -> <<>>
    [] Len(r) > 1 /\ r[2] = "*" -> <<[char |-> r[1], star |-> TRUE]>> \o Items(From(r, 3))
    [] OTHER -> <<[char |-> r[1], star |-> FALSE]>> \o Items(Tail(r))

StandsFor(item, piece) ==
  /\ item.star \/ Len(piece) = 1
  /\ \A i \in DOMAIN piece : item.char \in {".", piece[i]}

Means(r, s) ==
  LET left == r # <<>> /\ r[1] = "^"
      body == IF left THEN Tail(r) ELSE r
      right == body # <<>> /\ Last(body) = "$"
      items == Items(IF right THEN Front(body) ELSE body)
      n == Len(items)
  IN \E cut \in [0..n -> 0..Len(s)] :
       /\ left => cut[0] = 0
       /\ right => cut[n] = Len(s)
       /\ \A k \in 1..n : /\ cut[k - 1] <= cut[k]
                          /\ StandsFor(items[k], SubSeq(s, cut[k - 1] + 1, cut[k]))

(* grep.c:17-34.  When every line fits into the buffer, grep has printed the *)
(* lines that match and no other, in order, wherever read() cut the input;   *)
(* an unfinished last line does not count.                                  *)
MatchingLinesPrinted ==
  LET fits == \A i \in 1..(Len(input) - BufSize + 2) : Contains(SubSeq(input, i, i + BufSize - 2), NL)
  IN text = <<>> /\ fits => printed = SelectSeq(LinesOf(input), LAMBDA s : Means(re, s))
=============================================================================
