----------------------------- MODULE FileStore -----------------------------
(***************************************************************************)
(* What the blocks of the file system amount to: files are sequences of     *)
(* bytes, read and written one run of bytes after the other from where the  *)
(* file was opened; a write changes nothing else, and what survives a crash *)
(* is all the files as they were at one moment.                             *)
(***************************************************************************)
EXTENDS Integers, Sequences

CONSTANTS File, MaxSize, Byte(_, _)  \* Byte(f, i): what is written as byte i of f

VARIABLES
  content,       \* the bytes of each file
  at,            \* where the next byte of an open file goes, or -1
  kept           \* what a crash would leave

Empty == [f \in File |-> <<>>]
Closed == [f \in File |-> -1]
Init == content = Empty /\ at = Closed /\ kept = Empty

Open(f) == at[f] = -1 /\ at' = [at EXCEPT ![f] = 0] /\ UNCHANGED content
Close(f) == at' = [at EXCEPT ![f] = -1] /\ UNCHANGED content

Overlay(f, k) ==
  [i \in 1..(IF at[f] + k > Len(content[f]) THEN at[f] + k ELSE Len(content[f])) |->
     IF at[f] < i /\ i <= at[f] + k THEN Byte(f, i) ELSE content[f][i]]

Write(f) ==
  \E k \in 1..MaxSize :
    /\ at[f] \in 0..Len(content[f])
    /\ content' = [content EXCEPT ![f] = Overlay(f, k)]
    /\ at' = [at EXCEPT ![f] = @ + k]

Read(f) ==
  \E k \in 1..MaxSize :
    /\ at[f] + k <= Len(content[f])
    /\ at' = [at EXCEPT ![f] = @ + k] /\ UNCHANGED content

Remove(f) == at[f] = -1 /\ content' = [content EXCEPT ![f] = <<>>] /\ UNCHANGED at

Crash == content' = kept /\ at' = Closed /\ UNCHANGED kept

Next ==
  \/ /\ kept' = kept \/ kept' = content'
     /\ \/ UNCHANGED <<content, at>>
        \/ \E f \in File : Open(f) \/ Close(f) \/ Write(f) \/ Read(f) \/ Remove(f)
  \/ Crash

Spec == Init /\ [][Next]_<<content, at, kept>>
=============================================================================
