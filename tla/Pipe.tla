-------------------------------- MODULE Pipe --------------------------------
(***************************************************************************)
(* A pipe (pipe.c), the two open files of its ends (file.c) and the         *)
(* descriptors that fork(), dup(), close() and exit() add and remove.       *)
(*                                                                         *)
(* The pipe's lock is held within one action, but for the moment between    *)
(* the test of killed and sleep(), when a process is in Deciding: kill()    *)
(* takes ptable.lock only and can come in between.                          *)
(***************************************************************************)
EXTENDS Integers, FiniteSets, Sequences

CONSTANTS
  Proc, Byte,
  Strings,       \* what write() is called with
  ReadSizes,     \* how many bytes read() is called for
  PIPESIZE,
  Width,         \* nread and nwrite count modulo Width (2^32 in the code)
  MaxFd,         \* descriptors a process has for one end, at most
  first,         \* the process that calls pipe()
  None

End == {"r", "w"}

(* A read of no bytes returns none; it is left out.                         *)
ASSUME PipeAssumption ==
  /\ PIPESIZE \in Nat \ {0} /\ Width \in Nat /\ Width > PIPESIZE /\ Width % PIPESIZE = 0
  /\ Byte # {} /\ Strings \subseteq Seq(Byte) /\ ReadSizes \subseteq Nat \ {0}
  /\ first \in Proc /\ IsFiniteSet(Proc) /\ MaxFd \in Nat \ {0} /\ None \notin End

VARIABLES
  data, nread, nwrite,
  open,          \* ends whose readopen or writeopen is 1
  ref,           \* f->ref of the file of each end
  fd,            \* descriptors of each process for each end
  pc,            \* what each process does
  buf,           \* bytes its write() has left
  closing,       \* end whose file it closed last, before pipeclose()
  killed,
  got,           \* what the last read() returned
  cut            \* a killed writer returned with bytes it told nobody of

pipeVars == <<data, nread, nwrite>>
fileVars == <<open, ref, fd, closing>>
vars == <<pipeVars, fileVars, pc, buf, killed, got, cut>>

Sleeping == {"rsleep", "wsleep"}
Deciding == {"rdecide", "wdecide"}
States == {"unused", "run", "read", "write", "exit"} \cup Sleeping \cup Deciding

TypeOK ==
  /\ data \in [0..(PIPESIZE - 1) -> Byte] /\ nread \in 0..(Width - 1) /\ nwrite \in 0..(Width - 1)
  /\ open \in SUBSET End /\ ref \in [End -> Int]
  /\ fd \in [Proc -> [End -> 0..MaxFd]] /\ pc \in [Proc -> States]
  /\ buf \in [Proc -> Seq(Byte)] /\ closing \in [Proc -> End \cup {None}]
  /\ killed \in [Proc -> BOOLEAN] /\ got \in Seq(Byte) \cup {None} /\ cut \in BOOLEAN

(* What the next pipealloc() finds in its page does not matter.             *)
Blank == [i \in 0..(PIPESIZE - 1) |-> CHOOSE b \in Byte : TRUE]

Init ==
  /\ data = Blank /\ nread = 0 /\ nwrite = 0 /\ got = None /\ cut = FALSE
  /\ open = {} /\ ref = [e \in End |-> 0]
  /\ fd = [p \in Proc |-> [e \in End |-> 0]]
  /\ pc = [p \in Proc |-> IF p = first THEN "run" ELSE "unused"]
  /\ buf = [p \in Proc |-> <<>>] /\ closing = [p \in Proc |-> None]
  /\ killed = [p \in Proc |-> FALSE]

(* A process in user code; the trap handler lets no killed one in.          *)
Runs(p) == pc[p] = "run" /\ closing[p] = None /\ ~killed[p]
LockFree == \A p \in Proc : pc[p] \notin Deciding
Become(p, s) == pc' = [pc EXCEPT ![p] = s]

-----------------------------------------------------------------------------
(* Descriptors and files.                                                  *)

(* sys_pipe(): one pipe at a time; the pipe of a closed one is freed.       *)
NewPipe(p) ==
  /\ Runs(p) /\ open = {} /\ ref = [e \in End |-> 0]
  /\ open' = End /\ ref' = [e \in End |-> 1]
  /\ fd' = [fd EXCEPT ![p] = [e \in End |-> 1]]
  /\ UNCHANGED <<pipeVars, closing, pc, buf, killed, got, cut>>

Dup(p, e) ==
  /\ Runs(p) /\ fd[p][e] \in 1..(MaxFd - 1)
  /\ fd' = [fd EXCEPT ![p][e] = @ + 1]
  /\ ref' = [ref EXCEPT ![e] = @ + 1]
  /\ UNCHANGED <<pipeVars, open, closing, pc, buf, killed, got, cut>>

(* Faulty: fork() takes one reference for all descriptors of a file.        *)
OneEach(n) == IF n > 0 THEN 1 ELSE 0

Inherited(n) == n

Fork(p, c) ==
  /\ Runs(p) /\ pc[c] = "unused"
  /\ Become(c, "run")
  /\ fd' = [fd EXCEPT ![c] = fd[p]]
  /\ ref' = [e \in End |-> ref[e] + Inherited(fd[p][e])]
  /\ UNCHANGED <<pipeVars, open, closing, buf, killed, got, cut>>

(* fileclose() drops the reference; pipeclose() of the last one follows.    *)
Close(p, e) ==
  /\ Runs(p) \/ (pc[p] = "exit" /\ closing[p] = None)
  /\ fd[p][e] > 0
  /\ fd' = [fd EXCEPT ![p][e] = @ - 1]
  /\ ref' = [ref EXCEPT ![e] = @ - 1]
  /\ closing' = IF ref[e] = 1 THEN [closing EXCEPT ![p] = e] ELSE closing
  /\ UNCHANGED <<pipeVars, open, pc, buf, killed, got, cut>>

(* wakeup() of those that sleep on one of the two channels of the pipe.     *)
Woken(s) == {p \in Proc : pc[p] = s}
Wake(s) == [p \in Proc |-> IF p \in Woken(s) THEN (IF s = "rsleep" THEN "read" ELSE "write")
                           ELSE pc[p]]

(* Faulty: pipeclose() wakes the sleepers of the end it closes.            *)
SameEnd(e) == IF e = "w" THEN "wsleep" ELSE "rsleep"

OtherEnd(e) == IF e = "w" THEN "rsleep" ELSE "wsleep"

PipeClose(p) ==
  LET e == closing[p] IN
  /\ e # None /\ LockFree
  /\ open' = open \ {e}
  /\ closing' = [closing EXCEPT ![p] = None]
  /\ pc' = Wake(OtherEnd(e))
  /\ IF open' = {} THEN data' = Blank /\ nread' = 0 /\ nwrite' = 0 /\ got' = None /\ cut' = FALSE
     ELSE UNCHANGED <<pipeVars, got, cut>>
  /\ UNCHANGED <<ref, fd, buf, killed>>

(* exit() closes every descriptor first.                                   *)
Exit(p) ==
  /\ pc[p] = "run" /\ closing[p] = None
  /\ Become(p, "exit")
  /\ killed' = [killed EXCEPT ![p] = FALSE]
  /\ UNCHANGED <<pipeVars, fileVars, buf, got, cut>>

Exited(p) ==
  /\ pc[p] = "exit" /\ closing[p] = None /\ fd[p] = [e \in End |-> 0] /\ p # first
  /\ Become(p, "unused")
  /\ UNCHANGED <<pipeVars, fileVars, buf, killed, got, cut>>

-----------------------------------------------------------------------------
(* The ring.                                                               *)

(* Faulty: the counters are compared without their width.                  *)
FullUnbounded(r, w) == w = r + PIPESIZE

Full(r, w) == w = (r + PIPESIZE) % Width
Filled == (nwrite - nread) % Width
Content == [i \in 1..Filled |-> data[(nread + i - 1) % PIPESIZE]]

StartWrite(p, s) ==
  /\ Runs(p) /\ fd[p]["w"] > 0
  /\ buf' = [buf EXCEPT ![p] = s]
  /\ Become(p, "write")
  /\ UNCHANGED <<pipeVars, fileVars, killed, got, cut>>

(* pipewrite() copies until the pipe is full or the bytes end: fits[k] says *)
(* that the first k bytes fit.                                             *)
Fits(p) ==
  CHOOSE k \in 0..Len(buf[p]) :
    /\ \A j \in 0..(k - 1) : ~Full(nread, (nwrite + j) % Width)
    /\ k = Len(buf[p]) \/ Full(nread, (nwrite + k) % Width)

Write(p) ==
  LET k == Fits(p)
      ends == k = Len(buf[p])
      fails == ~ends /\ ("r" \notin open \/ killed[p])
  IN
  /\ pc[p] = "write" /\ LockFree
  /\ data' = [i \in DOMAIN data |->
                IF \E j \in 1..k : (nwrite + j - 1) % PIPESIZE = i
                THEN buf[p][CHOOSE j \in 1..k : (nwrite + j - 1) % PIPESIZE = i]
                ELSE data[i]]
  /\ nwrite' = (nwrite + k) % Width
  /\ buf' = [buf EXCEPT ![p] = IF fails THEN <<>> ELSE SubSeq(@, k + 1, Len(@))]
  /\ pc' = [(IF fails THEN pc ELSE Wake("rsleep")) EXCEPT
              ![p] = IF ends \/ fails THEN "run" ELSE "wdecide"]
  /\ cut' = (cut \/ (fails /\ k > 0))
  /\ UNCHANGED <<nread, fileVars, killed, got>>

StartRead(p) ==
  /\ Runs(p) /\ fd[p]["r"] > 0
  /\ Become(p, "read")
  /\ UNCHANGED <<pipeVars, fileVars, buf, killed, got, cut>>

Read(p, n) ==
  LET k == IF n < Filled THEN n ELSE Filled
      empty == nread = nwrite /\ "w" \in open IN
  /\ pc[p] = "read" /\ LockFree
  /\ IF empty
     THEN /\ Become(p, IF killed[p] THEN "run" ELSE "rdecide")
          /\ UNCHANGED <<nread, got>>
     ELSE /\ got' = SubSeq(Content, 1, k)
          /\ nread' = (nread + k) % Width
          /\ pc' = [Wake("wsleep") EXCEPT ![p] = "run"]
  /\ UNCHANGED <<data, nwrite, fileVars, buf, killed, cut>>

(* sleep() releases the pipe's lock.                                       *)
Sleep(p) ==
  /\ pc[p] \in Deciding
  /\ Become(p, IF pc[p] = "rdecide" THEN "rsleep" ELSE "wsleep")
  /\ UNCHANGED <<pipeVars, fileVars, buf, killed, got, cut>>

(* kill() makes a sleeping process runnable.                               *)
Kill(p) ==
  /\ pc[p] \notin {"unused", "exit"} /\ p # first
  /\ killed' = [killed EXCEPT ![p] = TRUE]
  /\ pc' = [pc EXCEPT ![p] = IF @ = "rsleep" THEN "read" ELSE IF @ = "wsleep" THEN "write" ELSE @]
  /\ UNCHANGED <<pipeVars, fileVars, buf, got, cut>>

-----------------------------------------------------------------------------
Next ==
  \E p \in Proc :
    \/ NewPipe(p) \/ \E c \in Proc : Fork(p, c)
    \/ \E e \in End : Dup(p, e) \/ Close(p, e)
    \/ PipeClose(p) \/ Exit(p) \/ Exited(p) \/ Kill(p)
    \/ \E s \in Strings : StartWrite(p, s)
    \/ StartRead(p) \/ \E n \in ReadSizes : Read(p, n)
    \/ Write(p) \/ Sleep(p)

Spec == Init /\ [][Next]_vars

-----------------------------------------------------------------------------
(* Properties.                                                             *)

Descriptors(e) == {d \in Proc \X (1..MaxFd) : d[2] <= fd[d[1]][e]}

(* f->ref is the number of descriptors (file.c:57), and an end is open as    *)
(* long as there is a descriptor for it, and no longer once the last close() *)
(* has ended (pipe.c:59): the pipe is freed once, and under nobody.         *)
EndsAgree ==
  \A e \in End :
    /\ ref[e] = Cardinality(Descriptors(e))
    /\ (e \in open) = (ref[e] > 0 \/ \E p \in Proc : closing[p] = e)

(* A reader sleeps only on an empty pipe somebody may write, a writer only   *)
(* on a full pipe somebody may read: no wakeup is missed across writes,      *)
(* reads, closes and kills, unless a killed writer left in the middle.       *)
SleepersWait ==
  \A p \in Proc :
    /\ pc[p] = "rsleep" /\ ~cut => nread = nwrite /\ "w" \in open
    /\ pc[p] = "wsleep" => Full(nread, nwrite) /\ "r" \in open

(* Bytes arrive in order, each once, and end of file is reported only when   *)
(* all are read and the writing end is closed, also when the counters wrap:  *)
(* pipe.c:93 and pipe.c:116 are the two ends of a queue of bytes.           *)
Queue == INSTANCE ByteQueue WITH q <- Content, Capacity <- PIPESIZE
BytesInOrder == Queue!Spec
=============================================================================
