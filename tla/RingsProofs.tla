----------------------------- MODULE RingsProofs ----------------------------
(***************************************************************************)
(* Pipes of any size, with any number of processes and descriptors: the      *)
(* types, that no reader and no writer sleeps without a reason, that ends    *)
(* close once, and that bytes come in order.                                *)
(*                                                                         *)
(* Consoles with a ring of any size, which must divide the width of the      *)
(* indices: a line that can still be edited has no end in it, and an index    *)
(* that wraps keeps its place in the ring.  LineSpec follows.               *)
(***************************************************************************)
EXTENDS Rings, FiniteSetTheorems, SequenceTheorems, WellFoundedInduction, TLAPS

(* A process that has decided to sleep has the pipe's lock, or sleep() holds *)
(* ptable.lock for it: nobody else touches the pipe in between.             *)
SleepInv ==
  \A p \in Proc :
    /\ pc[p] = "rsleep" => "w" \in open /\ (~cut => nread = nwrite)
    /\ pc[p] = "rdecide" => "w" \in open /\ nread = nwrite
    /\ pc[p] \in {"wdecide", "wsleep"} => "r" \in open /\ Full(nread, nwrite)

Inv == TypeOK /\ SleepInv

(* Who closes an end has dropped the last reference to its file; who is in a  *)
(* call has a descriptor of the end it uses.                                *)
Reading == {"read", "rdecide", "rsleep"}
Writing == {"write", "wdecide", "wsleep"}

FileInv ==
  /\ EndsAgree
  /\ \A p \in Proc : closing[p] # None =>
       /\ ref[closing[p]] = 0
       /\ \A q \in Proc : closing[q] = closing[p] => q = p
  /\ \A p \in Proc :
       /\ pc[p] = "unused" => fd[p] = [e \in End |-> 0]
       /\ pc[p] \in Reading => fd[p]["r"] > 0
       /\ pc[p] \in Writing => fd[p]["w"] > 0

-----------------------------------------------------------------------------
(* The counters stay below their width.                                     *)
LEMMA Modulo ==
  ASSUME NEW a \in Int, NEW m \in Nat \ {0}
  PROVE  a % m \in 0..(m - 1)
OBVIOUS

LEMMA SmallModulo ==
  ASSUME NEW m \in Nat \ {0}, NEW a \in 0..(m - 1)
  PROVE  a % m = a
OBVIOUS

LEMMA Remainder ==
  ASSUME NEW m \in Nat \ {0}, NEW q \in Int, NEW r \in 0..(m - 1)
  PROVE  (q * m + r) % m = r
OBVIOUS

LEMMA Quotient ==
  ASSUME NEW a \in Int, NEW m \in Int, m > 0
  PROVE  a = (a \div m) * m + (a % m) /\ a \div m \in Int
<1>1. a = (a \div m) * m + (a % m)
  OBVIOUS
<1>2. a \div m \in Int
  OBVIOUS
<1> QED
  BY <1>1, <1>2

LEMMA Division ==
  ASSUME NEW a \in Int, NEW m \in Nat \ {0}
  PROVE  \E q \in Int : a = q * m + (a % m)
<1> DEFINE d == a \div m
<1>1. a = d * m + (a % m) /\ d \in Int
  BY Quotient
<1> HIDE DEF d
<1> QED
  BY <1>1, Zenon

LEMMA Distribute ==
  ASSUME NEW q \in Int, NEW k \in Int, NEW m \in Int
  PROVE  (q + k) * m = q * m + k * m
OBVIOUS

Congruent(a, b, m) == \E k \in Int : b = a + k * m

LEMMA SameRemainder ==
  ASSUME NEW a \in Int, NEW b \in Int, NEW m \in Nat \ {0}, Congruent(a, b, m)
  PROVE  b % m = a % m
<1>0. PICK k \in Int : b = a + k * m
  BY DEF Congruent
<1> DEFINE r == a % m
<1>1. PICK q \in Int : a = q * m + r
  BY Division
<1>2. r \in 0..(m - 1)
  BY Modulo
<1> HIDE DEF r
<1>3. b = (q + k) * m + r /\ q + k \in Int
  <2>1. (q + k) * m = q * m + k * m
    BY Distribute
  <2> QED
    BY <1>0, <1>1, <1>2, <2>1
<1>4. ((q + k) * m + r) % m = r
  BY <1>2, <1>3, Remainder
<1> QED
  BY <1>3, <1>4 DEF r

LEMMA DistinctRemainders ==
  ASSUME NEW a \in Int, NEW b \in Int, NEW m \in Nat \ {0}, a < b, b < a + m
  PROVE  a % m # b % m
<1> SUFFICES ASSUME a % m = b % m PROVE FALSE
  OBVIOUS
<1> DEFINE r == a % m
<1>1. PICK q \in Int : a = q * m + r
  BY Division
<1>2. PICK s \in Int : b = s * m + r
  BY Division
<1>3. r \in Int
  BY Modulo
<1> HIDE DEF r
<1>4. b - a = (s - q) * m
  BY <1>1, <1>2, <1>3
<1>5. s - q >= 1 => (s - q) * m >= m
  OBVIOUS
<1>6. s - q <= 0 => (s - q) * m <= 0
  OBVIOUS
<1> QED
  BY <1>4, <1>5, <1>6

(* The place of a byte does not change when a counter wraps.                *)
LEMMA Wrap ==
  ASSUME NEW a \in Int, NEW i \in Int
  PROVE  ((a % Width) + i) % PIPESIZE = (a + i) % PIPESIZE
<1> DEFINE r == a % Width
<1>1. Width \in Nat \ {0} /\ PIPESIZE \in Nat \ {0} /\ Width % PIPESIZE = 0
  BY PipeAssumption
<1>2. PICK q \in Int : a = q * Width + r
  BY <1>1, Division
<1>3. PICK t \in Int : Width = t * PIPESIZE
  <2>1. Width \in Int
    BY <1>1
  <2>2. PICK t \in Int : Width = t * PIPESIZE + (Width % PIPESIZE)
    BY <1>1, <2>1, Division
  <2> QED
    BY <1>1, <2>2
<1>4. r \in Int
  BY <1>1, Modulo
<1> HIDE DEF r
<1>5. Congruent(r + i, a + i, PIPESIZE)
  <2> DEFINE k == q * t
  <2>1. q * Width = k * PIPESIZE
    BY <1>1, <1>3
  <2>2. k \in Int
    OBVIOUS
  <2> HIDE DEF k
  <2>3. k * PIPESIZE \in Int
    BY <1>1, <2>2
  <2>4. a + i = (r + i) + k * PIPESIZE
    BY <1>2, <1>4, <2>1, <2>3
  <2> QED
    BY <2>2, <2>4 DEF Congruent
<1>6. r + i \in Int /\ a + i \in Int
  BY <1>4
<1> QED
  BY <1>1, <1>5, <1>6, SameRemainder DEF r

(* pipewrite() stops at the first byte that does not fit, or at the end.    *)
LEMMA FitsExist ==
  ASSUME TypeOK, NEW p \in Proc
  PROVE  /\ Fits(p) \in 0..Len(buf[p])
         /\ \A j \in 0..(Fits(p) - 1) : ~Full(nread, (nwrite + j) % Width)
         /\ Fits(p) = Len(buf[p]) \/ Full(nread, (nwrite + Fits(p)) % Width)
<1> DEFINE stop(k) == k = Len(buf[p]) \/ Full(nread, (nwrite + k) % Width)
           T == {k \in 0..Len(buf[p]) : stop(k)}
           R == OpToRel(<, Nat)
<1>1. Len(buf[p]) \in Nat
  BY DEF TypeOK
<1>2. T \subseteq Nat /\ Len(buf[p]) \in T
  BY <1>1
<1>3. PICK k \in T : \A j \in T : ~(<<j, k>> \in R)
  <2>1. IsWellFoundedOn(R, Nat)
    BY NatLessThanWellFounded, Zenon
  <2> HIDE DEF T, R
  <2> QED
    BY <1>2, <2>1, WFMin
<1>4. \A j \in T : ~(j < k)
  BY <1>2, <1>3 DEF OpToRel
<1>5. \A j \in 0..(k - 1) : ~Full(nread, (nwrite + j) % Width)
  <2> SUFFICES ASSUME NEW j \in 0..(k - 1), Full(nread, (nwrite + j) % Width) PROVE FALSE
    OBVIOUS
  <2>1. k \in Nat /\ k <= Len(buf[p])
    BY <1>1
  <2>2. j \in 0..Len(buf[p]) /\ j < k
    BY <1>1, <2>1
  <2> QED
    BY <1>4, <2>2
<1>6. k \in 0..Len(buf[p]) /\ (k = Len(buf[p]) \/ Full(nread, (nwrite + k) % Width))
  OBVIOUS
<1> QED
  BY <1>5, <1>6 DEF Fits

LEMMA BlankType == Blank \in [0..(PIPESIZE - 1) -> Byte]
BY PipeAssumption DEF Blank

LEMMA InitInv ==
  Init => Inv
<1> SUFFICES ASSUME Init PROVE Inv
  OBVIOUS
<1>1. 0 \in 0..(Width - 1) /\ 0 \in 0..MaxFd
  BY PipeAssumption
<1>2. TypeOK
  <2>1. buf \in [Proc -> Seq(Byte)]
    BY DEF Init
  <2>2. pc \in [Proc -> States] /\ fd \in [Proc -> [End -> 0..MaxFd]] /\ ref \in [End -> Int]
    BY <1>1 DEF Init, States
  <2>3. data \in [0..(PIPESIZE - 1) -> Byte] /\ nread \in 0..(Width - 1) /\ nwrite \in 0..(Width - 1)
    BY <1>1, BlankType DEF Init
  <2>4. /\ open \in SUBSET End /\ closing \in [Proc -> End \cup {None}] /\ killed \in [Proc -> BOOLEAN]
        /\ got \in Seq(Byte) \cup {None} /\ cut \in BOOLEAN
    BY DEF Init
  <2> QED
    BY <2>1, <2>2, <2>3, <2>4 DEF TypeOK
<1>3. SleepInv
  BY DEF Init, SleepInv
<1> QED
  BY <1>2, <1>3 DEF Inv

-----------------------------------------------------------------------------
(* Descriptors.                                                            *)
LEMMA NewPipeInv ==
  ASSUME Inv, NEW p \in Proc, NewPipe(p)
  PROVE  Inv'
<1>1. 1 \in 0..MaxFd
  BY PipeAssumption
<1>2. TypeOK'
  BY <1>1 DEF Inv, TypeOK, NewPipe, pipeVars
<1>3. SleepInv'
  BY DEF Inv, SleepInv, NewPipe, pipeVars
<1> QED
  BY <1>2, <1>3 DEF Inv

LEMMA DupInv ==
  ASSUME Inv, NEW p \in Proc, NEW e \in End, Dup(p, e)
  PROVE  Inv'
<1>1. fd[p][e] + 1 \in 0..MaxFd
  BY PipeAssumption DEF Dup
<1>2. TypeOK'
  BY <1>1 DEF Inv, TypeOK, Dup, pipeVars
<1>3. SleepInv'
  BY DEF Inv, SleepInv, Dup, pipeVars, Full
<1> QED
  BY <1>2, <1>3 DEF Inv

LEMMA ForkInv ==
  ASSUME Inv, NEW p \in Proc, NEW c \in Proc, Fork(p, c)
  PROVE  Inv'
<1>1. /\ pc' = [pc EXCEPT ![c] = "run"] /\ fd' = [fd EXCEPT ![c] = fd[p]]
      /\ ref' = [e \in End |-> ref[e] + fd[p][e]]
      /\ UNCHANGED <<data, nread, nwrite, open, closing, buf, killed, got, cut>>
  BY DEF Fork, Become, Inherited, pipeVars
<1>2. TypeOK'
  <2>1. ref' \in [End -> Int]
    BY <1>1 DEF Inv, TypeOK
  <2>2. pc' \in [Proc -> States] /\ fd' \in [Proc -> [End -> 0..MaxFd]]
    BY <1>1 DEF Inv, TypeOK, States
  <2> QED
    BY <1>1, <2>1, <2>2 DEF Inv, TypeOK
<1>3. SleepInv'
  BY <1>1 DEF Inv, TypeOK, SleepInv, Full
<1> QED
  BY <1>2, <1>3 DEF Inv

LEMMA CloseInv ==
  ASSUME Inv, NEW p \in Proc, NEW e \in End, Close(p, e)
  PROVE  Inv'
<1>1. fd[p][e] - 1 \in 0..MaxFd /\ ref[e] - 1 \in Int
  <2>1. fd[p][e] \in 0..MaxFd /\ fd[p][e] > 0 /\ ref[e] \in Int
    BY DEF Inv, TypeOK, Close
  <2> QED
    BY <2>1, PipeAssumption
<1>2. /\ fd' = [fd EXCEPT ![p][e] = fd[p][e] - 1] /\ ref' = [ref EXCEPT ![e] = ref[e] - 1]
      /\ closing' = [closing EXCEPT ![p] = e] \/ closing' = closing
      /\ UNCHANGED <<data, nread, nwrite, open, pc, buf, killed, got, cut>>
  BY DEF Close, pipeVars
<1>3. TypeOK'
  <2>1. fd' \in [Proc -> [End -> 0..MaxFd]]
    BY <1>1, <1>2 DEF Inv, TypeOK
  <2>2. ref' \in [End -> Int]
    BY <1>1, <1>2 DEF Inv, TypeOK
  <2>3. closing' \in [Proc -> End \cup {None}]
    BY <1>2 DEF Inv, TypeOK
  <2> QED
    BY <1>2, <2>1, <2>2, <2>3 DEF Inv, TypeOK
<1>4. SleepInv'
  BY <1>2 DEF Inv, SleepInv, Full
<1> QED
  BY <1>3, <1>4 DEF Inv

(* The end that pipeclose() closes last leaves no sleeper behind.           *)
LEMMA PipeCloseInv ==
  ASSUME Inv, NEW p \in Proc, PipeClose(p)
  PROVE  Inv'
<1>1. PICK e \in End : e = closing[p]
  BY PipeAssumption DEF PipeClose, Inv, TypeOK
<1>2. /\ LockFree /\ open' = open \ {e} /\ closing' = [closing EXCEPT ![p] = None]
      /\ pc' = Wake(OtherEnd(e)) /\ UNCHANGED <<ref, fd, buf, killed>>
      /\ IF open' = {} THEN data' = Blank /\ nread' = 0 /\ nwrite' = 0 /\ got' = None /\ cut' = FALSE
         ELSE UNCHANGED <<data, nread, nwrite, got, cut>>
  BY <1>1 DEF PipeClose, pipeVars
<1>3. TypeOK'
  <2>1. 0 \in 0..(Width - 1)
    BY PipeAssumption
  <2>2. pc' \in [Proc -> States]
    BY <1>2 DEF Inv, TypeOK, Wake, OtherEnd, States
  <2>3. /\ data' \in [0..(PIPESIZE - 1) -> Byte] /\ nread' \in 0..(Width - 1) /\ nwrite' \in 0..(Width - 1)
        /\ got' \in Seq(Byte) \cup {None} /\ cut' \in BOOLEAN
    BY <1>2, <2>1, BlankType DEF Inv, TypeOK
  <2>4. closing' \in [Proc -> End \cup {None}] /\ open' \in SUBSET End
    BY <1>2 DEF Inv, TypeOK
  <2> QED
    BY <1>2, <2>2, <2>3, <2>4 DEF Inv, TypeOK
<1>4. ASSUME NEW q \in Proc
      PROVE  /\ pc'[q] = "rsleep" => pc[q] = "rsleep" /\ e # "w"
             /\ pc'[q] = "wsleep" => pc[q] = "wsleep" /\ e = "w"
             /\ pc'[q] \notin Deciding
  BY <1>2 DEF LockFree, Deciding, Wake, Woken, OtherEnd
<1>5. SleepInv'
  <2> SUFFICES ASSUME NEW q \in Proc
               PROVE  /\ pc'[q] = "rsleep" => "w" \in open' /\ (~cut' => nread' = nwrite')
                      /\ pc'[q] = "rdecide" => "w" \in open' /\ nread' = nwrite'
                      /\ pc'[q] \in {"wdecide", "wsleep"} => "r" \in open' /\ Full(nread', nwrite')
    BY DEF SleepInv, Full
  <2>1. CASE pc'[q] = "rsleep"
    BY <1>2, <1>4, <2>1 DEF Inv, SleepInv
  <2>2. CASE pc'[q] = "wsleep"
    <3>1. "r" \in open' /\ UNCHANGED <<nread, nwrite>>
      BY <1>2, <1>4, <2>2 DEF Inv, SleepInv
    <3> QED
      BY <1>4, <2>2, <3>1 DEF Inv, SleepInv
  <2> QED
    BY <1>4, <2>1, <2>2 DEF Deciding
<1> QED
  BY <1>3, <1>5 DEF Inv

(* Steps that leave the pipe alone and put nobody to sleep.                 *)
LEMMA PipeKept ==
  ASSUME SleepInv, UNCHANGED <<nread, nwrite, open, cut>>,
         \A q \in Proc : pc'[q] \in Sleeping \cup Deciding => pc'[q] = pc[q]
  PROVE  SleepInv'
BY DEF SleepInv, Full, Sleeping, Deciding

LEMMA ProcessInv ==
  ASSUME Inv, NEW p \in Proc,
         Exit(p) \/ Exited(p) \/ Kill(p) \/ StartRead(p) \/ \E s \in Strings : StartWrite(p, s)
  PROVE  Inv'
<1>1. UNCHANGED <<data, nread, nwrite, open, ref, fd, closing, got, cut>>
  BY DEF Exit, Exited, Kill, StartRead, StartWrite, pipeVars, fileVars
<1>2. PICK s \in States \ (Sleeping \cup Deciding) :
        pc' = [pc EXCEPT ![p] = s] \/ (pc' = pc /\ s = "run")
  <2>1. CASE Kill(p)
    <3>1. pc[p] \in States
      BY DEF Inv, TypeOK
    <3>2. pc' = [pc EXCEPT ![p] = IF pc[p] = "rsleep" THEN "read" ELSE IF pc[p] = "wsleep" THEN "write" ELSE pc[p]]
      BY <2>1 DEF Kill
    <3>3. CASE pc[p] \in Deciding
      <4>1. pc' = pc
        BY <3>2, <3>3 DEF Deciding, Inv, TypeOK
      <4>2. "run" \in States \ (Sleeping \cup Deciding)
        BY DEF States, Sleeping, Deciding
      <4> QED
        BY <4>1, <4>2
    <3>4. CASE pc[p] \notin Deciding
      <4> DEFINE t == IF pc[p] = "rsleep" THEN "read" ELSE IF pc[p] = "wsleep" THEN "write" ELSE pc[p]
      <4>1. t \in States \ (Sleeping \cup Deciding)
        BY <3>1, <3>4 DEF States, Sleeping, Deciding
      <4>2. pc' = [pc EXCEPT ![p] = t]
        BY <3>2
      <4> QED
        BY <4>1, <4>2
    <3> QED
      BY <3>3, <3>4
  <2>2. CASE ~Kill(p)
    BY <2>2 DEF Exit, Exited, StartRead, StartWrite, Become, States, Sleeping, Deciding
  <2> QED
    BY <2>1, <2>2
<1>3. TypeOK'
  <2>1. killed' \in [Proc -> BOOLEAN]
    BY DEF Inv, TypeOK, Exit, Exited, Kill, StartRead, StartWrite
  <2>2. buf' \in [Proc -> Seq(Byte)]
    BY PipeAssumption DEF Inv, TypeOK, Exit, Exited, Kill, StartRead, StartWrite
  <2>3. pc' \in [Proc -> States]
    BY <1>2 DEF Inv, TypeOK
  <2> QED
    BY <1>1, <2>1, <2>2, <2>3 DEF Inv, TypeOK
<1>4. SleepInv'
  <2>1. \A q \in Proc : pc'[q] \in Sleeping \cup Deciding => pc'[q] = pc[q]
    BY <1>2 DEF Inv, TypeOK
  <2> QED
    BY <1>1, <2>1, PipeKept DEF Inv
<1> QED
  BY <1>3, <1>4 DEF Inv

LEMMA SleepStep ==
  ASSUME Inv, NEW p \in Proc, Sleep(p)
  PROVE  Inv'
<1>1. /\ pc[p] \in Deciding /\ pc' = [pc EXCEPT ![p] = IF pc[p] = "rdecide" THEN "rsleep" ELSE "wsleep"]
      /\ UNCHANGED <<data, nread, nwrite, open, ref, fd, closing, buf, killed, got, cut>>
  BY DEF Sleep, Become, pipeVars, fileVars
<1>2. TypeOK'
  BY <1>1 DEF Inv, TypeOK, States, Sleeping
<1>3. SleepInv'
  BY <1>1 DEF Inv, TypeOK, SleepInv, Full, Deciding
<1> QED
  BY <1>2, <1>3 DEF Inv

-----------------------------------------------------------------------------
(* pipewrite(): what does not fit finds the pipe full; a writer that sees a  *)
(* pipe full from the start adds nothing.                                   *)
LEMMA WriteInv ==
  ASSUME Inv, NEW p \in Proc, Write(p)
  PROVE  Inv'
<1>1. PICK k \in 0..Len(buf[p]) :
        /\ k = Fits(p)
        /\ \A j \in 0..(k - 1) : ~Full(nread, (nwrite + j) % Width)
        /\ k = Len(buf[p]) \/ Full(nread, (nwrite + k) % Width)
  BY FitsExist DEF Inv
<1> DEFINE fails == k # Len(buf[p]) /\ ("r" \notin open \/ killed[p])
           ends == k = Len(buf[p])
<1>2. /\ pc[p] = "write" /\ LockFree
      /\ nwrite' = (nwrite + k) % Width
      /\ buf' = [buf EXCEPT ![p] = IF fails THEN <<>> ELSE SubSeq(buf[p], k + 1, Len(buf[p]))]
      /\ pc' = [(IF fails THEN pc ELSE Wake("rsleep")) EXCEPT
                  ![p] = IF ends \/ fails THEN "run" ELSE "wdecide"]
      /\ cut' = (cut \/ (fails /\ k > 0))
      /\ UNCHANGED <<nread, open, ref, fd, closing, killed, got>>
  BY <1>1 DEF Write, fileVars
<1>3. /\ data' = [i \in DOMAIN data |->
                    IF \E j \in 1..k : (nwrite + j - 1) % PIPESIZE = i
                    THEN buf[p][CHOOSE j \in 1..k : (nwrite + j - 1) % PIPESIZE = i]
                    ELSE data[i]]
  BY <1>1 DEF Write
<1>4. Len(buf[p]) \in Nat /\ buf[p] \in Seq(Byte) /\ nwrite \in 0..(Width - 1) /\ Width \in Nat \ {0}
  BY PipeAssumption DEF Inv, TypeOK
<1>5. TypeOK'
  <2>1. data' \in [0..(PIPESIZE - 1) -> Byte]
    <3>1. ASSUME NEW i \in DOMAIN data, \E j \in 1..k : (nwrite + j - 1) % PIPESIZE = i
          PROVE  buf[p][CHOOSE j \in 1..k : (nwrite + j - 1) % PIPESIZE = i] \in Byte
      <4>1. (CHOOSE j \in 1..k : (nwrite + j - 1) % PIPESIZE = i) \in 1..k
        BY <3>1
      <4>2. \A j \in 1..k : j \in 1..Len(buf[p])
        BY <1>4
      <4> QED
        BY <1>4, <4>1, <4>2, ElementOfSeq
    <3>2. DOMAIN data = 0..(PIPESIZE - 1) /\ \A i \in DOMAIN data : data[i] \in Byte
      BY DEF Inv, TypeOK
    <3> QED
      BY <1>3, <3>1, <3>2
  <2>2. nwrite' \in 0..(Width - 1)
    <3>1. nwrite + k \in Int
      BY <1>4
    <3>2. (nwrite + k) % Width \in 0..(Width - 1)
      BY <1>4, <3>1, Modulo
    <3> QED
      BY <1>2, <3>2
  <2>3. buf' \in [Proc -> Seq(Byte)]
    <3>1. SubSeq(buf[p], k + 1, Len(buf[p])) \in Seq(Byte)
      <4>1. k + 1 \in Int /\ Len(buf[p]) \in Int
        BY <1>4
      <4>2. \A i \in (k + 1)..Len(buf[p]) : i \in 1..Len(buf[p])
        BY <1>4
      <4>3. \A i \in (k + 1)..Len(buf[p]) : buf[p][i] \in Byte
        BY <1>4, <4>2, ElementOfSeq
      <4> QED
        BY <4>1, <4>3, SubSeqProperties
    <3>2. <<>> \in Seq(Byte)
      OBVIOUS
    <3> HIDE DEF fails
    <3> QED
      BY <1>2, <3>1, <3>2 DEF Inv, TypeOK
  <2>4. pc' \in [Proc -> States]
    <3>1. Wake("rsleep") \in [Proc -> States] /\ pc \in [Proc -> States]
      BY DEF Inv, TypeOK, Wake, States
    <3>2. PICK s \in {"run", "wdecide"}, f \in [Proc -> States] : pc' = [f EXCEPT ![p] = s]
      BY <1>2, <3>1
    <3> QED
      BY <3>2 DEF States, Deciding
  <2>5. cut' \in BOOLEAN
    BY <1>2 DEF Inv, TypeOK
  <2> QED
    BY <1>2, <2>1, <2>2, <2>3, <2>4, <2>5 DEF Inv, TypeOK
<1>6. Full(nread, nwrite) => k = 0
  <2> SUFFICES ASSUME Full(nread, nwrite), k # 0 PROVE FALSE
    OBVIOUS
  <2>1. 0 \in 0..(k - 1)
    BY <1>4
  <2>2. nwrite + 0 = nwrite /\ nwrite % Width = nwrite
    BY <1>4, SmallModulo, SMTT(30)
  <2> QED
    BY <1>1, <2>1, <2>2
<1>7. k = 0 => nwrite' = nwrite
  <2>1. nwrite + 0 = nwrite /\ nwrite % Width = nwrite
    BY <1>4, SmallModulo
  <2> QED
    BY <1>2, <2>1
<1>8. SleepInv'
  <2> SUFFICES ASSUME NEW q \in Proc
               PROVE  /\ pc'[q] = "rsleep" => "w" \in open' /\ (~cut' => nread' = nwrite')
                      /\ pc'[q] = "rdecide" => "w" \in open' /\ nread' = nwrite'
                      /\ pc'[q] \in {"wdecide", "wsleep"} => "r" \in open' /\ Full(nread', nwrite')
    BY DEF SleepInv, Full
  <2>1. CASE q = p
    <3>1. pc'[p] = IF ends \/ fails THEN "run" ELSE "wdecide"
      BY <1>2 DEF Inv, TypeOK, Wake
    <3>2. ~ends /\ ~fails => "r" \in open /\ Full(nread, nwrite')
      BY <1>1, <1>2
    <3> HIDE DEF ends, fails
    <3> QED
      BY <1>2, <2>1, <3>1, <3>2
  <2>2. CASE q # p
    <3>1. pc[q] \notin Deciding
      BY <1>2 DEF LockFree
    <3>2. pc'[q] = IF fails THEN pc[q] ELSE IF pc[q] = "rsleep" THEN "read" ELSE pc[q]
      BY <1>2, <2>2 DEF Inv, TypeOK, Wake, Woken
    <3>3. CASE pc'[q] = "rsleep"
      <4>1. fails /\ pc[q] = "rsleep"
        BY <3>2, <3>3
      <4>2. ~cut' => ~cut /\ k = 0
        <5>1. ~cut' => ~cut /\ ~(k > 0)
          BY <1>2, <4>1, Zenon
        <5> QED
          BY <1>4, <5>1
      <4> QED
        BY <1>2, <1>7, <3>3, <4>1, <4>2 DEF Inv, SleepInv
    <3>4. CASE pc'[q] = "wsleep"
      <4>1. "r" \in open /\ Full(nread, nwrite)
        BY <3>2, <3>4 DEF Inv, SleepInv
      <4> QED
        BY <1>2, <1>6, <1>7, <3>4, <4>1
    <3> QED
      BY <3>1, <3>2, <3>3, <3>4 DEF Deciding
  <2> QED
    BY <2>1, <2>2
<1> QED
  BY <1>5, <1>8 DEF Inv

LEMMA ContentType ==
  ASSUME TypeOK
  PROVE  Filled \in Nat /\ Content \in Seq(Byte) /\ Len(Content) = Filled
<1>1. Width \in Nat \ {0} /\ PIPESIZE \in Nat \ {0} /\ nread \in Int /\ nwrite \in Int
  BY PipeAssumption DEF TypeOK
<1>2. Filled \in Nat
  BY <1>1, Modulo DEF Filled
<1>3. \A i \in 1..Filled : data[(nread + i - 1) % PIPESIZE] \in Byte
  <2> SUFFICES ASSUME NEW i \in 1..Filled PROVE data[(nread + i - 1) % PIPESIZE] \in Byte
    OBVIOUS
  <2>1. nread + i - 1 \in Int
    BY <1>1, <1>2
  <2>2. (nread + i - 1) % PIPESIZE \in 0..(PIPESIZE - 1)
    BY <1>1, <2>1, Modulo
  <2> QED
    BY <2>2 DEF TypeOK
<1>4. Content \in [1..Filled -> Byte]
  BY <1>3 DEF Content
<1> HIDE DEF Content, Filled
<1> QED
  BY <1>2, <1>4

LEMMA ReadInv ==
  ASSUME Inv, NEW p \in Proc, NEW n \in ReadSizes, Read(p, n)
  PROVE  Inv'
<1> DEFINE k == IF n < Filled THEN n ELSE Filled
           empty == nread = nwrite /\ "w" \in open
<1>1. /\ pc[p] = "read" /\ LockFree
      /\ IF empty
         THEN pc' = [pc EXCEPT ![p] = IF killed[p] THEN "run" ELSE "rdecide"] /\ UNCHANGED <<nread, got>>
         ELSE /\ got' = SubSeq(Content, 1, k) /\ nread' = (nread + k) % Width
              /\ pc' = [Wake("wsleep") EXCEPT ![p] = "run"]
      /\ UNCHANGED <<data, nwrite, open, ref, fd, closing, buf, killed, cut>>
  BY DEF Read, Become, fileVars
<1>2. Filled \in Nat /\ Content \in Seq(Byte) /\ Len(Content) = Filled /\ n \in Nat
  BY ContentType, PipeAssumption DEF Inv
<1>3. k \in 0..Filled
  BY <1>2
<1> HIDE DEF k
<1>4. TypeOK'
  <2>1. SubSeq(Content, 1, k) \in Seq(Byte)
    <3>1. 1 \in Int /\ k \in Int /\ \A i \in 1..k : i \in 1..Len(Content)
      BY <1>2, <1>3
    <3>2. \A i \in 1..k : Content[i] \in Byte
      BY <1>2, <3>1, ElementOfSeq
    <3> QED
      BY <3>1, <3>2, SubSeqProperties
  <2>2. (nread + k) % Width \in 0..(Width - 1)
    <3>1. nread + k \in Int /\ Width \in Nat \ {0}
      BY <1>2, <1>3, PipeAssumption DEF Inv, TypeOK
    <3> QED
      BY <3>1, Modulo
  <2>3. pc' \in [Proc -> States]
    <3>1. Wake("wsleep") \in [Proc -> States] /\ pc \in [Proc -> States]
      BY DEF Inv, TypeOK, Wake, States
    <3>2. PICK s \in {"run", "rdecide"}, f \in [Proc -> States] : pc' = [f EXCEPT ![p] = s]
      BY <1>1, <3>1
    <3> QED
      BY <3>2 DEF States, Deciding
  <2> HIDE DEF empty
  <2> QED
    BY <1>1, <2>1, <2>2, <2>3 DEF Inv, TypeOK
<1>5. SleepInv'
  <2> SUFFICES ASSUME NEW q \in Proc
               PROVE  /\ pc'[q] = "rsleep" => "w" \in open' /\ (~cut' => nread' = nwrite')
                      /\ pc'[q] = "rdecide" => "w" \in open' /\ nread' = nwrite'
                      /\ pc'[q] \in {"wdecide", "wsleep"} => "r" \in open' /\ Full(nread', nwrite')
    BY DEF SleepInv, Full
  <2>1. \A r \in Proc : pc[r] \notin Deciding
    BY <1>1 DEF LockFree
  <2>2. CASE empty
    <3>1. UNCHANGED <<nread, nwrite, open, cut>>
      BY <1>1, <2>2
    <3>2. pc'[q] = IF q = p THEN (IF killed[p] THEN "run" ELSE "rdecide") ELSE pc[q]
      BY <1>1, <2>2 DEF Inv, TypeOK
    <3>3. CASE q = p
      BY <2>2, <3>1, <3>2, <3>3
    <3>4. CASE q # p
      BY <2>1, <3>1, <3>2, <3>4 DEF Inv, SleepInv, Deciding
    <3> QED
      BY <3>3, <3>4
  <2>3. CASE ~empty
    <3>1. pc'[q] = IF q = p THEN "run" ELSE IF pc[q] = "wsleep" THEN "write" ELSE pc[q]
      BY <1>1, <2>3 DEF Inv, TypeOK, Wake, Woken
    <3>2. pc'[q] = "rsleep" => "w" \in open /\ cut
      BY <2>3, <3>1 DEF Inv, SleepInv
    <3> HIDE DEF empty
    <3> QED
      BY <1>1, <2>1, <3>1, <3>2 DEF Deciding
  <2> QED
    BY <2>2, <2>3
<1> QED
  BY <1>4, <1>5 DEF Inv

LEMMA NextInv == Inv /\ [Next]_vars => Inv'
<1> SUFFICES ASSUME Inv, [Next]_vars PROVE Inv'
  OBVIOUS
<1>1. CASE UNCHANGED vars
  BY <1>1 DEF vars, pipeVars, fileVars, Inv, TypeOK, SleepInv, Full
<1>2. CASE Next
  BY <1>2, NewPipeInv, ForkInv, DupInv, CloseInv, PipeCloseInv, ProcessInv, WriteInv, ReadInv, SleepStep
     DEF Next
<1> QED
  BY <1>1, <1>2

-----------------------------------------------------------------------------
(* References.                                                             *)
LEMMA DescriptorsFinite ==
  ASSUME TypeOK, NEW e \in End
  PROVE  /\ IsFiniteSet(Descriptors(e)) /\ Cardinality(Descriptors(e)) \in Nat
         /\ \A p \in Proc : fd[p][e] > 0 => Cardinality(Descriptors(e)) > 0
<1>1. IsFiniteSet(Proc) /\ IsFiniteSet(1..MaxFd)
  BY PipeAssumption, FS_Interval
<1>2. IsFiniteSet(Proc \X (1..MaxFd))
  BY <1>1, FS_Product
<1>3. IsFiniteSet(Descriptors(e))
  BY <1>2, FS_Subset DEF Descriptors
<1>4. ASSUME NEW p \in Proc, fd[p][e] > 0 PROVE Cardinality(Descriptors(e)) > 0
  <2>1. fd[p][e] \in 0..MaxFd /\ MaxFd \in Nat
    BY PipeAssumption DEF TypeOK
  <2>2. <<p, 1>> \in Descriptors(e)
    BY <1>4, <2>1 DEF Descriptors
  <2>3. Cardinality(Descriptors(e)) # 0
    BY <1>3, <2>2, FS_EmptySet
  <2> QED
    BY <1>3, <2>3, FS_CardinalityType
<1> QED
  BY <1>3, <1>4, FS_CardinalityType

(* One descriptor more, as with dup().                                      *)
LEMMA DescriptorAdded ==
  ASSUME TypeOK, NEW p \in Proc, NEW e \in End, fd[p][e] < MaxFd,
         fd' = [fd EXCEPT ![p][e] = fd[p][e] + 1]
  PROVE  /\ Cardinality(Descriptors(e)') = Cardinality(Descriptors(e)) + 1
         /\ \A f \in End : f # e => Descriptors(f)' = Descriptors(f)
<1>1. fd[p][e] \in Nat /\ MaxFd \in Nat /\ fd[p][e] + 1 \in 1..MaxFd
  BY PipeAssumption DEF TypeOK
<1>2. /\ fd'[p][e] = fd[p][e] + 1
      /\ \A q \in Proc, f \in End : <<q, f>> # <<p, e>> => fd'[q][f] = fd[q][f]
  BY DEF TypeOK
<1>3. \A q \in Proc, f \in End : fd[q][f] \in Nat
  BY DEF TypeOK
<1>4. Descriptors(e)' = Descriptors(e) \cup {<<p, fd[p][e] + 1>>}
  <2>1. ASSUME NEW d \in Proc \X (1..MaxFd)
        PROVE  d[2] <= fd'[d[1]][e] <=> d[2] <= fd[d[1]][e] \/ d = <<p, fd[p][e] + 1>>
    <3>1. CASE d[1] = p
      BY <1>1, <1>2, <3>1
    <3>2. CASE d[1] # p
      BY <1>2, <3>2
    <3> QED
      BY <3>1, <3>2
  <2>2. <<p, fd[p][e] + 1>> \in Proc \X (1..MaxFd)
    BY <1>1
  <2> QED
    BY <2>1, <2>2 DEF Descriptors
<1>5. <<p, fd[p][e] + 1>> \notin Descriptors(e)
  BY <1>1 DEF Descriptors
<1>6. \A f \in End : f # e => Descriptors(f)' = Descriptors(f)
  BY <1>2 DEF Descriptors
<1> QED
  BY <1>4, <1>5, <1>6, DescriptorsFinite, FS_AddElement

(* One less, as with close().                                              *)
LEMMA DescriptorDropped ==
  ASSUME TypeOK, NEW p \in Proc, NEW e \in End, fd[p][e] > 0,
         fd' = [fd EXCEPT ![p][e] = fd[p][e] - 1]
  PROVE  /\ Cardinality(Descriptors(e)') = Cardinality(Descriptors(e)) - 1
         /\ \A f \in End : f # e => Descriptors(f)' = Descriptors(f)
<1>1. fd[p][e] \in 1..MaxFd /\ MaxFd \in Nat
  BY PipeAssumption DEF TypeOK
<1>2. /\ fd'[p][e] = fd[p][e] - 1
      /\ \A q \in Proc, f \in End : <<q, f>> # <<p, e>> => fd'[q][f] = fd[q][f]
  BY DEF TypeOK
<1>3. \A q \in Proc, f \in End : fd[q][f] \in Nat
  BY DEF TypeOK
<1>4. Descriptors(e)' = Descriptors(e) \ {<<p, fd[p][e]>>}
  <2>1. ASSUME NEW d \in Proc \X (1..MaxFd)
        PROVE  d[2] <= fd'[d[1]][e] <=> d[2] <= fd[d[1]][e] /\ d # <<p, fd[p][e]>>
    <3>1. CASE d[1] = p
      BY <1>1, <1>2, <3>1
    <3>2. CASE d[1] # p
      BY <1>2, <3>2
    <3> QED
      BY <3>1, <3>2
  <2> QED
    BY <2>1 DEF Descriptors
<1>5. <<p, fd[p][e]>> \in Descriptors(e)
  BY <1>1 DEF Descriptors
<1>6. \A f \in End : f # e => Descriptors(f)' = Descriptors(f)
  BY <1>2 DEF Descriptors
<1>7. Cardinality(Descriptors(e) \ {<<p, fd[p][e]>>}) = Cardinality(Descriptors(e)) - 1
  BY <1>5, DescriptorsFinite, FS_RemoveElement
<1> QED
  BY <1>4, <1>6, <1>7

(* All of the parent's once more, as with fork().                           *)
LEMMA DescriptorsInherited ==
  ASSUME TypeOK, NEW p \in Proc, NEW c \in Proc, NEW e \in End, fd[c][e] = 0,
         fd' = [fd EXCEPT ![c] = fd[p]]
  PROVE  Cardinality(Descriptors(e)') = Cardinality(Descriptors(e)) + fd[p][e]
<1> DEFINE n == fd[p][e]
           new == {c} \X (1..n)
<1>1. n \in 0..MaxFd /\ MaxFd \in Nat
  BY PipeAssumption DEF TypeOK
<1>2. /\ fd'[c][e] = n
      /\ \A q \in Proc : q # c => fd'[q][e] = fd[q][e]
  BY DEF TypeOK
<1>3. Descriptors(e)' = Descriptors(e) \cup new
  <2>1. ASSUME NEW d \in Proc \X (1..MaxFd)
        PROVE  d[2] <= fd'[d[1]][e] <=> d[2] <= fd[d[1]][e] \/ d \in new
    <3>1. CASE d[1] = c
      BY <1>1, <1>2, <3>1
    <3>2. CASE d[1] # c
      BY <1>2, <3>2
    <3> QED
      BY <3>1, <3>2
  <2>2. new \subseteq Proc \X (1..MaxFd)
    BY <1>1
  <2> HIDE DEF new
  <2> QED
    BY <2>1, <2>2 DEF Descriptors
<1>4. Descriptors(e) \cap new = {}
  BY <1>1 DEF Descriptors
<1>5. IsFiniteSet(new) /\ Cardinality(new) = n
  <2>1. IsFiniteSet({c}) /\ Cardinality({c}) = 1
    BY FS_Singleton
  <2>2. IsFiniteSet(1..n) /\ Cardinality(1..n) = n
    <3>1. 1 \in Int /\ n \in Int
      BY <1>1
    <3>2. IsFiniteSet(1..n) /\ Cardinality(1..n) = IF 1 > n THEN 0 ELSE n - 1 + 1
      BY <3>1, FS_Interval
    <3> QED
      BY <1>1, <3>2
  <2> HIDE DEF n
  <2>3. IsFiniteSet(new) /\ Cardinality(new) = Cardinality({c}) * Cardinality(1..n)
    BY <2>1, <2>2, FS_Product, Zenon
  <2> QED
    BY <1>1, <2>1, <2>2, <2>3
<1> HIDE DEF n, new
<1>6. Cardinality(Descriptors(e) \cup new)
        = Cardinality(Descriptors(e)) + Cardinality(new) - Cardinality(Descriptors(e) \cap new)
  BY <1>5, DescriptorsFinite, FS_Union
<1>7. Cardinality(Descriptors(e) \cap new) = 0
  BY <1>4, FS_EmptySet
<1> QED
  BY <1>1, <1>3, <1>5, <1>6, <1>7, DescriptorsFinite DEF n

(* Steps that leave descriptors and files alone.                            *)
LEMMA FilesKept ==
  ASSUME FileInv, UNCHANGED <<open, ref, fd, closing>>,
         \A q \in Proc : /\ pc'[q] = "unused" => pc[q] = "unused" \/ fd[q] = [e \in End |-> 0]
                         /\ pc'[q] \in Reading => pc[q] \in Reading \/ fd[q]["r"] > 0
                         /\ pc'[q] \in Writing => pc[q] \in Writing \/ fd[q]["w"] > 0
  PROVE  FileInv'
<1>1. EndsAgree'
  BY DEF FileInv, EndsAgree, Descriptors
<1>2. \A q \in Proc : closing'[q] # None =>
        /\ ref'[closing'[q]] = 0
        /\ \A r \in Proc : closing'[r] = closing'[q] => r = q
  BY DEF FileInv
<1>3. \A q \in Proc : /\ pc'[q] = "unused" => fd'[q] = [e \in End |-> 0]
                      /\ pc'[q] \in Reading => fd'[q]["r"] > 0
                      /\ pc'[q] \in Writing => fd'[q]["w"] > 0
  BY DEF FileInv
<1> QED
  BY <1>1, <1>2, <1>3 DEF FileInv

LEMMA OtherSteps ==
  ASSUME Inv, FileInv, NEW p \in Proc,
         \/ Exit(p) \/ Exited(p) \/ Kill(p) \/ StartRead(p) \/ Write(p) \/ Sleep(p)
         \/ \E s \in Strings : StartWrite(p, s)
         \/ \E n \in ReadSizes : Read(p, n)
  PROVE  FileInv'
<1>1. UNCHANGED <<open, ref, fd, closing>>
  BY DEF Exit, Exited, Kill, StartRead, Write, Sleep, StartWrite, Read, fileVars
<1>2. pc \in [Proc -> States]
  BY DEF Inv, TypeOK
<1>3. ASSUME NEW q \in Proc
      PROVE  /\ pc'[q] = "unused" => pc[q] = "unused" \/ fd[q] = [e \in End |-> 0]
             /\ pc'[q] \in Reading => pc[q] \in Reading \/ fd[q]["r"] > 0
             /\ pc'[q] \in Writing => pc[q] \in Writing \/ fd[q]["w"] > 0
  <2> USE DEF Reading, Writing
  <2>1. CASE Exit(p) \/ Exited(p)
    BY <1>2, <2>1 DEF Exit, Exited, Become
  <2>2. CASE Kill(p)
    BY <1>2, <2>2 DEF Kill
  <2>3. CASE StartRead(p) \/ \E s \in Strings : StartWrite(p, s)
    BY <1>2, <2>3 DEF StartRead, StartWrite, Become
  <2>4. CASE Sleep(p)
    BY <1>2, <2>4 DEF Sleep, Become, Deciding
  <2>5. CASE Write(p)
    <3>1. pc'[q] = pc[q] \/ (pc[q] = "rsleep" /\ pc'[q] = "read")
            \/ (q = p /\ pc'[q] \in {"run", "wdecide"} /\ pc[q] = "write")
      BY <1>2, <2>5 DEF Write, Wake, Woken
    <3> QED
      BY <3>1
  <2>6. CASE \E n \in ReadSizes : Read(p, n)
    <3>1. pc'[q] = pc[q] \/ (pc[q] = "wsleep" /\ pc'[q] = "write")
            \/ (q = p /\ pc'[q] \in {"run", "rdecide"} /\ pc[q] = "read")
      BY <1>2, <2>6 DEF Read, Wake, Woken, Become
    <3> QED
      BY <3>1
  <2> QED
    BY <2>1, <2>2, <2>3, <2>4, <2>5, <2>6
<1> QED
  BY <1>1, <1>3, FilesKept

(* pipealloc() finds no descriptor of the pipe before.                      *)
LEMMA NewPipeFiles ==
  ASSUME Inv, FileInv, NEW p \in Proc, NewPipe(p)
  PROVE  FileInv'
<1>1. /\ open = {} /\ ref = [e \in End |-> 0] /\ pc[p] = "run"
      /\ open' = End /\ ref' = [e \in End |-> 1] /\ fd' = [fd EXCEPT ![p] = [e \in End |-> 1]]
      /\ UNCHANGED <<closing, pc>>
  BY DEF NewPipe, Runs
<1>2. \A q \in Proc : closing[q] = None
  BY <1>1 DEF FileInv, EndsAgree, Inv, TypeOK
<1>3. \A q \in Proc, e \in End : fd[q][e] = 0
  <2> SUFFICES ASSUME NEW q \in Proc, NEW e \in End, fd[q][e] # 0 PROVE FALSE
    OBVIOUS
  <2>1. fd[q][e] > 0
    BY DEF Inv, TypeOK
  <2>2. Cardinality(Descriptors(e)) > 0
    BY <2>1, DescriptorsFinite DEF Inv
  <2> QED
    BY <1>1, <2>2 DEF FileInv, EndsAgree
<1>4. ASSUME NEW e \in End PROVE Cardinality(Descriptors(e)') = 1
  <2>1. \A q \in Proc : fd'[q][e] = IF q = p THEN 1 ELSE 0
    BY <1>1, <1>3 DEF Inv, TypeOK
  <2>2. MaxFd \in Nat /\ 1 \in 1..MaxFd
    BY PipeAssumption
  <2>3. \A d \in Proc \X (1..MaxFd) : d[2] <= fd'[d[1]][e] <=> d = <<p, 1>>
    BY <2>1, <2>2
  <2>4. Descriptors(e)' = {<<p, 1>>}
    BY <2>2, <2>3 DEF Descriptors
  <2> QED
    BY <2>4, FS_Singleton
<1>5. EndsAgree'
  BY <1>1, <1>2, <1>4 DEF EndsAgree
<1>6. \A q \in Proc : /\ pc'[q] = "unused" => fd'[q] = [e \in End |-> 0]
                      /\ pc'[q] \in Reading => fd'[q]["r"] > 0
                      /\ pc'[q] \in Writing => fd'[q]["w"] > 0
  BY <1>1 DEF FileInv, Inv, TypeOK, Reading, Writing
<1> QED
  BY <1>1, <1>2, <1>5, <1>6 DEF FileInv

LEMMA DupFiles ==
  ASSUME Inv, FileInv, NEW p \in Proc, NEW e \in End, Dup(p, e)
  PROVE  FileInv'
<1>1. /\ pc[p] = "run" /\ fd[p][e] > 0 /\ fd[p][e] < MaxFd
      /\ fd' = [fd EXCEPT ![p][e] = fd[p][e] + 1] /\ ref' = [ref EXCEPT ![e] = ref[e] + 1]
      /\ UNCHANGED <<open, closing, pc>>
  BY PipeAssumption DEF Dup, Runs
<1>2. /\ Cardinality(Descriptors(e)') = Cardinality(Descriptors(e)) + 1
      /\ \A f \in End : f # e => Descriptors(f)' = Descriptors(f)
  BY <1>1, DescriptorAdded DEF Inv
<1>3. ref[e] > 0 /\ ref[e] \in Nat
  BY <1>1, DescriptorsFinite DEF FileInv, EndsAgree, Inv
<1>4. /\ ref'[e] = ref[e] + 1
      /\ \A f \in End : f # e => ref'[f] = ref[f]
  BY <1>1 DEF Inv, TypeOK
<1>5. EndsAgree'
  <2> SUFFICES ASSUME NEW f \in End
               PROVE  /\ ref'[f] = Cardinality(Descriptors(f)')
                      /\ (f \in open') = (ref'[f] > 0 \/ \E q \in Proc : closing'[q] = f)
    BY DEF EndsAgree
  <2>1. CASE f = e
    BY <1>1, <1>2, <1>3, <1>4, <2>1 DEF FileInv, EndsAgree
  <2>2. CASE f # e
    BY <1>1, <1>2, <1>4, <2>2 DEF FileInv, EndsAgree
  <2> QED
    BY <2>1, <2>2
<1>6. \A q \in Proc : closing'[q] # None =>
        /\ ref'[closing'[q]] = 0
        /\ \A r \in Proc : closing'[r] = closing'[q] => r = q
  BY <1>1, <1>3, <1>4 DEF FileInv, Inv, TypeOK
<1>7. \A q \in Proc : /\ pc'[q] = "unused" => fd'[q] = [f \in End |-> 0]
                      /\ pc'[q] \in Reading => fd'[q]["r"] > 0
                      /\ pc'[q] \in Writing => fd'[q]["w"] > 0
  <2>1. \A q \in Proc : q # p => fd'[q] = fd[q]
    BY <1>1 DEF Inv, TypeOK
  <2> QED
    BY <1>1, <2>1 DEF FileInv, Reading, Writing
<1> QED
  BY <1>5, <1>6, <1>7 DEF FileInv

(* close() of the last descriptor leaves the end open until pipeclose().    *)
LEMMA CloseFiles ==
  ASSUME Inv, FileInv, NEW p \in Proc, NEW e \in End, Close(p, e)
  PROVE  FileInv'
<1>1. /\ pc[p] \in {"run", "exit"} /\ fd[p][e] > 0 /\ closing[p] = None
      /\ fd' = [fd EXCEPT ![p][e] = fd[p][e] - 1] /\ ref' = [ref EXCEPT ![e] = ref[e] - 1]
      /\ closing' = IF ref[e] = 1 THEN [closing EXCEPT ![p] = e] ELSE closing
      /\ UNCHANGED <<open, pc>>
  BY DEF Close, Runs
<1>2. /\ Cardinality(Descriptors(e)') = Cardinality(Descriptors(e)) - 1
      /\ \A f \in End : f # e => Descriptors(f)' = Descriptors(f)
  BY <1>1, DescriptorDropped DEF Inv
<1>3. ref[e] > 0 /\ ref[e] \in Nat
  BY <1>1, DescriptorsFinite DEF FileInv, EndsAgree, Inv
<1>4. /\ ref'[e] = ref[e] - 1
      /\ \A f \in End : f # e => ref'[f] = ref[f]
  BY <1>1 DEF Inv, TypeOK
<1>5. \A q \in Proc : closing'[q] = IF q = p /\ ref[e] = 1 THEN e ELSE closing[q]
  BY <1>1 DEF Inv, TypeOK
<1>6. e # None
  BY PipeAssumption
<1>7. \A q \in Proc : closing[q] # e
  BY <1>3, <1>6 DEF FileInv
<1>8. EndsAgree'
  <2> SUFFICES ASSUME NEW f \in End
               PROVE  /\ ref'[f] = Cardinality(Descriptors(f)')
                      /\ (f \in open') = (ref'[f] > 0 \/ \E q \in Proc : closing'[q] = f)
    BY DEF EndsAgree
  <2>1. CASE f = e
    <3>1. ref'[f] = Cardinality(Descriptors(f)')
      BY <1>2, <1>4, <2>1 DEF FileInv, EndsAgree
    <3>2. f \in open'
      BY <1>1, <1>3, <2>1 DEF FileInv, EndsAgree
    <3>3. CASE ref[e] = 1
      <4>1. closing'[p] = f
        BY <1>5, <2>1, <3>3
      <4> QED
        BY <3>1, <3>2, <4>1
    <3>4. CASE ref[e] # 1
      BY <1>3, <1>4, <2>1, <3>1, <3>2, <3>4
    <3> QED
      BY <3>3, <3>4
  <2>2. CASE f # e
    <3>1. \A q \in Proc : closing'[q] = f <=> closing[q] = f
      BY <1>1, <1>5, <2>2, PipeAssumption
    <3> QED
      BY <1>1, <1>2, <1>4, <2>2, <3>1 DEF FileInv, EndsAgree
  <2> QED
    BY <2>1, <2>2
<1>9. \A q \in Proc : closing'[q] # None =>
        /\ ref'[closing'[q]] = 0
        /\ \A r \in Proc : closing'[r] = closing'[q] => r = q
  <2> SUFFICES ASSUME NEW q \in Proc, closing'[q] # None
               PROVE  /\ ref'[closing'[q]] = 0
                      /\ \A r \in Proc : closing'[r] = closing'[q] => r = q
    OBVIOUS
  <2>1. CASE q = p /\ ref[e] = 1
    BY <1>4, <1>5, <1>7, <2>1
  <2>2. CASE ~(q = p /\ ref[e] = 1)
    <3>1. closing'[q] = closing[q] /\ closing[q] \in End /\ closing[q] # e
      BY <1>5, <1>7, <2>2 DEF Inv, TypeOK
    <3>2. ref'[closing'[q]] = 0
      BY <1>4, <3>1 DEF FileInv
    <3>3. \A r \in Proc : closing'[r] = closing'[q] => r = q
      BY <1>5, <3>1 DEF FileInv
    <3> QED
      BY <3>2, <3>3
  <2> QED
    BY <2>1, <2>2
<1>10. \A q \in Proc : /\ pc'[q] = "unused" => fd'[q] = [f \in End |-> 0]
                       /\ pc'[q] \in Reading => fd'[q]["r"] > 0
                       /\ pc'[q] \in Writing => fd'[q]["w"] > 0
  <2>1. \A q \in Proc : q # p => fd'[q] = fd[q]
    BY <1>1 DEF Inv, TypeOK
  <2> QED
    BY <1>1, <2>1 DEF FileInv, Reading, Writing
<1> QED
  BY <1>8, <1>9, <1>10 DEF FileInv

LEMMA ForkFiles ==
  ASSUME Inv, FileInv, NEW p \in Proc, NEW c \in Proc, Fork(p, c)
  PROVE  FileInv'
<1>1. /\ pc[p] = "run" /\ pc[c] = "unused" /\ p # c
      /\ pc' = [pc EXCEPT ![c] = "run"] /\ fd' = [fd EXCEPT ![c] = fd[p]]
      /\ ref' = [e \in End |-> ref[e] + fd[p][e]]
      /\ UNCHANGED <<open, closing>>
  BY DEF Fork, Runs, Become, Inherited
<1>2. \A e \in End : fd[c][e] = 0
  BY <1>1 DEF FileInv
<1>3. \A e \in End : Cardinality(Descriptors(e)') = Cardinality(Descriptors(e)) + fd[p][e]
  BY <1>1, <1>2, DescriptorsInherited DEF Inv
<1>4. \A e \in End : /\ fd[p][e] \in Nat /\ ref[e] \in Nat
                     /\ fd[p][e] > 0 => ref[e] > 0
                     /\ ref'[e] = ref[e] + fd[p][e]
  <2> SUFFICES ASSUME NEW e \in End
               PROVE  /\ fd[p][e] \in Nat /\ ref[e] \in Nat
                      /\ fd[p][e] > 0 => ref[e] > 0
                      /\ ref'[e] = ref[e] + fd[p][e]
    OBVIOUS
  <2>1. fd[p][e] \in Nat
    BY DEF Inv, TypeOK
  <2> QED
    BY <1>1, <2>1, DescriptorsFinite DEF FileInv, EndsAgree, Inv
<1>5. EndsAgree'
  BY <1>1, <1>3, <1>4 DEF FileInv, EndsAgree
<1>6. \A q \in Proc : closing'[q] # None =>
        /\ ref'[closing'[q]] = 0
        /\ \A r \in Proc : closing'[r] = closing'[q] => r = q
  <2> SUFFICES ASSUME NEW q \in Proc, closing[q] # None
               PROVE  /\ ref'[closing[q]] = 0
                      /\ \A r \in Proc : closing[r] = closing[q] => r = q
    BY <1>1
  <2>1. /\ closing[q] \in End /\ ref[closing[q]] = 0
        /\ \A r \in Proc : closing[r] = closing[q] => r = q
    BY DEF FileInv, Inv, TypeOK
  <2>2. fd[p][closing[q]] = 0
    BY <1>4, <2>1
  <2> QED
    BY <1>4, <2>1, <2>2
<1>7. \A q \in Proc : /\ pc'[q] = "unused" => fd'[q] = [f \in End |-> 0]
                      /\ pc'[q] \in Reading => fd'[q]["r"] > 0
                      /\ pc'[q] \in Writing => fd'[q]["w"] > 0
  BY <1>1 DEF FileInv, Inv, TypeOK, Reading, Writing
<1> QED
  BY <1>5, <1>6, <1>7 DEF FileInv

LEMMA PipeCloseFiles ==
  ASSUME Inv, FileInv, NEW p \in Proc, PipeClose(p)
  PROVE  FileInv'
<1>1. PICK e \in End : e = closing[p]
  BY PipeAssumption DEF PipeClose, Inv, TypeOK
<1>2. /\ open' = open \ {e} /\ closing' = [closing EXCEPT ![p] = None]
      /\ pc' = Wake(OtherEnd(e)) /\ UNCHANGED <<ref, fd>>
  BY <1>1 DEF PipeClose
<1>3. e # None /\ ref[e] = 0 /\ \A q \in Proc : closing[q] = e => q = p
  BY <1>1, PipeAssumption DEF FileInv
<1>4. \A q \in Proc : closing'[q] = IF q = p THEN None ELSE closing[q]
  BY <1>2 DEF Inv, TypeOK
<1>5. EndsAgree'
  <2> SUFFICES ASSUME NEW f \in End
               PROVE  /\ ref'[f] = Cardinality(Descriptors(f)')
                      /\ (f \in open') = (ref'[f] > 0 \/ \E q \in Proc : closing'[q] = f)
    BY DEF EndsAgree
  <2>1. ref'[f] = Cardinality(Descriptors(f)')
    BY <1>2 DEF FileInv, EndsAgree, Descriptors
  <2>2. CASE f = e
    BY <1>2, <1>3, <1>4, <2>1, <2>2
  <2>3. CASE f # e
    <3>1. \A q \in Proc : closing'[q] = f <=> closing[q] = f
      BY <1>1, <1>4, <2>3, PipeAssumption
    <3> QED
      BY <1>2, <2>1, <2>3, <3>1 DEF FileInv, EndsAgree
  <2> QED
    BY <2>2, <2>3
<1>6. \A q \in Proc : closing'[q] # None =>
        /\ ref'[closing'[q]] = 0
        /\ \A r \in Proc : closing'[r] = closing'[q] => r = q
  BY <1>2, <1>4 DEF FileInv
<1>7. \A q \in Proc : /\ pc'[q] = "unused" => fd'[q] = [f \in End |-> 0]
                      /\ pc'[q] \in Reading => fd'[q]["r"] > 0
                      /\ pc'[q] \in Writing => fd'[q]["w"] > 0
  <2>1. \A q \in Proc : pc'[q] = pc[q] \/ (pc[q] = "rsleep" /\ pc'[q] = "read")
                        \/ (pc[q] = "wsleep" /\ pc'[q] = "write")
    BY <1>2 DEF Wake, Woken, OtherEnd
  <2> QED
    BY <1>2, <2>1 DEF FileInv, Reading, Writing
<1> QED
  BY <1>5, <1>6, <1>7 DEF FileInv

LEMMA InitFiles == Init => FileInv
<1> SUFFICES ASSUME Init PROVE FileInv
  OBVIOUS
<1>1. \A e \in End : Descriptors(e) = {}
  <2>1. \A p \in Proc, e \in End : fd[p][e] = 0
    BY DEF Init
  <2>2. \A k \in 1..MaxFd : ~(k <= 0)
    BY PipeAssumption
  <2> QED
    BY <2>1, <2>2 DEF Descriptors
<1>2. \A e \in End : Cardinality(Descriptors(e)) = 0
  BY <1>1, FS_EmptySet
<1>3. EndsAgree
  BY <1>2, PipeAssumption DEF Init, EndsAgree
<1> QED
  BY <1>3 DEF Init, FileInv, Reading, Writing

LEMMA NextFiles == Inv /\ FileInv /\ [Next]_vars => FileInv'
<1> SUFFICES ASSUME Inv, FileInv, [Next]_vars PROVE FileInv'
  OBVIOUS
<1>1. CASE UNCHANGED vars
  BY <1>1, FilesKept DEF vars, pipeVars, fileVars
<1>2. CASE Next
  BY <1>2, NewPipeFiles, ForkFiles, DupFiles, CloseFiles, PipeCloseFiles, OtherSteps DEF Next
<1> QED
  BY <1>1, <1>2

-----------------------------------------------------------------------------
(* The ring is a queue.                                                    *)

(* Never more bytes than the pipe holds, and none in a pipe that is gone.    *)
RingInv == Filled <= PIPESIZE /\ (open = {} => nread = nwrite)

LEMMA Gap ==
  ASSUME TypeOK
  PROVE  /\ Filled \in 0..(Width - 1)
         /\ nwrite = nread + Filled \/ nwrite = nread + Filled - Width
         /\ nread = nwrite <=> Filled = 0
         /\ nread \in 0..(Width - 1) /\ nwrite \in 0..(Width - 1)
         /\ Width \in Nat \ {0} /\ PIPESIZE \in Nat \ {0} /\ PIPESIZE < Width
<1>1. /\ nread \in 0..(Width - 1) /\ nwrite \in 0..(Width - 1)
      /\ Width \in Nat \ {0} /\ PIPESIZE \in Nat \ {0} /\ PIPESIZE < Width
  BY PipeAssumption DEF TypeOK
<1>2. CASE nwrite >= nread
  <2>1. nwrite - nread \in 0..(Width - 1)
    BY <1>1, <1>2
  <2>2. Filled = nwrite - nread
    BY <1>1, <2>1, SmallModulo DEF Filled
  <2> QED
    BY <1>1, <2>1, <2>2
<1>3. CASE nwrite < nread
  <2>1. nwrite - nread + Width \in 0..(Width - 1)
    BY <1>1, <1>3
  <2>2. Congruent(nwrite - nread, nwrite - nread + Width, Width)
    <3>1. nwrite - nread + Width = (nwrite - nread) + 1 * Width
      BY <1>1
    <3> QED
      BY <3>1 DEF Congruent
  <2>3. (nwrite - nread + Width) % Width = (nwrite - nread) % Width
    <3>1. nwrite - nread \in Int /\ nwrite - nread + Width \in Int
      BY <1>1
    <3> QED
      BY <1>1, <2>2, <3>1, SameRemainder
  <2>4. Filled = nwrite - nread + Width
    BY <1>1, <2>1, <2>3, SmallModulo DEF Filled
  <2> QED
    BY <1>1, <1>3, <2>1, <2>4
<1> QED
  BY <1>1, <1>2, <1>3

(* The other way round: the counters say how many bytes there are.          *)
LEMMA GapIs ==
  ASSUME NEW n \in 0..(Width - 1), NEW a \in Int, NEW b \in Int,
         Congruent(a + n, b, Width), Width \in Nat \ {0}
  PROVE  ((b % Width) - (a % Width)) % Width = n
<1> DEFINE r == a % Width
           s == b % Width
<1>0. PICK c \in Int : b = (a + n) + c * Width
  BY DEF Congruent
<1>1. PICK q \in Int : a = q * Width + r
  BY Division
<1>2. PICK t \in Int : b = t * Width + s
  BY Division
<1>3. r \in Int /\ s \in Int
  BY Modulo
<1> HIDE DEF r, s
<1>4. Congruent(n, s - r, Width)
  <2>1. (c + q - t) * Width = c * Width + q * Width - t * Width
    OBVIOUS
  <2>2. s - r = n + (c + q - t) * Width /\ c + q - t \in Int
    BY <1>0, <1>1, <1>2, <1>3, <2>1
  <2> QED
    BY <2>2 DEF Congruent
<1>5. n \in Int /\ s - r \in Int
  BY <1>3
<1>6. (s - r) % Width = n % Width
  BY <1>4, <1>5, SameRemainder
<1> QED
  BY <1>6, SmallModulo DEF r, s

LEMMA ContentIs ==
  ASSUME TypeOK
  PROVE  /\ Content \in Seq(Byte) /\ Len(Content) = Filled /\ Filled \in Nat
         /\ \A i \in 1..Filled : Content[i] = data[(nread + i - 1) % PIPESIZE]
<1>1. \A i \in 1..Filled : Content[i] = data[(nread + i - 1) % PIPESIZE]
  BY DEF Content
<1> QED
  BY <1>1, ContentType

LEMMA EmptyContent ==
  ASSUME TypeOK, Filled = 0
  PROVE  Content = <<>>
BY ContentIs, EmptySeq

(* The byte at the writer's end follows the bytes in the pipe.               *)
LEMMA NextPlace ==
  ASSUME TypeOK, NEW j \in Int
  PROVE  (nwrite + j) % PIPESIZE = (nread + Filled + j) % PIPESIZE
<1>1. /\ nread \in Int /\ Filled \in Int /\ nwrite \in 0..(Width - 1) /\ Width \in Nat \ {0}
      /\ nwrite = nread + Filled \/ nwrite = nread + Filled - Width
  BY Gap
<1>2. nwrite = (nread + Filled) % Width
  <2>1. CASE nwrite = nread + Filled
    BY <1>1, <2>1, SmallModulo
  <2>2. CASE nwrite = nread + Filled - Width
    <3>1. Congruent(nwrite, nread + Filled, Width)
      <4>1. nread + Filled = nwrite + 1 * Width
        BY <1>1, <2>2
      <4> QED
        BY <4>1 DEF Congruent
    <3>2. (nread + Filled) % Width = nwrite % Width
      BY <1>1, <3>1, SameRemainder
    <3> QED
      BY <1>1, <3>2, SmallModulo
  <2> QED
    BY <1>1, <2>1, <2>2
<1>3. nread + Filled \in Int
  BY <1>1
<1> QED
  BY <1>2, <1>3, Wrap

(* pipe.c:86: what fits leaves no more bytes than the pipe holds.            *)
LEMMA FitsInRing ==
  ASSUME TypeOK, RingInv, NEW p \in Proc
  PROVE  Filled + Fits(p) <= PIPESIZE
<1> DEFINE j == PIPESIZE - Filled
<1>1. /\ Fits(p) \in 0..Len(buf[p])
      /\ \A i \in 0..(Fits(p) - 1) : ~Full(nread, (nwrite + i) % Width)
  BY FitsExist
<1>2. Len(buf[p]) \in Nat /\ Fits(p) \in Nat
  BY <1>1 DEF TypeOK
<1>3. /\ nread \in Int /\ Filled \in Nat /\ nwrite \in Int /\ Width \in Nat \ {0}
      /\ PIPESIZE \in Nat \ {0} /\ Filled <= PIPESIZE
      /\ nwrite = nread + Filled \/ nwrite = nread + Filled - Width
  BY Gap DEF RingInv
<1> SUFFICES ASSUME Filled + Fits(p) > PIPESIZE PROVE FALSE
  BY <1>2, <1>3
<1>4. j \in 0..(Fits(p) - 1)
  BY <1>2, <1>3
<1>5. Congruent(nread + PIPESIZE, nwrite + j, Width)
  <2>1. CASE nwrite = nread + Filled
    <3>1. nwrite + j = (nread + PIPESIZE) + 0 * Width
      BY <1>3, <2>1
    <3> QED
      BY <3>1 DEF Congruent
  <2>2. CASE nwrite = nread + Filled - Width
    <3>1. nwrite + j = (nread + PIPESIZE) + (-1) * Width
      BY <1>3, <2>2
    <3> HIDE DEF j
    <3> QED
      BY <3>1 DEF Congruent
  <2> QED
    BY <1>3, <2>1, <2>2
<1>6. nwrite + j \in Int /\ nread + PIPESIZE \in Int
  BY <1>3
<1> HIDE DEF j
<1>7. (nwrite + j) % Width = (nread + PIPESIZE) % Width
  BY <1>3, <1>5, <1>6, SameRemainder
<1> QED
  BY <1>1, <1>4, <1>7 DEF Full

(* pipewrite() appends what fits, and overwrites no byte that is unread.     *)
LEMMA WriteAppends ==
  ASSUME TypeOK, RingInv, NEW p \in Proc, Write(p)
  PROVE  /\ Content' = Content \o SubSeq(buf[p], 1, Fits(p)) /\ Filled' = Filled + Fits(p)
         /\ Fits(p) \in Nat /\ Fits(p) <= Len(buf[p])
<1> DEFINE k == Fits(p)
           new == SubSeq(buf[p], 1, k)
           at(i) == (nread + i - 1) % PIPESIZE
           to(j) == (nwrite + j - 1) % PIPESIZE
<1>1. /\ k \in Nat /\ k <= Len(buf[p]) /\ Filled + k <= PIPESIZE /\ Len(buf[p]) \in Nat
      /\ buf[p] \in Seq(Byte)
  <2>1. Len(buf[p]) \in Nat /\ buf[p] \in Seq(Byte)
    BY DEF TypeOK
  <2>2. Fits(p) \in 0..Len(buf[p]) /\ Filled + Fits(p) <= PIPESIZE
    BY FitsExist, FitsInRing
  <2> QED
    BY <2>1, <2>2
<1>2. /\ nread' = nread /\ nwrite' = (nwrite + k) % Width
      /\ data' = [i \in DOMAIN data |->
                    IF \E j \in 1..k : to(j) = i THEN buf[p][CHOOSE j \in 1..k : to(j) = i]
                    ELSE data[i]]
  BY DEF Write
<1>3. /\ nread \in Int /\ Filled \in Nat /\ nwrite \in 0..(Width - 1) /\ Width \in Nat \ {0}
      /\ nread \in 0..(Width - 1)
      /\ PIPESIZE \in Nat \ {0} /\ PIPESIZE < Width
      /\ nwrite = nread + Filled \/ nwrite = nread + Filled - Width
  BY Gap
<1> HIDE DEF k
<1>4. Filled' = Filled + k
  <2>1. Congruent(nread + (Filled + k), nwrite + k, Width)
    <3>1. CASE nwrite = nread + Filled
      <4>1. nwrite + k = (nread + (Filled + k)) + 0 * Width
        BY <1>1, <1>3, <3>1
      <4> QED
        BY <4>1 DEF Congruent
    <3>2. CASE nwrite = nread + Filled - Width
      <4>1. nwrite + k = (nread + (Filled + k)) + (-1) * Width
        BY <1>1, <1>3, <3>2
      <4> QED
        BY <4>1 DEF Congruent
    <3> QED
      BY <1>3, <3>1, <3>2
  <2>2. Filled + k \in 0..(Width - 1) /\ nwrite + k \in Int
    BY <1>1, <1>3
  <2>3. (((nwrite + k) % Width) - (nread % Width)) % Width = Filled + k
    BY <1>3, <2>1, <2>2, GapIs
  <2>4. nread % Width = nread
    BY <1>3, SmallModulo
  <2> QED
    BY <1>2, <2>3, <2>4 DEF Filled
<1>5. \A j \in 1..k : to(j) = (nread + (Filled + j) - 1) % PIPESIZE
  <2> SUFFICES ASSUME NEW j \in 1..k PROVE to(j) = (nread + (Filled + j) - 1) % PIPESIZE
    OBVIOUS
  <2>1. j - 1 \in Int /\ nwrite + j - 1 = nwrite + (j - 1)
        /\ nread + (Filled + j) - 1 = nread + Filled + (j - 1)
    BY <1>1, <1>3
  <2> QED
    BY <2>1, NextPlace
<1>6. DOMAIN data = 0..(PIPESIZE - 1)
  BY DEF TypeOK
<1>7. \A i \in Int : at(i) \in DOMAIN data
  <2> SUFFICES ASSUME NEW i \in Int PROVE at(i) \in DOMAIN data
    OBVIOUS
  <2>1. nread + i - 1 \in Int
    BY <1>3
  <2> QED
    BY <1>3, <1>6, <2>1, Modulo
<1>8. ASSUME NEW i \in 1..Filled PROVE data'[at(i)] = data[at(i)]
  <2>1. ASSUME NEW j \in 1..k PROVE to(j) # at(i)
    <3>1. /\ nread + i - 1 \in Int /\ nread + (Filled + j) - 1 \in Int
          /\ nread + i - 1 < nread + (Filled + j) - 1
          /\ nread + (Filled + j) - 1 < (nread + i - 1) + PIPESIZE
      BY <1>1, <1>3
    <3>2. (nread + i - 1) % PIPESIZE # (nread + (Filled + j) - 1) % PIPESIZE
      BY <1>3, <3>1, DistinctRemainders
    <3> QED
      BY <1>5, <3>2
  <2>2. at(i) \in DOMAIN data
    BY <1>7
  <2> HIDE DEF at, to
  <2> QED
    BY <1>2, <2>1, <2>2
<1>9. ASSUME NEW j \in 1..k PROVE data'[at(Filled + j)] = buf[p][j]
  <2>1. to(j) = at(Filled + j)
    BY <1>5
  <2>2. ASSUME NEW l \in 1..k, NEW m \in 1..k, l < m PROVE to(l) # to(m)
    <3>1. /\ nread + (Filled + l) - 1 \in Int /\ nread + (Filled + m) - 1 \in Int
          /\ nread + (Filled + l) - 1 < nread + (Filled + m) - 1
          /\ nread + (Filled + m) - 1 < (nread + (Filled + l) - 1) + PIPESIZE
      BY <1>1, <1>3, <2>2
    <3>2. (nread + (Filled + l) - 1) % PIPESIZE # (nread + (Filled + m) - 1) % PIPESIZE
      BY <1>3, <3>1, DistinctRemainders
    <3> QED
      BY <1>5, <3>2
  <2>3. Filled + j \in Int
    BY <1>1, <1>3
  <2>4. at(Filled + j) \in DOMAIN data
    BY <1>7, <2>3
  <2> HIDE DEF at, to
  <2>5. \A l \in 1..k : to(l) = at(Filled + j) => l = j
    <3> SUFFICES ASSUME NEW l \in 1..k, to(l) = to(j), l # j PROVE FALSE
      BY <2>1
    <3>1. l < j \/ j < l
      BY <1>1
    <3> QED
      BY <2>2, <3>1
  <2>6. (CHOOSE l \in 1..k : to(l) = at(Filled + j)) = j
    BY <2>1, <2>5
  <2> QED
    BY <1>2, <2>1, <2>4, <2>6
<1>10. /\ new \in Seq(Byte) /\ Len(new) = k
       /\ \A j \in 1..k : new[j] = buf[p][j]
  <2>1. \A i \in 1..k : i \in 1..Len(buf[p])
    BY <1>1
  <2>2. \A i \in 1..k : buf[p][i] \in Byte
    BY <1>1, <2>1, ElementOfSeq
  <2>3. 1 \in Int /\ k \in Int
    BY <1>1
  <2>4. /\ new \in Seq(Byte)
        /\ Len(new) = IF 1 <= k THEN k - 1 + 1 ELSE 0
        /\ \A j \in 1..(k - 1 + 1) : new[j] = buf[p][1 + j - 1]
    BY <2>2, <2>3, SubSeqProperties
  <2> HIDE DEF new
  <2> QED
    BY <1>1, <2>4
<1>11. /\ Content \in Seq(Byte) /\ Len(Content) = Filled
       /\ \A i \in 1..Filled : Content[i] = data[at(i)]
  BY ContentIs
<1> HIDE DEF new
<1>12. /\ Content \o new \in Seq(Byte) /\ Len(Content \o new) = Filled + k
       /\ \A i \in 1..(Filled + k) :
            (Content \o new)[i] = IF i <= Filled THEN Content[i] ELSE new[i - Filled]
  BY <1>10, <1>11, ConcatProperties
<1>13. Content' = [i \in 1..(Filled + k) |-> data'[at(i)]]
  BY <1>2, <1>4 DEF Content
<1>14. \A i \in 1..(Filled + k) : data'[at(i)] = (Content \o new)[i]
  <2> SUFFICES ASSUME NEW i \in 1..(Filled + k) PROVE data'[at(i)] = (Content \o new)[i]
    OBVIOUS
  <2> HIDE DEF at
  <2>1. CASE i <= Filled
    <3>1. i \in 1..Filled
      BY <1>1, <1>3, <2>1
    <3> QED
      BY <1>8, <1>11, <1>12, <2>1, <3>1
  <2>2. CASE i > Filled
    <3>1. i - Filled \in 1..k /\ Filled + (i - Filled) = i /\ ~(i <= Filled)
      BY <1>1, <1>3, <2>2
    <3>2. data'[at(i)] = buf[p][i - Filled]
      BY <1>9, <3>1
    <3>3. new[i - Filled] = buf[p][i - Filled]
      BY <1>10, <3>1
    <3>4. (Content \o new)[i] = new[i - Filled]
      BY <1>12, <3>1
    <3> HIDE DEF Content
    <3> QED
      BY <3>2, <3>3, <3>4, Zenon
  <2>3. i <= Filled \/ i > Filled
    BY <1>1, <1>3
  <2> QED
    BY <2>1, <2>2, <2>3, Zenon
<1>15. Content' = Content \o new
  <2> HIDE DEF at
  <2>1. DOMAIN (Content \o new) = 1..(Filled + k) /\ Content \o new = [i \in 1..(Filled + k) |-> (Content \o new)[i]]
    BY <1>12, LenProperties
  <2> QED
    BY <1>13, <1>14, <2>1
<1> QED
  BY <1>1, <1>4, <1>15 DEF k, new

(* piperead() takes the oldest bytes.                                       *)
LEMMA ReadTakes ==
  ASSUME TypeOK, NEW k \in 0..Filled, nread' = (nread + k) % Width, data' = data, nwrite' = nwrite
  PROVE  Content' = SubSeq(Content, k + 1, Len(Content)) /\ Filled' = Filled - k
<1> DEFINE at(i) == (nread + i - 1) % PIPESIZE
           rest == SubSeq(Content, k + 1, Len(Content))
<1>1. /\ nread \in Int /\ Filled \in 0..(Width - 1) /\ nwrite \in 0..(Width - 1) /\ Width \in Nat \ {0}
      /\ PIPESIZE \in Nat \ {0} /\ k \in Nat /\ k <= Filled
      /\ nwrite = nread + Filled \/ nwrite = nread + Filled - Width
  BY Gap
<1>2. Filled' = Filled - k
  <2>1. Congruent((nread + k) + (Filled - k), nwrite, Width)
    <3>1. CASE nwrite = nread + Filled
      <4>1. nwrite = ((nread + k) + (Filled - k)) + 0 * Width
        BY <1>1, <3>1
      <4> QED
        BY <4>1 DEF Congruent
    <3>2. CASE nwrite = nread + Filled - Width
      <4>1. nwrite = ((nread + k) + (Filled - k)) + (-1) * Width
        BY <1>1, <3>2
      <4> QED
        BY <4>1 DEF Congruent
    <3> QED
      BY <1>1, <3>1, <3>2
  <2>2. Filled - k \in 0..(Width - 1) /\ nread + k \in Int /\ nwrite \in Int
    BY <1>1
  <2>3. ((nwrite % Width) - ((nread + k) % Width)) % Width = Filled - k
    BY <1>1, <2>1, <2>2, GapIs
  <2>4. nwrite % Width = nwrite
    BY <1>1, SmallModulo
  <2> QED
    BY <2>3, <2>4 DEF Filled
<1>3. /\ Content \in Seq(Byte) /\ Len(Content) = Filled
      /\ \A i \in 1..Filled : Content[i] = data[at(i)]
  BY ContentIs
<1>4. /\ rest \in Seq(Byte) /\ Len(rest) = Filled - k
      /\ \A i \in 1..(Filled - k) : rest[i] = Content[k + i]
  <2>1. k + 1 \in Int /\ Filled \in Int
    BY <1>1
  <2>2. \A i \in (k + 1)..Filled : i \in 1..Len(Content)
    BY <1>1, <1>3
  <2>3. \A i \in (k + 1)..Filled : Content[i] \in Byte
    BY <1>3, <2>2, ElementOfSeq
  <2>4. /\ SubSeq(Content, k + 1, Filled) \in Seq(Byte)
        /\ Len(SubSeq(Content, k + 1, Filled)) = IF k + 1 <= Filled THEN Filled - (k + 1) + 1 ELSE 0
        /\ \A i \in 1..(Filled - (k + 1) + 1) : SubSeq(Content, k + 1, Filled)[i] = Content[(k + 1) + i - 1]
    BY <2>1, <2>3, SubSeqProperties
  <2>5. rest = SubSeq(Content, k + 1, Filled)
    BY <1>3
  <2> HIDE DEF rest
  <2>6. /\ IF k + 1 <= Filled THEN Filled - (k + 1) + 1 = Filled - k ELSE 0 = Filled - k
        /\ Filled - (k + 1) + 1 = Filled - k
        /\ \A i \in 1..(Filled - k) : (k + 1) + i - 1 = k + i
    BY <1>1
  <2> QED
    BY <2>4, <2>5, <2>6
<1>5. Content' = [i \in 1..(Filled - k) |-> data[(nread' + i - 1) % PIPESIZE]]
  BY <1>2 DEF Content
<1>6. \A i \in 1..(Filled - k) : data[(nread' + i - 1) % PIPESIZE] = rest[i]
  <2> SUFFICES ASSUME NEW i \in 1..(Filled - k) PROVE data[(nread' + i - 1) % PIPESIZE] = rest[i]
    OBVIOUS
  <2>1. k + i \in 1..Filled /\ i - 1 \in Int /\ nread + k \in Int
        /\ (nread + k) + (i - 1) = nread + (k + i) - 1
    BY <1>1
  <2>2. nread' \in Int /\ nread' + i - 1 = ((nread + k) % Width) + (i - 1)
    <3>1. (nread + k) % Width \in Int
      BY <1>1, <2>1, Modulo
    <3> QED
      BY <1>1, <3>1
  <2>3. (((nread + k) % Width) + (i - 1)) % PIPESIZE = ((nread + k) + (i - 1)) % PIPESIZE
    BY <2>1, Wrap
  <2>4. (nread' + i - 1) % PIPESIZE = at(k + i)
    BY <2>1, <2>2, <2>3
  <2> HIDE DEF at, rest
  <2> QED
    BY <1>3, <1>4, <2>1, <2>4
<1> HIDE DEF rest
<1>7. rest = [i \in 1..(Filled - k) |-> rest[i]]
  BY <1>4, LenProperties
<1> QED
  BY <1>2, <1>5, <1>6, <1>7 DEF rest

(***************************************************************************)
(* The pipe implements the queue.                                          *)
(***************************************************************************)
QueueInv == Inv /\ FileInv /\ RingInv

LEMMA QueueInit ==
  ASSUME Init
  PROVE  Queue!Init /\ RingInv
<1>1. TypeOK
  BY InitInv DEF Inv
<1>2. Filled = 0
  BY <1>1, Gap DEF Init
<1>3. Content = <<>>
  BY <1>1, <1>2, EmptyContent
<1>4. RingInv
  BY <1>2, PipeAssumption DEF Init, RingInv
<1> QED
  BY <1>3, <1>4 DEF Init, Queue!Init

(* Steps that the users of the pipe do not see.                             *)
LEMMA Unseen ==
  ASSUME RingInv, UNCHANGED <<data, nread, nwrite, open, got>>
  PROVE  UNCHANGED <<Content, open, got>> /\ RingInv'
BY DEF RingInv, Content, Filled

LEMMA UnseenSteps ==
  ASSUME RingInv, NEW p \in Proc,
         \/ Exit(p) \/ Exited(p) \/ Kill(p) \/ StartRead(p) \/ Sleep(p)
         \/ \E s \in Strings : StartWrite(p, s)
         \/ \E c \in Proc : Fork(p, c)
         \/ \E e \in End : Dup(p, e) \/ Close(p, e)
  PROVE  UNCHANGED <<Content, open, got>> /\ RingInv'
<1>1. UNCHANGED <<data, nread, nwrite, open, got>>
  BY DEF Exit, Exited, Kill, StartRead, Sleep, StartWrite, Fork, Dup, Close, pipeVars, fileVars
<1> QED
  BY <1>1, Unseen

LEMMA NewIsNew ==
  ASSUME QueueInv, NEW p \in Proc, NewPipe(p)
  PROVE  Queue!New /\ RingInv'
<1>1. /\ open = {} /\ open' = {"r", "w"} /\ UNCHANGED <<data, nread, nwrite, got>>
  BY DEF NewPipe, pipeVars, End
<1>2. TypeOK /\ Filled = 0
  BY <1>1, Gap DEF QueueInv, Inv, RingInv
<1>3. Content = <<>> /\ Content' = Content /\ Filled' = Filled
  BY <1>1, <1>2, EmptyContent DEF Content, Filled
<1> QED
  BY <1>1, <1>2, <1>3, PipeAssumption DEF Queue!New, RingInv

LEMMA CloseIsShut ==
  ASSUME QueueInv, TypeOK', NEW p \in Proc, PipeClose(p)
  PROVE  (\E e \in {"r", "w"} : Queue!Shut(e)) /\ RingInv'
<1>1. PICK e \in End : e = closing[p]
  BY PipeAssumption DEF PipeClose, QueueInv, Inv, TypeOK
<1>2. /\ open' = open \ {e}
      /\ IF open' = {} THEN nread' = 0 /\ nwrite' = 0 /\ got' = None
         ELSE UNCHANGED <<data, nread, nwrite, got>>
  BY <1>1 DEF PipeClose, pipeVars
<1>3. e \in open
  BY <1>1 DEF QueueInv, FileInv, EndsAgree
<1>4. CASE open' = {}
  <2>1. Filled' = 0
    <3>1. (0 - 0) % Width = 0
      BY PipeAssumption, SmallModulo
    <3> QED
      BY <1>2, <1>4, <3>1 DEF Filled
  <2>2. Content' = <<>>
    <3>1. Content' = [i \in 1..0 |-> data'[(nread' + i - 1) % PIPESIZE]]
      BY <2>1 DEF Content
    <3> QED
      BY <3>1
  <2>3. RingInv'
    BY <1>2, <1>4, <2>1, PipeAssumption DEF RingInv
  <2> QED
    BY <1>2, <1>3, <1>4, <2>2, <2>3 DEF Queue!Shut, End
<1>5. CASE open' # {}
  <2>1. UNCHANGED <<Content, got>> /\ RingInv'
    BY <1>2, <1>5 DEF QueueInv, RingInv, Content, Filled
  <2> QED
    BY <1>2, <1>3, <1>5, <2>1 DEF Queue!Shut, End
<1> QED
  BY <1>4, <1>5

LEMMA WriteIsAdd ==
  ASSUME QueueInv, NEW p \in Proc, Write(p)
  PROVE  /\ \/ \E n \in 1..PIPESIZE : \E s \in [1..n -> Byte] : Queue!Add(s)
            \/ UNCHANGED <<Content, open, got>>
         /\ RingInv'
<1> DEFINE k == Fits(p)
           s == SubSeq(buf[p], 1, k)
<1>1. TypeOK /\ RingInv
  BY DEF QueueInv, Inv
<1>2. /\ Content' = Content \o s /\ Filled' = Filled + k
      /\ k \in Nat /\ k <= Len(buf[p]) /\ Filled + k <= PIPESIZE
      /\ Len(buf[p]) \in Nat /\ buf[p] \in Seq(Byte)
  <2>1. Len(buf[p]) \in Nat /\ buf[p] \in Seq(Byte)
    BY <1>1 DEF TypeOK
  <2> QED
    BY <1>1, <2>1, WriteAppends, FitsInRing
<1>3. "w" \in open /\ UNCHANGED <<nread, open, got>>
  <2>1. pc[p] = "write" /\ UNCHANGED <<nread, open, got>>
    BY DEF Write, fileVars
  <2>2. fd[p]["w"] > 0 /\ "w" \in End
    BY <2>1 DEF QueueInv, FileInv, Writing, End
  <2>3. Cardinality(Descriptors("w")) > 0
    BY <1>1, <2>2, DescriptorsFinite
  <2> QED
    BY <2>1, <2>2, <2>3 DEF QueueInv, FileInv, EndsAgree
<1>4. /\ Content \in Seq(Byte) /\ Len(Content) = Filled /\ Filled \in Nat
  BY <1>1, ContentIs
<1>5. RingInv'
  BY <1>2, <1>3 DEF RingInv
<1> HIDE DEF k
<1>6. /\ s \in Seq(Byte) /\ Len(s) = k
  <2>1. \A i \in 1..k : i \in 1..Len(buf[p])
    BY <1>2
  <2>2. \A i \in 1..k : buf[p][i] \in Byte
    BY <1>2, <2>1, ElementOfSeq
  <2>3. 1 \in Int /\ k \in Int
    BY <1>2
  <2>4. s \in Seq(Byte) /\ Len(s) = IF 1 <= k THEN k - 1 + 1 ELSE 0
    BY <2>2, <2>3, SubSeqProperties
  <2> HIDE DEF s
  <2> QED
    BY <1>2, <2>4
<1> HIDE DEF s
<1>7. CASE k = 0
  <2>1. s = <<>>
    BY <1>6, <1>7, EmptySeq
  <2>2. Content' = Content
    BY <1>2, <1>4, <2>1, ConcatEmptySeq
  <2> QED
    BY <1>3, <1>5, <2>2
<1>8. CASE k # 0
  <2>1. k \in 1..PIPESIZE
    BY <1>2, <1>4, <1>8, PipeAssumption
  <2>2. s \in [1..k -> Byte]
    BY <1>6, LenProperties
  <2>3. Queue!Add(s)
    BY <1>2, <1>3, <1>4, <1>6 DEF Queue!Add
  <2> QED
    BY <1>5, <2>1, <2>2, <2>3
<1> QED
  BY <1>7, <1>8

LEMMA ReadIsTake ==
  ASSUME QueueInv, NEW p \in Proc, NEW n \in ReadSizes, Read(p, n)
  PROVE  /\ \/ \E m \in 1..PIPESIZE : Queue!Take(m)
            \/ Queue!EndOfFile
            \/ UNCHANGED <<Content, open, got>>
         /\ RingInv'
<1> DEFINE k == IF n < Filled THEN n ELSE Filled
<1>1. TypeOK /\ RingInv
  BY DEF QueueInv, Inv
<1>2. /\ pc[p] = "read" /\ UNCHANGED <<data, nwrite, open>>
      /\ IF nread = nwrite /\ "w" \in open THEN UNCHANGED <<nread, got>>
         ELSE got' = SubSeq(Content, 1, k) /\ nread' = (nread + k) % Width
  BY DEF Read, fileVars
<1>3. "r" \in open
  <2>1. fd[p]["r"] > 0 /\ "r" \in End
    BY <1>2 DEF QueueInv, FileInv, Reading, End
  <2>2. Cardinality(Descriptors("r")) > 0
    BY <1>1, <2>1, DescriptorsFinite
  <2> QED
    BY <2>1, <2>2 DEF QueueInv, FileInv, EndsAgree
<1>4. /\ Content \in Seq(Byte) /\ Len(Content) = Filled /\ Filled \in Nat
      /\ Filled <= PIPESIZE /\ (nread = nwrite <=> Filled = 0)
  BY <1>1, ContentIs, Gap DEF RingInv
<1>5. CASE nread = nwrite /\ "w" \in open
  BY <1>1, <1>2, <1>5, Unseen
<1>6. CASE ~(nread = nwrite /\ "w" \in open)
  <2>1. n \in Nat \ {0}
    BY PipeAssumption
  <2>2. k \in 0..Filled /\ (Filled # 0 => k \in 1..Filled)
    BY <1>4, <2>1
  <2> HIDE DEF k
  <2>3. Content' = SubSeq(Content, k + 1, Len(Content)) /\ Filled' = Filled - k
    BY <1>1, <1>2, <1>6, <2>2, ReadTakes
  <2>4. RingInv'
    <3>1. Filled - k <= PIPESIZE
      BY <1>4, <2>2, PipeAssumption
    <3>2. open' # {}
      BY <1>2, <1>3
    <3> QED
      BY <2>3, <3>1, <3>2 DEF RingInv
  <2>5. got' = SubSeq(Content, 1, k)
    BY <1>2, <1>6
  <2>6. CASE Filled = 0
    <3>1. "w" \notin open /\ k = 0
      BY <1>4, <1>6, <2>2, <2>6
    <3>2. Content = <<>> /\ Content' = <<>>
      <4>1. Content = <<>>
        BY <1>4, <2>6, EmptySeq
      <4>2. k + 1 \in Int /\ Len(Content) \in Int /\ Len(Content) < k + 1
        BY <1>4, <2>6, <3>1
      <4> QED
        BY <2>3, <4>1, <4>2, SubSeqEmpty
    <3>3. got' = <<>>
      BY <2>5, <3>1, SubSeqEmpty
    <3>4. Queue!EndOfFile
      BY <1>2, <3>1, <3>2, <3>3 DEF Queue!EndOfFile
    <3> QED
      BY <2>4, <3>4
  <2>7. CASE Filled # 0
    <3>1. k \in 1..PIPESIZE /\ k \in 1..Len(Content)
      BY <1>4, <2>2, <2>7, PipeAssumption
    <3>2. Queue!Take(k)
      BY <1>2, <1>3, <2>3, <2>5, <3>1 DEF Queue!Take
    <3> QED
      BY <2>4, <3>1, <3>2
  <2> QED
    BY <2>6, <2>7
<1> QED
  BY <1>5, <1>6

LEMMA QueueStep ==
  ASSUME QueueInv, [Next]_vars
  PROVE  [Queue!Next]_<<Content, open, got>> /\ RingInv'
<1>1. TypeOK'
  BY NextInv DEF QueueInv, Inv
<1>2. CASE UNCHANGED vars
  BY <1>2, Unseen DEF vars, pipeVars, fileVars, QueueInv
<1>3. CASE Next
  <2> PICK p \in Proc :
        \/ NewPipe(p) \/ \E c \in Proc : Fork(p, c)
        \/ \E e \in End : Dup(p, e) \/ Close(p, e)
        \/ PipeClose(p) \/ Exit(p) \/ Exited(p) \/ Kill(p)
        \/ \E s \in Strings : StartWrite(p, s)
        \/ StartRead(p) \/ \E n \in ReadSizes : Read(p, n)
        \/ Write(p) \/ Sleep(p)
    BY <1>3 DEF Next
  <2>1. CASE NewPipe(p)
    BY <2>1, NewIsNew DEF Queue!Next
  <2>2. CASE PipeClose(p)
    BY <1>1, <2>2, CloseIsShut DEF Queue!Next
  <2>3. CASE Write(p)
    BY <2>3, WriteIsAdd DEF Queue!Next
  <2>4. CASE \E n \in ReadSizes : Read(p, n)
    BY <2>4, ReadIsTake DEF Queue!Next
  <2>5. CASE ~(NewPipe(p) \/ PipeClose(p) \/ Write(p) \/ \E n \in ReadSizes : Read(p, n))
    BY <2>5, UnseenSteps DEF QueueInv
  <2> QED
    BY <2>1, <2>2, <2>3, <2>4, <2>5
<1> QED
  BY <1>2, <1>3

-----------------------------------------------------------------------------
(* The counters, the ends and the processes keep their types.               *)
THEOREM TypeCorrect == Spec => []TypeOK
<1>1. Init => Inv
  BY InitInv
<1>2. Inv /\ [Next]_vars => Inv'
  BY NextInv
<1>3. Inv => TypeOK
  BY DEF Inv
<1> QED
  BY <1>1, <1>2, <1>3, PTL DEF Spec

(* pipe.c:91, 111: readers sleep on an empty pipe that somebody may write,    *)
(* writers on a full one that somebody may read, whatever its size and       *)
(* however many sleep on one channel.                                       *)
THEOREM NobodySleepsForNothing == Spec => []SleepersWait
<1>1. Init => Inv
  BY InitInv
<1>2. Inv /\ [Next]_vars => Inv'
  BY NextInv
<1>3. Inv => SleepersWait
  BY DEF Inv, SleepInv, SleepersWait
<1> QED
  BY <1>1, <1>2, <1>3, PTL DEF Spec

(* f->ref of each end is the number of its descriptors, and the end is open  *)
(* exactly while it has one or its last close() is under way: file.c:57 and  *)
(* pipe.c:59 close each end once, whatever forks, dups, exits and kills.     *)
THEOREM EndsCloseOnce == Spec => []EndsAgree
<1>1. Init => Inv /\ FileInv
  BY InitInv, InitFiles
<1>2. Inv /\ FileInv /\ [Next]_vars => Inv' /\ FileInv'
  BY NextInv, NextFiles
<1>3. FileInv => EndsAgree
  BY DEF FileInv
<1> QED
  BY <1>1, <1>2, <1>3, PTL DEF Spec

(* pipe.c:93, 116: a pipe is a queue of bytes between its ends.  Whatever    *)
(* the sizes of pipe, reads and writes, the wrapping of the counters and the *)
(* interleaving of readers and writers, closes and kills, each byte arrives  *)
(* once and in order, and end of file is reported only when nothing is left. *)
THEOREM PipeIsAQueue == Spec => BytesInOrder
<1>1. Init => QueueInv /\ Queue!Init
  BY InitInv, InitFiles, QueueInit DEF QueueInv
<1>2. QueueInv /\ [Next]_vars => QueueInv' /\ [Queue!Next]_<<Content, open, got>>
  BY NextInv, NextFiles, QueueStep DEF QueueInv
<1> QED
  BY <1>1, <1>2, PTL DEF Spec, BytesInOrder, Queue!Spec

-----------------------------------------------------------------------------
(* The console's ring from here on.                                         *)

(* The characters that are ready and those that can still be edited.        *)
Ready == Con!From(rIndex, wIndex)
Line == Con!From(wIndex, eIndex)
NReady == Con!Distance(rIndex, wIndex)
NLine == Con!Distance(wIndex, eIndex)
Char == Letter \cup {NewLine, EndMark}

(* The line being typed has no end yet, and both fit into the ring.         *)
ConsoleTypes ==
  /\ ring \in [0..(INPUT_BUF - 1) -> Char]
  /\ rIndex \in 0..(IndexWidth - 1) /\ wIndex \in 0..(IndexWidth - 1) /\ eIndex \in 0..(IndexWidth - 1)
  /\ asked \in [Reader -> Nat] /\ wanted \in [Reader -> Nat]
RingFits == NReady + NLine <= INPUT_BUF
LineIsOpen == \A k \in 1..NLine : ring[(wIndex + k - 1) % INPUT_BUF] \notin {NewLine, EndMark}
ConsoleInv == ConsoleTypes /\ RingFits /\ LineIsOpen

LEMMA RingConstants ==
  /\ INPUT_BUF \in Nat \ {0} /\ IndexWidth \in Nat \ {0} /\ INPUT_BUF < IndexWidth /\ IndexWidth % INPUT_BUF = 0
  /\ Lengths \subseteq Nat
BY RingAssumption DEF Con!ConsoleAssumption

-----------------------------------------------------------------------------
(* What is taken modulo m before something is added.                        *)
LEMMA AddModulo ==
  ASSUME NEW a \in Int, NEW x \in Int, NEW m \in Nat \ {0}
  PROVE  ((a % m) + x) % m = (a + x) % m
<1> DEFINE r == a % m
<1>1. PICK q \in Int : a = q * m + r
  BY Division
<1>2. r \in Int
  BY Modulo
<1> HIDE DEF r
<1>3. a + x = (r + x) + q * m /\ r + x \in Int /\ a + x \in Int
  BY <1>1, <1>2
<1>4. Congruent(r + x, a + x, m)
  BY <1>3, Zenon DEF Congruent
<1>5. (a + x) % m = (r + x) % m
  BY <1>3, <1>4, SameRemainder
<1> QED
  BY <1>5 DEF r

(* A place in the ring does not change when an index wraps.                 *)
LEMMA RingWraps ==
  ASSUME NEW a \in Int, NEW x \in Int
  PROVE  ((a % IndexWidth) + x) % INPUT_BUF = (a + x) % INPUT_BUF
<1> DEFINE r == a % IndexWidth
<1>1. IndexWidth \in Nat \ {0} /\ INPUT_BUF \in Nat \ {0} /\ IndexWidth % INPUT_BUF = 0
  BY RingConstants
<1>2. PICK q \in Int : a = q * IndexWidth + r
  BY <1>1, Division
<1>3. PICK t \in Int : IndexWidth = t * INPUT_BUF
  <2>1. IndexWidth \in Int
    BY <1>1
  <2>2. PICK t \in Int : IndexWidth = t * INPUT_BUF + (IndexWidth % INPUT_BUF)
    BY <1>1, <2>1, Division
  <2> QED
    BY <1>1, <2>2
<1>4. r \in Int
  BY <1>1, Modulo
<1> HIDE DEF r
<1>5. Congruent(r + x, a + x, INPUT_BUF)
  <2> DEFINE k == q * t
  <2>1. q * IndexWidth = k * INPUT_BUF
    BY <1>1, <1>3
  <2>2. k \in Int
    OBVIOUS
  <2> HIDE DEF k
  <2>3. k * INPUT_BUF \in Int
    BY <1>1, <2>2
  <2>4. a + x = (r + x) + k * INPUT_BUF
    BY <1>2, <1>4, <2>1, <2>3
  <2> QED
    BY <2>2, <2>4 DEF Congruent
<1>6. r + x \in Int /\ a + x \in Int
  BY <1>4
<1> QED
  BY <1>1, <1>5, <1>6, SameRemainder DEF r

(* Distance() says how far one index is behind another.                     *)
LEMMA DistanceReaches ==
  ASSUME NEW i \in 0..(IndexWidth - 1), NEW j \in 0..(IndexWidth - 1)
  PROVE  Con!Distance(i, j) \in 0..(IndexWidth - 1) /\ (i + Con!Distance(i, j)) % IndexWidth = j
<1> DEFINE d == (j - i) % IndexWidth
<1>1. IndexWidth \in Nat \ {0} /\ i \in Int /\ j \in Int /\ j - i \in Int
  BY RingConstants
<1>2. d \in 0..(IndexWidth - 1) /\ (d + i) % IndexWidth = ((j - i) + i) % IndexWidth
  BY <1>1, Modulo, AddModulo
<1>3. (j - i) + i = j /\ j % IndexWidth = j
  BY <1>1, SmallModulo
<1> HIDE DEF d
<1>4. d + i = i + d
  BY <1>1, <1>2
<1>5. (i + d) % IndexWidth = j
  BY <1>2, <1>3, <1>4
<1>6. Con!Distance(i, j) = d
  BY DEF Con!Distance, d
<1> QED
  BY <1>2, <1>5, <1>6

LEMMA DistanceIs ==
  ASSUME NEW i \in Int, NEW d \in 0..(IndexWidth - 1)
  PROVE  Con!Distance(i % IndexWidth, (i + d) % IndexWidth) = d
<1> DEFINE a == i % IndexWidth
           b == (i + d) % IndexWidth
<1>1. IndexWidth \in Nat \ {0} /\ d \in Int /\ i + d \in Int
  BY RingConstants
<1>2. a \in Int /\ b \in Int
  BY <1>1, Modulo
<1>3. b = (a + d) % IndexWidth
  BY <1>1, AddModulo
<1> HIDE DEF a
<1>4. a + d \in Int /\ -a \in Int
  BY <1>1, <1>2
<1>5. (b + (-a)) % IndexWidth = ((a + d) + (-a)) % IndexWidth
  BY <1>1, <1>3, <1>4, AddModulo
<1> HIDE DEF b
<1>6. b + (-a) = b - a /\ (a + d) + (-a) = d
  BY <1>1, <1>2
<1>7. d % IndexWidth = d
  BY <1>1, SmallModulo
<1>8. Con!Distance(a, b) = (b - a) % IndexWidth
  BY DEF Con!Distance
<1>9. Con!Distance(a, b) = d
  BY <1>5, <1>6, <1>7, <1>8
<1> QED
  BY <1>9 DEF a, b

-----------------------------------------------------------------------------
(* Where the indices are, in terms of the numbers of characters.            *)
LEMMA RingPlaces ==
  ASSUME ConsoleInv
  PROVE  /\ NReady \in Nat /\ NLine \in Nat /\ NReady + NLine \in 0..(IndexWidth - 1)
         /\ rIndex \in Int /\ rIndex = rIndex % IndexWidth
         /\ wIndex = (rIndex + NReady) % IndexWidth
         /\ eIndex = (rIndex + NReady + NLine) % IndexWidth
         /\ Con!Distance(rIndex, eIndex) = NReady + NLine
<1>1. IndexWidth \in Nat \ {0} /\ INPUT_BUF \in Nat /\ INPUT_BUF < IndexWidth
  BY RingConstants
<1>2. rIndex \in 0..(IndexWidth - 1) /\ wIndex \in 0..(IndexWidth - 1) /\ eIndex \in 0..(IndexWidth - 1)
  BY DEF ConsoleInv, ConsoleTypes
<1>3. /\ NReady \in 0..(IndexWidth - 1) /\ (rIndex + NReady) % IndexWidth = wIndex
      /\ NLine \in 0..(IndexWidth - 1) /\ (wIndex + NLine) % IndexWidth = eIndex
  BY <1>2, DistanceReaches DEF NReady, NLine
<1>4. NReady + NLine <= INPUT_BUF
  BY DEF ConsoleInv, RingFits
<1>5. rIndex \in Int /\ rIndex % IndexWidth = rIndex
  BY <1>1, <1>2, SmallModulo
<1>6. rIndex + NReady \in Int /\ NReady \in Int /\ NLine \in Int
  BY <1>1, <1>3, <1>5
<1>7. (((rIndex + NReady) % IndexWidth) + NLine) % IndexWidth = (rIndex + NReady + NLine) % IndexWidth
  BY <1>1, <1>6, AddModulo
<1>8. NReady + NLine \in 0..(IndexWidth - 1) /\ rIndex + NReady + NLine = rIndex + (NReady + NLine)
  BY <1>1, <1>3, <1>4, <1>5, <1>6
<1>9. Con!Distance(rIndex % IndexWidth, (rIndex + (NReady + NLine)) % IndexWidth) = NReady + NLine
  BY <1>5, <1>8, DistanceIs
<1> QED
  BY <1>3, <1>5, <1>6, <1>7, <1>8, <1>9

LEMMA RingSlot ==
  ASSUME NEW x \in Int
  PROVE  x % INPUT_BUF \in 0..(INPUT_BUF - 1)
BY RingConstants, Modulo

LEMMA RingContents ==
  ASSUME ConsoleInv
  PROVE  /\ Ready \in Seq(Char) /\ Len(Ready) = NReady
         /\ \A k \in 1..NReady : Ready[k] = ring[(rIndex + k - 1) % INPUT_BUF]
         /\ Line \in Seq(Char) /\ Len(Line) = NLine
         /\ \A k \in 1..NLine : Line[k] = ring[(rIndex + NReady + k - 1) % INPUT_BUF]
<1>1. NReady \in Nat /\ NLine \in Nat /\ rIndex \in Int /\ wIndex = (rIndex + NReady) % IndexWidth
  BY RingPlaces
<1>2. ring \in [0..(INPUT_BUF - 1) -> Char] /\ wIndex \in Int
  BY <1>1 DEF ConsoleInv, ConsoleTypes
<1>3. \A x \in Int : ring[x % INPUT_BUF] \in Char
  BY <1>2, RingSlot
<1>4. Ready = [k \in 1..NReady |-> ring[(rIndex + k - 1) % INPUT_BUF]]
  BY DEF Ready, NReady, Con!From
<1>5. Line = [k \in 1..NLine |-> ring[(wIndex + k - 1) % INPUT_BUF]]
  BY DEF Line, NLine, Con!From
<1>6. \A k \in 1..NReady : rIndex + k - 1 \in Int
  BY <1>1
<1>7. \A k \in 1..NLine : wIndex + k - 1 \in Int
  BY <1>1, <1>2
<1>8. ASSUME NEW k \in 1..NLine PROVE (wIndex + k - 1) % INPUT_BUF = (rIndex + NReady + k - 1) % INPUT_BUF
  <2>1. rIndex + NReady \in Int /\ k - 1 \in Int
    BY <1>1
  <2>2. (((rIndex + NReady) % IndexWidth) + (k - 1)) % INPUT_BUF = ((rIndex + NReady) + (k - 1)) % INPUT_BUF
    BY <2>1, RingWraps
  <2>3. wIndex + (k - 1) = wIndex + k - 1 /\ (rIndex + NReady) + (k - 1) = rIndex + NReady + k - 1
    BY <1>1, <1>2, <2>1
  <2> QED
    BY <1>1, <2>2, <2>3
<1>9. Ready \in Seq(Char) /\ Len(Ready) = NReady
  <2>1. \A k \in 1..NReady : ring[(rIndex + k - 1) % INPUT_BUF] \in Char
    BY <1>3, <1>6
  <2> QED
    BY <1>1, <1>4, <2>1
<1>10. Line \in Seq(Char) /\ Len(Line) = NLine
  <2>1. \A k \in 1..NLine : ring[(wIndex + k - 1) % INPUT_BUF] \in Char
    BY <1>3, <1>7
  <2> QED
    BY <1>1, <1>5, <2>1
<1> QED
  BY <1>4, <1>5, <1>8, <1>9, <1>10

(* The indices after a step, when there are a ready characters from i on and  *)
(* c that can be edited.                                                    *)
LEMMA RingMoves ==
  ASSUME NEW i \in Int, NEW a \in Nat, NEW c \in Nat, a + c <= INPUT_BUF,
         rIndex' = i % IndexWidth, wIndex' = (i + a) % IndexWidth, eIndex' = (i + a + c) % IndexWidth,
         ring' \in [0..(INPUT_BUF - 1) -> Char]
  PROVE  /\ NReady' = a /\ NLine' = c
         /\ rIndex' \in 0..(IndexWidth - 1) /\ wIndex' \in 0..(IndexWidth - 1) /\ eIndex' \in 0..(IndexWidth - 1)
         /\ Ready' \in Seq(Char) /\ Len(Ready') = a
         /\ \A k \in 1..a : Ready'[k] = ring'[(i + k - 1) % INPUT_BUF]
         /\ Line' \in Seq(Char) /\ Len(Line') = c
         /\ \A k \in 1..c : Line'[k] = ring'[(i + a + k - 1) % INPUT_BUF]
         /\ \A k \in 1..c : ring'[(wIndex' + k - 1) % INPUT_BUF] = Line'[k]
<1>1. IndexWidth \in Nat \ {0} /\ INPUT_BUF \in Nat /\ INPUT_BUF < IndexWidth /\ i + a \in Int /\ i + a + c \in Int
  BY RingConstants
<1>2. a \in 0..(IndexWidth - 1) /\ c \in 0..(IndexWidth - 1)
  BY <1>1
<1>3. Con!Distance(rIndex', wIndex') = a /\ Con!Distance(wIndex', eIndex') = c
  BY <1>1, <1>2, DistanceIs
<1>4. rIndex' \in 0..(IndexWidth - 1) /\ wIndex' \in 0..(IndexWidth - 1) /\ eIndex' \in 0..(IndexWidth - 1)
  BY <1>1, Modulo
<1>5. NReady' = a /\ NLine' = c
  BY <1>3 DEF NReady, NLine, Con!Distance
<1>6. Ready' = [k \in 1..a |-> ring'[(rIndex' + k - 1) % INPUT_BUF]]
  BY <1>3 DEF Ready, Con!From, Con!Distance
<1>7. Line' = [k \in 1..c |-> ring'[(wIndex' + k - 1) % INPUT_BUF]]
  BY <1>3 DEF Line, Con!From, Con!Distance
<1>8. ASSUME NEW k \in 1..a
      PROVE  (rIndex' + k - 1) % INPUT_BUF = (i + k - 1) % INPUT_BUF /\ i + k - 1 \in Int
  <2>1. ((i % IndexWidth) + (k - 1)) % INPUT_BUF = (i + (k - 1)) % INPUT_BUF
    BY RingWraps
  <2>2. rIndex' + (k - 1) = rIndex' + k - 1 /\ i + (k - 1) = i + k - 1 /\ i + k - 1 \in Int
    BY <1>1, <1>4
  <2> QED
    BY <2>1, <2>2
<1>9. ASSUME NEW k \in 1..c
      PROVE  (wIndex' + k - 1) % INPUT_BUF = (i + a + k - 1) % INPUT_BUF /\ i + a + k - 1 \in Int
  <2>1. (((i + a) % IndexWidth) + (k - 1)) % INPUT_BUF = ((i + a) + (k - 1)) % INPUT_BUF
    <3>1. i + a \in Int /\ k - 1 \in Int
      OBVIOUS
    <3> QED
      BY <3>1, RingWraps
  <2>2. wIndex' + (k - 1) = wIndex' + k - 1 /\ (i + a) + (k - 1) = i + a + k - 1 /\ i + a + k - 1 \in Int
    BY <1>1, <1>4
  <2>3. (wIndex' + (k - 1)) % INPUT_BUF = ((i + a) + (k - 1)) % INPUT_BUF
    BY <2>1, Zenon
  <2> QED
    BY <2>2, <2>3, Zenon
<1>10. \A k \in 1..a : Ready'[k] = ring'[(i + k - 1) % INPUT_BUF]
  BY <1>6, <1>8
<1>11. \A k \in 1..c : Line'[k] = ring'[(i + a + k - 1) % INPUT_BUF]
  BY <1>7, <1>9
<1>12. Ready' \in Seq(Char) /\ Len(Ready') = a
  <2>1. \A k \in 1..a : ring'[(rIndex' + k - 1) % INPUT_BUF] \in Char
    BY <1>8, RingSlot
  <2> QED
    BY <1>6, <2>1
<1>13. Line' \in Seq(Char) /\ Len(Line') = c
  <2>1. \A k \in 1..c : ring'[(wIndex' + k - 1) % INPUT_BUF] \in Char
    BY <1>9, RingSlot
  <2> QED
    BY <1>7, <2>1
<1> QED
  BY <1>4, <1>5, <1>7, <1>10, <1>11, <1>12, <1>13

-----------------------------------------------------------------------------
LEMMA ConsoleInit == Con!Init => ConsoleInv /\ Con!Lines!Init
<1> SUFFICES ASSUME Con!Init PROVE ConsoleInv /\ Con!Lines!Init
  OBVIOUS
<1>1. IndexWidth \in Nat \ {0} /\ INPUT_BUF \in Nat \ {0} /\ 0 \in 0..(IndexWidth - 1)
  BY RingConstants
<1>2. rIndex = 0 /\ wIndex = 0 /\ eIndex = 0
  BY DEF Con!Init
<1>3. Con!Distance(0, 0) = 0
  <2>1. 0 % IndexWidth = 0 /\ 0 + 0 = 0
    BY <1>1, SmallModulo
  <2>2. Con!Distance(0 % IndexWidth, (0 + 0) % IndexWidth) = 0
    BY <1>1, DistanceIs
  <2> QED
    BY <2>1, <2>2
<1>4. NReady = 0 /\ NLine = 0
  BY <1>2, <1>3 DEF NReady, NLine
<1>5. Con!From(rIndex, wIndex) = <<>> /\ Con!From(wIndex, eIndex) = <<>>
  BY <1>2, <1>3 DEF Con!From
<1>6. ConsoleTypes
  BY <1>1, <1>2 DEF Con!Init, ConsoleTypes, Char
<1>7. RingFits /\ LineIsOpen
  BY <1>1, <1>4 DEF RingFits, LineIsOpen
<1> QED
  BY <1>5, <1>6, <1>7 DEF ConsoleInv, Con!Lines!Init

LEMMA Concatenation ==
  ASSUME NEW S, NEW s \in Seq(S), NEW t \in Seq(S)
  PROVE  /\ s \o t \in Seq(S) /\ Len(s \o t) = Len(s) + Len(t)
         /\ \A k \in 1..Len(s) : (s \o t)[k] = s[k]
         /\ \A k \in 1..Len(t) : (s \o t)[Len(s) + k] = t[k]
OBVIOUS

(* A character goes into a place of the ring that no other character has.    *)
LEMMA KeyStep ==
  ASSUME ConsoleInv, NEW c \in Char, Con!Key(c)
  PROVE  ConsoleInv' /\ Con!Lines!Type(c)
<1> DEFINE m == NReady + NLine
           slot(k) == (rIndex + k - 1) % INPUT_BUF
           full == c \in {NewLine, EndMark} \/ m + 1 = INPUT_BUF
<1>1. /\ IndexWidth \in Nat \ {0} /\ INPUT_BUF \in Nat \ {0} /\ INPUT_BUF < IndexWidth
      /\ NReady \in Nat /\ NLine \in Nat /\ m \in Nat /\ rIndex \in Int /\ rIndex = rIndex % IndexWidth
      /\ wIndex = (rIndex + NReady) % IndexWidth /\ eIndex = (rIndex + NReady + NLine) % IndexWidth
  BY RingConstants, RingPlaces
<1>2. m < INPUT_BUF
  BY RingPlaces DEF Con!Key
<1>3. ConsoleTypes
  BY DEF ConsoleInv
<1>4. (eIndex + 1) % IndexWidth = (rIndex + (m + 1)) % IndexWidth
  <2>1. (((rIndex + NReady + NLine) % IndexWidth) + 1) % IndexWidth = ((rIndex + NReady + NLine) + 1) % IndexWidth
    <3>1. rIndex + NReady + NLine \in Int /\ 1 \in Int
      BY <1>1
    <3> QED
      BY <1>1, <3>1, AddModulo
  <2>2. (rIndex + NReady + NLine) + 1 = rIndex + (m + 1)
    BY <1>1
  <2> QED
    BY <1>1, <2>1, <2>2
<1>5. (eIndex + 1) % IndexWidth = (rIndex + INPUT_BUF) % IndexWidth <=> m + 1 = INPUT_BUF
  <2>1. CASE m + 1 = INPUT_BUF
    BY <1>4, <2>1
  <2>2. CASE m + 1 # INPUT_BUF
    <3>1. rIndex + (m + 1) < rIndex + INPUT_BUF /\ rIndex + INPUT_BUF < rIndex + (m + 1) + IndexWidth
      BY <1>1, <1>2, <2>2
    <3>2. rIndex + (m + 1) \in Int /\ rIndex + INPUT_BUF \in Int
      BY <1>1
    <3>3. (rIndex + (m + 1)) % IndexWidth # (rIndex + INPUT_BUF) % IndexWidth
      BY <1>1, <3>1, <3>2, DistinctRemainders
    <3> QED
      BY <1>4, <2>2, <3>3
  <2> QED
    BY <2>1, <2>2
<1>6. Con!Completes(c, (eIndex + 1) % IndexWidth) <=> full
  BY <1>5 DEF Con!Completes
<1>7. eIndex % INPUT_BUF = slot(m + 1)
  <2>1. rIndex + m \in Int /\ rIndex + NReady + NLine = rIndex + m /\ rIndex + (m + 1) - 1 = rIndex + m
    BY <1>1
  <2>2. (((rIndex + m) % IndexWidth) + 0) % INPUT_BUF = ((rIndex + m) + 0) % INPUT_BUF
    BY <2>1, RingWraps
  <2>3. (rIndex + m) + 0 = rIndex + m /\ eIndex + 0 = eIndex
    BY <1>3, <2>1 DEF ConsoleTypes
  <2> QED
    BY <1>1, <2>1, <2>2, <2>3
<1>8. ASSUME NEW k \in 1..m PROVE slot(k) # slot(m + 1)
  <2>1. rIndex + k - 1 < rIndex + (m + 1) - 1 /\ rIndex + (m + 1) - 1 < (rIndex + k - 1) + INPUT_BUF
    BY <1>1, <1>2
  <2>2. rIndex + k - 1 \in Int /\ rIndex + (m + 1) - 1 \in Int
    BY <1>1
  <2> QED
    BY <1>1, <2>1, <2>2, DistinctRemainders
<1>9. \A k \in 1..(m + 1) : slot(k) \in 0..(INPUT_BUF - 1)
  BY <1>1, RingSlot
<1> HIDE DEF slot, m, full
<1>10. /\ ring' = [ring EXCEPT ![eIndex % INPUT_BUF] = c]
       /\ eIndex' = (eIndex + 1) % IndexWidth
       /\ wIndex' = IF full THEN eIndex' ELSE wIndex
       /\ rIndex' = rIndex /\ asked' = asked /\ wanted' = wanted
  BY <1>6 DEF Con!Key
<1>11. m + 1 \in 1..(m + 1) /\ \A k \in 1..m : k \in 1..(m + 1)
  BY <1>1
<1>12. ring \in [0..(INPUT_BUF - 1) -> Char]
  BY <1>3 DEF ConsoleTypes
<1>13. /\ ring' \in [0..(INPUT_BUF - 1) -> Char]
       /\ ring'[slot(m + 1)] = c
       /\ \A k \in 1..m : ring'[slot(k)] = ring[slot(k)]
  BY <1>7, <1>8, <1>9, <1>10, <1>11, <1>12
<1>14. asked' \in [Reader -> Nat] /\ wanted' \in [Reader -> Nat]
  BY <1>3, <1>10 DEF ConsoleTypes
<1>15. /\ Ready \in Seq(Char) /\ Len(Ready) = NReady
       /\ \A k \in 1..NReady : Ready[k] = ring[slot(k)]
       /\ Line \in Seq(Char) /\ Len(Line) = NLine
       /\ \A k \in 1..NLine : Line[k] = ring[(rIndex + NReady + k - 1) % INPUT_BUF]
  BY RingContents DEF slot
<1>16. \A k \in 1..NLine : Line[k] = ring[slot(NReady + k)]
  <2>1. \A k \in 1..NLine : rIndex + (NReady + k) - 1 = rIndex + NReady + k - 1
    BY <1>1
  <2> QED
    BY <1>15, <2>1 DEF slot
<1>17. Append(Line, c) \in Seq(Char) /\ Len(Append(Line, c)) = NLine + 1
       /\ (\A k \in 1..NLine : Append(Line, c)[k] = Line[k]) /\ Append(Line, c)[NLine + 1] = c
  BY <1>1, <1>15
<1>18. \A k \in 1..NLine : NReady + k \in 1..m
  BY <1>1 DEF m
<1>19. CASE full
  <2>1. m + 1 \in Nat /\ 0 \in Nat /\ (m + 1) + 0 <= INPUT_BUF
    BY <1>1, <1>2
  <2>2. /\ rIndex' = rIndex % IndexWidth /\ wIndex' = (rIndex + (m + 1)) % IndexWidth
        /\ eIndex' = (rIndex + (m + 1) + 0) % IndexWidth
    BY <1>1, <1>4, <1>10, <1>19, <2>1
  <2>3. /\ NReady' = m + 1 /\ NLine' = 0
        /\ rIndex' \in 0..(IndexWidth - 1) /\ wIndex' \in 0..(IndexWidth - 1) /\ eIndex' \in 0..(IndexWidth - 1)
        /\ Ready' \in Seq(Char) /\ Len(Ready') = m + 1
        /\ \A k \in 1..(m + 1) : Ready'[k] = ring'[(rIndex + k - 1) % INPUT_BUF]
        /\ Line' \in Seq(Char) /\ Len(Line') = 0
    BY <1>1, <1>13, <2>1, <2>2, RingMoves
  <2>4. ConsoleInv'
    BY <1>13, <1>14, <2>1, <2>3 DEF ConsoleInv, ConsoleTypes, RingFits, LineIsOpen
  <2>5. Line' = <<>>
    BY <2>3
  <2>6. Ready' = Ready \o Append(Line, c)
    <3> DEFINE t == Ready \o Append(Line, c)
    <3>0. /\ t \in Seq(Char) /\ Len(t) = Len(Ready) + Len(Append(Line, c))
          /\ \A k \in 1..Len(Ready) : t[k] = Ready[k]
          /\ \A k \in 1..Len(Append(Line, c)) : t[Len(Ready) + k] = Append(Line, c)[k]
      <4> DEFINE u == Append(Line, c)
      <4>1. Ready \in Seq(Char) /\ u \in Seq(Char)
        BY <1>15, <1>17
      <4> HIDE DEF u
      <4>2. /\ Ready \o u \in Seq(Char) /\ Len(Ready \o u) = Len(Ready) + Len(u)
            /\ \A k \in 1..Len(Ready) : (Ready \o u)[k] = Ready[k]
            /\ \A k \in 1..Len(u) : (Ready \o u)[Len(Ready) + k] = u[k]
        BY <4>1, Concatenation
      <4> QED
        BY <4>2 DEF u
    <3> HIDE DEF t
    <3>1. t \in Seq(Char) /\ Len(t) = m + 1
      BY <1>1, <1>15, <1>17, <3>0 DEF m
    <3>2. ASSUME NEW k \in 1..NReady PROVE t[k] = Ready'[k]
      <4>1. t[k] = Ready[k]
        BY <1>15, <3>0
      <4>2. k \in 1..m /\ k \in 1..(m + 1)
        BY <1>1 DEF m
      <4> QED
        BY <1>13, <1>15, <2>3, <4>1, <4>2 DEF slot
    <3>3. ASSUME NEW k \in 1..NLine PROVE t[NReady + k] = Ready'[NReady + k]
      <4>1. t[NReady + k] = Line[k]
        <5>1. k \in 1..(NLine + 1)
          BY <1>1
        <5> QED
          BY <1>15, <1>17, <3>0, <5>1
      <4>2. NReady + k \in 1..m /\ NReady + k \in 1..(m + 1)
        BY <1>1, <1>11, <1>18
      <4> QED
        BY <1>13, <1>16, <2>3, <4>1, <4>2 DEF slot
    <3>4. t[m + 1] = Ready'[m + 1]
      <4>1. t[NReady + (NLine + 1)] = c
        <5>1. NLine + 1 \in 1..(NLine + 1)
          BY <1>1
        <5> QED
          BY <1>15, <1>17, <3>0, <5>1
      <4>2. NReady + (NLine + 1) = m + 1
        BY <1>1 DEF m
      <4> QED
        BY <1>11, <1>13, <2>3, <4>1, <4>2 DEF slot
    <3>5. ASSUME NEW k \in 1..(m + 1) PROVE t[k] = Ready'[k]
      <4>1. CASE k <= NReady
        BY <1>1, <3>2, <4>1
      <4>2. CASE k = m + 1
        BY <3>4, <4>2
      <4>3. CASE k > NReady /\ k # m + 1
        <5>1. k - NReady \in 1..NLine /\ NReady + (k - NReady) = k
          BY <1>1, <4>3 DEF m
        <5> QED
          BY <3>3, <5>1
      <4> QED
        BY <1>1, <4>1, <4>2, <4>3
    <3>6. t = Ready'
      BY <2>3, <3>1, <3>5, SeqEqual
    <3> QED
      BY <3>6 DEF t
  <2>7. Con!Lines!Type(c)
    <3>1. Len(Ready) + Len(Line) < INPUT_BUF
      BY <1>2, <1>15 DEF m
    <3>2. c \in Con!Lines!Mark \/ Len(Ready) + Len(Append(Line, c)) = INPUT_BUF
      BY <1>1, <1>15, <1>17, <1>19 DEF full, m, Con!Lines!Mark
    <3> QED
      BY <2>5, <2>6, <3>1, <3>2 DEF Con!Lines!Type, Ready, Line
  <2> QED
    BY <2>4, <2>7
<1>20. CASE ~full
  <2>1. NLine + 1 \in Nat /\ NReady + (NLine + 1) <= INPUT_BUF /\ NReady + (NLine + 1) = m + 1
    BY <1>1, <1>2 DEF m
  <2>2. /\ rIndex' = rIndex % IndexWidth /\ wIndex' = (rIndex + NReady) % IndexWidth
        /\ eIndex' = (rIndex + NReady + (NLine + 1)) % IndexWidth
    <3>1. rIndex + NReady + (NLine + 1) = rIndex + (m + 1)
      BY <1>1, <2>1
    <3> QED
      BY <1>1, <1>4, <1>10, <1>20, <3>1
  <2>3. /\ NReady' = NReady /\ NLine' = NLine + 1
        /\ rIndex' \in 0..(IndexWidth - 1) /\ wIndex' \in 0..(IndexWidth - 1) /\ eIndex' \in 0..(IndexWidth - 1)
        /\ Ready' \in Seq(Char) /\ Len(Ready') = NReady
        /\ \A k \in 1..NReady : Ready'[k] = ring'[(rIndex + k - 1) % INPUT_BUF]
        /\ Line' \in Seq(Char) /\ Len(Line') = NLine + 1
        /\ \A k \in 1..(NLine + 1) : Line'[k] = ring'[(rIndex + NReady + k - 1) % INPUT_BUF]
        /\ \A k \in 1..(NLine + 1) : ring'[(wIndex' + k - 1) % INPUT_BUF] = Line'[k]
    BY <1>1, <1>13, <2>1, <2>2, RingMoves
  <2>4. Ready' = Ready
    <3>1. \A k \in 1..NReady : k \in 1..m
      BY <1>1 DEF m
    <3>2. \A k \in 1..NReady : Ready'[k] = Ready[k]
      BY <1>13, <1>15, <2>3, <3>1 DEF slot
    <3> QED
      BY <1>15, <2>3, <3>2, SeqEqual
  <2>5. Line' = Append(Line, c)
    <3>1. ASSUME NEW k \in 1..(NLine + 1) PROVE Line'[k] = ring'[slot(NReady + k)]
      <4>1. rIndex + (NReady + k) - 1 = rIndex + NReady + k - 1
        BY <1>1
      <4> QED
        BY <2>3, <4>1 DEF slot
    <3>2. ASSUME NEW k \in 1..NLine PROVE Line'[k] = Append(Line, c)[k]
      <4>1. k \in 1..(NLine + 1)
        BY <1>1
      <4> QED
        BY <1>13, <1>16, <1>17, <1>18, <3>1, <4>1
    <3>3. Line'[NLine + 1] = Append(Line, c)[NLine + 1]
      <4>1. NLine + 1 \in 1..(NLine + 1)
        BY <1>1
      <4> QED
        BY <1>13, <1>17, <2>1, <3>1, <4>1
    <3>4. \A k \in 1..(NLine + 1) : k \in 1..NLine \/ k = NLine + 1
      BY <1>1
    <3>5. \A k \in 1..(NLine + 1) : Line'[k] = Append(Line, c)[k]
      BY <3>2, <3>3, <3>4
    <3> QED
      BY <1>17, <2>3, <3>5, SeqEqual
  <2>6. ConsoleInv'
    <3>1. ASSUME NEW k \in 1..(NLine + 1) PROVE Line'[k] \notin {NewLine, EndMark}
      <4>1. CASE k = NLine + 1
        BY <1>17, <1>20, <2>5, <4>1 DEF full
      <4>2. CASE k # NLine + 1
        <5>1. k \in 1..NLine
          BY <1>1, <4>2
        <5>2. ring[(wIndex + k - 1) % INPUT_BUF] \notin {NewLine, EndMark}
          BY <5>1 DEF ConsoleInv, LineIsOpen
        <5>3. Line[k] = ring[(wIndex + k - 1) % INPUT_BUF]
          BY <5>1 DEF Line, NLine, Con!From
        <5> QED
          BY <1>17, <2>5, <5>1, <5>2, <5>3
      <4> QED
        BY <4>1, <4>2
    <3>2. LineIsOpen'
      BY <2>3, <3>1 DEF LineIsOpen
    <3>3. RingFits'
      BY <2>1, <2>3 DEF RingFits
    <3> QED
      BY <1>13, <1>14, <2>3, <3>2, <3>3 DEF ConsoleInv, ConsoleTypes
  <2>7. Con!Lines!Type(c)
    <3>1. Len(Ready) + Len(Line) < INPUT_BUF
      BY <1>2, <1>15 DEF m
    <3>2. ~(c \in Con!Lines!Mark \/ Len(Ready) + Len(Append(Line, c)) = INPUT_BUF)
      BY <1>1, <1>15, <1>17, <1>20, <2>1 DEF full, Con!Lines!Mark
    <3> QED
      BY <2>4, <2>5, <3>1, <3>2 DEF Con!Lines!Type, Ready, Line
  <2> QED
    BY <2>6, <2>7
<1> QED
  BY <1>19, <1>20

LEMMA BackspaceStep ==
  ASSUME ConsoleInv, Con!Backspace
  PROVE  ConsoleInv' /\ Con!Lines!Erase
<1>1. /\ IndexWidth \in Nat \ {0} /\ INPUT_BUF \in Nat \ {0} /\ INPUT_BUF < IndexWidth
      /\ NReady \in Nat /\ NLine \in Nat /\ NReady + NLine <= INPUT_BUF /\ rIndex \in Int /\ rIndex = rIndex % IndexWidth
      /\ wIndex = (rIndex + NReady) % IndexWidth /\ eIndex = (rIndex + NReady + NLine) % IndexWidth
  BY RingConstants, RingPlaces DEF ConsoleInv, RingFits
<1>2. /\ ring' = ring /\ rIndex' = rIndex /\ wIndex' = wIndex /\ eIndex' = (eIndex - 1) % IndexWidth
      /\ asked' = asked /\ wanted' = wanted /\ eIndex # wIndex
  BY DEF Con!Backspace
<1>3. NLine # 0
  <2> SUFFICES ASSUME NLine = 0 PROVE eIndex = wIndex
    BY <1>2
  <2>1. rIndex + NReady + NLine = rIndex + NReady
    BY <1>1
  <2> QED
    BY <1>1, <2>1
<1> DEFINE c == NLine - 1
<1>4. c \in Nat /\ NReady + c <= INPUT_BUF /\ NLine = c + 1
  BY <1>1, <1>3
<1>5. (eIndex - 1) % IndexWidth = (rIndex + NReady + c) % IndexWidth
  <2>1. rIndex + NReady + NLine \in Int /\ -1 \in Int
    BY <1>1
  <2>2. (((rIndex + NReady + NLine) % IndexWidth) + (-1)) % IndexWidth = ((rIndex + NReady + NLine) + (-1)) % IndexWidth
    BY <1>1, <2>1, AddModulo
  <2>3. (rIndex + NReady + NLine) + (-1) = rIndex + NReady + c
    BY <1>1
  <2>4. eIndex + (-1) = eIndex - 1
    BY DEF ConsoleInv, ConsoleTypes
  <2> QED
    BY <1>1, <2>2, <2>3, <2>4
<1> HIDE DEF c
<1>6. ConsoleTypes
  BY DEF ConsoleInv
<1>7. /\ NReady' = NReady /\ NLine' = c
      /\ rIndex' \in 0..(IndexWidth - 1) /\ wIndex' \in 0..(IndexWidth - 1) /\ eIndex' \in 0..(IndexWidth - 1)
      /\ Ready' \in Seq(Char) /\ Len(Ready') = NReady
      /\ \A k \in 1..NReady : Ready'[k] = ring'[(rIndex + k - 1) % INPUT_BUF]
      /\ Line' \in Seq(Char) /\ Len(Line') = c
      /\ \A k \in 1..c : Line'[k] = ring'[(rIndex + NReady + k - 1) % INPUT_BUF]
      /\ \A k \in 1..c : ring'[(wIndex' + k - 1) % INPUT_BUF] = Line'[k]
  <2>1. ring' \in [0..(INPUT_BUF - 1) -> Char]
    BY <1>2, <1>6 DEF ConsoleTypes
  <2>2. rIndex' = rIndex % IndexWidth /\ wIndex' = (rIndex + NReady) % IndexWidth /\ eIndex' = (rIndex + NReady + c) % IndexWidth
    BY <1>1, <1>2, <1>5
  <2> QED
    BY <1>1, <1>4, <2>1, <2>2, RingMoves
<1>8. /\ Ready \in Seq(Char) /\ Len(Ready) = NReady
      /\ \A k \in 1..NReady : Ready[k] = ring[(rIndex + k - 1) % INPUT_BUF]
      /\ Line \in Seq(Char) /\ Len(Line) = NLine
      /\ \A k \in 1..NLine : Line[k] = ring[(rIndex + NReady + k - 1) % INPUT_BUF]
  BY RingContents
<1>9. Ready' = Ready
  <2>1. \A k \in 1..NReady : Ready'[k] = Ready[k]
    BY <1>2, <1>7, <1>8
  <2>2. Ready' \in Seq(Char) /\ Ready \in Seq(Char) /\ Len(Ready') = Len(Ready) /\ Len(Ready) = NReady
    BY <1>7, <1>8
  <2> QED
    BY <2>1, <2>2, SeqEqual
<1>10. \A k \in 1..c : k \in 1..NLine
  BY <1>4
<1>11. \A k \in 1..c : Line'[k] = Line[k]
  BY <1>2, <1>7, <1>8, <1>10
<1>12. Line' = SubSeq(Line, 1, Len(Line) - 1)
  <2> DEFINE s == SubSeq(Line, 1, c)
  <2>1. s \in Seq(Char) /\ Len(s) = c /\ \A k \in 1..c : s[k] = Line[k]
    BY <1>4, <1>8
  <2> HIDE DEF s
  <2>2. Line' = s
    BY <1>7, <1>11, <2>1, SeqEqual
  <2>3. Len(Line) - 1 = c
    BY <1>4, <1>8
  <2> QED
    BY <2>2, <2>3 DEF s
<1>13. ConsoleInv'
  <2>1. LineIsOpen'
    <3>1. ASSUME NEW k \in 1..c PROVE Line'[k] \notin {NewLine, EndMark}
      <4>1. k \in 1..NLine
        BY <1>10
      <4>2. ring[(wIndex + k - 1) % INPUT_BUF] \notin {NewLine, EndMark}
        BY <4>1 DEF ConsoleInv, LineIsOpen
      <4> QED
        BY <1>2, <1>7, <4>2
    <3> QED
      BY <1>7, <3>1 DEF LineIsOpen
  <2>2. RingFits'
    BY <1>4, <1>7 DEF RingFits
  <2> QED
    BY <1>2, <1>6, <1>7, <2>1, <2>2 DEF ConsoleInv, ConsoleTypes
<1>14. Line # <<>>
  BY <1>4, <1>8
<1> QED
  BY <1>9, <1>12, <1>13, <1>14 DEF Con!Lines!Erase, Con!Lines!Front, Ready, Line

(* ^U goes back to the end of the line before, for the line has no end.      *)
LEMMA KillLineStep ==
  ASSUME ConsoleInv, Con!KillLine
  PROVE  ConsoleInv' /\ Con!Lines!EraseAll
<1>1. /\ IndexWidth \in Nat \ {0} /\ INPUT_BUF \in Nat \ {0} /\ INPUT_BUF < IndexWidth
      /\ NReady \in Nat /\ NLine \in Nat /\ NReady + NLine <= INPUT_BUF /\ rIndex \in Int /\ rIndex = rIndex % IndexWidth
      /\ wIndex = (rIndex + NReady) % IndexWidth
  BY RingConstants, RingPlaces DEF ConsoleInv, RingFits
<1>2. /\ ring' = ring /\ rIndex' = rIndex /\ wIndex' = wIndex
      /\ asked' = asked /\ wanted' = wanted
  BY DEF Con!KillLine
<1>3. ConsoleTypes /\ LineIsOpen
  BY DEF ConsoleInv
<1>4. eIndex' = wIndex
  <2>1. \A k \in 1..Len(Line) : Line[k] # NewLine
    <3>1. Len(Line) = NLine
      BY RingContents
    <3> QED
      BY <1>3, <3>1 DEF LineIsOpen, Line, NLine, Con!From
  <2>2. eIndex' = (wIndex + 0) % IndexWidth
    BY <2>1 DEF Con!KillLine, Con!SelectLastInSeq, Line
  <2>3. wIndex \in 0..(IndexWidth - 1) /\ wIndex + 0 = wIndex
    BY <1>1, <1>3 DEF ConsoleTypes
  <2> QED
    BY <1>1, <2>2, <2>3, SmallModulo
<1>5. /\ NReady' = NReady /\ NLine' = 0
      /\ rIndex' \in 0..(IndexWidth - 1) /\ wIndex' \in 0..(IndexWidth - 1) /\ eIndex' \in 0..(IndexWidth - 1)
      /\ Ready' \in Seq(Char) /\ Len(Ready') = NReady
      /\ \A k \in 1..NReady : Ready'[k] = ring'[(rIndex + k - 1) % INPUT_BUF]
      /\ Line' \in Seq(Char) /\ Len(Line') = 0
  <2>1. ring' \in [0..(INPUT_BUF - 1) -> Char]
    BY <1>2, <1>3 DEF ConsoleTypes
  <2>2. rIndex + NReady + 0 = rIndex + NReady /\ NReady + 0 <= INPUT_BUF /\ 0 \in Nat
    BY <1>1
  <2>3. rIndex' = rIndex % IndexWidth /\ wIndex' = (rIndex + NReady) % IndexWidth /\ eIndex' = (rIndex + NReady + 0) % IndexWidth
    BY <1>1, <1>2, <1>4, <2>2
  <2> QED
    BY <1>1, <2>1, <2>2, <2>3, RingMoves
<1>6. /\ Ready \in Seq(Char) /\ Len(Ready) = NReady
      /\ \A k \in 1..NReady : Ready[k] = ring[(rIndex + k - 1) % INPUT_BUF]
  BY RingContents
<1>7. Ready' = Ready
  <2>1. \A k \in 1..NReady : Ready'[k] = Ready[k]
    BY <1>2, <1>5, <1>6
  <2>2. Ready' \in Seq(Char) /\ Ready \in Seq(Char) /\ Len(Ready') = Len(Ready) /\ Len(Ready) = NReady
    BY <1>5, <1>6
  <2> QED
    BY <2>1, <2>2, SeqEqual
<1>8. Line' = <<>>
  BY <1>5
<1>9. ConsoleInv'
  BY <1>1, <1>2, <1>3, <1>5 DEF ConsoleInv, ConsoleTypes, RingFits, LineIsOpen
<1> QED
  BY <1>7, <1>8, <1>9 DEF Con!Lines!EraseAll, Ready, Line

(* Steps that leave the ring and its indices alone.                         *)
LEMMA RingRests ==
  ASSUME ConsoleInv, UNCHANGED <<ring, rIndex, wIndex, eIndex>>,
         asked' \in [Reader -> Nat], wanted' \in [Reader -> Nat]
  PROVE  ConsoleInv' /\ Ready' = Ready /\ Line' = Line
<1>1. Con!Distance(rIndex, wIndex)' = Con!Distance(rIndex, wIndex)
      /\ Con!Distance(wIndex, eIndex)' = Con!Distance(wIndex, eIndex)
  BY DEF Con!Distance
<1>2. NReady' = NReady /\ NLine' = NLine
  BY <1>1 DEF NReady, NLine
<1>3. Ready' = Ready /\ Line' = Line
  BY <1>1 DEF Ready, Line, Con!From
<1> QED
  BY <1>2, <1>3 DEF ConsoleInv, ConsoleTypes, RingFits, LineIsOpen

LEMMA WantsType ==
  ASSUME ConsoleInv, NEW p \in Reader, NEW k \in Nat, Con!Wants(p, k)
  PROVE  asked' \in [Reader -> Nat] /\ wanted' \in [Reader -> Nat]
BY DEF ConsoleInv, ConsoleTypes, Con!Wants

(* Sets of numbers have a least element.                                    *)
LEMMA LeastElement ==
  ASSUME NEW S, S \subseteq Nat, S # {}
  PROVE  \E x \in S : \A y \in S : x <= y
<1> DEFINE R == OpToRel(<, Nat)
<1>1. IsWellFoundedOn(R, Nat)
  BY NatLessThanWellFounded, Zenon
<1>2. PICK x \in S : \A y \in S : ~(<<y, x>> \in R)
  <2> HIDE DEF R
  <2> QED
    BY <1>1, WFMin
<1>3. \A y \in S : ~(y < x)
  BY <1>2 DEF OpToRel
<1> QED
  BY <1>3

(* consoleread() looks for the first character that ends a line.            *)
Ends(s) == {k \in 1..Len(s) : s[k] \in {NewLine, EndMark}}
FirstEnd(s) == Con!SelectInSeq(s, LAMBDA c : c \in {NewLine, EndMark})

LEMMA FirstEndIs ==
  ASSUME NEW s, Len(s) \in Nat
  PROVE  \/ FirstEnd(s) = 0 /\ \A k \in 1..Len(s) : s[k] \notin {NewLine, EndMark}
         \/ /\ FirstEnd(s) \in 1..Len(s) /\ s[FirstEnd(s)] \in {NewLine, EndMark}
            /\ \A k \in 1..Len(s) : k < FirstEnd(s) => s[k] \notin {NewLine, EndMark}
<1> DEFINE S == {k \in 1..Len(s) : s[k] \in {NewLine, EndMark}}
<1>1. FirstEnd(s) = IF S # {} THEN Con!Min(S) ELSE 0
  BY DEF FirstEnd, Con!SelectInSeq
<1>2. CASE S = {}
  BY <1>1, <1>2
<1>3. CASE S # {}
  <2>1. \E x \in S : \A y \in S : x =< y
    <3>1. S \subseteq Nat
      OBVIOUS
    <3> HIDE DEF S
    <3> QED
      BY <1>3, <3>1, LeastElement
  <2> DEFINE m == Con!Min(S)
  <2>2. m \in S /\ \A y \in S : m =< y
    <3> HIDE DEF S
    <3> QED
      BY <2>1, Zenon DEF Con!Min
  <2> HIDE DEF m
  <2>3. FirstEnd(s) = m
    BY <1>1, <1>3 DEF m
  <2>4. m \in 1..Len(s) /\ s[m] \in {NewLine, EndMark}
    BY <2>2
  <2>5. ASSUME NEW k \in 1..Len(s), k < m PROVE s[k] \notin {NewLine, EndMark}
    <3> SUFFICES ASSUME k \in S PROVE FALSE
      OBVIOUS
    <3>1. m =< k
      BY <2>2
    <3> QED
      BY <2>4, <2>5, <3>1
  <2> QED
    BY <2>3, <2>4, <2>5
<1> QED
  BY <1>2, <1>3

(* How many characters a read() takes.                                      *)
Most(p) == IF wanted[p] < NReady THEN wanted[p] ELSE NReady
Stops(p) == FirstEnd(Ready) # 0 /\ FirstEnd(Ready) <= Most(p)
PutsBack(p) == Stops(p) /\ Ready[FirstEnd(Ready)] = EndMark /\ (FirstEnd(Ready) > 1 \/ wanted[p] < asked[p])
Taken(p) == IF Stops(p) /\ ~PutsBack(p) THEN FirstEnd(Ready) ELSE IF Stops(p) THEN FirstEnd(Ready) - 1 ELSE Most(p)

LEMMA ReadLineTakes ==
  ASSUME ConsoleInv, NEW p \in Reader, Con!Read(p)
  PROVE  /\ ring' = ring /\ wIndex' = wIndex /\ eIndex' = eIndex
         /\ rIndex' = (rIndex + Taken(p)) % IndexWidth
         /\ Taken(p) \in 0..NReady /\ Taken(p) <= wanted[p]
         /\ Con!Wants(p, IF Stops(p) THEN 0 ELSE wanted[p] - Taken(p))
         /\ \A k \in 1..(Taken(p) - 1) : Ready[k] \notin {NewLine, EndMark}
         /\ Taken(p) > 1 => Ready[Taken(p)] # EndMark
<1>1. Len(Ready) = NReady /\ NReady \in Nat
  BY RingContents, RingPlaces
<1>2. wanted[p] \in Nat /\ asked[p] \in Nat
  BY DEF ConsoleInv, ConsoleTypes
<1>3. /\ ring' = ring /\ wIndex' = wIndex /\ eIndex' = eIndex
      /\ rIndex' = (rIndex + Taken(p)) % IndexWidth
      /\ Con!Wants(p, IF Stops(p) THEN 0 ELSE wanted[p] - Taken(p))
  BY <1>1 DEF Con!Read, Taken, Stops, PutsBack, Most, FirstEnd, Ready
<1> DEFINE f == FirstEnd(Ready)
<1>4. \/ f = 0 /\ \A k \in 1..NReady : Ready[k] \notin {NewLine, EndMark}
      \/ /\ f \in 1..NReady /\ Ready[f] \in {NewLine, EndMark}
         /\ \A k \in 1..NReady : k < f => Ready[k] \notin {NewLine, EndMark}
  BY <1>1, FirstEndIs
<1>5. Most(p) \in 0..NReady /\ Most(p) <= wanted[p]
  BY <1>1, <1>2 DEF Most
<1> HIDE DEF f
<1>6. /\ Stops(p) <=> f # 0 /\ f <= Most(p)
      /\ PutsBack(p) <=> Stops(p) /\ Ready[f] = EndMark /\ (f > 1 \/ wanted[p] < asked[p])
      /\ Taken(p) = IF Stops(p) /\ ~PutsBack(p) THEN f ELSE IF Stops(p) THEN f - 1 ELSE Most(p)
  BY DEF f, Stops, PutsBack, Taken
<1>7. f \in Nat
  BY <1>1, <1>4
<1>8. Taken(p) \in 0..NReady /\ Taken(p) <= wanted[p]
  BY <1>1, <1>2, <1>4, <1>5, <1>6, <1>7
<1>9. ASSUME NEW k \in 1..NReady, f = 0 \/ k < f PROVE Ready[k] \notin {NewLine, EndMark}
  BY <1>4, <1>9
<1>10. f = 0 \/ Taken(p) <= f
  BY <1>1, <1>4, <1>5, <1>6, <1>7
<1>11. \A k \in 1..(Taken(p) - 1) : Ready[k] \notin {NewLine, EndMark}
  <2> SUFFICES ASSUME NEW k \in 1..(Taken(p) - 1) PROVE k \in 1..NReady /\ (f = 0 \/ k < f)
    BY <1>9
  <2> QED
    BY <1>1, <1>7, <1>8, <1>10
<1>12. Taken(p) > 1 => Ready[Taken(p)] # EndMark
  <2> SUFFICES ASSUME Taken(p) > 1 PROVE Ready[Taken(p)] # EndMark
    OBVIOUS
  <2>1. Taken(p) \in 1..NReady
    BY <1>1, <1>8
  <2>2. CASE f = 0 \/ Taken(p) < f
    BY <1>9, <2>1, <2>2
  <2>3. CASE f # 0 /\ Taken(p) = f
    <3>1. Stops(p)
      BY <1>1, <1>5, <1>6, <1>7, <2>3
    <3>2. ~PutsBack(p)
      BY <1>6, <1>7, <2>3, <3>1
    <3> QED
      BY <1>6, <2>3, <3>1, <3>2
  <2> QED
    BY <1>1, <1>7, <1>8, <1>10, <2>2, <2>3
<1> QED
  BY <1>3, <1>8, <1>11, <1>12

LEMMA ReadStep ==
  ASSUME ConsoleInv, NEW p \in Reader, Con!Read(p)
  PROVE  /\ ConsoleInv'
         /\ \/ \E k \in 1..INPUT_BUF : Con!Lines!Take(k)
            \/ Ready' = Ready /\ Line' = Line
<1> DEFINE t == Taken(p)
           a == NReady - t
           i == rIndex + t
<1>1. /\ IndexWidth \in Nat \ {0} /\ INPUT_BUF \in Nat \ {0} /\ INPUT_BUF < IndexWidth
      /\ NReady \in Nat /\ NLine \in Nat /\ NReady + NLine <= INPUT_BUF /\ rIndex \in Int /\ rIndex = rIndex % IndexWidth
      /\ wIndex = (rIndex + NReady) % IndexWidth /\ eIndex = (rIndex + NReady + NLine) % IndexWidth
  BY RingConstants, RingPlaces DEF ConsoleInv, RingFits
<1>2. ConsoleTypes /\ LineIsOpen
  BY DEF ConsoleInv
<1>3. /\ ring' = ring /\ wIndex' = wIndex /\ eIndex' = eIndex
      /\ rIndex' = i % IndexWidth
      /\ t \in 0..NReady /\ t <= wanted[p]
      /\ Con!Wants(p, IF Stops(p) THEN 0 ELSE wanted[p] - t)
      /\ \A k \in 1..(t - 1) : Ready[k] \notin {NewLine, EndMark}
      /\ t > 1 => Ready[t] # EndMark
  BY ReadLineTakes
<1> HIDE DEF t
<1>4. asked' \in [Reader -> Nat] /\ wanted' \in [Reader -> Nat]
  <2>1. wanted[p] \in Nat
    BY <1>2 DEF ConsoleTypes
  <2>2. (IF Stops(p) THEN 0 ELSE wanted[p] - t) \in Nat
    BY <1>1, <1>3, <2>1
  <2> QED
    BY <1>3, <2>2, WantsType
<1>5. i \in Int /\ a \in Nat /\ a + NLine <= INPUT_BUF /\ i + a = rIndex + NReady
      /\ i + a + NLine = rIndex + NReady + NLine /\ t + a = NReady /\ t \in Nat /\ t <= NReady
  BY <1>1, <1>3
<1>6. i = rIndex + t
  OBVIOUS
<1> HIDE DEF a, i
<1>7. ring' \in [0..(INPUT_BUF - 1) -> Char]
  BY <1>2, <1>3 DEF ConsoleTypes
<1>8. rIndex' = i % IndexWidth /\ wIndex' = (i + a) % IndexWidth /\ eIndex' = (i + a + NLine) % IndexWidth
  BY <1>1, <1>3, <1>5
<1>9. /\ NReady' = a /\ NLine' = NLine
      /\ rIndex' \in 0..(IndexWidth - 1) /\ wIndex' \in 0..(IndexWidth - 1) /\ eIndex' \in 0..(IndexWidth - 1)
      /\ Ready' \in Seq(Char) /\ Len(Ready') = a
      /\ \A k \in 1..a : Ready'[k] = ring'[(i + k - 1) % INPUT_BUF]
      /\ Line' \in Seq(Char) /\ Len(Line') = NLine
      /\ \A k \in 1..NLine : Line'[k] = ring'[(i + a + k - 1) % INPUT_BUF]
  <2>1. i \in Int /\ a \in Nat /\ NLine \in Nat /\ a + NLine <= INPUT_BUF
    BY <1>1, <1>5
  <2> QED
    BY <1>7, <1>8, <2>1, RingMoves
<1>10. /\ Ready \in Seq(Char) /\ Len(Ready) = NReady
       /\ \A k \in 1..NReady : Ready[k] = ring[(rIndex + k - 1) % INPUT_BUF]
       /\ Line \in Seq(Char) /\ Len(Line) = NLine
       /\ \A k \in 1..NLine : Line[k] = ring[(rIndex + NReady + k - 1) % INPUT_BUF]
  BY RingContents
<1>11. Line' = Line
  <2>1. \A k \in 1..NLine : Line'[k] = Line[k]
    BY <1>3, <1>5, <1>9, <1>10
  <2>2. Line' \in Seq(Char) /\ Line \in Seq(Char) /\ Len(Line') = Len(Line) /\ Len(Line) = NLine
    BY <1>9, <1>10
  <2> QED
    BY <2>1, <2>2, SeqEqual
<1>12. Ready' = SubSeq(Ready, t + 1, Len(Ready))
  <2> DEFINE s == SubSeq(Ready, t + 1, NReady)
  <2>1. s \in Seq(Char) /\ Len(s) = a /\ \A k \in 1..a : s[k] = Ready[t + k]
    <3>1. t + 1 \in 1..(Len(Ready) + 1) /\ NReady \in t..Len(Ready)
      BY <1>1, <1>5, <1>10
    <3>2. s \in Seq(Char) /\ Len(s) = a
      BY <1>1, <1>5, <1>10, <3>1
    <3>3. ASSUME NEW k \in 1..a PROVE s[k] = Ready[t + k]
      <4>1. k \in 1..(NReady - (t + 1) + 1) /\ (t + 1) + k - 1 = t + k
        BY <1>1, <1>5
      <4> QED
        BY <1>1, <1>5, <1>10, <4>1
    <3> QED
      BY <3>2, <3>3
  <2> HIDE DEF s
  <2>2. ASSUME NEW k \in 1..a PROVE Ready'[k] = s[k]
    <3>1. t + k \in 1..NReady /\ rIndex + (t + k) - 1 = i + k - 1
      BY <1>1, <1>5, <1>6
    <3>2. Ready[t + k] = ring[(i + k - 1) % INPUT_BUF]
      BY <1>10, <3>1
    <3> QED
      BY <1>3, <1>9, <2>1, <3>2
  <2>3. Ready' = s
    BY <1>9, <2>1, <2>2, SeqEqual
  <2> QED
    BY <1>10, <2>3 DEF s
<1>13. ConsoleInv'
  BY <1>2, <1>3, <1>4, <1>5, <1>7, <1>9 DEF ConsoleInv, ConsoleTypes, RingFits, LineIsOpen
<1>14. CASE t = 0
  <2>1. rIndex' = rIndex
    BY <1>1, <1>3, <1>6, <1>14
  <2> QED
    BY <1>3, <1>4, <2>1, RingRests
<1>15. CASE t # 0
  <2>1. t \in 1..Len(Ready) /\ t \in 1..INPUT_BUF
    <3>1. t \in Nat /\ t <= NReady /\ NReady \in Nat /\ NReady <= INPUT_BUF /\ INPUT_BUF \in Nat
      BY <1>1, <1>5
    <3> QED
      BY <1>10, <1>15, <3>1
  <2>2. Con!Lines!Take(t)
    BY <1>3, <1>11, <1>12, <2>1 DEF Con!Lines!Take, Con!Lines!Mark, Ready, Line
  <2> QED
    BY <1>13, <2>1, <2>2
<1> QED
  BY <1>13, <1>14, <1>15

ConsoleStep == [Con!Lines!Next]_<<Con!From(rIndex, wIndex), Con!From(wIndex, eIndex)>>

LEMMA ConsoleNext == ConsoleInv /\ [Con!Next]_(Con!vars) => ConsoleInv' /\ ConsoleStep
<1> SUFFICES ASSUME ConsoleInv, [Con!Next]_(Con!vars) PROVE ConsoleInv' /\ ConsoleStep
  OBVIOUS
<1>1. ASSUME NEW c \in Char, Con!Key(c) PROVE ConsoleInv' /\ ConsoleStep
  <2>1. ConsoleInv' /\ Con!Lines!Type(c)
    BY <1>1, KeyStep
  <2>2. c \in Letter \cup Con!Lines!Mark
    BY DEF Char, Con!Lines!Mark
  <2> QED
    BY <2>1, <2>2 DEF ConsoleStep, Con!Lines!Next
<1>2. CASE Con!Backspace
  BY <1>2, BackspaceStep DEF ConsoleStep, Con!Lines!Next
<1>3. CASE Con!KillLine
  BY <1>3, KillLineStep DEF ConsoleStep, Con!Lines!Next
<1>4. ASSUME NEW p \in Reader, Con!Read(p) PROVE ConsoleInv' /\ ConsoleStep
  BY <1>4, ReadStep DEF ConsoleStep, Con!Lines!Next, Ready, Line
<1>5. ASSUME ConsoleInv', Ready' = Ready, Line' = Line PROVE ConsoleInv' /\ ConsoleStep
  BY <1>5 DEF ConsoleStep, Ready, Line
<1>6. ASSUME NEW p \in Reader, Con!ReadKilled(p) PROVE ConsoleInv' /\ ConsoleStep
  <2>1. asked' \in [Reader -> Nat] /\ wanted' \in [Reader -> Nat]
    BY <1>6, WantsType DEF Con!ReadKilled
  <2>2. UNCHANGED <<ring, rIndex, wIndex, eIndex>>
    BY <1>6 DEF Con!ReadKilled, Con!inputVars
  <2> QED
    BY <1>5, <2>1, <2>2, RingRests
<1>7. ASSUME NEW p \in Reader, NEW k \in Lengths, Con!StartRead(p, k) PROVE ConsoleInv' /\ ConsoleStep
  <2>1. asked' \in [Reader -> Nat] /\ wanted' \in [Reader -> Nat]
    BY <1>7, RingConstants DEF Con!StartRead, ConsoleInv, ConsoleTypes
  <2>2. UNCHANGED <<ring, rIndex, wIndex, eIndex>>
    BY <1>7 DEF Con!StartRead, Con!inputVars
  <2> QED
    BY <1>5, <2>1, <2>2, RingRests
<1>8. CASE UNCHANGED Con!vars
  <2>1. UNCHANGED <<ring, rIndex, wIndex, eIndex>> /\ asked' = asked /\ wanted' = wanted
    BY <1>8 DEF Con!vars, Con!inputVars
  <2>2. asked' \in [Reader -> Nat] /\ wanted' \in [Reader -> Nat]
    BY <2>1 DEF ConsoleInv, ConsoleTypes
  <2> QED
    BY <1>5, <2>1, <2>2, RingRests
<1> QED
  BY <1>1, <1>2, <1>3, <1>4, <1>6, <1>7, <1>8 DEF Con!Next, Char

(* The invariant holds in every behaviour of the console.                   *)
THEOREM RingIsKept == Con!Spec => []ConsoleInv
<1>1. Con!Init => ConsoleInv
  BY ConsoleInit
<1>2. ConsoleInv /\ [Con!Next]_(Con!vars) => ConsoleInv'
  BY ConsoleNext
<1> QED
  BY <1>1, <1>2, PTL DEF Con!Spec

(* console.c:192-227, 236-275: typing, editing and reading a ring amounts to  *)
(* a buffer of lines: characters come in order, none is lost or read twice,   *)
(* none is read while it can be edited, and no read goes beyond a line.       *)
THEOREM RingIsALineBuffer == Con!Spec => LineSpec
<1>1. Con!Init => Con!Lines!Init
  BY ConsoleInit
<1>2. ConsoleInv /\ [Con!Next]_(Con!vars)
        => [Con!Lines!Next]_<<Con!From(rIndex, wIndex), Con!From(wIndex, eIndex)>>
  BY ConsoleNext DEF ConsoleStep
<1> QED
  BY <1>1, <1>2, RingIsKept, PTL DEF Con!Spec, LineSpec, Con!LineSpec, Con!Lines!Spec
=============================================================================
