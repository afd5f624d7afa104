----------------------------- MODULE PartsProofs -----------------------------
(***************************************************************************)
(* The parts of Parts, for any number of processes, files and blocks, any    *)
(* number of CPUs and locks, and any heap and requests.                     *)
(*                                                                         *)
(* Files: each place of a file that names a block is the only one, and none  *)
(* names a block that a call of balloc() has in hand; the bitmap marks these *)
(* blocks and no other.  The same holds of the last commit, which is what a  *)
(* crash brings back.  BitmapExact follows, and so does that a write into a  *)
(* block changes the bytes of one file only, hence FileSpec.                *)
(*                                                                         *)
(* Spin locks: ncli counts the locks a CPU holds, and its interrupt flag     *)
(* tells the interrupts it is in.  LocksAreQuiet follows.                   *)
(*                                                                         *)
(* The heap: the members of the free list are the headers that are not in    *)
(* use, with base, and each names the next by address; so the walk around it   *)
(* meets all of them.  HeapPartition follows.                               *)
(***************************************************************************)
EXTENDS Parts, Sequences, SequenceTheorems, FiniteSetTheorems, WellFoundedInduction, TLAPS

(* What a cell of a block may hold: the number of a block, or a byte.       *)
Content == (0..NBlock) \cup {Stale} \cup {Byte(f, x) : f \in File, x \in 1..MaxSize}
Contents == [Block -> [Cell -> Content]]
Inode == [size : 0..MaxSize, addrs : [0..NDIRECT -> 0..NBlock]]

TypeOK ==
  /\ bitmap \in SUBSET Block /\ data \in Contents
  /\ dinode \in [File -> Inode] /\ ip \in [File -> Inode]
  /\ ilocked \in [File -> Proc \cup {None}]
  /\ off \in [File -> (0..MaxSize) \cup {-1}]
  /\ stable \in [bitmap : SUBSET Block, data : Contents, dinode : [File -> Inode]]
  /\ pc \in [Proc -> {"idle", "begin", "bmap", "zero", "end", "trunc"}]
  /\ loc \in [Proc -> [file : File \cup {None}, left : Nat, pos : Nat, todo : Nat, addr : 0..NBlock]]

(* The block that place k of file f names.                                  *)
Place == 0..(NDIRECT + BSIZE)
Named(i, d, past, f, k) ==
  IF k <= NDIRECT THEN i[f].addrs[k]
  ELSE IF i[f].addrs[NDIRECT] = 0 \/ k - NDIRECT - 1 < past[f] THEN 0
  ELSE d[i[f].addrs[NDIRECT]][k - NDIRECT - 1]
(* The place of block number bn of a file.                                 *)
PlaceOf(bn) == IF bn < NDIRECT THEN bn ELSE bn + 1
Bn == 0..(NDIRECT + BSIZE - 1)
Never == [f \in File |-> 0]
Num(f, k) == Named(ip, data, Past, f, k)
StableNum(f, k) == Named(stable.dinode, stable.data, Never, f, k)

(* Where a call is, and what it has in hand there.                          *)
Writing(p) == pc[p] \in {"bmap", "zero", "end"}
PlaceInv(p) ==
  /\ pc[p] = "idle" => loc[p] = NoLoc
  /\ pc[p] # "idle" => Here(p) \in File
  /\ pc[p] = "begin" => loc[p].left > 0 /\ loc[p].pos = 0 /\ loc[p].todo = 0
  /\ Writing(p) \/ pc[p] = "trunc" => ilocked[Here(p)] = p
  /\ Writing(p) \/ pc[p] = "begin" => off[Here(p)] # -1
  /\ Writing(p) => /\ off[Here(p)] <= ip[Here(p)].size /\ off[Here(p)] <= loc[p].pos
                   /\ loc[p].pos + loc[p].todo <= MaxSize
                   /\ loc[p].todo > 0 <=> pc[p] # "end"
  /\ pc[p] = "trunc" => off[Here(p)] = -1 /\ loc[p].pos <= BSIZE
  /\ loc[p].addr # 0 <=> pc[p] = "zero"
  /\ pc[p] = "zero" =>
       \A f \in File, k \in Place : f = Here(p) /\ k = PlaceOf(loc[p].pos \div BSIZE) => Num(f, k) = 0
LockInv == \A f \in File, p \in Proc : ilocked[f] = p => Here(p) = f /\ (Writing(p) \/ pc[p] = "trunc")

NumInv == \A f \in File, k \in Place : Num(f, k) \in 0..NBlock
Once == \A f, g \in File, k, l \in Place : Num(f, k) # 0 /\ Num(f, k) = Num(g, l) => f = g /\ k = l
HandInv ==
  \A p \in Proc : loc[p].addr # 0 =>
    /\ \A f \in File, k \in Place : Num(f, k) # loc[p].addr
    /\ \A q \in Proc : loc[q].addr = loc[p].addr => q = p
Marks ==
  \A b \in Block :
    b \in bitmap <=> (\E f \in File, k \in Place : Num(f, k) = b) \/ (\E p \in Proc : loc[p].addr = b)
StableNumInv == \A f \in File, k \in Place : StableNum(f, k) \in 0..NBlock
StableOnce ==
  \A f, g \in File, k, l \in Place : StableNum(f, k) # 0 /\ StableNum(f, k) = StableNum(g, l) => f = g /\ k = l
StableMarks == \A b \in Block : b \in stable.bitmap <=> \E f \in File, k \in Place : StableNum(f, k) = b

(* A file has the blocks below its size, and those a writer has passed.     *)
WholeAt(f) ==
  \A bn \in Bn : Num(f, PlaceOf(bn)) = 0 =>
    \/ bn * BSIZE >= ip[f].size /\ \A p \in Proc : ilocked[f] = p => bn * BSIZE >= loc[p].pos
    \/ \E p \in Proc : ilocked[f] = p /\ pc[p] = "trunc"
Whole == \A f \in File : WholeAt(f)
StableWhole ==
  \A f \in File, bn \in Bn : StableNum(f, PlaceOf(bn)) = 0 => bn * BSIZE >= stable.dinode[f].size

(* An inode in memory that is not the one on disk has a call at work on it,  *)
(* which will write it.                                                     *)
CleanAt(f) ==
  ip[f] # dinode[f] =>
    \E p \in Proc : ilocked[f] = p /\ (Writing(p) => loc[p].pos + loc[p].todo > ip[f].size)
Clean == \A f \in File : CleanAt(f)

NumPart == NumInv /\ Once /\ HandInv /\ Marks
StablePart == StableNumInv /\ StableOnce /\ StableMarks /\ StableWhole
Inv == TypeOK /\ (\A p \in Proc : PlaceInv(p)) /\ LockInv /\ NumPart /\ Whole /\ Clean /\ StablePart

-----------------------------------------------------------------------------
LEMMA Constants ==
  /\ NBlock \in Nat /\ BSIZE \in Nat \ {0} /\ NDIRECT \in Nat /\ MaxChunk \in Nat \ {0}
  /\ Sizes \subseteq Nat \ {0} /\ None \notin Proc /\ None \notin File
  /\ 0 \notin Block /\ Block \subseteq 0..NBlock /\ \A b \in 0..NBlock : b # 0 => b \in Block
  /\ 0 \in Place /\ NDIRECT \in Place /\ NDIRECT \in 0..NDIRECT /\ \A k \in 0..NDIRECT : k \in Place
  /\ MaxSize \in Nat
<1>1. NDIRECT + BSIZE \in Nat /\ \A a, b \in Nat : a * b \in Nat
  BY FileAssumption
<1> QED
  BY <1>1, FileAssumption DEF Block, Place, MaxSize

LEMMA Quotient ==
  ASSUME NEW a \in Int, NEW m \in Int, m > 0
  PROVE  a = (a \div m) * m + (a % m) /\ a \div m \in Int /\ a % m \in 0..(m - 1)
<1>1. a = (a \div m) * m + (a % m)
  OBVIOUS
<1>2. a \div m \in Int
  OBVIOUS
<1>3. a % m \in 0..(m - 1)
  OBVIOUS
<1> QED
  BY <1>1, <1>2, <1>3

LEMMA Times ==
  ASSUME NEW a \in Int, NEW b \in Int, NEW m \in Nat
  PROVE  a <= b => a * m <= b * m
OBVIOUS

(* Where byte pos of a file is.                                             *)
LEMMA BlockNumber ==
  ASSUME NEW pos \in Nat
  PROVE  LET bn == pos \div BSIZE
             c == pos % BSIZE IN
         /\ bn \in Nat /\ c \in Cell /\ bn * BSIZE \in Nat
         /\ pos = bn * BSIZE + c /\ bn * BSIZE <= pos /\ pos < bn * BSIZE + BSIZE
         /\ pos < MaxSize => bn \in Bn
<1> DEFINE bn == pos \div BSIZE
           c == pos % BSIZE
           s == bn * BSIZE
<1>1. BSIZE \in Int /\ BSIZE > 0 /\ NDIRECT \in Nat /\ BSIZE \in Nat
  BY Constants
<1>2. pos = bn * BSIZE + c /\ bn \in Int /\ c \in 0..(BSIZE - 1)
  BY <1>1, Quotient
<1> HIDE DEF bn, c
<1>3. s \in Int
  BY <1>1, <1>2
<1>4. bn >= 0
  <2> SUFFICES ASSUME bn <= -1 PROVE FALSE
    BY <1>2
  <2>1. bn * BSIZE <= (-1) * BSIZE
    BY <1>1, <1>2, Times
  <2> QED
    BY <1>1, <1>2, <2>1
<1>5. s >= 0
  <2>1. 0 * BSIZE <= bn * BSIZE
    BY <1>1, <1>2, <1>4, Times
  <2> QED
    BY <1>1, <2>1
<1>6. pos < MaxSize => bn < NDIRECT + BSIZE
  <2> SUFFICES ASSUME pos < MaxSize, NDIRECT + BSIZE <= bn PROVE FALSE
    BY <1>1, <1>2
  <2>1. NDIRECT + BSIZE \in Int
    BY <1>1
  <2>2. (NDIRECT + BSIZE) * BSIZE <= bn * BSIZE
    BY <1>1, <1>2, <2>1, Times
  <2>3. MaxSize = (NDIRECT + BSIZE) * BSIZE /\ MaxSize \in Nat
    BY Constants DEF MaxSize
  <2> QED
    BY <1>2, <1>3, <2>2, <2>3
<1>7. pos < MaxSize => bn \in Bn
  BY <1>1, <1>2, <1>4, <1>6 DEF Bn
<1>8. c \in Cell
  BY <1>2 DEF Cell
<1>9. s = bn * BSIZE
  OBVIOUS
<1> HIDE DEF s
<1>10. s <= pos /\ pos < s + BSIZE /\ pos = s + c
  BY <1>1, <1>2, <1>3, <1>9
<1> QED
  BY <1>1, <1>2, <1>3, <1>4, <1>5, <1>7, <1>8, <1>9, <1>10 DEF bn, c

LEMMA PlaceOfPlace ==
  ASSUME NEW bn \in Bn
  PROVE  /\ PlaceOf(bn) \in Place /\ PlaceOf(bn) # NDIRECT
         /\ bn < NDIRECT => PlaceOf(bn) = bn
         /\ bn >= NDIRECT => PlaceOf(bn) - NDIRECT - 1 = bn - NDIRECT /\ bn - NDIRECT \in Cell /\ PlaceOf(bn) > NDIRECT
BY Constants DEF PlaceOf, Bn, Place, Cell

-----------------------------------------------------------------------------
(* A set whose members are all the same has one member, or none.            *)
LEMMA Single ==
  ASSUME NEW S, \A x, y \in S : x = y
  PROVE  Cardinality(S) = IF S = {} THEN 0 ELSE 1
<1>1. CASE S = {}
  BY <1>1, FS_EmptySet
<1>2. CASE S # {}
  <2>1. PICK x \in S : TRUE
    BY <1>2
  <2>2. S = {x}
    BY <2>1
  <2> QED
    BY <1>2, <2>2, FS_Singleton
<1> QED
  BY <1>1, <1>2

LEMMA UsesAre ==
  ASSUME NEW b \in Block, NEW i, NEW d, NEW past \in [File -> Nat]
  PROVE  Uses(b, i, d, past) = {u \in File \X Place : Named(i, d, past, u[1], u[2]) = b}
<1> SUFFICES ASSUME NEW f \in File, NEW k \in Place
             PROVE  (IF k <= NDIRECT THEN i[f].addrs[k] = b
                     ELSE /\ i[f].addrs[NDIRECT] # 0 /\ k - NDIRECT - 1 >= past[f]
                          /\ d[i[f].addrs[NDIRECT]][k - NDIRECT - 1] = b)
                    <=> Named(i, d, past, f, k) = b
  BY DEF Uses, Place
<1>1. b # 0 /\ k \in Nat /\ NDIRECT \in Nat /\ past[f] \in Nat
  BY Constants DEF Place
<1> QED
  BY <1>1 DEF Named

(* When each block is named once, by an inode or by a call that has it in     *)
(* hand, and is marked just when it is, the counts of BitmapExact are right.  *)
LEMMA UsesCount ==
  ASSUME NEW b \in Block, NEW i, NEW d, NEW past \in [File -> Nat], NEW H,
         \A f, g \in File, k, l \in Place :
           Named(i, d, past, f, k) # 0 /\ Named(i, d, past, f, k) = Named(i, d, past, g, l) => f = g /\ k = l,
         \A x, y \in H : x = y,
         H # {} => \A f \in File, k \in Place : Named(i, d, past, f, k) # b
  PROVE  Cardinality(Uses(b, i, d, past)) + Cardinality(H)
           = IF H # {} \/ \E f \in File, k \in Place : Named(i, d, past, f, k) = b THEN 1 ELSE 0
<1> DEFINE U == Uses(b, i, d, past)
<1>1. U = {u \in File \X Place : Named(i, d, past, u[1], u[2]) = b} /\ b # 0
  BY UsesAre, Constants
<1>2. \A x, y \in U : x = y
  BY <1>1
<1>3. U = {} <=> ~\E f \in File, k \in Place : Named(i, d, past, f, k) = b
  <2>1. ASSUME NEW f \in File, NEW k \in Place, Named(i, d, past, f, k) = b PROVE <<f, k>> \in U
    BY <1>1, <2>1
  <2>2. ASSUME NEW u \in U PROVE u[1] \in File /\ u[2] \in Place /\ Named(i, d, past, u[1], u[2]) = b
    BY <1>1, <2>2
  <2> QED
    BY <2>1, <2>2
<1> HIDE DEF U
<1>4. Cardinality(U) = (IF U = {} THEN 0 ELSE 1) /\ Cardinality(H) = IF H = {} THEN 0 ELSE 1
  BY <1>2, Single
<1> QED
  BY <1>3, <1>4 DEF U

Trunc(p, f) == pc[p] = "trunc" /\ Here(p) = f

LEMMA PastIs ==
  ASSUME TypeOK, \A p \in Proc : PlaceInv(p), NEW f \in File
  PROVE  /\ Past[f] \in Nat
         /\ \A p \in Proc : Trunc(p, f) => Past[f] = loc[p].pos
         /\ (~\E p \in Proc : Trunc(p, f)) => Past[f] = 0
<1>1. Past[f] = IF \E p \in Proc : Trunc(p, f) THEN loc[ilocked[f]].pos ELSE 0
  BY DEF Past, Trunc
<1>2. \A p \in Proc : Trunc(p, f) => ilocked[f] = p /\ loc[p].pos \in Nat
  BY DEF Trunc, PlaceInv, TypeOK
<1> QED
  BY <1>1, <1>2

LEMMA PastType ==
  ASSUME TypeOK, \A p \in Proc : PlaceInv(p)
  PROVE  Past \in [File -> Nat]
<1>1. Past = [f \in File |-> Past[f]]
  BY DEF Past
<1> QED
  BY <1>1, PastIs

LEMMA ExactByInv == Inv => BitmapExact
<1> SUFFICES ASSUME Inv, NEW b \in Block
             PROVE  /\ Cardinality(Uses(b, ip, data, Past)) + Cardinality({p \in Proc : loc[p].addr = b})
                         = IF b \in bitmap THEN 1 ELSE 0
                    /\ Cardinality(Uses(b, stable.dinode, stable.data, [f \in File |-> 0]))
                         = IF b \in stable.bitmap THEN 1 ELSE 0
  BY DEF BitmapExact
<1>0. b # 0
  BY Constants
<1>1. Cardinality(Uses(b, ip, data, Past)) + Cardinality({p \in Proc : loc[p].addr = b})
        = IF b \in bitmap THEN 1 ELSE 0
  <2> DEFINE H == {p \in Proc : loc[p].addr = b}
  <2>1. \A x, y \in H : x = y
    BY <1>0 DEF Inv, NumPart, HandInv
  <2>2. H # {} => \A f \in File, k \in Place : Named(ip, data, Past, f, k) # b
    BY <1>0 DEF Inv, NumPart, HandInv, Num
  <2>3. \A f, g \in File, k, l \in Place :
           Named(ip, data, Past, f, k) # 0 /\ Named(ip, data, Past, f, k) = Named(ip, data, Past, g, l) => f = g /\ k = l
    BY DEF Inv, NumPart, Once, Num
  <2>4. Past \in [File -> Nat]
    BY PastType DEF Inv
  <2>5. b \in bitmap <=> H # {} \/ \E f \in File, k \in Place : Named(ip, data, Past, f, k) = b
    BY DEF Inv, NumPart, Marks, Num
  <2> HIDE DEF H
  <2>6. Cardinality(Uses(b, ip, data, Past)) + Cardinality(H)
          = IF H # {} \/ \E f \in File, k \in Place : Named(ip, data, Past, f, k) = b THEN 1 ELSE 0
    BY <2>1, <2>2, <2>3, <2>4, UsesCount
  <2> QED
    BY <2>5, <2>6 DEF H
<1>2. Cardinality(Uses(b, stable.dinode, stable.data, Never)) = IF b \in stable.bitmap THEN 1 ELSE 0
  <2>1. \A f, g \in File, k, l \in Place :
           Named(stable.dinode, stable.data, Never, f, k) # 0
             /\ Named(stable.dinode, stable.data, Never, f, k) = Named(stable.dinode, stable.data, Never, g, l) => f = g /\ k = l
    BY DEF Inv, StablePart, StableOnce, StableNum
  <2>2. b \in stable.bitmap <=> \E f \in File, k \in Place : Named(stable.dinode, stable.data, Never, f, k) = b
    BY DEF Inv, StablePart, StableMarks, StableNum
  <2>3. Never \in [File -> Nat]
    BY DEF Never
  <2>4. Uses(b, stable.dinode, stable.data, Never)
          = {u \in File \X Place : Named(stable.dinode, stable.data, Never, u[1], u[2]) = b}
    BY <2>3, UsesAre
  <2>5. \A x, y \in Uses(b, stable.dinode, stable.data, Never) : x = y
    BY <1>0, <2>1, <2>4
  <2>6. Uses(b, stable.dinode, stable.data, Never) # {} <=> b \in stable.bitmap
    <3>1. ASSUME NEW f \in File, NEW k \in Place, Named(stable.dinode, stable.data, Never, f, k) = b
          PROVE  <<f, k>> \in Uses(b, stable.dinode, stable.data, Never)
      BY <2>4, <3>1
    <3>2. ASSUME NEW u \in Uses(b, stable.dinode, stable.data, Never)
          PROVE  u[1] \in File /\ u[2] \in Place /\ Named(stable.dinode, stable.data, Never, u[1], u[2]) = b
      BY <2>4, <3>2
    <3> QED
      BY <2>2, <3>1, <3>2
  <2> QED
    BY <2>5, <2>6, Single
<1> QED
  BY <1>1, <1>2 DEF Never

-----------------------------------------------------------------------------
(* What a step does to the places that name blocks.                         *)
KeptIn(f) == \A k \in Place : Num(f, k)' = Num(f, k)
NumsKept == \A f \in File : KeptIn(f)
NumSet(g, l, b) ==
  Num(g, l)' = b /\ \A f \in File, k \in Place : f # g \/ k # l => Num(f, k)' = Num(f, k)
AddrsKept == \A q \in Proc : loc'[q].addr = loc[q].addr

LEMMA KeptNums ==
  ASSUME NumPart, NumsKept, AddrsKept, bitmap' = bitmap
  PROVE  NumPart'
<1>1. NumInv' /\ Once'
  BY DEF NumPart, NumInv, Once, NumsKept, KeptIn
<1>2. HandInv' /\ Marks'
  BY DEF NumPart, HandInv, Marks, NumsKept, KeptIn, AddrsKept
<1> QED
  BY <1>1, <1>2 DEF NumPart

LEMMA TakenNums ==
  ASSUME NumPart, NumsKept, NEW p \in Proc, NEW b \in Block, b \notin bitmap, bitmap' = bitmap \cup {b},
         loc[p].addr = 0, loc'[p].addr = b, \A q \in Proc : q # p => loc'[q].addr = loc[q].addr
  PROVE  NumPart'
<1>0. b # 0 /\ \A c \in Block : c # 0
  BY Constants
<1>1. NumInv' /\ Once'
  BY DEF NumPart, NumInv, Once, NumsKept, KeptIn
<1>2. (\A f \in File, k \in Place : Num(f, k) # b) /\ \A q \in Proc : loc[q].addr # b
  BY DEF NumPart, Marks
<1>3. HandInv'
  BY <1>0, <1>2 DEF NumPart, HandInv, NumsKept, KeptIn
<1>4. ASSUME NEW c \in Block
      PROVE  c \in bitmap' <=> (\E f \in File, k \in Place : Num(f, k)' = c) \/ (\E q \in Proc : loc'[q].addr = c)
  <2>1. c \in bitmap <=> (\E f \in File, k \in Place : Num(f, k)' = c) \/ (\E q \in Proc : loc[q].addr = c)
    BY DEF NumPart, Marks, NumsKept, KeptIn
  <2>2. (\E q \in Proc : loc'[q].addr = c) <=> c = b \/ \E q \in Proc : loc[q].addr = c
    BY <1>0
  <2> QED
    BY <2>1, <2>2
<1>5. Marks'
  BY <1>4 DEF Marks
<1> QED
  BY <1>1, <1>3, <1>5 DEF NumPart

LEMMA AttachedNums ==
  ASSUME NumPart, NEW p \in Proc, NEW g \in File, NEW l \in Place, Num(g, l) = 0,
         loc[p].addr \in Block, NumSet(g, l, loc[p].addr), bitmap' = bitmap,
         loc'[p].addr = 0, \A q \in Proc : q # p => loc'[q].addr = loc[q].addr
  PROVE  NumPart'
<1> DEFINE b == loc[p].addr
<1>0. b \in Block /\ b # 0 /\ b \in 0..NBlock /\ \A c \in Block : c # 0
  BY Constants
<1>1. \A f \in File, k \in Place : Num(f, k)' = IF f = g /\ k = l THEN b ELSE Num(f, k)
  BY DEF NumSet
<1>2. (\A f \in File, k \in Place : Num(f, k) # b) /\ \A q \in Proc : loc[q].addr = b <=> q = p
  BY <1>0 DEF NumPart, HandInv
<1> HIDE DEF b
<1>3. NumInv'
  BY <1>0, <1>1 DEF NumPart, NumInv
<1>4. Once'
  BY <1>0, <1>1, <1>2 DEF NumPart, Once
<1>5. HandInv'
  BY <1>0, <1>1, <1>2 DEF NumPart, HandInv
<1>6. ASSUME NEW c \in Block
      PROVE  c \in bitmap' <=> (\E f \in File, k \in Place : Num(f, k)' = c) \/ (\E q \in Proc : loc'[q].addr = c)
  <2>1. c \in bitmap <=> (\E f \in File, k \in Place : Num(f, k) = c) \/ (\E q \in Proc : loc[q].addr = c)
    BY DEF NumPart, Marks
  <2>2. CASE c = b
    <3>1. Num(g, l)' = c /\ loc[p].addr = c
      BY <1>1, <1>2, <2>2
    <3> QED
      BY <2>1, <3>1
  <2>3. CASE c # b
    <3>1. (\E f \in File, k \in Place : Num(f, k)' = c) <=> \E f \in File, k \in Place : Num(f, k) = c
      BY <1>0, <1>1, <2>3
    <3>2. (\E q \in Proc : loc'[q].addr = c) <=> \E q \in Proc : loc[q].addr = c
      BY <1>0, <1>2, <2>3
    <3> QED
      BY <2>1, <3>1, <3>2
  <2> QED
    BY <2>2, <2>3
<1>7. Marks'
  BY <1>6 DEF Marks
<1> QED
  BY <1>3, <1>4, <1>5, <1>7 DEF NumPart

LEMMA FreedNums ==
  ASSUME NumPart, NEW g \in File, NEW l \in Place, Num(g, l) # 0, NumSet(g, l, 0),
         bitmap' = bitmap \ {Num(g, l)}, AddrsKept
  PROVE  NumPart'
<1> DEFINE b == Num(g, l)
<1>0. b # 0 /\ 0 \in 0..NBlock /\ \A c \in Block : c # 0
  BY Constants
<1>1. \A f \in File, k \in Place : Num(f, k)' = IF f = g /\ k = l THEN 0 ELSE Num(f, k)
  BY DEF NumSet
<1>2. (\A f \in File, k \in Place : Num(f, k) = b <=> f = g /\ k = l) /\ \A q \in Proc : loc[q].addr # b
  BY <1>0 DEF NumPart, HandInv, Once
<1> HIDE DEF b
<1>3. NumInv'
  BY <1>0, <1>1 DEF NumPart, NumInv
<1>4. Once'
  BY <1>1 DEF NumPart, Once
<1>5. HandInv'
  BY <1>1 DEF NumPart, HandInv, AddrsKept
<1>6. ASSUME NEW c \in Block
      PROVE  c \in bitmap' <=> (\E f \in File, k \in Place : Num(f, k)' = c) \/ (\E q \in Proc : loc'[q].addr = c)
  <2>1. c \in bitmap <=> (\E f \in File, k \in Place : Num(f, k) = c) \/ (\E q \in Proc : loc[q].addr = c)
    BY DEF NumPart, Marks
  <2>2. (\E q \in Proc : loc'[q].addr = c) <=> \E q \in Proc : loc[q].addr = c
    BY DEF AddrsKept
  <2>3. CASE c = b
    <3>1. ~\E f \in File, k \in Place : Num(f, k)' = c
      BY <1>0, <1>1, <1>2, <2>3
    <3>2. c \notin bitmap'
      BY <2>3 DEF b
    <3> QED
      BY <1>2, <2>2, <2>3, <3>1, <3>2
  <2>4. CASE c # b
    <3>1. (\E f \in File, k \in Place : Num(f, k)' = c) <=> \E f \in File, k \in Place : Num(f, k) = c
      BY <1>0, <1>1, <1>2, <2>4
    <3>2. c \in bitmap' <=> c \in bitmap
      BY <2>4 DEF b
    <3> QED
      BY <2>1, <2>2, <3>1, <3>2
  <2> QED
    BY <2>3, <2>4
<1>7. Marks'
  BY <1>6 DEF Marks
<1> QED
  BY <1>3, <1>4, <1>5, <1>7 DEF NumPart

-----------------------------------------------------------------------------
LEMMA StableSame == StablePart /\ UNCHANGED stable => StablePart'
BY DEF StablePart, StableNumInv, StableOnce, StableMarks, StableWhole, StableNum

(* At a commit nobody is in a call: what is on disk is what is in memory.   *)
LEMMA Committed ==
  ASSUME NumPart', Whole', \A q \in Proc : loc'[q].addr = 0 /\ pc'[q] # "trunc", \A f \in File : Past'[f] = 0, ip' = dinode',
         stable' = [bitmap |-> bitmap', data |-> data', dinode |-> dinode']
  PROVE  StablePart'
<1>0. 0 \notin Block
  BY Constants
<1>1. \A f \in File, k \in Place : StableNum(f, k)' = Num(f, k)'
  BY DEF StableNum, Num, Named, Never
<1>2. StableNumInv' /\ StableOnce'
  BY <1>1 DEF NumPart, NumInv, Once, StableNumInv, StableOnce
<1>3. StableMarks'
  BY <1>0, <1>1 DEF NumPart, Marks, StableMarks
<1>4. StableWhole'
  <2> SUFFICES ASSUME NEW f \in File, NEW bn \in Bn, StableNum(f, PlaceOf(bn))' = 0 PROVE bn * BSIZE >= stable'.dinode[f].size
    BY DEF StableWhole
  <2>1. Num(f, PlaceOf(bn))' = 0
    BY <1>1, PlaceOfPlace
  <2>2. WholeAt(f)'
    BY DEF Whole
  <2>3. bn * BSIZE >= ip'[f].size
    BY <2>1, <2>2 DEF WholeAt
  <2> QED
    BY <2>3
<1> QED
  BY <1>2, <1>3, <1>4 DEF StablePart

LEMMA PastKept ==
  ASSUME TypeOK, \A q \in Proc : PlaceInv(q), NEW p \in Proc, pc[p] # "trunc",
         \A q \in Proc : q # p => pc'[q] = pc[q] /\ loc'[q] = loc[q],
         \A f \in File, q \in Proc : q # p /\ ilocked[f] = q => ilocked'[f] = q,
         pc'[p] = "trunc" => /\ loc'[p].pos = 0 /\ ilocked'[loc'[p].file] = p
                             /\ \A q \in Proc : ~Trunc(q, loc'[p].file)
  PROVE  \A f \in File : Past'[f] = Past[f]
<1> SUFFICES ASSUME NEW f \in File PROVE Past'[f] = Past[f]
  OBVIOUS
<1>1. Past'[f] = IF \E q \in Proc : Trunc(q, f)' THEN loc'[ilocked'[f]].pos ELSE 0
  BY DEF Past, Trunc
<1>2. \A q \in Proc : q # p => (Trunc(q, f)' <=> Trunc(q, f))
  BY DEF Trunc, Here
<1>3. ~Trunc(p, f)
  BY DEF Trunc
<1>4. CASE Trunc(p, f)'
  <2>1. \A q \in Proc : ~Trunc(q, f)
    BY <1>4 DEF Trunc, Here
  <2>2. Past[f] = 0
    BY <2>1, PastIs
  <2> QED
    BY <1>1, <1>4, <2>2 DEF Trunc, Here
<1>5. CASE \E q \in Proc : Trunc(q, f)
  <2>1. PICK q \in Proc : Trunc(q, f)
    BY <1>5
  <2>2. q # p /\ Past[f] = loc[q].pos /\ ilocked[f] = q
    BY <1>3, <2>1, PastIs DEF PlaceInv, Trunc
  <2>3. ilocked'[f] = q /\ loc'[q] = loc[q] /\ Trunc(q, f)'
    BY <1>2, <2>1, <2>2
  <2> QED
    BY <1>1, <2>2, <2>3
<1>6. CASE ~Trunc(p, f)' /\ ~\E q \in Proc : Trunc(q, f)
  <2>1. ~\E q \in Proc : Trunc(q, f)'
    BY <1>2, <1>6
  <2> QED
    BY <1>1, <1>6, <2>1, PastIs
<1> QED
  BY <1>4, <1>5, <1>6

LEMMA NumFrame ==
  ASSUME NEW f \in File, ip'[f].addrs = ip[f].addrs, Past'[f] = Past[f],
         ip[f].addrs[NDIRECT] # 0 => data'[ip[f].addrs[NDIRECT]] = data[ip[f].addrs[NDIRECT]]
  PROVE  KeptIn(f)
<1> SUFFICES ASSUME NEW k \in Place PROVE Num(f, k)' = Num(f, k)
  BY DEF KeptIn
<1>1. Num(f, k)' = Named(ip', data', Past', f, k)
  BY DEF Num, Named
<1> QED
  BY <1>1 DEF Num, Named

LEMMA SameNums ==
  ASSUME \A f \in File : ip'[f].addrs = ip[f].addrs /\ Past'[f] = Past[f], data' = data
  PROVE  NumsKept
BY NumFrame DEF NumsKept

(* A process that does not move keeps its place, when the file it has locked  *)
(* is left alone.                                                           *)
LEMMA PlaceKept ==
  ASSUME TypeOK, NEW q \in Proc, PlaceInv(q), pc'[q] = pc[q], loc'[q] = loc[q],
         pc[q] = "begin" => off'[Here(q)] # -1,
         Writing(q) \/ pc[q] = "trunc" =>
           /\ ilocked'[Here(q)] = q /\ off'[Here(q)] = off[Here(q)] /\ ip'[Here(q)].size = ip[Here(q)].size,
         pc[q] = "zero" => \A f \in File : f = Here(q) => KeptIn(f)
  PROVE  PlaceInv(q)'
<1>1. Here(q)' = Here(q) /\ Writing(q)' = Writing(q)
  BY DEF Here, Writing
<1>2. ASSUME pc[q] = "zero", NEW f \in File, NEW k \in Place, f = Here(q), k = PlaceOf(loc[q].pos \div BSIZE)
      PROVE  Num(f, k)' = 0
  BY <1>2 DEF PlaceInv, KeptIn
<1> QED
  BY <1>1, <1>2 DEF PlaceInv

(* A step of p on the file g: nobody else has g locked.                     *)
Only(p, g) ==
  /\ \A q \in Proc : q # p => pc'[q] = pc[q] /\ loc'[q] = loc[q]
  /\ \A f \in File : f # g =>
       ilocked'[f] = ilocked[f] /\ off'[f] = off[f] /\ ip'[f] = ip[f] /\ dinode'[f] = dinode[f] /\ KeptIn(f)
  /\ ilocked[g] \in {None, p} /\ ilocked'[g] \in {None, p}
  /\ off[g] # -1 => off'[g] # -1

LEMMA OthersKeep ==
  ASSUME Inv, NEW p \in Proc, NEW g \in File, Only(p, g), \A f \in File : ilocked[f] = p => f = g
  PROVE  /\ \A q \in Proc : q # p => PlaceInv(q)'
         /\ \A f \in File : f # g => WholeAt(f)' /\ CleanAt(f)'
         /\ (ilocked'[g] = p => loc'[p].file = g /\ (Writing(p)' \/ pc'[p] = "trunc")) => LockInv'
<1>0. None \notin Proc
  BY Constants
<1>1. ASSUME NEW q \in Proc, q # p PROVE PlaceInv(q)'
  <2>1. pc'[q] = pc[q] /\ loc'[q] = loc[q] /\ TypeOK /\ PlaceInv(q)
    BY <1>1 DEF Only, Inv
  <2>2. pc[q] # "idle" => Here(q) \in File
    BY <2>1 DEF PlaceInv
  <2>3. Writing(q) => pc[q] \notin {"idle", "begin"}
    BY DEF Writing
  <2>4. pc[q] = "begin" => off'[Here(q)] # -1
    BY <2>1, <2>2 DEF Only, PlaceInv
  <2>5. ASSUME Writing(q) \/ pc[q] = "trunc" PROVE Here(q) \in File /\ Here(q) # g /\ ilocked[Here(q)] = q
    BY <1>0, <1>1, <2>1, <2>2, <2>3, <2>5 DEF Only, PlaceInv
  <2>6. Writing(q) \/ pc[q] = "trunc" =>
           /\ ilocked'[Here(q)] = q /\ off'[Here(q)] = off[Here(q)] /\ ip'[Here(q)].size = ip[Here(q)].size
    BY <2>5 DEF Only
  <2>7. pc[q] = "zero" => \A f \in File : f = Here(q) => KeptIn(f)
    BY <2>5 DEF Only, Writing
  <2> QED
    BY <2>1, <2>4, <2>6, <2>7, PlaceKept
<1>2. ASSUME NEW f \in File, f # g PROVE WholeAt(f)' /\ CleanAt(f)'
  <2>1. /\ ilocked'[f] = ilocked[f] /\ ip'[f] = ip[f] /\ dinode'[f] = dinode[f] /\ KeptIn(f) /\ ilocked[f] # p
        /\ \A q \in Proc : q # p => pc'[q] = pc[q] /\ loc'[q] = loc[q] /\ Writing(q)' = Writing(q)
    BY <1>2 DEF Only, Writing
  <2>2. \A bn \in Bn : Num(f, PlaceOf(bn))' = Num(f, PlaceOf(bn))
    BY <2>1, PlaceOfPlace DEF KeptIn
  <2>3. WholeAt(f) /\ CleanAt(f)
    BY DEF Inv, Whole, Clean
  <2>4. WholeAt(f)'
    BY <2>1, <2>2, <2>3 DEF WholeAt
  <2>5. CleanAt(f)'
    BY <2>1, <2>3 DEF CleanAt
  <2> QED
    BY <2>4, <2>5
<1>3. ASSUME ilocked'[g] = p => loc'[p].file = g /\ (Writing(p)' \/ pc'[p] = "trunc") PROVE LockInv'
  <2> SUFFICES ASSUME NEW f \in File, NEW q \in Proc, ilocked'[f] = q PROVE loc'[q].file = f /\ (Writing(q)' \/ pc'[q] = "trunc")
    BY DEF LockInv, Here
  <2>1. CASE f = g
    BY <1>0, <1>3, <2>1 DEF Only
  <2>2. CASE f # g
    <3>1. ilocked[f] = q /\ q # p
      BY <2>2 DEF Only
    <3>2. pc'[q] = pc[q] /\ loc'[q] = loc[q] /\ Here(q) = f /\ (Writing(q) \/ pc[q] = "trunc")
      BY <3>1 DEF Only, Inv, LockInv
    <3> QED
      BY <3>2 DEF Here, Writing
  <2> QED
    BY <2>1, <2>2
<1> QED
  BY <1>1, <1>2, <1>3

(* Inv after a step of p on the file g.                                     *)
LEMMA StepOn ==
  ASSUME Inv, NEW p \in Proc, NEW g \in File, Only(p, g), \A f \in File : ilocked[f] = p => f = g,
         TypeOK', PlaceInv(p)', ilocked'[g] = p => loc'[p].file = g /\ (Writing(p)' \/ pc'[p] = "trunc"),
         NumPart', WholeAt(g)', CleanAt(g)', StablePart'
  PROVE  Inv'
<1>1. /\ \A q \in Proc : q # p => PlaceInv(q)'
      /\ \A f \in File : f # g => WholeAt(f)' /\ CleanAt(f)'
      /\ LockInv'
  BY OthersKeep
<1> QED
  BY <1>1 DEF Inv, Whole, Clean

-----------------------------------------------------------------------------
(* Where bmap() gets: the places of the file that a writer has locked.       *)
LEMMA PathIs ==
  ASSUME Inv, NEW p \in Proc, Writing(p), NEW f \in File, f = Here(p), NEW bn \in Bn
  PROVE  /\ ilocked[f] = p /\ Past[f] = 0 /\ ~\E q \in Proc : Trunc(q, f)
         /\ Lacks(f, bn) = "none" <=> Num(f, PlaceOf(bn)) # 0
         /\ Lacks(f, bn) = "none" => BlockOf(f, bn) = Num(f, PlaceOf(bn))
         /\ Lacks(f, bn) = "direct" => bn < NDIRECT
         /\ Lacks(f, bn) = "indirect" => bn >= NDIRECT /\ Num(f, NDIRECT) = 0
         /\ Lacks(f, bn) = "entry" => bn >= NDIRECT /\ Num(f, NDIRECT) # 0
         /\ Lacks(f, bn) \in {"none", "direct", "indirect", "entry"}
<1>1. ilocked[f] = p /\ PlaceInv(p) /\ TypeOK
  BY DEF Inv, PlaceInv
<1>2. ~\E q \in Proc : Trunc(q, f)
  BY <1>1 DEF Inv, PlaceInv, Trunc, Writing
<1>3. Past[f] = 0
  BY <1>2, PastIs DEF Inv
<1>4. bn \in Int /\ bn >= 0 /\ NDIRECT \in Nat
  BY Constants DEF Bn
<1>5. Num(f, NDIRECT) = Indirect(f)
  BY <1>4 DEF Num, Named, Indirect
<1>6. CASE bn < NDIRECT
  <2>1. PlaceOf(bn) = bn /\ Num(f, bn) = ip[f].addrs[bn]
    BY <1>4, <1>6 DEF PlaceOf, Num, Named
  <2> QED
    BY <1>1, <1>2, <1>3, <1>4, <1>6, <2>1 DEF Lacks, BlockOf
<1>7. CASE bn >= NDIRECT
  <2>1. PlaceOf(bn) = bn + 1 /\ bn + 1 - NDIRECT - 1 = bn - NDIRECT /\ bn - NDIRECT >= 0 /\ ~(bn < NDIRECT)
    BY <1>4, <1>7 DEF PlaceOf
  <2>2. Num(f, PlaceOf(bn)) = IF Indirect(f) = 0 THEN 0 ELSE data[Indirect(f)][bn - NDIRECT]
    BY <1>3, <1>4, <1>7, <2>1 DEF Num, Named, Indirect
  <2> QED
    BY <1>1, <1>2, <1>3, <1>5, <1>7, <2>1, <2>2 DEF Lacks, BlockOf
<1> QED
  BY <1>4, <1>6, <1>7

-----------------------------------------------------------------------------
LEMMA InitInv == Init => Inv
<1> SUFFICES ASSUME Init PROVE Inv
  OBVIOUS
<1>0. /\ 0 \notin Block /\ NBlock \in Nat /\ MaxSize \in Nat /\ NDIRECT \in Nat /\ BSIZE \in Nat /\ None \notin Proc /\ None \notin File
      /\ 0 \in 0..NBlock /\ 0 \in 0..MaxSize
  BY Constants
<1>1. NoBlocks \in Inode /\ NoBlocks.size = 0 /\ \A k \in 0..NDIRECT : NoBlocks.addrs[k] = 0
  BY <1>0 DEF NoBlocks, Inode
<1>2. NoLoc \in [file : File \cup {None}, left : Nat, pos : Nat, todo : Nat, addr : 0..NBlock]
      /\ NoLoc.addr = 0
  BY <1>0 DEF NoLoc
<1>3. data \in Contents
  BY DEF Init, Contents, Content
<1>4. TypeOK
  BY <1>0, <1>1, <1>2, <1>3 DEF Init, TypeOK
<1>5. \A f \in File : ip[f] = NoBlocks /\ dinode[f] = NoBlocks /\ stable.dinode[f] = NoBlocks
  BY DEF Init
<1>6. \A i, d, past : \A f \in File, k \in Place : i[f] = NoBlocks => Named(i, d, past, f, k) = 0
  BY <1>0, <1>1 DEF Named, Place
<1>7. \A f \in File, k \in Place : Num(f, k) = 0 /\ StableNum(f, k) = 0
  BY <1>5, <1>6 DEF Num, StableNum
<1>8. \A p \in Proc : PlaceInv(p)
  BY <1>2 DEF Init, PlaceInv, Writing
<1>9. LockInv
  BY <1>0 DEF Init, LockInv
<1>10. NumPart
  BY <1>0, <1>2, <1>7 DEF Init, NumPart, NumInv, Once, HandInv, Marks
<1>11. \A bn \in Bn : bn * BSIZE >= 0
  <2> SUFFICES ASSUME NEW bn \in Bn PROVE bn * BSIZE >= 0
    OBVIOUS
  <2>1. 0 * BSIZE <= bn * BSIZE
    BY <1>0, Times DEF Bn
  <2> QED
    BY <1>0, <2>1
<1>12. Whole
  BY <1>0, <1>1, <1>5, <1>11 DEF Init, Whole, WholeAt
<1>13. Clean
  BY <1>5 DEF Clean, CleanAt
<1>14. StablePart
  BY <1>0, <1>1, <1>5, <1>7, <1>11 DEF Init, StablePart, StableNumInv, StableOnce, StableMarks, StableWhole
<1> QED
  BY <1>4, <1>8, <1>9, <1>10, <1>12, <1>13, <1>14 DEF Inv

(* A step that moves nothing but offsets.                                   *)
LEMMA OffStep ==
  ASSUME Inv, UNCHANGED <<bitmap, data, dinode, ip, ilocked, stable, pc, loc>>, off' \in [File -> (0..MaxSize) \cup {-1}],
         \A q \in Proc : pc[q] = "begin" => off'[Here(q)] # -1,
         \A q \in Proc : Writing(q) \/ pc[q] = "trunc" => off'[Here(q)] = off[Here(q)]
  PROVE  Inv'
<1>1. TypeOK'
  BY DEF Inv, TypeOK
<1>2. Past' = Past
  BY DEF Past, Here
<1>3. NumsKept
  BY <1>2, SameNums
<1>4. NumPart'
  BY <1>3, KeptNums DEF Inv, AddrsKept
<1>5. ASSUME NEW q \in Proc PROVE PlaceInv(q)'
  <2>1. Writing(q) \/ pc[q] = "trunc" => ilocked[Here(q)] = q
    BY DEF Inv, PlaceInv
  <2> QED
    BY <1>3, <2>1, PlaceKept DEF Inv, NumsKept
<1>6. LockInv'
  BY DEF Inv, LockInv, Here, Writing
<1>7. ASSUME NEW f \in File PROVE WholeAt(f)' /\ CleanAt(f)'
  <2>1. WholeAt(f) /\ CleanAt(f)
    BY DEF Inv, Whole, Clean
  <2>2. \A bn \in Bn : Num(f, PlaceOf(bn))' = Num(f, PlaceOf(bn))
    BY <1>3, PlaceOfPlace DEF NumsKept, KeptIn
  <2>3. WholeAt(f)'
    BY <2>1, <2>2 DEF WholeAt
  <2>4. CleanAt(f)'
    BY <2>1 DEF CleanAt, Writing
  <2> QED
    BY <2>3, <2>4
<1>8. StablePart'
  BY StableSame DEF Inv
<1> QED
  BY <1>1, <1>4, <1>5, <1>6, <1>7, <1>8 DEF Inv, Whole, Clean

LEMMA OpenInv ==
  ASSUME Inv, NEW f \in File, Open(f) \/ Close(f)
  PROVE  Inv'
<1>1. off' \in [File -> (0..MaxSize) \cup {-1}]
  BY Constants DEF Inv, TypeOK, Open, Close
<1>2. \A g \in File : g # f => off'[g] = off[g]
  BY DEF Open, Close, Inv, TypeOK
<1>3. ASSUME NEW q \in Proc PROVE /\ pc[q] = "begin" => off'[Here(q)] # -1
                                  /\ Writing(q) \/ pc[q] = "trunc" => off'[Here(q)] = off[Here(q)]
  <2>1. Here(q) # f
    BY DEF Open, Close
  <2>2. pc[q] # "idle" => off'[Here(q)] = off[Here(q)]
    BY <1>2, <2>1 DEF Inv, PlaceInv
  <2> QED
    BY <2>2 DEF Inv, PlaceInv, Writing
<1>4. UNCHANGED <<bitmap, data, dinode, ip, ilocked, stable, pc, loc>>
  BY DEF Open, Close, disk
<1> QED
  BY <1>1, <1>3, <1>4, OffStep

-----------------------------------------------------------------------------
(* Sets of numbers have a least element.                                    *)
LEMMA LeastElement ==
  ASSUME NEW S, S \subseteq Nat, S # {}
  PROVE  \E x \in S : \A y \in S : x <= y
<1> DEFINE R == OpToRel(<, Nat)
<1>1. IsWellFoundedOn(R, Nat)
  BY NatLessThanWellFounded, Zenon
<1>2. PICK x \in S : \A y \in S : ~(<<y, x>> \in R)
  <2> HIDE DEF R
  <2> QED
    BY <1>1, WFMin
<1>3. \A y \in S : ~(y < x)
  BY <1>2 DEF OpToRel
<1> QED
  BY <1>3

LEMMA MinIsMember ==
  ASSUME NEW S, S \subseteq Nat, S # {}
  PROVE  Min(S) \in S /\ \A y \in S : Min(S) <= y
<1>1. \E x \in S : \A y \in S : x =< y
  BY LeastElement
<1> QED
  BY <1>1, Zenon DEF Min

LEMMA MinOfTwo ==
  ASSUME NEW a \in Int, NEW b \in Int
  PROVE  Min({a, b}) = IF a <= b THEN a ELSE b
<1>1. \E x \in {a, b} : \A y \in {a, b} : x =< y
  OBVIOUS
<1>2. Min({a, b}) \in {a, b} /\ \A y \in {a, b} : Min({a, b}) =< y
  BY <1>1, Zenon DEF Min
<1> QED
  BY <1>2

-----------------------------------------------------------------------------
(* A step of a process that holds no lock and takes none.                   *)
LEMMA FreeStep ==
  ASSUME Inv, NEW p \in Proc, pc[p] \in {"idle", "begin"}, pc'[p] \in {"idle", "begin"}, loc'[p].addr = 0,
         \A q \in Proc : q # p => pc'[q] = pc[q] /\ loc'[q] = loc[q],
         UNCHANGED <<bitmap, data, dinode, ip, ilocked, off, stable>>, TypeOK', PlaceInv(p)'
  PROVE  Inv'
<1>1. loc[p].addr = 0 /\ ~Writing(p) /\ ~Writing(p)' /\ pc[p] # "trunc" /\ pc'[p] # "trunc"
  BY DEF Inv, PlaceInv, Writing
<1>2. \A f \in File : Past'[f] = Past[f]
  BY <1>1, PastKept DEF Inv
<1>3. NumsKept
  BY <1>2, SameNums
<1>4. NumPart'
  BY <1>1, <1>3, KeptNums DEF Inv, AddrsKept
<1>5. ASSUME NEW q \in Proc, q # p PROVE PlaceInv(q)'
  <2>1. TypeOK /\ PlaceInv(q) /\ pc'[q] = pc[q] /\ loc'[q] = loc[q]
    BY <1>5 DEF Inv
  <2>2. Writing(q) \/ pc[q] = "trunc" => ilocked[Here(q)] = q
    BY <2>1 DEF PlaceInv
  <2>3. Writing(q) \/ pc[q] = "begin" => off[Here(q)] # -1
    BY <2>1 DEF PlaceInv
  <2> QED
    BY <1>3, <2>1, <2>2, <2>3, PlaceKept DEF NumsKept
<1>6. \A f \in File : ilocked[f] # p
  BY <1>1 DEF Inv, LockInv
<1>7. LockInv'
  BY <1>6 DEF Inv, LockInv, Here, Writing
<1>8. ASSUME NEW f \in File PROVE WholeAt(f)' /\ CleanAt(f)'
  <2>1. WholeAt(f) /\ CleanAt(f) /\ ilocked[f] # p
    BY <1>6 DEF Inv, Whole, Clean
  <2>2. \A bn \in Bn : Num(f, PlaceOf(bn))' = Num(f, PlaceOf(bn))
    BY <1>3, PlaceOfPlace DEF NumsKept, KeptIn
  <2>3. WholeAt(f)'
    BY <2>1, <2>2 DEF WholeAt
  <2>4. CleanAt(f)'
    BY <2>1 DEF CleanAt, Writing
  <2> QED
    BY <2>3, <2>4
<1>9. StablePart'
  BY StableSame DEF Inv
<1> QED
  BY <1>4, <1>5, <1>7, <1>8, <1>9 DEF Inv, Whole, Clean

LEMMA StartWriteInv ==
  ASSUME Inv, NEW p \in Proc, NEW f \in File, NEW n \in Sizes, StartWrite(p, f, n)
  PROVE  Inv'
<1>0. n \in Nat /\ n > 0 /\ 0 \in 0..NBlock
  BY Constants
<1>1. loc'[p] = [NoLoc EXCEPT !.file = f, !.left = n] /\ pc'[p] = "begin"
      /\ loc' = [loc EXCEPT ![p] = loc'[p]] /\ pc' = [pc EXCEPT ![p] = "begin"]
  BY DEF StartWrite, Goto, Inv, TypeOK
<1>2. /\ loc'[p].file = f /\ loc'[p].left = n /\ loc'[p].pos = 0 /\ loc'[p].todo = 0 /\ loc'[p].addr = 0
      /\ loc'[p] \in [file : File \cup {None}, left : Nat, pos : Nat, todo : Nat, addr : 0..NBlock]
  <2>1. loc'[p] = [file |-> f, left |-> n, pos |-> 0, todo |-> 0, addr |-> 0]
    BY <1>1 DEF NoLoc
  <2> QED
    BY <1>0, <2>1
<1>3. UNCHANGED <<bitmap, data, dinode, ip, ilocked, off, stable>> /\ off[f] # -1 /\ pc[p] = "idle"
  BY DEF StartWrite, disk
<1>4. TypeOK'
  BY <1>1, <1>2, <1>3 DEF Inv, TypeOK
<1>5. PlaceInv(p)'
  BY <1>0, <1>1, <1>2, <1>3 DEF PlaceInv, Here, Writing
<1>6. \A q \in Proc : q # p => pc'[q] = pc[q] /\ loc'[q] = loc[q]
  BY <1>1 DEF Inv, TypeOK
<1> QED
  BY <1>1, <1>2, <1>3, <1>4, <1>5, <1>6, FreeStep

LEMMA BeginChunkInv ==
  ASSUME Inv, NEW p \in Proc, BeginChunk(p)
  PROVE  Inv'
<1> SUFFICES ASSUME NEW f \in File, f = Here(p) PROVE Inv'
  BY DEF BeginChunk, Inv, PlaceInv
<1> DEFINE n1 == Min({loc[p].left, MaxChunk})
<1>0. /\ NoLoc \in [file : File \cup {None}, left : Nat, pos : Nat, todo : Nat, addr : 0..NBlock]
      /\ NoLoc.addr = 0 /\ MaxSize \in Nat /\ MaxChunk \in Nat \ {0} /\ None \notin Proc
  BY Constants DEF NoLoc
<1>1. /\ f \in File /\ loc[p].left > 0 /\ loc[p].left \in Nat /\ loc[p].pos = 0 /\ loc[p].addr = 0 /\ off[f] # -1
      /\ off[f] \in 0..MaxSize /\ ip[f].size \in 0..MaxSize
  BY DEF BeginChunk, Inv, TypeOK, PlaceInv, Inode
<1>2. n1 \in Nat /\ n1 > 0 /\ n1 <= loc[p].left
  BY <1>0, <1>1, MinOfTwo
<1>3. UNCHANGED <<bitmap, data, dinode, ip, off, stable>> /\ ilocked[f] = None /\ pc[p] = "begin"
  BY DEF BeginChunk, disk
<1>4. CASE off[f] > ip[f].size \/ off[f] + n1 > MaxSize
  <2>1. pc' = [pc EXCEPT ![p] = "idle"] /\ loc' = [loc EXCEPT ![p] = NoLoc] /\ ilocked' = ilocked
    BY <1>4 DEF BeginChunk, Goto
  <2>2. pc'[p] = "idle" /\ loc'[p] = NoLoc /\ \A q \in Proc : q # p => pc'[q] = pc[q] /\ loc'[q] = loc[q]
    BY <2>1 DEF Inv, TypeOK
  <2>3. TypeOK'
    BY <1>0, <1>3, <2>1 DEF Inv, TypeOK
  <2>4. PlaceInv(p)'
    BY <1>0, <2>2 DEF PlaceInv, Writing
  <2> QED
    BY <1>0, <1>3, <2>1, <2>2, <2>3, <2>4, FreeStep
<1>5. CASE ~(off[f] > ip[f].size \/ off[f] + n1 > MaxSize)
  <2>1. /\ pc' = [pc EXCEPT ![p] = "bmap"] /\ ilocked' = [ilocked EXCEPT ![f] = p]
        /\ loc' = [loc EXCEPT ![p].left = @ - n1, ![p].pos = off[f], ![p].todo = n1]
    BY <1>5 DEF BeginChunk, Goto
  <2>2. /\ pc'[p] = "bmap" /\ ilocked'[f] = p
        /\ \A q \in Proc : q # p => pc'[q] = pc[q] /\ loc'[q] = loc[q]
        /\ \A g \in File : g # f => ilocked'[g] = ilocked[g]
    BY <1>1, <2>1 DEF Inv, TypeOK
  <2>3. loc'[p] = [loc[p] EXCEPT !.left = loc[p].left - n1, !.pos = off[f], !.todo = n1]
    BY <2>1 DEF Inv, TypeOK
  <2>4. loc[p] \in [file : File \cup {None}, left : Nat, pos : Nat, todo : Nat, addr : 0..NBlock]
    BY DEF Inv, TypeOK
  <2> HIDE DEF n1
  <2>20. loc[p].left - n1 \in Nat /\ off[f] \in Nat /\ n1 \in Nat /\ loc[p].file = f
    BY <1>1, <1>2 DEF Here
  <2>5. /\ loc'[p].file = f /\ loc'[p].pos = off[f] /\ loc'[p].todo = n1 /\ loc'[p].addr = 0
        /\ loc'[p] \in [file : File \cup {None}, left : Nat, pos : Nat, todo : Nat, addr : 0..NBlock]
    BY <1>1, <2>3, <2>4, <2>20
  <2>6. loc' = [loc EXCEPT ![p] = loc'[p]]
    BY <2>1 DEF Inv, TypeOK
  <2>7. TypeOK'
    BY <1>1, <1>3, <2>1, <2>5, <2>6 DEF Inv, TypeOK
  <2>8. \A g \in File : Past'[g] = Past[g]
    BY <1>0, <1>3, <2>2, PastKept DEF Inv
  <2>9. NumsKept
    BY <1>3, <2>8, SameNums
  <2>10. \A g \in File : ilocked[g] # p
    BY <1>3 DEF Inv, LockInv, Writing
  <2>11. Only(p, f)
    BY <1>1, <1>3, <2>2, <2>9 DEF Only, NumsKept
  <2>12. PlaceInv(p)'
    <3>1. Here(p)' = f /\ Writing(p)' /\ pc'[p] = "bmap" /\ loc'[p].pos = off[f] /\ loc'[p].todo = n1 /\ loc'[p].addr = 0
      BY <2>2, <2>5 DEF Here, Writing
    <3>2. off[f] <= ip[f].size /\ off[f] + n1 <= MaxSize
      BY <1>1, <1>2, <1>5, <1>0
    <3> QED
      BY <1>1, <1>2, <1>3, <2>2, <3>1, <3>2 DEF PlaceInv
  <2>13. NumPart'
    BY <1>1, <1>3, <2>2, <2>5, <2>9, KeptNums DEF Inv, AddrsKept
  <2>14. WholeAt(f)'
    <3>1. WholeAt(f) /\ ~\E q \in Proc : ilocked[f] = q
      BY <1>0, <1>1, <1>3 DEF Inv, Whole
    <3>2. \A bn \in Bn : Num(f, PlaceOf(bn))' = Num(f, PlaceOf(bn))
      BY <1>1, <2>9, PlaceOfPlace DEF NumsKept, KeptIn
    <3>3. \A bn \in Bn : bn * BSIZE \in Int
      BY Constants DEF Bn
    <3>4. \A bn \in Bn : bn * BSIZE >= ip[f].size => bn * BSIZE >= off[f]
      BY <1>1, <1>5, <3>3
    <3> QED
      BY <1>3, <2>2, <2>5, <3>1, <3>2, <3>4 DEF WholeAt
  <2>15. CleanAt(f)'
    <3>1. CleanAt(f)
      BY <1>1 DEF Inv, Clean
    <3>2. ip[f] = dinode[f]
      BY <1>0, <1>3, <3>1 DEF CleanAt
    <3> QED
      BY <1>3, <3>2 DEF CleanAt
  <2>16. StablePart'
    BY <1>3, StableSame DEF Inv
  <2>17. Writing(p)'
    BY <2>2 DEF Writing
  <2> QED
    BY <1>1, <2>5, <2>7, <2>10, <2>11, <2>12, <2>13, <2>14, <2>15, <2>16, <2>17, StepOn
<1> QED
  BY <1>4, <1>5

LEMMA ReadInv ==
  ASSUME Inv, NEW p \in Proc, NEW f \in File, NEW n \in Sizes, Read(p, f, n)
  PROVE  Inv'
<1>1. off' = [off EXCEPT ![f] = Min({off[f] + n, ip[f].size})] /\ off[f] # -1 /\ ilocked[f] = None
      /\ UNCHANGED <<bitmap, data, dinode, ip, ilocked, stable, pc, loc>>
  BY DEF Read, disk
<1>2. off[f] \in 0..MaxSize /\ ip[f].size \in 0..MaxSize /\ n \in Nat /\ MaxSize \in Nat /\ None \notin Proc
  BY <1>1, Constants DEF Inv, TypeOK, Inode
<1>3. Min({off[f] + n, ip[f].size}) \in 0..MaxSize
  BY <1>2, MinOfTwo
<1>4. off' \in [File -> (0..MaxSize) \cup {-1}] /\ off'[f] # -1 /\ \A g \in File : g # f => off'[g] = off[g]
  BY <1>1, <1>2, <1>3 DEF Inv, TypeOK
<1>5. ASSUME NEW q \in Proc PROVE /\ pc[q] = "begin" => off'[Here(q)] # -1
                                  /\ Writing(q) \/ pc[q] = "trunc" => off'[Here(q)] = off[Here(q)]
  <2>1. PlaceInv(q)
    BY DEF Inv
  <2>2. pc[q] # "idle" => Here(q) \in File
    BY <2>1 DEF PlaceInv
  <2>3. Writing(q) \/ pc[q] = "trunc" => Here(q) # f /\ Here(q) \in File
    BY <1>1, <1>2, <2>1 DEF PlaceInv, Writing
  <2>4. pc[q] = "begin" => off'[Here(q)] # -1
    BY <1>4, <2>1, <2>2 DEF PlaceInv
  <2> QED
    BY <1>4, <2>3, <2>4
<1> QED
  BY <1>1, <1>4, <1>5, OffStep

-----------------------------------------------------------------------------
(* A process in writei(), with the block it is at.                          *)
LEMMA WriterAt ==
  ASSUME Inv, NEW p \in Proc, pc[p] \in {"bmap", "zero"}
  PROVE  /\ Writing(p) /\ Here(p) \in File /\ ilocked[Here(p)] = p /\ \A g \in File : ilocked[g] = p => g = Here(p)
         /\ loc[p].pos \in Nat /\ loc[p].todo \in Nat /\ loc[p].todo > 0 /\ loc[p].pos + loc[p].todo <= MaxSize
         /\ MaxSize \in Nat /\ loc[p].pos < MaxSize
         /\ (loc[p].pos \div BSIZE) \in Bn /\ (loc[p].pos \div BSIZE) * BSIZE \in Nat
         /\ (loc[p].pos \div BSIZE) * BSIZE <= loc[p].pos
<1>1. Writing(p) /\ PlaceInv(p) /\ TypeOK /\ LockInv /\ MaxSize \in Nat
  BY Constants DEF Inv, Writing
<1>2. Here(p) \in File /\ ilocked[Here(p)] = p /\ \A g \in File : ilocked[g] = p => g = Here(p)
  BY <1>1 DEF PlaceInv, LockInv
<1>3. /\ loc[p].pos \in Nat /\ loc[p].todo \in Nat /\ loc[p].todo > 0 /\ loc[p].pos + loc[p].todo <= MaxSize
      /\ loc[p].pos < MaxSize
  BY <1>1 DEF PlaceInv, TypeOK
<1>4. /\ (loc[p].pos \div BSIZE) \in Bn /\ (loc[p].pos \div BSIZE) * BSIZE \in Nat
      /\ (loc[p].pos \div BSIZE) * BSIZE <= loc[p].pos
  BY <1>3, BlockNumber
<1> QED
  BY <1>1, <1>2, <1>3, <1>4

LEMMA BallocInv ==
  ASSUME Inv, NEW p \in Proc, Balloc(p)
  PROVE  Inv'
<1>0. pc[p] = "bmap"
  BY DEF Balloc
<1> SUFFICES ASSUME NEW f \in File, f = Here(p), NEW bn \in Bn, bn = loc[p].pos \div BSIZE PROVE Inv'
  BY <1>0, WriterAt
<1> DEFINE b == Min(Block \ bitmap)
<1>1. /\ Writing(p) /\ ilocked[f] = p /\ bn \in Bn /\ loc[p].pos \in Nat /\ loc[p].file = f
      /\ \A g \in File : ilocked[g] = p => g = f
  BY <1>0, WriterAt DEF Here
<1>2. b \in Block \ bitmap
  BY MinIsMember, Constants DEF Balloc, Block
<1>3. /\ Lacks(f, bn) # "none" /\ bitmap' = bitmap \cup {b} /\ loc' = [loc EXCEPT ![p].addr = b]
      /\ pc' = [pc EXCEPT ![p] = "zero"] /\ UNCHANGED <<data, dinode, ip, ilocked, off, stable>>
  BY DEF Balloc, Goto
<1> HIDE DEF b
<1>4. /\ loc'[p] = [loc[p] EXCEPT !.addr = b] /\ pc'[p] = "zero"
      /\ \A q \in Proc : q # p => pc'[q] = pc[q] /\ loc'[q] = loc[q]
  BY <1>3 DEF Inv, TypeOK
<1>5. /\ loc'[p].file = f /\ loc'[p].pos = loc[p].pos /\ loc'[p].todo = loc[p].todo /\ loc'[p].addr = b
      /\ loc'[p] \in [file : File \cup {None}, left : Nat, pos : Nat, todo : Nat, addr : 0..NBlock]
  BY <1>1, <1>2, <1>4, Constants DEF Inv, TypeOK
<1>6. TypeOK'
  <2>1. loc' = [loc EXCEPT ![p] = loc'[p]]
    BY <1>3 DEF Inv, TypeOK
  <2> QED
    BY <1>2, <1>3, <1>5, <2>1 DEF Inv, TypeOK
<1>7. \A g \in File : Past'[g] = Past[g]
  BY <1>0, <1>3, <1>4, PastKept DEF Inv
<1>8. NumsKept
  BY <1>3, <1>7, SameNums
<1>9. Only(p, f)
  BY <1>1, <1>3, <1>4, <1>8 DEF Only, NumsKept
<1>10. Num(f, PlaceOf(bn)) = 0
  BY <1>1, <1>3, PathIs
<1>11. PlaceInv(p)'
  <2>1. Here(p)' = f /\ Writing(p)' /\ PlaceInv(p) /\ Here(p) = f
    BY <1>4, <1>5 DEF Here, Writing, Inv
  <2>2. Num(f, PlaceOf(bn))' = 0
    BY <1>1, <1>8, <1>10, PlaceOfPlace DEF NumsKept, KeptIn
  <2>3. b # 0
    BY <1>2, Constants
  <2> QED
    BY <1>0, <1>1, <1>3, <1>4, <1>5, <2>1, <2>2, <2>3 DEF PlaceInv
<1>12. NumPart'
  <2>1. loc[p].addr = 0
    BY <1>0 DEF Inv, PlaceInv
  <2> QED
    BY <1>2, <1>3, <1>4, <1>5, <1>8, <2>1, TakenNums DEF Inv
<1>13. WholeAt(f)'
  <2>1. WholeAt(f)
    BY DEF Inv, Whole
  <2>2. \A m \in Bn : Num(f, PlaceOf(m))' = Num(f, PlaceOf(m))
    BY <1>8, PlaceOfPlace DEF NumsKept, KeptIn
  <2> QED
    BY <1>0, <1>1, <1>3, <1>5, <2>1, <2>2 DEF WholeAt
<1>14. CleanAt(f)'
  <2>1. CleanAt(f) /\ Writing(p)
    BY <1>1 DEF Inv, Clean
  <2> QED
    BY <1>1, <1>3, <1>5, <2>1 DEF CleanAt
<1>15. StablePart' /\ Writing(p)'
  BY <1>3, <1>4, StableSame DEF Inv, Writing
<1> QED
  BY <1>1, <1>5, <1>6, <1>9, <1>11, <1>12, <1>13, <1>14, <1>15, StepOn

(* No block of a file is an indirect block, but at its own place.           *)
LEMMA AttachNumSet ==
  ASSUME Inv, NEW p \in Proc, Attach(p), NEW f \in File, f = Here(p), NEW bn \in Bn, bn = loc[p].pos \div BSIZE,
         \A g \in File : Past'[g] = Past[g]
  PROVE  /\ \E l \in Place : Num(f, l) = 0 /\ NumSet(f, l, loc[p].addr)
         /\ loc[p].addr \in Block /\ data' \in Contents
         /\ ip' \in [File -> Inode] /\ ip'[f].size = ip[f].size /\ \A g \in File : g # f => ip'[g] = ip[g]
<1> DEFINE b == loc[p].addr
<1>0. /\ pc[p] = "zero" /\ PlaceInv(p) /\ NDIRECT \in Nat /\ BSIZE \in Nat /\ NBlock \in Nat /\ 0 \in 0..NBlock
      /\ bn \in Nat /\ ip \in [File -> Inode] /\ data \in Contents /\ 0 \notin Block
  BY Constants DEF Attach, Inv, TypeOK, Bn
<1>1. Writing(p) /\ Past[f] = 0
  BY <1>0, WriterAt, PathIs
<1>2. Num(f, PlaceOf(bn)) = 0
  BY <1>0, PlaceOfPlace DEF PlaceInv
<1>3. b \in Block /\ b # 0 /\ b \in 0..NBlock
  <2>1. loc[p].addr # 0 /\ loc[p].addr \in 0..NBlock
    BY <1>0 DEF PlaceInv, Inv, TypeOK
  <2> QED
    BY <2>1, Constants
<1>4. \A g \in File, k \in Place : Num(g, k) # b
  BY <1>3 DEF Inv, NumPart, HandInv
<1>5. \A g \in File : ip[g].addrs[NDIRECT] = Num(g, NDIRECT) /\ ip[g].addrs[NDIRECT] # b
  <2>1. \A g \in File : ip[g].addrs[NDIRECT] = Num(g, NDIRECT)
    BY <1>0 DEF Num, Named
  <2> QED
    BY <1>4, <2>1, Constants
<1>6. Zeros \in [Cell -> Content] /\ Content \subseteq Content /\ b \in Content
  BY <1>0, <1>3 DEF Zeros, Content
<1>7. Bzero(b) \in Contents /\ Bzero(b)[b] = Zeros /\ \A c \in Block : c # b => Bzero(b)[c] = data[c]
  BY <1>0, <1>3, <1>6 DEF Bzero, Contents
<1>8. ip[f] \in [size : 0..MaxSize, addrs : [0..NDIRECT -> 0..NBlock]]
  BY <1>0 DEF Inode
<1>9. \A g \in File : Indirect(g) # 0 => Indirect(g) \in Block
  BY <1>0, Constants DEF Indirect, Inode
<1> HIDE DEF b
<1>10. Lacks(f, bn) \in {"direct", "indirect", "entry"}
  BY <1>1, <1>2, PathIs
<1>11. CASE Lacks(f, bn) = "entry"
  <2>1. /\ data' = [Bzero(b) EXCEPT ![Indirect(f)][bn - NDIRECT] = b] /\ ip' = ip
    BY <1>11 DEF Attach, b
  <2>2. bn >= NDIRECT /\ Indirect(f) # 0 /\ Indirect(f) \in Block /\ Indirect(f) # b /\ bn - NDIRECT \in Cell
    BY <1>1, <1>5, <1>9, <1>11, PathIs, PlaceOfPlace DEF Indirect
  <2>3. PlaceOf(bn) \in Place /\ PlaceOf(bn) > NDIRECT /\ PlaceOf(bn) - NDIRECT - 1 = bn - NDIRECT
    BY <2>2, PlaceOfPlace
  <2>4. data' \in Contents
    BY <1>6, <1>7, <2>1, <2>2 DEF Contents
  <2>5. data'[Indirect(f)] = [data[Indirect(f)] EXCEPT ![bn - NDIRECT] = b]
        /\ \A c \in Block : c # b /\ c # Indirect(f) => data'[c] = data[c]
    BY <1>7, <2>1, <2>2 DEF Contents
  <2>6. data[Indirect(f)] \in [Cell -> Content]
    BY <1>0, <2>2 DEF Contents
  <2>7. \A c \in Cell : data'[Indirect(f)][c] = IF c = bn - NDIRECT THEN b ELSE data[Indirect(f)][c]
    BY <2>2, <2>5, <2>6
  <2>8. ASSUME NEW g \in File, g # f PROVE KeptIn(g)
    <3>1. Indirect(g) # 0 => Indirect(g) # Indirect(f) /\ Indirect(g) # b /\ Indirect(g) \in Block
      BY <1>5, <1>9, <2>2, <2>8, Constants DEF Indirect, Inv, NumPart, Once
    <3>2. ip[g].addrs[NDIRECT] # 0 => data'[ip[g].addrs[NDIRECT]] = data[ip[g].addrs[NDIRECT]]
      BY <2>5, <3>1 DEF Indirect
    <3> QED
      BY <2>1, <3>2, NumFrame
  <2>9. ASSUME NEW k \in Place PROVE Num(f, k)' = IF k = PlaceOf(bn) THEN b ELSE Num(f, k)
    <3>1. Num(f, k)' = Named(ip', data', Past', f, k) /\ Past'[f] = 0
      BY <1>1 DEF Num, Named
    <3>2. k \in Nat /\ (k > NDIRECT => k - NDIRECT - 1 \in Cell)
      BY <1>0 DEF Place, Cell
    <3>3. CASE k <= NDIRECT
      <4>1. k # PlaceOf(bn)
        BY <1>0, <2>3, <3>2, <3>3 DEF Place
      <4> QED
        BY <2>1, <3>1, <3>3, <4>1 DEF Num, Named
    <3>4. CASE k > NDIRECT
      <4>1. k - NDIRECT - 1 \in Cell /\ ~(k <= NDIRECT) /\ ~(k - NDIRECT - 1 < 0)
        BY <1>0, <3>2, <3>4 DEF Cell
      <4>2. Num(f, k)' = data'[Indirect(f)][k - NDIRECT - 1] /\ Num(f, k) = data[Indirect(f)][k - NDIRECT - 1]
        BY <1>1, <2>1, <2>2, <3>1, <4>1 DEF Num, Named, Indirect
      <4>3. PlaceOf(bn) \in Nat
        BY <2>3 DEF Place
      <4>4. k - NDIRECT - 1 = bn - NDIRECT <=> k = PlaceOf(bn)
        BY <1>0, <2>3, <3>2, <4>3
      <4> QED
        BY <2>7, <4>1, <4>2, <4>4
    <3> QED
      BY <1>0, <3>2, <3>3, <3>4
  <2>10. NumSet(f, PlaceOf(bn), b)
    BY <2>3, <2>8, <2>9 DEF NumSet, KeptIn
  <2> QED
    BY <1>0, <1>2, <1>3, <2>1, <2>3, <2>4, <2>10 DEF b
<1>12. CASE Lacks(f, bn) \in {"direct", "indirect"}
  <2> DEFINE l == Min({bn, NDIRECT})
  <2>1. data' = Bzero(b) /\ ip' = [ip EXCEPT ![f].addrs[l] = b]
    BY <1>12 DEF Attach, b
  <2>2. /\ l = IF bn < NDIRECT THEN bn ELSE NDIRECT
        /\ l \in 0..NDIRECT /\ l \in Place
    BY <1>0, MinOfTwo, Constants
  <2> HIDE DEF l
  <2>3. ip' \in [File -> Inode] /\ \A g \in File : g # f => ip'[g] = ip[g]
    BY <1>0, <1>3, <1>8, <2>1, <2>2 DEF Inode
  <2>4. ip'[f].size = ip[f].size /\ ip'[f].addrs = [ip[f].addrs EXCEPT ![l] = b]
    BY <1>0, <1>8, <2>1
  <2>5. \A k \in 0..NDIRECT : ip'[f].addrs[k] = IF k = l THEN b ELSE ip[f].addrs[k]
    BY <1>8, <2>2, <2>4
  <2>6. ASSUME NEW g \in File, g # f PROVE KeptIn(g)
    <3>1. ip[g].addrs[NDIRECT] # 0 => data'[ip[g].addrs[NDIRECT]] = data[ip[g].addrs[NDIRECT]]
      BY <1>5, <1>7, <1>9, <2>1 DEF Indirect
    <3> QED
      BY <2>3, <2>6, <3>1, NumFrame
  <2>7. Num(f, l) = 0
    <3>1. CASE bn < NDIRECT
      BY <1>0, <1>2, <2>2, <3>1 DEF PlaceOf
    <3>2. CASE bn >= NDIRECT
      <4>1. Lacks(f, bn) = "indirect"
        BY <1>0, <1>1, <1>12, <3>2, PathIs
      <4> QED
        BY <1>0, <1>1, <2>2, <3>2, <4>1, PathIs
    <3> QED
      BY <1>0, <3>1, <3>2
  <2>8. ASSUME NEW k \in Place PROVE Num(f, k)' = IF k = l THEN b ELSE Num(f, k)
    <3>1. Num(f, k)' = Named(ip', data', Past', f, k) /\ Past'[f] = 0
      BY <1>1 DEF Num, Named
    <3>2. k \in Nat /\ (k > NDIRECT => k - NDIRECT - 1 \in Cell) /\ l <= NDIRECT
      BY <1>0, <2>2 DEF Place, Cell
    <3>3. CASE k <= NDIRECT
      <4>1. k \in 0..NDIRECT
        BY <1>0, <3>2, <3>3
      <4> QED
        BY <2>5, <3>1, <3>3, <4>1 DEF Num, Named
    <3>4. CASE k > NDIRECT
      <4>1. k - NDIRECT - 1 \in Cell /\ ~(k <= NDIRECT) /\ ~(k - NDIRECT - 1 < 0) /\ k # l
        BY <1>0, <3>2, <3>4 DEF Cell
      <4>2. CASE l = NDIRECT /\ bn >= NDIRECT
        <5>1. Num(f, k) = 0
          BY <1>1, <1>5, <2>7, <4>1, <4>2 DEF Num, Named
        <5>2. Num(f, k)' = Zeros[k - NDIRECT - 1]
          BY <1>3, <1>7, <2>1, <2>2, <2>5, <3>1, <4>1, <4>2 DEF Num, Named
        <5> QED
          BY <4>1, <5>1, <5>2 DEF Zeros
      <4>3. CASE l # NDIRECT
        <5>1. ip'[f].addrs[NDIRECT] = ip[f].addrs[NDIRECT]
          BY <1>0, <2>5, <4>3, Constants
        <5>2. ip[f].addrs[NDIRECT] # 0 => data'[ip[f].addrs[NDIRECT]] = data[ip[f].addrs[NDIRECT]]
          BY <1>5, <1>7, <1>9, <2>1 DEF Indirect
        <5> QED
          BY <1>1, <3>1, <4>1, <5>1, <5>2 DEF Num, Named
      <4> QED
        BY <1>0, <2>2, <4>2, <4>3
    <3> QED
      BY <1>0, <3>2, <3>3, <3>4
  <2>9. NumSet(f, l, b)
    BY <2>2, <2>6, <2>8 DEF NumSet, KeptIn
  <2> QED
    BY <1>3, <1>7, <2>1, <2>2, <2>3, <2>4, <2>7, <2>9 DEF b
<1> QED
  BY <1>10, <1>11, <1>12

LEMMA AttachInv ==
  ASSUME Inv, NEW p \in Proc, Attach(p)
  PROVE  Inv'
<1>0. pc[p] = "zero"
  BY DEF Attach
<1> SUFFICES ASSUME NEW f \in File, f = Here(p), NEW bn \in Bn, bn = loc[p].pos \div BSIZE PROVE Inv'
  BY <1>0, WriterAt
<1>1. /\ Writing(p) /\ ilocked[f] = p /\ loc[p].pos \in Nat /\ loc[p].todo \in Nat /\ loc[p].todo > 0 /\ loc[p].file = f
      /\ loc[p].pos + loc[p].todo <= MaxSize /\ bn * BSIZE <= loc[p].pos /\ bn * BSIZE \in Nat
      /\ \A g \in File : ilocked[g] = p => g = f
  BY <1>0, WriterAt DEF Here
<1>2. /\ loc' = [loc EXCEPT ![p].addr = 0] /\ pc' = [pc EXCEPT ![p] = "bmap"]
      /\ UNCHANGED <<bitmap, dinode, ilocked, off, stable>>
  BY DEF Attach, Goto
<1>3. /\ loc'[p] = [loc[p] EXCEPT !.addr = 0] /\ pc'[p] = "bmap"
      /\ \A q \in Proc : q # p => pc'[q] = pc[q] /\ loc'[q] = loc[q]
  BY <1>2 DEF Inv, TypeOK
<1>4. /\ loc'[p].file = f /\ loc'[p].pos = loc[p].pos /\ loc'[p].todo = loc[p].todo /\ loc'[p].addr = 0
      /\ loc'[p] \in [file : File \cup {None}, left : Nat, pos : Nat, todo : Nat, addr : 0..NBlock]
  BY <1>1, <1>3, Constants DEF Inv, TypeOK
<1>5. \A g \in File : Past'[g] = Past[g]
  BY <1>0, <1>2, <1>3, PastKept DEF Inv
<1>6. /\ \E l \in Place : Num(f, l) = 0 /\ NumSet(f, l, loc[p].addr)
      /\ loc[p].addr \in Block /\ data' \in Contents
      /\ ip' \in [File -> Inode] /\ ip'[f].size = ip[f].size /\ \A g \in File : g # f => ip'[g] = ip[g]
  BY <1>5, AttachNumSet
<1>7. PICK l \in Place : Num(f, l) = 0 /\ NumSet(f, l, loc[p].addr)
  BY <1>6
<1>8. TypeOK'
  <2>1. loc' = [loc EXCEPT ![p] = loc'[p]]
    BY <1>2 DEF Inv, TypeOK
  <2> QED
    BY <1>2, <1>4, <1>6, <2>1 DEF Inv, TypeOK
<1>9. Only(p, f)
  <2>1. \A g \in File : g # f => KeptIn(g)
    BY <1>7 DEF NumSet, KeptIn
  <2> QED
    BY <1>1, <1>2, <1>3, <1>6, <2>1 DEF Only
<1>10. PlaceInv(p)'
  <2>1. Here(p)' = f /\ Writing(p)' /\ PlaceInv(p) /\ Here(p) = f
    BY <1>3, <1>4 DEF Here, Writing, Inv
  <2> QED
    BY <1>0, <1>1, <1>2, <1>3, <1>4, <1>6, <2>1 DEF PlaceInv
<1>11. NumPart'
  BY <1>2, <1>3, <1>4, <1>6, <1>7, AttachedNums DEF Inv
<1>12. \A m \in Bn : Num(f, PlaceOf(m))' = 0 => Num(f, PlaceOf(m)) = 0
  <2>1. loc[p].addr # 0
    BY <1>6, Constants
  <2> QED
    BY <1>7, <2>1, PlaceOfPlace DEF NumSet
<1>13. WholeAt(f)
  BY DEF Inv, Whole
<1>14. WholeAt(f)'
  BY <1>0, <1>1, <1>2, <1>4, <1>6, <1>12, <1>13 DEF WholeAt
<1>15. CleanAt(f)'
  <2>1. Num(f, PlaceOf(bn)) = 0
    BY <1>0, PlaceOfPlace DEF Inv, PlaceInv
  <2>2. bn * BSIZE >= ip[f].size
    BY <1>0, <1>1, <1>13, <2>1 DEF WholeAt
  <2>3. ip[f].size \in Nat
    BY Constants DEF Inv, TypeOK, Inode
  <2>4. loc[p].pos + loc[p].todo > ip[f].size
    BY <1>1, <2>2, <2>3
  <2> QED
    BY <1>1, <1>2, <1>4, <1>6, <2>4 DEF CleanAt
<1>16. StablePart' /\ Writing(p)'
  BY <1>2, <1>3, StableSame DEF Inv, Writing
<1> QED
  BY <1>1, <1>4, <1>8, <1>9, <1>10, <1>11, <1>14, <1>15, <1>16, StepOn

LEMMA WriteBlockInv ==
  ASSUME Inv, NEW p \in Proc, WriteBlock(p)
  PROVE  Inv'
<1>0. pc[p] = "bmap"
  BY DEF WriteBlock
<1> SUFFICES ASSUME NEW f \in File, f = Here(p), NEW bn \in Bn, bn = loc[p].pos \div BSIZE PROVE Inv'
  BY <1>0, WriterAt
<1> DEFINE first == loc[p].pos % BSIZE
           m == Min({loc[p].todo, BSIZE - first})
           b == BlockOf(f, bn)
           s == bn * BSIZE
<1>1. /\ Writing(p) /\ ilocked[f] = p /\ loc[p].pos \in Nat /\ loc[p].todo \in Nat /\ loc[p].todo > 0 /\ loc[p].file = f
      /\ loc[p].pos + loc[p].todo <= MaxSize /\ \A g \in File : ilocked[g] = p => g = f
  BY <1>0, WriterAt DEF Here
<1>2. /\ first \in Nat /\ first < BSIZE /\ loc[p].pos = s + first /\ s \in Nat /\ BSIZE \in Nat /\ MaxSize \in Nat
      /\ bn \in Nat /\ first \in Int
  BY <1>1, BlockNumber, Constants DEF Cell
<1> HIDE DEF first, s
<1>3. m \in Nat /\ m > 0 /\ m <= loc[p].todo /\ m <= BSIZE - first
  <2>1. m = IF loc[p].todo <= BSIZE - first THEN loc[p].todo ELSE BSIZE - first
    BY <1>1, <1>2, MinOfTwo
  <2> QED
    BY <1>1, <1>2, <2>1
<1>4. Lacks(f, bn) = "none" /\ b = Num(f, PlaceOf(bn)) /\ Num(f, PlaceOf(bn)) # 0 /\ b \in Block
  <2>1. Lacks(f, bn) = "none"
    BY DEF WriteBlock
  <2>2. b = Num(f, PlaceOf(bn)) /\ Num(f, PlaceOf(bn)) # 0
    BY <1>1, <2>1, PathIs
  <2>3. Num(f, PlaceOf(bn)) \in 0..NBlock
    BY PlaceOfPlace DEF Inv, NumPart, NumInv
  <2> QED
    BY <2>1, <2>2, <2>3, Constants
<1>5. /\ data' = [data EXCEPT ![b] = [c \in Cell |-> IF c \in first..(first + m - 1)
                                              THEN Byte(f, loc[p].pos + 1 + c - first) ELSE data[b][c]]]
      /\ loc' = [loc EXCEPT ![p].pos = @ + m, ![p].todo = @ - m]
      /\ pc' = [pc EXCEPT ![p] = IF m = loc[p].todo THEN "end" ELSE "bmap"]
      /\ UNCHANGED <<bitmap, dinode, ip, ilocked, off, stable>>
  BY <1>4 DEF WriteBlock, Goto, Inv, TypeOK, Contents, first
<1> HIDE DEF m, b
<1>6. data' \in Contents /\ \A c \in Block : c # b => data'[c] = data[c]
  <2>1. data \in [Block -> [Cell -> Content]]
    BY DEF Inv, TypeOK, Contents
  <2>2. ASSUME NEW c \in Cell, c \in first..(first + m - 1) PROVE Byte(f, loc[p].pos + 1 + c - first) \in Content
    <3>1. loc[p].pos + 1 + c - first \in 1..MaxSize
      BY <1>1, <1>2, <1>3, <2>2 DEF Cell
    <3> QED
      BY <3>1 DEF Content
  <2>3. \A c \in Cell : data[b][c] \in Content
    BY <1>4, <2>1
  <2>4. [c \in Cell |-> IF c \in first..(first + m - 1) THEN Byte(f, loc[p].pos + 1 + c - first) ELSE data[b][c]]
          \in [Cell -> Content]
    BY <2>2, <2>3
  <2> QED
    BY <1>4, <1>5, <2>1, <2>4 DEF Contents
<1>7. /\ loc'[p] = [loc[p] EXCEPT !.pos = loc[p].pos + m, !.todo = loc[p].todo - m]
      /\ pc'[p] = IF m = loc[p].todo THEN "end" ELSE "bmap"
      /\ \A q \in Proc : q # p => pc'[q] = pc[q] /\ loc'[q] = loc[q]
  BY <1>5 DEF Inv, TypeOK
<1>8. loc[p].addr = 0 /\ PlaceInv(p)
  BY <1>0 DEF Inv, PlaceInv
<1>9. /\ loc'[p].file = f /\ loc'[p].pos = loc[p].pos + m /\ loc'[p].todo = loc[p].todo - m /\ loc'[p].addr = 0
      /\ loc'[p] \in [file : File \cup {None}, left : Nat, pos : Nat, todo : Nat, addr : 0..NBlock]
  <2>1. loc[p] \in [file : File \cup {None}, left : Nat, pos : Nat, todo : Nat, addr : 0..NBlock]
    BY DEF Inv, TypeOK
  <2>2. loc[p].pos + m \in Nat /\ loc[p].todo - m \in Nat
    BY <1>1, <1>3
  <2> QED
    BY <1>1, <1>7, <1>8, <2>1, <2>2
<1>10. TypeOK'
  <2>1. loc' = [loc EXCEPT ![p] = loc'[p]]
    BY <1>5 DEF Inv, TypeOK
  <2> QED
    BY <1>5, <1>6, <1>9, <2>1 DEF Inv, TypeOK
<1>11. \A g \in File : Past'[g] = Past[g]
  <2>1. pc'[p] # "trunc" /\ pc[p] # "trunc"
    BY <1>0, <1>7
  <2> QED
    BY <1>5, <1>7, <2>1, PastKept DEF Inv
<1>12. NumsKept
  <2> SUFFICES ASSUME NEW g \in File PROVE KeptIn(g)
    BY DEF NumsKept
  <2>1. ip[g].addrs[NDIRECT] = Num(g, NDIRECT)
    BY Constants DEF Num, Named
  <2>2. ip[g].addrs[NDIRECT] # b
    <3>1. Once /\ PlaceOf(bn) \in Place /\ PlaceOf(bn) # NDIRECT /\ NDIRECT \in Place
      BY PlaceOfPlace, Constants DEF Inv, NumPart
    <3>2. Num(f, PlaceOf(bn)) # Num(g, NDIRECT)
      BY <1>4, <3>1 DEF Once
    <3> QED
      BY <1>4, <2>1, <3>2
  <2>3. ip[g].addrs[NDIRECT] # 0 => ip[g].addrs[NDIRECT] \in Block
    <3>1. ip[g] \in Inode /\ NDIRECT \in 0..NDIRECT
      BY Constants DEF Inv, TypeOK
    <3>2. ip[g].addrs[NDIRECT] \in 0..NBlock
      BY <3>1 DEF Inode
    <3> QED
      BY <3>2, Constants
  <2> QED
    BY <1>5, <1>6, <1>11, <2>2, <2>3, NumFrame
<1>13. Only(p, f)
  BY <1>1, <1>5, <1>7, <1>12 DEF Only, NumsKept
<1>14. PlaceInv(p)'
  <2>1. Here(p)' = f /\ Writing(p)' /\ Here(p) = f
    BY <1>7, <1>9 DEF Here, Writing
  <2>2. off[f] # -1 /\ off[f] <= ip[f].size /\ off[f] <= loc[p].pos /\ off[f] \in Int
    BY <1>0, <1>1, <1>8 DEF PlaceInv, Inv, TypeOK
  <2>3. off[f] <= loc'[p].pos /\ loc'[p].pos + loc'[p].todo <= MaxSize /\ (loc'[p].todo > 0 <=> pc'[p] # "end")
    BY <1>1, <1>2, <1>3, <1>7, <1>9, <2>2
  <2> QED
    BY <1>1, <1>5, <1>7, <1>9, <2>1, <2>2, <2>3 DEF PlaceInv
<1>15. NumPart'
  BY <1>5, <1>7, <1>8, <1>9, <1>12, KeptNums DEF Inv, AddrsKept
<1>16. WholeAt(f)'
  <2>1. WholeAt(f)
    BY DEF Inv, Whole
  <2>2. \A k \in Bn : Num(f, PlaceOf(k))' = Num(f, PlaceOf(k))
    BY <1>12, PlaceOfPlace DEF NumsKept, KeptIn
  <2>3. ASSUME NEW k \in Bn, Num(f, PlaceOf(k)) = 0 PROVE k * BSIZE >= ip[f].size /\ k * BSIZE >= loc'[p].pos
    <3>1. k * BSIZE >= ip[f].size /\ k * BSIZE >= loc[p].pos /\ k # bn
      BY <1>0, <1>1, <1>4, <2>1, <2>3 DEF WholeAt
    <3>2. k \in Int /\ k * BSIZE \in Int
      BY <1>2 DEF Bn
    <3>3. k > bn
      <4> SUFFICES ASSUME k + 1 <= bn PROVE FALSE
        BY <1>2, <3>1, <3>2
      <4>1. (k + 1) * BSIZE <= bn * BSIZE
        BY <1>2, <3>2, Times
      <4>2. (k + 1) * BSIZE = k * BSIZE + BSIZE
        BY <1>2, <3>2
      <4> QED
        BY <1>2, <3>1, <3>2, <4>1, <4>2, Constants DEF s
    <3>4. (bn + 1) * BSIZE <= k * BSIZE
      BY <1>2, <3>2, <3>3, Times
    <3>5. (bn + 1) * BSIZE = bn * BSIZE + BSIZE
      BY <1>2
    <3> QED
      BY <1>1, <1>2, <1>3, <1>9, <3>1, <3>2, <3>4, <3>5 DEF s
  <2> QED
    BY <1>1, <1>5, <1>9, <2>2, <2>3 DEF WholeAt
<1>17. CleanAt(f)'
  <2>1. CleanAt(f)
    BY DEF Inv, Clean
  <2>2. loc'[p].pos + loc'[p].todo = loc[p].pos + loc[p].todo
    BY <1>1, <1>3, <1>9
  <2> QED
    BY <1>1, <1>5, <2>1, <2>2 DEF CleanAt
<1>18. StablePart' /\ Writing(p)'
  BY <1>5, <1>7, StableSame DEF Inv, Writing
<1> QED
  BY <1>1, <1>9, <1>10, <1>13, <1>14, <1>15, <1>16, <1>17, <1>18, StepOn

-----------------------------------------------------------------------------
(* A step with which p leaves its transaction and the file g.               *)
LEMMA EndOpStep ==
  ASSUME Inv, NEW p \in Proc, NEW g \in File, Only(p, g), \A f \in File : ilocked[f] = p => f = g,
         TypeOK', PlaceInv(p)', pc'[p] \in {"idle", "begin"}, ilocked'[g] = None,
         NumPart', WholeAt(g)', CleanAt(g)', EndOp(p)
  PROVE  Inv'
<1>0. None \notin Proc
  BY Constants
<1>1. /\ \A q \in Proc : q # p => PlaceInv(q)'
      /\ \A f \in File : f # g => WholeAt(f)' /\ CleanAt(f)'
      /\ LockInv'
  BY <1>0, OthersKeep
<1>2. (\A q \in Proc : PlaceInv(q)') /\ Whole' /\ Clean'
  BY <1>1 DEF Whole, Clean
<1>3. CASE \E q \in Proc \ {p} : InOp(q)
  <2>1. stable' = stable
    BY <1>3 DEF EndOp
  <2> QED
    BY <1>1, <1>2, <2>1, StableSame DEF Inv
<1>4. CASE ~\E q \in Proc \ {p} : InOp(q)
  <2>1. stable' = [bitmap |-> bitmap', data |-> data', dinode |-> dinode']
    BY <1>4 DEF EndOp
  <2>2. \A q \in Proc : pc'[q] \in {"idle", "begin"}
    BY <1>4 DEF Only, InOp
  <2>3. \A q \in Proc : loc'[q].addr = 0 /\ pc'[q] # "trunc"
    BY <1>2, <2>2 DEF PlaceInv
  <2>4. \A f \in File : Past'[f] = 0
    <3>1. ASSUME NEW f \in File PROVE Past'[f] = IF \E q \in Proc : pc'[q] = "trunc" /\ loc'[q].file = f THEN loc'[ilocked'[f]].pos ELSE 0
      BY DEF Past, Here
    <3> QED
      BY <2>3, <3>1
  <2>5. \A f \in File : ip'[f] = dinode'[f]
    <3> SUFFICES ASSUME NEW f \in File, ip'[f] # dinode'[f] PROVE FALSE
      OBVIOUS
    <3>1. CleanAt(f)'
      BY <1>2 DEF Clean
    <3>2. PICK q \in Proc : ilocked'[f] = q
      BY <3>1 DEF CleanAt
    <3>3. Writing(q)' \/ pc'[q] = "trunc"
      BY <1>1, <3>2 DEF LockInv
    <3> QED
      BY <2>2, <3>3 DEF Writing
  <2>6. ip' = dinode'
    BY <2>5 DEF TypeOK
  <2>7. StablePart'
    BY <1>2, <2>1, <2>3, <2>4, <2>6, Committed
  <2> QED
    BY <1>1, <1>2, <2>7 DEF Inv
<1> QED
  BY <1>3, <1>4

LEMMA StableType ==
  ASSUME TypeOK, NEW p \in Proc, EndOp(p), bitmap' \in SUBSET Block, data' \in Contents, dinode' \in [File -> Inode]
  PROVE  stable' \in [bitmap : SUBSET Block, data : Contents, dinode : [File -> Inode]]
BY DEF TypeOK, EndOp

LEMMA EndChunkInv ==
  ASSUME Inv, NEW p \in Proc, EndChunk(p)
  PROVE  Inv'
<1>0. pc[p] = "end" /\ Writing(p) /\ PlaceInv(p) /\ TypeOK /\ None \notin Proc
  BY Constants DEF EndChunk, Inv, Writing
<1> SUFFICES ASSUME NEW f \in File, f = Here(p) PROVE Inv'
  BY <1>0 DEF PlaceInv
<1> DEFINE grown == [ip[f] EXCEPT !.size = loc[p].pos]
<1>1. /\ ilocked[f] = p /\ \A g \in File : ilocked[g] = p => g = f
      /\ loc[p].pos \in Nat /\ loc[p].left \in Nat /\ loc[p].todo = 0 /\ loc[p].addr = 0 /\ loc[p].file = f
      /\ loc[p].pos <= MaxSize /\ MaxSize \in Nat /\ loc[p].pos \in 0..MaxSize
  <2>1. ilocked[f] = p /\ \A g \in File : ilocked[g] = p => g = f
    BY <1>0 DEF PlaceInv, Inv, LockInv
  <2>2. loc[p].pos \in Nat /\ loc[p].left \in Nat /\ loc[p].todo \in Nat /\ loc[p].file = f
    BY <1>0 DEF TypeOK, Here
  <2>3. loc[p].todo = 0 /\ loc[p].addr = 0 /\ loc[p].pos + loc[p].todo <= MaxSize
    BY <1>0, <2>2 DEF PlaceInv
  <2> QED
    BY <2>1, <2>2, <2>3, Constants
<1>2. /\ off' = [off EXCEPT ![f] = loc[p].pos] /\ ilocked' = [ilocked EXCEPT ![f] = None]
      /\ UNCHANGED <<bitmap, data>> /\ EndOp(p)
  BY DEF EndChunk, OffMoves
<1>3. ip[f] \in [size : 0..MaxSize, addrs : [0..NDIRECT -> 0..NBlock]]
  BY <1>0 DEF TypeOK, Inode
<1>4. grown \in Inode /\ grown.addrs = ip[f].addrs /\ grown.size = loc[p].pos
  BY <1>1, <1>3 DEF Inode
<1>5. /\ ip' \in [File -> Inode] /\ dinode' \in [File -> Inode] /\ ip'[f] = dinode'[f]
      /\ ip'[f].addrs = ip[f].addrs /\ ip'[f].size >= ip[f].size
      /\ ip'[f].size = ip[f].size \/ ip'[f].size = loc[p].pos
      /\ \A g \in File : g # f => ip'[g] = ip[g] /\ dinode'[g] = dinode[g]
  <2>1. CASE loc[p].pos > ip[f].size
    <3>1. ip' = [ip EXCEPT ![f] = grown] /\ dinode' = [dinode EXCEPT ![f] = grown]
      BY <2>1 DEF EndChunk, Iupdate
    <3> HIDE DEF grown
    <3> QED
      BY <1>0, <1>1, <1>3, <1>4, <2>1, <3>1 DEF TypeOK
  <2>2. CASE ~(loc[p].pos > ip[f].size)
    <3>1. ip' = ip /\ dinode' = dinode
      BY <2>2 DEF EndChunk
    <3>2. CleanAt(f)
      BY DEF Inv, Clean
    <3>3. ip[f] = dinode[f]
      <4> SUFFICES ASSUME ip[f] # dinode[f] PROVE FALSE
        OBVIOUS
      <4>1. loc[p].pos + loc[p].todo > ip[f].size
        BY <1>0, <1>1, <3>2 DEF CleanAt
      <4> QED
        BY <1>1, <2>2, <4>1
    <3> QED
      BY <1>0, <1>3, <3>1, <3>3 DEF TypeOK
  <2> QED
    BY <2>1, <2>2
<1> HIDE DEF grown
<1>6. /\ pc'[p] \in {"idle", "begin"} /\ loc'[p].addr = 0
      /\ \A q \in Proc : q # p => pc'[q] = pc[q] /\ loc'[q] = loc[q]
      /\ pc' \in [Proc -> {"idle", "begin", "bmap", "zero", "end", "trunc"}]
      /\ loc' \in [Proc -> [file : File \cup {None}, left : Nat, pos : Nat, todo : Nat, addr : 0..NBlock]]
      /\ pc'[p] = "idle" => loc'[p] = NoLoc
      /\ pc'[p] = "begin" => loc'[p].file = f /\ loc'[p].left > 0 /\ loc'[p].pos = 0 /\ loc'[p].todo = 0
  <2>1. CASE loc[p].left = 0
    <3>1. pc' = [pc EXCEPT ![p] = "idle"] /\ loc' = [loc EXCEPT ![p] = NoLoc]
      BY <2>1 DEF EndChunk, Goto
    <3>2. /\ NoLoc \in [file : File \cup {None}, left : Nat, pos : Nat, todo : Nat, addr : 0..NBlock]
          /\ NoLoc.addr = 0
      BY Constants DEF NoLoc
    <3> QED
      BY <1>0, <3>1, <3>2 DEF TypeOK
  <2>2. CASE loc[p].left # 0
    <3>1. pc' = [pc EXCEPT ![p] = "begin"] /\ loc' = [loc EXCEPT ![p].pos = 0]
      BY <2>2 DEF EndChunk, Goto
    <3>2. loc'[p] = [loc[p] EXCEPT !.pos = 0] /\ loc' = [loc EXCEPT ![p] = loc'[p]]
      BY <1>0, <3>1 DEF TypeOK
    <3>3. loc[p] \in [file : File \cup {None}, left : Nat, pos : Nat, todo : Nat, addr : 0..NBlock]
      BY <1>0 DEF TypeOK
    <3>4. /\ loc'[p] \in [file : File \cup {None}, left : Nat, pos : Nat, todo : Nat, addr : 0..NBlock]
          /\ loc'[p].file = f /\ loc'[p].left = loc[p].left /\ loc'[p].pos = 0 /\ loc'[p].todo = 0 /\ loc'[p].addr = 0
      BY <1>1, <3>2, <3>3
    <3> QED
      BY <1>0, <1>1, <2>2, <3>1, <3>2, <3>4 DEF TypeOK
  <2> QED
    BY <2>1, <2>2
<1>7. /\ off' \in [File -> (0..MaxSize) \cup {-1}] /\ off'[f] = loc[p].pos
      /\ ilocked' \in [File -> Proc \cup {None}] /\ ilocked'[f] = None
      /\ \A g \in File : g # f => off'[g] = off[g] /\ ilocked'[g] = ilocked[g]
  BY <1>0, <1>1, <1>2 DEF TypeOK
<1>8. TypeOK'
  <2>1. bitmap' \in SUBSET Block /\ data' \in Contents
    BY <1>0, <1>2 DEF TypeOK
  <2>2. stable' \in [bitmap : SUBSET Block, data : Contents, dinode : [File -> Inode]]
    BY <1>0, <1>2, <1>5, <2>1, StableType
  <2> QED
    BY <1>5, <1>6, <1>7, <2>1, <2>2 DEF TypeOK
<1>9. \A g \in File : Past'[g] = Past[g]
  <2>1. pc'[p] # "trunc" /\ pc[p] # "trunc"
    BY <1>0, <1>6
  <2>2. \A g \in File, q \in Proc : q # p /\ ilocked[g] = q => ilocked'[g] = q
    BY <1>1, <1>7
  <2> QED
    BY <1>0, <1>6, <2>1, <2>2, PastKept DEF Inv
<1>10. NumsKept
  <2>1. \A g \in File : ip'[g].addrs = ip[g].addrs
    BY <1>5
  <2> QED
    BY <1>2, <1>9, <2>1, SameNums
<1>11. Only(p, f)
  <2>1. off'[f] # -1
    BY <1>1, <1>7
  <2> QED
    BY <1>1, <1>5, <1>6, <1>7, <1>10, <2>1 DEF Only, NumsKept
<1>12. PlaceInv(p)'
  <2>1. off'[f] # -1 /\ ~Writing(p)'
    BY <1>1, <1>6, <1>7 DEF Writing
  <2> QED
    BY <1>6, <2>1 DEF PlaceInv, Here
<1>13. NumPart'
  BY <1>1, <1>2, <1>6, <1>10, KeptNums DEF Inv, AddrsKept
<1>14. WholeAt(f)'
  <2>1. WholeAt(f) /\ ~\E q \in Proc : ilocked'[f] = q
    BY <1>0, <1>7 DEF Inv, Whole
  <2>2. \A k \in Bn : Num(f, PlaceOf(k))' = Num(f, PlaceOf(k))
    BY <1>10, PlaceOfPlace DEF NumsKept, KeptIn
  <2> QED
    BY <1>0, <1>1, <1>5, <2>1, <2>2 DEF WholeAt
<1>15. CleanAt(f)'
  BY <1>5 DEF CleanAt
<1> QED
  BY <1>1, <1>2, <1>6, <1>7, <1>8, <1>11, <1>12, <1>13, <1>14, <1>15, EndOpStep

LEMMA StartTruncInv ==
  ASSUME Inv, NEW p \in Proc, NEW f \in File, StartTrunc(p, f)
  PROVE  Inv'
<1>0. /\ pc[p] = "idle" /\ off[f] = -1 /\ ilocked[f] = None /\ TypeOK /\ None \notin Proc /\ PlaceInv(p)
      /\ loc' = [loc EXCEPT ![p] = [NoLoc EXCEPT !.file = f]] /\ ilocked' = [ilocked EXCEPT ![f] = p]
      /\ pc' = [pc EXCEPT ![p] = "trunc"] /\ UNCHANGED <<bitmap, data, dinode, ip, off, stable>>
  BY Constants DEF StartTrunc, Goto, disk, Inv
<1>1. loc'[p] = [file |-> f, left |-> 0, pos |-> 0, todo |-> 0, addr |-> 0]
  BY <1>0 DEF NoLoc, TypeOK
<1>2. /\ loc'[p].file = f /\ loc'[p].pos = 0 /\ loc'[p].addr = 0 /\ pc'[p] = "trunc" /\ ilocked'[f] = p
      /\ \A q \in Proc : q # p => pc'[q] = pc[q] /\ loc'[q] = loc[q]
      /\ \A g \in File : g # f => ilocked'[g] = ilocked[g]
      /\ loc[p].addr = 0
  BY <1>0, <1>1 DEF TypeOK, PlaceInv
<1>3. TypeOK'
  <2>1. loc'[p] \in [file : File \cup {None}, left : Nat, pos : Nat, todo : Nat, addr : 0..NBlock]
        /\ loc' = [loc EXCEPT ![p] = loc'[p]]
    BY <1>0, <1>1, Constants DEF TypeOK
  <2> QED
    BY <1>0, <2>1 DEF TypeOK
<1>4. \A q \in Proc : ~Trunc(q, f)
  BY <1>0 DEF Trunc, Inv, PlaceInv
<1>5. \A g \in File : Past'[g] = Past[g]
  <2>1. \A g \in File, q \in Proc : q # p /\ ilocked[g] = q => ilocked'[g] = q
    BY <1>0, <1>2
  <2>2. \A q \in Proc : ~Trunc(q, loc'[p].file)
    BY <1>2, <1>4
  <2> QED
    BY <1>0, <1>2, <2>1, <2>2, PastKept DEF Inv
<1>6. NumsKept
  BY <1>0, <1>5, SameNums
<1>7. \A g \in File : ilocked[g] # p
  BY <1>0 DEF Inv, LockInv, Writing
<1>8. Only(p, f)
  BY <1>0, <1>2, <1>6 DEF Only, NumsKept
<1>9. PlaceInv(p)'
  BY <1>0, <1>2, Constants DEF PlaceInv, Here, Writing
<1>10. NumPart'
  BY <1>0, <1>2, <1>6, KeptNums DEF Inv, AddrsKept
<1>11. WholeAt(f)' /\ StablePart'
  BY <1>0, <1>2, StableSame DEF WholeAt, Inv
<1>12. CleanAt(f)'
  BY <1>0 DEF CleanAt, Inv, Clean
<1> QED
  BY <1>2, <1>3, <1>7, <1>8, <1>9, <1>10, <1>11, <1>12, StepOn

-----------------------------------------------------------------------------
(* A process in itrunc().                                                   *)
LEMMA TruncAt ==
  ASSUME Inv, NEW p \in Proc, pc[p] = "trunc"
  PROVE  /\ Here(p) \in File /\ ilocked[Here(p)] = p /\ \A g \in File : ilocked[g] = p => g = Here(p)
         /\ loc[p].pos \in Nat /\ loc[p].pos <= BSIZE /\ loc[p].addr = 0 /\ off[Here(p)] = -1
         /\ Past[Here(p)] = loc[p].pos
         /\ \A q \in Proc : q # p => ~Trunc(q, Here(p))
<1>1. PlaceInv(p) /\ TypeOK
  BY DEF Inv
<1>2. Here(p) \in File /\ ilocked[Here(p)] = p
  BY <1>1 DEF PlaceInv
<1>3. Past[Here(p)] = loc[p].pos
  BY <1>1, <1>2, PastIs DEF Inv, Trunc
<1>4. \A q \in Proc : q # p => ~Trunc(q, Here(p))
  BY <1>2 DEF Inv, PlaceInv, Trunc
<1>5. loc[p].pos \in Nat /\ loc[p].pos <= BSIZE /\ loc[p].addr = 0 /\ off[Here(p)] = -1
  BY <1>1 DEF PlaceInv, TypeOK
<1> QED
  BY <1>2, <1>3, <1>4, <1>5 DEF Inv, LockInv

LEMMA BfreeInv ==
  ASSUME Inv, NEW p \in Proc, Bfree(p)
  PROVE  Inv'
<1>0. pc[p] = "trunc" /\ TypeOK /\ NDIRECT \in Nat /\ BSIZE \in Nat /\ None \notin Proc
  BY Constants DEF Bfree, Inv
<1> SUFFICES ASSUME NEW f \in File, f = Here(p) PROVE Inv'
  BY <1>0, TruncAt
<1> DEFINE k == Min(Addrs(f))
           entries == Entries(f, loc[p].pos)
           e == Min(entries)
           listed == k = NDIRECT /\ entries # {}
           b == IF listed THEN data[Indirect(f)][e] ELSE ip[f].addrs[k]
           l == IF listed THEN e + NDIRECT + 1 ELSE k
<1>1. /\ ilocked[f] = p /\ \A g \in File : ilocked[g] = p => g = f
      /\ loc[p].pos \in Nat /\ loc[p].pos <= BSIZE /\ loc[p].addr = 0 /\ off[f] = -1 /\ loc[p].file = f
      /\ Past[f] = loc[p].pos /\ \A q \in Proc : q # p => ~Trunc(q, f)
  BY <1>0, TruncAt DEF Here
<1>2. k \in 0..NDIRECT /\ ip[f].addrs[k] # 0
  <2>1. Addrs(f) # {} /\ Addrs(f) \subseteq Nat
    BY <1>0 DEF Bfree, Addrs
  <2>2. Min(Addrs(f)) \in Addrs(f)
    BY <2>1, MinIsMember
  <2> QED
    BY <2>2 DEF Addrs
<1>3. entries \subseteq Cell /\ entries # {} => /\ e \in Cell /\ e >= loc[p].pos /\ data[Indirect(f)][e] # 0
                                               /\ \A c \in entries : e <= c
  <2>1. entries \subseteq Nat
    BY <1>0 DEF Entries, Cell
  <2>2. entries # {} => e \in entries /\ \A c \in entries : e <= c
    BY <2>1, MinIsMember
  <2> QED
    BY <2>2 DEF Entries
<1>4. /\ bitmap' = bitmap \ {b} /\ data' = [data EXCEPT ![b] = [c \in Cell |-> Stale]]
      /\ loc' = IF listed THEN [loc EXCEPT ![p].pos = e + 1] ELSE loc
      /\ ip' = IF listed THEN ip ELSE [ip EXCEPT ![f].addrs[k] = 0]
      /\ UNCHANGED <<dinode, ilocked, off, stable, pc>>
  BY DEF Bfree
<1>5. \A c \in Cell : c >= loc[p].pos /\ data[Indirect(f)][c] # 0 => c \in entries
  BY DEF Entries
<1> HIDE DEF entries, e, k
<1>6. Indirect(f) = Num(f, NDIRECT)
  BY <1>0 DEF Num, Named, Indirect
<1>7. l \in Place /\ b = Num(f, l) /\ b # 0 /\ (l = NDIRECT \/ b # Indirect(f))
  <2>1. CASE listed
    <3>1. entries # {} /\ k = NDIRECT
      BY <2>1
    <3>2. e \in Cell /\ e >= loc[p].pos /\ e \in Nat /\ e < BSIZE /\ data[Indirect(f)][e] # 0 /\ Indirect(f) # 0
      BY <1>0, <1>2, <1>3, <3>1 DEF Entries, Cell, Indirect, entries
    <3>3. l = e + NDIRECT + 1 /\ l \in Place /\ ~(l <= NDIRECT) /\ l - NDIRECT - 1 = e /\ l # NDIRECT
      BY <1>0, <2>1, <3>2 DEF Place
    <3>4. Num(f, l) = data[Indirect(f)][e]
      BY <1>0, <1>1, <3>2, <3>3 DEF Num, Named, Indirect
    <3>5. Num(f, l) # Num(f, NDIRECT)
      BY <3>2, <3>3, <3>4, Constants DEF Inv, NumPart, Once
    <3> QED
      BY <1>6, <2>1, <3>2, <3>3, <3>4, <3>5
  <2>2. CASE ~listed
    <3>1. l = k /\ l \in Place /\ l <= NDIRECT /\ Num(f, l) = ip[f].addrs[k] /\ b = ip[f].addrs[k]
      BY <1>0, <1>2, <2>2, Constants DEF Num, Named
    <3>2. l # NDIRECT => Num(f, l) # Num(f, NDIRECT)
      BY <1>2, <3>1, Constants DEF Inv, NumPart, Once
    <3> QED
      BY <1>2, <1>6, <3>1, <3>2
  <2> QED
    BY <2>1, <2>2
<1>8. b \in Block
  BY <1>7, Constants DEF Inv, NumPart, NumInv
<1>9. l = NDIRECT => k = NDIRECT /\ ~listed /\ entries = {}
  BY <1>0, <1>2, <1>3 DEF Cell, Entries, entries
<1>10. listed => l = e + NDIRECT + 1 /\ k = NDIRECT /\ e \in Cell /\ e >= loc[p].pos /\ \A c \in entries : e <= c
  BY <1>3 DEF Entries, entries
<1>11. ~listed => l = k
  OBVIOUS
<1> HIDE DEF b, l, listed
<1>12. data' \in Contents /\ \A c \in Block : c # b => data'[c] = data[c]
  <2>1. [c \in Cell |-> Stale] \in [Cell -> Content]
    BY DEF Content
  <2> QED
    BY <1>0, <1>4, <1>8, <2>1 DEF TypeOK, Contents
<1>13. /\ ip' \in [File -> Inode] /\ \A g \in File : g # f => ip'[g] = ip[g]
       /\ \A j \in 0..NDIRECT : ip'[f].addrs[j] = IF ~listed /\ j = k THEN 0 ELSE ip[f].addrs[j]
  <2>1. ip[f] \in [size : 0..MaxSize, addrs : [0..NDIRECT -> 0..NBlock]] /\ 0 \in 0..NBlock
    BY <1>0, Constants DEF TypeOK, Inode
  <2>2. CASE listed
    BY <1>0, <1>4, <2>2 DEF TypeOK
  <2>3. CASE ~listed
    <3>1. ip' = [ip EXCEPT ![f].addrs[k] = 0]
      BY <1>4, <2>3
    <3>2. ip'[f] = [ip[f] EXCEPT !.addrs = [ip[f].addrs EXCEPT ![k] = 0]]
      BY <1>0, <3>1 DEF TypeOK
    <3>3. ip'[f].addrs = [ip[f].addrs EXCEPT ![k] = 0] /\ ip'[f] \in Inode
      <4> DEFINE A == [ip[f].addrs EXCEPT ![k] = 0]
      <4>1. A \in [0..NDIRECT -> 0..NBlock]
        BY <1>2, <2>1
      <4> HIDE DEF A
      <4>2. ip'[f] = [ip[f] EXCEPT !.addrs = A]
        BY <3>2 DEF A
      <4>3. ip'[f].addrs = A /\ ip'[f] \in Inode
        BY <2>1, <4>1, <4>2 DEF Inode
      <4> QED
        BY <4>3 DEF A
    <3>4. ip' \in [File -> Inode] /\ \A g \in File : g # f => ip'[g] = ip[g]
      <4>1. ip' = [ip EXCEPT ![f] = ip'[f]]
        BY <1>0, <3>1 DEF TypeOK
      <4> QED
        BY <1>0, <3>3, <4>1 DEF TypeOK
    <3> QED
      BY <1>2, <2>1, <2>3, <3>3, <3>4
  <2> QED
    BY <2>2, <2>3
<1>14. /\ loc'[p].file = f /\ loc'[p].addr = 0 /\ loc'[p].pos = IF listed THEN e + 1 ELSE loc[p].pos
       /\ \A q \in Proc : q # p => loc'[q] = loc[q]
       /\ loc' \in [Proc -> [file : File \cup {None}, left : Nat, pos : Nat, todo : Nat, addr : 0..NBlock]]
       /\ loc'[p].pos \in Nat /\ loc'[p].pos <= BSIZE
  <2>1. CASE listed
    <3>1. loc' = [loc EXCEPT ![p].pos = e + 1] /\ e + 1 \in Nat /\ e + 1 <= BSIZE
      BY <1>0, <1>4, <1>10, <2>1 DEF Cell
    <3>2. loc'[p] = [loc[p] EXCEPT !.pos = e + 1] /\ loc' = [loc EXCEPT ![p] = loc'[p]]
      BY <1>0, <3>1 DEF TypeOK
    <3>3. loc[p] \in [file : File \cup {None}, left : Nat, pos : Nat, todo : Nat, addr : 0..NBlock]
      BY <1>0 DEF TypeOK
    <3>4. /\ loc'[p] \in [file : File \cup {None}, left : Nat, pos : Nat, todo : Nat, addr : 0..NBlock]
          /\ loc'[p].file = f /\ loc'[p].addr = 0 /\ loc'[p].pos = e + 1
      BY <1>1, <3>1, <3>2, <3>3
    <3> QED
      BY <1>0, <2>1, <3>1, <3>2, <3>4 DEF TypeOK
  <2>2. CASE ~listed
    BY <1>0, <1>1, <1>4, <2>2 DEF TypeOK
  <2> QED
    BY <2>1, <2>2
<1>15. \A g \in File : Past'[g] = IF g = f THEN loc'[p].pos ELSE Past[g]
  <2>1. ASSUME NEW g \in File
        PROVE  Past'[g] = IF \E q \in Proc : pc[q] = "trunc" /\ loc'[q].file = g THEN loc'[ilocked[g]].pos ELSE 0
    BY <1>4 DEF Past, Here
  <2>2. Past'[f] = loc'[p].pos
    BY <1>0, <1>1, <1>14, <2>1
  <2>3. ASSUME NEW g \in File, g # f PROVE Past'[g] = Past[g]
    <3>1. (\E q \in Proc : pc[q] = "trunc" /\ loc'[q].file = g) <=> \E q \in Proc : Trunc(q, g)
      BY <1>1, <1>14, <2>3 DEF Trunc, Here
    <3>2. ASSUME NEW q \in Proc, Trunc(q, g) PROVE Past'[g] = Past[g]
      <4>1. q # p /\ ilocked[g] = q
        BY <1>1, <2>3, <3>2 DEF Trunc, Here, Inv, PlaceInv
      <4> QED
        BY <1>0, <1>14, <2>1, <3>1, <3>2, <4>1, PastIs DEF Inv
    <3>3. (~\E q \in Proc : Trunc(q, g)) => Past'[g] = Past[g]
      BY <1>0, <2>1, <3>1, PastIs DEF Inv
    <3> QED
      BY <3>2, <3>3
  <2> QED
    BY <2>2, <2>3
<1>16. ASSUME NEW g \in File, g # f PROVE KeptIn(g)
  <2>1. Num(g, NDIRECT) = ip[g].addrs[NDIRECT]
    BY <1>0 DEF Num, Named
  <2>2. ip[g].addrs[NDIRECT] # b
    <3>1. Num(g, NDIRECT) # 0 /\ Num(g, NDIRECT) = Num(f, l) => g = f
      BY <1>0, <1>7, Constants DEF Inv, NumPart, Once
    <3> QED
      BY <1>7, <1>16, <2>1, <3>1
  <2>3. ip[g] \in Inode
    BY <1>0 DEF TypeOK
  <2>4. ip[g].addrs[NDIRECT] # 0 => ip[g].addrs[NDIRECT] \in Block
    BY <2>3, Constants DEF Inode
  <2> QED
    BY <1>12, <1>13, <1>15, <1>16, <2>2, <2>4, NumFrame
<1>17. ASSUME NEW j \in Place PROVE Num(f, j)' = IF j = l THEN 0 ELSE Num(f, j)
  <2>1. Num(f, j)' = Named(ip', data', Past', f, j) /\ Past'[f] = loc'[p].pos
    BY <1>15 DEF Num, Named
  <2>2. j \in Nat /\ l \in Nat
    BY <1>0, <1>7 DEF Place
  <2>3. CASE j <= NDIRECT
    <3>1. j \in 0..NDIRECT
      BY <1>0, <2>2, <2>3
    <3>2. Num(f, j)' = ip'[f].addrs[j] /\ Num(f, j) = ip[f].addrs[j]
      BY <2>1, <2>3 DEF Num, Named
    <3>3. listed => j # l
      <4> SUFFICES ASSUME listed PROVE j # l
        OBVIOUS
      <4>1. l = e + NDIRECT + 1 /\ e \in Nat
        BY <1>0, <1>10 DEF Cell
      <4> QED
        BY <1>0, <2>2, <2>3, <4>1
    <3> QED
      BY <1>11, <1>13, <3>1, <3>2, <3>3
  <2>4. CASE j > NDIRECT
    <3> DEFINE c == j - NDIRECT - 1
    <3>1. c \in Cell /\ ~(j <= NDIRECT) /\ c \in Nat /\ j = c + NDIRECT + 1
      BY <1>0, <2>2, <2>4 DEF Cell, Place
    <3> HIDE DEF c
    <3>2. Num(f, j) = IF Indirect(f) = 0 \/ c < loc[p].pos THEN 0 ELSE data[Indirect(f)][c]
      BY <1>1, <3>1 DEF Num, Named, Indirect, c
    <3>3. Num(f, j)' = IF ip'[f].addrs[NDIRECT] = 0 \/ c < loc'[p].pos THEN 0 ELSE data'[ip'[f].addrs[NDIRECT]][c]
      BY <2>1, <3>1 DEF Named, c
    <3>4. ip'[f].addrs[NDIRECT] = IF ~listed /\ NDIRECT = k THEN 0 ELSE Indirect(f)
      BY <1>13, Constants DEF Indirect
    <3>5. Indirect(f) # 0 => Indirect(f) \in Block
      BY <1>6, Constants DEF Inv, NumPart, NumInv
    <3>6. CASE l = NDIRECT
      <4>1. entries = {} /\ Num(f, j)' = 0
        BY <1>9, <3>3, <3>4, <3>6
      <4>2. Num(f, j) = 0
        BY <1>1, <1>5, <3>1, <3>2, <4>1
      <4> QED
        BY <4>1, <4>2
    <3>7. CASE l # NDIRECT /\ ~listed
      <4>1. ip'[f].addrs[NDIRECT] = Indirect(f) /\ loc'[p].pos = loc[p].pos /\ j # l
        BY <1>0, <1>2, <1>11, <1>14, <2>2, <2>4, <3>4, <3>7
      <4>2. Indirect(f) # 0 => data'[Indirect(f)] = data[Indirect(f)]
        BY <1>7, <1>12, <3>5, <3>7
      <4> QED
        BY <3>2, <3>3, <4>1, <4>2
    <3>8. CASE l # NDIRECT /\ listed
      <4>1. /\ ip'[f].addrs[NDIRECT] = Indirect(f) /\ loc'[p].pos = e + 1 /\ l = e + NDIRECT + 1 /\ e \in Cell
            /\ e >= loc[p].pos /\ e \in Nat
        BY <1>10, <1>14, <3>4, <3>8 DEF Cell
      <4>2. Indirect(f) # 0 => data'[Indirect(f)] = data[Indirect(f)]
        BY <1>7, <1>12, <3>5, <3>8
      <4>3. CASE c = e
        BY <3>1, <3>3, <4>1, <4>3
      <4>4. CASE c > e
        BY <1>0, <1>1, <3>1, <3>2, <3>3, <4>1, <4>2, <4>4
      <4>5. CASE c < e
        <5>1. c \notin entries /\ j # l /\ c < e + 1
          BY <1>0, <1>10, <3>1, <3>8, <4>1, <4>5
        <5>2. Num(f, j) = 0
          BY <1>1, <1>5, <3>1, <3>2, <5>1
        <5> QED
          BY <3>3, <4>1, <5>1, <5>2
      <4> QED
        BY <3>1, <4>1, <4>3, <4>4, <4>5
    <3> QED
      BY <3>6, <3>7, <3>8
  <2> QED
    BY <1>0, <2>2, <2>3, <2>4
<1>18. PICK x \in Place : x = l
  BY <1>7
<1>24. NumSet(f, x, 0)
  BY <1>16, <1>17, <1>18 DEF NumSet, KeptIn
<1>19. NumPart'
  <2>1. AddrsKept
    BY <1>1, <1>14 DEF AddrsKept
  <2> QED
    BY <1>4, <1>7, <1>18, <1>24, <2>1, FreedNums DEF Inv
<1>20. TypeOK'
  BY <1>0, <1>4, <1>12, <1>13, <1>14 DEF TypeOK
<1>21. Only(p, f)
  BY <1>1, <1>4, <1>13, <1>14, <1>16 DEF Only
<1>22. PlaceInv(p)'
  <2>1. Here(p)' = f /\ ~Writing(p)' /\ pc'[p] = "trunc"
    BY <1>0, <1>4, <1>14 DEF Here, Writing
  <2> QED
    BY <1>1, <1>4, <1>14, <2>1 DEF PlaceInv
<1>23. WholeAt(f)' /\ CleanAt(f)' /\ StablePart'
  <2>1. WholeAt(f)'
    BY <1>0, <1>1, <1>4 DEF WholeAt
  <2>2. CleanAt(f)'
    BY <1>0, <1>1, <1>4 DEF CleanAt, Writing
  <2>3. StablePart'
    BY <1>4, StableSame DEF Inv
  <2> QED
    BY <2>1, <2>2, <2>3
<1> QED
  BY <1>0, <1>1, <1>4, <1>14, <1>19, <1>20, <1>21, <1>22, <1>23, StepOn

LEMMA TruncDoneInv ==
  ASSUME Inv, NEW p \in Proc, TruncDone(p)
  PROVE  Inv'
<1>0. /\ pc[p] = "trunc" /\ TypeOK /\ NDIRECT \in Nat /\ BSIZE \in Nat /\ None \notin Proc
      /\ NoLoc \in [file : File \cup {None}, left : Nat, pos : Nat, todo : Nat, addr : 0..NBlock] /\ NoLoc.addr = 0
      /\ NoBlocks \in Inode /\ NoBlocks.size = 0 /\ \A k \in 0..NDIRECT : NoBlocks.addrs[k] = 0
  BY Constants DEF TruncDone, Inv, NoLoc, NoBlocks, Inode
<1> SUFFICES ASSUME NEW f \in File, f = Here(p) PROVE Inv'
  BY <1>0, TruncAt
<1>1. /\ ilocked[f] = p /\ \A g \in File : ilocked[g] = p => g = f
      /\ loc[p].pos \in Nat /\ loc[p].addr = 0 /\ off[f] = -1 /\ loc[p].file = f
      /\ Past[f] = loc[p].pos /\ \A q \in Proc : q # p => ~Trunc(q, f)
  BY <1>0, TruncAt DEF Here
<1>2. /\ Addrs(f) = {} /\ ip' = [ip EXCEPT ![f] = NoBlocks] /\ dinode' = [dinode EXCEPT ![f] = NoBlocks]
      /\ ilocked' = [ilocked EXCEPT ![f] = None] /\ UNCHANGED <<bitmap, data, off>> /\ EndOp(p)
      /\ pc' = [pc EXCEPT ![p] = "idle"] /\ loc' = [loc EXCEPT ![p] = NoLoc]
  BY DEF TruncDone, Iupdate, Goto
<1>3. /\ ip' \in [File -> Inode] /\ dinode' \in [File -> Inode] /\ ip'[f] = NoBlocks /\ dinode'[f] = NoBlocks
      /\ ilocked'[f] = None /\ pc'[p] = "idle" /\ loc'[p] = NoLoc
      /\ \A g \in File : g # f => ip'[g] = ip[g] /\ dinode'[g] = dinode[g] /\ ilocked'[g] = ilocked[g]
      /\ \A q \in Proc : q # p => pc'[q] = pc[q] /\ loc'[q] = loc[q]
  BY <1>0, <1>2 DEF TypeOK
<1>4. TypeOK'
  <2>1. stable' \in [bitmap : SUBSET Block, data : Contents, dinode : [File -> Inode]]
    BY <1>0, <1>2, <1>3, StableType DEF TypeOK
  <2> QED
    BY <1>0, <1>2, <1>3, <2>1 DEF TypeOK
<1>5. \A g \in File : g # f => Past'[g] = Past[g]
  <2> SUFFICES ASSUME NEW g \in File, g # f PROVE Past'[g] = Past[g]
    OBVIOUS
  <2>1. Past'[g] = IF \E q \in Proc : pc'[q] = "trunc" /\ loc'[q].file = g THEN loc'[ilocked'[g]].pos ELSE 0
    BY DEF Past, Here
  <2>2. (\E q \in Proc : pc'[q] = "trunc" /\ loc'[q].file = g) <=> \E q \in Proc : Trunc(q, g)
    BY <1>1, <1>3 DEF Trunc, Here
  <2>3. ASSUME NEW q \in Proc, Trunc(q, g) PROVE Past'[g] = Past[g]
    <3>1. q # p /\ ilocked[g] = q
      BY <1>1, <2>3 DEF Trunc, Here, Inv, PlaceInv
    <3> QED
      BY <1>0, <1>3, <2>1, <2>2, <2>3, <3>1, PastIs DEF Inv
  <2>4. (~\E q \in Proc : Trunc(q, g)) => Past'[g] = Past[g]
    BY <1>0, <2>1, <2>2, PastIs DEF Inv
  <2> QED
    BY <2>3, <2>4
<1>6. NumsKept
  <2>1. ASSUME NEW g \in File, g # f PROVE KeptIn(g)
    BY <1>2, <1>3, <1>5, <2>1, NumFrame
  <2>2. ASSUME NEW k \in Place PROVE Num(f, k)' = 0 /\ Num(f, k) = 0
    <3>1. \A j \in 0..NDIRECT : ip[f].addrs[j] = 0
      BY <1>2 DEF Addrs
    <3>2. Num(f, k)' = Named(ip', data', Past', f, k)
      BY DEF Num, Named
    <3>3. k <= NDIRECT => k \in 0..NDIRECT
      BY <1>0 DEF Place
    <3> QED
      BY <1>0, <1>3, <3>1, <3>2, <3>3, Constants DEF Num, Named
  <2> QED
    BY <2>1, <2>2 DEF NumsKept, KeptIn
<1>7. Only(p, f)
  BY <1>1, <1>2, <1>3, <1>6 DEF Only, NumsKept
<1>8. PlaceInv(p)'
  BY <1>0, <1>3 DEF PlaceInv, Writing
<1>9. NumPart'
  <2>1. AddrsKept
    BY <1>0, <1>1, <1>3 DEF AddrsKept
  <2> QED
    BY <1>2, <1>6, <2>1, KeptNums DEF Inv
<1>10. WholeAt(f)'
  <2>1. \A k \in Bn : k * BSIZE >= 0
    <3> SUFFICES ASSUME NEW k \in Bn PROVE k * BSIZE >= 0
      OBVIOUS
    <3>1. 0 * BSIZE <= k * BSIZE
      BY <1>0, Times DEF Bn
    <3> QED
      BY <1>0, <3>1
  <2> QED
    BY <1>0, <1>3, <2>1 DEF WholeAt
<1>11. CleanAt(f)'
  BY <1>3 DEF CleanAt
<1> QED
  BY <1>1, <1>2, <1>3, <1>4, <1>7, <1>8, <1>9, <1>10, <1>11, EndOpStep

(* What a crash leaves is what the log committed.                           *)
LEMMA CrashInv == Inv /\ Crash => Inv'
<1> SUFFICES ASSUME Inv, Crash PROVE Inv'
  OBVIOUS
<1>0. /\ None \notin Proc /\ None \notin File /\ TypeOK
      /\ NoLoc \in [file : File \cup {None}, left : Nat, pos : Nat, todo : Nat, addr : 0..NBlock] /\ NoLoc.addr = 0
      /\ 0 \notin Block
  BY Constants DEF Inv, NoLoc
<1>1. /\ bitmap' = stable.bitmap /\ data' = stable.data /\ dinode' = stable.dinode /\ ip' = stable.dinode
      /\ stable' = stable
      /\ \A f \in File : ilocked'[f] = None /\ off'[f] = -1
      /\ \A p \in Proc : pc'[p] = "idle" /\ loc'[p] = NoLoc
  BY DEF Crash
<1>2. TypeOK'
  BY <1>0, <1>1 DEF Crash, TypeOK
<1>3. \A f \in File : Past'[f] = 0
  <2>1. ASSUME NEW f \in File PROVE Past'[f] = IF \E q \in Proc : pc'[q] = "trunc" /\ loc'[q].file = f THEN loc'[ilocked'[f]].pos ELSE 0
    BY DEF Past, Here
  <2> QED
    BY <1>1, <2>1
<1>4. \A f \in File, k \in Place : Num(f, k)' = StableNum(f, k)
  <2> SUFFICES ASSUME NEW f \in File, NEW k \in Place PROVE Num(f, k)' = StableNum(f, k)
    OBVIOUS
  <2>1. Num(f, k)' = Named(ip', data', Past', f, k)
    BY DEF Num, Named
  <2> QED
    BY <1>1, <1>3, <2>1 DEF StableNum, Named, Never
<1>5. NumInv' /\ Once'
  BY <1>4 DEF Inv, StablePart, StableNumInv, StableOnce, NumInv, Once
<1>6. HandInv' /\ Marks'
  BY <1>0, <1>1, <1>4 DEF Inv, StablePart, StableMarks, HandInv, Marks
<1>7. \A p \in Proc : PlaceInv(p)'
  BY <1>0, <1>1 DEF PlaceInv, Writing
<1>8. LockInv'
  BY <1>0, <1>1 DEF LockInv
<1>9. Whole'
  <2> SUFFICES ASSUME NEW f \in File, NEW bn \in Bn, Num(f, PlaceOf(bn))' = 0 PROVE bn * BSIZE >= ip'[f].size
    BY <1>0, <1>1 DEF Whole, WholeAt
  <2>1. StableNum(f, PlaceOf(bn)) = 0
    BY <1>4, PlaceOfPlace
  <2> QED
    BY <1>1, <2>1 DEF Inv, StablePart, StableWhole
<1>10. Clean'
  BY <1>1 DEF Clean, CleanAt
<1>11. StablePart'
  BY <1>1, StableSame DEF Inv
<1> QED
  BY <1>2, <1>5, <1>6, <1>7, <1>8, <1>9, <1>10, <1>11 DEF Inv, NumPart

LEMMA StutterInv == Inv /\ UNCHANGED vars => Inv'
<1> SUFFICES ASSUME Inv, UNCHANGED vars PROVE Inv'
  OBVIOUS
<1>1. UNCHANGED <<bitmap, data, dinode, ip, ilocked, off, stable, pc, loc>>
  BY DEF vars, disk
<1> QED
  BY <1>1, OffStep DEF Inv, TypeOK, PlaceInv

-----------------------------------------------------------------------------
LEMMA NextInv == Inv /\ [Next]_vars => Inv'
<1> SUFFICES ASSUME Inv, [Next]_vars PROVE Inv'
  OBVIOUS
<1>1. ASSUME NEW f \in File, Open(f) \/ Close(f) PROVE Inv'
  BY <1>1, OpenInv
<1>2. ASSUME NEW p \in Proc, BeginChunk(p) PROVE Inv'
  BY <1>2, BeginChunkInv
<1>3. ASSUME NEW p \in Proc, Balloc(p) PROVE Inv'
  BY <1>3, BallocInv
<1>4. ASSUME NEW p \in Proc, Attach(p) PROVE Inv'
  BY <1>4, AttachInv
<1>5. ASSUME NEW p \in Proc, WriteBlock(p) PROVE Inv'
  BY <1>5, WriteBlockInv
<1>6. ASSUME NEW p \in Proc, EndChunk(p) PROVE Inv'
  BY <1>6, EndChunkInv
<1>7. ASSUME NEW p \in Proc, Bfree(p) PROVE Inv'
  BY <1>7, BfreeInv
<1>8. ASSUME NEW p \in Proc, TruncDone(p) PROVE Inv'
  BY <1>8, TruncDoneInv
<1>9. ASSUME NEW p \in Proc, NEW f \in File, StartTrunc(p, f) PROVE Inv'
  BY <1>9, StartTruncInv
<1>10. ASSUME NEW p \in Proc, NEW f \in File, NEW n \in Sizes, StartWrite(p, f, n) PROVE Inv'
  BY <1>10, StartWriteInv
<1>11. ASSUME NEW p \in Proc, NEW f \in File, NEW n \in Sizes, Read(p, f, n) PROVE Inv'
  BY <1>11, ReadInv
<1>12. CASE Crash
  BY <1>12, CrashInv
<1>13. CASE UNCHANGED vars
  BY <1>13, StutterInv
<1> QED
  BY <1>1, <1>2, <1>3, <1>4, <1>5, <1>6, <1>7, <1>8, <1>9, <1>10, <1>11, <1>12, <1>13 DEF Next

(* The invariant holds in every behaviour of fs.c and file.c, crashes too.   *)
THEOREM BlocksKept == Spec => []Inv
<1>1. Init => Inv
  BY InitInv
<1>2. Inv /\ [Next]_vars => Inv'
  BY NextInv
<1> QED
  BY <1>1, <1>2, PTL DEF Spec

(* Sizes stay below the largest file and offsets are never negative; a block  *)
(* holds numbers of blocks or bytes that programs wrote, and the calls that   *)
(* writei() and itrunc() are in keep their types.                           *)
THEOREM TypeCorrect == Spec => []TypeOK
BY BlocksKept, PTL DEF Inv

(* fs.c:72-92: the bitmap marks exactly the blocks in use, each used once,    *)
(* while files grow and are freed at the same time, and again after a crash   *)
(* at any moment; bfree() never finds a free block.                         *)
THEOREM BitmapIsExact == Spec => []BitmapExact
BY BlocksKept, ExactByInv, PTL

-----------------------------------------------------------------------------
(* The files that the blocks amount to.                                     *)
Contained == [f \in File |-> Bytes(ip[f], data, Size(f))]
Ats == [f \in File |-> At(f)]
KeptFiles == [f \in File |-> Bytes(stable.dinode[f], stable.data, stable.dinode[f].size)]
Step == [Files!Next]_<<Contained, Ats, KeptFiles>>

LEMMA MaxOfTwo ==
  ASSUME NEW a \in Int, NEW b \in Int
  PROVE  Max({a, b}) = IF a >= b THEN a ELSE b
<1>1. \E x \in {a, b} : \A y \in {a, b} : x >= y
  OBVIOUS
<1>2. Max({a, b}) \in {a, b} /\ \A y \in {a, b} : Max({a, b}) >= y
  BY <1>1, Zenon DEF Max
<1> QED
  BY <1>2

LEMMA DivUnique ==
  ASSUME NEW y \in Nat, NEW bn \in Nat, NEW c \in Cell, y = bn * BSIZE + c
  PROVE  y \div BSIZE = bn /\ y % BSIZE = c
<1> DEFINE q == y \div BSIZE
           r == y % BSIZE
<1>0. q \in Nat /\ r \in Cell /\ y = q * BSIZE + r
  BY BlockNumber, Zenon
<1> HIDE DEF q, r
<1>1. q \in Nat /\ r \in Cell /\ y = q * BSIZE + r /\ BSIZE \in Nat /\ BSIZE > 0
  BY <1>0, Constants
<1>2. bn * BSIZE \in Int /\ q * BSIZE \in Int /\ c \in Int /\ r \in Int /\ c >= 0 /\ c < BSIZE /\ r >= 0 /\ r < BSIZE
  BY <1>1 DEF Cell
<1>3. ~(q < bn)
  <2> SUFFICES ASSUME q + 1 <= bn PROVE FALSE
    BY <1>1
  <2>1. (q + 1) * BSIZE <= bn * BSIZE
    BY <1>1, Times
  <2>2. (q + 1) * BSIZE = q * BSIZE + BSIZE
    BY <1>1
  <2> QED
    BY <1>1, <1>2, <2>1, <2>2
<1>4. ~(bn < q)
  <2> SUFFICES ASSUME bn + 1 <= q PROVE FALSE
    BY <1>1
  <2>1. (bn + 1) * BSIZE <= q * BSIZE
    BY <1>1, Times
  <2>2. (bn + 1) * BSIZE = bn * BSIZE + BSIZE
    BY <1>1
  <2> QED
    BY <1>1, <1>2, <2>1, <2>2
<1>5. q = bn
  BY <1>1, <1>3, <1>4
<1>6. r = c
  BY <1>1, <1>2, <1>5
<1> QED
  BY <1>5, <1>6 DEF q, r

(* Byte x of a file nobody truncates.                                       *)
LEMMA ByteAt ==
  ASSUME NEW i, NEW d, NEW past, NEW f \in File, past[f] = 0, NEW n \in 0..MaxSize, NEW x \in 1..n
  PROVE  LET bn == (x - 1) \div BSIZE
             b == Named(i, d, past, f, PlaceOf(bn)) IN
         /\ bn \in Bn /\ bn * BSIZE <= x - 1 /\ bn * BSIZE < n /\ x - 1 \in Nat /\ x - 1 < MaxSize
         /\ Bytes(i[f], d, n)[x] = IF b \in Block THEN d[b][(x - 1) % BSIZE] ELSE None
<1> DEFINE bn == (x - 1) \div BSIZE
           b == Named(i, d, past, f, PlaceOf(bn))
<1>1. x - 1 \in Nat /\ x - 1 < MaxSize /\ NDIRECT \in Nat /\ n \in Nat /\ x <= n
  BY Constants
<1>2. bn \in Bn /\ bn * BSIZE <= x - 1 /\ bn * BSIZE \in Nat
  BY <1>1, BlockNumber
<1>3. bn * BSIZE < n
  BY <1>1, <1>2
<1> DEFINE a == IF bn < NDIRECT THEN i[f].addrs[bn]
                ELSE IF i[f].addrs[NDIRECT] = 0 THEN 0 ELSE d[i[f].addrs[NDIRECT]][bn - NDIRECT]
<1>4. a = b
  <2>1. CASE bn < NDIRECT
    <3>1. PlaceOf(bn) = bn /\ bn <= NDIRECT
      BY <1>1, <1>2, <2>1, PlaceOfPlace DEF Bn
    <3> QED
      BY <2>1, <3>1 DEF Named
  <2>2. CASE bn >= NDIRECT
    <3>1. PlaceOf(bn) > NDIRECT /\ PlaceOf(bn) - NDIRECT - 1 = bn - NDIRECT /\ bn - NDIRECT >= 0 /\ PlaceOf(bn) \in Nat
      BY <1>1, <1>2, <2>2, PlaceOfPlace DEF Bn, Place
    <3> HIDE DEF bn
    <3>2. ~(bn < NDIRECT) /\ ~(PlaceOf(bn) <= NDIRECT) /\ ~(bn - NDIRECT < 0)
      BY <1>1, <1>2, <2>2, <3>1 DEF Bn
    <3> QED
      BY <3>1, <3>2 DEF Named
  <2> QED
    BY <1>1, <1>2, <2>1, <2>2 DEF Bn
<1>5. Bytes(i[f], d, n)[x] = IF a \in Block THEN d[a][(x - 1) % BSIZE] ELSE None
  BY DEF Bytes
<1> QED
  BY <1>1, <1>2, <1>3, <1>4, <1>5

LEMMA BytesShape ==
  ASSUME NEW i, NEW d, NEW n \in Nat
  PROVE  /\ Bytes(i, d, n) = [x \in 1..n |-> Bytes(i, d, n)[x]] /\ DOMAIN Bytes(i, d, n) = 1..n
         /\ Len(Bytes(i, d, n)) = n
         /\ n = 0 => Bytes(i, d, n) = <<>>
<1>1. DOMAIN Bytes(i, d, n) = 1..n /\ Bytes(i, d, n) = [x \in 1..n |-> Bytes(i, d, n)[x]]
  BY DEF Bytes
<1>2. Len(Bytes(i, d, n)) = n
  BY <1>1
<1>3. n = 0 => Bytes(i, d, n) = <<>>
  BY <1>1
<1> QED
  BY <1>1, <1>2, <1>3

(* What the state says of the size of a file, and of where its writer is.    *)
SizeLaw(f) ==
  /\ Size(f) \in 0..MaxSize
  /\ ilocked[f] = None => Size(f) = ip[f].size /\ At(f) = off[f]
  /\ \A p \in Proc : ilocked[f] = p =>
       /\ pc[p] = "trunc" => Size(f) = 0 /\ At(f) = -1
       /\ Writing(p) => /\ Size(f) = IF ip[f].size >= loc[p].pos THEN ip[f].size ELSE loc[p].pos
                        /\ At(f) = loc[p].pos /\ off[f] # -1
  /\ Size(f) # 0 => Past[f] = 0 /\ ~\E q \in Proc : Trunc(q, f)
  /\ Size(f) # 0 => \A bn \in Bn : bn * BSIZE < Size(f) => Num(f, PlaceOf(bn)) \in Block
  /\ off[f] = -1 => At(f) = -1

LEMMA SizeIs == Inv => \A f \in File : SizeLaw(f)
<1> SUFFICES ASSUME Inv, NEW f \in File PROVE SizeLaw(f)
  OBVIOUS
<1>0. /\ TypeOK /\ None \notin Proc /\ MaxSize \in Nat /\ ip[f].size \in 0..MaxSize /\ ip[f].size \in Nat
      /\ ilocked[f] \in Proc \cup {None}
  <2>1. TypeOK /\ None \notin Proc /\ MaxSize \in Nat
    BY Constants DEF Inv
  <2>2. ip[f] \in [size : 0..MaxSize, addrs : [0..NDIRECT -> 0..NBlock]] /\ ilocked[f] \in Proc \cup {None}
    BY <2>1 DEF TypeOK, Inode
  <2>3. ip[f].size \in 0..MaxSize
    BY <2>2
  <2> QED
    BY <2>1, <2>2, <2>3
<1>1. ASSUME NEW p \in Proc, ilocked[f] = p
      PROVE  /\ Here(p) = f /\ PlaceInv(p) /\ (Writing(p) \/ pc[p] = "trunc") /\ loc[p].pos \in Nat /\ loc[p].todo \in Nat
             /\ Writing(p) => loc[p].pos \in 0..MaxSize /\ off[f] # -1 /\ pc[p] # "trunc"
             /\ pc[p] = "trunc" => off[f] = -1
  <2>1. Here(p) = f /\ PlaceInv(p) /\ (Writing(p) \/ pc[p] = "trunc") /\ loc[p].pos \in Nat /\ loc[p].todo \in Nat
    BY <1>1 DEF Inv, LockInv, TypeOK
  <2>2. Writing(p) => loc[p].pos + loc[p].todo <= MaxSize /\ off[f] # -1
    BY <2>1 DEF PlaceInv
  <2>3. pc[p] = "trunc" => off[f] = -1
    BY <2>1 DEF PlaceInv
  <2> QED
    BY <1>0, <2>1, <2>2, <2>3 DEF Writing
<1>2. ilocked[f] = None => Size(f) = ip[f].size /\ At(f) = off[f]
  BY DEF Size, At
<1>3. ASSUME NEW p \in Proc, ilocked[f] = p
      PROVE  /\ pc[p] = "trunc" => Size(f) = 0 /\ At(f) = -1
             /\ Writing(p) => /\ Size(f) = IF ip[f].size >= loc[p].pos THEN ip[f].size ELSE loc[p].pos
                              /\ At(f) = loc[p].pos /\ off[f] # -1
  <2>1. ilocked[f] # None
    BY <1>0, <1>3
  <2>2. CASE pc[p] = "trunc"
    BY <1>1, <1>3, <2>1, <2>2 DEF Size, At, Writing
  <2>3. CASE pc[p] # "trunc"
    <3>1. Size(f) = Max({ip[f].size, loc[p].pos})
      BY <1>3, <2>1, <2>3 DEF Size
    <3>2. Max({ip[f].size, loc[p].pos}) = IF ip[f].size >= loc[p].pos THEN ip[f].size ELSE loc[p].pos
      BY <1>0, <1>1, <1>3, MaxOfTwo
    <3> QED
      BY <1>1, <1>3, <2>1, <2>3, <3>1, <3>2 DEF At
  <2> QED
    BY <2>2, <2>3
<1>4. Size(f) \in 0..MaxSize
  <2>1. CASE ilocked[f] = None
    BY <1>0, <1>2, <2>1
  <2>2. CASE ilocked[f] # None
    <3>1. PICK p \in Proc : ilocked[f] = p
      BY <1>0, <2>2
    <3> QED
      BY <1>0, <1>1, <1>3, <3>1
  <2> QED
    BY <2>1, <2>2
<1>5. ASSUME Size(f) # 0 PROVE Past[f] = 0 /\ ~\E q \in Proc : Trunc(q, f)
  <2>1. ~\E q \in Proc : Trunc(q, f)
    BY <1>3, <1>5 DEF Inv, PlaceInv, Trunc
  <2> QED
    BY <1>0, <2>1, PastIs DEF Inv
<1>6. ASSUME Size(f) # 0, NEW bn \in Bn, bn * BSIZE < Size(f) PROVE Num(f, PlaceOf(bn)) \in Block
  <2>1. PlaceOf(bn) \in Place /\ bn * BSIZE \in Int
    BY PlaceOfPlace, Constants DEF Bn
  <2>2. Num(f, PlaceOf(bn)) # 0
    <3> SUFFICES ASSUME Num(f, PlaceOf(bn)) = 0 PROVE FALSE
      OBVIOUS
    <3>1. /\ WholeAt(f) /\ ~\E p \in Proc : ilocked[f] = p /\ pc[p] = "trunc"
      BY <1>3, <1>6 DEF Inv, Whole
    <3>2. bn * BSIZE >= ip[f].size /\ \A p \in Proc : ilocked[f] = p => bn * BSIZE >= loc[p].pos
      BY <3>1 DEF WholeAt
    <3>3. CASE ilocked[f] = None
      BY <1>0, <1>2, <1>6, <2>1, <3>2, <3>3
    <3>4. CASE ilocked[f] # None
      <4>1. PICK p \in Proc : ilocked[f] = p
        BY <1>0, <3>4
      <4> QED
        BY <1>0, <1>1, <1>3, <1>6, <2>1, <3>2, <4>1
    <3> QED
      BY <3>3, <3>4
  <2>3. Num(f, PlaceOf(bn)) \in 0..NBlock
    BY <2>1 DEF Inv, NumPart, NumInv
  <2> QED
    BY <2>2, <2>3, Constants
<1>7. off[f] = -1 => At(f) = -1
  BY DEF At
<1> QED
  BY <1>2, <1>3, <1>4, <1>5, <1>6, <1>7 DEF SizeLaw

LEMMA SizeNext == Inv' => \A f \in File : SizeLaw(f)'
<1>1. (Inv => \A f \in File : SizeLaw(f))'
  BY SizeIs, PTL
<1> QED
  BY <1>1

LEMMA NoContent ==
  ASSUME NEW g \in File
  PROVE  /\ Size(g) = 0 => Contained[g] = <<>>
         /\ Size(g)' = 0 => Contained'[g] = <<>>
<1>1. Contained[g] = Bytes(ip[g], data, Size(g)) /\ Contained'[g] = Bytes(ip'[g], data', Size(g)')
  BY DEF Contained
<1> QED
  BY <1>1, BytesShape

(* The bytes of a file do not change when its blocks do not.                 *)
LEMMA SameBytes ==
  ASSUME Inv, Inv', NEW g \in File, Size(g)' = Size(g),
         \A bn \in Bn : bn * BSIZE < Size(g) =>
           Num(g, PlaceOf(bn))' = Num(g, PlaceOf(bn)) /\ data'[Num(g, PlaceOf(bn))] = data[Num(g, PlaceOf(bn))]
  PROVE  Contained'[g] = Contained[g]
<1>1. Contained[g] = Bytes(ip[g], data, Size(g)) /\ Contained'[g] = Bytes(ip'[g], data', Size(g))
  BY DEF Contained
<1>2. SizeLaw(g) /\ SizeLaw(g)'
  BY SizeIs, SizeNext
<1>3. CASE Size(g) = 0
  BY <1>3, NoContent
<1>4. CASE Size(g) # 0
  <2> DEFINE n == Size(g)
  <2>1. n \in 0..MaxSize /\ n \in Nat /\ Past[g] = 0 /\ Past'[g] = 0
    BY <1>2, <1>4, Constants DEF SizeLaw
  <2>2. \A k \in Place : Num(g, k) = Named(ip, data, Past, g, k) /\ Num(g, k)' = Named(ip', data', Past', g, k)
    BY DEF Num, Named
  <2>3. \A bn \in Bn : bn * BSIZE < n =>
           /\ Named(ip', data', Past', g, PlaceOf(bn)) = Named(ip, data, Past, g, PlaceOf(bn))
           /\ data'[Named(ip, data, Past, g, PlaceOf(bn))] = data[Named(ip, data, Past, g, PlaceOf(bn))]
    <3> SUFFICES ASSUME NEW bn \in Bn, bn * BSIZE < n
                 PROVE  /\ Named(ip', data', Past', g, PlaceOf(bn)) = Named(ip, data, Past, g, PlaceOf(bn))
                        /\ data'[Named(ip, data, Past, g, PlaceOf(bn))] = data[Named(ip, data, Past, g, PlaceOf(bn))]
      OBVIOUS
    <3>1. PlaceOf(bn) \in Place
      BY PlaceOfPlace
    <3>2. Num(g, PlaceOf(bn))' = Named(ip', data', Past', g, PlaceOf(bn))
      BY DEF Num, Named
    <3> QED
      BY <2>2, <3>1, <3>2
  <2> HIDE DEF n
  <2>4. ASSUME NEW x \in 1..n PROVE Bytes(ip'[g], data', n)[x] = Bytes(ip[g], data, n)[x]
    <3> DEFINE bn == (x - 1) \div BSIZE
    <3>1. /\ bn \in Bn /\ bn * BSIZE < n
          /\ LET b == Named(ip, data, Past, g, PlaceOf(bn)) IN
             Bytes(ip[g], data, n)[x] = IF b \in Block THEN data[b][(x - 1) % BSIZE] ELSE None
      BY <2>1, ByteAt
    <3>2. LET b == Named(ip', data', Past', g, PlaceOf(bn)) IN
          Bytes(ip'[g], data', n)[x] = IF b \in Block THEN data'[b][(x - 1) % BSIZE] ELSE None
      BY <2>1, ByteAt
    <3> HIDE DEF bn
    <3> QED
      BY <2>3, <3>1, <3>2
  <2>5. Bytes(ip'[g], data', n) = Bytes(ip[g], data, n)
    <3>1. /\ Bytes(ip'[g], data', n) = [x \in 1..n |-> Bytes(ip'[g], data', n)[x]]
          /\ Bytes(ip[g], data, n) = [x \in 1..n |-> Bytes(ip[g], data, n)[x]]
      BY <2>1, BytesShape
    <3> QED
      BY <2>4, <3>1
  <2> QED
    BY <1>1, <2>5 DEF n
<1> QED
  BY <1>3, <1>4

LEMMA FrameBytes ==
  ASSUME Inv, Inv', NEW g \in File, Size(g)' = Size(g), ip'[g].addrs = ip[g].addrs,
         \A k \in Place : Num(g, k) \in Block => data'[Num(g, k)] = data[Num(g, k)]
  PROVE  Contained'[g] = Contained[g]
<1>1. SizeLaw(g) /\ SizeLaw(g)'
  BY SizeIs, SizeNext
<1>2. CASE Size(g) = 0
  BY <1>2, NoContent
<1>3. CASE Size(g) # 0
  <2>1. Past[g] = 0 /\ Past'[g] = 0
    BY <1>1, <1>3 DEF SizeLaw
  <2>2. ip[g].addrs[NDIRECT] = Num(g, NDIRECT)
    BY Constants DEF Num, Named
  <2>3. Num(g, NDIRECT) \in 0..NBlock
    BY Constants DEF Inv, NumPart, NumInv
  <2>4. ip[g].addrs[NDIRECT] # 0 => data'[ip[g].addrs[NDIRECT]] = data[ip[g].addrs[NDIRECT]]
    BY <2>2, <2>3, Constants
  <2>5. KeptIn(g)
    BY <2>1, <2>4, NumFrame
  <2>6. ASSUME NEW bn \in Bn, bn * BSIZE < Size(g)
        PROVE  Num(g, PlaceOf(bn))' = Num(g, PlaceOf(bn)) /\ data'[Num(g, PlaceOf(bn))] = data[Num(g, PlaceOf(bn))]
    <3>1. PlaceOf(bn) \in Place /\ Num(g, PlaceOf(bn)) \in Block
      BY <1>1, <1>3, <2>6, PlaceOfPlace DEF SizeLaw
    <3>2. Num(g, PlaceOf(bn))' = Num(g, PlaceOf(bn))
      BY <2>5, <3>1 DEF KeptIn
    <3> QED
      BY <3>1, <3>2
  <2> QED
    BY <2>6, SameBytes
<1> QED
  BY <1>2, <1>3

-----------------------------------------------------------------------------
(* Steps of FileStore, in terms of the files that the blocks amount to.      *)
LEMMA StoreStays ==
  ASSUME Contained' = Contained, Ats' = Ats, KeptFiles' = KeptFiles \/ KeptFiles' = Contained'
  PROVE  Step
BY DEF Step, Contained, Ats, KeptFiles, Files!Next

LEMMA StoreOpens ==
  ASSUME NEW f \in File, Contained' = Contained, KeptFiles' = KeptFiles,
         \/ Ats[f] = -1 /\ Ats' = [Ats EXCEPT ![f] = 0]
         \/ Ats' = [Ats EXCEPT ![f] = -1]
  PROVE  Step
<1>1. CASE Ats[f] = -1 /\ Ats' = [Ats EXCEPT ![f] = 0]
  <2>1. Files!Open(f)
    BY <1>1 DEF Contained, Ats, Files!Open
  <2> QED
    BY <2>1 DEF Step, Contained, Ats, KeptFiles, Files!Next
<1>2. CASE Ats' = [Ats EXCEPT ![f] = -1]
  <2>1. Files!Close(f)
    BY <1>2 DEF Contained, Ats, Files!Close
  <2> QED
    BY <2>1 DEF Step, Contained, Ats, KeptFiles, Files!Next
<1> QED
  BY <1>1, <1>2

LEMMA StoreReads ==
  ASSUME NEW f \in File, NEW k \in 1..MaxSize, Contained' = Contained, KeptFiles' = KeptFiles,
         Ats[f] + k <= Len(Contained[f]), Ats' = [Ats EXCEPT ![f] = Ats[f] + k]
  PROVE  Step
<1>1. Files!Read(f)
  BY DEF Contained, Ats, Files!Read
<1> QED
  BY <1>1 DEF Step, Contained, Ats, KeptFiles, Files!Next

LEMMA StoreRemoves ==
  ASSUME NEW f \in File, Contained' = [Contained EXCEPT ![f] = <<>>], KeptFiles' = KeptFiles, Ats' = Ats, Ats[f] = -1
  PROVE  Step
<1>1. Files!Remove(f)
  BY DEF Contained, Ats, Files!Remove
<1> QED
  BY <1>1 DEF Step, Contained, Ats, KeptFiles, Files!Next

Overlaid(f, k) ==
  [i \in 1..(IF Ats[f] + k > Len(Contained[f]) THEN Ats[f] + k ELSE Len(Contained[f])) |->
     IF Ats[f] < i /\ i <= Ats[f] + k THEN Byte(f, i) ELSE Contained[f][i]]
LEMMA StoreWrites ==
  ASSUME NEW f \in File, NEW k \in 1..MaxSize, Ats[f] \in 0..Len(Contained[f]), KeptFiles' = KeptFiles,
         Contained' = [Contained EXCEPT ![f] = Overlaid(f, k)], Ats' = [Ats EXCEPT ![f] = Ats[f] + k]
  PROVE  Step
<1>1. Files!Write(f)
  BY DEF Contained, Ats, Overlaid, Files!Write, Files!Overlay
<1> QED
  BY <1>1 DEF Step, Contained, Ats, KeptFiles, Files!Next

LEMMA StoreCrashes ==
  ASSUME Contained' = KeptFiles, KeptFiles' = KeptFiles, \A f \in File : Ats'[f] = -1
  PROVE  Step
<1>1. Files!Crash
  BY DEF Contained, Ats, KeptFiles, Files!Crash, Files!Closed
<1> QED
  BY <1>1 DEF Step, Contained, Ats, KeptFiles, Files!Next

-----------------------------------------------------------------------------
LEMMA SameSize ==
  ASSUME NEW g \in File, ilocked'[g] = ilocked[g], ip'[g].size = ip[g].size, off'[g] = off[g],
         ilocked[g] # None => /\ loc'[ilocked[g]].pos = loc[ilocked[g]].pos
                              /\ pc'[ilocked[g]] = "trunc" <=> pc[ilocked[g]] = "trunc"
  PROVE  Size(g)' = Size(g) /\ At(g)' = At(g)
BY DEF Size, At

LEMMA SameContents ==
  ASSUME Inv, Inv', data' = data, \A g \in File : ip'[g].addrs = ip[g].addrs /\ Size(g)' = Size(g)
  PROVE  Contained' = Contained
<1>1. \A g \in File : Contained'[g] = Contained[g]
  BY FrameBytes
<1> QED
  BY <1>1 DEF Contained

LEMMA SameKept == ASSUME stable' = stable PROVE KeptFiles' = KeptFiles
BY DEF KeptFiles

LEMMA OpenStep ==
  ASSUME Inv, Inv', NEW f \in File, Open(f) \/ Close(f)
  PROVE  Step
<1>1. /\ UNCHANGED <<bitmap, data, dinode, ip, ilocked, stable, pc, loc>>
      /\ \A p \in Proc : Here(p) # f
      /\ \/ off[f] = -1 /\ off' = [off EXCEPT ![f] = 0]
         \/ off' = [off EXCEPT ![f] = -1]
      /\ TypeOK
  BY DEF Open, Close, disk, Inv
<1>2. ilocked[f] = None /\ ilocked'[f] = None
  BY <1>1 DEF Inv, LockInv, TypeOK
<1>3. At(f) = off[f] /\ At(f)' = off'[f] /\ Size(f)' = Size(f)
  BY <1>1, <1>2 DEF At, Size
<1>4. ASSUME NEW g \in File, g # f PROVE Size(g)' = Size(g) /\ At(g)' = At(g)
  BY <1>1, <1>4, SameSize DEF TypeOK
<1>5. Contained' = Contained /\ KeptFiles' = KeptFiles
  BY <1>1, <1>3, <1>4, SameContents, SameKept
<1>6. Ats' = [Ats EXCEPT ![f] = off'[f]] /\ Ats[f] = off[f]
  BY <1>3, <1>4 DEF Ats
<1> QED
  BY <1>1, <1>5, <1>6, StoreOpens DEF TypeOK

(* Steps that hold no lock and change no file.                              *)
LEMMA FreeStays ==
  ASSUME Inv, Inv', NEW p \in Proc, pc[p] \in {"idle", "begin"}, UNCHANGED <<data, ip, ilocked, off, stable>>,
         \A q \in Proc : q # p => pc'[q] = pc[q] /\ loc'[q] = loc[q]
  PROVE  Step
<1>1. \A g \in File : ilocked[g] # p
  BY DEF Inv, LockInv, Writing
<1>2. ASSUME NEW g \in File PROVE Size(g)' = Size(g) /\ At(g)' = At(g)
  BY <1>1, SameSize DEF Inv, TypeOK
<1>3. Contained' = Contained /\ KeptFiles' = KeptFiles
  BY <1>2, SameContents, SameKept
<1>4. Ats' = Ats
  BY <1>2 DEF Ats
<1> QED
  BY <1>3, <1>4, StoreStays

LEMMA StartWriteStep ==
  ASSUME Inv, Inv', NEW p \in Proc, NEW f \in File, NEW n \in Sizes, StartWrite(p, f, n)
  PROVE  Step
<1>1. pc[p] = "idle" /\ UNCHANGED <<data, ip, ilocked, off, stable>>
      /\ \A q \in Proc : q # p => pc'[q] = pc[q] /\ loc'[q] = loc[q]
  BY DEF StartWrite, Goto, disk, Inv, TypeOK
<1> QED
  BY <1>1, FreeStays

LEMMA BeginChunkStep ==
  ASSUME Inv, Inv', NEW p \in Proc, BeginChunk(p)
  PROVE  Step
<1> DEFINE f == Here(p)
           n1 == Min({loc[p].left, MaxChunk})
<1>0. /\ pc[p] = "begin" /\ UNCHANGED <<data, ip, off, stable>> /\ ilocked[f] = None /\ TypeOK /\ TypeOK' /\ None \notin Proc
      /\ f \in File /\ off[f] # -1
      /\ \A q \in Proc : q # p => pc'[q] = pc[q] /\ loc'[q] = loc[q]
  <2>1. f \in File /\ off[f] # -1
    BY DEF Inv, PlaceInv, BeginChunk
  <2>2. \A q \in Proc : q # p => pc'[q] = pc[q] /\ loc'[q] = loc[q]
    BY DEF BeginChunk, Goto, Inv, TypeOK
  <2> QED
    BY <2>1, <2>2, Constants DEF BeginChunk, disk, Inv
<1>1. CASE ilocked' = ilocked
  BY <1>0, <1>1, FreeStays
<1>2. CASE ilocked' # ilocked
  <2>1. /\ ~(off[f] > ip[f].size) /\ ilocked' = [ilocked EXCEPT ![f] = p] /\ pc' = [pc EXCEPT ![p] = "bmap"]
        /\ loc' = [loc EXCEPT ![p].left = @ - n1, ![p].pos = off[f], ![p].todo = n1]
    BY <1>2 DEF BeginChunk, Goto
  <2>2. ilocked'[f] = p /\ pc'[p] = "bmap" /\ loc'[p].pos = off[f]
    BY <1>0, <2>1 DEF TypeOK
  <2> HIDE DEF n1, f
  <2>3. PICK g \in File : g = f
    BY <1>0
  <2>4. ip[g].size \in Int /\ off[g] \in Int /\ off[g] <= ip[g].size
    <3>1. ip[g] \in [size : 0..MaxSize, addrs : [0..NDIRECT -> 0..NBlock]] /\ off[g] \in (0..MaxSize) \cup {-1}
      BY <1>0 DEF TypeOK, Inode
    <3>2. ip[g].size \in 0..MaxSize /\ MaxSize \in Nat
      BY <3>1, Constants
    <3> QED
      BY <2>1, <2>3, <3>1, <3>2
  <2>5. Writing(p)'
    BY <2>2 DEF Writing
  <2>6. SizeLaw(g) /\ SizeLaw(g)'
    BY SizeIs, SizeNext
  <2>7. At(g) = off[g] /\ Size(g) = ip[g].size
    BY <1>0, <2>3, <2>6 DEF SizeLaw
  <2>8. At(g)' = off[g] /\ Size(g)' = ip[g].size
    BY <1>0, <2>2, <2>3, <2>4, <2>5, <2>6 DEF SizeLaw
  <2>9. ASSUME NEW h \in File, h # g PROVE Size(h)' = Size(h) /\ At(h)' = At(h)
    <3>1. ilocked'[h] = ilocked[h] /\ ilocked[h] # p /\ ilocked[h] \in Proc \cup {None}
      BY <1>0, <2>1, <2>3, <2>9 DEF TypeOK, Inv, LockInv, Writing
    <3> QED
      BY <1>0, <3>1, SameSize
  <2>10. Contained' = Contained /\ KeptFiles' = KeptFiles
    <3>1. \A h \in File : ip'[h].addrs = ip[h].addrs /\ Size(h)' = Size(h)
      BY <1>0, <2>7, <2>8, <2>9
    <3> QED
      BY <1>0, <3>1, SameContents, SameKept
  <2>11. Ats' = Ats
    BY <2>7, <2>8, <2>9 DEF Ats
  <2> QED
    BY <2>10, <2>11, StoreStays
<1> QED
  BY <1>1, <1>2

LEMMA ReadStep ==
  ASSUME Inv, Inv', NEW p \in Proc, NEW f \in File, NEW n \in Sizes, Read(p, f, n)
  PROVE  Step
<1>1. /\ off[f] # -1 /\ ilocked[f] = None /\ ilocked'[f] = None /\ off[f] < ip[f].size
      /\ off' = [off EXCEPT ![f] = Min({off[f] + n, ip[f].size})]
      /\ UNCHANGED <<data, ip, ilocked, stable, pc, loc>> /\ TypeOK /\ TypeOK'
  BY DEF Read, disk, Inv
<1>2. /\ ip[f].size \in 0..MaxSize /\ off[f] \in 0..MaxSize /\ n \in Nat /\ n > 0 /\ MaxSize \in Nat
  <2>1. ip[f] \in [size : 0..MaxSize, addrs : [0..NDIRECT -> 0..NBlock]] /\ off[f] \in (0..MaxSize) \cup {-1}
    BY <1>1 DEF TypeOK, Inode
  <2> QED
    BY <1>1, <2>1, Constants
<1>3. PICK k \in 1..MaxSize : Min({off[f] + n, ip[f].size}) = off[f] + k /\ off[f] + k <= ip[f].size
  <2> DEFINE m == Min({off[f] + n, ip[f].size})
  <2>1. m = IF off[f] + n <= ip[f].size THEN off[f] + n ELSE ip[f].size
    BY <1>2, MinOfTwo
  <2> HIDE DEF m
  <2>2. m - off[f] \in 1..MaxSize /\ m = off[f] + (m - off[f]) /\ m <= ip[f].size
    BY <1>1, <1>2, <2>1
  <2> QED
    BY <2>2 DEF m
<1>4. At(f) = off[f] /\ At(f)' = off'[f] /\ Size(f)' = Size(f) /\ Size(f) = ip[f].size
  BY <1>1 DEF At, Size
<1>5. ASSUME NEW g \in File, g # f PROVE Size(g)' = Size(g) /\ At(g)' = At(g)
  BY <1>1, <1>5, SameSize DEF TypeOK
<1>6. Contained' = Contained /\ KeptFiles' = KeptFiles
  BY <1>1, <1>4, <1>5, SameContents, SameKept
<1>7. Ats' = [Ats EXCEPT ![f] = off'[f]] /\ Ats[f] = off[f]
  BY <1>4, <1>5 DEF Ats
<1>8. Len(Contained[f]) = ip[f].size
  <2>1. Contained[f] = Bytes(ip[f], data, ip[f].size)
    BY <1>4 DEF Contained
  <2> QED
    BY <1>2, <2>1, BytesShape
<1> QED
  BY <1>1, <1>3, <1>6, <1>7, <1>8, StoreReads DEF TypeOK

(* Steps of a writer that write no byte of a file.                          *)
LEMMA LockedStays ==
  ASSUME Inv, NEW p \in Proc, UNCHANGED <<ilocked, off, stable>>, \A g \in File : ip'[g].size = ip[g].size,
         \A q \in Proc : q # p => pc'[q] = pc[q] /\ loc'[q] = loc[q],
         loc'[p].pos = loc[p].pos \/ pc[p] = "trunc", pc'[p] = "trunc" <=> pc[p] = "trunc"
  PROVE  \A g \in File : Size(g)' = Size(g) /\ At(g)' = At(g)
<1> SUFFICES ASSUME NEW g \in File PROVE Size(g)' = Size(g) /\ At(g)' = At(g)
  OBVIOUS
<1>1. CASE ilocked[g] = p /\ pc[p] = "trunc"
  <2>1. off[g] = -1 /\ ilocked[g] # None
    BY <1>1, Constants DEF Inv, LockInv, PlaceInv
  <2> QED
    BY <1>1, <2>1 DEF Size, At
<1>2. CASE ~(ilocked[g] = p /\ pc[p] = "trunc")
  <2>1. ilocked[g] \in Proc \cup {None}
    BY DEF Inv, TypeOK
  <2> QED
    BY <1>2, <2>1, SameSize
<1> QED
  BY <1>1, <1>2

LEMMA BallocStep ==
  ASSUME Inv, Inv', NEW p \in Proc, Balloc(p)
  PROVE  Step
<1>1. /\ UNCHANGED <<data, ip, ilocked, off, stable>> /\ loc'[p].pos = loc[p].pos /\ pc'[p] # "trunc" /\ pc[p] # "trunc"
      /\ \A q \in Proc : q # p => pc'[q] = pc[q] /\ loc'[q] = loc[q]
  BY DEF Balloc, Goto, Inv, TypeOK
<1>2. \A g \in File : Size(g)' = Size(g) /\ At(g)' = At(g)
  BY <1>1, LockedStays
<1>3. Contained' = Contained /\ KeptFiles' = KeptFiles
  BY <1>1, <1>2, SameContents, SameKept
<1>4. Ats' = Ats
  BY <1>2 DEF Ats
<1> QED
  BY <1>3, <1>4, StoreStays

LEMMA AttachStep ==
  ASSUME Inv, Inv', NEW p \in Proc, Attach(p)
  PROVE  Step
<1>0. pc[p] = "zero"
  BY DEF Attach
<1> SUFFICES ASSUME NEW f \in File, f = Here(p), NEW bn \in Bn, bn = loc[p].pos \div BSIZE PROVE Step
  BY <1>0, WriterAt
<1> DEFINE b == loc[p].addr
<1>1. /\ UNCHANGED <<ilocked, off, stable>> /\ loc'[p].pos = loc[p].pos /\ pc'[p] = "bmap"
      /\ \A q \in Proc : q # p => pc'[q] = pc[q] /\ loc'[q] = loc[q]
      /\ TypeOK
  BY DEF Attach, Goto, Inv, TypeOK
<1>2. \A g \in File : Past'[g] = Past[g]
  BY <1>0, <1>1, PastKept DEF Inv
<1>3. /\ \E l \in Place : Num(f, l) = 0 /\ NumSet(f, l, b)
      /\ b \in Block /\ ip'[f].size = ip[f].size /\ \A g \in File : g # f => ip'[g] = ip[g]
  BY <1>2, AttachNumSet
<1>4. \A g \in File : Size(g)' = Size(g) /\ At(g)' = At(g)
  BY <1>0, <1>1, <1>3, LockedStays
<1>5. \A c \in Block : c # b /\ c # Indirect(f) => data'[c] = data[c]
  <2>1. data \in [Block -> [Cell -> Content]]
    BY <1>1 DEF TypeOK, Contents
  <2>2. CASE data' = Bzero(b)
    BY <2>1, <2>2 DEF Bzero
  <2>3. CASE data' = [Bzero(b) EXCEPT ![Indirect(f)][bn - NDIRECT] = b]
    BY <2>1, <2>3 DEF Bzero
  <2> QED
    BY <2>2, <2>3 DEF Attach
<1>6. b # 0 /\ \A g \in File, k \in Place : Num(g, k) # b
  BY <1>3, Constants DEF Inv, NumPart, HandInv
<1>7. Indirect(f) = Num(f, NDIRECT) /\ NDIRECT \in Place
  BY Constants DEF Num, Named, Indirect
<1>8. PICK l \in Place : Num(f, l) = 0 /\ NumSet(f, l, b)
  BY <1>3
<1> HIDE DEF b
<1>9. ASSUME NEW g \in File, g # f PROVE Contained'[g] = Contained[g]
  <2>1. ASSUME NEW k \in Place, Num(g, k) \in Block PROVE data'[Num(g, k)] = data[Num(g, k)]
    <3>a. Num(g, k) # 0
      BY <2>1, Constants
    <3>b. \A k2 \in Place : Num(g, k) # Num(f, k2)
      BY <3>a, <1>9 DEF Inv, NumPart, Once
    <3>1. Num(g, k) # Indirect(f) /\ Num(g, k) # b
      BY <1>6, <1>7, <3>b
    <3> QED
      BY <1>5, <2>1, <3>1
  <2> QED
    BY <1>3, <1>4, <1>9, <2>1, FrameBytes
<1>10. Contained'[f] = Contained[f]
  <2>1. SizeLaw(f)
    BY SizeIs
  <2>2. CASE Size(f) = 0
    BY <1>4, <2>2, NoContent
  <2>3. CASE Size(f) # 0
    <3>1. ASSUME NEW m \in Bn, m * BSIZE < Size(f)
          PROVE  Num(f, PlaceOf(m))' = Num(f, PlaceOf(m)) /\ data'[Num(f, PlaceOf(m))] = data[Num(f, PlaceOf(m))]
      <4>1. PlaceOf(m) \in Place /\ PlaceOf(m) # NDIRECT /\ Num(f, PlaceOf(m)) \in Block /\ Num(f, PlaceOf(m)) # 0
        BY <2>1, <2>3, <3>1, PlaceOfPlace, Constants DEF SizeLaw
      <4>2. Num(f, PlaceOf(m)) # Indirect(f) /\ Num(f, PlaceOf(m)) # b
        BY <1>6, <1>7, <4>1 DEF Inv, NumPart, Once
      <4>3. Num(f, PlaceOf(m))' = Num(f, PlaceOf(m))
        BY <1>8, <4>1 DEF NumSet
      <4> QED
        BY <1>5, <4>1, <4>2, <4>3
    <3> QED
      BY <1>4, <3>1, SameBytes
  <2> QED
    BY <2>2, <2>3
<1>11. Contained' = Contained
  BY <1>9, <1>10 DEF Contained
<1>12. Ats' = Ats
  BY <1>4 DEF Ats
<1> QED
  BY <1>1, <1>11, <1>12, SameKept, StoreStays

LEMMA BfreeStep ==
  ASSUME Inv, Inv', NEW p \in Proc, Bfree(p)
  PROVE  Step
<1>0. pc[p] = "trunc" /\ TypeOK
  BY DEF Bfree, Inv
<1> SUFFICES ASSUME NEW f \in File, f = Here(p) PROVE Step
  BY <1>0, TruncAt
<1> DEFINE k == Min(Addrs(f))
           entries == Entries(f, loc[p].pos)
           listed == k = NDIRECT /\ entries # {}
           b == IF listed THEN data[Indirect(f)][Min(entries)] ELSE ip[f].addrs[k]
<1>1. /\ data' = [data EXCEPT ![b] = [c \in Cell |-> Stale]]
      /\ loc' = IF listed THEN [loc EXCEPT ![p].pos = Min(entries) + 1] ELSE loc
      /\ ip' = IF listed THEN ip ELSE [ip EXCEPT ![f].addrs[k] = 0]
      /\ UNCHANGED <<ilocked, off, stable, pc>>
  BY DEF Bfree
<1>2. \E l \in Place : b = Num(f, l)
  <2>1. NDIRECT \in Nat /\ BSIZE \in Nat /\ Past[f] = loc[p].pos /\ loc[p].pos \in Nat
    BY <1>0, TruncAt, Constants
  <2>2. k \in 0..NDIRECT /\ ip[f].addrs[k] # 0
    <3>1. Addrs(f) # {} /\ Addrs(f) \subseteq Nat
      BY <2>1 DEF Bfree, Addrs
    <3>2. Min(Addrs(f)) \in Addrs(f)
      BY <3>1, MinIsMember
    <3> QED
      BY <3>2 DEF Addrs
  <2>3. CASE listed
    <3>1. entries \subseteq Nat /\ entries # {}
      BY <2>1, <2>3 DEF Entries, Cell
    <3>2. Min(entries) \in entries
      BY <3>1, MinIsMember
    <3> DEFINE e == Min(entries)
    <3>6. e \in Entries(f, loc[p].pos)
      BY <3>2
    <3> HIDE DEF entries, e
    <3>3. e \in Cell /\ e >= loc[p].pos /\ e \in Nat /\ e < BSIZE
      BY <2>1, <3>6 DEF Entries, Cell
    <3>4. e + NDIRECT + 1 \in Place /\ ~(e + NDIRECT + 1 <= NDIRECT) /\ e + NDIRECT + 1 - NDIRECT - 1 = e
      BY <2>1, <3>3 DEF Place
    <3>5. Num(f, e + NDIRECT + 1) = data[Indirect(f)][e]
      BY <2>1, <2>2, <2>3, <3>3, <3>4 DEF Num, Named, Indirect
    <3> QED
      BY <2>3, <3>4, <3>5 DEF e
  <2>4. CASE ~listed
    BY <2>1, <2>2, <2>4, Constants DEF Num, Named
  <2> QED
    BY <2>3, <2>4
<1>3. (\A g \in File : g # f => ip'[g] = ip[g]) /\ ip'[f].size = ip[f].size
  BY <1>0, <1>1 DEF TypeOK
<1>4. \A q \in Proc : q # p => loc'[q] = loc[q]
  BY <1>0, <1>1 DEF TypeOK
<1> HIDE DEF k, entries, listed, b
<1>5. \A g \in File : Size(g)' = Size(g) /\ At(g)' = At(g)
  BY <1>0, <1>1, <1>3, <1>4, LockedStays
<1>6. \A c \in Block : c # b => data'[c] = data[c]
  BY <1>0, <1>1 DEF TypeOK, Contents
<1>7. PICK l \in Place : b = Num(f, l)
  BY <1>2
<1>8. ASSUME NEW g \in File, g # f PROVE Contained'[g] = Contained[g]
  <2>1. ASSUME NEW j \in Place, Num(g, j) \in Block PROVE data'[Num(g, j)] = data[Num(g, j)]
    <3>1. Num(g, j) # b
      BY <1>7, <1>8, <2>1, Constants DEF Inv, NumPart, Once
    <3> QED
      BY <1>6, <2>1, <3>1
  <2> QED
    BY <1>3, <1>5, <1>8, <2>1, FrameBytes
<1>9. Contained'[f] = Contained[f]
  <2>1. Size(f) = 0
    <3>1. ilocked[f] = p
      BY <1>0, TruncAt
    <3> QED
      BY <1>0, <3>1, SizeIs DEF SizeLaw
  <2> QED
    BY <1>5, <2>1, NoContent
<1>10. Contained' = Contained
  BY <1>8, <1>9 DEF Contained
<1>11. Ats' = Ats
  BY <1>5 DEF Ats
<1> QED
  BY <1>1, <1>10, <1>11, SameKept, StoreStays

LEMMA StartTruncStep ==
  ASSUME Inv, Inv', NEW p \in Proc, NEW f \in File, StartTrunc(p, f)
  PROVE  Step
<1>1. /\ pc[p] = "idle" /\ off[f] = -1 /\ ilocked[f] = None /\ ilocked'[f] = p /\ pc'[p] = "trunc"
      /\ UNCHANGED <<data, ip, off, stable>> /\ \A g \in File : g # f => ilocked'[g] = ilocked[g]
      /\ \A q \in Proc : q # p => pc'[q] = pc[q] /\ loc'[q] = loc[q]
  BY DEF StartTrunc, Goto, disk, Inv, TypeOK
<1>2. SizeLaw(f) /\ SizeLaw(f)'
  BY SizeIs, SizeNext
<1>3. At(f) = -1 /\ At(f)' = -1 /\ Size(f)' = 0
  BY <1>1, <1>2 DEF SizeLaw
<1>4. ASSUME NEW g \in File, g # f PROVE Size(g)' = Size(g) /\ At(g)' = At(g)
  <2>1. ilocked'[g] = ilocked[g] /\ ilocked[g] # p /\ ilocked[g] \in Proc \cup {None}
    BY <1>1, <1>4 DEF Inv, TypeOK, LockInv, Writing
  <2> QED
    BY <1>1, <2>1, SameSize
<1>5. ASSUME NEW g \in File, g # f PROVE Contained'[g] = Contained[g]
  BY <1>1, <1>4, <1>5, FrameBytes
<1>6. Contained'[f] = <<>>
  BY <1>3, NoContent
<1>7. Contained' = [Contained EXCEPT ![f] = <<>>]
  BY <1>5, <1>6 DEF Contained
<1>8. Ats' = Ats /\ Ats[f] = -1
  BY <1>3, <1>4 DEF Ats
<1> QED
  BY <1>1, <1>7, <1>8, SameKept, StoreRemoves

(* end_op(): what a crash leaves is what it left, or the files as they are.  *)
LEMMA EndOpKeeps ==
  ASSUME Inv', NEW p \in Proc, EndOp(p), pc'[p] \in {"idle", "begin"}, \A q \in Proc : q # p => pc'[q] = pc[q]
  PROVE  KeptFiles' = KeptFiles \/ KeptFiles' = Contained'
<1>1. CASE \E q \in Proc \ {p} : InOp(q)
  BY <1>1, SameKept DEF EndOp
<1>2. CASE ~\E q \in Proc \ {p} : InOp(q)
  <2>1. stable' = [bitmap |-> bitmap', data |-> data', dinode |-> dinode']
    BY <1>2 DEF EndOp
  <2>2. \A q \in Proc : pc'[q] \in {"idle", "begin"}
    BY <1>2 DEF InOp
  <2>3. ASSUME NEW f \in File PROVE ip'[f] = dinode'[f] /\ Size(f)' = ip'[f].size
    <3>1. ~\E q \in Proc : ilocked'[f] = q
      BY <2>2 DEF Inv, LockInv, Writing
    <3>2. ip'[f] = dinode'[f]
      BY <3>1 DEF Inv, Clean, CleanAt
    <3>3. ilocked'[f] = None
      BY <3>1 DEF Inv, TypeOK
    <3> QED
      BY <3>2, <3>3 DEF Size
  <2>4. KeptFiles' = [f \in File |-> Bytes(dinode'[f], data', dinode'[f].size)]
    BY <2>1 DEF KeptFiles
  <2>5. Contained' = [f \in File |-> Bytes(ip'[f], data', Size(f)')]
    BY DEF Contained
  <2> QED
    BY <2>3, <2>4, <2>5
<1> QED
  BY <1>1, <1>2

LEMMA EndChunkStep ==
  ASSUME Inv, Inv', NEW p \in Proc, EndChunk(p)
  PROVE  Step
<1>0. pc[p] = "end" /\ Writing(p) /\ PlaceInv(p) /\ TypeOK /\ None \notin Proc
  BY Constants DEF EndChunk, Inv, Writing
<1> SUFFICES ASSUME NEW f \in File, f = Here(p) PROVE Step
  BY <1>0 DEF PlaceInv
<1>1. /\ off' = [off EXCEPT ![f] = loc[p].pos] /\ ilocked' = [ilocked EXCEPT ![f] = None] /\ data' = data /\ EndOp(p)
      /\ pc'[p] \in {"idle", "begin"} /\ \A q \in Proc : q # p => pc'[q] = pc[q] /\ loc'[q] = loc[q]
  BY <1>0 DEF EndChunk, OffMoves, Goto, TypeOK
<1>2. /\ ilocked[f] = p /\ off'[f] = loc[p].pos /\ ilocked'[f] = None
      /\ \A g \in File : g # f => off'[g] = off[g] /\ ilocked'[g] = ilocked[g] /\ ilocked[g] # p
  BY <1>0, <1>1 DEF TypeOK, PlaceInv, Inv, LockInv
<1>3. /\ \A g \in File : ip'[g].addrs = ip[g].addrs
      /\ \A g \in File : g # f => ip'[g] = ip[g]
      /\ ip'[f].size = IF loc[p].pos > ip[f].size THEN loc[p].pos ELSE ip[f].size
  <2>1. ip[f] \in [size : 0..MaxSize, addrs : [0..NDIRECT -> 0..NBlock]]
    BY <1>0 DEF TypeOK, Inode
  <2>2. CASE loc[p].pos > ip[f].size
    <3> DEFINE grown == [ip[f] EXCEPT !.size = loc[p].pos]
    <3>1. ip' = [ip EXCEPT ![f] = grown]
      BY <2>2 DEF EndChunk
    <3>2. grown.addrs = ip[f].addrs /\ grown.size = loc[p].pos
      BY <2>1
    <3> HIDE DEF grown
    <3>3. ip'[f] = grown /\ \A g \in File : g # f => ip'[g] = ip[g]
      BY <1>0, <3>1 DEF TypeOK
    <3> QED
      BY <2>2, <3>2, <3>3
  <2>3. CASE ~(loc[p].pos > ip[f].size)
    BY <2>3 DEF EndChunk
  <2> QED
    BY <2>2, <2>3
<1>4. SizeLaw(f) /\ SizeLaw(f)'
  BY SizeIs, SizeNext
<1>5. ip[f].size \in Int /\ loc[p].pos \in Int
  <2>1. ip[f] \in [size : 0..MaxSize, addrs : [0..NDIRECT -> 0..NBlock]] /\ loc[p].pos \in Nat
    BY <1>0 DEF TypeOK, Inode
  <2> QED
    BY <2>1, Constants
<1>6. Size(f)' = Size(f) /\ At(f)' = At(f)
  BY <1>0, <1>2, <1>3, <1>4, <1>5 DEF SizeLaw
<1>7. ASSUME NEW g \in File, g # f PROVE Size(g)' = Size(g) /\ At(g)' = At(g)
  <2>1. ilocked[g] \in Proc \cup {None}
    BY <1>0 DEF TypeOK
  <2> QED
    BY <1>1, <1>2, <1>3, <1>7, <2>1, SameSize
<1>8. Contained' = Contained
  BY <1>1, <1>3, <1>6, <1>7, SameContents
<1>9. Ats' = Ats
  BY <1>6, <1>7 DEF Ats
<1> QED
  BY <1>1, <1>8, <1>9, EndOpKeeps, StoreStays

LEMMA TruncDoneStep ==
  ASSUME Inv, Inv', NEW p \in Proc, TruncDone(p)
  PROVE  Step
<1>0. pc[p] = "trunc" /\ TypeOK /\ None \notin Proc
  BY Constants DEF TruncDone, Inv
<1> SUFFICES ASSUME NEW f \in File, f = Here(p) PROVE Step
  BY <1>0, TruncAt
<1>1. /\ ip' = [ip EXCEPT ![f] = NoBlocks] /\ ilocked' = [ilocked EXCEPT ![f] = None] /\ data' = data /\ off' = off /\ EndOp(p)
      /\ pc'[p] = "idle" /\ \A q \in Proc : q # p => pc'[q] = pc[q] /\ loc'[q] = loc[q]
  BY <1>0 DEF TruncDone, Goto, TypeOK
<1>2. /\ ilocked[f] = p /\ ilocked'[f] = None /\ ip'[f] = NoBlocks
      /\ \A g \in File : g # f => ip'[g] = ip[g] /\ ilocked'[g] = ilocked[g] /\ ilocked[g] # p
  BY <1>0, <1>1, TruncAt DEF TypeOK
<1>3. SizeLaw(f) /\ SizeLaw(f)'
  BY SizeIs, SizeNext
<1>4. Size(f) = 0 /\ Size(f)' = 0 /\ At(f) = -1 /\ At(f)' = -1
  <2>1. Size(f) = 0 /\ At(f) = -1
    BY <1>0, <1>2, <1>3 DEF SizeLaw
  <2>2. Size(f)' = 0
    BY <1>2, <1>3 DEF SizeLaw, NoBlocks
  <2>3. off'[f] = -1
    BY <1>0, <1>1, TruncAt
  <2> QED
    BY <1>3, <2>1, <2>2, <2>3 DEF SizeLaw
<1>5. ASSUME NEW g \in File, g # f PROVE Size(g)' = Size(g) /\ At(g)' = At(g)
  <2>1. ilocked[g] \in Proc \cup {None}
    BY <1>0 DEF TypeOK
  <2> QED
    BY <1>1, <1>2, <1>5, <2>1, SameSize
<1>6. ASSUME NEW g \in File PROVE Contained'[g] = Contained[g]
  <2>1. CASE g = f
    BY <1>4, <2>1, NoContent
  <2>2. CASE g # f
    BY <1>1, <1>2, <1>5, <2>2, FrameBytes
  <2> QED
    BY <2>1, <2>2
<1>7. Contained' = Contained
  BY <1>6 DEF Contained
<1>8. Ats' = Ats
  BY <1>4, <1>5 DEF Ats
<1> QED
  BY <1>1, <1>7, <1>8, EndOpKeeps, StoreStays

LEMMA CrashStep ==
  ASSUME Inv, Inv', Crash
  PROVE  Step
<1>1. /\ ip' = stable.dinode /\ data' = stable.data /\ stable' = stable
      /\ \A f \in File : ilocked'[f] = None /\ off'[f] = -1
  BY DEF Crash
<1>2. \A f \in File : Size(f)' = ip'[f].size /\ At(f)' = -1
  BY <1>1 DEF Size, At
<1>3. Contained' = [f \in File |-> Bytes(ip'[f], data', Size(f)')]
  BY DEF Contained
<1>4. Contained' = KeptFiles /\ KeptFiles' = KeptFiles
  BY <1>1, <1>2, <1>3, SameKept DEF KeptFiles
<1>5. \A f \in File : Ats'[f] = -1
  BY <1>2 DEF Ats
<1> QED
  BY <1>4, <1>5, StoreCrashes

(* writei() of what fits the block: the bytes of its file there are new.     *)
LEMMA WriteBlockStep ==
  ASSUME Inv, Inv', NEW p \in Proc, WriteBlock(p)
  PROVE  Step
<1>0. pc[p] = "bmap" /\ TypeOK /\ None \notin Proc
  BY Constants DEF WriteBlock, Inv
<1> SUFFICES ASSUME NEW f \in File, f = Here(p), NEW pos \in Nat, pos = loc[p].pos,
                    NEW bn \in Bn, bn = pos \div BSIZE PROVE Step
  BY <1>0, WriterAt
<1> DEFINE first == pos % BSIZE
           m == Min({loc[p].todo, BSIZE - first})
           b == BlockOf(f, bn)
           s == bn * BSIZE
<1>1. /\ Writing(p) /\ ilocked[f] = p /\ loc[p].todo \in Nat /\ loc[p].todo > 0
      /\ pos + loc[p].todo <= MaxSize /\ \A g \in File : ilocked[g] = p => g = f
  BY <1>0, WriterAt
<1>2. /\ first \in Nat /\ first < BSIZE /\ pos = s + first /\ s \in Nat /\ BSIZE \in Nat /\ MaxSize \in Nat
      /\ bn \in Nat /\ first \in Int
  <2>1. first \in Cell /\ pos = (pos \div BSIZE) * BSIZE + first /\ (pos \div BSIZE) * BSIZE \in Nat
    BY BlockNumber, Zenon
  <2>2. bn \in Nat /\ BSIZE \in Nat /\ MaxSize \in Nat
    BY Constants DEF Bn
  <2>3. s \in Nat /\ pos = s + first
    BY <2>1
  <2> HIDE DEF first, s
  <2> QED
    BY <2>1, <2>2, <2>3 DEF Cell
<1>22. s = bn * BSIZE
  OBVIOUS
<1> HIDE DEF first, s
<1>3. m \in Nat /\ m > 0 /\ m <= loc[p].todo /\ m <= BSIZE - first
  <2>1. m = IF loc[p].todo <= BSIZE - first THEN loc[p].todo ELSE BSIZE - first
    BY <1>1, <1>2, MinOfTwo
  <2> QED
    BY <1>1, <1>2, <2>1
<1>4. b = Num(f, PlaceOf(bn)) /\ b \in Block
  <2>1. Lacks(f, bn) = "none"
    BY DEF WriteBlock
  <2>2. b = Num(f, PlaceOf(bn)) /\ Num(f, PlaceOf(bn)) # 0
    BY <1>1, <2>1, PathIs
  <2>3. Num(f, PlaceOf(bn)) \in 0..NBlock
    BY PlaceOfPlace DEF Inv, NumPart, NumInv
  <2> QED
    BY <2>2, <2>3, Constants
<1>5. /\ data' = [data EXCEPT ![b] = [c \in Cell |-> IF c \in first..(first + m - 1)
                                              THEN Byte(f, pos + 1 + c - first) ELSE data[b][c]]]
      /\ loc'[p].pos = pos + m /\ pc'[p] \in {"bmap", "end"}
      /\ \A q \in Proc : q # p => pc'[q] = pc[q] /\ loc'[q] = loc[q]
      /\ UNCHANGED <<ip, ilocked, off, stable>>
  BY <1>0, <1>4 DEF WriteBlock, Goto, TypeOK, Contents, first
<1> HIDE DEF m, b
<1>6. /\ \A c \in Block : c # b => data'[c] = data[c]
      /\ \A c \in Cell : data'[b][c] = IF first <= c /\ c <= first + m - 1 THEN Byte(f, pos + 1 + c - first) ELSE data[b][c]
  <2>1. data \in [Block -> [Cell -> Content]]
    BY <1>0 DEF TypeOK, Contents
  <2>2. \A c \in Cell : c \in first..(first + m - 1) <=> first <= c /\ c <= first + m - 1
    BY <1>2, <1>3 DEF Cell
  <2>3. data'[b] = [c \in Cell |-> IF c \in first..(first + m - 1) THEN Byte(f, pos + 1 + c - first) ELSE data[b][c]]
    BY <1>4, <1>5, <2>1
  <2> QED
    BY <1>4, <1>5, <2>1, <2>2, <2>3
<1>7. m \in 1..MaxSize /\ pos + m <= MaxSize
  BY <1>1, <1>2, <1>3
<1>8. SizeLaw(f) /\ SizeLaw(f)'
  BY SizeIs, SizeNext
<1>9. /\ At(f) = pos /\ Size(f) = IF ip[f].size >= pos THEN ip[f].size ELSE pos
      /\ At(f)' = pos + m /\ Size(f)' = IF ip[f].size >= pos + m THEN ip[f].size ELSE pos + m
  <2>1. Writing(p)' /\ ilocked'[f] = p /\ ip' = ip
    BY <1>1, <1>5 DEF Writing
  <2> QED
    BY <1>1, <1>5, <1>8, <2>1 DEF SizeLaw
<1>10. ip[f].size \in Nat
  <2>1. ip[f] \in [size : 0..MaxSize, addrs : [0..NDIRECT -> 0..NBlock]]
    BY <1>0 DEF TypeOK, Inode
  <2> QED
    BY <1>2, <2>1
<1> DEFINE n == Size(f)
           n2 == Size(f)'
<1>11. n \in Nat /\ n2 \in Nat /\ pos <= n /\ n2 \in 0..MaxSize /\ n \in 0..MaxSize /\ n2 > 0
       /\ n2 = IF pos + m > n THEN pos + m ELSE n
  BY <1>2, <1>3, <1>8, <1>9, <1>10 DEF SizeLaw
<1>12. Past[f] = 0 /\ Past'[f] = 0
  <2>1. Past[f] = 0
    BY <1>1, PathIs
  <2> QED
    BY <1>8, <1>11, <2>1 DEF SizeLaw
<1>23. ASSUME NEW g \in File, NEW k \in Place, g # f \/ k # PlaceOf(bn) PROVE Num(g, k) # b
  <2>1. Once /\ PlaceOf(bn) \in Place /\ b # 0
    BY <1>4, PlaceOfPlace, Constants DEF Inv, NumPart
  <2> QED
    BY <1>4, <1>23, <2>1 DEF Once
<1>13. KeptIn(f)
  <2>1. ip[f].addrs[NDIRECT] = Num(f, NDIRECT) /\ NDIRECT \in Place
    BY Constants DEF Num, Named
  <2>2. Num(f, NDIRECT) \in 0..NBlock /\ (Num(f, NDIRECT) # 0 => Num(f, NDIRECT) \in Block)
    BY <2>1, Constants DEF Inv, NumPart, NumInv
  <2>3. Num(f, NDIRECT) # b
    BY <1>23, <2>1, PlaceOfPlace
  <2> QED
    BY <1>5, <1>6, <1>12, <2>1, <2>2, <2>3, NumFrame
<1>14. Contained[f] = Bytes(ip[f], data, n) /\ Contained'[f] = Bytes(ip'[f], data', n2) /\ ip' = ip
  BY <1>5 DEF Contained
<1> HIDE DEF n, n2
<1>15. Len(Contained[f]) = n
  BY <1>11, <1>14, BytesShape
<1>16. ASSUME NEW x \in 1..n2
       PROVE  Bytes(ip'[f], data', n2)[x] = IF pos < x /\ x <= pos + m THEN Byte(f, x) ELSE Bytes(ip[f], data, n)[x]
  <2> DEFINE xb == (x - 1) \div BSIZE
             c == (x - 1) % BSIZE
  <2>0. n2 \in 0..MaxSize /\ n \in 0..MaxSize /\ Past'[f] = 0 /\ Past[f] = 0
    BY <1>11, <1>12
  <2>1. /\ xb \in Bn /\ x - 1 \in Nat /\ x - 1 < MaxSize
        /\ LET d == Named(ip', data', Past', f, PlaceOf(xb)) IN
           Bytes(ip'[f], data', n2)[x] = IF d \in Block THEN data'[d][c] ELSE None
    BY <2>0, ByteAt
  <2>2. c \in Cell /\ x - 1 = xb * BSIZE + c /\ xb \in Nat /\ xb * BSIZE \in Nat
    BY <2>1, BlockNumber
  <2>3. Num(f, PlaceOf(xb)) = Named(ip, data, Past, f, PlaceOf(xb)) /\ PlaceOf(xb) \in Place
    BY <2>1, PlaceOfPlace DEF Num
  <2>4. ASSUME x <= n
        PROVE  LET d == Num(f, PlaceOf(xb)) IN Bytes(ip[f], data, n)[x] = IF d \in Block THEN data[d][c] ELSE None
    <3>1. x \in 1..n
      BY <1>11, <2>4
    <3>2. LET d == Named(ip, data, Past, f, PlaceOf(xb)) IN Bytes(ip[f], data, n)[x] = IF d \in Block THEN data[d][c] ELSE None
      BY <2>0, <3>1, ByteAt
    <3> QED
      BY <2>3, <3>2
  <2> HIDE DEF xb, c
  <2>5. Named(ip', data', Past', f, PlaceOf(xb)) = Num(f, PlaceOf(xb))
    <3>1. \A k \in Place : Named(ip', data', Past', f, k) = Num(f, k)
      <4>1. \A k \in Place : Num(f, k)' = Named(ip', data', Past', f, k)
        BY DEF Num, Named
      <4> QED
        BY <1>13, <4>1 DEF KeptIn
    <3> QED
      BY <2>3, <3>1
  <2>6. LET d == Num(f, PlaceOf(xb)) IN Bytes(ip'[f], data', n2)[x] = IF d \in Block THEN data'[d][c] ELSE None
    BY <2>1, <2>5
  <2>7. CASE pos < x /\ x <= pos + m
    <3>1. x - 1 - s \in Cell /\ x - 1 = bn * BSIZE + (x - 1 - s)
      <4>1. x - 1 - s \in Cell
        BY <1>2, <1>3, <2>1, <2>7 DEF Cell
      <4>2. x - 1 = s + (x - 1 - s)
        BY <1>2, <2>1
      <4> QED
        BY <1>22, <4>1, <4>2
    <3>2. xb = bn /\ c = x - 1 - s
      BY <1>2, <2>1, <3>1, DivUnique DEF xb, c
    <3>3. first <= c /\ c <= first + m - 1 /\ pos + 1 + c - first = x
      BY <1>2, <1>3, <2>1, <2>7, <3>2
    <3>4. Num(f, PlaceOf(xb)) = b
      BY <1>4, <3>2
    <3> QED
      BY <1>4, <1>6, <2>2, <2>6, <2>7, <3>3, <3>4
  <2>8. CASE ~(pos < x /\ x <= pos + m)
    <3>1. x <= n
      BY <1>7, <1>11, <2>1, <2>8
    <3>2. Num(f, PlaceOf(xb)) = b => data'[b][c] = data[b][c]
      <4> SUFFICES ASSUME Num(f, PlaceOf(xb)) = b, first <= c, c <= first + m - 1 PROVE FALSE
        BY <1>6, <2>2
      <4>1. PlaceOf(xb) = PlaceOf(bn)
        BY <1>23, <2>3
      <4>2. xb = bn
        BY <2>1, <4>1, Constants DEF PlaceOf, Bn
      <4>3. x - 1 = s + c
        BY <1>22, <2>2, <4>2
      <4> QED
        BY <1>2, <1>3, <2>1, <2>2, <2>8, <4>3 DEF Cell
    <3>3. Num(f, PlaceOf(xb)) # b /\ Num(f, PlaceOf(xb)) \in Block => data'[Num(f, PlaceOf(xb))] = data[Num(f, PlaceOf(xb))]
      BY <1>6
    <3> QED
      BY <2>4, <2>6, <2>8, <3>1, <3>2, <3>3
  <2> QED
    BY <2>7, <2>8
<1>17. Contained'[f] = Overlaid(f, m)
  <2>1. Contained'[f] = [x \in 1..n2 |-> Bytes(ip'[f], data', n2)[x]]
    BY <1>11, <1>14, BytesShape
  <2>2. Ats[f] = pos
    BY <1>9 DEF Ats
  <2>3. Overlaid(f, m) = [x \in 1..n2 |-> IF pos < x /\ x <= pos + m THEN Byte(f, x) ELSE Bytes(ip[f], data, n)[x]]
    BY <1>11, <1>14, <1>15, <2>2 DEF Overlaid
  <2> QED
    BY <1>16, <2>1, <2>3
<1>18. ASSUME NEW g \in File, g # f PROVE Size(g)' = Size(g) /\ At(g)' = At(g) /\ Contained'[g] = Contained[g]
  <2>1. ilocked[g] \in Proc \cup {None} /\ ilocked[g] # p
    BY <1>0, <1>1, <1>18 DEF TypeOK
  <2>2. Size(g)' = Size(g) /\ At(g)' = At(g)
    BY <1>5, <2>1, SameSize
  <2>3. ASSUME NEW k \in Place, Num(g, k) \in Block PROVE data'[Num(g, k)] = data[Num(g, k)]
    <3>1. Num(g, k) # b
      BY <1>18, <1>23, <2>3
    <3> QED
      BY <1>6, <2>3, <3>1
  <2> QED
    BY <1>5, <1>18, <2>2, <2>3, FrameBytes
<1>19. Contained' = [Contained EXCEPT ![f] = Overlaid(f, m)]
  BY <1>17, <1>18 DEF Contained
<1>20. Ats' = [Ats EXCEPT ![f] = Ats[f] + m] /\ Ats[f] = pos
  BY <1>9, <1>18 DEF Ats
<1>21. Ats[f] \in 0..Len(Contained[f])
  BY <1>11, <1>15, <1>20
<1> QED
  BY <1>5, <1>7, <1>19, <1>20, <1>21, SameKept, StoreWrites

LEMMA InitStep == Init => Files!Init
<1> SUFFICES ASSUME Init PROVE Files!Init
  OBVIOUS
<1>1. \A f \in File : ip[f].size = 0 /\ ilocked[f] = None /\ off[f] = -1 /\ stable.dinode[f].size = 0
  BY DEF Init, NoBlocks
<1>2. \A f \in File : Size(f) = 0 /\ At(f) = -1
  BY <1>1 DEF Size, At
<1>3. \A f \in File : Contained[f] = <<>> /\ Ats[f] = -1 /\ KeptFiles[f] = <<>>
  BY <1>1, <1>2, BytesShape DEF Contained, Ats, KeptFiles
<1>4. Contained = [f \in File |-> <<>>] /\ Ats = [f \in File |-> -1] /\ KeptFiles = [f \in File |-> <<>>]
  BY <1>3 DEF Contained, Ats, KeptFiles
<1> QED
  BY <1>4 DEF Contained, Ats, KeptFiles, Files!Init, Files!Empty, Files!Closed

LEMMA NextStep == Inv /\ Inv' /\ [Next]_vars => Step
<1> SUFFICES ASSUME Inv, Inv', [Next]_vars PROVE Step
  OBVIOUS
<1>1. ASSUME NEW f \in File, Open(f) \/ Close(f) PROVE Step
  BY <1>1, OpenStep
<1>2. ASSUME NEW p \in Proc, BeginChunk(p) PROVE Step
  BY <1>2, BeginChunkStep
<1>3. ASSUME NEW p \in Proc, Balloc(p) PROVE Step
  BY <1>3, BallocStep
<1>4. ASSUME NEW p \in Proc, Attach(p) PROVE Step
  BY <1>4, AttachStep
<1>5. ASSUME NEW p \in Proc, WriteBlock(p) PROVE Step
  BY <1>5, WriteBlockStep
<1>6. ASSUME NEW p \in Proc, EndChunk(p) PROVE Step
  BY <1>6, EndChunkStep
<1>7. ASSUME NEW p \in Proc, Bfree(p) PROVE Step
  BY <1>7, BfreeStep
<1>8. ASSUME NEW p \in Proc, TruncDone(p) PROVE Step
  BY <1>8, TruncDoneStep
<1>9. ASSUME NEW p \in Proc, NEW f \in File, StartTrunc(p, f) PROVE Step
  BY <1>9, StartTruncStep
<1>10. ASSUME NEW p \in Proc, NEW f \in File, NEW n \in Sizes, StartWrite(p, f, n) PROVE Step
  BY <1>10, StartWriteStep
<1>11. ASSUME NEW p \in Proc, NEW f \in File, NEW n \in Sizes, Read(p, f, n) PROVE Step
  BY <1>11, ReadStep
<1>12. CASE Crash
  BY <1>12, CrashStep
<1>13. CASE UNCHANGED vars
  <2>1. UNCHANGED <<data, ip, ilocked, off, stable, pc, loc>>
    BY <1>13 DEF vars, disk
  <2>2. Contained' = Contained /\ Ats' = Ats /\ KeptFiles' = KeptFiles
    BY <2>1 DEF Contained, Ats, KeptFiles, Size, At
  <2> QED
    BY <2>2, StoreStays
<1> QED
  BY <1>1, <1>2, <1>3, <1>4, <1>5, <1>6, <1>7, <1>8, <1>9, <1>10, <1>11, <1>12, <1>13 DEF Next

(* fs.c:482-514, file.c:118-152: no write reaches another file, two writers    *)
(* of one open file do not overwrite each other, and a crash loses whole      *)
(* transactions: files on blocks implement files that are rows of bytes.     *)
THEOREM FilesAreBytes == Spec => FileSpec
<1>1. Init => Files!Init
  BY InitStep
<1>2. Inv /\ Inv' /\ [Next]_vars => Step
  BY NextStep
<1>3. Step => [Files!Next]_<<[f \in File |-> Bytes(ip[f], data, Size(f))], [f \in File |-> At(f)],
                             [f \in File |-> Bytes(stable.dinode[f], stable.data, stable.dinode[f].size)]>>
  BY DEF Step, Contained, Ats, KeptFiles
<1> QED
  BY <1>1, <1>2, <1>3, BlocksKept, PTL DEF Spec, FileSpec, Files!Spec

-----------------------------------------------------------------------------
(* Spin locks from here on.                                                 *)

(* In acquire() or release(), past the cli.                                 *)
InLock(c) == at[c] \in {"spin", "pop"}
Busy(c) == Locks!Held(c) # {} \/ InLock(c)

(* What a CPU's counters say of the locks it holds.                         *)
CpuInv(c) ==
  /\ at[c] # "panic"
  /\ ncli[c] = Cardinality(Locks!Held(c)) + (IF InLock(c) THEN 1 ELSE 0)
  /\ Busy(c) => ~ifl[c] /\ (intena[c] <=> saved[c] = <<>>)
  /\ ~Busy(c) => (ifl[c] <=> saved[c] = <<>>)
  /\ at[c] = "cli" => (eflags[c] <=> ifl[c])
  /\ at[c] \in {"cli", "spin"} => want[c] \notin Locks!Held(c)
  /\ Len(saved[c]) <= 1
  /\ saved[c] # <<>> /\ saved[c][1].pc = "cli" => saved[c][1].eflags

CpusInv == Locks!TypeOK /\ \A c \in Cpu : CpuInv(c)

-----------------------------------------------------------------------------
(* The assumption on the constants, as the proofs use it.                   *)
LEMMA CpusAssumption == NLock \in Nat \ {0} /\ Depth \in Nat /\ Free \notin Cpu
BY LocksAssumption DEF Locks!SpinlockAssumption

(* Locks are finitely many, so the sets of locks have cardinalities.        *)
LEMMA HeldFinite ==
  ASSUME NEW S, S \subseteq Locks!Lock
  PROVE  IsFiniteSet(S) /\ Cardinality(S) \in Nat /\ (Cardinality(S) = 0 <=> S = {})
<1>1. 1 \in Int /\ NLock \in Int
  BY CpusAssumption
<1>2. IsFiniteSet(Locks!Lock)
  BY <1>1, FS_Interval DEF Locks!Lock
<1> QED
  BY <1>2, FS_Subset, FS_CardinalityType, FS_EmptySet

LEMMA HeldIsLocks == ASSUME NEW c PROVE Locks!Held(c) \subseteq Locks!Lock /\ Locks!Held(c)' \subseteq Locks!Lock
BY DEF Locks!Held

LEMMA CpusInitInv == Locks!Init => CpusInv
<1> SUFFICES ASSUME Locks!Init PROVE CpusInv
  OBVIOUS
<1>1. 1 \in Locks!Lock
  BY CpusAssumption DEF Locks!Lock
<1>2. Locks!TypeOK
  BY <1>1 DEF Locks!Init, Locks!TypeOK
<1>3. ASSUME NEW c \in Cpu PROVE CpuInv(c)
  <2>1. Locks!Held(c) = {}
    BY CpusAssumption DEF Locks!Init, Locks!Held
  <2>2. Cardinality(Locks!Held(c)) = 0
    BY <2>1, FS_EmptySet
  <2> QED
    BY <2>1, <2>2 DEF Locks!Init, CpuInv, Busy, InLock
<1> QED
  BY <1>2, <1>3 DEF CpusInv

-----------------------------------------------------------------------------
(* A step of one CPU leaves what the others see of themselves alone.        *)
LEMMA CpusKeep ==
  ASSUME NEW c \in Cpu, NEW d \in Cpu, CpuInv(d), Locks!Held(d)' = Locks!Held(d),
         at[d]' = at[d], ncli[d]' = ncli[d], ifl[d]' = ifl[d], intena[d]' = intena[d],
         eflags[d]' = eflags[d], want[d]' = want[d], saved[d]' = saved[d]
  PROVE  CpuInv(d)'
BY DEF CpuInv, Busy, InLock

LEMMA AcquireInv ==
  ASSUME CpusInv, NEW c \in Cpu, NEW l \in Locks!Lock, Locks!Acquire(c, l)
  PROVE  CpusInv'
<1>1. Locks!TypeOK'
  BY DEF CpusInv, Locks!TypeOK, Locks!Acquire, Locks!Goto
<1>2. ASSUME NEW d \in Cpu PROVE CpuInv(d)'
  <2>1. Locks!Held(d)' = Locks!Held(d)
    BY DEF Locks!Held, Locks!Acquire
  <2>2. CASE d = c
    <3>1. l \notin Locks!Held(c)
      BY DEF Locks!Acquire, Locks!Held, Locks!Lock
    <3> QED
      BY <2>1, <2>2, <3>1 DEF CpusInv, Locks!TypeOK, CpuInv, Busy, InLock, Locks!Acquire, Locks!Goto
  <2>3. CASE d # c
    BY <2>1, <2>3, CpusKeep DEF CpusInv, Locks!TypeOK, Locks!Acquire, Locks!Goto
  <2> QED
    BY <2>2, <2>3
<1> QED
  BY <1>1, <1>2 DEF CpusInv

LEMMA CliInv ==
  ASSUME CpusInv, NEW c \in Cpu, Locks!Cli(c)
  PROVE  CpusInv'
<1> DEFINE on == IF Locks!FirstCli(ncli[c]) THEN eflags[c] ELSE intena[c]
<1>0. on \in BOOLEAN
  BY DEF CpusInv, Locks!TypeOK
<1>1. Locks!TypeOK'
  <2>1. intena' = [intena EXCEPT ![c] = on]
    BY DEF Locks!Cli
  <2> HIDE DEF on
  <2>2. intena' \in [Cpu -> BOOLEAN] /\ ifl' \in [Cpu -> BOOLEAN]
    BY <1>0, <2>1 DEF CpusInv, Locks!TypeOK, Locks!Cli
  <2>3. ncli' \in [Cpu -> Int] /\ at' \in [Cpu -> {"run", "cli", "spin", "pop", "panic"}]
    BY DEF CpusInv, Locks!TypeOK, Locks!Cli, Locks!Goto
  <2>4. UNCHANGED <<owner, eflags, want, saved>>
    BY DEF Locks!Cli
  <2> QED
    BY <2>2, <2>3, <2>4 DEF CpusInv, Locks!TypeOK
<1>2. ASSUME NEW d \in Cpu PROVE CpuInv(d)'
  <2>1. Locks!Held(d)' = Locks!Held(d)
    BY DEF Locks!Held, Locks!Cli
  <2>2. CASE d = c
    <3>1. Cardinality(Locks!Held(c)) \in Nat /\ (Cardinality(Locks!Held(c)) = 0 <=> Locks!Held(c) = {})
      BY HeldFinite, HeldIsLocks
    <3>2. want[c] \notin Locks!Held(c) /\ ncli[c] = Cardinality(Locks!Held(c))
      BY <3>1 DEF CpusInv, CpuInv, InLock, Locks!Cli
    <3>3. at'[c] = "spin" /\ ~ifl'[c] /\ ncli'[c] = ncli[c] + 1
      BY <3>2 DEF CpusInv, Locks!TypeOK, Locks!Cli, Locks!Goto
    <3>4. intena'[c] <=> saved[c] = <<>>
      BY <3>1, <3>2 DEF CpusInv, Locks!TypeOK, CpuInv, Busy, InLock, Locks!Cli, Locks!FirstCli
    <3> QED
      BY <2>1, <2>2, <3>1, <3>2, <3>3, <3>4 DEF CpusInv, CpuInv, Busy, InLock, Locks!Cli
  <2>3. CASE d # c
    BY <2>1, <2>3, CpusKeep DEF CpusInv, Locks!TypeOK, Locks!Cli, Locks!Goto
  <2> QED
    BY <2>2, <2>3
<1> QED
  BY <1>1, <1>2 DEF CpusInv

LEMMA XchgInv ==
  ASSUME CpusInv, NEW c \in Cpu, Locks!Xchg(c)
  PROVE  CpusInv'
<1>1. Locks!TypeOK'
  BY DEF CpusInv, Locks!TypeOK, Locks!Xchg, Locks!Goto
<1>2. ASSUME NEW d \in Cpu PROVE CpuInv(d)'
  <2>1. CASE d = c
    <3>1. Locks!Held(c)' = Locks!Held(c) \cup {want[c]} /\ want[c] \notin Locks!Held(c)
      BY CpusAssumption DEF CpusInv, Locks!TypeOK, Locks!Held, Locks!Xchg
    <3>2. Cardinality(Locks!Held(c)') = Cardinality(Locks!Held(c)) + 1
      BY <3>1, HeldFinite, HeldIsLocks, FS_AddElement
    <3>3. Cardinality(Locks!Held(c)) \in Nat
      BY HeldFinite, HeldIsLocks
    <3> QED
      BY <2>1, <3>1, <3>2, <3>3 DEF CpusInv, Locks!TypeOK, CpuInv, Busy, InLock, Locks!Xchg, Locks!Goto
  <2>2. CASE d # c
    <3>1. Locks!Held(d)' = Locks!Held(d)
      BY <2>2, CpusAssumption DEF CpusInv, Locks!TypeOK, Locks!Held, Locks!Xchg
    <3> QED
      BY <2>2, <3>1, CpusKeep DEF CpusInv, Locks!TypeOK, Locks!Xchg, Locks!Goto
  <2> QED
    BY <2>1, <2>2
<1> QED
  BY <1>1, <1>2 DEF CpusInv

LEMMA ReleaseInv ==
  ASSUME CpusInv, NEW c \in Cpu, NEW l \in Locks!Lock, Locks!Release(c, l)
  PROVE  CpusInv'
<1>1. Locks!TypeOK'
  BY DEF CpusInv, Locks!TypeOK, Locks!Release, Locks!Goto
<1>2. ASSUME NEW d \in Cpu PROVE CpuInv(d)'
  <2>1. CASE d = c
    <3>1. Locks!Held(c)' = Locks!Held(c) \ {l} /\ l \in Locks!Held(c)
      BY CpusAssumption DEF CpusInv, Locks!TypeOK, Locks!Held, Locks!Release
    <3>2. Cardinality(Locks!Held(c)') = Cardinality(Locks!Held(c)) - 1
      BY <3>1, HeldFinite, HeldIsLocks, FS_RemoveElement
    <3>3. Cardinality(Locks!Held(c)) \in Nat
      BY HeldFinite, HeldIsLocks
    <3> QED
      BY <2>1, <3>1, <3>2, <3>3 DEF CpusInv, Locks!TypeOK, CpuInv, Busy, InLock, Locks!Release, Locks!Goto
  <2>2. CASE d # c
    <3>1. Locks!Held(d)' = Locks!Held(d)
      BY <2>2, CpusAssumption DEF CpusInv, Locks!TypeOK, Locks!Held, Locks!Release
    <3> QED
      BY <2>2, <3>1, CpusKeep DEF CpusInv, Locks!TypeOK, Locks!Release, Locks!Goto
  <2> QED
    BY <2>1, <2>2
<1> QED
  BY <1>1, <1>2 DEF CpusInv

LEMMA PopcliInv ==
  ASSUME CpusInv, NEW c \in Cpu, Locks!Popcli(c)
  PROVE  CpusInv'
<1>1. Cardinality(Locks!Held(c)) \in Nat /\ (Cardinality(Locks!Held(c)) = 0 <=> Locks!Held(c) = {})
  BY HeldFinite, HeldIsLocks
<1>2. ncli[c] = Cardinality(Locks!Held(c)) + 1 /\ ~ifl[c] /\ (intena[c] <=> saved[c] = <<>>)
  BY DEF CpusInv, CpuInv, Busy, InLock, Locks!Popcli
<1> DEFINE on == ncli[c] = 1 /\ intena[c]
<1>3. /\ ncli' = [ncli EXCEPT ![c] = @ - 1]
      /\ ifl' = [ifl EXCEPT ![c] = on]
      /\ at' = [at EXCEPT ![c] = "run"]
      /\ UNCHANGED <<owner, intena, eflags, want, saved>>
  BY <1>1, <1>2 DEF Locks!Popcli, Locks!Goto
<1>4. Locks!TypeOK'
  <2>1. on \in BOOLEAN
    BY DEF CpusInv, Locks!TypeOK
  <2> HIDE DEF on
  <2>2. ifl' \in [Cpu -> BOOLEAN]
    BY <1>3, <2>1 DEF CpusInv, Locks!TypeOK
  <2>3. ncli' \in [Cpu -> Int] /\ at' \in [Cpu -> {"run", "cli", "spin", "pop", "panic"}]
    BY <1>3 DEF CpusInv, Locks!TypeOK
  <2>4. UNCHANGED <<owner, intena, eflags, want, saved>>
    BY <1>3
  <2> QED
    BY <2>2, <2>3, <2>4 DEF CpusInv, Locks!TypeOK
<1>5. ASSUME NEW d \in Cpu PROVE CpuInv(d)'
  <2>1. Locks!Held(d)' = Locks!Held(d)
    BY <1>3 DEF Locks!Held
  <2>2. CASE d = c
    <3>1. ncli'[c] = Cardinality(Locks!Held(c)) /\ at'[c] = "run"
      BY <1>1, <1>2, <1>3 DEF CpusInv, Locks!TypeOK
    <3>2. on <=> Locks!Held(c) = {} /\ saved[c] = <<>>
      BY <1>1, <1>2
    <3> HIDE DEF on
    <3>3. ifl'[c] = on
      BY <1>3 DEF CpusInv, Locks!TypeOK
    <3>4. Locks!Held(c)' = Locks!Held(c)
      BY <1>3 DEF Locks!Held
    <3>6. Busy(c)' <=> Locks!Held(c) # {}
      BY <3>1, <3>4 DEF Busy, InLock
    <3>5. CpuInv(c) /\ saved'[c] = saved[c] /\ intena'[c] = intena[c]
      BY <1>3 DEF CpusInv
    <3>7. CpuInv(c)'
      BY <1>1, <1>2, <3>1, <3>2, <3>3, <3>4, <3>5, <3>6 DEF CpuInv, InLock
    <3> QED
      BY <2>2, <3>7
  <2>3. CASE d # c
    BY <1>3, <2>1, <2>3, CpusKeep DEF CpusInv, Locks!TypeOK
  <2> QED
    BY <2>2, <2>3
<1> QED
  BY <1>4, <1>5 DEF CpusInv

LEMMA InterruptInv ==
  ASSUME CpusInv, NEW c \in Cpu, Locks!Interrupt(c)
  PROVE  CpusInv'
<1> DEFINE s == [pc |-> at[c], eflags |-> eflags[c], want |-> want[c]]
<1>1. /\ ~Busy(c) /\ saved[c] = <<>> /\ at[c] \in {"run", "cli"}
      /\ at[c] = "cli" => eflags[c]
  BY DEF CpusInv, Locks!TypeOK, CpuInv, Busy, InLock, Locks!Interrupt
<1>2. /\ saved' = [saved EXCEPT ![c] = <<s>>]
      /\ s \in [pc : {"run", "cli"}, eflags : BOOLEAN, want : Locks!Lock]
  BY <1>1 DEF CpusInv, Locks!TypeOK, Locks!Interrupt
<1>3. Locks!TypeOK'
  <2> DEFINE R == [pc : {"run", "cli"}, eflags : BOOLEAN, want : Locks!Lock]
  <2>1. <<s>> \in Seq(R)
    BY <1>2
  <2> HIDE DEF R, s
  <2>2. saved' \in [Cpu -> Seq(R)]
    BY <1>2, <2>1 DEF CpusInv, Locks!TypeOK, R
  <2>3. ifl' \in [Cpu -> BOOLEAN] /\ at' \in [Cpu -> {"run", "cli", "spin", "pop", "panic"}]
    BY DEF CpusInv, Locks!TypeOK, Locks!Interrupt, Locks!Goto
  <2> QED
    BY <2>2, <2>3 DEF CpusInv, Locks!TypeOK, Locks!Interrupt, R
<1>4. ASSUME NEW d \in Cpu PROVE CpuInv(d)'
  <2>1. Locks!Held(d)' = Locks!Held(d)
    BY DEF Locks!Held, Locks!Interrupt
  <2>2. CASE d = c
    <3>1. saved'[c] = <<s>> /\ ~ifl'[c] /\ at'[c] = "run" /\ ncli'[c] = ncli[c]
      BY <1>2 DEF CpusInv, Locks!TypeOK, Locks!Interrupt, Locks!Goto
    <3>2. Locks!Held(c) = {}
      BY <1>1 DEF Busy
    <3>3. Len(saved'[c]) = 1 /\ saved'[c] # <<>> /\ saved'[c][1] = s
      BY <3>1
    <3>4. ncli[c] = Cardinality(Locks!Held(c)) + 0
      BY <1>1 DEF CpusInv, CpuInv, InLock
    <3> QED
      BY <1>1, <2>1, <2>2, <3>1, <3>2, <3>3, <3>4 DEF CpuInv, Busy, InLock
  <2>3. CASE d # c
    BY <2>1, <2>3, CpusKeep DEF CpusInv, Locks!TypeOK, Locks!Interrupt, Locks!Goto
  <2> QED
    BY <2>2, <2>3
<1> QED
  BY <1>3, <1>4 DEF CpusInv

LEMMA IretInv ==
  ASSUME CpusInv, NEW c \in Cpu, Locks!Iret(c)
  PROVE  CpusInv'
<1> DEFINE s == saved[c][1]
<1> DEFINE R == [pc : {"run", "cli"}, eflags : BOOLEAN, want : Locks!Lock]
<1>1. Len(saved[c]) = 1 /\ s \in R
  <2>1. saved[c] \in Seq(R) /\ saved[c] # <<>> /\ Len(saved[c]) <= 1
    BY DEF CpusInv, Locks!TypeOK, CpuInv, Locks!Iret
  <2> HIDE DEF R
  <2>2. Len(saved[c]) \in Nat \ {0}
    BY <2>1, EmptySeq
  <2>3. ASSUME NEW n \in Nat \ {0}, n <= 1 PROVE n = 1
    BY <2>3
  <2>4. Len(saved[c]) = 1
    BY <2>1, <2>2, <2>3
  <2> QED
    BY <2>1, <2>4, ElementOfSeq
<1>2. Locks!Last(saved[c]) = s /\ Locks!Front(saved[c]) = <<>>
  BY <1>1 DEF Locks!Last, Locks!Front, CpusInv, Locks!TypeOK
<1>3. /\ at' = [at EXCEPT ![c] = s.pc] /\ eflags' = [eflags EXCEPT ![c] = s.eflags]
      /\ want' = [want EXCEPT ![c] = s.want] /\ saved' = [saved EXCEPT ![c] = <<>>]
      /\ ifl' = [ifl EXCEPT ![c] = TRUE] /\ UNCHANGED <<owner, ncli, intena>>
      /\ at[c] = "run" /\ Locks!Held(c) = {} /\ saved[c] # <<>>
  BY <1>2 DEF Locks!Iret, Locks!Goto
<1>4. Locks!TypeOK'
  <2>1. s.pc \in {"run", "cli"} /\ s.eflags \in BOOLEAN /\ s.want \in Locks!Lock
    BY <1>1
  <2> HIDE DEF s
  <2>2. eflags' \in [Cpu -> BOOLEAN] /\ ifl' \in [Cpu -> BOOLEAN]
    BY <1>3, <2>1 DEF CpusInv, Locks!TypeOK
  <2>3. saved' \in [Cpu -> Seq(R)]
    <3>1. saved \in [Cpu -> Seq(R)]
      BY DEF CpusInv, Locks!TypeOK
    <3> HIDE DEF R
    <3>2. <<>> \in Seq(R)
      BY EmptySeq
    <3> QED
      BY <1>3, <3>1, <3>2
  <2> QED
    BY <1>3, <2>1, <2>2, <2>3 DEF CpusInv, Locks!TypeOK
<1>5. ASSUME NEW d \in Cpu PROVE CpuInv(d)'
  <2>1. Locks!Held(d)' = Locks!Held(d)
    BY <1>3 DEF Locks!Held
  <2>2. CASE d = c
    <3>1. /\ at'[c] = s.pc /\ eflags'[c] = s.eflags /\ saved'[c] = <<>> /\ ifl'[c]
          /\ ncli'[c] = ncli[c]
      BY <1>3 DEF CpusInv, Locks!TypeOK
    <3>2. s.pc = "cli" => s.eflags
      BY <1>3 DEF CpusInv, CpuInv
    <3>3. ncli[c] = Cardinality(Locks!Held(c)) + 0
      BY <1>3 DEF CpusInv, CpuInv, InLock
    <3>4. s.pc \in {"run", "cli"} /\ s.eflags \in BOOLEAN
      BY <1>1
    <3> HIDE DEF s
    <3>5. Locks!Held(c)' = {} /\ ~Busy(c)'
      <4>1. Locks!Held(c)' = {}
        BY <1>3 DEF Locks!Held
      <4> QED
        BY <3>1, <3>4, <4>1 DEF Busy, InLock
    <3>6. Len(<<>>) = 0
      BY EmptySeq
    <3>7. Cardinality(Locks!Held(c)') = Cardinality(Locks!Held(c))
      BY <1>3, <3>5
    <3>8. CpuInv(c)'
      BY <1>3, <3>1, <3>2, <3>3, <3>4, <3>5, <3>6, <3>7 DEF CpuInv, InLock
    <3> QED
      BY <2>2, <3>8
  <2>3. CASE d # c
    BY <1>3, <2>1, <2>3, CpusKeep DEF CpusInv, Locks!TypeOK
  <2> QED
    BY <2>2, <2>3
<1> QED
  BY <1>4, <1>5 DEF CpusInv

LEMMA CpusNextInv == CpusInv /\ [Locks!Next]_Locks!vars => CpusInv'
<1> SUFFICES ASSUME CpusInv, [Locks!Next]_Locks!vars PROVE CpusInv'
  OBVIOUS
<1>1. CASE UNCHANGED Locks!vars
  <2>1. Locks!TypeOK'
    BY <1>1 DEF Locks!vars, CpusInv, Locks!TypeOK
  <2>2. ASSUME NEW d \in Cpu PROVE CpuInv(d)'
    <3>1. Locks!Held(d)' = Locks!Held(d)
      BY <1>1 DEF Locks!vars, Locks!Held
    <3> QED
      BY <1>1, <3>1, CpusKeep DEF Locks!vars, CpusInv
  <2> QED
    BY <2>1, <2>2 DEF CpusInv
<1>2. CASE Locks!Next
  BY <1>2, AcquireInv, CliInv, XchgInv, ReleaseInv, PopcliInv, InterruptInv, IretInv DEF Locks!Next
<1> QED
  BY <1>1, <1>2

(* The invariant holds in every behaviour of spinlock.c.                    *)
THEOREM CpusInvariance == Locks!Spec => []CpusInv
BY CpusInitInv, CpusNextInv, PTL DEF Locks!Spec

-----------------------------------------------------------------------------
(* The counters, flags and saved contexts keep their types, however many     *)
(* CPUs and locks there are and however interrupts nest.                    *)
THEOREM CpuTypeCorrect == Locks!Spec => []Locks!TypeOK
BY CpusInvariance, PTL DEF CpusInv

(* spinlock.c:27: no handler runs on a CPU that holds a lock or spins for     *)
(* one, no panic() is reached, and popcli() leaves interrupts as the         *)
(* outermost pushcli() found them.                                          *)
THEOREM HandlersHoldNoLock == Locks!Spec => []LocksAreQuiet
<1>1. ASSUME CpusInv PROVE LocksAreQuiet
  <2> SUFFICES ASSUME NEW c \in Cpu
               PROVE  /\ at[c] # "panic"
                      /\ Locks!Held(c) # {} \/ at[c] = "spin" => ~ifl[c]
                      /\ at[c] = "run" /\ Locks!Held(c) = {} => ncli[c] = 0 /\ ifl[c] = (saved[c] = <<>>)
    BY DEF LocksAreQuiet, Locks!LocksAreQuiet
  <2>1. CpuInv(c) /\ ifl[c] \in BOOLEAN
    BY <1>1 DEF CpusInv, Locks!TypeOK
  <2>2. Locks!Held(c) = {} => Cardinality(Locks!Held(c)) = 0
    BY FS_EmptySet
  <2> QED
    BY <2>1, <2>2 DEF CpuInv, Busy, InLock
<1> QED
  BY <1>1, CpusInvariance, PTL

(* No interrupt comes in while another is handled: Depth is no restriction.  *)
THEOREM InterruptsDoNotNest == Locks!Spec => [](\A c \in Cpu : Len(saved[c]) <= 1)
<1>1. CpusInv => \A c \in Cpu : Len(saved[c]) <= 1
  BY DEF CpusInv, CpuInv
<1> QED
  BY <1>1, CpusInvariance, PTL

-----------------------------------------------------------------------------
(* The heap of a program.                                                  *)
(* A header is at each address with a size: blocks given out and members of  *)
(* the free list.  base, at 0, has none and is always a member.             *)
Header == {a \in Heap!Addr : size[a] > 0}
Member == {a \in Heap!Addr : a = 0 \/ (size[a] > 0 /\ a \notin used)}

HeapTypes ==
  /\ ptr \in [Heap!Addr -> Heap!Addr] /\ size \in [Heap!Addr -> Nat]
  /\ brk \in 1..MaxBrk /\ freep \in Member
  /\ used \subseteq Header /\ size[0] = 0

(* The headers divide the heap up to top: each block ends where the next     *)
(* begins.                                                                 *)
Tiled(sz, top) ==
  /\ \A a \in Heap!Addr : sz[a] > 0 => /\ a + sz[a] <= top
                                       /\ a + sz[a] = top \/ (a + sz[a] \in Heap!Addr /\ sz[a + sz[a]] > 0)
  /\ \A a, c \in Heap!Addr : sz[a] > 0 /\ sz[c] > 0 /\ a < c => a + sz[a] <= c
  /\ top > 1 => 1 \in Heap!Addr /\ sz[1] > 0

(* Each member names the next one by address, the last one names base.      *)
Sorted ==
  \A a \in Member :
    /\ ptr[a] \in Member
    /\ \/ ptr[a] > a /\ \A m \in Member : m <= a \/ m >= ptr[a]
       \/ ptr[a] = 0 /\ \A m \in Member : m <= a

(* Free neighbours are joined.                                             *)
Joined == \A a \in Member : a # 0 => a + size[a] \notin Member

HeapInv == HeapTypes /\ Tiled(size, brk) /\ Sorted /\ Joined

LEMMA HeapConstants ==
  /\ MaxBrk \in Nat \ {0} /\ Chunk \in Nat /\ Requests \subseteq Nat \ {0}
  /\ Heap!Addr = 0..(MaxBrk - 1) /\ 0 \in Heap!Addr
BY HeapLimits DEF Heap!HeapAssumption, Heap!Addr

(* UserAlloc's Min and Cardinality.                                        *)
LEMMA HeapMin ==
  ASSUME NEW S, S \subseteq Nat, S # {}
  PROVE  Heap!Min(S) \in S /\ \A y \in S : Heap!Min(S) <= y
<1>1. \E x \in S : \A y \in S : x =< y
  BY LeastElement
<1> QED
  BY <1>1, Zenon DEF Heap!Min

LEMMA HeapCardinality == ASSUME NEW S PROVE Heap!Cardinality(S) = Cardinality(S)
BY DEF Heap!Cardinality, Cardinality

-----------------------------------------------------------------------------
(* A set of numbers that is closed under the successor has all of them.     *)
LEMMA Inductive ==
  ASSUME NEW S, 0 \in S, \A n \in Nat : n \in S => n + 1 \in S
  PROVE  Nat \subseteq S
<1>1. SUFFICES ASSUME Nat \ S # {} PROVE FALSE
  OBVIOUS
<1>2. PICK x \in Nat \ S : \A y \in Nat \ S : x <= y
  <2>1. Nat \ S \subseteq Nat
    OBVIOUS
  <2> QED
    BY <1>1, <2>1, LeastElement
<1>3. x # 0
  BY <1>2
<1>4. x - 1 \in Nat /\ (x - 1) + 1 = x
  BY <1>2, <1>3
<1>5. x - 1 \in S
  BY <1>2, <1>4
<1>6. x \in S
  BY <1>4, <1>5
<1> QED
  BY <1>2, <1>6

(* The walk from a follows ptr.                                            *)
LEMMA WalkFollows ==
  ASSUME ptr \in [Heap!Addr -> Heap!Addr], NEW a \in Heap!Addr
  PROVE  /\ Heap!Walk(a) \in [Heap!Addr -> Heap!Addr] /\ Heap!Walk(a)[0] = a
         /\ \A k \in Heap!Addr : k > 0 => k - 1 \in Heap!Addr /\ Heap!Walk(a)[k] = ptr[Heap!Walk(a)[k - 1]]
<1> DEFINE Part(n) == [0..n -> Heap!Addr]
           Good(f, n) == f[0] = a /\ \A k \in 1..n : f[k] = ptr[f[k - 1]]
           S == {n \in Nat : \E f \in Part(n) : Good(f, n)}
           Def(f) == f = [k \in Heap!Addr |-> IF k = 0 THEN a ELSE ptr[f[k - 1]]]
<1>0. MaxBrk \in Nat \ {0} /\ Heap!Addr = 0..(MaxBrk - 1) /\ 0 \in Heap!Addr
  BY HeapConstants
<1>1. 0 \in S
  <2>1. [k \in 0..0 |-> a] \in Part(0) /\ Good([k \in 0..0 |-> a], 0)
    OBVIOUS
  <2> QED
    BY <2>1
<1>2. ASSUME NEW n \in Nat, n \in S PROVE n + 1 \in S
  <2>1. PICK f \in Part(n) : Good(f, n)
    BY <1>2
  <2> DEFINE g == [k \in 0..(n + 1) |-> IF k <= n THEN f[k] ELSE ptr[f[n]]]
  <2>2. f[n] \in Heap!Addr
    BY <2>1
  <2>3. g \in Part(n + 1)
    BY <2>1, <2>2
  <2>4. \A k \in 1..(n + 1) : g[k] = ptr[g[k - 1]]
    <3> TAKE k \in 1..(n + 1)
    <3>1. CASE k <= n
      BY <3>1, <2>1
    <3>2. CASE k = n + 1
      BY <3>2, <2>1
    <3> QED
      BY <3>1, <3>2
  <2>5. g[0] = a
    BY <2>1
  <2> HIDE DEF g
  <2>6. \E h \in Part(n + 1) : Good(h, n + 1)
    BY <2>3, <2>4, <2>5
  <2> QED
    BY <2>6
<1>3. Nat \subseteq S
  <2> HIDE DEF S
  <2> QED
    BY <1>1, <1>2, Inductive
<1>4. \E f : Def(f)
  <2>0. MaxBrk - 1 \in S
    <3> HIDE DEF S
    <3> QED
      BY <1>0, <1>3
  <2>1. PICK f \in Part(MaxBrk - 1) : Good(f, MaxBrk - 1)
    BY <2>0
  <2>2. f \in [Heap!Addr -> Heap!Addr] /\ f[0] = a /\ \A k \in 1..(MaxBrk - 1) : f[k] = ptr[f[k - 1]]
    BY <2>1, <1>0
  <2>3. \A k \in Heap!Addr : f[k] = IF k = 0 THEN a ELSE ptr[f[k - 1]]
    <3> TAKE k \in Heap!Addr
    <3>1. CASE k = 0
      BY <3>1, <2>2
    <3>2. CASE k # 0
      <4>1. k \in 1..(MaxBrk - 1)
        BY <3>2, <1>0
      <4> QED
        BY <4>1, <2>2, <3>2
    <3> QED
      BY <3>1, <3>2
  <2>4. Def(f)
    BY <2>2, <2>3
  <2> QED
    BY <2>4
<1>5. Def(Heap!Walk(a))
  <2>1. Heap!Walk(a) = CHOOSE f : Def(f)
    BY DEF Heap!Walk
  <2> HIDE DEF Def
  <2> QED
    BY <1>4, <2>1
<1> DEFINE w == Heap!Walk(a)
<1> HIDE DEF w
<1>6. DOMAIN w = Heap!Addr /\ w[0] = a /\ \A k \in Heap!Addr : k > 0 => w[k] = ptr[w[k - 1]]
  <2>1. w = [k \in Heap!Addr |-> IF k = 0 THEN a ELSE ptr[w[k - 1]]]
    BY <1>5 DEF w
  <2>2. DOMAIN w = Heap!Addr /\ \A k \in Heap!Addr : w[k] = IF k = 0 THEN a ELSE ptr[w[k - 1]]
    BY <2>1
  <2>3. \A k \in Heap!Addr : k > 0 => k # 0
    BY <1>0
  <2> QED
    BY <2>2, <2>3, <1>0
<1> DEFINE T == {n \in Nat : n \in Heap!Addr => w[n] \in Heap!Addr}
<1>7. \A n \in Nat : n \in T => n + 1 \in T
  <2> SUFFICES ASSUME NEW n \in Nat, n \in Heap!Addr => w[n] \in Heap!Addr, n + 1 \in Heap!Addr
               PROVE  w[n + 1] \in Heap!Addr
    OBVIOUS
  <2>1. n \in Heap!Addr /\ n + 1 > 0 /\ (n + 1) - 1 = n
    BY <1>0
  <2>2. w[n] \in Heap!Addr /\ w[n + 1] = ptr[w[n]]
    BY <2>1, <1>6
  <2> QED
    BY <2>2
<1>8. Nat \subseteq T
  <2>1. 0 \in T
    BY <1>6
  <2> HIDE DEF T
  <2> QED
    BY <1>7, <2>1, Inductive
<1>9. \A n \in Heap!Addr : w[n] \in Heap!Addr
  BY <1>8, <1>0
<1>10. w \in [Heap!Addr -> Heap!Addr]
  <2>1. w = [k \in Heap!Addr |-> IF k = 0 THEN a ELSE ptr[w[k - 1]]]
    BY <1>5 DEF w
  <2>2. w = [k \in Heap!Addr |-> w[k]]
    BY <2>1
  <2> QED
    BY <2>2, <1>9
<1>11. \A k \in Heap!Addr : k > 0 => k - 1 \in Heap!Addr
  BY <1>0
<1> QED
  BY <1>6, <1>10, <1>11 DEF w

LEMMA MembersAreAddresses ==
  /\ Member \subseteq Heap!Addr /\ 0 \in Member
  /\ \A m \in Member : m \in Nat /\ m < MaxBrk
<1>1. Member \subseteq Heap!Addr /\ 0 \in Member
  BY HeapConstants DEF Member
<1>2. \A a \in Heap!Addr : a \in Nat /\ a < MaxBrk
  BY HeapConstants
<1> QED
  BY <1>1, <1>2

(* A set of addresses has a greatest one.                                   *)
LEMMA GreatestAddress ==
  ASSUME NEW S, S \subseteq Heap!Addr, S # {}
  PROVE  \E x \in S : \A y \in S : y <= x
<1>0. MaxBrk \in Nat \ {0} /\ Heap!Addr = 0..(MaxBrk - 1)
  BY HeapConstants
<1> DEFINE T == {MaxBrk - y : y \in S}
<1>1. T \subseteq Nat /\ T # {}
  <2>1. \A y \in S : MaxBrk - y \in Nat
    BY <1>0
  <2> QED
    BY <2>1
<1>2. PICK t \in T : \A u \in T : t <= u
  <2> HIDE DEF T
  <2> QED
    BY <1>1, LeastElement
<1>3. PICK x \in S : t = MaxBrk - x
  BY <1>2
<1>4. \A y \in S : MaxBrk - y \in T
  OBVIOUS
<1>5. \A y \in S : MaxBrk - x <= MaxBrk - y
  <2> HIDE DEF T
  <2> QED
    BY <1>2, <1>3, <1>4
<1>6. \A y \in S : y \in Int /\ x \in Int /\ MaxBrk \in Int
  BY <1>0, <1>3
<1>7. \A y \in S : y <= x
  BY <1>5, <1>6
<1> QED
  BY <1>7

(* Each member but freep follows one that is nearer to freep.               *)
Far(q) == IF q >= freep THEN q - freep ELSE (MaxBrk - freep) + q

LEMMA Predecessor ==
  ASSUME HeapTypes, Sorted, NEW q \in Member
  PROVE  \E x \in Member : ptr[x] = q /\ (q # freep => Far(x) < Far(q))
<1>0. /\ MaxBrk \in Nat \ {0} /\ Heap!Addr = 0..(MaxBrk - 1) /\ Member \subseteq Heap!Addr /\ 0 \in Member
      /\ freep \in Member /\ \A m \in Member : m \in Nat /\ m < MaxBrk
  BY HeapConstants, MembersAreAddresses DEF HeapTypes
<1>1. CASE q = 0
  <2>1. PICK x \in Member : \A m \in Member : m <= x
    BY <1>0, GreatestAddress
  <2>2. ptr[x] = 0
    <3>1. ptr[x] \in Member
      BY DEF Sorted
    <3>2. ~(ptr[x] > x)
      <4>1. ptr[x] <= x /\ ptr[x] \in Nat /\ x \in Nat
        BY <2>1, <3>1, <1>0
      <4> QED
        BY <4>1
    <3> QED
      BY <3>2 DEF Sorted
  <2>3. freep <= x
    BY <2>1, <1>0
  <2>4. q # freep => Far(x) < Far(q)
    BY <2>3, <1>0, <1>1 DEF Far
  <2> QED
    BY <2>2, <2>4, <1>1
<1>2. CASE q # 0
  <2> DEFINE S == {m \in Member : m < q}
  <2>1. S \subseteq Heap!Addr /\ 0 \in S
    <3>1. 0 \in Member /\ 0 < q
      BY MembersAreAddresses, <1>2
    <3> QED
      BY <3>1, MembersAreAddresses
  <2>2. PICK x \in S : \A m \in S : m <= x
    <3> HIDE DEF S
    <3> QED
      BY <2>1, GreatestAddress
  <2>3. x \in Member /\ x < q /\ \A m \in Member : m < q => m <= x
    BY <2>2
  <2> HIDE DEF S
  <2>4. ptr[x] = q
    <3>1. /\ ptr[x] \in Member
          /\ (ptr[x] > x /\ \A m \in Member : m <= x \/ m >= ptr[x]) \/ \A m \in Member : m <= x
      BY <2>3 DEF Sorted
    <3>2. ptr[x] > x /\ q >= ptr[x]
      BY <3>1, <2>3, <1>0
    <3>3. ptr[x] < q => ptr[x] <= x
      BY <3>1, <2>3
    <3>4. ptr[x] \in Nat /\ x \in Nat /\ q \in Nat
      BY <3>1, <2>3, <1>0
    <3> QED
      BY <3>2, <3>3, <3>4
  <2>5. q # freep => Far(x) < Far(q)
    <3>1. freep < q => freep <= x
      BY <2>3, <1>0
    <3> QED
      BY <3>1, <2>3, <1>0 DEF Far
  <2> QED
    BY <2>3, <2>4, <2>5
<1> QED
  BY <1>1, <1>2

(* The walk around the list meets the members and nothing else.             *)
LEMMA WalkMeets ==
  ASSUME HeapTypes, Sorted
  PROVE  /\ \A k \in Heap!Addr : Heap!Walk(freep)[k] \in Member
         /\ \A q \in Member : \E k \in Heap!Addr : Heap!Walk(freep)[k] = q
<1> DEFINE w == Heap!Walk(freep)
<1>0. /\ MaxBrk \in Nat \ {0} /\ Heap!Addr = 0..(MaxBrk - 1) /\ Member \subseteq Heap!Addr
      /\ freep \in Member
  BY HeapConstants, MembersAreAddresses DEF HeapTypes
<1>1. w[0] = freep /\ \A k \in Heap!Addr : k > 0 => k - 1 \in Heap!Addr /\ w[k] = ptr[w[k - 1]]
  <2>1. ptr \in [Heap!Addr -> Heap!Addr] /\ freep \in Heap!Addr
    BY <1>0 DEF HeapTypes
  <2> QED
    BY <2>1, WalkFollows
<1> HIDE DEF w
<1>2. \A k \in Heap!Addr : w[k] \in Member
  <2> DEFINE T == {n \in Nat : n \in Heap!Addr => w[n] \in Member}
  <2>1. 0 \in T
    BY <1>0, <1>1
  <2>2. \A n \in Nat : n \in T => n + 1 \in T
    <3> SUFFICES ASSUME NEW n \in Nat, n \in Heap!Addr => w[n] \in Member, n + 1 \in Heap!Addr
                 PROVE  w[n + 1] \in Member
      OBVIOUS
    <3>1. n \in Heap!Addr /\ n + 1 > 0 /\ (n + 1) - 1 = n
      BY <1>0
    <3>2. w[n] \in Member /\ w[n + 1] = ptr[w[n]]
      BY <3>1, <1>1
    <3> QED
      BY <3>2 DEF Sorted
  <2>3. Nat \subseteq T
    <3> HIDE DEF T
    <3> QED
      BY <2>1, <2>2, Inductive
  <2> QED
    BY <2>3, <1>0
<1>3. \A q \in Member : Far(q) \in 0..(MaxBrk - 1) /\ (Far(q) = 0 => q = freep)
  BY <1>0 DEF Far
<1>4. \A q \in Member : \E k \in Heap!Addr : w[k] = q
  <2> DEFINE T == {n \in Nat : \A q \in Member : Far(q) <= n => \E k \in Heap!Addr : k <= Far(q) /\ w[k] = q}
  <2>1. 0 \in T
    <3> SUFFICES ASSUME NEW q \in Member, Far(q) <= 0
                 PROVE  \E k \in Heap!Addr : k <= Far(q) /\ w[k] = q
      OBVIOUS
    <3>1. Far(q) = 0 /\ q = freep
      BY <1>3
    <3>2. 0 \in Heap!Addr /\ 0 <= Far(q) /\ w[0] = q
      BY <3>1, <1>0, <1>1
    <3> QED
      BY <3>2
  <2>2. \A n \in Nat : n \in T => n + 1 \in T
    <3> SUFFICES ASSUME NEW n \in Nat, n \in T, NEW q \in Member, Far(q) <= n + 1
                 PROVE  \E k \in Heap!Addr : k <= Far(q) /\ w[k] = q
      OBVIOUS
    <3>1. CASE q = freep
      <4>1. 0 \in Heap!Addr /\ 0 <= Far(q) /\ w[0] = q
        BY <3>1, <1>0, <1>1, <1>3
      <4> QED
        BY <4>1
    <3>2. CASE q # freep
      <4>1. PICK x \in Member : ptr[x] = q /\ Far(x) < Far(q)
        BY <3>2, Predecessor
      <4>2. Far(x) <= n
        BY <4>1, <1>3
      <4>3. PICK k \in Heap!Addr : k <= Far(x) /\ w[k] = x
        BY <4>2
      <4>4. k + 1 \in Heap!Addr /\ k + 1 > 0 /\ (k + 1) - 1 = k /\ k + 1 <= Far(q)
        BY <4>1, <4>3, <1>3, <1>0
      <4>5. w[k + 1] = q
        BY <4>4, <4>3, <4>1, <1>1
      <4> QED
        BY <4>4, <4>5
    <3> QED
      BY <3>1, <3>2
  <2>3. Nat \subseteq T
    <3> HIDE DEF T
    <3> QED
      BY <2>1, <2>2, Inductive
  <2>4. MaxBrk - 1 \in T
    <3> HIDE DEF T
    <3> QED
      BY <2>3, <1>0
  <2>5. \A q \in Member : Far(q) <= MaxBrk - 1 => \E k \in Heap!Addr : k <= Far(q) /\ w[k] = q
    BY <2>4
  <2> HIDE DEF T
  <2> QED
    BY <2>5, <1>3, <1>0
<1> QED
  BY <1>2, <1>4 DEF w

LEMMA FreeListIs ==
  ASSUME HeapTypes, Sorted
  PROVE  Heap!FreeList = Member
BY WalkMeets DEF Heap!FreeList

(* HeapPartition in terms of the members.                                   *)
LEMMA OneBlock ==
  ASSUME HeapTypes, Tiled(size, brk), NEW x \in 1..(brk - 1)
  PROVE  Cardinality({b \in Header : b <= x /\ x < b + size[b]}) = 1
<1>0. /\ MaxBrk \in Nat \ {0} /\ Heap!Addr = 0..(MaxBrk - 1) /\ brk \in 1..MaxBrk /\ size \in [Heap!Addr -> Nat]
  BY HeapConstants DEF HeapTypes
<1> DEFINE S == {b \in Header : b <= x}
<1>1. S \subseteq Heap!Addr /\ 1 \in S
  BY <1>0 DEF Tiled, Header
<1>2. PICK b \in S : \A c \in S : c <= b
  <2> HIDE DEF S
  <2> QED
    BY <1>1, GreatestAddress
<1>3. b \in Heap!Addr /\ size[b] > 0 /\ b <= x /\ \A c \in Heap!Addr : size[c] > 0 /\ c <= x => c <= b
  BY <1>2 DEF Header
<1> HIDE DEF S
<1>4. b \in Nat /\ size[b] \in Nat /\ x \in Nat /\ x < brk /\ brk \in Nat
  BY <1>3, <1>0
<1>5. x < b + size[b]
  <2> SUFFICES ASSUME b + size[b] <= x PROVE FALSE
    BY <1>4
  <2>1. b + size[b] \in Heap!Addr /\ size[b + size[b]] > 0
    BY <1>3, <1>4 DEF Tiled
  <2>2. b + size[b] <= b
    BY <2>1, <1>3
  <2> QED
    BY <2>2, <1>3, <1>4
<1>6. \A c \in Header : c <= x /\ x < c + size[c] => c = b
  <2> SUFFICES ASSUME NEW c \in Heap!Addr, size[c] > 0, c <= x, x < c + size[c] PROVE c = b
    BY DEF Header
  <2>1. c <= b /\ c \in Nat /\ size[c] \in Nat
    BY <1>3, <1>0
  <2>2. c < b => c + size[c] <= b
    BY <1>3 DEF Tiled
  <2> QED
    BY <2>1, <2>2, <1>4, <1>3
<1>7. {c \in Header : c <= x /\ x < c + size[c]} = {b}
  BY <1>3, <1>5, <1>6 DEF Header
<1> QED
  BY <1>7, FS_Singleton

LEMMA PartitionByInv == HeapInv => HeapPartition
<1> SUFFICES ASSUME HeapInv PROVE HeapPartition
  OBVIOUS
<1>0. /\ MaxBrk \in Nat \ {0} /\ Heap!Addr = 0..(MaxBrk - 1) /\ size \in [Heap!Addr -> Nat] /\ size[0] = 0
      /\ Member \subseteq Heap!Addr /\ \A m \in Member : m \in Nat
  BY HeapConstants, MembersAreAddresses DEF HeapInv, HeapTypes
<1>1. Heap!FreeList = Member
  BY FreeListIs DEF HeapInv
<1>2. Heap!Blocks = Header
  <2>1. \A a \in Heap!Addr : size[a] > 0 => a # 0
    BY <1>0
  <2>2. used \subseteq Header
    BY DEF HeapInv, HeapTypes
  <2>3. Member \ {0} = Header \ used
    BY <2>1 DEF Member, Header
  <2> QED
    BY <1>1, <2>2, <2>3 DEF Heap!Blocks
<1>3. used \cap Heap!FreeList = {} /\ 0 \in Heap!FreeList
  BY <1>1, <1>0 DEF Member, HeapInv, HeapTypes, Header
<1>4. \A x \in 1..(brk - 1) : Cardinality({b \in Heap!Blocks : b <= x /\ x < b + size[b]}) = 1
  BY <1>2, OneBlock DEF HeapInv
<1>5. \A b \in Heap!Blocks : size[b] > 0 /\ b + size[b] <= brk
  BY <1>2 DEF HeapInv, Tiled, Header
<1>6. \A b \in Heap!FreeList : \A q \in Heap!FreeList : b + size[b] # q \/ b = 0
  BY <1>1 DEF HeapInv, Joined
<1>7. Cardinality({p \in Heap!FreeList : ptr[p] <= p}) = 1
  <2>1. 0 \in Member
    BY <1>1, <1>3
  <2>2. PICK x \in Member : \A m \in Member : m <= x
    BY <2>1, <1>0, GreatestAddress
  <2>3. \A m \in Member : ptr[m] \in Member /\ ptr[m] \in Nat /\ m \in Nat
    BY <1>0 DEF HeapInv, Sorted
  <2>4. \A m \in Member : ptr[m] <= m => m = x
    <3> TAKE m \in Member
    <3>1. ptr[m] > m \/ \A k \in Member : k <= m
      BY DEF HeapInv, Sorted
    <3>2. (\A k \in Member : k <= m) => m = x
      BY <2>2, <2>3
    <3> QED
      BY <3>1, <3>2, <2>3
  <2>5. ptr[x] <= x
    BY <2>2, <2>3
  <2>6. {p \in Heap!FreeList : ptr[p] <= p} = {x}
    BY <1>1, <2>2, <2>4, <2>5
  <2> QED
    BY <2>6, FS_Singleton
<1> QED
  BY <1>3, <1>4, <1>5, <1>6, <1>7, HeapCardinality DEF HeapPartition, Heap!HeapPartition

LEMMA HeapInit == Heap!Init => HeapInv
<1> SUFFICES ASSUME Heap!Init PROVE HeapInv
  OBVIOUS
<1>0. MaxBrk \in Nat \ {0} /\ Heap!Addr = 0..(MaxBrk - 1) /\ 0 \in Heap!Addr
  BY HeapConstants
<1>1. Member = {0} /\ \A a \in Heap!Addr : size[a] = 0 /\ ptr[a] = 0
  BY <1>0 DEF Heap!Init, Member
<1>2. HeapTypes
  BY <1>0, <1>1 DEF Heap!Init, HeapTypes
<1>3. Tiled(size, brk)
  BY <1>1 DEF Heap!Init, Tiled
<1>4. Sorted /\ Joined
  BY <1>1, <1>0 DEF Sorted, Joined
<1> QED
  BY <1>2, <1>3, <1>4 DEF HeapInv

(* free() finds the member below the block that goes back: the only one      *)
(* whose successor is above the block or at the wrap.                       *)
Above(b, p) ==
  /\ p \in Member /\ ptr[p] \in Member /\ p < b
  /\ ptr[p] = 0 \/ ptr[p] > b
  /\ \A m \in Member : m <= p \/ (ptr[p] # 0 /\ m >= ptr[p])

LEMMA FitsAbove ==
  ASSUME HeapTypes, Sorted, NEW b \in Heap!Addr, b \notin Member, NEW p \in Member
  PROVE  Heap!Fits(b, p) <=> Above(b, p)
<1>0. b \in Nat /\ b > 0 /\ p \in Nat /\ ptr[p] \in Nat /\ ptr[p] \in Member /\ 0 \in Member
  <2>1. 0 \in Member /\ ptr[p] \in Member /\ b # 0
    BY MembersAreAddresses DEF Sorted
  <2>2. b \in Nat
    BY HeapConstants
  <2>3. \A m \in Member : m \in Nat
    BY MembersAreAddresses
  <2>4. p \in Nat /\ ptr[p] \in Nat
    BY <2>1, <2>3
  <2> QED
    BY <2>1, <2>2, <2>4
<1>1. \A m \in Member : m \in Nat
  BY MembersAreAddresses
<1>2. \/ ptr[p] > p /\ \A m \in Member : m <= p \/ m >= ptr[p]
      \/ ptr[p] = 0 /\ \A m \in Member : m <= p
  BY DEF Sorted
<1>3. CASE ptr[p] > p
  BY <1>0, <1>1, <1>2, <1>3 DEF Heap!Fits, Above
<1>4. CASE ptr[p] = 0 /\ \A m \in Member : m <= p
  BY <1>0, <1>1, <1>4 DEF Heap!Fits, Above
<1> QED
  BY <1>2, <1>3, <1>4

LEMMA PlaceFound ==
  ASSUME HeapTypes, Sorted, NEW b \in Heap!Addr, b \notin Member
  PROVE  Above(b, Heap!Walk(freep)[Heap!Min({j \in Heap!Addr : Heap!Fits(b, Heap!Walk(freep)[j])})])
<1> DEFINE w == Heap!Walk(freep)
           J == {j \in Heap!Addr : Heap!Fits(b, w[j])}
<1>0. (\A k \in Heap!Addr : w[k] \in Member) /\ \A q \in Member : \E k \in Heap!Addr : w[k] = q
  BY WalkMeets
<1>a. \A p \in Member : Heap!Fits(b, p) <=> Above(b, p)
  BY FitsAbove
<1> HIDE DEF w
<1>1. \E p \in Member : Above(b, p)
  <2> DEFINE S == {m \in Member : m < b}
  <2>0. b \in Nat /\ b > 0 /\ \A m \in Member : m \in Nat
    BY MembersAreAddresses, HeapConstants
  <2>1. S \subseteq Heap!Addr /\ 0 \in S
    BY MembersAreAddresses, <2>0
  <2>2. PICK p \in S : \A m \in S : m <= p
    <3> HIDE DEF S
    <3> QED
      BY <2>1, GreatestAddress
  <2>3. p \in Member /\ p < b /\ \A m \in Member : m < b => m <= p
    BY <2>2
  <2> HIDE DEF S
  <2>4. /\ ptr[p] \in Member
        /\ \/ ptr[p] > p /\ \A m \in Member : m <= p \/ m >= ptr[p]
           \/ ptr[p] = 0 /\ \A m \in Member : m <= p
    BY <2>3 DEF Sorted
  <2>5. ptr[p] > p => ptr[p] > b
    <3>1. ptr[p] > p => ~(ptr[p] < b)
      BY <2>3, <2>4, <2>0
    <3>2. ptr[p] # b
      BY <2>4
    <3> QED
      BY <3>1, <3>2, <2>4, <2>0
  <2>6. Above(b, p)
    BY <2>3, <2>4, <2>5, <2>0 DEF Above
  <2> QED
    BY <2>6, <2>3
<1>2. J # {} /\ J \subseteq Nat
  <2>1. PICK p \in Member : Above(b, p)
    BY <1>1
  <2>2. PICK k \in Heap!Addr : w[k] = p
    BY <1>0
  <2>3. Heap!Fits(b, w[k])
    BY <2>1, <2>2, <1>a
  <2> QED
    BY <2>3, HeapConstants
<1> DEFINE j == Heap!Min(J)
<1>3. j \in J
  <2> HIDE DEF J
  <2> QED
    BY <1>2, HeapMin
<1> HIDE DEF j
<1>4. Heap!Fits(b, w[j]) /\ w[j] \in Member
  BY <1>3, <1>0
<1>5. Above(b, w[j])
  BY <1>4, <1>a
<1> QED
  BY <1>5 DEF j, w

(* What free() does to the headers.  p is the member below the block, q the  *)
(* one after it.                                                           *)
LEMMA InsertEffect ==
  ASSUME HeapTypes, Sorted, NEW b \in Heap!Addr, b \notin Member, NEW n \in Nat \ {0}, Heap!Insert(b, n)
  PROVE  \E p, q \in Member :
           LET up == b + n = q
               down == p + size[p] = b
               total == IF up THEN n + size[q] ELSE n
               next == IF up THEN ptr[q] ELSE q IN
           /\ Above(b, p) /\ q = ptr[p] /\ freep' = p
           /\ size' \in [Heap!Addr -> Nat] /\ ptr' \in [Heap!Addr -> Heap!Addr]
           /\ size'[b] = (IF down THEN 0 ELSE total)
           /\ size'[p] = (IF down THEN size[p] + total ELSE size[p])
           /\ \A a \in Heap!Addr : a # b /\ a # p => size'[a] = IF up /\ a = q THEN 0 ELSE size[a]
           /\ ~down => ptr'[b] = next
           /\ ptr'[p] = (IF down THEN next ELSE b)
           /\ \A a \in Heap!Addr : a # b /\ a # p /\ ~(up /\ a = q) => ptr'[a] = ptr[a]
<1> DEFINE p == Heap!Walk(freep)[Heap!Min({j \in Heap!Addr : Heap!Fits(b, Heap!Walk(freep)[j])})]
           q == ptr[p]
           up == b + n = q
           down == p + size[p] = b
           total == IF up THEN n + size[q] ELSE n
           next == IF up THEN ptr[q] ELSE q
           gone == (IF up THEN {q} ELSE {}) \cup (IF down THEN {b} ELSE {})
           sz == [size EXCEPT ![b] = total, ![p] = IF down THEN @ + total ELSE @]
           pt == [ptr EXCEPT ![b] = next, ![p] = IF down THEN next ELSE b]
<1>1. Above(b, p)
  BY PlaceFound
<1>2. /\ size' = [a \in Heap!Addr |-> IF a \in gone THEN 0 ELSE sz[a]]
      /\ ptr' = [a \in Heap!Addr |-> IF a \in gone THEN 0 ELSE pt[a]]
      /\ freep' = p
  BY DEF Heap!Insert, Heap!JoinsUpper, Heap!Dead
<1> HIDE DEF p
<1>3. p \in Member /\ q \in Member /\ p \in Heap!Addr /\ q \in Heap!Addr /\ ptr[q] \in Heap!Addr /\ p # b /\ (up => p # q)
  <2>1. p \in Member /\ q \in Member /\ p < b
    BY <1>1 DEF Above
  <2>2. p \in Nat /\ q \in Nat /\ b \in Nat /\ p \in Heap!Addr /\ q \in Heap!Addr
    <3>1. b \in Nat
      BY HeapConstants
    <3>2. \A m \in Member : m \in Nat /\ m \in Heap!Addr
      BY MembersAreAddresses
    <3> QED
      BY <3>1, <3>2, <2>1
  <2>3. ptr[q] \in Heap!Addr
    BY <2>2 DEF HeapTypes
  <2> QED
    BY <2>1, <2>2, <2>3
<1>5. size \in [Heap!Addr -> Nat] /\ ptr \in [Heap!Addr -> Heap!Addr] /\ 0 \in Heap!Addr
  BY HeapConstants DEF HeapTypes
<1>6. total \in Nat /\ next \in Heap!Addr /\ total \in Int
  BY <1>3, <1>5
<1> HIDE DEF total, next, up, down, q
<1>7. sz \in [Heap!Addr -> Nat] /\ pt \in [Heap!Addr -> Heap!Addr]
  BY <1>3, <1>5, <1>6
<1>8. /\ sz[b] = total
      /\ sz[p] = IF down THEN size[p] + total ELSE size[p]
      /\ \A a \in Heap!Addr : a # b /\ a # p => sz[a] = size[a]
      /\ pt[b] = next
      /\ pt[p] = IF down THEN next ELSE b
      /\ \A a \in Heap!Addr : a # b /\ a # p => pt[a] = ptr[a]
  BY <1>3, <1>5
<1> HIDE DEF sz, pt
<1>9. size' \in [Heap!Addr -> Nat] /\ ptr' \in [Heap!Addr -> Heap!Addr]
  BY <1>2, <1>5, <1>7
<1>10. p \notin gone /\ (b \in gone <=> down)
  <2>1. up => q # b
    BY <1>3
  <2> QED
    BY <2>1, <1>3
<1>11. \A a \in Heap!Addr : a # b => (a \in gone <=> up /\ a = q)
  OBVIOUS
<1>12. /\ size'[b] = (IF down THEN 0 ELSE total)
       /\ size'[p] = (IF down THEN size[p] + total ELSE size[p])
       /\ \A a \in Heap!Addr : a # b /\ a # p => size'[a] = IF up /\ a = q THEN 0 ELSE size[a]
  BY <1>2, <1>3, <1>8, <1>10, <1>11
<1>13. /\ ~down => ptr'[b] = next
       /\ ptr'[p] = (IF down THEN next ELSE b)
       /\ \A a \in Heap!Addr : a # b /\ a # p /\ ~(up /\ a = q) => ptr'[a] = ptr[a]
  BY <1>2, <1>3, <1>8, <1>10, <1>11
<1> HIDE DEF gone
<1>14. /\ Above(b, p) /\ q = ptr[p] /\ freep' = p
  BY <1>1, <1>2 DEF q
<1> p \in Member /\ q \in Member
  BY <1>3
<1> WITNESS p \in Member, q \in Member
<1> QED
  BY <1>9, <1>12, <1>13, <1>14 DEF up, down, total, next

(* free() keeps the order of the members, the blocks and the joining.  The   *)
(* block that goes back is a header already (sz), below top.                *)
LEMMA InsertKeeps ==
  ASSUME HeapTypes, Sorted, Joined, NEW b \in Heap!Addr, b \notin Member, NEW n \in Nat \ {0},
         NEW top \in Nat, Tiled([size EXCEPT ![b] = n], top), Heap!Insert(b, n), used' = used \ {b}
  PROVE  /\ ptr' \in [Heap!Addr -> Heap!Addr] /\ size' \in [Heap!Addr -> Nat] /\ freep' \in Member'
         /\ used' \subseteq Header' /\ size'[0] = 0
         /\ Tiled(size', top) /\ Sorted' /\ Joined'
<1> DEFINE sz == [size EXCEPT ![b] = n]
<1>1. PICK p \in Member, q \in Member :
           LET up == b + n = q
               down == p + size[p] = b
               total == IF up THEN n + size[q] ELSE n
               next == IF up THEN ptr[q] ELSE q IN
           /\ Above(b, p) /\ q = ptr[p] /\ freep' = p
           /\ size' \in [Heap!Addr -> Nat] /\ ptr' \in [Heap!Addr -> Heap!Addr]
           /\ size'[b] = (IF down THEN 0 ELSE total)
           /\ size'[p] = (IF down THEN size[p] + total ELSE size[p])
           /\ \A a \in Heap!Addr : a # b /\ a # p => size'[a] = IF up /\ a = q THEN 0 ELSE size[a]
           /\ ~down => ptr'[b] = next
           /\ ptr'[p] = (IF down THEN next ELSE b)
           /\ \A a \in Heap!Addr : a # b /\ a # p /\ ~(up /\ a = q) => ptr'[a] = ptr[a]
  BY InsertEffect
<1> DEFINE up == b + n = q
           down == p + size[p] = b
           total == IF up THEN n + size[q] ELSE n
           next == IF up THEN ptr[q] ELSE q
<1>2. /\ size' \in [Heap!Addr -> Nat] /\ ptr' \in [Heap!Addr -> Heap!Addr] /\ freep' = p
      /\ down => size'[b] = 0 /\ size'[p] = size[p] + total /\ ptr'[p] = next
      /\ ~down => size'[b] = total /\ size'[p] = size[p] /\ ptr'[p] = b /\ ptr'[b] = next
      /\ up => total = n + size[q] /\ next = ptr[q] /\ b + n = q
      /\ ~up => total = n /\ next = q /\ b + n # q
      /\ down => p + size[p] = b
      /\ ~down => p + size[p] # b
  BY <1>1
<1>3. \A a \in Heap!Addr : a # b /\ a # p =>
        /\ up /\ a = q => size'[a] = 0
        /\ ~(up /\ a = q) => size'[a] = size[a] /\ ptr'[a] = ptr[a]
  BY <1>1
<1>4. /\ q = ptr[p] /\ p < b
      /\ q = 0 \/ q > b
      /\ \A m \in Member : m <= p \/ (q # 0 /\ m >= q)
  BY <1>1 DEF Above
<1> HIDE DEF up, down, total, next
<1>5. /\ \A a \in Heap!Addr : a \in Nat
      /\ \A m \in Member : m \in Heap!Addr
      /\ 0 \in Member /\ 0 \in Heap!Addr /\ b \in Heap!Addr /\ p \in Heap!Addr /\ q \in Heap!Addr
  BY HeapConstants, MembersAreAddresses
<1>6. size \in [Heap!Addr -> Nat] /\ ptr \in [Heap!Addr -> Heap!Addr] /\ size[0] = 0 /\ used \subseteq Header
  BY DEF HeapTypes
<1>7. \A a \in Heap!Addr : a \in Member <=> a = 0 \/ (size[a] > 0 /\ a \notin used)
  BY DEF Member
<1>8. up => q # 0 /\ q # p /\ q # b /\ size[q] > 0
  <2>1. up => q # 0 /\ q > b
    BY <1>2, <1>4, <1>5
  <2> QED
    BY <2>1, <1>4, <1>5, <1>7
<1>9. b # 0 /\ p # b /\ total \in Nat /\ total >= n /\ n > 0 /\ (down => p # 0 /\ size[p] > 0)
  <2>1. b # 0 /\ p # b
    BY <1>5
  <2>2. total \in Nat /\ total >= n /\ n > 0
    BY <1>2, <1>5, <1>6
  <2>3. down => p # 0
    BY <1>2, <1>6, <2>1, <1>5
  <2> QED
    BY <2>1, <2>2, <2>3, <1>5, <1>7
(* The members are as before, with b or without what is joined.            *)
<1>10. \A a \in Heap!Addr : a \in Member' <=> (a \in Member /\ ~(up /\ a = q)) \/ (a = b /\ ~down)
  <2>0. \A a \in Heap!Addr : a \in Member' <=> a = 0 \/ (size'[a] > 0 /\ ~(a \in used /\ a # b))
    BY DEF Member, Heap!Addr
  <2> SUFFICES ASSUME NEW a \in Heap!Addr
               PROVE a \in Member' <=> (a \in Member /\ ~(up /\ a = q)) \/ (a = b /\ ~down)
    OBVIOUS
  <2>1. CASE a = b
    <3>1. down => size'[b] = 0
      BY <1>2
    <3>2. ~down => size'[b] > 0
      BY <1>2, <1>9, <1>5
    <3> QED
      BY <3>1, <3>2, <2>0, <2>1, <1>9
  <2>2. CASE a = p
    <3>1. size'[p] >= size[p]
      BY <1>2, <1>9, <1>6, <1>5
    <3>2. p # 0 => size[p] > 0 /\ p \notin used /\ size'[p] > 0
      BY <3>1, <1>7, <1>6, <1>5, <1>2
    <3> QED
      BY <3>2, <2>0, <2>2, <1>8, <1>9
  <2>3. CASE a # b /\ a # p
    BY <2>3, <2>0, <1>3, <1>7, <1>8
  <2> QED
    BY <2>1, <2>2, <2>3
<1>11. \A m \in Member' : m \in Heap!Addr
  BY DEF Member, Heap!Addr
<1>12. p \in Member' /\ 0 \in Member'
  BY <1>8, <1>9, <1>10, <1>5
(* Headers as they were, but for b, which is one.                           *)
<1>13. /\ sz[b] = n /\ \A a \in Heap!Addr : a # b => sz[a] = size[a]
       /\ \A a \in Heap!Addr : sz[a] \in Nat
  BY <1>5, <1>6
<1>14. \A a, c \in Heap!Addr : sz[a] > 0 /\ sz[c] > 0 /\ a < c => a + sz[a] <= c
  BY DEF Tiled
<1>15. \A a \in Heap!Addr : sz[a] > 0 => /\ a + sz[a] <= top
                                         /\ a + sz[a] = top \/ (a + sz[a] \in Heap!Addr /\ sz[a + sz[a]] > 0)
  BY DEF Tiled
<1>16. top > 1 => 1 \in Heap!Addr /\ sz[1] > 0
  BY DEF Tiled
<1> HIDE DEF sz
(* A header that is still there ends where it ended, or where what it took   *)
(* in ended.                                                               *)
<1>17. \A a \in Heap!Addr : size'[a] > 0 =>
         /\ sz[a] > 0 /\ ~(down /\ a = b) /\ ~(up /\ a = q)
         /\ a + size'[a] = IF (a = b \/ (down /\ a = p)) THEN b + total ELSE a + sz[a]
  <2> SUFFICES ASSUME NEW a \in Heap!Addr, size'[a] > 0
               PROVE  /\ sz[a] > 0 /\ ~(down /\ a = b) /\ ~(up /\ a = q)
                      /\ a + size'[a] = IF (a = b \/ (down /\ a = p)) THEN b + total ELSE a + sz[a]
    OBVIOUS
  <2>1. CASE a = b
    <3>1. ~down
      BY <1>2, <2>1
    <3>2. size'[a] = total /\ sz[a] = n
      BY <1>2, <1>13, <2>1, <3>1
    <3> QED
      BY <2>1, <3>1, <3>2, <1>8, <1>9
  <2>2. CASE a = p
    <3>1. sz[p] = size[p] /\ sz[p] \in Nat /\ p \in Nat
      BY <1>13, <1>9, <1>5
    <3>2. CASE down
      BY <2>2, <3>1, <3>2, <1>2, <1>8, <1>9
    <3>3. CASE ~down
      BY <2>2, <3>1, <3>3, <1>2, <1>8, <1>9
    <3> QED
      BY <3>2, <3>3
  <2>3. CASE a # b /\ a # p
    BY <2>3, <1>3, <1>13
  <2> QED
    BY <2>1, <2>2, <2>3
<1>18. b + total = IF up THEN q + sz[q] ELSE b + n
  BY <1>2, <1>8, <1>13, <1>5, <1>6
<1>19. down => sz[p] > 0 /\ p + sz[p] = b
  BY <1>2, <1>9, <1>13, <1>5
<1>20. up => sz[q] > 0 /\ b + sz[b] = q /\ b < q
  BY <1>2, <1>8, <1>13, <1>4, <1>5
<1>21. \A a \in Heap!Addr : sz[a] > 0 /\ ~(down /\ a = b) /\ ~(up /\ a = q) => size'[a] > 0
  <2> SUFFICES ASSUME NEW a \in Heap!Addr, sz[a] > 0, ~(down /\ a = b), ~(up /\ a = q)
               PROVE  size'[a] > 0
    OBVIOUS
  <2>1. CASE a = b
    BY <2>1, <1>2, <1>9, <1>5
  <2>2. CASE a = p
    <3>1. sz[p] = size[p] /\ sz[p] \in Nat
      BY <1>13, <1>9, <1>5
    <3> QED
      BY <2>2, <3>1, <1>2, <1>9
  <2>3. CASE a # b /\ a # p
    BY <2>3, <1>3, <1>13
  <2> QED
    BY <2>1, <2>2, <2>3
<1>22. Tiled(size', top)
  <2>1. ASSUME NEW a \in Heap!Addr, size'[a] > 0
        PROVE  /\ a + size'[a] <= top
               /\ a + size'[a] = top \/ (a + size'[a] \in Heap!Addr /\ size'[a + size'[a]] > 0)
    <3>1. CASE a = b \/ (down /\ a = p)
      <4>1. \E d \in Heap!Addr : d >= b /\ sz[d] > 0 /\ b + total = d + sz[d] /\ (d = b => ~up) /\ (up => d = q)
        <5>1. CASE up
          BY <5>1, <1>18, <1>20, <1>5
        <5>2. CASE ~up
          BY <5>2, <1>18, <1>13, <1>9, <1>5
        <5> QED
          BY <5>1, <5>2
      <4>2. PICK d \in Heap!Addr : d >= b /\ sz[d] > 0 /\ b + total = d + sz[d] /\ (d = b => ~up) /\ (up => d = q)
        BY <4>1
      <4> DEFINE r == d + sz[d]
      <4>3. r <= top /\ (r = top \/ (r \in Heap!Addr /\ sz[r] > 0))
        BY <4>2, <1>15
      <4>4. a + size'[a] = r
        BY <1>17, <2>1, <3>1, <4>2
      <4>5. r > b /\ (up => r # q)
        BY <4>2, <1>13, <1>5
      <4>6. r # b /\ ~(up /\ r = q)
        BY <4>5, <1>5
      <4> HIDE DEF r
      <4>7. r \in Heap!Addr /\ sz[r] > 0 => size'[r] > 0
        BY <4>6, <1>21
      <4> QED
        BY <4>3, <4>4, <4>7
    <3>2. CASE ~(a = b \/ (down /\ a = p))
      <4> DEFINE r == a + sz[a]
      <4>1. sz[a] > 0 /\ a + size'[a] = r /\ ~(up /\ a = q)
        BY <1>17, <2>1, <3>2
      <4>2. r <= top /\ (r = top \/ (r \in Heap!Addr /\ sz[r] > 0))
        BY <4>1, <1>15
      <4>3. ~(down /\ r = b)
        <5> SUFFICES ASSUME down, r = b PROVE FALSE
          OBVIOUS
        <5>1. a # p /\ a < b
          BY <3>2, <4>1, <1>13, <1>5
        <5>2. a < p => r <= p
          BY <4>1, <1>14, <1>19, <1>5
        <5>3. p < a => p + sz[p] <= a
          BY <4>1, <1>14, <1>19, <1>5
        <5> QED
          BY <5>1, <5>2, <5>3, <1>19, <1>4, <1>5
      <4>4. ~(up /\ r = q)
        <5> SUFFICES ASSUME up, r = q PROVE FALSE
          OBVIOUS
        <5>1. a < b => r <= b
          BY <4>1, <1>14, <1>13, <1>9, <1>5
        <5>2. b < a => b + sz[b] <= a
          BY <4>1, <1>14, <1>13, <1>9, <1>5
        <5>3. a < q
          BY <4>1, <1>13, <1>5
        <5> QED
          BY <5>1, <5>2, <5>3, <1>20, <3>2, <1>5
      <4> HIDE DEF r
      <4>5. r \in Heap!Addr /\ sz[r] > 0 => size'[r] > 0
        BY <4>3, <4>4, <1>21
      <4> QED
        BY <4>1, <4>2, <4>5
    <3> QED
      BY <3>1, <3>2
  <2>2. ASSUME NEW a \in Heap!Addr, NEW c \in Heap!Addr, size'[a] > 0, size'[c] > 0, a < c
        PROVE  a + size'[a] <= c
    <3>1. sz[a] > 0 /\ sz[c] > 0 /\ a + sz[a] <= c /\ ~(up /\ c = q) /\ ~(down /\ c = b) /\ a \in Nat /\ c \in Nat
      BY <2>2, <1>17, <1>14, <1>5
    <3>2. CASE a = b \/ (down /\ a = p)
      <4>1. a + size'[a] = b + total
        BY <1>17, <2>2, <3>2
      <4>2. b < c
        <5>1. CASE down /\ a = p
          <6>1. b <= c
            BY <5>1, <3>1, <1>19
          <6> QED
            <7>1. c # b /\ b \in Nat /\ c \in Nat
              BY <5>1, <3>1, <1>5
            <7> QED
              BY <6>1, <7>1
        <5> QED
          BY <5>1, <3>2, <2>2
      <4>3. b + n <= c
        BY <4>2, <3>1, <1>14, <1>13, <1>9, <1>5
      <4>4. up => q + sz[q] <= c
        <5>1. up => q < c
          BY <4>3, <1>20, <1>13, <3>1, <1>5
        <5> QED
          BY <5>1, <3>1, <1>14, <1>20, <1>5
      <4> QED
        BY <4>1, <4>3, <4>4, <1>18
    <3>3. CASE ~(a = b \/ (down /\ a = p))
      BY <3>1, <3>3, <1>17, <2>2
    <3> QED
      BY <3>2, <3>3
  <2>3. ASSUME top > 1 PROVE 1 \in Heap!Addr /\ size'[1] > 0
    <3>1. 1 \in Heap!Addr /\ sz[1] > 0
      BY <2>3, <1>16
    <3>2. ~(down /\ 1 = b)
      <4>1. p \in Nat /\ p < b
        BY <1>4, <1>5
      <4>2. down => p # 0
        BY <1>9
      <4> QED
        BY <4>1, <4>2
    <3>3. ~(up /\ 1 = q)
      <4>1. b \in Nat /\ b # 0 /\ (up => b < q)
        BY <1>5, <1>9, <1>20
      <4> QED
        BY <4>1
    <3> QED
      BY <3>1, <3>2, <3>3, <1>21
  <2> QED
    BY <2>1, <2>2, <2>3 DEF Tiled
<1>23. Joined'
  <2> SUFFICES ASSUME NEW a \in Member', a # 0, a + size'[a] \in Member'
               PROVE  FALSE
    BY DEF Joined
  <2> DEFINE r == a + size'[a]
  <2>1. a \in Heap!Addr /\ a \in Nat /\ r \in Heap!Addr /\ r \in Nat /\ r \in Member'
    BY <1>11, <1>5
  <2>2. size'[a] > 0
    BY <2>1 DEF Member
  <2> HIDE DEF r
  <2>3. sz[a] > 0 /\ ~(down /\ a = b) /\ ~(up /\ a = q) /\ (a # b => a \in Member)
    BY <1>17, <2>1, <2>2, <1>10
  <2>4. ~(down /\ r = b) /\ ~(up /\ r = q) /\ (r # b => r \in Member)
    BY <2>1, <1>10
  <2>5. CASE a = b \/ (down /\ a = p)
    <3>1. r = IF up THEN q + sz[q] ELSE b + n
      BY <1>17, <1>18, <2>1, <2>2, <2>5 DEF r
    <3>2. CASE up
      <4>1. r = q + size[q]
        BY <3>1, <3>2, <1>13, <1>8, <1>5
      <4>2. r \notin Member
        BY <4>1, <3>2, <1>8 DEF Joined
      <4>3. r # b
        BY <3>1, <3>2, <1>20, <1>13, <1>5
      <4> QED
        BY <4>2, <4>3, <2>4
    <3>3. CASE ~up
      <4>1. r = b + n /\ r # q /\ r > b
        BY <3>1, <3>3, <1>2, <1>9, <1>5
      <4>2. r \in Member /\ ~(r <= p)
        <5>1. r # b /\ p \in Nat /\ b \in Nat
          BY <4>1, <1>5, <2>1
        <5> QED
          BY <5>1, <4>1, <2>4, <1>4, <2>1
      <4>3. q # 0 /\ b < q /\ q < r
        BY <4>1, <4>2, <1>4, <1>5, <2>1
      <4>4. sz[q] > 0
        BY <4>3, <1>13, <1>7, <1>5
      <4>5. b + n <= q
        BY <4>3, <4>4, <1>14, <1>13, <1>9, <1>5
      <4> QED
        BY <4>1, <4>3, <4>5, <1>5
    <3> QED
      BY <3>2, <3>3
  <2>6. CASE ~(a = b \/ (down /\ a = p))
    <3>1. a \in Member /\ r = a + size[a] /\ r = a + sz[a]
      BY <1>17, <1>13, <2>1, <2>2, <2>3, <2>6 DEF r
    <3>2. r \notin Member
      BY <3>1 DEF Joined
    <3>3. r = b /\ ~down
      BY <3>2, <2>4
    <3>4. a # p
      BY <3>1, <3>3, <1>2
    <3>5. a < b
      BY <3>1, <3>3, <2>1, <2>3, <1>13
    <3>6. a < p
      BY <3>1, <3>4, <3>5, <1>4, <1>5, <2>1
    <3>7. sz[p] > 0 \/ p = 0
      BY <1>13, <1>7, <1>9, <1>5
    <3>8. r <= p
      BY <3>1, <3>6, <3>7, <2>1, <2>3, <1>14, <1>5
    <3> QED
      BY <3>3, <3>8, <1>4, <1>5
  <2> QED
    BY <2>5, <2>6
<1>24. Sorted'
  <2> SUFFICES ASSUME NEW a \in Member'
               PROVE  /\ ptr'[a] \in Member'
                      /\ \/ ptr'[a] > a /\ \A m \in Member' : m <= a \/ m >= ptr'[a]
                         \/ ptr'[a] = 0 /\ \A m \in Member' : m <= a
    BY DEF Sorted
  <2>0. \A c \in Member : /\ ptr[c] \in Member
                          /\ \/ ptr[c] > c /\ \A m \in Member : m <= c \/ m >= ptr[c]
                             \/ ptr[c] = 0 /\ \A m \in Member : m <= c
    BY DEF Sorted
  <2>1. \A m \in Member : m \in Heap!Addr /\ m \in Nat
    BY <1>5
  <2>2. \A m \in Member' : m \in Nat /\ ((m \in Member /\ ~(up /\ m = q)) \/ (m = b /\ ~down))
    BY <1>10, <1>11, <1>5
  <2>3. b \in Nat /\ p \in Nat /\ q \in Nat /\ p < b
    BY <1>4, <1>5
(* What follows p or b is the first member beyond b that is left.          *)
  <2>4. /\ next \in Member' /\ next \in Nat
        /\ next = 0 \/ next > b
        /\ \A m \in Member' : m <= p \/ m = b \/ (next # 0 /\ m >= next)
    <3>1. CASE ~up
      <4>1. next = q
        BY <3>1, <1>2
      <4>2. q \in Member'
        BY <3>1, <1>10, <1>5
      <4> QED
        BY <4>1, <4>2, <1>4, <2>2, <2>3
    <3>2. CASE up
      <4>1. next = ptr[q] /\ b < q /\ q # 0
        BY <3>2, <1>2, <1>8, <1>20
      <4>2. /\ next \in Member
            /\ \/ next > q /\ \A m \in Member : m <= q \/ m >= next
               \/ next = 0 /\ \A m \in Member : m <= q
        BY <4>1, <2>0
      <4>3. next # q /\ next # b
        BY <4>1, <4>2, <2>1, <2>3
      <4>4. next \in Member' /\ next \in Nat
        BY <4>2, <4>3, <1>10, <2>1
      <4>5. \A m \in Member' : m <= p \/ m = b \/ m > q
        <5> SUFFICES ASSUME NEW m \in Member', m # b PROVE m <= p \/ m > q
          BY <2>2, <2>3
        <5>1. m \in Member /\ m # q /\ m \in Nat
          BY <2>2, <3>2
        <5>2. m <= p \/ m >= q
          BY <5>1, <1>4
        <5> QED
          BY <5>1, <5>2, <2>3
      <4>6. \A m \in Member' : m > q => next # 0 /\ m >= next
        <5> SUFFICES ASSUME NEW m \in Member', m > q PROVE next # 0 /\ m >= next
          OBVIOUS
        <5>1. m \in Member /\ m \in Nat /\ ~(m <= q)
          BY <2>2, <4>1, <2>3
        <5> QED
          BY <5>1, <4>2, <2>3
      <4>7. next = 0 \/ next > b
        BY <4>1, <4>2, <4>4, <2>3
      <4> QED
        BY <4>4, <4>5, <4>6, <4>7
    <3> QED
      BY <3>1, <3>2
  <2>5. CASE a = b
    <3>1. ~down /\ ptr'[a] = next
      BY <2>5, <2>2, <1>2, <1>10, <1>5
    <3>2. \A m \in Member' : m <= b \/ (next # 0 /\ m >= next)
      BY <2>4, <2>2, <2>3
    <3> QED
      BY <3>1, <3>2, <2>4, <2>5
  <2>6. CASE a = p
    <3>1. CASE down
      <4>2. ptr'[a] = next
        BY <3>1, <2>6, <1>2
      <4>3. \A m \in Member' : m # b
        BY <3>1, <2>2
      <4>4. next = 0 \/ next > p
        BY <2>4, <2>3
      <4> QED
        BY <4>2, <4>3, <4>4, <2>4, <2>6
    <3>2. CASE ~down
      <4>1. ptr'[a] = b
        BY <3>2, <2>6, <1>2
      <4>2. b \in Member'
        BY <3>2, <1>10, <1>5
      <4>3. \A m \in Member' : m <= p \/ m >= b
        BY <2>4, <2>2, <2>3
      <4> QED
        BY <4>1, <4>2, <4>3, <2>3, <2>6
    <3> QED
      BY <3>1, <3>2
  <2>7. CASE a # b /\ a # p
    <3>1. a \in Member /\ ~(up /\ a = q) /\ a \in Nat /\ a \in Heap!Addr
      BY <2>2, <2>7, <2>1
    <3>2. ptr'[a] = ptr[a]
      BY <3>1, <2>7, <1>3
    <3>3. /\ ptr[a] \in Member /\ ptr[a] \in Nat
          /\ \/ ptr[a] > a /\ \A m \in Member : m <= a \/ m >= ptr[a]
             \/ ptr[a] = 0 /\ \A m \in Member : m <= a
      BY <3>1, <2>0, <2>1
    <3>4. ~(up /\ ptr[a] = q)
      <4> SUFFICES ASSUME up, ptr[a] = q PROVE FALSE
        OBVIOUS
      <4>1. q # 0 /\ a < q /\ ~(a >= q)
        BY <3>3, <1>8, <3>1, <2>3
      <4>2. a <= p
        BY <4>1, <1>4, <3>1
      <4>3. p <= a \/ p >= q
        BY <4>1, <3>3, <1>5
      <4>4. p < q
        BY <1>20, <2>3
      <4> QED
        BY <4>2, <4>3, <4>4, <3>1, <2>3, <2>7
    <3>5. ptr[a] \in Member'
      BY <3>3, <3>4, <1>10, <2>1
    <3>6. a < p \/ a > b
      BY <1>4, <3>1, <2>3, <2>7, <1>1 DEF Above
    <3>7. (ptr[a] > a /\ (b <= a \/ b >= ptr[a])) \/ (ptr[a] = 0 /\ b <= a)
      <4>1. (ptr[a] > a /\ (p <= a \/ p >= ptr[a])) \/ (ptr[a] = 0 /\ p <= a)
        BY <3>3
      <4> QED
        BY <4>1, <3>6, <3>1, <3>3, <2>3
    <3>8. CASE ptr[a] > a
      <4>1. ptr[a] # 0
        BY <3>8, <3>1
      <4>2. \A m \in Member : m <= a \/ m >= ptr[a]
        BY <4>1, <3>3
      <4>3. b <= a \/ b >= ptr[a]
        BY <4>1, <3>7
      <4>4. \A m \in Member' : m <= a \/ m >= ptr[a]
        BY <4>2, <4>3, <2>2
      <4> QED
        BY <4>4, <3>2, <3>5, <3>8
    <3>9. CASE ~(ptr[a] > a)
      <4>1. ptr[a] = 0 /\ b <= a /\ \A m \in Member : m <= a
        BY <3>9, <3>3, <3>7
      <4>2. \A m \in Member' : m <= a
        BY <4>1, <2>2
      <4> QED
        BY <4>1, <4>2, <3>2, <3>5
    <3> QED
      BY <3>8, <3>9
  <2> QED
    BY <2>5, <2>6, <2>7
<1>25. size'[0] = 0
  <2>1. CASE p = 0
    BY <2>1, <1>2, <1>6, <1>9
  <2>2. CASE p # 0
    BY <2>2, <1>3, <1>5, <1>6, <1>8, <1>9
  <2> QED
    BY <2>1, <2>2
<1>26. used' \subseteq Header'
  <2> SUFFICES ASSUME NEW a \in used, a # b PROVE a \in Heap!Addr /\ size'[a] > 0
    BY DEF Header, Heap!Addr
  <2>1. a \in Heap!Addr /\ size[a] > 0 /\ a \notin Member
    BY <1>6, <1>7 DEF Header
  <2>2. a # p /\ a # q
    BY <2>1
  <2> QED
    BY <2>1, <2>2, <1>3
<1> QED
  BY <1>2, <1>12, <1>22, <1>23, <1>24, <1>25, <1>26

LEMMA FreeBlockKeeps == HeapInv /\ (\E b \in used : Heap!FreeBlock(b)) => HeapInv'
<1> SUFFICES ASSUME HeapInv, NEW b \in used, Heap!FreeBlock(b) PROVE HeapInv'
  OBVIOUS
<1>1. HeapTypes /\ Tiled(size, brk) /\ Sorted /\ Joined
  BY DEF HeapInv
<1>2. /\ b \in Heap!Addr /\ size[b] \in Nat \ {0} /\ b \notin Member
      /\ brk \in Nat /\ brk' = brk /\ [size EXCEPT ![b] = size[b]] = size
  <2>1. size \in [Heap!Addr -> Nat] /\ used \subseteq Header /\ size[0] = 0 /\ brk \in 1..MaxBrk
    BY <1>1 DEF HeapTypes
  <2>2. b \in Heap!Addr /\ size[b] > 0
    BY <2>1 DEF Header
  <2>3. b \notin Member
    BY <2>1, <2>2 DEF Member
  <2>4. [size EXCEPT ![b] = size[b]] = size
    BY <2>1
  <2> QED
    BY <2>1, <2>2, <2>3, <2>4 DEF Heap!FreeBlock
<1>3. Heap!Insert(b, size[b]) /\ used' = used \ {b}
  BY DEF Heap!FreeBlock
<1>4. Tiled([size EXCEPT ![b] = size[b]], brk)
  BY <1>1, <1>2
<1>5. /\ ptr' \in [Heap!Addr -> Heap!Addr] /\ size' \in [Heap!Addr -> Nat] /\ freep' \in Member'
      /\ used' \subseteq Header' /\ size'[0] = 0
      /\ Tiled(size', brk) /\ Sorted' /\ Joined'
  BY <1>1, <1>2, <1>3, <1>4, InsertKeeps
<1>6. HeapTypes'
  BY <1>1, <1>2, <1>5 DEF HeapTypes, Heap!Addr
<1>7. Tiled(size, brk)'
  BY <1>2, <1>5 DEF Tiled, Heap!Addr
<1> QED
  BY <1>5, <1>6, <1>7 DEF HeapInv

LEMMA MorecoreKeeps == HeapInv /\ (\E n \in Requests : Heap!Morecore(n)) => HeapInv'
<1> SUFFICES ASSUME HeapInv, NEW n \in Requests, Heap!Morecore(n) PROVE HeapInv'
  OBVIOUS
<1> DEFINE nu == IF n < Chunk THEN Chunk ELSE n
           top == brk + nu
           sz == [size EXCEPT ![brk] = nu]
<1>1. HeapTypes /\ Tiled(size, brk) /\ Sorted /\ Joined
  BY DEF HeapInv
<1>2. brk + nu <= MaxBrk /\ Heap!Insert(brk, nu) /\ brk' = top /\ used' = used
  BY DEF Heap!Morecore
<1>3. nu \in Nat \ {0}
  BY HeapConstants
<1> HIDE DEF nu
<1>4. /\ size \in [Heap!Addr -> Nat] /\ used \subseteq Header /\ size[0] = 0 /\ brk \in 1..MaxBrk
      /\ MaxBrk \in Nat /\ Heap!Addr = 0..(MaxBrk - 1)
  BY <1>1, HeapConstants DEF HeapTypes
<1>5. brk \in Heap!Addr /\ brk \in Nat /\ brk # 0 /\ top \in Nat /\ top \in 1..MaxBrk /\ top > brk
  BY <1>2, <1>3, <1>4
<1>6. size[brk] = 0
  <2>1. size[brk] > 0 => brk + size[brk] <= brk
    BY <1>1, <1>5 DEF Tiled
  <2> QED
    BY <2>1, <1>4, <1>5
<1>7. brk \notin Member /\ brk \notin used
  <2>1. ~(size[brk] > 0)
    BY <1>6
  <2> QED
    BY <2>1, <1>4, <1>5 DEF Member, Header
<1>8. Tiled(sz, top)
  <2>0. sz[brk] = nu /\ \A a \in Heap!Addr : a # brk => sz[a] = size[a]
    BY <1>4, <1>5
  <2> HIDE DEF sz
  <2>1. \A a \in Heap!Addr : size[a] > 0 => a + size[a] <= brk /\ (a + size[a] = brk \/ (a + size[a] \in Heap!Addr /\ size[a + size[a]] > 0))
    BY <1>1 DEF Tiled
  <2>2. \A a \in Heap!Addr : a \in Nat /\ size[a] \in Nat
    BY <1>4
  <2>3. \A a \in Heap!Addr : a # brk /\ sz[a] > 0 => a < brk
    BY <2>0, <2>1, <2>2, <1>5
  <2>4. ASSUME NEW a \in Heap!Addr, sz[a] > 0
        PROVE  a + sz[a] <= top /\ (a + sz[a] = top \/ (a + sz[a] \in Heap!Addr /\ sz[a + sz[a]] > 0))
    <3>1. CASE a = brk
      BY <3>1, <2>0, <1>5
    <3>2. CASE a # brk
      <4> DEFINE r == a + size[a]
      <4>1. sz[a] = size[a] /\ r <= brk /\ (r = brk \/ (r \in Heap!Addr /\ size[r] > 0)) /\ r \in Nat
        BY <3>2, <2>0, <2>1, <2>2, <2>4
      <4> HIDE DEF r
      <4>2. r <= top
        BY <4>1, <1>5
      <4>3. r \in Heap!Addr /\ sz[r] > 0
        BY <4>1, <2>0, <1>5, <1>3, <1>6
      <4> QED
        BY <4>1, <4>2, <4>3 DEF r
    <3> QED
      BY <3>1, <3>2
  <2>5. ASSUME NEW a \in Heap!Addr, NEW c \in Heap!Addr, sz[a] > 0, sz[c] > 0, a < c
        PROVE  a + sz[a] <= c
    <3>1. a # brk
      BY <2>5, <2>3, <2>2, <1>5
    <3>2. CASE c = brk
      BY <3>1, <3>2, <2>0, <2>1, <2>5
    <3>3. CASE c # brk
      BY <3>1, <3>3, <2>0, <2>5, <1>1 DEF Tiled
    <3> QED
      BY <3>2, <3>3
  <2>6. 1 \in Heap!Addr /\ sz[1] > 0
    <3>1. CASE brk = 1
      BY <3>1, <2>0, <1>3, <1>5
    <3>2. CASE brk # 1
      <4>1. brk > 1
        BY <3>2, <1>5
      <4>2. 1 \in Heap!Addr /\ size[1] > 0
        BY <4>1, <1>1 DEF Tiled
      <4> QED
        BY <3>2, <4>2, <2>0
    <3> QED
      BY <3>1, <3>2
  <2> QED
    BY <2>4, <2>5, <2>6 DEF Tiled
<1>9. used' = used \ {brk}
  BY <1>2, <1>7
<1> HIDE DEF top
<1>10. /\ ptr' \in [Heap!Addr -> Heap!Addr] /\ size' \in [Heap!Addr -> Nat] /\ freep' \in Member'
       /\ used' \subseteq Header' /\ size'[0] = 0
       /\ Tiled(size', top) /\ Sorted' /\ Joined'
  BY <1>1, <1>2, <1>3, <1>5, <1>7, <1>8, <1>9, InsertKeeps
<1>11. HeapTypes'
  BY <1>2, <1>5, <1>10 DEF HeapTypes, Heap!Addr
<1>12. Tiled(size, brk)'
  BY <1>2, <1>10 DEF Tiled, Heap!Addr
<1> QED
  BY <1>10, <1>11, <1>12 DEF HeapInv

(* malloc() finds a member that is large enough and the one before it.      *)
LEMMA LargeFound ==
  ASSUME HeapTypes, Sorted, NEW n \in Requests, Heap!Large(n) # {}
  PROVE  LET k == Heap!Min(Heap!Large(n))
             p == Heap!Walk(freep)[k]
             prev == Heap!Walk(freep)[k - 1] IN
         p \in Member /\ prev \in Member /\ ptr[prev] = p /\ size[p] >= n
<1> DEFINE w == Heap!Walk(freep)
           k == Heap!Min(Heap!Large(n))
<1>1. (\A j \in Heap!Addr : w[j] \in Member) /\ \A j \in Heap!Addr : j > 0 => j - 1 \in Heap!Addr /\ w[j] = ptr[w[j - 1]]
  <2>1. ptr \in [Heap!Addr -> Heap!Addr] /\ freep \in Heap!Addr
    BY MembersAreAddresses DEF HeapTypes
  <2> QED
    BY <2>1, WalkMeets, WalkFollows
<1>2. Heap!Large(n) \subseteq Nat /\ \A j \in Heap!Large(n) : j \in Heap!Addr /\ j > 0 /\ size[w[j]] >= n
  BY HeapConstants DEF Heap!Large
<1>3. k \in Heap!Large(n)
  BY <1>2, HeapMin
<1> HIDE DEF w, k
<1>4. w[k] \in Member /\ w[k - 1] \in Member /\ w[k] = ptr[w[k - 1]] /\ size[w[k]] >= n
  BY <1>1, <1>2, <1>3
<1> QED
  BY <1>4 DEF w, k

LEMMA MallocKeeps == HeapInv /\ (\E n \in Requests : Heap!Malloc(n)) => HeapInv'
<1> SUFFICES ASSUME HeapInv, NEW n \in Requests, Heap!Malloc(n) PROVE HeapInv'
  OBVIOUS
<1> DEFINE p == Heap!Walk(freep)[Heap!Min(Heap!Large(n))]
           prev == Heap!Walk(freep)[Heap!Min(Heap!Large(n)) - 1]
           b == p + size[p] - n
<1>1. HeapTypes /\ Tiled(size, brk) /\ Sorted /\ Joined
  BY DEF HeapInv
<1>2. p \in Member /\ prev \in Member /\ ptr[prev] = p /\ size[p] >= n
  BY <1>1, LargeFound DEF Heap!Malloc
<1>3. /\ ptr' = IF size[p] = n THEN Heap!Dead([ptr EXCEPT ![prev] = ptr[p]], {p}) ELSE ptr
      /\ size' = IF size[p] = n THEN size ELSE [size EXCEPT ![p] = @ - n, ![b] = n]
      /\ freep' = prev /\ used' = used \cup {b} /\ brk' = brk
  BY DEF Heap!Malloc
<1> HIDE DEF p, prev
<1>4. /\ size \in [Heap!Addr -> Nat] /\ ptr \in [Heap!Addr -> Heap!Addr] /\ used \subseteq Header /\ size[0] = 0
      /\ brk \in 1..MaxBrk /\ n \in Nat \ {0} /\ MaxBrk \in Nat /\ Heap!Addr = 0..(MaxBrk - 1)
  BY <1>1, HeapConstants DEF HeapTypes
<1>5. /\ \A m \in Member : m \in Heap!Addr /\ m \in Nat
      /\ 0 \in Member /\ p \in Heap!Addr /\ prev \in Heap!Addr /\ p \in Nat /\ prev \in Nat /\ size[p] \in Nat /\ ptr[p] \in Member
  BY <1>1, <1>2, <1>4, MembersAreAddresses DEF Sorted
<1>a. n \in Nat /\ n > 0 /\ size[p] \in Nat /\ size[p] >= n /\ p \in Nat
  <2>1. n \in Nat /\ n # 0
    BY <1>4
  <2> QED
    BY <2>1, <1>2, <1>5
<1>6. p # 0 /\ size[p] > 0
  <2>1. size[p] > 0
    BY <1>a
  <2>2. p # 0
    BY <2>1, <1>4
  <2> QED
    BY <2>1, <2>2
<1>7. p \notin used
  BY <1>2, <1>6 DEF Member
<1>8. \A c \in Member : /\ ptr[c] \in Member
                        /\ \/ ptr[c] > c /\ \A m \in Member : m <= c \/ m >= ptr[c]
                           \/ ptr[c] = 0 /\ \A m \in Member : m <= c
  BY <1>1 DEF Sorted
<1>9. prev < p /\ p # prev
  BY <1>2, <1>5, <1>6, <1>8
<1>10. \A a \in Heap!Addr : a \in Member <=> a = 0 \/ (size[a] > 0 /\ a \notin used)
  BY DEF Member
<1>11. \A a \in Heap!Addr : a \in Member' <=> a = 0 \/ (size'[a] > 0 /\ a \notin used')
  BY DEF Member, Heap!Addr
<1>12. \A m \in Member' : m \in Heap!Addr
  BY DEF Member, Heap!Addr
<1>13. CASE size[p] = n
  <2>1. b = p
    BY <1>13, <1>4, <1>5
  <2>2. /\ size' = size /\ used' = used \cup {p}
        /\ ptr' = [a \in Heap!Addr |-> IF a = p THEN 0 ELSE [ptr EXCEPT ![prev] = ptr[p]][a]]
    BY <1>3, <1>13, <2>1 DEF Heap!Dead
  <2>3. \A a \in Heap!Addr : /\ a = prev => ptr'[a] = ptr[p]
                             /\ a # prev /\ a # p => ptr'[a] = ptr[a]
    BY <2>2, <1>4, <1>5, <1>9
  <2>4. ptr' \in [Heap!Addr -> Heap!Addr]
    <3>1. 0 \in Heap!Addr /\ ptr[p] \in Heap!Addr
      BY <1>5
    <3>2. [ptr EXCEPT ![prev] = ptr[p]] \in [Heap!Addr -> Heap!Addr]
      BY <3>1, <1>4
    <3> QED
      BY <2>2, <3>1, <3>2
  <2>5. \A a \in Heap!Addr : a \in Member' <=> a \in Member /\ a # p
    BY <2>2, <1>6, <1>10, <1>11
  <2>6. \A m \in Member' : m \in Member /\ m # p /\ m \in Heap!Addr /\ m \in Nat
    BY <2>5, <1>12, <1>5
  <2>7. Sorted'
    <3> SUFFICES ASSUME NEW a \in Member'
                 PROVE  /\ ptr'[a] \in Member'
                        /\ \/ ptr'[a] > a /\ \A m \in Member' : m <= a \/ m >= ptr'[a]
                           \/ ptr'[a] = 0 /\ \A m \in Member' : m <= a
      BY DEF Sorted
    <3>1. a \in Member /\ a # p /\ a \in Heap!Addr /\ a \in Nat
      BY <2>6
    <3>2. CASE a = prev
      <4>1. ptr'[a] = ptr[p] /\ ptr[p] # p /\ ptr[p] \in Nat
        <5>1. ptr[p] # p /\ ptr[p] \in Nat
          <6>1. ptr[p] > p \/ ptr[p] = 0
            BY <1>8, <1>2
          <6>2. ptr[p] \in Nat
            BY <1>5
          <6> QED
            BY <6>1, <6>2, <1>a, <1>6
        <5> QED
          BY <5>1, <3>1, <3>2, <2>3
      <4>2. ptr'[a] \in Member'
        BY <4>1, <2>5, <1>5
      <4>3. \A m \in Member : m <= prev \/ m >= p
        BY <1>2, <1>5, <1>6, <1>8
      <4>4. \A m \in Member' : m <= prev \/ m > p
        BY <4>3, <2>6, <1>5
      <4>5. CASE ptr[p] > p /\ \A m \in Member : m <= p \/ m >= ptr[p]
        <5>1. \A m \in Member' : m <= prev \/ m >= ptr[p]
          BY <4>4, <4>5, <2>6, <1>5
        <5>2. ptr[p] > prev
          BY <4>1, <4>5, <1>5, <1>9
        <5> QED
          BY <5>1, <5>2, <4>1, <4>2, <3>2
      <4>6. CASE ptr[p] = 0 /\ \A m \in Member : m <= p
        <5>1. \A m \in Member' : m <= prev
          BY <4>4, <4>6, <2>6, <1>5
        <5> QED
          BY <5>1, <4>1, <4>2, <4>6, <3>2
      <4> QED
        BY <4>5, <4>6, <1>8, <1>2
    <3>3. CASE a # prev
      <4>1. ptr'[a] = ptr[a]
        BY <3>1, <3>3, <2>3
      <4>2. ptr[a] # p
        <5> SUFFICES ASSUME ptr[a] = p PROVE FALSE
          OBVIOUS
        <5>1. a < p /\ (prev <= a \/ prev >= p)
          BY <3>1, <1>2, <1>5, <1>6, <1>8
        <5>2. a <= prev \/ a >= p
          BY <3>1, <1>2, <1>5, <1>6, <1>8
        <5> QED
          BY <5>1, <5>2, <3>1, <3>3, <1>5, <1>9
      <4>3. ptr[a] \in Member'
        BY <3>1, <4>2, <1>8, <1>5, <2>5
      <4> QED
        BY <4>1, <4>3, <3>1, <1>8, <2>6
    <3> QED
      BY <3>2, <3>3
  <2>8. Joined'
    <3> SUFFICES ASSUME NEW a \in Member', a # 0 PROVE a + size'[a] \notin Member'
      BY DEF Joined
    <3>1. a + size[a] \notin Member
      BY <2>6, <1>1 DEF Joined
    <3> QED
      BY <3>1, <2>2, <2>6
  <2>9. Tiled(size, brk)'
    BY <1>1, <1>3, <2>2 DEF Tiled, Heap!Addr
  <2>10. prev \in Member'
    BY <2>5, <1>2, <1>5, <1>9
  <2>11. used' \subseteq Header'
    <3>1. used \cup {p} \subseteq Header
      BY <1>4, <1>5, <1>6 DEF Header
    <3> QED
      BY <3>1, <2>2 DEF Header, Heap!Addr
  <2>12. HeapTypes'
    BY <1>3, <1>4, <2>2, <2>4, <2>10, <2>11 DEF HeapTypes, Heap!Addr
  <2> QED
    BY <2>7, <2>8, <2>9, <2>12 DEF HeapInv
<1>14. CASE size[p] # n
  <2>1. ptr' = ptr /\ size' = [size EXCEPT ![p] = @ - n, ![b] = n] /\ used' = used \cup {b}
    BY <1>3, <1>14
  <2>2. b \in Nat /\ p < b /\ b < p + size[p] /\ b + n = p + size[p] /\ p + (size[p] - n) = b
    BY <1>a, <1>14
  <2>3. p + size[p] <= brk /\ (p + size[p] = brk \/ (p + size[p] \in Heap!Addr /\ size[p + size[p]] > 0))
    BY <1>1, <1>5, <1>6 DEF Tiled
  <2>4. b \in Heap!Addr
    BY <2>2, <2>3, <1>4, <1>5
  <2> HIDE DEF b
  <2>5. size[b] = 0 /\ b # 0 /\ b # p
    <3>1. size[b] > 0 => p + size[p] <= b
      BY <1>1, <1>5, <1>6, <2>2, <2>4 DEF Tiled
    <3>2. size[b] \in Nat
      BY <2>4, <1>4
    <3> QED
      BY <3>1, <3>2, <2>2, <1>5
  <2>6. /\ size' \in [Heap!Addr -> Nat] /\ size'[b] = n /\ size'[p] = size[p] - n /\ size[p] - n > 0
        /\ \A a \in Heap!Addr : a # b /\ a # p => size'[a] = size[a]
    <3>1. size[p] - n \in Nat /\ size[p] - n > 0
      BY <1>a, <1>14
    <3>2. n \in Nat
      BY <1>4
    <3>3. [size EXCEPT ![p] = @ - n] \in [Heap!Addr -> Nat]
      BY <3>1, <1>4
    <3> QED
      BY <3>1, <3>2, <3>3, <2>1, <2>4, <2>5, <1>4, <1>5
  <2>7. \A a \in Heap!Addr : a \in Member' <=> a \in Member
    <3> TAKE a \in Heap!Addr
    <3>1. CASE a = b
      <4>1. ~(size[b] > 0)
        BY <2>5
      <4> QED
        BY <3>1, <4>1, <2>1, <2>5, <1>10, <1>11
    <3>2. CASE a = p
      BY <3>2, <2>1, <2>5, <2>6, <1>2, <1>7, <1>10, <1>11
    <3>3. CASE a # b /\ a # p
      BY <3>3, <2>1, <2>6, <1>10, <1>11
    <3> QED
      BY <3>1, <3>2, <3>3
  <2>8. Member' = Member
    <3>1. Member \subseteq Heap!Addr /\ Member' \subseteq Heap!Addr
      BY <1>5, <1>12
    <3> QED
      BY <3>1, <2>7
  <2>9. Sorted'
    BY <1>1, <2>1, <2>8 DEF Sorted
  <2>10. Joined'
    <3> SUFFICES ASSUME NEW a \in Member, a # 0 PROVE a + size'[a] \notin Member
      BY <2>8 DEF Joined
    <3>1. CASE a = p
      <4>1. b \notin Member
        <5>1. ~(size[b] > 0)
          BY <2>5
        <5> QED
          BY <5>1, <2>4, <2>5, <1>10
      <4> QED
        BY <3>1, <4>1, <2>2, <2>6
    <3>2. CASE a # p
      <4>1. a \in Heap!Addr /\ a # b
        <5>1. ~(size[b] > 0)
          BY <2>5
        <5> QED
          BY <5>1, <2>4, <2>5, <1>5, <1>10
      <4> QED
        BY <3>2, <4>1, <2>6, <1>1 DEF Joined
    <3> QED
      BY <3>1, <3>2
  <2>11. Tiled(size', brk)
    <3>0. \A a \in Heap!Addr : a \in Nat /\ size[a] \in Nat /\ size'[a] \in Nat
      <4>1. \A a \in Heap!Addr : a \in Nat
        BY <1>4
      <4> QED
        BY <4>1, <1>4, <2>6
    <3>1. \A a \in Heap!Addr : size'[a] > 0 => a = b \/ a = p \/ (size[a] > 0 /\ size'[a] = size[a])
      BY <2>6
    <3>2. \A a \in Heap!Addr : size[a] > 0 => size'[a] > 0
      <4>1. n > 0
        BY <1>4
      <4> QED
        BY <4>1, <2>6
    <3>3. \A a \in Heap!Addr : size[a] > 0 =>
            a + size[a] <= brk /\ (a + size[a] = brk \/ (a + size[a] \in Heap!Addr /\ size[a + size[a]] > 0))
      BY <1>1 DEF Tiled
    <3>4. \A a, c \in Heap!Addr : size[a] > 0 /\ size[c] > 0 /\ a < c => a + size[a] <= c
      BY <1>1 DEF Tiled
    <3>5. ASSUME NEW a \in Heap!Addr, size'[a] > 0
          PROVE  a + size'[a] <= brk /\ (a + size'[a] = brk \/ (a + size'[a] \in Heap!Addr /\ size'[a + size'[a]] > 0))
      <4>1. CASE a = b
        <5> DEFINE r == p + size[p]
        <5>1. a + size'[a] = r
          BY <4>1, <2>2, <2>6
        <5>2. r <= brk /\ (r = brk \/ (r \in Heap!Addr /\ size[r] > 0))
          BY <2>3
        <5> HIDE DEF r
        <5> QED
          BY <5>1, <5>2, <3>2
      <4>2. CASE a = p
        <5>1. a + size'[a] = b
          BY <4>2, <2>2, <2>6
        <5>2. b <= brk
          BY <2>2, <2>3, <1>4, <1>5
        <5>3. size'[b] > 0
          BY <2>6, <1>4
        <5> QED
          BY <5>1, <5>2, <5>3, <2>4
      <4>3. CASE a # b /\ a # p
        <5> DEFINE r == a + size[a]
        <5>1. a + size'[a] = r /\ size[a] > 0
          BY <4>3, <3>1, <3>5
        <5>2. r <= brk /\ (r = brk \/ (r \in Heap!Addr /\ size[r] > 0))
          BY <5>1, <3>3
        <5> HIDE DEF r
        <5> QED
          BY <5>1, <5>2, <3>2
      <4> QED
        BY <4>1, <4>2, <4>3
    <3>6. ASSUME NEW a \in Heap!Addr, NEW c \in Heap!Addr, size'[a] > 0, size'[c] > 0, a < c
          PROVE  a + size'[a] <= c
      <4>1. (a # b => size[a] > 0 /\ size'[a] <= size[a]) /\ (c # b => size[c] > 0)
        <5>1. size'[p] <= size[p]
          BY <1>a, <2>6
        <5>2. \A d \in Heap!Addr : size'[d] > 0 /\ d # b /\ d # p => size[d] > 0 /\ size'[d] <= size[d]
          BY <2>6, <3>0
        <5> QED
          BY <5>1, <5>2, <3>6, <1>6
      <4>2. CASE a = b
        <5>1. c # b /\ c # p /\ p < c
          BY <4>2, <3>6, <2>2, <3>0, <1>5
        <5>2. p + size[p] <= c
          BY <5>1, <4>1, <3>4, <1>5, <1>6
        <5> QED
          BY <4>2, <5>2, <2>2, <2>6
      <4>3. CASE c = b /\ a # b
        <5>1. CASE a = p
          BY <5>1, <4>3, <2>2, <2>6
        <5>2. CASE a # p
          <6>1. a < p \/ p < a
            BY <5>2, <3>0, <1>5
          <6>2. p < a => p + size[p] <= a
            BY <4>1, <4>3, <3>4, <1>5, <1>6
          <6>3. a < p
            BY <6>1, <6>2, <4>3, <3>6, <2>2, <3>0, <1>5
          <6>4. a + size[a] <= p
            BY <6>3, <4>1, <4>3, <3>4, <1>5, <1>6
          <6> QED
            BY <6>4, <4>1, <4>3, <2>2, <3>0, <1>5
        <5> QED
          BY <5>1, <5>2
      <4>4. CASE a # b /\ c # b
        <5>1. a + size[a] <= c
          BY <4>1, <4>4, <3>4, <3>6
        <5> QED
          BY <5>1, <4>1, <4>4, <3>0
      <4> QED
        BY <4>2, <4>3, <4>4
    <3>7. brk > 1 => 1 \in Heap!Addr /\ size'[1] > 0
      BY <1>1, <3>2 DEF Tiled
    <3> QED
      BY <3>5, <3>6, <3>7 DEF Tiled
  <2>12. Tiled(size, brk)'
    BY <2>11, <1>3 DEF Tiled, Heap!Addr
  <2>13. used' \subseteq Header'
    <3> SUFFICES ASSUME NEW a \in used' PROVE a \in Heap!Addr /\ size'[a] > 0
      BY DEF Header, Heap!Addr
    <3>1. CASE a = b
      BY <3>1, <2>4, <2>6, <1>4
    <3>2. CASE a # b
      <4>1. a \in used /\ a # p
        BY <3>2, <2>1, <1>7
      <4>2. a \in Heap!Addr /\ size[a] > 0
        BY <4>1, <1>4 DEF Header
      <4> QED
        BY <4>1, <4>2, <3>2, <2>6
    <3> QED
      BY <3>1, <3>2
  <2>14. size'[0] = 0
    BY <2>5, <2>6, <1>4, <1>5, <1>6
  <2>15. HeapTypes'
    BY <1>1, <1>2, <1>3, <2>1, <2>6, <2>8, <2>13, <2>14 DEF HeapTypes, Heap!Addr
  <2> QED
    BY <2>9, <2>10, <2>12, <2>15 DEF HeapInv
<1> QED
  BY <1>13, <1>14

LEMMA HeapNext == HeapInv /\ [Heap!Next]_(Heap!vars) => HeapInv'
<1> SUFFICES ASSUME HeapInv, [Heap!Next]_(Heap!vars) PROVE HeapInv'
  OBVIOUS
<1>1. CASE \E b \in used : Heap!FreeBlock(b)
  BY <1>1, FreeBlockKeeps
<1>2. CASE \E n \in Requests : Heap!Malloc(n)
  BY <1>2, MallocKeeps
<1>3. CASE \E n \in Requests : Heap!Morecore(n)
  BY <1>3, MorecoreKeeps
<1>4. CASE UNCHANGED (Heap!vars)
  BY <1>4 DEF Heap!vars, HeapInv, HeapTypes, Tiled, Sorted, Joined, Header, Member, Heap!Addr
<1> QED
  BY <1>1, <1>2, <1>3, <1>4 DEF Heap!Next

(* umalloc.c:25-90.  Whatever is asked for and given back in any order, the   *)
(* blocks in use and the members of the free list divide the heap without    *)
(* overlap or gap, free neighbours are joined, and the list goes around      *)
(* once, in address order.                                                 *)
THEOREM HeapIsDivided == Heap!Spec => []HeapPartition
<1>1. Heap!Init => HeapInv
  BY HeapInit
<1>2. HeapInv /\ [Heap!Next]_(Heap!vars) => HeapInv'
  BY HeapNext
<1>3. HeapInv => HeapPartition
  BY PartitionByInv
<1> QED
  BY <1>1, <1>2, <1>3, PTL DEF Heap!Spec
=============================================================================
