---------------------------- MODULE InodesProofs ----------------------------
(***************************************************************************)
(* Every reference of the inode cache is counted, an inode that is used is  *)
(* not freed, no name outlives its inode and the directories form a tree,   *)
(* for every number of processes, inodes and names and every set of calls.  *)
(***************************************************************************)
EXTENDS Inodes, FiniteSetTheorems, WellFoundedInduction, TLAPS

(***************************************************************************)
(* The invariant.                                                          *)
(***************************************************************************)
(* Links that nlink counts without a name: of the old file while link()     *)
(* looks for the new name, and of an inode whose name unlink() has taken.   *)
Pending(i) ==
  {p \in Proc : \/ frame[p].dp = i /\ frame[p].pc # "unlink"
                \/ frame[p].ip = i /\ frame[p].pc = "unlinkold"}
RootName(i) == IF i = Root THEN 1 ELSE 0

Counted ==
  \A i \in Inode :
    Cardinality(EntriesOf(i)) + Cardinality(Children(i)) + Cardinality(Pending(i))
      + RootName(i) <= dinode[i].nlink

(* What the variables of a call hold at each of its steps.                 *)
Shape(p) ==
  LET f == frame[p] IN
  /\ Len(f.puts) <= 2 /\ (f.dropping => f.puts # <<>>)
  /\ f.pc = "idle" <=> f.ip = None
  /\ f.pc \in {"idle", "exists", "got", "setcwd", "unlinkold"} => f.dp = None
  /\ f.pc = "unlink" => f.dp # None
  /\ f.pc \in {"walk", "unlink"} => f.path # <<>>
  /\ f.pc = "found" /\ (ByParent(f.call.op) \/ f.dp # None) => f.path # <<>>
  /\ f.dp # None /\ f.pc # "unlink" => f.call.op = "link"

(* What a call relies on from one of its steps to the next: the locks it    *)
(* keeps, and what it has read under them.                                 *)
Keeps(p) ==
  LET f == frame[p] IN
  /\ f.pc = "unlink" => lock[f.dp] = p /\ dinode[f.dp].ent[NameOf(p)] = f.ip
  /\ f.pc = "unlockdir" => lock[f.ip] = p
  /\ f.pc = "unlinkold" /\ IsDir(f.ip) => lock[f.ip] = p /\ dinode[f.ip].ent = NoNames
  /\ f.dp # None /\ f.pc # "unlink" => dinode[f.dp].type = "file"

Allocated(p) == \A i \in Inode : Uses(p, i) => dinode[i].type # "none"

Private(p) == Shape(p) /\ Keeps(p) /\ Allocated(p)

(* The inodes by themselves.                                               *)
Disk ==
  /\ \A i \in Inode : dinode[i].type = "none" => dinode[i].nlink = 0 /\ dinode[i].ent = NoNames
  /\ \A i \in Inode : IsDir(i) /\ i # Root => dinode[i].up # i
  /\ IsDir(Root) /\ EntriesOf(Root) = {}

Inv ==
  /\ TypeOK /\ RefsExact /\ Disk /\ DirectoryTree /\ Counted
  /\ \A p \in Proc : Private(p)

(***************************************************************************)
(* Counting.                                                               *)
(***************************************************************************)
Count(b) == IF b THEN 1 ELSE 0

LEMMA OneMoves ==
  ASSUME NEW S, NEW T, NEW e, IsFiniteSet(S), \A x : x # e => (x \in S <=> x \in T)
  PROVE  /\ IsFiniteSet(T) /\ Cardinality(S) \in Nat /\ Cardinality(T) \in Nat
         /\ Cardinality(T) = Cardinality(S) + Count(e \in T) - Count(e \in S)
  <1>1. Cardinality(S) \in Nat
    BY FS_CardinalityType
  <1>2. CASE e \in S /\ e \in T
    <2>1. S = T
      BY <1>2
    <2> QED
      BY <1>1, <1>2, <2>1 DEF Count
  <1>3. CASE e \in S /\ e \notin T
    <2>1. T = S \ {e}
      BY <1>3
    <2>2. IsFiniteSet(T) /\ Cardinality(T) = Cardinality(S) - 1
      BY <1>3, <2>1, FS_RemoveElement
    <2>3. Cardinality(T) \in Nat
      BY <2>2, FS_CardinalityType
    <2> QED
      BY <1>1, <1>3, <2>2, <2>3 DEF Count
  <1>4. CASE e \notin S /\ e \in T
    <2>1. T = S \cup {e}
      BY <1>4
    <2>2. IsFiniteSet(T) /\ Cardinality(T) = Cardinality(S) + 1
      BY <1>4, <2>1, FS_AddElement
    <2>3. Cardinality(T) \in Nat
      BY <2>2, FS_CardinalityType
    <2> QED
      BY <1>1, <1>4, <2>2, <2>3 DEF Count
  <1>5. CASE e \notin S /\ e \notin T
    <2>1. S = T
      BY <1>5
    <2> QED
      BY <1>1, <1>5, <2>1 DEF Count
  <1> QED
    BY <1>2, <1>3, <1>4, <1>5

LEMMA Finite ==
  /\ IsFiniteSet(Proc) /\ IsFiniteSet(Inode) /\ IsFiniteSet(Inode \X Name)
  /\ \A P : IsFiniteSet({p \in Proc : p \in P})
  <1>1. IsFiniteSet(Proc) /\ IsFiniteSet(Name) /\ NInode \in Nat
    BY InodesAssumption
  <1>2. IsFiniteSet(Inode)
    BY <1>1, FS_Interval DEF Inode
  <1>3. IsFiniteSet(Inode \X Name)
    BY <1>1, <1>2, FS_Product
  <1>4. \A P : IsFiniteSet({p \in Proc : p \in P})
    BY <1>1, FS_Subset
  <1> QED
    BY <1>1, <1>2, <1>3, <1>4

(***************************************************************************)
(* References.                                                             *)
(***************************************************************************)
(* The references to inode i that process p holds.                         *)
Row(p, i) ==
  LET f == frame[p] IN
  Count(cwd[p] = i /\ f.pc # "setcwd") + Count(file[p] = i) + Count(f.ip = i) + Count(f.dp = i)
  + Count(Len(f.puts) >= 1 /\ f.puts[1] = i) + Count(Len(f.puts) >= 2 /\ f.puts[2] = i)

(* What a step of process p leaves alone.                                  *)
OthersStay(p) ==
  \A q \in Proc \ {p} :
    /\ frame'[q] = frame[q] /\ cwd'[q] = cwd[q] /\ file'[q] = file[q]
    /\ \A i \in Inode : lock[i] = q => lock'[i] = q /\ dinode'[i].ent = dinode[i].ent
    /\ \A i \in Inode : Uses(q, i) => dinode'[i].type = dinode[i].type

LEMMA FiniteHolders ==
  ASSUME NEW i \in Inode
  PROVE  /\ IsFiniteSet(InCwd(i)) /\ IsFiniteSet(InFile(i)) /\ IsFiniteSet(InIp(i))
         /\ IsFiniteSet(InDp(i)) /\ IsFiniteSet(InPuts(i, 1)) /\ IsFiniteSet(InPuts(i, 2))
         /\ IsFiniteSet(Pending(i))
  <1>1. /\ InCwd(i) \subseteq Proc /\ InFile(i) \subseteq Proc /\ InIp(i) \subseteq Proc
        /\ InDp(i) \subseteq Proc /\ InPuts(i, 1) \subseteq Proc /\ InPuts(i, 2) \subseteq Proc
        /\ Pending(i) \subseteq Proc
    BY DEF InCwd, InFile, InIp, InDp, InPuts, Pending
  <1> QED
    BY <1>1, Finite, FS_Subset

(* When only p moves, the sum over all processes changes as p's part does.  *)
LEMMA RefsMove ==
  ASSUME TypeOK, RefsExact, TypeOK', NEW p \in Proc, OthersStay(p),
         \A i \in Inode : ref'[i] = ref[i] + Row(p, i)' - Row(p, i)
  PROVE  RefsExact'
  <1> SUFFICES ASSUME NEW i \in Inode
               PROVE  ref'[i] = Cardinality(InCwd(i)') + Cardinality(InFile(i)')
                        + Cardinality(InIp(i)') + Cardinality(InDp(i)')
                        + Cardinality(InPuts(i, 1)') + Cardinality(InPuts(i, 2)')
    BY DEF RefsExact
  <1>0. \A q \in Proc : q # p => frame'[q] = frame[q] /\ cwd'[q] = cwd[q] /\ file'[q] = file[q]
    BY DEF OthersStay
  <1>1. /\ Cardinality(InCwd(i)') = Cardinality(InCwd(i)) + Count(p \in InCwd(i)') - Count(p \in InCwd(i))
        /\ Cardinality(InCwd(i)) \in Nat
    <2>1. \A x : x # p => (x \in InCwd(i) <=> x \in InCwd(i)')
      BY <1>0 DEF InCwd
    <2> QED
      BY <2>1, FiniteHolders, OneMoves
  <1>2. /\ Cardinality(InFile(i)') = Cardinality(InFile(i)) + Count(p \in InFile(i)') - Count(p \in InFile(i))
        /\ Cardinality(InFile(i)) \in Nat
    <2>1. \A x : x # p => (x \in InFile(i) <=> x \in InFile(i)')
      BY <1>0 DEF InFile
    <2> QED
      BY <2>1, FiniteHolders, OneMoves
  <1>3. /\ Cardinality(InIp(i)') = Cardinality(InIp(i)) + Count(p \in InIp(i)') - Count(p \in InIp(i))
        /\ Cardinality(InIp(i)) \in Nat
    <2>1. \A x : x # p => (x \in InIp(i) <=> x \in InIp(i)')
      BY <1>0 DEF InIp
    <2> QED
      BY <2>1, FiniteHolders, OneMoves
  <1>4. /\ Cardinality(InDp(i)') = Cardinality(InDp(i)) + Count(p \in InDp(i)') - Count(p \in InDp(i))
        /\ Cardinality(InDp(i)) \in Nat
    <2>1. \A x : x # p => (x \in InDp(i) <=> x \in InDp(i)')
      BY <1>0 DEF InDp
    <2> QED
      BY <2>1, FiniteHolders, OneMoves
  <1>5. /\ Cardinality(InPuts(i, 1)') = Cardinality(InPuts(i, 1)) + Count(p \in InPuts(i, 1)') - Count(p \in InPuts(i, 1))
        /\ Cardinality(InPuts(i, 1)) \in Nat
    <2>1. \A x : x # p => (x \in InPuts(i, 1) <=> x \in InPuts(i, 1)')
      BY <1>0 DEF InPuts
    <2> QED
      BY <2>1, FiniteHolders, OneMoves
  <1>6. /\ Cardinality(InPuts(i, 2)') = Cardinality(InPuts(i, 2)) + Count(p \in InPuts(i, 2)') - Count(p \in InPuts(i, 2))
        /\ Cardinality(InPuts(i, 2)) \in Nat
    <2>1. \A x : x # p => (x \in InPuts(i, 2) <=> x \in InPuts(i, 2)')
      BY <1>0 DEF InPuts
    <2> QED
      BY <2>1, FiniteHolders, OneMoves
  <1>7. Row(p, i) = Count(p \in InCwd(i)) + Count(p \in InFile(i)) + Count(p \in InIp(i))
                    + Count(p \in InDp(i)) + Count(p \in InPuts(i, 1)) + Count(p \in InPuts(i, 2))
    BY DEF Row, InCwd, InFile, InIp, InDp, InPuts, Count
  <1>8. Row(p, i)' = Count(p \in InCwd(i)') + Count(p \in InFile(i)') + Count(p \in InIp(i)')
                    + Count(p \in InDp(i)') + Count(p \in InPuts(i, 1)') + Count(p \in InPuts(i, 2)')
    BY DEF Row, InCwd, InFile, InIp, InDp, InPuts, Count
  <1>9. ref[i] = Cardinality(InCwd(i)) + Cardinality(InFile(i)) + Cardinality(InIp(i))
                 + Cardinality(InDp(i)) + Cardinality(InPuts(i, 1)) + Cardinality(InPuts(i, 2))
    BY DEF RefsExact
  <1>10. \A b : Count(b) \in Int
    BY DEF Count
  <1> QED
    BY <1>1, <1>2, <1>3, <1>4, <1>5, <1>6, <1>7, <1>8, <1>9, <1>10

(* A holder keeps ref above zero, and the only one holds nothing twice.     *)
LEMMA Held ==
  ASSUME RefsExact, NEW i \in Inode
  PROVE  /\ \A p \in Proc : p \in InCwd(i) \cup InFile(i) \cup InIp(i) \cup InDp(i)
                                   \cup InPuts(i, 1) \cup InPuts(i, 2) => ref[i] >= 1
         /\ \A p, q \in Proc :
              ref[i] = 1 /\ p \in InPuts(i, 1) =>
                /\ q \notin InCwd(i) \cup InFile(i) \cup InIp(i) \cup InDp(i) \cup InPuts(i, 2)
                /\ q \in InPuts(i, 1) => q = p
  <1>1. \A S : IsFiniteSet(S) =>
          /\ Cardinality(S) \in Nat
          /\ \A e : e \in S => Cardinality(S) >= 1
    BY FS_CardinalityType, FS_EmptySet, SMT
  <1>2. \A S : IsFiniteSet(S) => \A e, d : e \in S /\ d \in S /\ e # d => Cardinality(S) >= 2
    <2> SUFFICES ASSUME NEW S, IsFiniteSet(S), NEW e \in S, NEW d \in S, e # d
                 PROVE  Cardinality(S) >= 2
      OBVIOUS
    <2>1. IsFiniteSet(S \ {e}) /\ Cardinality(S \ {e}) = Cardinality(S) - 1
      BY FS_RemoveElement
    <2>2. Cardinality(S \ {e}) >= 1 /\ Cardinality(S) \in Nat
      BY <1>1, <2>1
    <2> QED
      BY <2>1, <2>2
  <1>3. ref[i] = Cardinality(InCwd(i)) + Cardinality(InFile(i)) + Cardinality(InIp(i))
                 + Cardinality(InDp(i)) + Cardinality(InPuts(i, 1)) + Cardinality(InPuts(i, 2))
    BY DEF RefsExact
  <1>4. /\ Cardinality(InCwd(i)) \in Nat /\ Cardinality(InFile(i)) \in Nat
        /\ Cardinality(InIp(i)) \in Nat /\ Cardinality(InDp(i)) \in Nat
        /\ Cardinality(InPuts(i, 1)) \in Nat /\ Cardinality(InPuts(i, 2)) \in Nat
    BY <1>1, FiniteHolders
  <1>5. \A e : /\ e \in InCwd(i) => Cardinality(InCwd(i)) >= 1
               /\ e \in InFile(i) => Cardinality(InFile(i)) >= 1
               /\ e \in InIp(i) => Cardinality(InIp(i)) >= 1
               /\ e \in InDp(i) => Cardinality(InDp(i)) >= 1
               /\ e \in InPuts(i, 1) => Cardinality(InPuts(i, 1)) >= 1
               /\ e \in InPuts(i, 2) => Cardinality(InPuts(i, 2)) >= 1
    BY <1>1, FiniteHolders
  <1>6. \A e, d : e \in InPuts(i, 1) /\ d \in InPuts(i, 1) /\ e # d => Cardinality(InPuts(i, 1)) >= 2
    BY <1>2, FiniteHolders
  <1> QED
    BY <1>3, <1>4, <1>5, <1>6

(***************************************************************************)
(* One step of process p.                                                  *)
(***************************************************************************)
LEMMA OthersKeep ==
  ASSUME Inv, TypeOK', NEW p \in Proc, OthersStay(p), NEW q \in Proc, q # p
  PROVE  Private(q)'
  <1>1. Private(q) /\ TypeOK
    BY DEF Inv
  <1>2. frame'[q] = frame[q] /\ cwd'[q] = cwd[q] /\ file'[q] = file[q]
    BY DEF OthersStay
  <1>3. \A i \in Inode : lock[i] = q => lock'[i] = q /\ dinode'[i].ent = dinode[i].ent
    BY DEF OthersStay
  <1>4. \A i \in Inode : Uses(q, i) => dinode'[i].type = dinode[i].type
    BY DEF OthersStay
  <1>5. \A i \in Inode : Uses(q, i)' <=> Uses(q, i)
    BY <1>2 DEF Uses, InCwd, InFile, InIp, InDp, InPuts
  <1>6. Shape(q)'
    BY <1>1, <1>2 DEF Private, Shape
  <1>7. Allocated(q)'
    BY <1>1, <1>4, <1>5 DEF Private, Allocated
  <1>8. /\ frame[q].ip # None => frame[q].ip \in Inode /\ Uses(q, frame[q].ip)
        /\ frame[q].dp # None => frame[q].dp \in Inode /\ Uses(q, frame[q].dp)
    BY <1>1 DEF TypeOK, Frames, Uses, InIp, InDp
  <1>9. Keeps(q)'
    BY <1>1, <1>2, <1>3, <1>4, <1>8 DEF Private, Shape, Keeps, NameOf, IsDir
  <1> QED
    BY <1>6, <1>7, <1>9 DEF Private

LEMMA StepInv ==
  ASSUME Inv, TypeOK', NEW p \in Proc, OthersStay(p),
         \A i \in Inode : ref'[i] = ref[i] + Row(p, i)' - Row(p, i),
         Private(p)', Disk', DirectoryTree', Counted'
  PROVE  Inv'
  <1>1. RefsExact'
    BY RefsMove DEF Inv
  <1>2. \A q \in Proc : Private(q)'
    BY OthersKeep
  <1> QED
    BY <1>1, <1>2 DEF Inv

(* Most steps leave the contents of the inodes alone.                      *)
LEMMA QuietInv ==
  ASSUME Inv, TypeOK', NEW p \in Proc, OthersStay(p), dinode' = dinode,
         \A i \in Inode : ref'[i] = ref[i] + Row(p, i)' - Row(p, i),
         \A i \in Inode : p \in Pending(i)' <=> p \in Pending(i),
         Private(p)'
  PROVE  Inv'
  <1>1. \A i \in Inode : EntriesOf(i)' = EntriesOf(i) /\ Children(i)' = Children(i)
    BY DEF EntriesOf, Children, IsDir
  <1>2. \A i \in Inode : Pending(i)' = Pending(i)
    BY DEF OthersStay, Pending
  <1>3. Root \in Inode
    BY InodesAssumption DEF Root, Inode
  <1>4. Disk'
    BY <1>1, <1>3 DEF Inv, Disk, IsDir
  <1>5. DirectoryTree'
    BY <1>1 DEF Inv, DirectoryTree, IsDir
  <1>6. Counted'
    BY <1>1, <1>2 DEF Inv, Counted
  <1> QED
    BY <1>4, <1>5, <1>6, StepInv

(***************************************************************************)
(* Frames and sequences.                                                   *)
(***************************************************************************)
LEMMA Fields ==
  ASSUME NEW pc, NEW call, NEW ip, NEW dp, NEW path, NEW puts
  PROVE  LET f == Frame(pc, call, ip, dp, path, puts) IN
         /\ f.pc = pc /\ f.call = call /\ f.ip = ip /\ f.dp = dp /\ f.path = path /\ f.puts = puts
         /\ ~f.dropping
  BY Zenon DEF Frame

LEMMA FrameType ==
  ASSUME NEW pc \in {"idle", "walk", "found", "exists", "got", "setcwd", "unlockdir",
                     "unlink", "unlinkold"},
         NEW call \in Calls \cup {NoCall}, NEW ip \in Inode \cup {None},
         NEW dp \in Inode \cup {None}, NEW path \in Seq(Name), NEW puts \in Seq(Inode)
  PROVE  Frame(pc, call, ip, dp, path, puts) \in Frames
  BY DEF Frame, Frames

LEMMA SeqFacts ==
  /\ Len(<<>>) = 0
  /\ \A x : Len(<<x>>) = 1 /\ <<x>>[1] = x
  /\ \A x, y : Len(<<x, y>>) = 2 /\ <<x, y>>[1] = x /\ <<x, y>>[2] = y
  /\ \A S : <<>> \in Seq(S)
  /\ \A S : \A x \in S : <<x>> \in Seq(S)
  /\ \A S : \A x, y \in S : <<x, y>> \in Seq(S)
  OBVIOUS

LEMMA Became ==
  ASSUME TypeOK, NEW p \in Proc, NEW f \in Frames, frame' = [frame EXCEPT ![p] = f]
  PROVE  /\ frame' \in [Proc -> Frames] /\ frame'[p] = f
         /\ \A q \in Proc : q # p => frame'[q] = frame[q]
  BY DEF TypeOK

LEMMA Basics ==
  ASSUME Inv, NEW p \in Proc
  PROVE  /\ TypeOK /\ Shape(p) /\ Keeps(p) /\ Allocated(p)
         /\ Root \in Inode /\ None \notin Inode /\ Free \notin Proc
         /\ frame[p] \in Frames /\ cwd[p] \in Inode
  BY InodesAssumption DEF Inv, Private, Root, Inode, TypeOK

(***************************************************************************)
(* The steps that leave the inodes' contents alone.                        *)
(***************************************************************************)
LEMMA StartInv ==
  ASSUME Inv, NEW p \in Proc, NEW c \in Calls, Start(p, c)
  PROVE  Inv'
  <1>1. /\ TypeOK /\ Shape(p) /\ Allocated(p)
        /\ Root \in Inode /\ None \notin Inode /\ frame[p] \in Frames /\ cwd[p] \in Inode
    BY Basics
  <1>2. PICK i0 \in Inode : i0 = From(p, c)
    BY <1>1 DEF From
  <1>3. PICK pc \in {"walk", "found"} : pc = Searching(c.path) /\ (pc = "walk" => c.path # <<>>)
    BY DEF Searching
  <1>4. /\ frame[p].pc = "idle" /\ frame[p].puts = <<>> /\ frame[p].ip = None /\ frame[p].dp = None
        /\ UNCHANGED <<dinode, valid, lock, cwd, file>>
        /\ ref' = [ref EXCEPT ![i0] = @ + 1]
        /\ frame' = [frame EXCEPT ![p] = Frame(pc, c, i0, None, c.path, <<>>)]
    BY <1>1, <1>2, <1>3 DEF Start, At, Shape, IgetTo, Become
  <1>5. c.path \in Seq(Name) /\ (ByParent(c.op) => c.path # <<>>)
    BY CallsAssumption DEF ByParent
  <1>6. /\ frame' \in [Proc -> Frames]
        /\ \A q \in Proc : q # p => frame'[q] = frame[q]
        /\ frame'[p].pc = pc /\ frame'[p].call = c /\ frame'[p].ip = i0 /\ frame'[p].dp = None
        /\ frame'[p].path = c.path /\ frame'[p].puts = <<>> /\ ~frame'[p].dropping
    <2>1. Frame(pc, c, i0, None, c.path, <<>>) \in Frames
      BY <1>1, <1>5, SeqFacts, FrameType
    <2>2. /\ frame' \in [Proc -> Frames] /\ frame'[p] = Frame(pc, c, i0, None, c.path, <<>>)
          /\ \A q \in Proc : q # p => frame'[q] = frame[q]
      BY <1>1, <1>4, <2>1, Became
    <2> QED
      BY <2>2, Fields
  <1>7. TypeOK'
    BY <1>1, <1>4, <1>6 DEF TypeOK
  <1>8. OthersStay(p)
    BY <1>4, <1>6 DEF OthersStay
  <1>9. \A i \in Inode : ref'[i] = ref[i] + Row(p, i)' - Row(p, i)
    BY <1>1, <1>4, <1>6, SeqFacts DEF TypeOK, Row, Count
  <1>10. \A i \in Inode : p \in Pending(i)' <=> p \in Pending(i)
    BY <1>1, <1>4, <1>6 DEF Pending
  <1>11. dinode[i0].type # "none"
    <2>1. dinode[Root].type # "none"
      BY DEF Inv, Disk, IsDir
    <2>2. Uses(p, cwd[p])
      BY <1>4 DEF Uses, InCwd
    <2> QED
      BY <1>1, <1>2, <2>1, <2>2 DEF From, Allocated
  <1>12. Private(p)'
    <2>1. Shape(p)'
      BY <1>1, <1>3, <1>5, <1>6, SeqFacts DEF Shape
    <2>2. Keeps(p)'
      BY <1>6 DEF Keeps
    <2>3. \A i \in Inode : Uses(p, i)' => i = i0 \/ Uses(p, i)
      BY <1>1, <1>4, <1>6, SeqFacts DEF Uses, InCwd, InFile, InIp, InDp, InPuts
    <2>4. Allocated(p)'
      BY <1>1, <1>4, <1>11, <2>3 DEF Allocated
    <2> QED
      BY <2>1, <2>2, <2>4 DEF Private
  <1> QED
    BY <1>4, <1>7, <1>8, <1>9, <1>10, <1>12, QuietInv

LEMMA CloseInv ==
  ASSUME Inv, NEW p \in Proc, Close(p)
  PROVE  Inv'
  <1>1. /\ TypeOK /\ Shape(p) /\ Allocated(p)
        /\ Root \in Inode /\ None \notin Inode /\ frame[p] \in Frames /\ cwd[p] \in Inode
    BY Basics
  <1>2. PICK i0 \in Inode : i0 = file[p]
    BY <1>1 DEF TypeOK, Close
  <1>3. /\ frame[p].pc = "idle" /\ frame[p].puts = <<>> /\ frame[p].ip = None /\ frame[p].dp = None
        /\ UNCHANGED <<dinode, ref, valid, lock, cwd>>
        /\ file' = [file EXCEPT ![p] = None]
        /\ frame' = [frame EXCEPT ![p] = Frame("idle", NoCall, None, None, <<>>, <<i0>>)]
    BY <1>1, <1>2 DEF Close, At, Shape, Idle, Become
  <1>4. /\ frame' \in [Proc -> Frames]
        /\ \A q \in Proc : q # p => frame'[q] = frame[q]
        /\ frame'[p].pc = "idle" /\ frame'[p].ip = None /\ frame'[p].dp = None
        /\ Len(frame'[p].puts) = 1 /\ frame'[p].puts[1] = i0 /\ ~frame'[p].dropping
    <2>1. Frame("idle", NoCall, None, None, <<>>, <<i0>>) \in Frames
      BY <1>1, SeqFacts, FrameType
    <2>2. /\ frame' \in [Proc -> Frames] /\ frame'[p] = Frame("idle", NoCall, None, None, <<>>, <<i0>>)
          /\ \A q \in Proc : q # p => frame'[q] = frame[q]
      BY <1>1, <1>3, <2>1, Became
    <2> QED
      BY <2>2, Fields, SeqFacts
  <1>5. TypeOK'
    BY <1>1, <1>3, <1>4 DEF TypeOK
  <1>6. OthersStay(p)
    BY <1>1, <1>3, <1>4 DEF OthersStay, TypeOK
  <1>7. \A i \in Inode : ref'[i] = ref[i] + Row(p, i)' - Row(p, i)
    BY <1>1, <1>2, <1>3, <1>4, SeqFacts DEF TypeOK, Row, Count
  <1>8. \A i \in Inode : p \in Pending(i)' <=> p \in Pending(i)
    BY <1>1, <1>3, <1>4 DEF Pending
  <1>9. Private(p)'
    <2>1. Shape(p)'
      BY <1>4, SeqFacts DEF Shape
    <2>2. Keeps(p)'
      BY <1>4 DEF Keeps
    <2>3. \A i \in Inode : Uses(p, i)' => Uses(p, i)
      BY <1>1, <1>2, <1>3, <1>4, SeqFacts DEF Uses, InCwd, InFile, InIp, InDp, InPuts, TypeOK
    <2>4. Allocated(p)'
      BY <1>1, <1>3, <2>3 DEF Allocated
    <2> QED
      BY <2>1, <2>2, <2>4 DEF Private
  <1> QED
    BY <1>3, <1>5, <1>6, <1>7, <1>8, <1>9, QuietInv

LEMMA SetCwdInv ==
  ASSUME Inv, NEW p \in Proc, SetCwd(p)
  PROVE  Inv'
  <1>1. /\ TypeOK /\ Shape(p) /\ Allocated(p)
        /\ Root \in Inode /\ None \notin Inode /\ frame[p] \in Frames /\ cwd[p] \in Inode
    BY Basics
  <1>2. PICK i0 \in Inode : i0 = frame[p].ip
    BY <1>1 DEF TypeOK, SetCwd, At, Shape, Frames
  <1>3. /\ frame[p].pc = "setcwd" /\ frame[p].puts = <<>> /\ frame[p].dp = None
        /\ UNCHANGED <<dinode, ref, valid, lock, file>>
        /\ cwd' = [cwd EXCEPT ![p] = i0]
        /\ frame' = [frame EXCEPT ![p] = Frame("idle", NoCall, None, None, <<>>, <<>>)]
    BY <1>1, <1>2 DEF SetCwd, At, Shape, Idle, Become
  <1>4. /\ frame' \in [Proc -> Frames]
        /\ \A q \in Proc : q # p => frame'[q] = frame[q]
        /\ frame'[p].pc = "idle" /\ frame'[p].ip = None /\ frame'[p].dp = None
        /\ frame'[p].puts = <<>> /\ ~frame'[p].dropping
    <2>1. Frame("idle", NoCall, None, None, <<>>, <<>>) \in Frames
      BY <1>1, SeqFacts, FrameType
    <2>2. /\ frame' \in [Proc -> Frames] /\ frame'[p] = Frame("idle", NoCall, None, None, <<>>, <<>>)
          /\ \A q \in Proc : q # p => frame'[q] = frame[q]
      BY <1>1, <1>3, <2>1, Became
    <2> QED
      BY <2>2, Fields
  <1>5. TypeOK'
    BY <1>1, <1>3, <1>4 DEF TypeOK
  <1>6. OthersStay(p)
    BY <1>1, <1>3, <1>4 DEF OthersStay, TypeOK
  <1>7. \A i \in Inode : ref'[i] = ref[i] + Row(p, i)' - Row(p, i)
    BY <1>1, <1>2, <1>3, <1>4, SeqFacts DEF TypeOK, Row, Count
  <1>8. \A i \in Inode : p \in Pending(i)' <=> p \in Pending(i)
    BY <1>1, <1>3, <1>4 DEF Pending
  <1>9. Private(p)'
    <2>1. Shape(p)'
      BY <1>4, SeqFacts DEF Shape
    <2>2. Keeps(p)'
      BY <1>4 DEF Keeps
    <2>3. \A i \in Inode : Uses(p, i)' => Uses(p, i)
      BY <1>1, <1>2, <1>3, <1>4, SeqFacts DEF Uses, InCwd, InFile, InIp, InDp, InPuts, TypeOK
    <2>4. Allocated(p)'
      BY <1>1, <1>3, <2>3 DEF Allocated
    <2> QED
      BY <2>1, <2>2, <2>4 DEF Private
  <1> QED
    BY <1>3, <1>5, <1>6, <1>7, <1>8, <1>9, QuietInv

LEMMA PutDropInv ==
  ASSUME Inv, NEW p \in Proc, PutDrop(p)
  PROVE  Inv'
  <1>1. /\ TypeOK /\ Shape(p) /\ Keeps(p) /\ Allocated(p)
        /\ Root \in Inode /\ None \notin Inode /\ frame[p] \in Frames /\ cwd[p] \in Inode
    BY Basics
  <1>2. /\ frame[p].puts \in Seq(Inode) /\ frame[p].puts # <<>> /\ Len(frame[p].puts) <= 2
        /\ frame[p].dropping
    BY <1>1 DEF PutDrop, Shape, Frames
  <1>3. PICK i0 \in Inode : i0 = Head(frame[p].puts) /\ i0 = frame[p].puts[1]
    BY <1>2
  <1>4. /\ ref' = [ref EXCEPT ![i0] = @ - 1]
        /\ valid' = [valid EXCEPT ![i0] = @ /\ ref[i0] > 1]
        /\ UNCHANGED <<dinode, lock, cwd, file>>
    BY <1>3 DEF PutDrop
  <1>5. /\ frame' \in [Proc -> Frames]
        /\ \A q \in Proc : q # p => frame'[q] = frame[q]
        /\ frame'[p].pc = frame[p].pc /\ frame'[p].ip = frame[p].ip /\ frame'[p].dp = frame[p].dp
        /\ frame'[p].call = frame[p].call /\ frame'[p].path = frame[p].path
        /\ frame'[p].puts = Tail(frame[p].puts) /\ ~frame'[p].dropping
    <2>1. PICK b \in BOOLEAN : b = FALSE
      OBVIOUS
    <2>2. frame' = [frame EXCEPT ![p].dropping = b, ![p].puts = Tail(@)]
      BY <2>1 DEF PutDrop
    <2>3. Tail(frame[p].puts) \in Seq(Inode)
      BY <1>2
    <2> QED
      BY <1>1, <2>1, <2>2, <2>3 DEF TypeOK, Frames
  <1>6. /\ Len(frame[p].puts) >= 1
        /\ Len(frame'[p].puts) = Len(frame[p].puts) - 1
        /\ Len(frame'[p].puts) >= 1 => frame'[p].puts[1] = frame[p].puts[2]
    BY <1>2, <1>5
  <1>7. ref[i0] \in Nat /\ ref[i0] >= 1
    <2>1. p \in InPuts(i0, 1)
      BY <1>2, <1>3, <1>6 DEF InPuts
    <2> QED
      BY <1>1, <2>1, Held DEF Inv, TypeOK
  <1>8. TypeOK'
    BY <1>1, <1>4, <1>5, <1>7 DEF TypeOK
  <1>9. OthersStay(p)
    BY <1>4, <1>5 DEF OthersStay
  <1>10. \A i \in Inode : ref'[i] = ref[i] + Row(p, i)' - Row(p, i)
    BY <1>1, <1>2, <1>3, <1>4, <1>5, <1>6, SMTT(30) DEF TypeOK, Row, Count
  <1>11. \A i \in Inode : p \in Pending(i)' <=> p \in Pending(i)
    BY <1>5 DEF Pending
  <1>12. Private(p)'
    <2>1. Shape(p)'
      BY <1>1, <1>2, <1>5, <1>6 DEF Shape
    <2>2. Keeps(p)'
      BY <1>1, <1>4, <1>5 DEF Keeps, IsDir, NameOf
    <2>3. \A i \in Inode : Uses(p, i)' => Uses(p, i)
      <3>1. ASSUME NEW i \in Inode PROVE p \in InPuts(i, 1)' => p \in InPuts(i, 2)
        BY <1>2, <1>6 DEF InPuts
      <3>2. ASSUME NEW i \in Inode PROVE p \notin InPuts(i, 2)'
        BY <1>2, <1>6 DEF InPuts
      <3>3. ASSUME NEW i \in Inode
            PROVE  p \in (InCwd(i) \cup InFile(i) \cup InIp(i) \cup InDp(i))'
                     => p \in InCwd(i) \cup InFile(i) \cup InIp(i) \cup InDp(i)
        BY <1>4, <1>5 DEF InCwd, InFile, InIp, InDp
      <3> QED
        BY <3>1, <3>2, <3>3 DEF Uses
    <2>4. Allocated(p)'
      BY <1>1, <1>4, <2>3 DEF Allocated
    <2> QED
      BY <2>1, <2>2, <2>4 DEF Private
  <1> QED
    BY <1>4, <1>8, <1>9, <1>10, <1>11, <1>12, QuietInv

(* Where a lookup that fails leaves its frame.                             *)
LEMMA FailedFrame ==
  ASSUME Inv, NEW p \in Proc, NEW i \in Inode, LookupFails(p, <<i>>)
  PROVE  /\ frame' \in [Proc -> Frames]
         /\ \A q \in Proc : q # p => frame'[q] = frame[q]
         /\ Len(frame'[p].puts) = 1 /\ frame'[p].puts[1] = i /\ ~frame'[p].dropping
         /\ frame'[p].dp = None /\ frame'[p].ip = frame[p].dp
         /\ frame[p].dp = None => frame'[p].pc = "idle"
         /\ frame[p].dp # None => frame'[p].pc = "unlinkold"
  <1>1. TypeOK /\ frame[p] \in Frames
    BY Basics
  <1>2. CASE frame[p].dp = None
    <2>1. Frame("idle", NoCall, None, None, <<>>, <<i>>) \in Frames
      BY <1>1, SeqFacts, FrameType
    <2>2. frame' = [frame EXCEPT ![p] = Frame("idle", NoCall, None, None, <<>>, <<i>>)]
      BY <1>2 DEF LookupFails, Become, Idle
    <2>3. /\ frame' \in [Proc -> Frames] /\ frame'[p] = Frame("idle", NoCall, None, None, <<>>, <<i>>)
          /\ \A q \in Proc : q # p => frame'[q] = frame[q]
      BY <1>1, <2>1, <2>2, Became
    <2> QED
      BY <1>2, <2>3, Fields, SeqFacts
  <1>3. CASE frame[p].dp # None
    <2>0. PICK d \in Inode, c \in Calls \cup {NoCall} : d = frame[p].dp /\ c = frame[p].call
      BY <1>1, <1>3 DEF Frames
    <2>1. Frame("unlinkold", c, d, None, <<>>, <<i>>) \in Frames
      BY <1>1, SeqFacts, FrameType
    <2>2. frame' = [frame EXCEPT ![p] = Frame("unlinkold", c, d, None, <<>>, <<i>>)]
      BY <1>3, <2>0 DEF LookupFails, Become
    <2>3. /\ frame' \in [Proc -> Frames] /\ frame'[p] = Frame("unlinkold", c, d, None, <<>>, <<i>>)
          /\ \A q \in Proc : q # p => frame'[q] = frame[q]
      BY <1>1, <2>1, <2>2, Became
    <2> QED
      BY <1>3, <2>0, <2>3, Fields, SeqFacts
  <1> QED
    BY <1>2, <1>3

(* A call that fails puts its inode and forgets its lookup.                 *)
LEMMA FailedInv ==
  ASSUME Inv, NEW p \in Proc, TypeOK', UNCHANGED <<dinode, ref, cwd, file>>,
         NEW i0 \in Inode, i0 = frame[p].ip, frame[p].puts = <<>>,
         frame[p].pc \notin {"setcwd", "unlinkold", "unlink"}, LookupFails(p, <<i0>>),
         \A q \in Proc \ {p}, i \in Inode : lock[i] = q => lock'[i] = q
  PROVE  Inv'
  <1>1. /\ TypeOK /\ Shape(p) /\ Keeps(p) /\ Allocated(p)
        /\ Root \in Inode /\ None \notin Inode /\ frame[p] \in Frames /\ cwd[p] \in Inode
    BY Basics
  <1>2. /\ frame' \in [Proc -> Frames]
        /\ \A q \in Proc : q # p => frame'[q] = frame[q]
        /\ Len(frame'[p].puts) = 1 /\ frame'[p].puts[1] = i0 /\ ~frame'[p].dropping
        /\ frame'[p].dp = None /\ frame'[p].ip = frame[p].dp
        /\ frame[p].dp = None => frame'[p].pc = "idle"
        /\ frame[p].dp # None => frame'[p].pc = "unlinkold"
    BY FailedFrame
  <1>3. frame'[p].pc \in {"idle", "unlinkold"}
    BY <1>2
  <1>4. OthersStay(p)
    BY <1>2 DEF OthersStay
  <1>5. \A i \in Inode : ref'[i] = ref[i] + Row(p, i)' - Row(p, i)
    BY <1>1, <1>2, <1>3, SeqFacts DEF TypeOK, Row, Count
  <1>6. \A i \in Inode : p \in Pending(i)' <=> p \in Pending(i)
    BY <1>1, <1>2 DEF Pending
  <1>7. Private(p)'
    <2>1. Shape(p)'
      BY <1>2, <1>3, SeqFacts DEF Shape
    <2>2. Keeps(p)'
      BY <1>1, <1>2, <1>3 DEF Keeps, IsDir
    <2>3. \A i \in Inode : Uses(p, i)' => Uses(p, i)
      BY <1>1, <1>2, <1>3, SeqFacts DEF Uses, InCwd, InFile, InIp, InDp, InPuts
    <2>4. Allocated(p)'
      BY <1>1, <2>3 DEF Allocated
    <2> QED
      BY <2>1, <2>2, <2>4 DEF Private
  <1> QED
    BY <1>4, <1>5, <1>6, <1>7, QuietInv

LEMMA UnlockDirInv ==
  ASSUME Inv, NEW p \in Proc, UnlockDir(p)
  PROVE  Inv'
  <1>1. /\ TypeOK /\ Shape(p) /\ Keeps(p)
        /\ None \notin Inode /\ frame[p] \in Frames
    BY Basics
  <1>2. PICK i0 \in Inode : i0 = frame[p].ip
    BY <1>1 DEF UnlockDir, At, Shape, Frames
  <1>3. /\ lock' = [lock EXCEPT ![i0] = Free] /\ lock[i0] = p
        /\ LookupFails(p, <<i0>>) /\ frame[p].puts = <<>> /\ frame[p].pc = "unlockdir"
        /\ UNCHANGED <<dinode, ref, valid, cwd, file>>
    BY <1>1, <1>2 DEF UnlockDir, At, Keeps
  <1>4. TypeOK'
    BY <1>1, <1>3, FailedFrame DEF TypeOK
  <1>5. \A q \in Proc \ {p}, i \in Inode : lock[i] = q => lock'[i] = q
    BY <1>1, <1>3 DEF TypeOK
  <1> QED
    BY <1>2, <1>3, <1>4, <1>5, FailedInv

(* A name leads to an inode that has a link, and never to the root.         *)
LEMMA Named ==
  ASSUME Inv, NEW d \in Inode, NEW n \in Name, NEW i \in Inode, dinode[d].ent[n] = i
  PROVE  dinode[i].nlink >= 1 /\ dinode[i].type # "none" /\ i # Root
  <1>1. <<d, n>> \in EntriesOf(i) /\ IsFiniteSet(EntriesOf(i))
    BY Finite, FS_Subset DEF EntriesOf
  <1>2. Cardinality(EntriesOf(i)) \in Nat /\ Cardinality(EntriesOf(i)) # 0
    BY <1>1, FS_CardinalityType, FS_EmptySet
  <1>3. IsFiniteSet(Children(i))
    <2>1. Children(i) \subseteq Inode
      BY DEF Children
    <2> QED
      BY <2>1, Finite, FS_Subset
  <1>4. Cardinality(Children(i)) \in Nat /\ Cardinality(Pending(i)) \in Nat
    BY <1>3, FiniteHolders, FS_CardinalityType
  <1>5. dinode[i].nlink \in Nat /\ RootName(i) \in Nat
    BY DEF Inv, TypeOK, RootName, Dinodes
  <1>6. dinode[i].nlink >= 1
    <2>1. Cardinality(EntriesOf(i)) + Cardinality(Children(i)) + Cardinality(Pending(i))
            + RootName(i) <= dinode[i].nlink
      BY DEF Inv, Counted
    <2> QED
      BY <1>2, <1>4, <1>5, <2>1
  <1> QED
    BY <1>1, <1>6 DEF Inv, Disk

LEMMA PathFacts ==
  ASSUME NEW path \in Seq(Name), path # <<>>
  PROVE  /\ Head(path) \in Name /\ Tail(path) \in Seq(Name)
         /\ Tail(path) = <<>> => Len(path) = 1
  <1>1. Head(path) \in Name /\ Tail(path) \in Seq(Name) /\ Len(Tail(path)) = Len(path) - 1
    OBVIOUS
  <1>2. Len(path) \in Nat
    OBVIOUS
  <1>3. ASSUME Tail(path) = <<>> PROVE Len(path) = 1
    <2>1. Len(Tail(path)) = Len(<<>>)
      BY <1>3, Zenon
    <2>2. Len(<<>>) = 0
      OBVIOUS
    <2>3. Len(Tail(path)) = 0
      BY <2>1, <2>2, Zenon
    <2>4. Len(Tail(path)) = Len(path) - 1
      BY <1>1
    <2>5. \A m, k : m = 0 /\ m = k - 1 /\ k \in Nat => k = 1
      OBVIOUS
    <2> QED
      BY <1>2, <2>3, <2>4, <2>5, Zenon
  <1> QED
    BY <1>1, <1>3

LEMMA WalkInv ==
  ASSUME Inv, NEW p \in Proc, Walk(p)
  PROVE  Inv'
  <1>1. /\ TypeOK /\ Shape(p) /\ Keeps(p) /\ Allocated(p)
        /\ Root \in Inode /\ None \notin Inode /\ frame[p] \in Frames /\ cwd[p] \in Inode
    BY Basics
  <1>2. PICK i0 \in Inode : i0 = frame[p].ip
    BY <1>1 DEF Walk, At, Shape, Frames
  <1>3. /\ frame[p].pc = "walk" /\ frame[p].puts = <<>> /\ frame[p].path # <<>>
        /\ frame[p].path \in Seq(Name) /\ frame[p].call \in Calls \cup {NoCall}
        /\ frame[p].dp \in Inode \cup {None}
        /\ valid' = [valid EXCEPT ![i0] = TRUE] /\ UNCHANGED <<dinode, lock, cwd, file>>
    BY <1>1, <1>2 DEF Walk, At, Shape, Frames, Loaded
  <1>4. CASE LookupFails(p, <<i0>>) /\ UNCHANGED ref
    <2>1. TypeOK'
      BY <1>1, <1>3, <1>4, FailedFrame DEF TypeOK
    <2> QED
      BY <1>2, <1>3, <1>4, <2>1, FailedInv
  <1>5. CASE StopsEarly(frame[p]) /\ Become(p, [frame[p] EXCEPT !.pc = "found"]) /\ UNCHANGED ref
    <2>1. /\ frame' \in [Proc -> Frames]
          /\ \A q \in Proc : q # p => frame'[q] = frame[q]
          /\ frame'[p].pc = "found" /\ frame'[p].ip = frame[p].ip /\ frame'[p].dp = frame[p].dp
          /\ frame'[p].call = frame[p].call /\ frame'[p].path = frame[p].path
          /\ frame'[p].puts = <<>> /\ frame'[p].dropping = frame[p].dropping
      BY <1>1, <1>3, <1>5 DEF Become, TypeOK, Frames
    <2>2. TypeOK'
      BY <1>1, <1>3, <1>5, <2>1 DEF TypeOK
    <2>3. OthersStay(p)
      BY <1>3, <2>1 DEF OthersStay
    <2>4. \A i \in Inode : ref'[i] = ref[i] + Row(p, i)' - Row(p, i)
      BY <1>1, <1>3, <1>5, <2>1, SeqFacts DEF TypeOK, Row, Count
    <2>5. \A i \in Inode : p \in Pending(i)' <=> p \in Pending(i)
      BY <1>3, <2>1 DEF Pending
    <2>6. Private(p)'
      <3>1. Shape(p)'
        BY <1>1, <1>3, <2>1, SeqFacts DEF Shape
      <3>2. Keeps(p)'
        BY <1>1, <1>3, <2>1 DEF Keeps, IsDir
      <3>3. \A i \in Inode : Uses(p, i)' => Uses(p, i)
        BY <1>3, <2>1, SeqFacts DEF Uses, InCwd, InFile, InIp, InDp, InPuts
      <3>4. Allocated(p)'
        BY <1>1, <1>3, <3>3 DEF Allocated
      <3> QED
        BY <3>1, <3>2, <3>4 DEF Private
    <2> QED
      BY <1>3, <2>2, <2>3, <2>4, <2>5, <2>6, QuietInv
  <1>6. ASSUME NEW next \in Inode, next = dinode[i0].ent[NameOf(p)], ~StopsEarly(frame[p]),
               IgetTo(next),
               Become(p, Frame(Searching(Tail(frame[p].path)), frame[p].call, next, frame[p].dp,
                               Tail(frame[p].path), <<i0>>))
        PROVE  Inv'
    <2>1. Tail(frame[p].path) \in Seq(Name) /\ NameOf(p) \in Name
      BY <1>3, PathFacts DEF NameOf
    <2>2. PICK pc \in {"walk", "found"} :
            /\ pc = Searching(Tail(frame[p].path))
            /\ pc = "walk" => Tail(frame[p].path) # <<>>
            /\ pc = "found" => Tail(frame[p].path) = <<>>
      BY DEF Searching
    <2>3. PICK c \in Calls \cup {NoCall}, dp \in Inode \cup {None}, path \in Seq(Name) :
            c = frame[p].call /\ dp = frame[p].dp /\ path = Tail(frame[p].path)
      BY <1>3, <2>1
    <2>4. /\ frame' \in [Proc -> Frames]
          /\ \A q \in Proc : q # p => frame'[q] = frame[q]
          /\ frame'[p].pc = pc /\ frame'[p].call = c /\ frame'[p].ip = next /\ frame'[p].dp = dp
          /\ frame'[p].path = path
          /\ Len(frame'[p].puts) = 1 /\ frame'[p].puts[1] = i0 /\ ~frame'[p].dropping
      <3>1. Frame(pc, c, next, dp, path, <<i0>>) \in Frames
        BY SeqFacts, FrameType
      <3>2. /\ frame' \in [Proc -> Frames] /\ frame'[p] = Frame(pc, c, next, dp, path, <<i0>>)
            /\ \A q \in Proc : q # p => frame'[q] = frame[q]
        BY <1>1, <1>6, <2>2, <2>3, <3>1, Became DEF Become
      <3> QED
        BY <3>2, Fields, SeqFacts
    <2>5. ref' = [ref EXCEPT ![next] = @ + 1]
      BY <1>6 DEF IgetTo
    <2>6. TypeOK'
      BY <1>1, <1>3, <2>4, <2>5 DEF TypeOK
    <2>7. OthersStay(p)
      BY <1>3, <2>4 DEF OthersStay
    <2>8. \A i \in Inode : ref'[i] = ref[i] + Row(p, i)' - Row(p, i)
      BY <1>1, <1>2, <1>3, <2>3, <2>4, <2>5, SeqFacts DEF TypeOK, Row, Count
    <2>9. \A i \in Inode : p \in Pending(i)' <=> p \in Pending(i)
      BY <1>3, <2>3, <2>4 DEF Pending
    <2>10. Private(p)'
      <3>1. pc = "found" => ~ByParent(c.op) /\ dp = None
        <4>1. Tail(frame[p].path) = <<>> => Len(frame[p].path) = 1
          BY <1>3, PathFacts
        <4> QED
          BY <1>6, <2>2, <2>3, <4>1 DEF StopsEarly
      <3>2. dp # None => c.op = "link"
        BY <1>1, <1>3, <2>3 DEF Shape
      <3>3. Shape(p)'
        BY <1>1, <2>2, <2>3, <2>4, <3>1, <3>2, SeqFacts DEF Shape
      <3>4. Keeps(p)'
        BY <1>1, <1>3, <2>2, <2>3, <2>4 DEF Keeps, IsDir
      <3>5. \A i \in Inode : Uses(p, i)' => i = next \/ Uses(p, i)
        BY <1>2, <1>3, <2>2, <2>3, <2>4, SeqFacts DEF Uses, InCwd, InFile, InIp, InDp, InPuts
      <3>6. dinode[next].type # "none"
        BY <1>6, <2>1, Named
      <3>7. Allocated(p)'
        BY <1>1, <1>3, <3>5, <3>6 DEF Allocated
      <3> QED
        BY <3>3, <3>4, <3>7 DEF Private
    <2> QED
      BY <1>3, <2>6, <2>7, <2>8, <2>9, <2>10, QuietInv
  <1>7. dinode[i0].ent[NameOf(p)] \in Inode \cup {None}
    BY <1>1, <1>3, PathFacts DEF TypeOK, NameOf, Dinodes
  <1> QED
    BY <1>2, <1>4, <1>5, <1>6, <1>7 DEF Walk

LEMMA ExistsInv ==
  ASSUME Inv, NEW p \in Proc, Exists(p)
  PROVE  Inv'
  <1>1. /\ TypeOK /\ Shape(p) /\ Keeps(p) /\ Allocated(p)
        /\ Root \in Inode /\ None \notin Inode /\ Free \notin Proc /\ frame[p] \in Frames
        /\ cwd[p] \in Inode
    BY Basics
  <1>2. PICK i0 \in Inode : i0 = frame[p].ip
    BY <1>1 DEF Exists, At, Shape, Frames
  <1>3. /\ frame[p].pc = "exists" /\ frame[p].puts = <<>> /\ frame[p].dp = None
        /\ lock[i0] \in {Free, p}
        /\ valid' = [valid EXCEPT ![i0] = TRUE] /\ UNCHANGED <<dinode, ref, cwd, file>>
    BY <1>1, <1>2 DEF Exists, At, Shape, CanLock, Loaded
  <1>4. PICK b \in {p, Free} : lock' = [lock EXCEPT ![i0] = b]
    BY <1>2 DEF Exists
  <1>5. \A q \in Proc \ {p}, i \in Inode : lock[i] = q => lock'[i] = q
    BY <1>1, <1>3, <1>4 DEF TypeOK
  <1>6. CASE Fails(p, <<i0>>)
    <2>1. LookupFails(p, <<i0>>)
      BY <1>3, <1>6 DEF LookupFails, Fails
    <2>2. TypeOK'
      BY <1>1, <1>3, <1>4, <2>1, FailedFrame DEF TypeOK
    <2> QED
      BY <1>2, <1>3, <1>5, <2>1, <2>2, FailedInv
  <1>7. CASE Become(p, [frame[p] EXCEPT !.pc = "got"])
    <2>1. /\ frame' \in [Proc -> Frames]
          /\ \A q \in Proc : q # p => frame'[q] = frame[q]
          /\ frame'[p].pc = "got" /\ frame'[p].ip = frame[p].ip /\ frame'[p].dp = None
          /\ frame'[p].puts = <<>> /\ frame'[p].dropping = frame[p].dropping
      BY <1>1, <1>3, <1>7 DEF Become, TypeOK, Frames
    <2>2. TypeOK'
      BY <1>1, <1>3, <1>4, <2>1 DEF TypeOK
    <2>3. OthersStay(p)
      BY <1>3, <1>5, <2>1 DEF OthersStay
    <2>4. \A i \in Inode : ref'[i] = ref[i] + Row(p, i)' - Row(p, i)
      BY <1>1, <1>3, <2>1, SeqFacts DEF TypeOK, Row, Count
    <2>5. \A i \in Inode : p \in Pending(i)' <=> p \in Pending(i)
      BY <1>1, <1>3, <2>1 DEF Pending
    <2>6. Private(p)'
      <3>1. Shape(p)'
        BY <1>1, <1>2, <1>3, <2>1, SeqFacts DEF Shape
      <3>2. Keeps(p)'
        BY <2>1 DEF Keeps
      <3>3. \A i \in Inode : Uses(p, i)' => Uses(p, i)
        BY <1>3, <2>1, SeqFacts DEF Uses, InCwd, InFile, InIp, InDp, InPuts
      <3>4. Allocated(p)'
        BY <1>1, <1>3, <3>3 DEF Allocated
      <3> QED
        BY <3>1, <3>2, <3>4 DEF Private
    <2> QED
      BY <1>3, <2>2, <2>3, <2>4, <2>5, <2>6, QuietInv
  <1> QED
    BY <1>2, <1>6, <1>7 DEF Exists

LEMMA GotInv ==
  ASSUME Inv, NEW p \in Proc, Got(p)
  PROVE  Inv'
  <1>1. /\ TypeOK /\ Shape(p) /\ Keeps(p) /\ Allocated(p)
        /\ Root \in Inode /\ None \notin Inode /\ Free \notin Proc /\ frame[p] \in Frames
        /\ cwd[p] \in Inode
    BY Basics
  <1>2. PICK i0 \in Inode : i0 = frame[p].ip
    BY <1>1 DEF Got, At, Shape, Frames
  <1>3. /\ frame[p].pc \in {"got", "found"} /\ frame[p].puts = <<>> /\ frame[p].dp = None
        /\ lock[i0] \in {Free, p} /\ lock' = [lock EXCEPT ![i0] = Free]
        /\ valid' = [valid EXCEPT ![i0] = TRUE] /\ UNCHANGED <<dinode, ref, cwd>>
    BY <1>1, <1>2 DEF Got, At, Shape, CanLock, Loaded
  <1>4. \A q \in Proc \ {p}, i \in Inode : lock[i] = q => lock'[i] = q
    BY <1>1, <1>3 DEF TypeOK
  <1>5. CASE file' = file /\ Become(p, Idle(<<i0>>))
    <2>1. LookupFails(p, <<i0>>)
      BY <1>3, <1>5 DEF LookupFails
    <2>2. TypeOK'
      BY <1>1, <1>3, <1>5, <2>1, FailedFrame DEF TypeOK
    <2> QED
      BY <1>2, <1>3, <1>4, <1>5, <2>1, <2>2, FailedInv
  <1>6. CASE file[p] = None /\ file' = [file EXCEPT ![p] = i0] /\ Become(p, Idle(<<>>))
    <2>1. /\ frame' \in [Proc -> Frames]
          /\ \A q \in Proc : q # p => frame'[q] = frame[q]
          /\ frame'[p].pc = "idle" /\ frame'[p].ip = None /\ frame'[p].dp = None
          /\ frame'[p].puts = <<>> /\ ~frame'[p].dropping
      <3>1. Frame("idle", NoCall, None, None, <<>>, <<>>) \in Frames
        BY <1>1, SeqFacts, FrameType
      <3>2. /\ frame' \in [Proc -> Frames] /\ frame'[p] = Frame("idle", NoCall, None, None, <<>>, <<>>)
            /\ \A q \in Proc : q # p => frame'[q] = frame[q]
        BY <1>1, <1>6, <3>1, Became DEF Become, Idle
      <3> QED
        BY <3>2, Fields
    <2>2. TypeOK'
      BY <1>1, <1>3, <1>6, <2>1 DEF TypeOK
    <2>3. OthersStay(p)
      BY <1>1, <1>3, <1>4, <1>6, <2>1 DEF OthersStay, TypeOK
    <2>4. \A i \in Inode : ref'[i] = ref[i] + Row(p, i)' - Row(p, i)
      BY <1>1, <1>2, <1>3, <1>6, <2>1, SeqFacts DEF TypeOK, Row, Count
    <2>5. \A i \in Inode : p \in Pending(i)' <=> p \in Pending(i)
      BY <1>1, <1>3, <2>1 DEF Pending
    <2>6. Private(p)'
      <3>1. Shape(p)'
        BY <2>1, SeqFacts DEF Shape
      <3>2. Keeps(p)'
        BY <2>1 DEF Keeps
      <3>3. \A i \in Inode : Uses(p, i)' => Uses(p, i)
        BY <1>1, <1>2, <1>3, <1>6, <2>1, SeqFacts
           DEF Uses, InCwd, InFile, InIp, InDp, InPuts, TypeOK
      <3>4. Allocated(p)'
        BY <1>1, <1>3, <3>3 DEF Allocated
      <3> QED
        BY <3>1, <3>2, <3>4 DEF Private
    <2> QED
      BY <1>3, <2>2, <2>3, <2>4, <2>5, <2>6, QuietInv
  <1> QED
    BY <1>2, <1>5, <1>6 DEF Got

LEMMA ChdirInv ==
  ASSUME Inv, NEW p \in Proc, Chdir(p)
  PROVE  Inv'
  <1>1. /\ TypeOK /\ Shape(p) /\ Keeps(p) /\ Allocated(p)
        /\ Root \in Inode /\ None \notin Inode /\ Free \notin Proc /\ frame[p] \in Frames
        /\ cwd[p] \in Inode
    BY Basics
  <1>2. PICK i0 \in Inode : i0 = frame[p].ip
    BY <1>1 DEF Chdir, At, Shape, Frames
  <1>3. /\ frame[p].pc = "found" /\ frame[p].puts = <<>> /\ frame[p].dp = None
        /\ valid' = [valid EXCEPT ![i0] = TRUE] /\ UNCHANGED <<dinode, ref, lock, cwd, file>>
    BY <1>1, <1>2 DEF Chdir, At, Shape, Loaded
  <1>4. CASE Fails(p, <<i0>>)
    <2>1. LookupFails(p, <<i0>>)
      BY <1>3, <1>4 DEF LookupFails, Fails
    <2>2. TypeOK'
      BY <1>1, <1>3, <2>1, FailedFrame DEF TypeOK
    <2> QED
      BY <1>2, <1>3, <2>1, <2>2, FailedInv
  <1>5. CASE Become(p, Frame("setcwd", frame[p].call, i0, None, <<>>, OldCwd(p)))
    <2>1. PICK c \in Calls \cup {NoCall}, d \in Inode : c = frame[p].call /\ d = cwd[p]
      BY <1>1 DEF Frames
    <2>2. /\ frame' \in [Proc -> Frames]
          /\ \A q \in Proc : q # p => frame'[q] = frame[q]
          /\ frame'[p].pc = "setcwd" /\ frame'[p].ip = i0 /\ frame'[p].dp = None
          /\ Len(frame'[p].puts) = 1 /\ frame'[p].puts[1] = d /\ ~frame'[p].dropping
      <3>1. Frame("setcwd", c, i0, None, <<>>, <<d>>) \in Frames
        BY <1>1, SeqFacts, FrameType
      <3>2. /\ frame' \in [Proc -> Frames] /\ frame'[p] = Frame("setcwd", c, i0, None, <<>>, <<d>>)
            /\ \A q \in Proc : q # p => frame'[q] = frame[q]
        BY <1>1, <1>5, <2>1, <3>1, Became DEF Become, OldCwd
      <3> QED
        BY <3>2, Fields, SeqFacts
    <2>3. TypeOK'
      BY <1>1, <1>3, <2>2 DEF TypeOK
    <2>4. OthersStay(p)
      BY <1>3, <2>2 DEF OthersStay
    <2>5. \A i \in Inode : ref'[i] = ref[i] + Row(p, i)' - Row(p, i)
      BY <1>1, <1>2, <1>3, <2>1, <2>2, SeqFacts DEF TypeOK, Row, Count
    <2>6. \A i \in Inode : p \in Pending(i)' <=> p \in Pending(i)
      BY <1>1, <1>3, <2>2 DEF Pending
    <2>7. Private(p)'
      <3>1. Shape(p)'
        BY <1>1, <2>2, SeqFacts DEF Shape
      <3>2. Keeps(p)'
        BY <2>2 DEF Keeps
      <3>3. \A i \in Inode : Uses(p, i)' => Uses(p, i)
        BY <1>1, <1>2, <1>3, <2>1, <2>2, SeqFacts DEF Uses, InCwd, InFile, InIp, InDp, InPuts
      <3>4. Allocated(p)'
        BY <1>1, <1>3, <3>3 DEF Allocated
      <3> QED
        BY <3>1, <3>2, <3>4 DEF Private
    <2> QED
      BY <1>3, <2>3, <2>4, <2>5, <2>6, <2>7, QuietInv
  <1> QED
    BY <1>2, <1>4, <1>5 DEF Chdir

LEMMA UnlinkFindInv ==
  ASSUME Inv, NEW p \in Proc, UnlinkFind(p)
  PROVE  Inv'
  <1>1. /\ TypeOK /\ Shape(p) /\ Keeps(p) /\ Allocated(p)
        /\ Root \in Inode /\ None \notin Inode /\ Free \notin Proc /\ frame[p] \in Frames
        /\ cwd[p] \in Inode
    BY Basics
  <1>2. PICK d \in Inode : d = frame[p].ip
    BY <1>1 DEF UnlinkFind, At, Shape, Frames
  <1>3. /\ frame[p].pc = "found" /\ frame[p].puts = <<>> /\ frame[p].dp = None
        /\ frame[p].path # <<>> /\ frame[p].path \in Seq(Name)
        /\ lock[d] \in {Free, p}
        /\ valid' = [valid EXCEPT ![d] = TRUE] /\ UNCHANGED <<dinode, cwd, file>>
    BY <1>1, <1>2 DEF UnlinkFind, At, Shape, Loaded, CanLock, ByParent, Frames
  <1>4. CASE Fails(p, <<d>>) /\ UNCHANGED <<lock, ref>>
    <2>1. LookupFails(p, <<d>>)
      BY <1>3, <1>4 DEF LookupFails, Fails
    <2>2. TypeOK'
      BY <1>1, <1>3, <1>4, <2>1, FailedFrame DEF TypeOK
    <2> QED
      BY <1>2, <1>3, <1>4, <2>1, <2>2, FailedInv
  <1>5. ASSUME NEW i0 \in Inode, i0 = dinode[d].ent[NameOf(p)],
               lock' = [lock EXCEPT ![d] = p], IgetTo(i0),
               Become(p, [frame[p] EXCEPT !.pc = "unlink", !.ip = i0, !.dp = d])
        PROVE  Inv'
    <2>1. NameOf(p) \in Name
      BY <1>3, PathFacts DEF NameOf
    <2>2. /\ frame' \in [Proc -> Frames]
          /\ \A q \in Proc : q # p => frame'[q] = frame[q]
          /\ frame'[p].pc = "unlink" /\ frame'[p].ip = i0 /\ frame'[p].dp = d
          /\ frame'[p].path = frame[p].path
          /\ frame'[p].puts = <<>> /\ frame'[p].dropping = frame[p].dropping
      BY <1>1, <1>3, <1>5 DEF Become, TypeOK, Frames
    <2>3. ref' = [ref EXCEPT ![i0] = @ + 1]
      BY <1>5 DEF IgetTo
    <2>4. TypeOK'
      BY <1>1, <1>3, <1>5, <2>2, <2>3 DEF TypeOK
    <2>5. OthersStay(p)
      BY <1>1, <1>3, <1>5, <2>2 DEF OthersStay, TypeOK
    <2>6. \A i \in Inode : ref'[i] = ref[i] + Row(p, i)' - Row(p, i)
      BY <1>1, <1>2, <1>3, <2>2, <2>3, SeqFacts DEF TypeOK, Row, Count
    <2>7. \A i \in Inode : p \in Pending(i)' <=> p \in Pending(i)
      BY <1>1, <1>3, <2>2 DEF Pending
    <2>8. Private(p)'
      <3>1. Shape(p)'
        BY <1>1, <1>3, <2>2, SeqFacts DEF Shape
      <3>2. Keeps(p)'
        <4>1. NameOf(p)' = NameOf(p)
          BY <2>2 DEF NameOf
        <4>2. lock'[d] = p /\ dinode'[d].ent[NameOf(p)] = i0
          BY <1>1, <1>3, <1>5 DEF TypeOK
        <4> QED
          BY <2>2, <4>1, <4>2 DEF Keeps
      <3>3. \A i \in Inode : Uses(p, i)' => i = i0 \/ Uses(p, i)
        BY <1>2, <1>3, <2>2, SeqFacts DEF Uses, InCwd, InFile, InIp, InDp, InPuts
      <3>4. dinode[i0].type # "none"
        BY <1>5, <2>1, Named
      <3>5. Allocated(p)'
        BY <1>1, <1>3, <3>3, <3>4 DEF Allocated
      <3> QED
        BY <3>1, <3>2, <3>5 DEF Private
    <2> QED
      BY <1>3, <2>4, <2>5, <2>6, <2>7, <2>8, QuietInv
  <1>6. dinode[d].ent[NameOf(p)] \in Inode \cup {None}
    BY <1>1, <1>3, PathFacts DEF TypeOK, NameOf, Dinodes
  <1> QED
    BY <1>2, <1>4, <1>5, <1>6 DEF UnlinkFind

(***************************************************************************)
(* The steps that change the inodes.                                       *)
(***************************************************************************)
LEMMA SetNlink ==
  ASSUME NEW d \in Dinodes, NEW n \in Nat
  PROVE  [d EXCEPT !.nlink = n] \in Dinodes
  BY DEF Dinodes

LEMMA SetEnt ==
  ASSUME NEW d \in Dinodes, NEW ent \in [Name -> Inode \cup {None}]
  PROVE  [d EXCEPT !.ent = ent] \in Dinodes
  BY DEF Dinodes

LEMMA SetDinode ==
  ASSUME TypeOK, NEW i \in Inode, NEW d \in Dinodes, dinode' = [dinode EXCEPT ![i] = d]
  PROVE  dinode' \in [Inode -> Dinodes]
  BY DEF TypeOK

LEMMA Sizes ==
  ASSUME NEW i \in Inode
  PROVE  /\ IsFiniteSet(EntriesOf(i)) /\ Cardinality(EntriesOf(i)) \in Nat
         /\ IsFiniteSet(Children(i)) /\ Cardinality(Children(i)) \in Nat
         /\ IsFiniteSet(Pending(i)) /\ Cardinality(Pending(i)) \in Nat
         /\ RootName(i) \in Nat
  <1>1. EntriesOf(i) \subseteq Inode \X Name /\ Children(i) \subseteq Inode
    BY DEF EntriesOf, Children
  <1>2. IsFiniteSet(EntriesOf(i)) /\ IsFiniteSet(Children(i)) /\ IsFiniteSet(Pending(i))
    BY <1>1, Finite, FS_Subset, FiniteHolders
  <1> QED
    BY <1>2, FS_CardinalityType DEF RootName

(* An inode without a link has no name, no call counts one, and it is not   *)
(* the root.                                                               *)
LEMMA Unlinked ==
  ASSUME Inv, NEW i \in Inode, dinode[i].nlink = 0
  PROVE  EntriesOf(i) = {} /\ Children(i) = {} /\ Pending(i) = {} /\ i # Root
  <1>1. Cardinality(EntriesOf(i)) + Cardinality(Children(i)) + Cardinality(Pending(i))
          + RootName(i) <= 0
    BY DEF Inv, Counted
  <1>2. /\ Cardinality(EntriesOf(i)) = 0 /\ Cardinality(Children(i)) = 0
        /\ Cardinality(Pending(i)) = 0 /\ RootName(i) = 0
    BY <1>1, Sizes
  <1> QED
    BY <1>2, Sizes, FS_EmptySet DEF RootName

(* A count that is still enough: with fewer names, or where a name, a child *)
(* or a pending link moves together with nlink.                            *)
LEMMA StillCounted ==
  ASSUME Inv, NEW i \in Inode, NEW e, NEW j, NEW p,
         dinode[i].nlink \in Nat, dinode'[i].nlink \in Nat,
         \A x : x # e => (x \in EntriesOf(i)' <=> x \in EntriesOf(i)),
         \A x : x # j => (x \in Children(i)' <=> x \in Children(i)),
         \A x : x # p => (x \in Pending(i)' <=> x \in Pending(i)),
         dinode'[i].nlink >= dinode[i].nlink
            + Count(e \in EntriesOf(i)') - Count(e \in EntriesOf(i))
            + Count(j \in Children(i)') - Count(j \in Children(i))
            + Count(p \in Pending(i)') - Count(p \in Pending(i))
  PROVE  Cardinality(EntriesOf(i)') + Cardinality(Children(i)') + Cardinality(Pending(i)')
           + RootName(i) <= dinode'[i].nlink
  <1>1. /\ Cardinality(EntriesOf(i)') \in Nat
        /\ Cardinality(EntriesOf(i)') = Cardinality(EntriesOf(i))
             + Count(e \in EntriesOf(i)') - Count(e \in EntriesOf(i))
    <2>1. IsFiniteSet(EntriesOf(i))
      BY Sizes
    <2> QED
      BY <2>1, OneMoves
  <1>2. /\ Cardinality(Children(i)') \in Nat
        /\ Cardinality(Children(i)') = Cardinality(Children(i))
             + Count(j \in Children(i)') - Count(j \in Children(i))
    <2>1. IsFiniteSet(Children(i))
      BY Sizes
    <2> QED
      BY <2>1, OneMoves
  <1>3. /\ Cardinality(Pending(i)') \in Nat
        /\ Cardinality(Pending(i)') = Cardinality(Pending(i))
             + Count(p \in Pending(i)') - Count(p \in Pending(i))
    <2>1. IsFiniteSet(Pending(i))
      BY Sizes
    <2> QED
      BY <2>1, OneMoves
  <1>4. Cardinality(EntriesOf(i)) + Cardinality(Children(i)) + Cardinality(Pending(i))
          + RootName(i) <= dinode[i].nlink
    BY DEF Inv, Counted
  <1>5. \A b : Count(b) \in Int
    BY DEF Count
  <1>6. \A a0, a1, b0, b1, c0, c1, r, n0, n1, e0, e1, j0, j1, p0, p1 \in Int :
          /\ a1 = a0 + e1 - e0 /\ b1 = b0 + j1 - j0 /\ c1 = c0 + p1 - p0
          /\ a0 + b0 + c0 + r <= n0
          /\ n1 >= n0 + e1 - e0 + j1 - j0 + p1 - p0
          => a1 + b1 + c1 + r <= n1
    OBVIOUS
  <1>7. /\ Cardinality(EntriesOf(i)) \in Int /\ Cardinality(EntriesOf(i)') \in Int
        /\ Cardinality(Children(i)) \in Int /\ Cardinality(Children(i)') \in Int
        /\ Cardinality(Pending(i)) \in Int /\ Cardinality(Pending(i)') \in Int
        /\ RootName(i) \in Int /\ dinode[i].nlink \in Int /\ dinode'[i].nlink \in Int
    BY <1>1, <1>2, <1>3, Sizes
  <1> QED
    BY <1>1, <1>2, <1>3, <1>4, <1>5, <1>6, <1>7, SMTT(30)

(* iput() leaves the count of references for later.                        *)
LEMMA PutCheckInv ==
  ASSUME Inv, NEW p \in Proc, PutCheck(p)
  PROVE  Inv'
  <1>1. /\ TypeOK /\ Shape(p) /\ Keeps(p) /\ Allocated(p)
        /\ Root \in Inode /\ None \notin Inode /\ Free \notin Proc /\ frame[p] \in Frames
        /\ cwd[p] \in Inode
    BY Basics
  <1>2. /\ frame[p].puts \in Seq(Inode) /\ frame[p].puts # <<>> /\ Len(frame[p].puts) >= 1
        /\ ~frame[p].dropping
    BY <1>1 DEF PutCheck, Frames
  <1>3. PICK i0 \in Inode : i0 = Head(frame[p].puts) /\ i0 = frame[p].puts[1]
    BY <1>2
  <1>4. lock[i0] = Free /\ UNCHANGED <<ref, lock, cwd, file>>
    BY <1>3 DEF PutCheck
  <1>5. /\ frame' \in [Proc -> Frames]
        /\ \A q \in Proc : q # p => frame'[q] = frame[q]
        /\ frame'[p].pc = frame[p].pc /\ frame'[p].ip = frame[p].ip /\ frame'[p].dp = frame[p].dp
        /\ frame'[p].call = frame[p].call /\ frame'[p].path = frame[p].path
        /\ frame'[p].puts = frame[p].puts /\ frame'[p].dropping
    <2>1. PICK b \in BOOLEAN : b = TRUE
      OBVIOUS
    <2>2. frame' = [frame EXCEPT ![p].dropping = b]
      BY <2>1 DEF PutCheck
    <2> QED
      BY <1>1, <2>1, <2>2 DEF TypeOK, Frames
  <1>6. \A i \in Inode : ref'[i] = ref[i] + Row(p, i)' - Row(p, i)
    BY <1>1, <1>4, <1>5 DEF TypeOK, Row, Count
  <1>7. \A i \in Inode : Pending(i)' = Pending(i)
    BY <1>5 DEF Pending
  <1>8. Shape(p)'
    BY <1>1, <1>2, <1>5 DEF Shape
  <1>9. \A i \in Inode : Uses(p, i)' => Uses(p, i)
    BY <1>4, <1>5 DEF Uses, InCwd, InFile, InIp, InDp, InPuts
  <1>10. CASE UNCHANGED <<dinode, valid>>
    <2>1. TypeOK'
      BY <1>1, <1>4, <1>5, <1>10 DEF TypeOK
    <2>2. OthersStay(p)
      BY <1>4, <1>5, <1>10 DEF OthersStay
    <2>3. Keeps(p)'
      BY <1>1, <1>4, <1>5, <1>10 DEF Keeps, IsDir, NameOf
    <2>4. Allocated(p)'
      BY <1>1, <1>9, <1>10 DEF Allocated
    <2>5. Private(p)'
      BY <1>8, <2>3, <2>4 DEF Private
    <2>6. \A i \in Inode : p \in Pending(i)' <=> p \in Pending(i)
      BY <1>7
    <2> QED
      BY <1>6, <1>10, <2>1, <2>2, <2>5, <2>6, QuietInv
  <1>11. CASE /\ dinode[i0].nlink = 0 /\ ref[i0] = 1
              /\ dinode' = [dinode EXCEPT ![i0] = FreeInode]
              /\ valid' \in [Inode -> BOOLEAN]
    <2>1. /\ p \in InPuts(i0, 1)
          /\ \A q \in Proc :
               /\ q \notin InCwd(i0) \cup InFile(i0) \cup InIp(i0) \cup InDp(i0) \cup InPuts(i0, 2)
               /\ q \in InPuts(i0, 1) => q = p
      <3>1. p \in InPuts(i0, 1)
        BY <1>2, <1>3 DEF InPuts
      <3> QED
        BY <1>11, <3>1, Held DEF Inv
    <2>2. EntriesOf(i0) = {} /\ Children(i0) = {} /\ Pending(i0) = {} /\ i0 # Root
      BY <1>11, Unlinked
    <2>3. /\ FreeInode.type = "none" /\ FreeInode.nlink = 0 /\ FreeInode.up = None
          /\ FreeInode.ent = NoNames
      BY DEF FreeInode
    <2>4. NoNames \in [Name -> Inode \cup {None}] /\ \A n \in Name : NoNames[n] = None
      BY DEF NoNames
    <2>5. \A i \in Inode : i # i0 => dinode'[i] = dinode[i]
      BY <1>1, <1>11 DEF TypeOK
    <2>6. dinode'[i0] = FreeInode
      BY <1>1, <1>11 DEF TypeOK
    <2>7. TypeOK'
      BY <1>1, <1>4, <1>5, <1>11, <2>4 DEF TypeOK, FreeInode, Dinodes
    <2>8. \A q \in Proc \ {p} : ~Uses(q, i0)
      BY <2>1 DEF Uses
    <2>9. ~Uses(p, i0)'
      <3>1. p \notin (InCwd(i0) \cup InFile(i0) \cup InIp(i0) \cup InDp(i0) \cup InPuts(i0, 2))'
        BY <1>4, <1>5, <2>1 DEF InCwd, InFile, InIp, InDp, InPuts
      <3> QED
        BY <1>5, <3>1 DEF Uses
    <2>10. OthersStay(p)
      BY <1>1, <1>4, <1>5, <2>5, <2>8 DEF OthersStay
    <2>11. Keeps(p)'
      <3>1. frame[p].ip # i0 /\ frame[p].dp # i0
        BY <2>1 DEF InIp, InDp
      <3>2. /\ frame[p].ip # None => dinode'[frame[p].ip] = dinode[frame[p].ip]
            /\ frame[p].dp # None => dinode'[frame[p].dp] = dinode[frame[p].dp]
        BY <1>1, <2>5, <3>1 DEF Frames
      <3> QED
        BY <1>1, <1>4, <1>5, <3>2 DEF Keeps, IsDir, NameOf, Shape
    <2>12. Allocated(p)'
      BY <1>1, <1>9, <2>5, <2>9 DEF Allocated
    <2>13. Private(p)'
      BY <1>8, <2>11, <2>12 DEF Private
    <2>14. \A i \in Inode : EntriesOf(i)' \subseteq EntriesOf(i)
      BY <1>1, <2>3, <2>4, <2>5, <2>6 DEF EntriesOf
    <2>15. \A i \in Inode : i # i0 => Children(i)' \subseteq Children(i)
      BY <2>3, <2>5, <2>6 DEF Children, IsDir
    <2>16. Children(i0)' = {}
      BY <1>1, <2>3, <2>4, <2>6 DEF Children
    <2>17. Disk'
      <3>1. \A i \in Inode : dinode'[i].type = "none" => dinode'[i].nlink = 0 /\ dinode'[i].ent = NoNames
        BY <2>3, <2>5, <2>6 DEF Inv, Disk
      <3>2. \A i \in Inode : IsDir(i)' /\ i # Root => dinode'[i].up # i
        BY <2>3, <2>5, <2>6 DEF Inv, Disk, IsDir
      <3>3. IsDir(Root)' /\ EntriesOf(Root)' = {}
        BY <1>1, <2>2, <2>5, <2>14 DEF Inv, Disk, IsDir
      <3> QED
        BY <3>1, <3>2, <3>3 DEF Disk
    <2>18. DirectoryTree'
      <3> SUFFICES ASSUME NEW i \in Inode, IsDir(i)', NEW e \in EntriesOf(i)'
                   PROVE  EntriesOf(i)' = {e} /\ dinode'[i].up = e[1]
        BY DEF DirectoryTree
      <3>1. i # i0 /\ IsDir(i) /\ dinode'[i] = dinode[i]
        BY <2>3, <2>5, <2>6 DEF IsDir
      <3>2. e \in EntriesOf(i)
        BY <2>14
      <3>3. EntriesOf(i) = {e} /\ dinode[i].up = e[1]
        BY <3>1, <3>2 DEF Inv, DirectoryTree
      <3> QED
        BY <2>14, <3>1, <3>3
    <2>19. Counted'
      <3> SUFFICES ASSUME NEW i \in Inode
                   PROVE  Cardinality(EntriesOf(i)') + Cardinality(Children(i)')
                            + Cardinality(Pending(i)') + RootName(i) <= dinode'[i].nlink
        BY DEF Counted, RootName
      <3>1. Children(i)' \subseteq Children(i)
        BY <2>2, <2>15, <2>16
      <3>2. /\ Cardinality(EntriesOf(i)') \in Nat
            /\ Cardinality(EntriesOf(i)') <= Cardinality(EntriesOf(i))
        BY <2>14, Sizes, FS_Subset, FS_CardinalityType
      <3>3. /\ Cardinality(Children(i)') \in Nat
            /\ Cardinality(Children(i)') <= Cardinality(Children(i))
        BY <3>1, Sizes, FS_Subset, FS_CardinalityType
      <3>4. Cardinality(Pending(i)') = Cardinality(Pending(i))
        BY <1>7
      <3>5. dinode'[i].nlink = dinode[i].nlink
        BY <1>11, <2>3, <2>5, <2>6
      <3>6. Cardinality(EntriesOf(i)) + Cardinality(Children(i)) + Cardinality(Pending(i))
              + RootName(i) <= dinode[i].nlink
        BY DEF Inv, Counted
      <3>7. dinode[i].nlink \in Nat
        BY <1>1 DEF TypeOK, Dinodes
      <3> QED
        BY <3>2, <3>3, <3>4, <3>5, <3>6, <3>7, Sizes
    <2> QED
      BY <1>6, <2>7, <2>10, <2>13, <2>17, <2>18, <2>19, StepInv
  <1> QED
    <2>1. LastRef(i0) => [valid EXCEPT ![i0] = FALSE] \in [Inode -> BOOLEAN]
      BY <1>1 DEF TypeOK
    <2> QED
      BY <1>3, <1>10, <1>11, <2>1 DEF PutCheck, LastRef

LEMMA UnlinkOldInv ==
  ASSUME Inv, NEW p \in Proc, UnlinkOld(p)
  PROVE  Inv'
  <1>1. /\ TypeOK /\ Shape(p) /\ Keeps(p) /\ Allocated(p)
        /\ Root \in Inode /\ None \notin Inode /\ Free \notin Proc /\ frame[p] \in Frames
        /\ cwd[p] \in Inode
    BY Basics
  <1>2. PICK i0 \in Inode : i0 = frame[p].ip
    BY <1>1 DEF UnlinkOld, At, Shape, Frames
  <1>3. /\ frame[p].pc = "unlinkold" /\ frame[p].puts = <<>> /\ frame[p].dp = None
        /\ lock[i0] \in {Free, p}
        /\ valid' = [valid EXCEPT ![i0] = TRUE]
        /\ dinode' = [dinode EXCEPT ![i0].nlink = @ - 1]
        /\ lock' = [lock EXCEPT ![i0] = Free]
        /\ frame' = [frame EXCEPT ![p] = Frame("idle", NoCall, None, None, <<>>, <<i0>>)]
        /\ UNCHANGED <<ref, cwd, file>>
    BY <1>1, <1>2 DEF UnlinkOld, At, Shape, CanLock, Loaded, Become, Idle
  <1>4. /\ frame' \in [Proc -> Frames]
        /\ \A q \in Proc : q # p => frame'[q] = frame[q]
        /\ frame'[p].pc = "idle" /\ frame'[p].ip = None /\ frame'[p].dp = None
        /\ Len(frame'[p].puts) = 1 /\ frame'[p].puts[1] = i0 /\ ~frame'[p].dropping
    <2>1. Frame("idle", NoCall, None, None, <<>>, <<i0>>) \in Frames
      BY <1>1, SeqFacts, FrameType
    <2>2. /\ frame' \in [Proc -> Frames]
          /\ frame'[p] = Frame("idle", NoCall, None, None, <<>>, <<i0>>)
          /\ \A q \in Proc : q # p => frame'[q] = frame[q]
      BY <1>1, <1>3, <2>1, Became
    <2> QED
      BY <2>2, Fields, SeqFacts
  <1>5. p \in Pending(i0) /\ dinode[i0].nlink \in Nat /\ dinode[i0].nlink # 0
    <2>1. p \in Pending(i0)
      BY <1>2, <1>3 DEF Pending
    <2> QED
      BY <1>1, <2>1, Unlinked DEF TypeOK, Dinodes
  <1>6. /\ \A i \in Inode : /\ dinode'[i].type = dinode[i].type /\ dinode'[i].up = dinode[i].up
                            /\ dinode'[i].ent = dinode[i].ent
        /\ \A i \in Inode : i # i0 => dinode'[i].nlink = dinode[i].nlink
        /\ dinode'[i0].nlink = dinode[i0].nlink - 1
    BY <1>1, <1>3 DEF TypeOK
  <1>7. TypeOK'
    <2>1. dinode' \in [Inode -> Dinodes]
      <3>1. dinode[i0] \in Dinodes /\ dinode[i0].nlink - 1 \in Nat
        BY <1>1, <1>5 DEF TypeOK, Dinodes
      <3>2. dinode' = [dinode EXCEPT ![i0] = [dinode[i0] EXCEPT !.nlink = dinode[i0].nlink - 1]]
        BY <1>1, <1>3 DEF TypeOK
      <3> QED
        BY <1>1, <3>1, <3>2, SetNlink DEF TypeOK
    <2> QED
      BY <1>1, <1>3, <1>4, <2>1 DEF TypeOK
  <1>8. OthersStay(p)
    BY <1>1, <1>3, <1>4, <1>6 DEF OthersStay, TypeOK
  <1>9. \A i \in Inode : ref'[i] = ref[i] + Row(p, i)' - Row(p, i)
    <2>1. /\ frame[p].pc = "unlinkold" /\ frame[p].puts = <<>> /\ frame[p].dp = None
          /\ ref' = ref /\ cwd' = cwd /\ file' = file
      BY <1>3
    <2> QED
      BY <1>1, <1>2, <1>4, <2>1, SeqFacts DEF TypeOK, Row, Count
  <1>10. Private(p)'
    <2>1. Shape(p)'
      BY <1>4, SeqFacts DEF Shape
    <2>2. Keeps(p)'
      BY <1>4 DEF Keeps
    <2>3. \A i \in Inode : Uses(p, i)' => Uses(p, i)
      BY <1>1, <1>2, <1>3, <1>4, SeqFacts DEF Uses, InCwd, InFile, InIp, InDp, InPuts
    <2>4. Allocated(p)'
      BY <1>1, <1>6, <2>3 DEF Allocated
    <2> QED
      BY <2>1, <2>2, <2>4 DEF Private
  <1>11. \A i \in Inode : EntriesOf(i)' = EntriesOf(i) /\ Children(i)' = Children(i)
    BY <1>6 DEF EntriesOf, Children, IsDir
  <1>12. Disk'
    <2>1. dinode[i0].type # "none"
      BY <1>1, <1>2 DEF Allocated, Uses, InIp
    <2> QED
      BY <1>1, <1>6, <1>11, <2>1 DEF Inv, Disk, IsDir
  <1>13. DirectoryTree'
    BY <1>6, <1>11 DEF Inv, DirectoryTree, IsDir
  <1>14. Counted'
    <2> SUFFICES ASSUME NEW i \in Inode
                 PROVE  Cardinality(EntriesOf(i)') + Cardinality(Children(i)')
                          + Cardinality(Pending(i)') + RootName(i) <= dinode'[i].nlink
      BY DEF Counted, RootName
    <2>1. \A x : x # p => (x \in Pending(i)' <=> x \in Pending(i))
      BY <1>4 DEF Pending
    <2>2. p \in Pending(i) <=> i = i0
      BY <1>1, <1>2, <1>3 DEF Pending
    <2>3. p \notin Pending(i)'
      BY <1>1, <1>4 DEF Pending
    <2>4. dinode[i].nlink \in Nat /\ dinode'[i].nlink \in Nat
      BY <1>1, <1>7 DEF TypeOK, Dinodes
    <2>5. dinode'[i].nlink >= dinode[i].nlink
            + Count(p \in EntriesOf(i)') - Count(p \in EntriesOf(i))
            + Count(p \in Children(i)') - Count(p \in Children(i))
            + Count(p \in Pending(i)') - Count(p \in Pending(i))
      BY <1>6, <1>11, <2>2, <2>3, <2>4 DEF Count
    <2> QED
      BY <1>11, <2>1, <2>4, <2>5, StillCounted
  <1> QED
    BY <1>7, <1>8, <1>9, <1>10, <1>12, <1>13, <1>14, StepInv

LEMMA LinkOldInv ==
  ASSUME Inv, NEW p \in Proc, LinkOld(p)
  PROVE  Inv'
  <1>1. /\ TypeOK /\ Shape(p) /\ Keeps(p) /\ Allocated(p)
        /\ Root \in Inode /\ None \notin Inode /\ Free \notin Proc /\ frame[p] \in Frames
        /\ cwd[p] \in Inode
    BY Basics
  <1>2. PICK i0 \in Inode : i0 = frame[p].ip
    BY <1>1 DEF LinkOld, At, Shape, Frames
  <1>3. /\ frame[p].pc = "found" /\ frame[p].puts = <<>> /\ frame[p].dp = None
        /\ valid' = [valid EXCEPT ![i0] = TRUE] /\ UNCHANGED <<lock, cwd, file>>
    BY <1>1, <1>2 DEF LinkOld, At, Shape, Loaded
  <1>4. CASE Fails(p, <<i0>>) /\ UNCHANGED <<dinode, ref>>
    <2>1. LookupFails(p, <<i0>>)
      BY <1>3, <1>4 DEF LookupFails, Fails
    <2>2. TypeOK'
      BY <1>1, <1>3, <1>4, <2>1, FailedFrame DEF TypeOK
    <2> QED
      BY <1>2, <1>3, <1>4, <2>1, <2>2, FailedInv
  <1>5. ASSUME NEW c \in Calls, c = frame[p].call, c.op = "link", ~IsDir(i0),
               dinode' = [dinode EXCEPT ![i0].nlink = @ + 1],
               IgetTo(From(p, c)), Become(p, Frame("walk", c, From(p, c), i0, c.new, <<>>))
        PROVE  Inv'
    <2>1. PICK s \in Inode : s = From(p, c)
      BY <1>1 DEF From
    <2>2. c.new \in Seq(Name) /\ c.new # <<>>
      BY <1>5, CallsAssumption
    <2>3. /\ frame' \in [Proc -> Frames]
          /\ \A q \in Proc : q # p => frame'[q] = frame[q]
          /\ frame'[p].pc = "walk" /\ frame'[p].call = c /\ frame'[p].ip = s /\ frame'[p].dp = i0
          /\ frame'[p].path = c.new /\ frame'[p].puts = <<>> /\ ~frame'[p].dropping
      <3>1. Frame("walk", c, s, i0, c.new, <<>>) \in Frames
        BY <1>1, <2>2, SeqFacts, FrameType
      <3>2. /\ frame' \in [Proc -> Frames] /\ frame'[p] = Frame("walk", c, s, i0, c.new, <<>>)
            /\ \A q \in Proc : q # p => frame'[q] = frame[q]
        BY <1>1, <1>5, <2>1, <3>1, Became DEF Become
      <3> QED
        BY <3>2, Fields
    <2>4. ref' = [ref EXCEPT ![s] = @ + 1]
      BY <1>5, <2>1 DEF IgetTo
    <2>5. /\ \A i \in Inode : /\ dinode'[i].type = dinode[i].type /\ dinode'[i].up = dinode[i].up
                              /\ dinode'[i].ent = dinode[i].ent
          /\ \A i \in Inode : i # i0 => dinode'[i].nlink = dinode[i].nlink
          /\ dinode'[i0].nlink = dinode[i0].nlink + 1
      BY <1>1, <1>5 DEF TypeOK
    <2>6. TypeOK'
      <3>1. dinode' \in [Inode -> Dinodes]
        <4>1. dinode[i0] \in Dinodes /\ dinode[i0].nlink + 1 \in Nat
          BY <1>1 DEF TypeOK, Dinodes
        <4>2. dinode' = [dinode EXCEPT ![i0] = [dinode[i0] EXCEPT !.nlink = dinode[i0].nlink + 1]]
          BY <1>1, <1>5 DEF TypeOK
        <4> QED
          BY <1>1, <4>1, <4>2, SetNlink, SetDinode
      <3>2. ref' \in [Inode -> Nat] /\ valid' \in [Inode -> BOOLEAN]
        BY <1>1, <1>3, <2>4 DEF TypeOK
      <3> QED
        BY <1>1, <1>3, <2>3, <3>1, <3>2 DEF TypeOK
    <2>7. OthersStay(p)
      BY <1>3, <2>3, <2>5 DEF OthersStay
    <2>8. \A i \in Inode : ref'[i] = ref[i] + Row(p, i)' - Row(p, i)
      BY <1>1, <1>2, <1>3, <2>3, <2>4, SeqFacts DEF TypeOK, Row, Count
    <2>9. dinode[i0].type # "none" /\ dinode[s].type # "none"
      <3>1. Uses(p, i0) /\ Uses(p, cwd[p])
        BY <1>2, <1>3 DEF Uses, InIp, InCwd
      <3>2. dinode[Root].type # "none"
        BY DEF Inv, Disk, IsDir
      <3> QED
        BY <1>1, <2>1, <3>1, <3>2 DEF Allocated, From
    <2>10. Private(p)'
      <3>1. Shape(p)'
        BY <1>1, <1>5, <2>2, <2>3, SeqFacts DEF Shape
      <3>2. dinode'[i0].type = "file"
        BY <1>1, <1>5, <2>5, <2>9 DEF TypeOK, IsDir, Dinodes
      <3>3. Keeps(p)'
        BY <2>3, <3>2 DEF Keeps
      <3>4. \A i \in Inode : Uses(p, i)' => i = s \/ Uses(p, i)
        BY <1>1, <1>2, <1>3, <2>3, SeqFacts DEF Uses, InCwd, InFile, InIp, InDp, InPuts
      <3>5. Allocated(p)'
        BY <1>1, <2>5, <2>9, <3>4 DEF Allocated
      <3> QED
        BY <3>1, <3>3, <3>5 DEF Private
    <2>11. \A i \in Inode : EntriesOf(i)' = EntriesOf(i) /\ Children(i)' = Children(i)
      BY <2>5 DEF EntriesOf, Children, IsDir
    <2>12. Disk'
      BY <1>1, <2>5, <2>9, <2>11 DEF Inv, Disk, IsDir
    <2>13. DirectoryTree'
      BY <2>5, <2>11 DEF Inv, DirectoryTree, IsDir
    <2>14. Counted'
      <3> SUFFICES ASSUME NEW i \in Inode
                   PROVE  Cardinality(EntriesOf(i)') + Cardinality(Children(i)')
                            + Cardinality(Pending(i)') + RootName(i) <= dinode'[i].nlink
        BY DEF Counted, RootName
      <3>1. \A x : x # p => (x \in Pending(i)' <=> x \in Pending(i))
        BY <2>3 DEF Pending
      <3>2. p \in Pending(i)' <=> i = i0
        BY <2>3 DEF Pending
      <3>3. p \notin Pending(i)
        BY <1>1, <1>3 DEF Pending
      <3>4. dinode[i].nlink \in Nat /\ dinode'[i].nlink \in Nat
        BY <1>1, <2>6 DEF TypeOK, Dinodes
      <3>5. dinode'[i].nlink >= dinode[i].nlink
              + Count(p \in EntriesOf(i)') - Count(p \in EntriesOf(i))
              + Count(p \in Children(i)') - Count(p \in Children(i))
              + Count(p \in Pending(i)') - Count(p \in Pending(i))
        BY <2>5, <2>11, <3>2, <3>3, <3>4 DEF Count
      <3> QED
        BY <2>11, <3>1, <3>4, <3>5, StillCounted
    <2> QED
      BY <2>6, <2>7, <2>8, <2>10, <2>12, <2>13, <2>14, StepInv
  <1>6. frame[p].call.op = "link" => frame[p].call \in Calls
    BY <1>1 DEF Frames, NoCall
  <1> QED
    BY <1>2, <1>4, <1>5, <1>6 DEF LinkOld, Linkable

LEMMA PairParts ==
  ASSUME NEW d \in Inode, NEW n \in Name, NEW e \in Inode \X Name, e # <<d, n>>
  PROVE  e[1] # d \/ e[2] # n
  OBVIOUS

LEMMA LinkNewInv ==
  ASSUME Inv, NEW p \in Proc, LinkNew(p)
  PROVE  Inv'
  <1>1. /\ TypeOK /\ Shape(p) /\ Keeps(p) /\ Allocated(p)
        /\ Root \in Inode /\ None \notin Inode /\ Free \notin Proc /\ frame[p] \in Frames
        /\ cwd[p] \in Inode
    BY Basics
  <1>2. PICK d \in Inode, o \in Inode, n \in Name :
          d = frame[p].ip /\ o = frame[p].dp /\ n = NameOf(p)
    <2>1. frame[p].ip \in Inode /\ frame[p].dp \in Inode /\ frame[p].path \in Seq(Name) /\ frame[p].path # <<>>
      BY <1>1 DEF LinkNew, At, Shape, Frames
    <2>2. NameOf(p) \in Name
      BY <2>1, PathFacts DEF NameOf
    <2> QED
      BY <2>1, <2>2
  <1>3. /\ frame[p].pc = "found" /\ frame[p].puts = <<>> /\ frame[p].dp = o /\ frame[p].ip = d
        /\ ~frame[p].dropping /\ frame[p].call.op = "link" /\ dinode[o].type = "file"
        /\ lock[d] \in {Free, p}
        /\ valid' = [valid EXCEPT ![d] = TRUE] /\ UNCHANGED <<cwd, file>>
    BY <1>1, <1>2 DEF LinkNew, At, Shape, Keeps, CanLock, Loaded
  <1>4. Uses(p, d) /\ Uses(p, o)
    BY <1>3 DEF Uses, InIp, InDp
  <1>5. CASE /\ dinode[d].ent[n] = None
             /\ dinode' = [dinode EXCEPT ![d].ent[n] = o]
             /\ Become(p, Idle(<<d, o>>))
             /\ UNCHANGED <<lock, ref>>
    <2>1. /\ frame' \in [Proc -> Frames]
          /\ \A q \in Proc : q # p => frame'[q] = frame[q]
          /\ frame'[p].pc = "idle" /\ frame'[p].ip = None /\ frame'[p].dp = None
          /\ Len(frame'[p].puts) = 2 /\ frame'[p].puts[1] = d /\ frame'[p].puts[2] = o
          /\ ~frame'[p].dropping
      <3>1. Frame("idle", NoCall, None, None, <<>>, <<d, o>>) \in Frames
        BY <1>1, SeqFacts, FrameType
      <3>2. /\ frame' \in [Proc -> Frames]
            /\ frame'[p] = Frame("idle", NoCall, None, None, <<>>, <<d, o>>)
            /\ \A q \in Proc : q # p => frame'[q] = frame[q]
        BY <1>1, <1>5, <3>1, Became DEF Become, Idle
      <3> QED
        BY <3>2, Fields, SeqFacts
    <2>2. dinode' \in [Inode -> Dinodes]
      <3>1. dinode[d] \in Dinodes
        BY <1>1 DEF TypeOK
      <3>2. [dinode[d].ent EXCEPT ![n] = o] \in [Name -> Inode \cup {None}]
        BY <3>1 DEF Dinodes
      <3>3. [dinode[d] EXCEPT !.ent = [dinode[d].ent EXCEPT ![n] = o]] \in Dinodes
        BY <3>1, <3>2, SetEnt
      <3>4. dinode' = [dinode EXCEPT ![d] = [dinode[d] EXCEPT !.ent = [dinode[d].ent EXCEPT ![n] = o]]]
        BY <1>1, <1>5 DEF TypeOK
      <3> QED
        BY <1>1, <3>3, <3>4, SetDinode
    <2>3. /\ \A i \in Inode : /\ dinode'[i].type = dinode[i].type /\ dinode'[i].up = dinode[i].up
                              /\ dinode'[i].nlink = dinode[i].nlink
          /\ \A i \in Inode : i # d => dinode'[i].ent = dinode[i].ent
          /\ \A m \in Name : m # n => dinode'[d].ent[m] = dinode[d].ent[m]
          /\ dinode'[d].ent[n] = o
      BY <1>1, <1>5 DEF TypeOK, Dinodes
    <2>4. TypeOK'
      <3>1. valid' \in [Inode -> BOOLEAN]
        BY <1>1, <1>3 DEF TypeOK
      <3> QED
        BY <1>1, <1>3, <1>5, <2>1, <2>2, <3>1 DEF TypeOK
    <2>5. OthersStay(p)
      BY <1>1, <1>3, <1>5, <2>1, <2>3 DEF OthersStay, TypeOK
    <2>6. \A i \in Inode : ref'[i] = ref[i] + Row(p, i)' - Row(p, i)
      BY <1>1, <1>3, <1>5, <2>1, SeqFacts DEF TypeOK, Row, Count
    <2>7. Private(p)'
      <3>1. Shape(p)'
        BY <2>1, SeqFacts DEF Shape
      <3>2. Keeps(p)'
        BY <2>1 DEF Keeps
      <3>3. \A i \in Inode : Uses(p, i)' => Uses(p, i)
        BY <1>1, <1>3, <2>1, SeqFacts DEF Uses, InCwd, InFile, InIp, InDp, InPuts
      <3>4. Allocated(p)'
        BY <1>1, <2>3, <3>3 DEF Allocated
      <3> QED
        BY <3>1, <3>2, <3>4 DEF Private
    <2>8. \A i \in Inode : /\ \A x : x # <<d, n>> => (x \in EntriesOf(i)' <=> x \in EntriesOf(i))
                           /\ <<d, n>> \in EntriesOf(i)' <=> i = o
                           /\ <<d, n>> \notin EntriesOf(i)
      <3> SUFFICES ASSUME NEW i \in Inode
                   PROVE  /\ \A x \in Inode \X Name :
                               x # <<d, n>> => (x \in EntriesOf(i)' <=> x \in EntriesOf(i))
                          /\ <<d, n>> \in EntriesOf(i)' <=> i = o
                          /\ <<d, n>> \notin EntriesOf(i)
        BY DEF EntriesOf
      <3>1. \A x \in Inode \X Name :
              x # <<d, n>> => (x \in EntriesOf(i)' <=> x \in EntriesOf(i))
        BY <2>3, PairParts DEF EntriesOf
      <3>2. <<d, n>> \in EntriesOf(i)' <=> i = o
        BY <2>3 DEF EntriesOf
      <3>3. <<d, n>> \notin EntriesOf(i)
        BY <1>1, <1>5 DEF EntriesOf
      <3> QED
        BY <3>1, <3>2, <3>3
    <2>9. \A i \in Inode : Children(i)' = Children(i)
      <3> SUFFICES ASSUME NEW i \in Inode, NEW j \in Inode, IsDir(j)
                   PROVE  \A m \in Name : dinode'[i].ent[m] = j <=> dinode[i].ent[m] = j
        BY <2>3 DEF Children, IsDir
      <3>1. j # o
        BY <1>3 DEF IsDir
      <3> QED
        BY <1>1, <1>5, <2>3, <3>1
    <2>10. Disk'
      <3>1. dinode[d].type # "none" /\ o # Root
        BY <1>1, <1>3, <1>4 DEF Allocated, Inv, Disk, IsDir
      <3>2. EntriesOf(Root)' = {}
        <4>1. \A x : x \notin EntriesOf(Root)'
          BY <1>1, <2>8, <3>1 DEF Inv, Disk
        <4> QED
          BY <4>1
      <3> QED
        BY <1>1, <2>3, <3>1, <3>2 DEF Inv, Disk, IsDir
    <2>11. DirectoryTree'
      <3> SUFFICES ASSUME NEW i \in Inode, IsDir(i)', NEW e \in EntriesOf(i)'
                   PROVE  EntriesOf(i)' = {e} /\ dinode'[i].up = e[1]
        BY DEF DirectoryTree
      <3>1. i # o /\ IsDir(i)
        BY <1>3, <2>3 DEF IsDir
      <3>2. EntriesOf(i)' = EntriesOf(i)
        BY <2>8, <3>1
      <3> QED
        BY <2>3, <3>1, <3>2 DEF Inv, DirectoryTree
    <2>12. Counted'
      <3> SUFFICES ASSUME NEW i \in Inode
                   PROVE  Cardinality(EntriesOf(i)') + Cardinality(Children(i)')
                            + Cardinality(Pending(i)') + RootName(i) <= dinode'[i].nlink
        BY DEF Counted, RootName
      <3>1. \A x : x # p => (x \in Pending(i)' <=> x \in Pending(i))
        BY <2>1 DEF Pending
      <3>2. p \in Pending(i) <=> i = o
        BY <1>3 DEF Pending
      <3>3. p \notin Pending(i)'
        BY <1>1, <2>1 DEF Pending
      <3>4. dinode[i].nlink \in Nat /\ dinode'[i].nlink \in Nat
        BY <1>1, <2>4 DEF TypeOK, Dinodes
      <3>5. dinode'[i].nlink >= dinode[i].nlink
              + Count(<<d, n>> \in EntriesOf(i)') - Count(<<d, n>> \in EntriesOf(i))
              + Count(p \in Children(i)') - Count(p \in Children(i))
              + Count(p \in Pending(i)') - Count(p \in Pending(i))
        BY <2>3, <2>8, <2>9, <3>2, <3>3, <3>4 DEF Count
      <3>6. \A x : x # <<d, n>> => (x \in EntriesOf(i)' <=> x \in EntriesOf(i))
        BY <2>8
      <3> QED
        BY <2>9, <3>1, <3>4, <3>5, <3>6, StillCounted
    <2> QED
      BY <2>4, <2>5, <2>6, <2>7, <2>10, <2>11, <2>12, StepInv
  <1>6. ASSUME NEW x \in Inode, dinode[d].ent[n] = x,
               lock' = [lock EXCEPT ![d] = p], IgetTo(x),
               Become(p, [frame[p] EXCEPT !.pc = "unlockdir", !.puts = <<x>>]),
               dinode' = dinode
        PROVE  Inv'
    <2>1. /\ frame' \in [Proc -> Frames]
          /\ \A q \in Proc : q # p => frame'[q] = frame[q]
          /\ frame'[p].pc = "unlockdir" /\ frame'[p].ip = d /\ frame'[p].dp = o
          /\ frame'[p].call = frame[p].call
          /\ Len(frame'[p].puts) = 1 /\ frame'[p].puts[1] = x /\ ~frame'[p].dropping
      <3>1. <<x>> \in Seq(Inode)
        BY SeqFacts
      <3>2. [frame[p] EXCEPT !.pc = "unlockdir", !.puts = <<x>>] \in Frames
        BY <1>1, <3>1 DEF Frames
      <3>3. /\ frame' \in [Proc -> Frames]
            /\ frame'[p] = [frame[p] EXCEPT !.pc = "unlockdir", !.puts = <<x>>]
            /\ \A q \in Proc : q # p => frame'[q] = frame[q]
        BY <1>1, <1>6, <3>2, Became DEF Become
      <3>4. /\ frame'[p].pc = "unlockdir" /\ frame'[p].ip = d /\ frame'[p].dp = o
            /\ frame'[p].call = frame[p].call /\ frame'[p].puts = <<x>>
            /\ frame'[p].dropping = frame[p].dropping
        BY <1>1, <1>3, <3>3 DEF Frames
      <3> QED
        BY <1>3, <3>3, <3>4, SeqFacts
    <2>2. ref' = [ref EXCEPT ![x] = @ + 1]
      BY <1>6 DEF IgetTo
    <2>3. TypeOK'
      BY <1>1, <1>3, <1>6, <2>1, <2>2 DEF TypeOK
    <2>4. OthersStay(p)
      BY <1>1, <1>3, <1>6, <2>1 DEF OthersStay, TypeOK
    <2>5. \A i \in Inode : ref'[i] = ref[i] + Row(p, i)' - Row(p, i)
      BY <1>1, <1>3, <2>1, <2>2, SeqFacts DEF TypeOK, Row, Count
    <2>6. \A i \in Inode : p \in Pending(i)' <=> p \in Pending(i)
      BY <1>1, <1>3, <2>1 DEF Pending
    <2>7. Private(p)'
      <3>1. Shape(p)'
        BY <1>1, <1>3, <2>1, SeqFacts DEF Shape
      <3>2. Keeps(p)'
        BY <1>1, <1>3, <1>6, <2>1 DEF Keeps, TypeOK
      <3>3. \A i \in Inode : Uses(p, i)' => i = x \/ Uses(p, i)
        BY <1>3, <2>1, SeqFacts DEF Uses, InCwd, InFile, InIp, InDp, InPuts
      <3>4. dinode[x].type # "none"
        BY <1>6, Named
      <3>5. Allocated(p)'
        BY <1>1, <1>6, <3>3, <3>4 DEF Allocated
      <3> QED
        BY <3>1, <3>2, <3>5 DEF Private
    <2> QED
      BY <1>6, <2>3, <2>4, <2>5, <2>6, <2>7, QuietInv
  <1>7. dinode[d].ent[n] \in Inode \cup {None}
    BY <1>1 DEF TypeOK, Dinodes
  <1> QED
    BY <1>2, <1>5, <1>6, <1>7 DEF LinkNew

LEMMA UnlinkInv ==
  ASSUME Inv, NEW p \in Proc, Unlink(p)
  PROVE  Inv'
  <1>1. /\ TypeOK /\ Shape(p) /\ Keeps(p) /\ Allocated(p)
        /\ Root \in Inode /\ None \notin Inode /\ Free \notin Proc /\ frame[p] \in Frames
        /\ cwd[p] \in Inode
    BY Basics
  <1>2. PICK i0 \in Inode, d \in Inode, n \in Name :
          i0 = frame[p].ip /\ d = frame[p].dp /\ n = NameOf(p)
    <2>1. frame[p].ip \in Inode /\ frame[p].dp \in Inode /\ frame[p].path \in Seq(Name) /\ frame[p].path # <<>>
      BY <1>1 DEF Unlink, At, Shape, Frames
    <2>2. NameOf(p) \in Name
      BY <2>1, PathFacts DEF NameOf
    <2> QED
      BY <2>1, <2>2
  <1>3. /\ frame[p].pc = "unlink" /\ frame[p].puts = <<>> /\ frame[p].dp = d /\ frame[p].ip = i0
        /\ ~frame[p].dropping
        /\ lock[d] = p /\ lock[i0] \in {Free, p} /\ dinode[d].ent[n] = i0
        /\ valid' = [valid EXCEPT ![i0] = TRUE] /\ UNCHANGED <<ref, cwd, file>>
    BY <1>1, <1>2 DEF Unlink, At, Shape, Keeps, CanLock, Loaded
  <1>4. Uses(p, d) /\ Uses(p, i0)
    BY <1>3 DEF Uses, InIp, InDp
  <1>5. ASSUME NEW c \in Calls \cup {NoCall}, c = frame[p].call, IsDirEmpty(i0),
               dinode' = [dinode EXCEPT ![d].ent[n] = None,
                                        ![d].nlink = @ - DotDot(dinode[i0].type)],
               lock' = [lock EXCEPT ![d] = Free, ![i0] = p],
               Become(p, Frame("unlinkold", c, i0, None, <<>>, <<d>>))
        PROVE  Inv'
    <2>1. /\ frame' \in [Proc -> Frames]
          /\ \A q \in Proc : q # p => frame'[q] = frame[q]
          /\ frame'[p].pc = "unlinkold" /\ frame'[p].ip = i0 /\ frame'[p].dp = None
          /\ Len(frame'[p].puts) = 1 /\ frame'[p].puts[1] = d /\ ~frame'[p].dropping
      <3>1. Frame("unlinkold", c, i0, None, <<>>, <<d>>) \in Frames
        BY <1>1, SeqFacts, FrameType
      <3>2. /\ frame' \in [Proc -> Frames]
            /\ frame'[p] = Frame("unlinkold", c, i0, None, <<>>, <<d>>)
            /\ \A q \in Proc : q # p => frame'[q] = frame[q]
        BY <1>1, <1>5, <3>1, Became DEF Become
      <3> QED
        BY <3>2, Fields, SeqFacts
    <2>2. PICK k \in {0, 1} : k = DotDot(dinode[i0].type) /\ (k = 1 <=> IsDir(i0))
      BY DEF DotDot, IsDir
    (* A directory is named once, in the directory of its "..".             *)
    <2>3. IsDir(i0) => EntriesOf(i0) = {<<d, n>>} /\ i0 \in Children(d) /\ i0 # d
      <3> SUFFICES ASSUME IsDir(i0) PROVE EntriesOf(i0) = {<<d, n>>} /\ i0 \in Children(d) /\ i0 # d
        OBVIOUS
      <3>1. <<d, n>> \in EntriesOf(i0)
        BY <1>3 DEF EntriesOf
      <3>2. EntriesOf(i0) = {<<d, n>>} /\ dinode[i0].up = d
        BY <3>1 DEF Inv, DirectoryTree
      <3>3. i0 # d
        BY <1>3, <3>2, Named DEF Inv, Disk
      <3> QED
        BY <1>3, <3>2, <3>3 DEF Children
    <2>4. dinode[d].nlink \in Nat /\ dinode[d].nlink - k \in Nat
      <3>1. dinode[d].nlink \in Nat
        BY <1>1 DEF TypeOK, Dinodes
      <3>2. k = 1 => dinode[d].nlink # 0
        BY <2>2, <2>3, Unlinked
      <3> QED
        BY <3>1, <3>2
    <2>5. dinode' \in [Inode -> Dinodes]
      <3>1. dinode[d] \in Dinodes
        BY <1>1 DEF TypeOK
      <3>2. [dinode[d].ent EXCEPT ![n] = None] \in [Name -> Inode \cup {None}]
        BY <3>1 DEF Dinodes
      <3>3. PICK e \in [Name -> Inode \cup {None}], m \in Nat :
              e = [dinode[d].ent EXCEPT ![n] = None] /\ m = dinode[d].nlink - k
        BY <2>4, <3>2
      <3>4. [[dinode[d] EXCEPT !.ent = e] EXCEPT !.nlink = m] \in Dinodes
        BY <3>1, SetEnt, SetNlink
      <3>5. dinode' = [dinode EXCEPT ![d] = [[dinode[d] EXCEPT !.ent = e] EXCEPT !.nlink = m]]
        BY <1>1, <1>5, <2>2, <3>1, <3>3 DEF TypeOK, Dinodes
      <3> QED
        BY <1>1, <3>4, <3>5, SetDinode
    <2>6. /\ \A i \in Inode : dinode'[i].type = dinode[i].type /\ dinode'[i].up = dinode[i].up
          /\ \A i \in Inode : i # d => dinode'[i].ent = dinode[i].ent /\ dinode'[i].nlink = dinode[i].nlink
          /\ \A m \in Name : m # n => dinode'[d].ent[m] = dinode[d].ent[m]
          /\ dinode'[d].ent[n] = None
          /\ dinode'[d].nlink = dinode[d].nlink - k
      BY <1>1, <1>5, <2>2 DEF TypeOK, Dinodes
    <2>7. TypeOK'
      <3>1. valid' \in [Inode -> BOOLEAN] /\ lock' \in [Inode -> Proc \cup {Free}]
        BY <1>1, <1>3, <1>5 DEF TypeOK
      <3> QED
        BY <1>1, <1>3, <2>1, <2>5, <3>1 DEF TypeOK
    <2>8. OthersStay(p)
      <3>1. \A q \in Proc \ {p}, i \in Inode : lock[i] = q => lock'[i] = q /\ i # d
        BY <1>1, <1>3, <1>5 DEF TypeOK
      <3> QED
        BY <1>3, <2>1, <2>6, <3>1 DEF OthersStay
    <2>9. \A i \in Inode : ref'[i] = ref[i] + Row(p, i)' - Row(p, i)
      BY <1>1, <1>3, <2>1, SeqFacts DEF TypeOK, Row, Count
    <2>10. Private(p)'
      <3>1. Shape(p)'
        BY <1>1, <2>1, SeqFacts DEF Shape
      <3>2. lock'[i0] = p
        BY <1>1, <1>5 DEF TypeOK
      <3>3. IsDir(i0) => dinode'[i0].ent = NoNames
        BY <1>5, <2>3, <2>6 DEF IsDirEmpty
      <3>4. Keeps(p)'
        BY <2>1, <2>6, <3>2, <3>3 DEF Keeps, IsDir
      <3>5. \A i \in Inode : Uses(p, i)' => Uses(p, i)
        BY <1>1, <1>3, <2>1, SeqFacts DEF Uses, InCwd, InFile, InIp, InDp, InPuts
      <3>6. Allocated(p)'
        BY <1>1, <2>6, <3>5 DEF Allocated
      <3> QED
        BY <3>1, <3>4, <3>6 DEF Private
    <2>11. \A i \in Inode : /\ \A x : x # <<d, n>> => (x \in EntriesOf(i)' <=> x \in EntriesOf(i))
                            /\ <<d, n>> \notin EntriesOf(i)'
                            /\ <<d, n>> \in EntriesOf(i) <=> i = i0
      <3> SUFFICES ASSUME NEW i \in Inode
                   PROVE  /\ \A x \in Inode \X Name :
                               x # <<d, n>> => (x \in EntriesOf(i)' <=> x \in EntriesOf(i))
                          /\ <<d, n>> \notin EntriesOf(i)'
                          /\ <<d, n>> \in EntriesOf(i) <=> i = i0
        BY DEF EntriesOf
      <3>1. \A x \in Inode \X Name :
              x # <<d, n>> => (x \in EntriesOf(i)' <=> x \in EntriesOf(i))
        BY <2>6, PairParts DEF EntriesOf
      <3>2. <<d, n>> \notin EntriesOf(i)'
        BY <1>1, <2>6 DEF EntriesOf
      <3>3. <<d, n>> \in EntriesOf(i) <=> i = i0
        BY <1>3 DEF EntriesOf
      <3> QED
        BY <3>1, <3>2, <3>3
    <2>12. \A i \in Inode : /\ \A j : j # i0 => (j \in Children(i)' <=> j \in Children(i))
                            /\ i # d \/ ~IsDir(i0) => Children(i)' = Children(i)
                            /\ i = d /\ IsDir(i0) => i0 \notin Children(i)' /\ i0 \in Children(i)
      <3> SUFFICES ASSUME NEW i \in Inode
                   PROVE  /\ \A j : j # i0 => (j \in Children(i)' <=> j \in Children(i))
                          /\ i # d \/ ~IsDir(i0) => Children(i)' = Children(i)
                          /\ i = d /\ IsDir(i0) => i0 \notin Children(i)' /\ i0 \in Children(i)
        OBVIOUS
      <3>1. ASSUME NEW j \in Inode, j # i0
            PROVE  \A m \in Name : dinode'[i].ent[m] = j <=> dinode[i].ent[m] = j
        BY <1>1, <1>3, <2>6, <3>1
      <3>2. \A j : j # i0 => (j \in Children(i)' <=> j \in Children(i))
        BY <2>6, <3>1 DEF Children, IsDir
      <3>3. ~IsDir(i0) => i0 \notin Children(i) /\ i0 \notin Children(i)'
        BY <2>6 DEF Children, IsDir
      <3>4. i # d => Children(i)' = Children(i)
        BY <2>6 DEF Children, IsDir
      <3>5. IsDir(i0) => i0 \notin Children(d)'
        <4> SUFFICES ASSUME IsDir(i0), NEW m \in Name, dinode'[d].ent[m] = i0 PROVE FALSE
          BY DEF Children
        <4>1. m # n /\ dinode[d].ent[m] = i0
          BY <1>1, <2>6
        <4>2. <<d, m>> \in EntriesOf(i0)
          BY <4>1 DEF EntriesOf
        <4> QED
          BY <2>3, <4>1, <4>2
      <3> QED
        BY <2>3, <3>2, <3>3, <3>4, <3>5
    <2>13. \A i \in Inode : EntriesOf(i)' \subseteq EntriesOf(i)
      BY <2>11
    <2>14. Disk'
      <3>1. dinode[d].type # "none"
        BY <1>1, <1>4 DEF Allocated
      <3>2. EntriesOf(Root)' = {}
        BY <1>1, <2>13 DEF Inv, Disk
      <3> QED
        BY <1>1, <2>6, <3>1, <3>2 DEF Inv, Disk, IsDir
    <2>15. DirectoryTree'
      <3> SUFFICES ASSUME NEW i \in Inode, IsDir(i)', NEW e \in EntriesOf(i)'
                   PROVE  EntriesOf(i)' = {e} /\ dinode'[i].up = e[1]
        BY DEF DirectoryTree
      <3>1. IsDir(i) /\ e \in EntriesOf(i)
        BY <2>6, <2>13 DEF IsDir
      <3>2. EntriesOf(i) = {e} /\ dinode[i].up = e[1]
        BY <3>1 DEF Inv, DirectoryTree
      <3> QED
        BY <2>6, <2>13, <3>2
    <2>16. Counted'
      <3> SUFFICES ASSUME NEW i \in Inode
                   PROVE  Cardinality(EntriesOf(i)') + Cardinality(Children(i)')
                            + Cardinality(Pending(i)') + RootName(i) <= dinode'[i].nlink
        BY DEF Counted, RootName
      <3>1. \A x : x # p => (x \in Pending(i)' <=> x \in Pending(i))
        BY <2>1 DEF Pending
      <3>2. p \notin Pending(i)
        BY <1>3 DEF Pending
      <3>3. p \in Pending(i)' <=> i = i0
        BY <1>1, <2>1 DEF Pending
      <3>4. dinode[i].nlink \in Nat /\ dinode'[i].nlink \in Nat
        BY <1>1, <2>7 DEF TypeOK, Dinodes
      <3>5. Count(i0 \in Children(i)') - Count(i0 \in Children(i)) = IF i = d THEN 0 - k ELSE 0
        BY <2>2, <2>12 DEF Count
      <3>6. /\ Count(i0 \in Children(i)') \in Int /\ Count(i0 \in Children(i)) \in Int
            /\ dinode'[i].nlink = dinode[i].nlink + (IF i = d THEN 0 - k ELSE 0)
        BY <2>6, <3>4 DEF Count
      <3>7. dinode'[i].nlink >= dinode[i].nlink
              + Count(<<d, n>> \in EntriesOf(i)') - Count(<<d, n>> \in EntriesOf(i))
              + Count(i0 \in Children(i)') - Count(i0 \in Children(i))
              + Count(p \in Pending(i)') - Count(p \in Pending(i))
        <4>1. /\ Count(<<d, n>> \in EntriesOf(i)') = 0
              /\ Count(<<d, n>> \in EntriesOf(i)) = Count(i = i0)
              /\ Count(p \in Pending(i)') = Count(i = i0)
              /\ Count(p \in Pending(i)) = 0
              /\ Count(i = i0) \in Int
          BY <2>11, <3>2, <3>3 DEF Count
        <4> QED
          BY <3>4, <3>5, <3>6, <4>1
      <3>8. /\ \A x : x # <<d, n>> => (x \in EntriesOf(i)' <=> x \in EntriesOf(i))
            /\ \A j : j # i0 => (j \in Children(i)' <=> j \in Children(i))
        BY <2>11, <2>12
      <3> QED
        BY <3>1, <3>4, <3>7, <3>8, StillCounted
    <2> QED
      BY <2>7, <2>8, <2>9, <2>10, <2>14, <2>15, <2>16, StepInv
  <1>6. CASE /\ Become(p, [frame[p] EXCEPT !.pc = "unlockdir", !.ip = d, !.dp = None, !.puts = <<i0>>])
             /\ UNCHANGED <<dinode, lock>>
    <2>1. /\ frame' \in [Proc -> Frames]
          /\ \A q \in Proc : q # p => frame'[q] = frame[q]
          /\ frame'[p].pc = "unlockdir" /\ frame'[p].ip = d /\ frame'[p].dp = None
          /\ Len(frame'[p].puts) = 1 /\ frame'[p].puts[1] = i0 /\ ~frame'[p].dropping
      <3>1. <<i0>> \in Seq(Inode)
        BY SeqFacts
      <3>2. [frame[p] EXCEPT !.pc = "unlockdir", !.ip = d, !.dp = None, !.puts = <<i0>>] \in Frames
        BY <1>1, <3>1 DEF Frames
      <3>3. /\ frame' \in [Proc -> Frames]
            /\ frame'[p] = [frame[p] EXCEPT !.pc = "unlockdir", !.ip = d, !.dp = None, !.puts = <<i0>>]
            /\ \A q \in Proc : q # p => frame'[q] = frame[q]
        BY <1>1, <1>6, <3>2, Became DEF Become
      <3>4. /\ frame'[p].pc = "unlockdir" /\ frame'[p].ip = d /\ frame'[p].dp = None
            /\ frame'[p].puts = <<i0>> /\ frame'[p].dropping = frame[p].dropping
        BY <1>1, <3>3 DEF Frames
      <3> QED
        BY <1>3, <3>3, <3>4, SeqFacts
    <2>2. TypeOK'
      BY <1>1, <1>3, <1>6, <2>1 DEF TypeOK
    <2>3. OthersStay(p)
      BY <1>3, <1>6, <2>1 DEF OthersStay
    <2>4. \A i \in Inode : ref'[i] = ref[i] + Row(p, i)' - Row(p, i)
      BY <1>1, <1>3, <2>1, SeqFacts DEF TypeOK, Row, Count
    <2>5. \A i \in Inode : p \in Pending(i)' <=> p \in Pending(i)
      BY <1>1, <1>3, <2>1 DEF Pending
    <2>6. Private(p)'
      <3>1. Shape(p)'
        BY <1>1, <2>1, SeqFacts DEF Shape
      <3>2. Keeps(p)'
        BY <1>3, <1>6, <2>1 DEF Keeps
      <3>3. \A i \in Inode : Uses(p, i)' => Uses(p, i)
        BY <1>1, <1>3, <2>1, SeqFacts DEF Uses, InCwd, InFile, InIp, InDp, InPuts
      <3>4. Allocated(p)'
        BY <1>1, <1>6, <3>3 DEF Allocated
      <3> QED
        BY <3>1, <3>2, <3>4 DEF Private
    <2> QED
      BY <1>6, <2>2, <2>3, <2>4, <2>5, <2>6, QuietInv
  <1>7. frame[p].call \in Calls \cup {NoCall}
    BY <1>1 DEF Frames
  <1> QED
    BY <1>2, <1>5, <1>6, <1>7 DEF Unlink

(* The search of ialloc() ends at a free inode if there is one.            *)
LEMMA FirstFreeIsFree ==
  ASSUME TypeOK, \E i \in Inode : dinode[i].type = "none"
  PROVE  FirstFree \in Inode /\ dinode[FirstFree].type = "none"
  <1> DEFINE T == {i \in Inode : dinode[i].type = "none"}
             R == OpToRel(<, Nat)
  <1>1. T \subseteq Nat /\ T # {}
    BY InodesAssumption DEF Inode
  <1>2. PICK k \in T : \A j \in T : ~(<<j, k>> \in R)
    <2>1. IsWellFoundedOn(R, Nat)
      BY NatLessThanWellFounded, Zenon
    <2> HIDE DEF T, R
    <2> QED
      BY <1>1, <2>1, WFMin
  <1>3. \A j \in T : ~(j < k)
    BY <1>1, <1>2 DEF OpToRel
  <1>4. /\ k \in Inode /\ dinode[k].type = "none"
        /\ \A j \in Inode : dinode[j].type = "none" => k <= j
    BY <1>1, <1>3
  <1> QED
    BY <1>4 DEF FirstFree

LEMMA CreateInv ==
  ASSUME Inv, NEW p \in Proc, Create(p)
  PROVE  Inv'
  <1>1. /\ TypeOK /\ Shape(p) /\ Keeps(p) /\ Allocated(p)
        /\ Root \in Inode /\ None \notin Inode /\ Free \notin Proc /\ frame[p] \in Frames
        /\ cwd[p] \in Inode
    BY Basics
  <1>2. PICK d \in Inode, n \in Name, c \in Calls \cup {NoCall} :
          d = frame[p].ip /\ n = NameOf(p) /\ c = frame[p].call
    <2>1. frame[p].ip \in Inode /\ frame[p].path \in Seq(Name) /\ frame[p].path # <<>>
      BY <1>1 DEF Create, At, Shape, Frames, ByParent
    <2>2. NameOf(p) \in Name
      BY <2>1, PathFacts DEF NameOf
    <2> QED
      BY <1>1, <2>1, <2>2 DEF Frames
  <1>3. /\ frame[p].pc = "found" /\ frame[p].puts = <<>> /\ frame[p].dp = None /\ frame[p].ip = d
        /\ lock[d] \in {Free, p} /\ UNCHANGED <<cwd, file>>
    BY <1>1, <1>2 DEF Create, At, Shape, CanLock
  <1>4. Uses(p, d) /\ dinode[d].type # "none"
    BY <1>1, <1>3 DEF Uses, InIp, Allocated
  <1>5. ASSUME NEW x \in Inode, dinode[d].ent[n] = x, IgetTo(x),
               valid' = [valid EXCEPT ![d] = TRUE],
               Become(p, Frame("exists", c, x, None, <<>>, <<d>>)),
               UNCHANGED <<dinode, lock>>
        PROVE  Inv'
    <2>1. /\ frame' \in [Proc -> Frames]
          /\ \A q \in Proc : q # p => frame'[q] = frame[q]
          /\ frame'[p].pc = "exists" /\ frame'[p].ip = x /\ frame'[p].dp = None
          /\ Len(frame'[p].puts) = 1 /\ frame'[p].puts[1] = d /\ ~frame'[p].dropping
      <3>1. Frame("exists", c, x, None, <<>>, <<d>>) \in Frames
        BY <1>1, SeqFacts, FrameType
      <3>2. /\ frame' \in [Proc -> Frames]
            /\ frame'[p] = Frame("exists", c, x, None, <<>>, <<d>>)
            /\ \A q \in Proc : q # p => frame'[q] = frame[q]
        BY <1>1, <1>5, <3>1, Became DEF Become
      <3> QED
        BY <3>2, Fields, SeqFacts
    <2>2. ref' = [ref EXCEPT ![x] = @ + 1]
      BY <1>5 DEF IgetTo
    <2>3. TypeOK'
      BY <1>1, <1>3, <1>5, <2>1, <2>2 DEF TypeOK
    <2>4. OthersStay(p)
      BY <1>3, <1>5, <2>1 DEF OthersStay
    <2>5. \A i \in Inode : ref'[i] = ref[i] + Row(p, i)' - Row(p, i)
      BY <1>1, <1>3, <2>1, <2>2, SeqFacts DEF TypeOK, Row, Count
    <2>6. \A i \in Inode : p \in Pending(i)' <=> p \in Pending(i)
      BY <1>1, <1>3, <2>1 DEF Pending
    <2>7. Private(p)'
      <3>1. Shape(p)'
        BY <1>1, <2>1, SeqFacts DEF Shape
      <3>2. Keeps(p)'
        BY <2>1 DEF Keeps
      <3>3. \A i \in Inode : Uses(p, i)' => i = x \/ Uses(p, i)
        BY <1>1, <1>3, <2>1, SeqFacts DEF Uses, InCwd, InFile, InIp, InDp, InPuts
      <3>4. dinode[x].type # "none"
        BY <1>5, Named
      <3>5. Allocated(p)'
        BY <1>1, <1>5, <3>3, <3>4 DEF Allocated
      <3> QED
        BY <3>1, <3>2, <3>5 DEF Private
    <2> QED
      BY <1>5, <2>3, <2>4, <2>5, <2>6, <2>7, QuietInv
  <1>6. ASSUME NEW new \in Inode, NEW type \in {"dir", "file"},
               dinode[d].ent[n] = None, dinode[new].type = "none", lock[new] = Free,
               ref' = [ref EXCEPT ![new] = @ + 1],
               valid' = [valid EXCEPT ![d] = TRUE, ![new] = TRUE],
               dinode' = [dinode EXCEPT ![new] = NewInode(type, d),
                                        ![d].nlink = @ + DotDot(type),
                                        ![d].ent[n] = new],
               lock' = [lock EXCEPT ![new] = p],
               Become(p, Frame("got", c, new, None, <<>>, <<d>>))
        PROVE  Inv'
    <2>1. /\ frame' \in [Proc -> Frames]
          /\ \A q \in Proc : q # p => frame'[q] = frame[q]
          /\ frame'[p].pc = "got" /\ frame'[p].ip = new /\ frame'[p].dp = None
          /\ Len(frame'[p].puts) = 1 /\ frame'[p].puts[1] = d /\ ~frame'[p].dropping
      <3>1. Frame("got", c, new, None, <<>>, <<d>>) \in Frames
        BY <1>1, SeqFacts, FrameType
      <3>2. /\ frame' \in [Proc -> Frames]
            /\ frame'[p] = Frame("got", c, new, None, <<>>, <<d>>)
            /\ \A q \in Proc : q # p => frame'[q] = frame[q]
        BY <1>1, <1>6, <3>1, Became DEF Become
      <3> QED
        BY <3>2, Fields, SeqFacts
    <2>2. new # d /\ new # Root
      BY <1>1, <1>4, <1>6 DEF Inv, Disk, IsDir
    <2>3. PICK k \in {0, 1} : k = DotDot(type) /\ (k = 1 <=> type = "dir")
      BY DEF DotDot
    <2>4. /\ NewInode(type, d) \in Dinodes
          /\ NewInode(type, d).type = type /\ NewInode(type, d).nlink = 1
          /\ NewInode(type, d).up = d /\ NewInode(type, d).ent = NoNames
          /\ \A m \in Name : NoNames[m] = None
      BY DEF NewInode, NoNames, Dinodes
    <2>5. /\ dinode[new].nlink = 0 /\ dinode[new].ent = NoNames
          /\ EntriesOf(new) = {} /\ Children(new) = {} /\ Pending(new) = {}
      BY <1>6, Unlinked DEF Inv, Disk
    <2>6. dinode' \in [Inode -> Dinodes]
      <3>1. dinode[d] \in Dinodes
        BY <1>1 DEF TypeOK
      <3>2. [dinode[d].ent EXCEPT ![n] = new] \in [Name -> Inode \cup {None}]
        BY <3>1 DEF Dinodes
      <3>3. PICK e \in [Name -> Inode \cup {None}], m \in Nat :
              e = [dinode[d].ent EXCEPT ![n] = new] /\ m = dinode[d].nlink + k
        <4>1. dinode[d].nlink \in Nat /\ k \in Nat
          BY <2>3, <3>1 DEF Dinodes
        <4>2. dinode[d].nlink + k \in Nat
          BY <4>1
        <4> QED
          BY <3>2, <4>2
      <3>4. PICK nd \in Dinodes : nd = [[dinode[d] EXCEPT !.nlink = m] EXCEPT !.ent = e]
        BY <3>1, SetEnt, SetNlink
      <3>5. PICK nn \in Dinodes : nn = NewInode(type, d)
        BY <2>4
      <3>6. dinode' = [[dinode EXCEPT ![new] = nn] EXCEPT ![d] = nd]
        BY <1>1, <1>6, <2>2, <2>3, <3>1, <3>3, <3>4, <3>5 DEF TypeOK, Dinodes
      <3> QED
        BY <1>1, <3>6 DEF TypeOK
    <2>7. /\ \A i \in Inode : i # new => dinode'[i].type = dinode[i].type /\ dinode'[i].up = dinode[i].up
          /\ \A i \in Inode : i \notin {d, new} =>
                dinode'[i].ent = dinode[i].ent /\ dinode'[i].nlink = dinode[i].nlink
          /\ \A m \in Name : m # n => dinode'[d].ent[m] = dinode[d].ent[m]
          /\ dinode'[d].ent[n] = new /\ dinode'[d].nlink = dinode[d].nlink + k
      BY <1>1, <1>6, <2>2, <2>3 DEF TypeOK, Dinodes
    <2>8. /\ dinode'[new].type = type /\ dinode'[new].nlink = 1 /\ dinode'[new].up = d
          /\ dinode'[new].ent = NoNames
      <3>1. dinode'[new] = NewInode(type, d)
        BY <1>1, <1>6, <2>2 DEF TypeOK
      <3> QED
        BY <2>4, <3>1
    <2>9. TypeOK'
      <3>1. ref' \in [Inode -> Nat] /\ lock' \in [Inode -> Proc \cup {Free}]
        BY <1>1, <1>6 DEF TypeOK
      <3>2. valid' \in [Inode -> BOOLEAN]
        BY <1>1, <1>6 DEF TypeOK
      <3> QED
        BY <1>1, <1>3, <2>1, <2>6, <3>1, <3>2 DEF TypeOK
    <2>10. OthersStay(p)
      <3>1. \A q \in Proc \ {p}, i \in Inode : lock[i] = q => lock'[i] = q /\ i # d /\ i # new
        BY <1>1, <1>3, <1>6 DEF TypeOK
      <3>2. \A q \in Proc : ~Uses(q, new)
        BY <1>6 DEF Inv, Private, Allocated
      <3> QED
        BY <1>3, <2>1, <2>7, <3>1, <3>2 DEF OthersStay
    <2>11. \A i \in Inode : ref'[i] = ref[i] + Row(p, i)' - Row(p, i)
      BY <1>1, <1>3, <1>6, <2>1, SeqFacts DEF TypeOK, Row, Count
    <2>12. Private(p)'
      <3>1. Shape(p)'
        BY <1>1, <2>1, SeqFacts DEF Shape
      <3>2. Keeps(p)'
        BY <2>1 DEF Keeps
      <3>3. \A i \in Inode : Uses(p, i)' => i = new \/ Uses(p, i)
        BY <1>1, <1>3, <2>1, SeqFacts DEF Uses, InCwd, InFile, InIp, InDp, InPuts
      <3>4. Allocated(p)'
        BY <1>1, <2>7, <2>8, <3>3 DEF Allocated
      <3> QED
        BY <3>1, <3>2, <3>4 DEF Private
    <2>13. \A i \in Inode : /\ \A x : x # <<d, n>> => (x \in EntriesOf(i)' <=> x \in EntriesOf(i))
                            /\ <<d, n>> \in EntriesOf(i)' <=> i = new
                            /\ <<d, n>> \notin EntriesOf(i)
      <3> SUFFICES ASSUME NEW i \in Inode
                   PROVE  /\ \A x \in Inode \X Name :
                               x # <<d, n>> => (x \in EntriesOf(i)' <=> x \in EntriesOf(i))
                          /\ <<d, n>> \in EntriesOf(i)' <=> i = new
                          /\ <<d, n>> \notin EntriesOf(i)
        BY DEF EntriesOf
      <3>1. \A x \in Inode \X Name :
              x # <<d, n>> => (x \in EntriesOf(i)' <=> x \in EntriesOf(i))
        <4>1. dinode'[new].ent = dinode[new].ent
          BY <2>5, <2>8
        <4> QED
          BY <2>7, <4>1, PairParts DEF EntriesOf
      <3>2. <<d, n>> \in EntriesOf(i)' <=> i = new
        BY <2>7 DEF EntriesOf
      <3>3. <<d, n>> \notin EntriesOf(i)
        BY <1>1, <1>6 DEF EntriesOf
      <3> QED
        BY <3>1, <3>2, <3>3
    <2>14. \A i \in Inode : /\ \A j : j # new => (j \in Children(i)' <=> j \in Children(i))
                            /\ new \in Children(i)' <=> i = d /\ type = "dir"
                            /\ new \notin Children(i)
      <3> SUFFICES ASSUME NEW i \in Inode
                   PROVE  /\ \A j : j # new => (j \in Children(i)' <=> j \in Children(i))
                          /\ new \in Children(i)' <=> i = d /\ type = "dir"
                          /\ new \notin Children(i)
        OBVIOUS
      <3>1. ASSUME NEW j \in Inode, j # new
            PROVE  \A m \in Name : dinode'[i].ent[m] = j <=> dinode[i].ent[m] = j
        <4>1. dinode'[new].ent = dinode[new].ent
          BY <2>5, <2>8
        <4> QED
          BY <1>1, <1>6, <2>7, <3>1, <4>1, ZenonT(30)
      <3>2. \A j : j # new => (j \in Children(i)' <=> j \in Children(i))
        BY <2>7, <3>1 DEF Children, IsDir
      <3>3. new \in Children(i)' <=> i = d /\ type = "dir"
        BY <2>2, <2>7, <2>8 DEF Children, IsDir
      <3>4. new \notin Children(i)
        BY <1>6 DEF Children, IsDir
      <3> QED
        BY <3>2, <3>3, <3>4
    <2>15. Disk'
      <3>1. EntriesOf(Root)' = {}
        <4>1. \A x : x \notin EntriesOf(Root)'
          BY <1>1, <2>2, <2>13 DEF Inv, Disk
        <4> QED
          BY <4>1
      <3>2. \A i \in Inode : dinode'[i].type = "none" => dinode'[i].nlink = 0 /\ dinode'[i].ent = NoNames
        BY <1>4, <2>7, <2>8 DEF Inv, Disk
      <3>3. \A i \in Inode : IsDir(i)' /\ i # Root => dinode'[i].up # i
        BY <2>2, <2>7, <2>8 DEF Inv, Disk, IsDir
      <3>4. IsDir(Root)'
        BY <1>1, <2>2, <2>7 DEF Inv, Disk, IsDir
      <3> QED
        BY <3>1, <3>2, <3>3, <3>4 DEF Disk
    <2>16. DirectoryTree'
      <3> SUFFICES ASSUME NEW i \in Inode, IsDir(i)', NEW e \in EntriesOf(i)'
                   PROVE  EntriesOf(i)' = {e} /\ dinode'[i].up = e[1]
        BY DEF DirectoryTree
      <3>1. CASE i = new
        <4>1. \A x : x \in EntriesOf(i)' <=> x = <<d, n>>
          BY <2>5, <2>13, <3>1
        <4>2. EntriesOf(i)' = {e} /\ e = <<d, n>>
          BY <4>1
        <4> QED
          BY <2>8, <3>1, <4>2
      <3>2. CASE i # new
        <4>1. EntriesOf(i)' = EntriesOf(i)
          BY <2>13, <3>2
        <4>2. IsDir(i)
          BY <2>7, <3>2 DEF IsDir
        <4> QED
          BY <2>7, <3>2, <4>1, <4>2 DEF Inv, DirectoryTree
      <3> QED
        BY <3>1, <3>2
    <2>17. Counted'
      <3> SUFFICES ASSUME NEW i \in Inode
                   PROVE  Cardinality(EntriesOf(i)') + Cardinality(Children(i)')
                            + Cardinality(Pending(i)') + RootName(i) <= dinode'[i].nlink
        BY DEF Counted, RootName
      <3>1. \A x : x # p => (x \in Pending(i)' <=> x \in Pending(i))
        BY <2>1 DEF Pending
      <3>2. p \notin Pending(i) /\ p \notin Pending(i)'
        BY <1>1, <1>3, <2>1 DEF Pending
      <3>3. dinode[i].nlink \in Nat /\ dinode'[i].nlink \in Nat
        BY <1>1, <2>9 DEF TypeOK, Dinodes
      <3>4. dinode'[i].nlink = dinode[i].nlink + (IF i = d THEN k ELSE 0) + (IF i = new THEN 1 ELSE 0)
        BY <2>2, <2>5, <2>7, <2>8, <3>3
      <3>5. /\ Count(<<d, n>> \in EntriesOf(i)') = (IF i = new THEN 1 ELSE 0)
            /\ Count(<<d, n>> \in EntriesOf(i)) = 0
            /\ Count(new \in Children(i)') = (IF i = d THEN k ELSE 0)
            /\ Count(new \in Children(i)) = 0
            /\ Count(p \in Pending(i)') = 0 /\ Count(p \in Pending(i)) = 0
        BY <2>3, <2>13, <2>14, <3>2 DEF Count
      <3>6. dinode'[i].nlink >= dinode[i].nlink
              + Count(<<d, n>> \in EntriesOf(i)') - Count(<<d, n>> \in EntriesOf(i))
              + Count(new \in Children(i)') - Count(new \in Children(i))
              + Count(p \in Pending(i)') - Count(p \in Pending(i))
        BY <3>3, <3>4, <3>5
      <3>7. /\ \A x : x # <<d, n>> => (x \in EntriesOf(i)' <=> x \in EntriesOf(i))
            /\ \A j : j # new => (j \in Children(i)' <=> j \in Children(i))
        BY <2>13, <2>14
      <3> QED
        BY <3>1, <3>3, <3>6, <3>7, StillCounted
    <2> QED
      BY <2>9, <2>10, <2>11, <2>12, <2>15, <2>16, <2>17, StepInv
  <1>7. dinode[d].ent[n] \in Inode \cup {None}
    BY <1>1 DEF TypeOK, Dinodes
  <1>8. CASE dinode[d].ent[n] # None
    BY <1>2, <1>5, <1>7, <1>8 DEF Create, Loaded
  <1>9. CASE dinode[d].ent[n] = None
    <2>1. \E i \in Inode : dinode[i].type = "none"
      BY <1>2, <1>9 DEF Create
    <2>2. PICK new \in Inode : new = FirstFree /\ dinode[new].type = "none"
      BY <1>1, <2>1, FirstFreeIsFree
    <2>3. PICK type \in {"dir", "file"} : type = TypeFor(c.op)
      BY DEF TypeFor
    <2>4. /\ lock[new] = Free /\ ref' = [ref EXCEPT ![new] = @ + 1]
          /\ valid' = [valid EXCEPT ![d] = TRUE, ![new] = TRUE]
          /\ dinode' = [dinode EXCEPT ![new] = NewInode(type, d),
                                      ![d].nlink = @ + DotDot(type),
                                      ![d].ent[n] = new]
          /\ lock' = [lock EXCEPT ![new] = p]
          /\ Become(p, Frame("got", c, new, None, <<>>, <<d>>))
      BY <1>2, <1>9, <2>2, <2>3 DEF Create, IgetTo
    <2> QED
      BY <1>6, <1>9, <2>2, <2>4
  <1> QED
    BY <1>8, <1>9

(***************************************************************************)
(* The theorems.                                                           *)
(***************************************************************************)
LEMMA InitInv ==
  ASSUME Init
  PROVE  Inv
  <1>1. /\ Root \in Inode /\ None \notin Inode /\ Free \notin Proc
        /\ IsFiniteSet(Proc) /\ Cardinality(Proc) \in Nat
    BY InodesAssumption, FS_CardinalityType DEF Root, Inode
  <1>2. /\ \A m \in Name : NoNames[m] = None
        /\ NoNames \in [Name -> Inode \cup {None}]
    BY DEF NoNames
  <1>3. /\ NewInode("dir", Root) \in Dinodes /\ FreeInode \in Dinodes
        /\ NewInode("dir", Root).type = "dir" /\ NewInode("dir", Root).nlink = 1
        /\ NewInode("dir", Root).up = Root /\ NewInode("dir", Root).ent = NoNames
        /\ FreeInode.type = "none" /\ FreeInode.nlink = 0 /\ FreeInode.ent = NoNames
    BY <1>1, <1>2 DEF NewInode, FreeInode, Dinodes
  <1>4. /\ \A i \in Inode : dinode[i] \in Dinodes /\ dinode[i].ent = NoNames
        /\ dinode[Root].type = "dir" /\ dinode[Root].nlink = 1 /\ dinode[Root].up = Root
        /\ \A i \in Inode : i # Root => dinode[i].type = "none" /\ dinode[i].nlink = 0
    BY <1>1, <1>3 DEF Init
  <1>5. Frame("idle", NoCall, None, None, <<>>, <<>>) \in Frames
    BY SeqFacts, FrameType
  <1>6. \A p \in Proc : frame[p] = Frame("idle", NoCall, None, None, <<>>, <<>>)
    BY DEF Init, Idle
  <1>7. \A p \in Proc : /\ frame[p].pc = "idle" /\ frame[p].ip = None /\ frame[p].dp = None
                        /\ frame[p].puts = <<>> /\ ~frame[p].dropping
    BY <1>6, Fields
  <1>8. TypeOK
    <2>1. dinode \in [Inode -> Dinodes]
      BY <1>1, <1>3 DEF Init
    <2>2. frame \in [Proc -> Frames]
      BY <1>5 DEF Init, Idle
    <2>3. ref \in [Inode -> Nat] /\ valid \in [Inode -> BOOLEAN]
      BY <1>1 DEF Init
    <2> QED
      BY <1>1, <2>1, <2>2, <2>3 DEF Init, TypeOK
  <1>9. \A i \in Inode : EntriesOf(i) = {} /\ Children(i) = {} /\ Pending(i) = {}
    BY <1>1, <1>2, <1>4, <1>7 DEF EntriesOf, Children, Pending
  <1>10. Cardinality({}) = 0
    BY FS_EmptySet
  <1>11. RefsExact
    <2> SUFFICES ASSUME NEW i \in Inode
                 PROVE  ref[i] = Cardinality(InCwd(i)) + Cardinality(InFile(i))
                          + Cardinality(InIp(i)) + Cardinality(InDp(i))
                          + Cardinality(InPuts(i, 1)) + Cardinality(InPuts(i, 2))
      BY DEF RefsExact
    <2>1. /\ InFile(i) = {} /\ InIp(i) = {} /\ InDp(i) = {}
          /\ InPuts(i, 1) = {} /\ InPuts(i, 2) = {}
      BY <1>1, <1>7, SeqFacts DEF Init, InFile, InIp, InDp, InPuts
    <2>2. InCwd(i) = IF i = Root THEN Proc ELSE {}
      BY <1>7 DEF Init, InCwd
    <2>3. ref[i] = IF i = Root THEN Cardinality(Proc) ELSE 0
      BY DEF Init
    <2>4. /\ Cardinality(InFile(i)) = 0 /\ Cardinality(InIp(i)) = 0 /\ Cardinality(InDp(i)) = 0
          /\ Cardinality(InPuts(i, 1)) = 0 /\ Cardinality(InPuts(i, 2)) = 0
      BY <1>10, <2>1
    <2>5. Cardinality(InCwd(i)) = ref[i] /\ ref[i] \in Nat
      BY <1>1, <1>10, <2>2, <2>3
    <2> QED
      BY <2>4, <2>5
  <1>12. Disk
    BY <1>1, <1>4, <1>9 DEF Disk, IsDir
  <1>13. DirectoryTree
    BY <1>9 DEF DirectoryTree
  <1>14. Counted
    BY <1>4, <1>9, <1>10 DEF Counted, RootName
  <1>15. \A p \in Proc : Private(p)
    <2> SUFFICES ASSUME NEW p \in Proc
                 PROVE  Private(p)
      OBVIOUS
    <2>1. Shape(p)
      BY <1>7, SeqFacts DEF Shape
    <2>2. Keeps(p)
      BY <1>7 DEF Keeps
    <2>3. \A i \in Inode : Uses(p, i) => i = Root
      BY <1>1, <1>7, SeqFacts DEF Init, Uses, InCwd, InFile, InIp, InDp, InPuts
    <2>4. Allocated(p)
      BY <1>4, <2>3 DEF Allocated
    <2> QED
      BY <2>1, <2>2, <2>4 DEF Private
  <1> QED
    BY <1>8, <1>11, <1>12, <1>13, <1>14, <1>15 DEF Inv

LEMMA NextInv ==
  ASSUME Inv, [Next]_vars
  PROVE  Inv'
  <1>1. CASE UNCHANGED vars
    <2>1. TypeOK' /\ DirectoryTree' /\ Disk'
      BY <1>1 DEF vars, Inv, TypeOK, DirectoryTree, EntriesOf, IsDir, Disk
    <2>2. RefsExact'
      BY <1>1 DEF vars, Inv, RefsExact, InCwd, InFile, InIp, InDp, InPuts
    <2>3. Counted'
      BY <1>1 DEF vars, Inv, Counted, EntriesOf, Children, Pending, IsDir
    <2>4. \A p \in Proc : Private(p)'
      BY <1>1 DEF vars, Inv, Private, Shape, Keeps, Allocated, Uses, InCwd, InFile, InIp, InDp,
                  InPuts, IsDir, NameOf
    <2> QED
      BY <2>1, <2>2, <2>3, <2>4 DEF Inv
  <1>2. ASSUME NEW p \in Proc, Step(p) PROVE Inv'
    <2>1. CASE PutCheck(p)
      BY <2>1, PutCheckInv
    <2>2. CASE PutDrop(p)
      BY <2>2, PutDropInv
    <2>3. ASSUME NEW c \in Calls, Start(p, c) PROVE Inv'
      BY <2>3, StartInv
    <2>4. CASE Close(p)
      BY <2>4, CloseInv
    <2>5. CASE Walk(p)
      BY <2>5, WalkInv
    <2>6. CASE Create(p)
      BY <2>6, CreateInv
    <2>7. CASE Exists(p)
      BY <2>7, ExistsInv
    <2>8. CASE Got(p)
      BY <2>8, GotInv
    <2>9. CASE Chdir(p)
      BY <2>9, ChdirInv
    <2>10. CASE SetCwd(p)
      BY <2>10, SetCwdInv
    <2>11. CASE LinkOld(p)
      BY <2>11, LinkOldInv
    <2>12. CASE LinkNew(p)
      BY <2>12, LinkNewInv
    <2>13. CASE UnlockDir(p)
      BY <2>13, UnlockDirInv
    <2>14. CASE UnlinkOld(p)
      BY <2>14, UnlinkOldInv
    <2>15. CASE UnlinkFind(p)
      BY <2>15, UnlinkFindInv
    <2>16. CASE Unlink(p)
      BY <2>16, UnlinkInv
    <2> QED
      BY <1>2, <2>1, <2>2, <2>3, <2>4, <2>5, <2>6, <2>7, <2>8, <2>9, <2>10, <2>11, <2>12,
         <2>13, <2>14, <2>15, <2>16 DEF Step
  <1> QED
    BY <1>1, <1>2 DEF Next

(* The invariant holds in every state of every execution.                  *)
THEOREM Invariance == Spec => []Inv
  <1>1. Init => Inv
    BY InitInv
  <1>2. Inv /\ [Next]_vars => Inv'
    BY NextInv
  <1> QED
    BY <1>1, <1>2, PTL DEF Spec

(* ip->ref is the number of holders of the inode, at every moment of every  *)
(* call and of iput(), however many processes there are.                   *)
THEOREM ReferencesAreExact == Spec => []RefsExact
  <1>1. Inv => RefsExact
    BY DEF Inv
  <1> QED
    BY <1>1, Invariance, PTL

(* No inode is freed under a process that uses it: ilock() never panics for *)
(* want of a type, and no entry of the cache is given to another inode.     *)
THEOREM NoUseAfterFree == Spec => []UsedIsAllocated
  <1>1. Inv => UsedIsAllocated
    BY DEF Inv, Private, Allocated, UsedIsAllocated
  <1> QED
    BY <1>1, Invariance, PTL

(* nlink is never below the number of names, not even inside link() and     *)
(* unlink(): no name leads to a freed inode.                               *)
THEOREM NamesOutliveNoInode == Spec => []NamesAreCounted
  <1>1. Inv => NamesAreCounted
    <2> SUFFICES ASSUME Inv, NEW i \in Inode
                 PROVE  Cardinality(EntriesOf(i)) + Cardinality(Children(i)) <= dinode[i].nlink
      BY DEF NamesAreCounted
    <2>1. Cardinality(EntriesOf(i)) + Cardinality(Children(i)) + Cardinality(Pending(i))
            + RootName(i) <= dinode[i].nlink
      BY DEF Inv, Counted
    <2>2. dinode[i].nlink \in Nat
      BY DEF Inv, TypeOK, Dinodes
    <2> QED
      BY <2>1, <2>2, Sizes
  <1> QED
    BY <1>1, Invariance, PTL

(* Directories form a tree, whatever creates, removes and links there are.  *)
THEOREM DirectoriesFormATree == Spec => []DirectoryTree
  <1>1. Inv => DirectoryTree
    BY DEF Inv
  <1> QED
    BY <1>1, Invariance, PTL

LEMMA CountFalls ==
  ASSUME Inv, [Next]_vars, NEW i \in Inode, IsDir(i), dinode'[i].nlink < dinode[i].nlink
  PROVE  dinode[i].ent = NoNames \/ dinode'[i].ent # dinode[i].ent
  <1>1. TypeOK /\ dinode[i] \in Dinodes /\ dinode[i].nlink \in Nat
    BY DEF Inv, TypeOK, Dinodes
  <1>2. dinode' # dinode
    BY <1>1
  <1>3. PICK p \in Proc : Step(p)
    BY <1>2 DEF Next, vars
  <1>4. /\ Shape(p) /\ Keeps(p) /\ frame[p] \in Frames /\ None \notin Inode
    BY Basics
  <1>5. CASE PutCheck(p)
    <2>1. PICK j : j = Head(frame[p].puts)
      OBVIOUS
    <2>2. dinode[j].nlink = 0 /\ dinode' = [dinode EXCEPT ![j] = FreeInode]
      BY <1>2, <1>5, <2>1 DEF PutCheck, LastRef
    <2>3. i # j
      BY <1>1, <2>2 DEF FreeInode, TypeOK
    <2> QED
      BY <1>1, <2>2, <2>3 DEF TypeOK
  <1>6. CASE Create(p)
    <2>1. PICK d \in Inode, n \in Name, type \in {"dir", "file"} :
            d = frame[p].ip /\ n = NameOf(p) /\ type = TypeFor(frame[p].call.op)
      <3>1. frame[p].ip \in Inode /\ frame[p].path \in Seq(Name) /\ frame[p].path # <<>>
        BY <1>4, <1>6 DEF Create, At, Shape, Frames, ByParent
      <3> QED
        BY <3>1, PathFacts DEF NameOf, TypeFor
    <2>2. \E k \in Inode : dinode[k].type = "none"
      BY <1>2, <1>6, <2>1 DEF Create
    <2>3. PICK new \in Inode : new = FirstFree /\ dinode[new].type = "none"
      BY <1>1, <2>2, FirstFreeIsFree
    <2>4. dinode' = [dinode EXCEPT ![new] = NewInode(type, d),
                                   ![d].nlink = @ + DotDot(type),
                                   ![d].ent[n] = new]
      BY <1>2, <1>6, <2>1, <2>3 DEF Create
    <2>5. i # new
      BY <2>3 DEF IsDir
    <2>6. DotDot(type) \in Nat
      BY DEF DotDot
    <2>7. ~(dinode'[i].nlink < dinode[i].nlink)
      BY <1>1, <2>4, <2>5, <2>6 DEF TypeOK, Dinodes
    <2> QED
      BY <2>7
  <1>7. CASE LinkOld(p)
    <2>1. PICK j : dinode' = [dinode EXCEPT ![j].nlink = @ + 1]
      BY <1>2, <1>7 DEF LinkOld
    <2> QED
      BY <1>1, <2>1 DEF TypeOK, Dinodes
  <1>8. CASE LinkNew(p)
    <2>1. PICK j, n, k : dinode' = [dinode EXCEPT ![j].ent[n] = k]
      BY <1>2, <1>8 DEF LinkNew
    <2> QED
      BY <1>1, <2>1 DEF TypeOK, Dinodes
  <1>9. CASE UnlinkOld(p)
    <2>1. PICK j \in Inode : j = frame[p].ip
      BY <1>4, <1>9 DEF UnlinkOld, At, Shape, Frames
    <2>2. dinode' = [dinode EXCEPT ![j].nlink = @ - 1]
      BY <1>9, <2>1 DEF UnlinkOld
    <2>3. i = j
      BY <1>1, <2>2 DEF TypeOK
    <2> QED
      BY <1>4, <1>9, <2>1, <2>3 DEF Keeps, UnlinkOld, At
  <1>10. CASE Unlink(p)
    <2>1. PICK x \in Inode, d \in Inode, n \in Name :
            x = frame[p].ip /\ d = frame[p].dp /\ n = NameOf(p)
      <3>1. /\ frame[p].ip \in Inode /\ frame[p].dp \in Inode
            /\ frame[p].path \in Seq(Name) /\ frame[p].path # <<>>
        BY <1>4, <1>10 DEF Unlink, At, Shape, Frames
      <3> QED
        BY <3>1, PathFacts DEF NameOf
    <2>2. dinode' = [dinode EXCEPT ![d].ent[n] = None, ![d].nlink = @ - DotDot(dinode[x].type)]
      BY <1>2, <1>10, <2>1 DEF Unlink
    <2>3. i = d
      BY <1>1, <2>2 DEF TypeOK
    <2>4. dinode'[i].ent[n] = None
      BY <1>1, <2>2, <2>3 DEF TypeOK, Dinodes
    <2>5. dinode[i].ent[n] = x
      BY <1>4, <1>10, <2>1, <2>3 DEF Keeps, Unlink, At
    <2> QED
      BY <1>4, <2>4, <2>5
  <1>11. CASE \/ PutDrop(p) \/ (\E c \in Calls : Start(p, c)) \/ Close(p) \/ Walk(p) \/ Exists(p)
              \/ Got(p) \/ Chdir(p) \/ SetCwd(p) \/ UnlockDir(p) \/ UnlinkFind(p)
    BY <1>2, <1>11 DEF PutDrop, Start, Close, Walk, Exists, Got, Chdir, SetCwd, UnlockDir, UnlinkFind
  <1> QED
    BY <1>3, <1>5, <1>6, <1>7, <1>8, <1>9, <1>10, <1>11 DEF Step

(* rmdir() by unlink(): when the count of a directory falls without one of  *)
(* its own entries going, the directory is empty.                          *)
THEOREM OnlyEmptyIsRemoved == Spec => RemovedWasEmpty
  <1>1. Inv /\ [Next]_vars
          => [\A i \in Inode : IsDir(i) /\ dinode'[i].nlink < dinode[i].nlink
                 => dinode[i].ent = NoNames \/ dinode'[i].ent # dinode[i].ent]_vars
    BY CountFalls
  <1> QED
    BY <1>1, Invariance, PTL DEF Spec, RemovedWasEmpty
=============================================================================
