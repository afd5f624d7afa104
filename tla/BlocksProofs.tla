---------------------------- MODULE BlocksProofs ----------------------------
(***************************************************************************)
(* The buffer cache for any number of buffers, blocks and processes: a block *)
(* has one buffer, the pool does not run out, every sleeper has someone to   *)
(* wake it, and the whole is the block store its callers see.  Below it, the *)
(* undo log: its header names what a crash would leave half done.           *)
(***************************************************************************)
EXTENDS Blocks, FiniteSetTheorems, FunctionTheorems, SequenceTheorems, TLAPS

Pc == {"idle", "lock", "asleep", "locked", "io", "use", "drop"}
Owning == {"locked", "io", "use"}

(* The processes that have a reference to b, the buffers whose request is    *)
(* queued, and those log_write() keeps.                                     *)
Referents(b) == {p \in Proc : mine[p] = b}
InFlight == {b \in Buf : \E p \in Proc : pc[p] = "io" /\ mine[p] = b}
Pinned(S) == {b \in Buf : dirty[b]} \ S

(* q lists the members of S, each once.                                     *)
Lists(q, S) ==
  /\ \A i \in 1..Len(q) : q[i] \in S
  /\ \A b \in S : \E i \in 1..Len(q) : q[i] = b
  /\ \A i, j \in 1..Len(q) : q[i] = q[j] => i = j

PcInv ==
  \A p \in Proc : /\ pc[p] \in Pc
                  /\ pc[p] = "idle" <=> mine[p] = None
                  /\ pc[p] # "idle" => mine[p] \in Buf /\ bno[mine[p]] \in Block
                  /\ pc[p] = "use" => valid[mine[p]]
RefInv == \A b \in Buf : refcnt[b] = Cardinality(Referents(b))
HolderInv ==
  /\ \A p \in Proc : pc[p] \in Owning => holder[mine[p]] = p
  /\ \A b \in Buf : holder[b] # Free => mine[holder[b]] = b /\ pc[holder[b]] \in Owning
QueueInv == Lists(queue, InFlight) /\ (busy <=> queue # <<>>)
ListInv == \A b \in Buf : \E i \in 1..Len(mru) : mru[i] = b
DataInv ==
  \A b \in Buf : /\ dirty[b] => valid[b]
                 /\ valid[b] => bno[b] \in Block
                 /\ valid[b] /\ ~dirty[b] => data[b] = disk[bno[b]]
PinInv == Cardinality(Pinned(InFlight)) <= NPin

Inv == /\ TypeOK /\ PcInv /\ RefInv /\ OneBufferPerBlock /\ HolderInv /\ SleeperHasHolder
       /\ QueueInv /\ ListInv /\ DataInv /\ PinInv

-----------------------------------------------------------------------------
(* Sequences without repetition: the queue and the list of buffers.        *)
LEMMA ListsAppend ==
  ASSUME NEW T, NEW q \in Seq(T), NEW S, Lists(q, S), NEW x \in T, x \notin S
  PROVE  Lists(Append(q, x), S \cup {x})
<1>1. /\ Len(q) \in Nat /\ Len(Append(q, x)) = Len(q) + 1
      /\ \A i \in 1..Len(q) : Append(q, x)[i] = q[i]
      /\ Append(q, x)[Len(q) + 1] = x
  BY AppendProperties, LenProperties
<1>2. \A i \in 1..(Len(q) + 1) : i \in 1..Len(q) \/ i = Len(q) + 1
  BY <1>1
<1>3. ASSUME NEW i \in 1..(Len(q) + 1) PROVE Append(q, x)[i] \in S \cup {x}
  BY <1>1, <1>2 DEF Lists
<1>4. ASSUME NEW b \in S \cup {x} PROVE \E i \in 1..(Len(q) + 1) : Append(q, x)[i] = b
  <2>1. CASE b \in S
    <3>1. PICK i \in 1..Len(q) : q[i] = b
      BY <2>1 DEF Lists
    <3>2. i \in 1..(Len(q) + 1)
      BY <1>1
    <3> QED
      BY <1>1, <3>1, <3>2
  <2>2. CASE b = x
    <3>1. Len(q) + 1 \in 1..(Len(q) + 1)
      BY <1>1
    <3> QED
      BY <1>1, <2>2, <3>1
  <2> QED
    BY <2>1, <2>2
<1>5. ASSUME NEW i \in 1..(Len(q) + 1), NEW j \in 1..(Len(q) + 1),
             Append(q, x)[i] = Append(q, x)[j]
      PROVE  i = j
  BY <1>1, <1>2, <1>5 DEF Lists
<1> QED
  BY <1>1, <1>3, <1>4, <1>5 DEF Lists

LEMMA ListsTail ==
  ASSUME NEW T, NEW q \in Seq(T), NEW S, Lists(q, S), q # <<>>
  PROVE  /\ Head(q) \in S /\ Head(q) = q[1]
         /\ Tail(q) \in Seq(T)
         /\ Lists(Tail(q), S \ {Head(q)})
<1>1. /\ Len(q) \in Nat \ {0} /\ Tail(q) \in Seq(T) /\ Len(Tail(q)) = Len(q) - 1
      /\ \A i \in 1..Len(Tail(q)) : Tail(q)[i] = q[i + 1]
  BY EmptySeq, HeadTailProperties
<1>2. Head(q) = q[1] /\ 1 \in 1..Len(q)
  BY <1>1
<1>3. \A i \in 1..(Len(q) - 1) : i + 1 \in 1..Len(q) /\ i + 1 # 1
  BY <1>1
<1>4. ASSUME NEW i \in 1..(Len(q) - 1) PROVE Tail(q)[i] \in S \ {Head(q)}
  BY <1>1, <1>2, <1>3 DEF Lists
<1>5. ASSUME NEW b \in S \ {Head(q)} PROVE \E i \in 1..(Len(q) - 1) : Tail(q)[i] = b
  <2>1. PICK i \in 1..Len(q) : q[i] = b
    BY DEF Lists
  <2>2. i - 1 \in 1..(Len(q) - 1) /\ (i - 1) + 1 = i
    BY <1>1, <1>2, <2>1
  <2> QED
    BY <1>1, <2>1, <2>2
<1>6. ASSUME NEW i \in 1..(Len(q) - 1), NEW j \in 1..(Len(q) - 1), Tail(q)[i] = Tail(q)[j]
      PROVE  i = j
  <2>1. q[i + 1] = q[j + 1]
    BY <1>1, <1>6
  <2>2. i + 1 = j + 1
    BY <1>3, <2>1 DEF Lists
  <2> QED
    BY <1>1, <2>2
<1> QED
  BY <1>1, <1>2, <1>4, <1>5, <1>6 DEF Lists

(* Moving a buffer to the front of the list loses none.                     *)
ToFront(s, i) == <<s[i]>> \o RemoveAt(s, i)

LEMMA MoveToFront ==
  ASSUME NEW T, NEW s \in Seq(T), NEW i \in DOMAIN s
  PROVE  /\ ToFront(s, i) \in Seq(T)
         /\ \A j \in 1..Len(s) : \E h \in 1..Len(ToFront(s, i)) : ToFront(s, i)[h] = s[j]
<1> DEFINE t == ToFront(s, i)
           a == SubSeq(s, 1, i - 1)
           z == SubSeq(s, i + 1, Len(s))
<1>1. Len(s) \in Nat /\ i \in 1..Len(s) /\ \A j \in 1..Len(s) : s[j] \in T
  BY LenProperties, ElementOfSeq
<1>2. a \in Seq(T) /\ Len(a) = i - 1 /\ \A j \in 1..(i - 1) : a[j] = s[j]
  <2>1. 1 \in Int /\ i - 1 \in Int /\ \A j \in 1..(i - 1) : s[j] \in T
    BY <1>1
  <2>2. /\ a \in Seq(T) /\ Len(a) = IF 1 <= i - 1 THEN (i - 1) - 1 + 1 ELSE 0
        /\ \A j \in 1..((i - 1) - 1 + 1) : a[j] = s[1 + j - 1]
    BY <2>1, SubSeqProperties
  <2> HIDE DEF a
  <2> QED
    BY <1>1, <2>2
<1>3. /\ z \in Seq(T) /\ Len(z) = Len(s) - i
      /\ \A j \in 1..(Len(s) - i) : z[j] = s[i + j]
  <2>1. i + 1 \in Int /\ Len(s) \in Int /\ \A j \in (i + 1)..Len(s) : s[j] \in T
    BY <1>1
  <2>2. /\ z \in Seq(T) /\ Len(z) = IF i + 1 <= Len(s) THEN Len(s) - (i + 1) + 1 ELSE 0
        /\ \A j \in 1..(Len(s) - (i + 1) + 1) : z[j] = s[(i + 1) + j - 1]
    BY <2>1, SubSeqProperties
  <2> HIDE DEF z
  <2> QED
    BY <1>1, <2>2
<1>4. t = <<s[i]>> \o (a \o z)
  BY DEF RemoveAt, ToFront
<1> HIDE DEF a, z, t
<1> DEFINE h == <<s[i]>>
<1>6. h \in Seq(T) /\ Len(h) = 1 /\ h[1] = s[i]
  BY <1>1
<1> HIDE DEF h
<1>7. /\ a \o z \in Seq(T) /\ Len(a \o z) = Len(a) + Len(z)
      /\ \A j \in 1..(Len(a) + Len(z)) : (a \o z)[j] = IF j <= Len(a) THEN a[j] ELSE z[j - Len(a)]
  BY <1>2, <1>3, ConcatProperties
<1> DEFINE y == a \o z
<1>8. /\ y \in Seq(T) /\ Len(y) = Len(s) - 1
      /\ \A j \in 1..(Len(s) - 1) : y[j] = IF j <= i - 1 THEN a[j] ELSE z[j - (i - 1)]
  <2>1. Len(a) + Len(z) = Len(s) - 1 /\ Len(a) = i - 1
    BY <1>1, <1>2, <1>3
  <2> HIDE DEF y
  <2>2. y \in Seq(T) /\ Len(y) = Len(s) - 1
    BY <1>7, <2>1 DEF y
  <2>3. \A j \in 1..(Len(s) - 1) : y[j] = IF j <= Len(a) THEN a[j] ELSE z[j - Len(a)]
    BY <1>7, <2>1, Zenon DEF y
  <2> QED
    BY <2>1, <2>2, <2>3
<1> HIDE DEF y
<1>9. /\ h \o y \in Seq(T) /\ Len(h \o y) = Len(h) + Len(y)
      /\ \A j \in 1..(Len(h) + Len(y)) : (h \o y)[j] = IF j <= Len(h) THEN h[j] ELSE y[j - Len(h)]
  BY <1>6, <1>8, ConcatProperties
<1>10. /\ t \in Seq(T) /\ Len(t) = Len(s)
       /\ \A j \in 1..Len(s) : t[j] = IF j <= 1 THEN h[j] ELSE y[j - 1]
  <2>1. t = h \o y
    BY <1>4 DEF h, y
  <2>2. Len(h) + Len(y) = Len(s)
    BY <1>1, <1>6, <1>8
  <2>3. t \in Seq(T) /\ Len(t) = Len(s)
    BY <1>9, <2>1, <2>2, Zenon
  <2>4. \A j \in 1..Len(s) : t[j] = IF j <= Len(h) THEN h[j] ELSE y[j - Len(h)]
    BY <1>9, <2>1, <2>2, Zenon
  <2> QED
    BY <1>6, <2>3, <2>4
<1>11. ASSUME NEW j \in 1..Len(s) PROVE \E e \in 1..Len(t) : t[e] = s[j]
  <2>1. CASE j = i
    <3>1. 1 \in 1..Len(t) /\ t[1] = s[i]
      BY <1>1, <1>6, <1>10
    <3> QED
      BY <2>1, <3>1
  <2>2. CASE j < i
    <3>1. j + 1 \in 1..Len(t) /\ t[j + 1] = y[j]
      BY <1>1, <1>10, <2>2
    <3>2. y[j] = a[j] /\ a[j] = s[j]
      BY <1>1, <1>2, <1>8, <2>2
    <3> QED
      BY <3>1, <3>2
  <2>3. CASE j > i
    <3>1. j \in 1..Len(t) /\ t[j] = y[j - 1]
      BY <1>1, <1>10, <2>3
    <3>2. y[j - 1] = z[j - i]
      BY <1>1, <1>8, <2>3
    <3>3. z[j - i] = s[j]
      BY <1>1, <1>3, <2>3
    <3> QED
      BY <3>1, <3>2, <3>3
  <2> QED
    BY <1>1, <2>1, <2>2, <2>3
<1> QED
  BY <1>10, <1>11 DEF t

(* The list that binit() builds holds every buffer.                         *)
LEMMA ListOfAll ==
  ASSUME NEW S, IsFiniteSet(S)
  PROVE  SetToSeq(S) \in Seq(S) /\ \A b \in S : \E i \in 1..Len(SetToSeq(S)) : SetToSeq(S)[i] = b
<1> DEFINE n == Cardinality(S)
           f == SetToSeq(S)
<1>1. n \in Nat /\ ExistsBijection(1..n, S)
  BY FS_CardinalityType
<1>2. \E g \in [1..n -> S] : IsInjective(g)
  BY <1>1 DEF ExistsBijection, Bijection, Injection
<1>3. f \in [1..n -> S] /\ IsInjective(f)
  BY <1>2 DEF SetToSeq
<1>4. f \in Injection(1..n, S)
  BY <1>3 DEF Injection
<1>5. Cardinality(1..n) = n
  BY <1>1, FS_Interval
<1> HIDE DEF f
<1>6. f \in Surjection(1..n, S)
  BY <1>4, <1>5, FS_Injection
<1>7. \A b \in S : \E i \in 1..n : f[i] = b
  BY <1>6 DEF Surjection
<1> HIDE DEF n
<1>8. f \in Seq(S) /\ Len(f) = n
  BY <1>1, <1>3
<1> QED
  BY <1>7, <1>8 DEF f

LEMMA FinitePool ==
  /\ \A b : IsFiniteSet(Referents(b)) /\ Cardinality(Referents(b)) \in Nat
  /\ \A S : S \subseteq Buf => IsFiniteSet(S) /\ Cardinality(S) \in Nat
  /\ \A S, U : S \subseteq U /\ U \subseteq Buf => Cardinality(S) <= Cardinality(U)
<1>1. \A b : Referents(b) \subseteq Proc
  BY DEF Referents
<1>2. \A S : S \subseteq Buf => IsFiniteSet(S)
  BY BuffersAssumption, FS_Subset
<1> QED
  BY <1>1, <1>2, BuffersAssumption, FS_Subset, FS_CardinalityType

-----------------------------------------------------------------------------
(* What a step that touches neither the queue nor the dirty flags keeps.    *)
LEMMA SameFlight ==
  ASSUME \A q \in Proc : (pc'[q] = "io" <=> pc[q] = "io") /\ (pc[q] = "io" => mine'[q] = mine[q])
  PROVE  InFlight' = InFlight
BY DEF InFlight

LEMMA QueueKept ==
  ASSUME QueueInv, InFlight' = InFlight, UNCHANGED <<queue, busy>>
  PROVE  QueueInv'
BY DEF QueueInv, Lists

LEMMA PinKept ==
  ASSUME PinInv, InFlight' = InFlight, dirty' = dirty
  PROVE  PinInv'
BY DEF PinInv, Pinned

LEMMA RefKept ==
  ASSUME RefInv, UNCHANGED <<mine, refcnt>>
  PROVE  RefInv'
BY DEF RefInv, Referents

LEMMA ListKept ==
  ASSUME ListInv, mru' = mru
  PROVE  ListInv'
BY DEF ListInv

LEMMA InitInv == Init => Inv
<1> SUFFICES ASSUME Init PROVE Inv
  OBVIOUS
<1>1. mru \in Seq(Buf) /\ ListInv
  BY BuffersAssumption, ListOfAll DEF Init, ListInv
<1>2. TypeOK
  <2>1. queue \in Seq(Buf)
    BY DEF Init
  <2> QED
    BY <1>1, <2>1, BuffersAssumption DEF Init, TypeOK
<1>3. PcInv /\ OneBufferPerBlock /\ HolderInv /\ SleeperHasHolder /\ DataInv
  BY BuffersAssumption DEF Init, PcInv, Pc, Owning, OneBufferPerBlock, HolderInv, SleeperHasHolder, DataInv
<1>4. RefInv
  <2>1. \A b \in Buf : Referents(b) = {}
    BY BuffersAssumption DEF Init, Referents
  <2> QED
    BY <2>1, FS_EmptySet DEF Init, RefInv
<1>5. InFlight = {}
  BY DEF Init, InFlight
<1>6. QueueInv
  BY <1>5, EmptySeq DEF Init, QueueInv, Lists
<1>7. PinInv
  <2>1. Pinned(InFlight) = {}
    BY DEF Init, Pinned
  <2> QED
    BY <2>1, FS_EmptySet, BuffersAssumption DEF PinInv
<1> QED
  BY <1>1, <1>2, <1>3, <1>4, <1>6, <1>7 DEF Inv

LEMMA HitInv ==
  ASSUME Inv, NEW p \in Proc, NEW k \in Block, Hit(p, k)
  PROVE  Inv'
<1> USE BuffersAssumption DEF Inv
<1>1. PICK b \in Buf : Holds(b, k) /\ refcnt' = [refcnt EXCEPT ![b] = @ + 1] /\ mine' = [mine EXCEPT ![p] = b]
  BY DEF Hit
<1>2. /\ pc[p] = "idle" /\ mine[p] = None /\ pc' = [pc EXCEPT ![p] = "lock"]
      /\ UNCHANGED <<mru, bno, valid, dirty, data, holder, disk, queue, busy>>
  BY DEF Hit, Become, PcInv, bufVars, ideVars
<1>3. InFlight' = InFlight
  BY <1>1, <1>2, SameFlight DEF TypeOK
<1>4. TypeOK'
  BY <1>1, <1>2 DEF TypeOK
<1>5. PcInv'
  BY <1>1, <1>2 DEF TypeOK, PcInv, Pc, Holds
<1>6. RefInv'
  <2>1. Referents(b)' = Referents(b) \cup {p} /\ p \notin Referents(b)
    BY <1>1, <1>2 DEF TypeOK, Referents
  <2>2. Cardinality(Referents(b)') = Cardinality(Referents(b)) + 1
    BY <2>1, FinitePool, FS_AddElement
  <2>3. ASSUME NEW c \in Buf, c # b PROVE Referents(c)' = Referents(c)
    BY <1>1, <1>2, <2>3 DEF TypeOK, Referents
  <2> QED
    BY <1>1, <2>2, <2>3 DEF TypeOK, RefInv
<1>7. HolderInv' /\ SleeperHasHolder'
  BY <1>1, <1>2 DEF TypeOK, HolderInv, SleeperHasHolder, Owning
<1>8. OneBufferPerBlock' /\ DataInv' /\ ListInv'
  BY <1>2 DEF OneBufferPerBlock, DataInv, ListInv
<1>9. QueueInv' /\ PinInv'
  BY <1>2, <1>3, QueueKept, PinKept
<1> QED
  BY <1>4, <1>5, <1>6, <1>7, <1>8, <1>9

(* bget() finds a buffer to recycle: those in use belong to other processes, *)
(* and no more than NPin idle ones are dirty.                               *)
LEMMA SomeRecyclable ==
  ASSUME Inv, NEW p \in Proc, pc[p] = "idle"
  PROVE  \E i \in DOMAIN mru : Recyclable(mru[i])
<1> USE BuffersAssumption DEF Inv
<1> DEFINE U == {b \in Buf : refcnt[b] # 0}
           M == {mine[q] : q \in Proc \ {p}}
           D == Pinned(InFlight)
<1>1. ASSUME NEW b \in Buf, Recyclable(b) PROVE \E i \in DOMAIN mru : Recyclable(mru[i])
  <2>1. DOMAIN mru = 1..Len(mru)
    BY LenProperties DEF TypeOK
  <2> QED
    BY <1>1, <2>1 DEF ListInv
<1>2. SUFFICES ASSUME \A b \in Buf : ~Recyclable(b) PROVE FALSE
  BY <1>1
<1>3. \A b \in Buf : refcnt[b] # 0 => Referents(b) # {}
  BY FS_EmptySet, FinitePool DEF RefInv
<1>4. U \subseteq M
  BY <1>3 DEF Referents, PcInv
<1>5. Buf \subseteq U \cup D
  <2>1. ASSUME NEW b \in Buf, b \in InFlight PROVE refcnt[b] # 0
    <3>1. Referents(b) # {}
      BY <2>1 DEF InFlight, Referents
    <3> QED
      BY <3>1, FS_EmptySet, FinitePool DEF RefInv
  <2> QED
    BY <1>2, <2>1 DEF Recyclable, Pinned
<1>6. IsFiniteSet(Proc \ {p}) /\ Cardinality(Proc \ {p}) = Cardinality(Proc) - 1
  BY FS_RemoveElement
<1>7. IsFiniteSet(M) /\ Cardinality(M) <= Cardinality(Proc) - 1
  <2> DEFINE f == [q \in Proc \ {p} |-> mine[q]]
  <2>1. f \in Surjection(Proc \ {p}, M)
    BY DEF Surjection
  <2> HIDE DEF f, M
  <2> QED
    BY <1>6, <2>1, FS_Surjection
<1>8. IsFiniteSet(U) /\ Cardinality(U) <= Cardinality(M)
  BY <1>4, <1>7, FS_Subset
<1>9. IsFiniteSet(D) /\ Cardinality(D) <= NPin
  BY FinitePool DEF Pinned, PinInv
<1> HIDE DEF U, M, D
<1>10. Cardinality(Buf) <= Cardinality(U \cup D)
  BY <1>5, <1>8, <1>9, FS_Union, FS_Subset
<1>11. /\ Cardinality(U) \in Nat /\ Cardinality(D) \in Nat /\ Cardinality(M) \in Nat
       /\ Cardinality(U \cap D) \in Nat /\ Cardinality(Proc) \in Nat /\ Cardinality(Buf) \in Nat
       /\ Cardinality(U \cup D) = Cardinality(U) + Cardinality(D) - Cardinality(U \cap D)
  <2>1. IsFiniteSet(U \cap D)
    BY <1>8, FS_Intersection
  <2> QED
    BY <1>7, <1>8, <1>9, <2>1, FS_CardinalityType, FS_Union
<1> QED
  BY <1>7, <1>8, <1>9, <1>10, <1>11

LEMMA MissInv ==
  ASSUME Inv, NEW p \in Proc, NEW k \in Block, Miss(p, k)
  PROVE  Inv'
<1> USE BuffersAssumption DEF Inv
<1>1. pc[p] = "idle" /\ mine[p] = None
  BY DEF Miss, PcInv
<1>2. PICK i \in DOMAIN mru :
        /\ Recyclable(mru[i])
        /\ bno' = [bno EXCEPT ![mru[i]] = k] /\ refcnt' = [refcnt EXCEPT ![mru[i]] = 1]
        /\ valid' = [valid EXCEPT ![mru[i]] = FALSE] /\ dirty' = [dirty EXCEPT ![mru[i]] = FALSE]
        /\ mine' = [mine EXCEPT ![p] = mru[i]] /\ pc' = [pc EXCEPT ![p] = "lock"]
  BY <1>1, SomeRecyclable DEF Miss, Become
<1>3. mru[i] \in Buf /\ refcnt[mru[i]] = 0 /\ ~dirty[mru[i]]
  BY <1>2, LenProperties, ElementOfSeq DEF TypeOK, Recyclable
<1>4. /\ UNCHANGED <<mru, data, holder, disk, queue, busy>>
      /\ \A c \in Buf : bno[c] # k
  BY DEF Miss, ideVars, Holds
<1>5. PICK b \in Buf :
        /\ refcnt[b] = 0 /\ ~dirty[b]
        /\ bno' = [bno EXCEPT ![b] = k] /\ refcnt' = [refcnt EXCEPT ![b] = 1]
        /\ valid' = [valid EXCEPT ![b] = FALSE] /\ dirty' = [dirty EXCEPT ![b] = FALSE]
        /\ mine' = [mine EXCEPT ![p] = b] /\ pc' = [pc EXCEPT ![p] = "lock"]
  BY <1>2, <1>3
<1>6. Referents(b) = {} /\ \A q \in Proc : mine[q] # b
  <2>1. Referents(b) = {}
    BY <1>5, FinitePool, FS_EmptySet DEF RefInv
  <2> QED
    BY <2>1 DEF Referents
<1>7. InFlight' = InFlight
  BY <1>1, <1>5, SameFlight DEF TypeOK
<1>8. TypeOK'
  BY <1>4, <1>5 DEF TypeOK
<1>9. PcInv'
  BY <1>1, <1>5, <1>6 DEF TypeOK, PcInv, Pc
<1>10. RefInv'
  <2>1. Referents(b)' = {p}
    <3>1. \A q \in Proc : mine'[q] = b <=> q = p
      BY <1>5, <1>6 DEF TypeOK
    <3> QED
      BY <3>1 DEF Referents
  <2>2. Cardinality(Referents(b)') = 1
    BY <2>1, FS_Singleton
  <2>3. ASSUME NEW c \in Buf, c # b PROVE Referents(c)' = Referents(c)
    BY <1>1, <1>5, <2>3 DEF TypeOK, Referents
  <2>4. refcnt'[b] = 1 /\ \A c \in Buf : c # b => refcnt'[c] = refcnt[c]
    BY <1>5 DEF TypeOK
  <2>5. ASSUME NEW c \in Buf PROVE refcnt'[c] = Cardinality(Referents(c)')
    BY <2>2, <2>3, <2>4 DEF RefInv
  <2> QED
    BY <2>5 DEF RefInv
<1>11. HolderInv' /\ SleeperHasHolder'
  BY <1>1, <1>4, <1>5 DEF TypeOK, HolderInv, SleeperHasHolder, Owning
<1>12. OneBufferPerBlock' /\ ListInv'
  BY <1>4, <1>5 DEF TypeOK, OneBufferPerBlock, ListInv
<1>13. DataInv'
  BY <1>4, <1>5 DEF TypeOK, DataInv
<1>14. QueueInv'
  BY <1>4, <1>7, QueueKept
<1>15. PinInv'
  <2>1. Pinned(InFlight)' = Pinned(InFlight)
    BY <1>5, <1>7 DEF TypeOK, Pinned
  <2> QED
    BY <2>1 DEF PinInv
<1> QED
  BY <1>8, <1>9, <1>10, <1>11, <1>12, <1>13, <1>14, <1>15

LEMMA LockInv ==
  ASSUME Inv, NEW p \in Proc, Lock(p)
  PROVE  Inv'
<1> USE BuffersAssumption DEF Inv
<1> DEFINE b == mine[p]
<1>1. /\ pc[p] = "lock" /\ b \in Buf
      /\ UNCHANGED <<mru, bno, refcnt, valid, dirty, data, disk, queue, busy, mine>>
      /\ IF holder[b] = Free
         THEN holder' = [holder EXCEPT ![b] = p] /\ pc' = [pc EXCEPT ![p] = "locked"]
         ELSE holder' = holder /\ pc' = [pc EXCEPT ![p] = "asleep"]
  BY DEF Lock, PcInv, Become, cacheVars, bufVars, ideVars
<1>2. InFlight' = InFlight
  BY <1>1, SameFlight DEF TypeOK
<1>3. TypeOK'
  BY <1>1 DEF TypeOK
<1>4. PcInv'
  BY <1>1 DEF TypeOK, PcInv, Pc
<1>5. HolderInv' /\ SleeperHasHolder'
  <2>1. CASE holder[b] = Free
    <3> HIDE DEF b
    <3>1. holder' = [holder EXCEPT ![b] = p] /\ pc' = [pc EXCEPT ![p] = "locked"] /\ b = mine[p]
      BY <1>1, <2>1 DEF b
    <3>2. HolderInv'
      BY <1>1, <2>1, <3>1 DEF TypeOK, HolderInv, Owning
    <3>3. SleeperHasHolder'
      BY <1>1, <2>1, <3>1 DEF TypeOK, SleeperHasHolder
    <3> QED
      BY <3>2, <3>3
  <2>2. CASE holder[b] # Free
    <3>1. holder' = holder /\ pc' = [pc EXCEPT ![p] = "asleep"] /\ holder[mine[p]] # Free
      BY <1>1, <2>2
    <3> HIDE DEF b
    <3>2. HolderInv'
      BY <1>1, <3>1 DEF TypeOK, HolderInv, Owning
    <3>3. SleeperHasHolder'
      BY <1>1, <3>1 DEF TypeOK, SleeperHasHolder
    <3> QED
      BY <3>2, <3>3
  <2> QED
    BY <2>1, <2>2
<1>6. OneBufferPerBlock' /\ DataInv'
  BY <1>1 DEF OneBufferPerBlock, DataInv
<1>7. QueueInv' /\ PinInv' /\ RefInv' /\ ListInv'
  BY <1>1, <1>2, QueueKept, PinKept, RefKept, ListKept
<1> QED
  BY <1>3, <1>4, <1>5, <1>6, <1>7

(* iderw() puts a buffer in the queue that is not there yet.                *)
LEMMA RequestInv ==
  ASSUME Inv, NEW p \in Proc, pc[p] \in {"locked", "use"}, Request(p), mine' = mine
  PROVE  /\ InFlight' = InFlight \cup {mine[p]} /\ mine[p] \in Buf \ InFlight
         /\ QueueInv' /\ queue' \in Seq(Buf)
<1> USE BuffersAssumption DEF Inv
<1> DEFINE b == mine[p]
<1>1. b \in Buf /\ holder[b] = p
  BY DEF PcInv, HolderInv, Owning
<1>2. b \notin InFlight
  BY <1>1 DEF InFlight, HolderInv, Owning
<1>3. InFlight' = InFlight \cup {b}
  BY <1>1 DEF InFlight, Request, Become, TypeOK
<1>4. queue' = Append(queue, b) /\ busy' = TRUE
  BY DEF Request
<1>5. Lists(queue', InFlight')
  BY <1>1, <1>2, <1>3, <1>4, ListsAppend DEF QueueInv, TypeOK
<1>6. queue' # <<>> /\ queue' \in Seq(Buf)
  <2>1. queue \in Seq(Buf) /\ b \in Buf
    BY <1>1 DEF TypeOK
  <2> HIDE DEF b
  <2>2. Append(queue, b) # <<>> /\ Append(queue, b) \in Seq(Buf)
    BY <2>1, AppendProperties
  <2> QED
    BY <1>4, <2>2
<1>7. QueueInv'
  BY <1>4, <1>5, <1>6 DEF QueueInv, Lists
<1> QED
  BY <1>1, <1>2, <1>3, <1>6, <1>7

LEMMA BreadInv ==
  ASSUME Inv, NEW p \in Proc, Bread(p)
  PROVE  Inv'
<1> USE BuffersAssumption DEF Inv
<1>1. /\ pc[p] = "locked" /\ mine[p] \in Buf
      /\ UNCHANGED <<mru, bno, refcnt, valid, dirty, data, holder, disk, mine>>
  BY DEF Bread, PcInv, cacheVars, bufVars
<1>2. PICK s \in {"use", "io"} : pc' = [pc EXCEPT ![p] = s] /\ (s = "use" => valid[mine[p]])
  BY DEF Bread, Request, Become
<1>3. OneBufferPerBlock' /\ DataInv' /\ RefInv' /\ ListInv'
  BY <1>1, RefKept, ListKept DEF OneBufferPerBlock, DataInv
<1>4. PcInv' /\ HolderInv' /\ SleeperHasHolder'
  <2>1. PcInv'
    BY <1>1, <1>2 DEF TypeOK, PcInv, Pc
  <2>2. HolderInv'
    BY <1>1, <1>2 DEF TypeOK, HolderInv, Owning
  <2>3. SleeperHasHolder'
    BY <1>1, <1>2 DEF TypeOK, SleeperHasHolder
  <2> QED
    BY <2>1, <2>2, <2>3
<1>5. CASE valid[mine[p]]
  <2>1. pc' = [pc EXCEPT ![p] = "use"] /\ UNCHANGED <<queue, busy>>
    BY <1>5 DEF Bread, Become
  <2>2. InFlight' = InFlight
    BY <1>1, <2>1, SameFlight DEF TypeOK
  <2>3. QueueInv' /\ PinInv'
    BY <1>1, <2>1, <2>2, QueueKept, PinKept
  <2>4. TypeOK'
    BY <1>1, <2>1 DEF TypeOK
  <2> QED
    BY <1>3, <1>4, <2>3, <2>4
<1>6. CASE ~valid[mine[p]]
  <2>1. Request(p)
    BY <1>6 DEF Bread
  <2>2. InFlight' = InFlight \cup {mine[p]} /\ QueueInv' /\ queue' \in Seq(Buf)
    BY <1>1, <2>1, RequestInv
  <2>3. PinInv'
    <3>1. Pinned(InFlight)' \subseteq Pinned(InFlight) /\ Pinned(InFlight) \subseteq Buf
      BY <1>1, <2>2 DEF Pinned
    <3>2. /\ Cardinality(Pinned(InFlight)') \in Nat /\ Cardinality(Pinned(InFlight)) \in Nat
          /\ Cardinality(Pinned(InFlight)') <= Cardinality(Pinned(InFlight))
      BY <3>1, FinitePool
    <3> QED
      BY <3>2 DEF PinInv
  <2>4. busy' \in BOOLEAN /\ pc' = [pc EXCEPT ![p] = "io"]
    BY <2>1 DEF Request, Become
  <2>5. TypeOK'
    BY <1>1, <2>2, <2>4 DEF TypeOK
  <2> QED
    BY <1>3, <1>4, <2>2, <2>3, <2>5
<1> QED
  BY <1>5, <1>6

LEMMA InterruptInv ==
  ASSUME Inv, Interrupt
  PROVE  Inv'
<1> USE BuffersAssumption DEF Inv
<1>1. queue # <<>>
  BY DEF Interrupt, QueueInv
<1>2. /\ Head(queue) \in InFlight /\ Tail(queue) \in Seq(Buf)
      /\ Lists(Tail(queue), InFlight \ {Head(queue)})
  BY <1>1, ListsTail DEF QueueInv, TypeOK
<1>3. PICK b \in Buf : b = Head(queue)
  BY <1>2 DEF InFlight
<1>4. /\ IF dirty[b]
         THEN disk' = [disk EXCEPT ![bno[b]] = data[b]] /\ data' = data
         ELSE data' = [data EXCEPT ![b] = disk[bno[b]]] /\ disk' = disk
      /\ valid' = [valid EXCEPT ![b] = TRUE] /\ dirty' = [dirty EXCEPT ![b] = FALSE]
      /\ queue' = Tail(queue) /\ busy' = GoesOn(Tail(queue))
      /\ pc' = [p \in Proc |-> IF pc[p] = "io" /\ mine[p] = b THEN "use" ELSE pc[p]]
      /\ UNCHANGED <<mru, bno, refcnt, holder, mine>>
  BY <1>3 DEF Interrupt, cacheVars
<1>5. PICK o \in Proc : pc[o] = "io" /\ mine[o] = b /\ bno[b] \in Block
  BY <1>2, <1>3 DEF InFlight, PcInv
<1>6. \A q \in Proc : pc[q] = "io" /\ mine[q] = b <=> q = o
  BY <1>5 DEF HolderInv, Owning
<1>7. InFlight' = InFlight \ {b}
  BY <1>4 DEF InFlight
<1>8. TypeOK'
  <2>1. busy' \in BOOLEAN
    BY <1>4 DEF GoesOn
  <2>2. disk' \in [Block -> Val] /\ data' \in [Buf -> Val]
    <3>1. data[b] \in Val /\ disk[bno[b]] \in Val /\ disk \in [Block -> Val] /\ data \in [Buf -> Val]
      BY <1>5 DEF TypeOK
    <3>2. disk' = disk \/ disk' = [disk EXCEPT ![bno[b]] = data[b]]
      BY <1>4
    <3>3. data' = data \/ data' = [data EXCEPT ![b] = disk[bno[b]]]
      BY <1>4
    <3> QED
      BY <3>1, <3>2, <3>3
  <2>3. pc' \in [Proc -> {"idle", "lock", "asleep", "locked", "io", "use", "drop", "panic"}]
    BY <1>4 DEF TypeOK
  <2>4. valid' \in [Buf -> BOOLEAN] /\ dirty' \in [Buf -> BOOLEAN] /\ queue' \in Seq(Buf)
    BY <1>2, <1>4 DEF TypeOK
  <2> QED
    BY <1>4, <2>1, <2>2, <2>3, <2>4 DEF TypeOK
<1>9. PcInv'
  BY <1>4 DEF TypeOK, PcInv, Pc
<1>10. HolderInv' /\ SleeperHasHolder'
  BY <1>4, SMTT(30) DEF TypeOK, HolderInv, SleeperHasHolder, Owning
<1>11. OneBufferPerBlock' /\ RefInv' /\ ListInv'
  BY <1>4, RefKept, ListKept DEF OneBufferPerBlock
<1>12. DataInv'
  <2> SUFFICES ASSUME NEW c \in Buf
               PROVE  /\ dirty'[c] => valid'[c]
                      /\ valid'[c] => bno[c] \in Block
                      /\ valid'[c] /\ ~dirty'[c] => data'[c] = disk'[bno[c]]
    BY <1>4 DEF DataInv
  <2>1. CASE c = b
    BY <1>4, <1>5, <2>1 DEF TypeOK
  <2>2. CASE c # b
    <3>1. valid[c] => bno[c] # bno[b]
      BY <1>5, <2>2 DEF OneBufferPerBlock, DataInv
    <3> QED
      BY <1>4, <1>5, <2>2, <3>1 DEF TypeOK, DataInv
  <2> QED
    BY <2>1, <2>2
<1>13. QueueInv'
  <2>1. Lists(queue', InFlight')
    BY <1>2, <1>3, <1>4, <1>7
  <2>2. busy' <=> queue' # <<>>
    BY <1>4 DEF GoesOn
  <2> QED
    BY <2>1, <2>2 DEF QueueInv, Lists
<1>14. PinInv'
  <2>1. Pinned(InFlight)' \subseteq Pinned(InFlight) /\ Pinned(InFlight) \subseteq Buf
    BY <1>4, <1>7 DEF TypeOK, Pinned
  <2>2. /\ Cardinality(Pinned(InFlight)') \in Nat /\ Cardinality(Pinned(InFlight)) \in Nat
        /\ Cardinality(Pinned(InFlight)') <= Cardinality(Pinned(InFlight))
    BY <2>1, FinitePool
  <2> QED
    BY <2>2 DEF PinInv
<1> QED
  BY <1>8, <1>9, <1>10, <1>11, <1>12, <1>13, <1>14

LEMMA LogWriteInv ==
  ASSUME Inv, NEW p \in Proc, NEW v \in Val, LogWrite(p, v)
  PROVE  Inv'
<1> USE BuffersAssumption DEF Inv
<1>1. PICK b \in Buf : b = mine[p] /\ pc[p] = "use" /\ valid[b] /\ holder[b] = p
  BY DEF LogWrite, PcInv, HolderInv, Owning
<1>2. /\ data' = [data EXCEPT ![b] = v] /\ dirty' = [dirty EXCEPT ![b] = TRUE]
      /\ UNCHANGED <<mru, bno, refcnt, valid, holder, disk, queue, busy, pc, mine>>
  BY <1>1 DEF LogWrite, cacheVars, ideVars
<1>3. InFlight' = InFlight
  BY <1>2, SameFlight
<1>4. TypeOK'
  BY <1>1, <1>2 DEF TypeOK
<1>5. PcInv' /\ HolderInv' /\ SleeperHasHolder' /\ OneBufferPerBlock' /\ RefInv' /\ ListInv'
  BY <1>2, RefKept, ListKept DEF PcInv, HolderInv, SleeperHasHolder, OneBufferPerBlock
<1>6. DataInv'
  BY <1>1, <1>2 DEF TypeOK, DataInv
<1>7. QueueInv'
  BY <1>2, <1>3, QueueKept
<1>8. PinInv'
  <2> DEFINE D == {c \in Buf : dirty[c]}
  <2>1. CASE dirty[b]
    <3>1. Pinned(InFlight)' = Pinned(InFlight)
      BY <1>2, <1>3, <2>1 DEF TypeOK, Pinned
    <3> QED
      BY <3>1 DEF PinInv
  <2>2. CASE ~dirty[b]
    <3>1. Cardinality(D) < NPin
      BY <1>1, <2>2 DEF LogWrite
    <3>2. Pinned(InFlight)' \subseteq D \cup {b} /\ D \cup {b} \subseteq Buf
      BY <1>1, <1>2, <1>3 DEF TypeOK, Pinned
    <3>3. Cardinality(D \cup {b}) = Cardinality(D) + 1
      BY <1>1, <2>2, FinitePool, FS_AddElement
    <3>4. /\ Cardinality(Pinned(InFlight)') \in Nat /\ Cardinality(D) \in Nat
          /\ Cardinality(Pinned(InFlight)') <= Cardinality(D \cup {b})
      BY <3>2, FinitePool
    <3> HIDE DEF D
    <3> QED
      BY <3>1, <3>3, <3>4 DEF PinInv
  <2> QED
    BY <2>1, <2>2
<1> QED
  BY <1>4, <1>5, <1>6, <1>7, <1>8

LEMMA BwriteInv ==
  ASSUME Inv, NEW p \in Proc, NEW v \in Val, Bwrite(p, v)
  PROVE  Inv'
<1> USE BuffersAssumption DEF Inv
<1>1. PICK b \in Buf : b = mine[p] /\ pc[p] = "use" /\ valid[b]
  BY DEF Bwrite, PcInv
<1>2. /\ data' = [data EXCEPT ![b] = v] /\ dirty' = [dirty EXCEPT ![b] = TRUE] /\ Request(p)
      /\ UNCHANGED <<mru, bno, refcnt, valid, holder, disk, mine>>
  BY <1>1 DEF Bwrite, cacheVars
<1>3. InFlight' = InFlight \cup {b} /\ QueueInv' /\ queue' \in Seq(Buf)
  BY <1>1, <1>2, RequestInv
<1>4. busy' \in BOOLEAN /\ pc' = [pc EXCEPT ![p] = "io"]
  BY <1>2 DEF Request, Become
<1>5. TypeOK'
  BY <1>1, <1>2, <1>3, <1>4 DEF TypeOK
<1>6. PcInv' /\ HolderInv' /\ SleeperHasHolder'
  BY <1>1, <1>2, <1>4 DEF TypeOK, PcInv, Pc, HolderInv, SleeperHasHolder, Owning
<1>7. OneBufferPerBlock' /\ RefInv' /\ ListInv'
  BY <1>2, RefKept, ListKept DEF OneBufferPerBlock
<1>8. DataInv'
  BY <1>1, <1>2 DEF TypeOK, DataInv
<1>9. PinInv'
  <2>1. Pinned(InFlight)' \subseteq Pinned(InFlight) /\ Pinned(InFlight) \subseteq Buf
    BY <1>2, <1>3 DEF TypeOK, Pinned
  <2>2. /\ Cardinality(Pinned(InFlight)') \in Nat /\ Cardinality(Pinned(InFlight)) \in Nat
        /\ Cardinality(Pinned(InFlight)') <= Cardinality(Pinned(InFlight))
    BY <2>1, FinitePool
  <2> QED
    BY <2>2 DEF PinInv
<1> QED
  BY <1>3, <1>5, <1>6, <1>7, <1>8, <1>9

LEMMA ReleaseInv ==
  ASSUME Inv, NEW p \in Proc, Release(p)
  PROVE  Inv'
<1> USE BuffersAssumption DEF Inv
<1>1. PICK b \in Buf : b = mine[p] /\ pc[p] = "use" /\ holder[b] = p
  BY DEF Release, PcInv, HolderInv, Owning
<1>2. /\ holder' = [holder EXCEPT ![b] = Free]
      /\ pc' = [q \in Proc |-> IF q = p THEN "drop"
                               ELSE IF pc[q] = "asleep" /\ mine[q] = b THEN "lock" ELSE pc[q]]
      /\ UNCHANGED <<mru, bno, refcnt, valid, dirty, data, disk, queue, busy, mine>>
  BY <1>1 DEF Release, Waiters, cacheVars, bufVars, ideVars
<1>3. InFlight' = InFlight
  BY <1>1, <1>2, SameFlight
<1>4. TypeOK'
  BY <1>1, <1>2 DEF TypeOK
<1>5. PcInv'
  BY <1>1, <1>2 DEF PcInv, Pc
<1>6. HolderInv'
  BY <1>1, <1>2 DEF TypeOK, HolderInv, Owning
<1>7. SleeperHasHolder'
  BY <1>1, <1>2 DEF TypeOK, SleeperHasHolder, PcInv
<1>8. OneBufferPerBlock' /\ DataInv'
  BY <1>2 DEF OneBufferPerBlock, DataInv
<1>9. QueueInv' /\ PinInv' /\ RefInv' /\ ListInv'
  BY <1>2, <1>3, QueueKept, PinKept, RefKept, ListKept
<1> QED
  BY <1>4, <1>5, <1>6, <1>7, <1>8, <1>9

LEMMA DropList ==
  ASSUME TypeOK, ListInv, \E i \in DOMAIN mru : mru' = ToFront(mru, i)
  PROVE  mru' \in Seq(Buf) /\ ListInv'
<1>1. PICK i \in DOMAIN mru : mru' = ToFront(mru, i)
  OBVIOUS
<1>2. mru \in Seq(Buf)
  BY DEF TypeOK
<1>3. /\ ToFront(mru, i) \in Seq(Buf)
      /\ \A j \in 1..Len(mru) : \E h \in 1..Len(ToFront(mru, i)) : ToFront(mru, i)[h] = mru[j]
  BY <1>2, MoveToFront
<1>4. mru' \in Seq(Buf) /\ \A j \in 1..Len(mru) : \E h \in 1..Len(mru') : mru'[h] = mru[j]
  BY <1>1, <1>3
<1> QED
  BY <1>4 DEF ListInv

LEMMA DropInv ==
  ASSUME Inv, NEW p \in Proc, Drop(p)
  PROVE  Inv'
<1> USE BuffersAssumption DEF Inv
<1>1. PICK b \in Buf : b = mine[p] /\ pc[p] = "drop"
  BY DEF Drop, PcInv
<1>2. /\ refcnt' = [refcnt EXCEPT ![b] = refcnt[b] - 1]
      /\ mine' = [mine EXCEPT ![p] = None] /\ pc' = [pc EXCEPT ![p] = "idle"]
      /\ UNCHANGED <<bno, valid, dirty, data, holder, disk, queue, busy>>
  BY <1>1 DEF Drop, Less, Become, bufVars, ideVars
<1>3. mru' \in Seq(Buf) /\ ListInv'
  <2>1. CASE mru' = mru
    BY <2>1, ListKept DEF TypeOK
  <2>2. CASE \E i \in DOMAIN mru : mru' = ToFront(mru, i)
    BY <2>2, DropList
  <2> QED
    BY <1>1, <2>1, <2>2 DEF Drop, ToFront
<1>4. InFlight' = InFlight
  BY <1>1, <1>2, SameFlight DEF TypeOK
<1>5. RefInv' /\ refcnt' \in [Buf -> Nat]
  <2>1. Referents(b)' = Referents(b) \ {p} /\ p \in Referents(b)
    BY <1>1, <1>2 DEF TypeOK, Referents
  <2>2. /\ Cardinality(Referents(b)') = Cardinality(Referents(b)) - 1
        /\ Cardinality(Referents(b)') \in Nat
    BY <2>1, FinitePool, FS_RemoveElement, FS_CardinalityType
  <2>3. ASSUME NEW c \in Buf, c # b PROVE Referents(c)' = Referents(c)
    BY <1>1, <1>2, <2>3 DEF TypeOK, Referents
  <2>4. ASSUME NEW c \in Buf PROVE refcnt'[c] = Cardinality(Referents(c)') /\ refcnt'[c] \in Nat
    BY <1>2, <2>2, <2>3 DEF TypeOK, RefInv
  <2> QED
    BY <1>2, <2>4 DEF TypeOK, RefInv
<1>6. TypeOK'
  BY <1>2, <1>3, <1>5 DEF TypeOK
<1>7. PcInv' /\ HolderInv' /\ SleeperHasHolder'
  BY <1>1, <1>2 DEF TypeOK, PcInv, Pc, HolderInv, SleeperHasHolder, Owning
<1>8. OneBufferPerBlock' /\ DataInv'
  BY <1>2 DEF OneBufferPerBlock, DataInv
<1>9. QueueInv' /\ PinInv'
  BY <1>2, <1>4, QueueKept, PinKept
<1> QED
  BY <1>3, <1>5, <1>6, <1>7, <1>8, <1>9

LEMMA NextInv == Inv /\ [Next]_vars => Inv'
<1> SUFFICES ASSUME Inv, [Next]_vars PROVE Inv'
  OBVIOUS
<1>1. CASE UNCHANGED vars
  <2>1. UNCHANGED <<mru, bno, refcnt, valid, dirty, data, holder, disk, queue, busy, pc, mine>>
    BY <1>1 DEF vars, cacheVars, bufVars, ideVars
  <2>2. InFlight' = InFlight
    BY <2>1, SameFlight
  <2>3. QueueInv' /\ PinInv' /\ RefInv' /\ ListInv'
    BY <2>1, <2>2, QueueKept, PinKept, RefKept, ListKept DEF Inv
  <2> QED
    BY <2>1, <2>3 DEF Inv, TypeOK, PcInv, OneBufferPerBlock, HolderInv, SleeperHasHolder, DataInv
<1>2. CASE Next
  BY <1>2, InterruptInv, HitInv, MissInv, LockInv, BreadInv, LogWriteInv, BwriteInv, ReleaseInv,
     DropInv DEF Next, Work
<1> QED
  BY <1>1, <1>2

(* The invariant holds in every behaviour of the cache and its disk.        *)
THEOREM Invariance == Spec => []Inv
BY InitInv, NextInv, PTL DEF Spec

-----------------------------------------------------------------------------
(* The list, the counters, the flags and the queue keep their types, for any *)
(* number of buffers, blocks and processes.                                 *)
THEOREM TypeCorrect == Spec => []TypeOK
BY Invariance, PTL DEF Inv

(* bio.c:69-76: a block is never in two buffers.                            *)
THEOREM BlocksAreCachedOnce == Spec => []OneBufferPerBlock
BY Invariance, PTL DEF Inv

(* bio.c:92: NPin + Cardinality(Proc) buffers are enough for bget(), as       *)
(* param.h:12 reckons with NBUF.                                            *)
THEOREM PoolIsLargeEnough == Spec => []NeverOutOfBuffers
<1>1. Inv => NeverOutOfBuffers
  BY DEF Inv, PcInv, Pc, NeverOutOfBuffers
<1> QED
  BY <1>1, Invariance, PTL

(* sleeplock.c:26-28, 39: a process sleeps for a buffer only while another   *)
(* holds it, whose brelse() will wake it.                                   *)
THEOREM NoSleepMissesItsWakeup == Spec => []SleeperHasHolder
BY Invariance, PTL DEF Inv

(* ide.c:154-164: whoever sleeps in iderw() is in the queue, once, and the   *)
(* disk is at work.                                                         *)
THEOREM RequestsAreAnswered == Spec => []RequestIsQueued
<1>1. ASSUME Inv, NEW p \in Proc, pc[p] = "io"
      PROVE  busy /\ Cardinality({i \in DOMAIN queue : queue[i] = mine[p]}) = 1
  <2>1. DOMAIN queue = 1..Len(queue) /\ Len(queue) \in Nat
    BY <1>1, LenProperties DEF Inv, TypeOK
  <2>2. mine[p] \in InFlight
    BY <1>1 DEF Inv, PcInv, InFlight
  <2>3. PICK i \in 1..Len(queue) : queue[i] = mine[p]
    BY <1>1, <2>2 DEF Inv, QueueInv, Lists
  <2>4. {j \in DOMAIN queue : queue[j] = mine[p]} = {i}
    BY <1>1, <2>1, <2>3 DEF Inv, QueueInv, Lists
  <2>5. busy
    <3>1. queue # <<>>
      BY <2>3, EmptySeq
    <3> QED
      BY <1>1, <3>1 DEF Inv, QueueInv
  <2> QED
    BY <2>4, <2>5, FS_Singleton
<1>2. Inv => RequestIsQueued
  BY <1>1 DEF RequestIsQueued
<1> QED
  BY <1>2, Invariance, PTL

-----------------------------------------------------------------------------
(* The refinement.  Content and Owner, without their CHOOSE.                *)
CellInv ==
  \A k \in Block :
    /\ \A b \in Buf : bno[b] = k /\ valid[b] => Content[k] = data[b]
    /\ (\A b \in Buf : bno[b] = k => ~valid[b]) => Content[k] = disk[k]
    /\ \A p \in Proc : p \in Users(k) => Owner[k] = p
    /\ Users(k) = {} => Owner[k] = Free

LEMMA Cells == Inv => CellInv
<1> SUFFICES ASSUME Inv, NEW k \in Block
             PROVE  /\ \A b \in Buf : bno[b] = k /\ valid[b] => Content[k] = data[b]
                    /\ (\A b \in Buf : bno[b] = k => ~valid[b]) => Content[k] = disk[k]
                    /\ \A p \in Proc : p \in Users(k) => Owner[k] = p
                    /\ Users(k) = {} => Owner[k] = Free
  BY DEF CellInv
<1>1. ASSUME NEW b \in Buf, bno[b] = k, valid[b] PROVE Content[k] = data[b]
  <2>1. Cached(k) = {b}
    BY <1>1, BuffersAssumption DEF Inv, OneBufferPerBlock, Cached
  <2> QED
    BY <2>1 DEF Content
<1>2. ASSUME \A b \in Buf : bno[b] = k => ~valid[b] PROVE Content[k] = disk[k]
  BY <1>2 DEF Cached, Content
<1>3. ASSUME NEW p \in Proc, p \in Users(k) PROVE Owner[k] = p
  <2>1. \A q \in Users(k) : q = p
    BY <1>3, BuffersAssumption DEF Inv, PcInv, OneBufferPerBlock, HolderInv, Owning, Users
  <2>2. Users(k) = {p}
    BY <1>3, <2>1
  <2> QED
    BY <2>2 DEF Owner
<1>4. Users(k) = {} => Owner[k] = Free
  BY DEF Owner
<1> QED
  BY <1>1, <1>2, <1>3, <1>4

LEMMA CellsAfter == Inv' => CellInv'
BY Cells, PTL

(* Blocks whose contents and owner a step does not change.                  *)
LEMMA SameStore ==
  ASSUME \A k \in Block : Content'[k] = Content[k]
  PROVE  Content' = Content
BY DEF Content

LEMMA SameOwners ==
  ASSUME \A k \in Block : Owner'[k] = Owner[k]
  PROVE  Owner' = Owner
BY DEF Owner

LEMMA StoreFunctions ==
  /\ Content = [k \in Block |-> Content[k]] /\ Content' = [k \in Block |-> Content'[k]]
  /\ Owner = [k \in Block |-> Owner[k]] /\ Owner' = [k \in Block |-> Owner'[k]]
BY DEF Content, Owner

LEMMA OneCellChanged ==
  ASSUME NEW f, NEW g, NEW k \in Block, NEW v,
         f = [j \in Block |-> f[j]], g = [j \in Block |-> g[j]],
         g[k] = v, \A j \in Block : j # k => g[j] = f[j]
  PROVE  g = [f EXCEPT ![k] = v]
OBVIOUS

LEMMA SameUsers ==
  ASSUME CellInv, CellInv', NEW k \in Block, Users(k)' = Users(k)
  PROVE  Owner'[k] = Owner[k]
<1>1. CASE Users(k) = {}
  BY <1>1 DEF CellInv
<1>2. CASE Users(k) # {}
  <2>1. PICK p \in Proc : p \in Users(k)
    BY <1>2 DEF Users
  <2> QED
    BY <2>1 DEF CellInv
<1> QED
  BY <1>1, <1>2

(* Steps that change no cell: those of bget(), acquiresleep() and the disk,  *)
(* and the end of brelse().                                                 *)
StoreVars == <<Content, Owner>>

LEMMA InitStore == Init => Store!Init
<1> SUFFICES ASSUME Init PROVE Store!Init
  OBVIOUS
<1>1. \A k \in Block : Cached(k) = {} /\ Users(k) = {}
  BY DEF Init, Cached, Users
<1>2. Content = [k \in Block |-> v0]
  BY <1>1 DEF Init, Content
<1>3. Owner = [k \in Block |-> Free]
  BY <1>1 DEF Owner
<1> QED
  BY <1>2, <1>3 DEF Store!Init

LEMMA KeptContent ==
  ASSUME CellInv, CellInv', UNCHANGED <<bno, valid, data, disk>>
  PROVE  Content' = Content
<1>1. ASSUME NEW k \in Block PROVE Content'[k] = Content[k]
  <2>1. CASE \E b \in Buf : bno[b] = k /\ valid[b]
    BY <2>1 DEF CellInv
  <2>2. CASE \A b \in Buf : bno[b] = k => ~valid[b]
    BY <2>2 DEF CellInv
  <2> QED
    BY <2>1, <2>2
<1> QED
  BY <1>1, SameStore

LEMMA KeptOwners ==
  ASSUME CellInv, CellInv', UNCHANGED <<bno, valid>>,
         \A q \in Proc : /\ pc'[q] \in {"use", "io"} <=> pc[q] \in {"use", "io"}
                         /\ pc[q] \in {"use", "io"} => mine'[q] = mine[q]
  PROVE  Owner' = Owner
<1>1. \A k \in Block : Users(k)' = Users(k)
  BY DEF Users
<1> QED
  BY <1>1, SameOwners, SameUsers

LEMMA HitStore ==
  ASSUME Inv, Inv', NEW p \in Proc, NEW k \in Block, Hit(p, k)
  PROVE  UNCHANGED StoreVars
<1>1. CellInv /\ CellInv'
  BY Cells, CellsAfter
<1>2. UNCHANGED <<bno, valid, data, disk>> /\ pc[p] = "idle" /\ pc' = [pc EXCEPT ![p] = "lock"]
  BY DEF Hit, Become, bufVars, ideVars
<1>3. \A q \in Proc : q # p => mine'[q] = mine[q]
  BY DEF Hit, Inv, TypeOK
<1>4. \A q \in Proc : /\ pc'[q] \in {"use", "io"} <=> pc[q] \in {"use", "io"}
                      /\ pc[q] \in {"use", "io"} => mine'[q] = mine[q]
  BY <1>2, <1>3 DEF Inv, TypeOK
<1> QED
  BY <1>1, <1>2, <1>4, KeptContent, KeptOwners DEF StoreVars

LEMMA MissStore ==
  ASSUME Inv, Inv', NEW p \in Proc, NEW k \in Block, Miss(p, k)
  PROVE  UNCHANGED StoreVars
<1>1. CellInv /\ CellInv'
  BY Cells, CellsAfter
<1>2. pc[p] = "idle" /\ UNCHANGED <<data, disk>> /\ \A b \in Buf : bno[b] # k
  BY DEF Miss, ideVars, Holds
<1>3. PICK i \in DOMAIN mru :
        /\ Recyclable(mru[i])
        /\ bno' = [bno EXCEPT ![mru[i]] = k] /\ valid' = [valid EXCEPT ![mru[i]] = FALSE]
        /\ mine' = [mine EXCEPT ![p] = mru[i]] /\ pc' = [pc EXCEPT ![p] = "lock"]
  BY <1>2, SomeRecyclable DEF Miss, Become
<1>4. mru[i] \in Buf
  BY LenProperties, ElementOfSeq DEF Inv, TypeOK
<1>5. PICK b \in Buf :
        /\ refcnt[b] = 0 /\ ~dirty[b]
        /\ bno' = [bno EXCEPT ![b] = k] /\ valid' = [valid EXCEPT ![b] = FALSE]
        /\ mine' = [mine EXCEPT ![p] = b] /\ pc' = [pc EXCEPT ![p] = "lock"]
  BY <1>3, <1>4 DEF Recyclable
<1>6. \A c \in Buf : c # b => bno'[c] = bno[c] /\ valid'[c] = valid[c]
  BY <1>5 DEF Inv, TypeOK
<1>7. bno'[b] = k /\ ~valid'[b]
  BY <1>5 DEF Inv, TypeOK
<1>8. \A q \in Proc : mine[q] # b
  <2>1. Referents(b) = {}
    BY <1>5, FinitePool, FS_EmptySet DEF Inv, RefInv
  <2> QED
    BY <2>1 DEF Referents
<1>9. ASSUME NEW j \in Block PROVE Content'[j] = Content[j]
  <2>1. CASE \E c \in Buf : c # b /\ bno[c] = j /\ valid[c]
    BY <1>1, <1>2, <1>6, <2>1 DEF CellInv
  <2>2. CASE bno[b] = j /\ valid[b]
    <3>1. Content[j] = data[b] /\ data[b] = disk[j]
      BY <1>1, <1>5, <2>2 DEF CellInv, Inv, DataInv
    <3>2. \A c \in Buf : bno'[c] = j => ~valid'[c]
      BY <1>6, <1>7, <2>2, BuffersAssumption DEF Inv, OneBufferPerBlock
    <3>3. Content'[j] = disk'[j]
      BY <1>1, <3>2 DEF CellInv
    <3> QED
      BY <1>2, <3>1, <3>3
  <2>3. CASE \A c \in Buf : bno[c] = j => ~valid[c]
    <3>1. \A c \in Buf : bno'[c] = j => ~valid'[c]
      BY <1>6, <1>7, <2>3
    <3>2. Content'[j] = disk'[j]
      BY <1>1, <3>1 DEF CellInv
    <3> QED
      BY <1>1, <1>2, <2>3, <3>2 DEF CellInv
  <2> QED
    BY <2>1, <2>2, <2>3
<1>10. ASSUME NEW j \in Block PROVE Users(j)' = Users(j)
  <2>1. \A q \in Proc : q # p => mine'[q] = mine[q] /\ pc'[q] = pc[q]
    BY <1>5 DEF Inv, TypeOK
  <2>2. pc'[p] = "lock"
    BY <1>5 DEF Inv, TypeOK
  <2>3. ASSUME NEW q \in Proc PROVE q \in Users(j)' <=> q \in Users(j)
    <3>1. CASE q = p
      BY <1>2, <2>2, <3>1 DEF Users
    <3>2. CASE q # p
      <4>1. CASE pc[q] \in {"use", "io"}
        <5>1. mine[q] \in Buf /\ mine[q] # b /\ mine'[q] = mine[q] /\ pc'[q] = pc[q]
          BY <1>8, <2>1, <3>2, <4>1 DEF Inv, PcInv
        <5>2. bno'[mine'[q]] = bno[mine[q]] /\ valid'[mine'[q]] = valid[mine[q]]
          BY <1>6, <5>1
        <5> QED
          BY <5>1, <5>2 DEF Users
      <4>2. CASE pc[q] \notin {"use", "io"}
        BY <2>1, <3>2, <4>2 DEF Users
      <4> QED
        BY <4>1, <4>2
    <3> QED
      BY <3>1, <3>2
  <2> QED
    BY <2>3 DEF Users
<1> QED
  BY <1>1, <1>9, <1>10, SameStore, SameOwners, SameUsers DEF StoreVars

LEMMA LockStore ==
  ASSUME Inv, Inv', NEW p \in Proc, Lock(p)
  PROVE  UNCHANGED StoreVars
<1>1. CellInv /\ CellInv'
  BY Cells, CellsAfter
<1>2. UNCHANGED <<bno, valid, data, disk, mine>> /\ pc[p] = "lock"
  BY DEF Lock, cacheVars, bufVars, ideVars
<1>3. pc' = [pc EXCEPT ![p] = "locked"] \/ pc' = [pc EXCEPT ![p] = "asleep"]
  BY DEF Lock, Become
<1>4. \A q \in Proc : pc'[q] \in {"use", "io"} <=> pc[q] \in {"use", "io"}
  BY <1>2, <1>3 DEF Inv, TypeOK
<1> QED
  BY <1>1, <1>2, <1>4, KeptContent, KeptOwners DEF StoreVars

LEMMA DropStore ==
  ASSUME Inv, Inv', NEW p \in Proc, Drop(p)
  PROVE  UNCHANGED StoreVars
<1>1. CellInv /\ CellInv'
  BY Cells, CellsAfter
<1>2. UNCHANGED <<bno, valid, data, disk>> /\ pc[p] = "drop" /\ pc' = [pc EXCEPT ![p] = "idle"]
  BY DEF Drop, Become, bufVars, ideVars
<1>3. \A q \in Proc : q # p => mine'[q] = mine[q]
  BY DEF Drop, Inv, TypeOK
<1>4. \A q \in Proc : /\ pc'[q] \in {"use", "io"} <=> pc[q] \in {"use", "io"}
                      /\ pc[q] \in {"use", "io"} => mine'[q] = mine[q]
  BY <1>2, <1>3 DEF Inv, TypeOK
<1> QED
  BY <1>1, <1>2, <1>4, KeptContent, KeptOwners DEF StoreVars

(* Two owners of one block are the same process.                            *)
LEMMA OneOwner ==
  ASSUME Inv, NEW p \in Proc, NEW q \in Proc, pc[p] \in Owning, pc[q] \in Owning,
         bno[mine[p]] = bno[mine[q]]
  PROVE  p = q
<1>1. mine[p] \in Buf /\ mine[q] \in Buf /\ bno[mine[p]] # None
  BY BuffersAssumption DEF Inv, PcInv, Owning
<1>2. mine[p] = mine[q]
  BY <1>1 DEF Inv, OneBufferPerBlock
<1> QED
  BY <1>2 DEF Inv, HolderInv

(* A block that p comes to own.                                             *)
LEMMA TakeStore ==
  ASSUME Inv, Inv', NEW p \in Proc, NEW k \in Block, Content' = Content,
         Users(k) = {}, p \in Users(k)',
         \A j \in Block : j # k => Users(j)' = Users(j)
  PROVE  Store!Next
<1>1. CellInv /\ CellInv'
  BY Cells, CellsAfter
<1>2. Owner[k] = Free /\ Owner'[k] = p
  BY <1>1 DEF CellInv
<1>3. ASSUME NEW j \in Block, j # k PROVE Owner'[j] = Owner[j]
  BY <1>1, <1>3, SameUsers
<1>4. Owner' = [Owner EXCEPT ![k] = p]
  BY <1>2, <1>3, StoreFunctions, OneCellChanged
<1> QED
  BY <1>2, <1>4 DEF Store!Next, Store!Take

LEMMA BreadStore ==
  ASSUME Inv, Inv', NEW p \in Proc, Bread(p)
  PROVE  Store!Next \/ UNCHANGED StoreVars
<1>1. CellInv /\ CellInv'
  BY Cells, CellsAfter
<1>2. /\ pc[p] = "locked" /\ mine[p] \in Buf /\ bno[mine[p]] \in Block
      /\ UNCHANGED <<bno, valid, data, disk, mine>>
  BY DEF Bread, Inv, PcInv, cacheVars, bufVars
<1>3. Content' = Content
  BY <1>1, <1>2, KeptContent
<1>4. CASE valid[mine[p]]
  <2> DEFINE k == bno[mine[p]]
  <2>1. pc' = [pc EXCEPT ![p] = "use"]
    BY <1>4 DEF Bread, Become
  <2>2. Users(k) = {}
    BY <1>2, OneOwner DEF Users, Owning
  <2>3. p \in Users(k)'
    BY <1>2, <1>4, <2>1 DEF Users, Inv, TypeOK
  <2>4. ASSUME NEW j \in Block, j # k PROVE Users(j)' = Users(j)
    BY <1>2, <2>1, <2>4 DEF Users, Inv, TypeOK
  <2>5. PICK h \in Block : h = k
    BY <1>2
  <2>6. p \in Users(h)' /\ Users(h) = {}
    BY <1>2, <1>4, <2>1, <2>2, <2>5 DEF Users, Inv, TypeOK
  <2> QED
    BY <1>3, <2>4, <2>5, <2>6, TakeStore
<1>5. CASE ~valid[mine[p]]
  <2>1. pc' = [pc EXCEPT ![p] = "io"]
    BY <1>5 DEF Bread, Request, Become
  <2>2. \A j \in Block : Users(j)' = Users(j)
    BY <1>2, <1>5, <2>1 DEF Users, Inv, TypeOK
  <2> QED
    BY <1>1, <1>3, <2>2, SameOwners, SameUsers DEF StoreVars
<1> QED
  BY <1>4, <1>5

LEMMA InterruptStore ==
  ASSUME Inv, Inv', Interrupt
  PROVE  Store!Next \/ UNCHANGED StoreVars
<1>1. CellInv /\ CellInv'
  BY Cells, CellsAfter
<1>2. Head(queue) \in InFlight
  BY ListsTail DEF Interrupt, Inv, QueueInv, TypeOK
<1>3. PICK b \in Buf, o \in Proc : b = Head(queue) /\ pc[o] = "io" /\ mine[o] = b /\ bno[b] \in Block
  BY <1>2 DEF InFlight, Inv, PcInv
<1>4. /\ IF dirty[b]
         THEN disk' = [disk EXCEPT ![bno[b]] = data[b]] /\ data' = data
         ELSE data' = [data EXCEPT ![b] = disk[bno[b]]] /\ disk' = disk
      /\ valid' = [valid EXCEPT ![b] = TRUE]
      /\ pc' = [p \in Proc |-> IF pc[p] = "io" /\ mine[p] = b THEN "use" ELSE pc[p]]
      /\ UNCHANGED <<bno, mine>>
  BY <1>3 DEF Interrupt, cacheVars
<1>5. PICK k \in Block : k = bno[b]
  BY <1>3
<1>6. \A c \in Buf : c # b => valid'[c] = valid[c] /\ data'[c] = data[c]
  BY <1>4 DEF Inv, TypeOK
<1>7. \A j \in Block : j # k => disk'[j] = disk[j]
  BY <1>4, <1>5 DEF Inv, TypeOK
<1>8. \A c \in Buf : bno[c] = k => c = b
  BY <1>5, BuffersAssumption DEF Inv, OneBufferPerBlock
<1>9. valid'[b] /\ Content'[k] = data'[b]
  <2>1. valid'[b]
    BY <1>4 DEF Inv, TypeOK
  <2> QED
    BY <1>1, <1>4, <1>5, <2>1 DEF CellInv
<1>10. Content[k] = data'[b]
  <2>1. CASE dirty[b]
    <3>1. valid[b]
      BY <2>1 DEF Inv, DataInv
    <3> QED
      BY <1>1, <1>4, <1>5, <2>1, <3>1 DEF CellInv
  <2>2. CASE ~dirty[b]
    <3>1. data'[b] = disk[k]
      BY <1>4, <1>5, <2>2 DEF Inv, TypeOK
    <3>2. CASE valid[b]
      BY <1>1, <1>5, <2>2, <3>1, <3>2 DEF CellInv, Inv, DataInv
    <3>3. CASE ~valid[b]
      BY <1>1, <1>8, <3>1, <3>3 DEF CellInv
    <3> QED
      BY <3>2, <3>3
  <2> QED
    BY <2>1, <2>2
<1>11. ASSUME NEW j \in Block, j # k PROVE Content'[j] = Content[j]
  <2>1. CASE \E c \in Buf : bno[c] = j /\ valid[c]
    <3>1. PICK c \in Buf : bno[c] = j /\ valid[c] /\ c # b
      BY <1>5, <1>11, <2>1
    <3> QED
      BY <1>1, <1>4, <1>6, <3>1 DEF CellInv
  <2>2. CASE \A c \in Buf : bno[c] = j => ~valid[c]
    <3>1. \A c \in Buf : bno'[c] = j => ~valid'[c]
      BY <1>4, <1>5, <1>6, <1>11, <2>2
    <3> QED
      BY <1>1, <1>7, <1>11, <2>2, <3>1 DEF CellInv
  <2> QED
    BY <2>1, <2>2
<1>12. Content' = Content
  BY <1>9, <1>10, <1>11, SameStore
<1>13. \A q \in Proc : pc'[q] \in {"use", "io"} <=> pc[q] \in {"use", "io"}
  BY <1>4 DEF Inv, TypeOK
<1>14. ASSUME NEW j \in Block, j # k PROVE Users(j)' = Users(j)
  <2>1. \A q \in Proc : pc[q] \in {"use", "io"} /\ bno[mine[q]] = j => valid'[mine[q]] = valid[mine[q]]
    BY <1>5, <1>6, <1>14 DEF Inv, PcInv
  <2> QED
    BY <1>4, <1>13, <2>1 DEF Users
<1>15. CASE valid[b]
  <2>1. valid' = valid
    BY <1>4, <1>15 DEF Inv, TypeOK
  <2> QED
    BY <1>1, <1>4, <1>12, <1>13, <2>1, KeptOwners DEF StoreVars
<1>16. CASE ~valid[b]
  <2>1. Users(k) = {}
    BY <1>8, <1>16 DEF Users, Inv, PcInv
  <2>2. o \in Users(k)'
    BY <1>3, <1>4, <1>5, <1>9 DEF Users
  <2> QED
    BY <1>12, <1>14, <2>1, <2>2, TakeStore
<1> QED
  BY <1>15, <1>16

(* A change of data by the owner of the block.                              *)
LEMMA PutStore ==
  ASSUME Inv, Inv', NEW p \in Proc, NEW v \in Val, NEW b \in Buf, b = mine[p], pc[p] = "use",
         data' = [data EXCEPT ![b] = v], UNCHANGED <<bno, valid, disk, mine>>,
         \A q \in Proc : pc'[q] \in {"use", "io"} <=> pc[q] \in {"use", "io"}
  PROVE  Store!Next
<1>1. CellInv /\ CellInv'
  BY Cells, CellsAfter
<1>2. PICK k \in Block : k = bno[b] /\ valid[b]
  BY DEF Inv, PcInv
<1>3. Owner[k] = p
  BY <1>1, <1>2 DEF CellInv, Users
<1>4. Owner' = Owner
  BY <1>1, KeptOwners
<1>5. Content'[k] = v
  <2>1. data'[b] = v
    BY DEF Inv, TypeOK
  <2> QED
    BY <1>1, <1>2, <2>1 DEF CellInv
<1>6. ASSUME NEW j \in Block, j # k PROVE Content'[j] = Content[j]
  <2>1. CASE \E c \in Buf : bno[c] = j /\ valid[c]
    <3>1. PICK c \in Buf : bno[c] = j /\ valid[c] /\ c # b
      BY <1>2, <1>6, <2>1
    <3>2. data'[c] = data[c]
      BY <3>1 DEF Inv, TypeOK
    <3> QED
      BY <1>1, <3>1, <3>2 DEF CellInv
  <2>2. CASE \A c \in Buf : bno[c] = j => ~valid[c]
    BY <1>1, <2>2 DEF CellInv
  <2> QED
    BY <2>1, <2>2
<1>7. Content' = [Content EXCEPT ![k] = v]
  BY <1>5, <1>6, StoreFunctions, OneCellChanged
<1>8. Store!Put(p, k, v)
  BY <1>3, <1>4, <1>7 DEF Store!Put
<1> QED
  BY <1>8 DEF Store!Next

LEMMA WriteStore ==
  ASSUME Inv, Inv', NEW p \in Proc, NEW v \in Val, LogWrite(p, v) \/ Bwrite(p, v)
  PROVE  Store!Next
<1>1. PICK b \in Buf : b = mine[p]
  BY DEF LogWrite, Bwrite, Inv, PcInv
<1>2. /\ pc[p] = "use" /\ data' = [data EXCEPT ![b] = v] /\ UNCHANGED <<bno, valid, disk, mine>>
      /\ pc' = pc \/ pc' = [pc EXCEPT ![p] = "io"]
  BY <1>1 DEF LogWrite, Bwrite, Request, Become, cacheVars, ideVars
<1>3. \A q \in Proc : pc'[q] \in {"use", "io"} <=> pc[q] \in {"use", "io"}
  BY <1>2 DEF Inv, TypeOK
<1> QED
  BY <1>1, <1>2, <1>3, PutStore

LEMMA ReleaseStore ==
  ASSUME Inv, Inv', NEW p \in Proc, Release(p)
  PROVE  Store!Next
<1>1. CellInv /\ CellInv'
  BY Cells, CellsAfter
<1>2. PICK k \in Block : k = bno[mine[p]] /\ pc[p] = "use" /\ valid[mine[p]]
  BY DEF Release, Inv, PcInv
<1>3. /\ UNCHANGED <<bno, valid, data, disk, mine>>
      /\ \A q \in Proc : pc'[q] \in {"use", "io"} <=> pc[q] \in {"use", "io"} /\ q # p
  BY <1>2 DEF Release, Waiters, cacheVars, bufVars, ideVars
<1>4. Content' = Content
  BY <1>1, <1>3, KeptContent
<1>5. Owner[k] = p
  BY <1>1, <1>2 DEF CellInv, Users
<1>6. Owner'[k] = Free
  <2>1. Users(k)' = {}
    BY <1>2, <1>3, OneOwner DEF Users, Owning
  <2> QED
    BY <1>1, <2>1 DEF CellInv
<1>7. ASSUME NEW j \in Block, j # k PROVE Owner'[j] = Owner[j]
  <2>1. Users(j)' = Users(j)
    BY <1>2, <1>3, <1>7 DEF Users
  <2> QED
    BY <1>1, <2>1, SameUsers
<1>8. Owner' = [Owner EXCEPT ![k] = Free]
  BY <1>6, <1>7, StoreFunctions, OneCellChanged
<1>9. Store!Give(p, k)
  BY <1>4, <1>5, <1>8 DEF Store!Give
<1> QED
  BY <1>9 DEF Store!Next

LEMMA NextStore == Inv /\ Inv' /\ [Next]_vars => [Store!Next]_StoreVars
<1> SUFFICES ASSUME Inv, Inv', [Next]_vars PROVE Store!Next \/ UNCHANGED StoreVars
  OBVIOUS
<1>1. CASE UNCHANGED vars
  <2>1. CellInv /\ CellInv'
    BY Cells, CellsAfter
  <2>2. UNCHANGED <<bno, valid, data, disk, pc, mine>>
    BY <1>1 DEF vars, cacheVars, bufVars, ideVars
  <2> QED
    BY <2>1, <2>2, KeptContent, KeptOwners DEF StoreVars
<1>2. CASE Next
  BY <1>2, InterruptStore, HitStore, MissStore, LockStore, BreadStore, WriteStore, ReleaseStore,
     DropStore DEF Next, Work
<1> QED
  BY <1>1, <1>2

(* The cache, its locks, the queue and the disk implement the block store:   *)
(* what bio.c, sleeplock.c and ide.c together promise the file system.      *)
THEOREM CacheImplementsStore == Spec => StoreSpec
<1>1. Inv /\ [Next]_vars => [Store!Next]_StoreVars
  BY NextInv, NextStore
<1> QED
  BY <1>1, InitStore, Invariance, PTL DEF Spec, StoreSpec, Store!Spec, StoreVars

-----------------------------------------------------------------------------
(* The undo log.                                                            *)
UndoTypes ==
  /\ home \in [Logged -> Val] /\ cache \in [Logged -> Val] /\ before \in [Logged -> Val]
  /\ head \in Seq(Logged) /\ lh \in Seq(Logged) /\ held \in Seq(Logged)
  /\ tail \in Nat \ {0} /\ at \in {"boot", "undo", "clear", "op", "install", "erase"}

(* A block that the cache and the disk disagree about is named by lh in      *)
(* memory, and while commit() installs, not installed yet.                  *)
CacheAhead ==
  \A b \in Logged : cache[b] # home[b] =>
     \/ at = "op" /\ \E i \in 1..Len(lh) : lh[i] = b
     \/ at = "install" /\ \E i \in 1..Len(lh) : i >= tail /\ lh[i] = b

HeadInv ==
  /\ at = "op" => head = <<>> /\ home = before
  /\ at \in {"install", "erase", "undo", "clear"} => head = lh

UndoInv == UndoTypes /\ CacheAhead /\ HeadInv /\ Undo!ChangesAreNamed

-----------------------------------------------------------------------------
LEMMA LastFront ==
  ASSUME NEW S, NEW s \in Seq(S), s # <<>>
  PROVE  Undo!Last(s) \in S /\ Undo!Front(s) \in Seq(S)
<1>1. Len(s) \in Nat \ {0}
  BY EmptySeq
<1>2. Len(s) \in 1..Len(s)
  BY <1>1
<1>3. Undo!Last(s) \in S
  BY <1>2, ElementOfSeq DEF Undo!Last
<1>4. \A i \in 1..(Len(s) - 1) : i \in 1..Len(s)
  BY <1>1
<1>5. \A i \in 1..(Len(s) - 1) : s[i] \in S
  BY <1>4, ElementOfSeq
<1>6. 1 \in Int /\ Len(s) - 1 \in Int
  BY <1>1
<1>7. SubSeq(s, 1, Len(s) - 1) \in Seq(S)
  BY <1>5, <1>6, SubSeqProperties
<1> QED
  BY <1>3, <1>7 DEF Undo!Front

LEMMA UndoInitInv == Undo!LogIsLarge /\ Undo!Init => UndoInv
<1> SUFFICES ASSUME Undo!LogIsLarge, Undo!Init PROVE UndoInv
  OBVIOUS
<1>1. <<>> \in Seq(Logged)
  OBVIOUS
<1> QED
  BY <1>1 DEF Undo!LogIsLarge, Undo!Init, UndoInv, UndoTypes, CacheAhead, HeadInv, Undo!ChangesAreNamed

LEMMA UndoLogWriteInv ==
  ASSUME UndoInv, NEW v \in Val, Undo!LogWrite(v)
  PROVE  UndoInv'
<1>1. PICK b \in Logged : b = Undo!Last(held)
  BY LastFront DEF Undo!LogWrite, UndoInv, UndoTypes
<1>2. /\ cache' = [cache EXCEPT ![b] = v] /\ at = "op"
      /\ lh' = IF Undo!Contains(lh, b) THEN lh ELSE Append(lh, b)
      /\ held' \in Seq(Logged)
      /\ UNCHANGED <<home, head, at, tail, before>>
  BY <1>1, LastFront DEF Undo!LogWrite, UndoInv, UndoTypes
<1>3. /\ lh' \in Seq(Logged)
      /\ \A i \in 1..Len(lh) : \E j \in 1..Len(lh') : lh'[j] = lh[i]
      /\ \E j \in 1..Len(lh') : lh'[j] = b
  <2>1. CASE Undo!Contains(lh, b)
    BY <1>2, <2>1 DEF Undo!Contains, UndoInv, UndoTypes
  <2>2. CASE ~Undo!Contains(lh, b)
    <3>1. lh' = Append(lh, b)
      BY <1>2, <2>2
    <3>2. /\ Append(lh, b) \in Seq(Logged) /\ Len(Append(lh, b)) = Len(lh) + 1
          /\ \A i \in 1..Len(lh) : Append(lh, b)[i] = lh[i]
          /\ Append(lh, b)[Len(lh) + 1] = b /\ Len(lh) \in Nat
      BY AppendProperties, LenProperties DEF UndoInv, UndoTypes
    <3>3. Len(lh) + 1 \in 1..(Len(lh) + 1) /\ \A i \in 1..Len(lh) : i \in 1..(Len(lh) + 1)
      BY <3>2
    <3> QED
      BY <3>1, <3>2, <3>3
  <2> QED
    BY <2>1, <2>2
<1>4. UndoTypes'
  BY <1>2, <1>3 DEF UndoInv, UndoTypes
<1>5. CacheAhead'
  BY <1>2, <1>3 DEF UndoInv, UndoTypes, CacheAhead
<1>6. HeadInv' /\ Undo!ChangesAreNamed'
  BY <1>2 DEF UndoInv, HeadInv, Undo!ChangesAreNamed, Undo!Contains
<1> QED
  BY <1>4, <1>5, <1>6 DEF UndoInv

LEMMA UndoInstallInv ==
  ASSUME UndoInv, Undo!InstallBlock
  PROVE  UndoInv'
<1>1. tail \in 1..Len(lh)
  BY LenProperties DEF Undo!InstallBlock, UndoInv, UndoTypes
<1>2. PICK b \in Logged : b = lh[tail]
  BY <1>1, ElementOfSeq DEF UndoInv, UndoTypes
<1>3. /\ home' = [home EXCEPT ![b] = cache[b]] /\ tail' = tail + 1 /\ at \in {"install", "undo"}
      /\ UNCHANGED <<head, lh, cache, held, at, before>>
  BY <1>2 DEF Undo!InstallBlock
<1>4. UndoTypes'
  BY <1>3 DEF UndoInv, UndoTypes
<1>5. CacheAhead'
  <2> SUFFICES ASSUME NEW c \in Logged, cache[c] # home'[c]
               PROVE  \/ at = "op" /\ \E i \in 1..Len(lh) : lh[i] = c
                      \/ at = "install" /\ \E i \in 1..Len(lh) : i >= tail + 1 /\ lh[i] = c
    BY <1>3 DEF CacheAhead
  <2>1. c # b /\ cache[c] # home[c]
    BY <1>3 DEF UndoInv, UndoTypes
  <2>2. PICK i \in 1..Len(lh) : i >= tail /\ lh[i] = c /\ at = "install"
    BY <1>3, <2>1 DEF UndoInv, CacheAhead
  <2>3. i # tail
    BY <1>2, <2>1, <2>2
  <2>4. i >= tail + 1
    BY <1>1, <2>2, <2>3
  <2> QED
    BY <2>2, <2>4
<1>6. HeadInv'
  BY <1>3 DEF UndoInv, HeadInv
<1>7. Undo!ChangesAreNamed'
  <2> SUFFICES ASSUME NEW c \in Logged, home'[c] # before[c] PROVE \E i \in 1..Len(head) : head[i] = c
    BY <1>3 DEF Undo!ChangesAreNamed, Undo!Contains
  <2>1. CASE c = b
    BY <1>1, <1>2, <1>3, <2>1 DEF UndoInv, HeadInv
  <2>2. CASE c # b
    BY <1>3, <2>2 DEF UndoInv, UndoTypes, Undo!ChangesAreNamed, Undo!Contains
  <2> QED
    BY <2>1, <2>2
<1> QED
  BY <1>4, <1>5, <1>6, <1>7 DEF UndoInv

LEMMA UndoOtherInv ==
  ASSUME UndoInv,
         \/ \E b \in Logged : Undo!BreadWr(b)
         \/ Undo!Brelse \/ Undo!WriteHead \/ Undo!Installed \/ Undo!Erase \/ Undo!Crash \/ Undo!ReadHead
  PROVE  UndoInv'
<1>1. \A b \in Logged : Append(held, b) \in Seq(Logged)
  BY AppendProperties DEF UndoInv, UndoTypes
<1>2. held # <<>> => Undo!Front(held) \in Seq(Logged)
  BY LastFront DEF UndoInv, UndoTypes
<1>3. <<>> \in Seq(Logged)
  OBVIOUS
<1>4. UndoTypes'
  <2>1. CASE (\E b \in Logged : Undo!BreadWr(b)) \/ Undo!Brelse
    BY <1>1, <1>2, <2>1 DEF Undo!BreadWr, Undo!Brelse, UndoInv, UndoTypes
  <2>2. CASE Undo!WriteHead \/ Undo!Installed
    BY <2>2 DEF Undo!WriteHead, Undo!Installed, UndoInv, UndoTypes
  <2>3. CASE Undo!Erase
    BY <1>3, <2>3 DEF Undo!Erase, UndoInv, UndoTypes
  <2>4. CASE Undo!Crash
    BY <1>3, <2>4 DEF Undo!Crash, UndoInv, UndoTypes
  <2>5. CASE Undo!ReadHead
    BY <2>5 DEF Undo!ReadHead, UndoInv, UndoTypes
  <2> QED
    BY <2>1, <2>2, <2>3, <2>4, <2>5
<1>5. CASE (\E b \in Logged : Undo!BreadWr(b)) \/ Undo!Brelse
  <2>1. UNCHANGED <<home, head, lh, cache, at, tail, before>>
    BY <1>5 DEF Undo!BreadWr, Undo!Brelse
  <2> QED
    BY <1>4, <2>1 DEF UndoInv, CacheAhead, HeadInv, Undo!ChangesAreNamed, Undo!Contains
<1>6. CASE Undo!WriteHead
  <2>1. Len(lh) \in Nat
    BY DEF UndoInv, UndoTypes
  <2>2. CacheAhead'
    BY <1>6, <2>1 DEF Undo!WriteHead, UndoInv, CacheAhead
  <2>3. HeadInv' /\ Undo!ChangesAreNamed'
    BY <1>6 DEF Undo!WriteHead, UndoInv, HeadInv, Undo!ChangesAreNamed
  <2> QED
    BY <1>4, <2>2, <2>3 DEF UndoInv
<1>7. CASE Undo!Installed
  <2>1. \A i \in 1..Len(lh) : ~(i >= tail)
    BY <1>7, LenProperties DEF Undo!Installed, UndoInv, UndoTypes
  <2>2. CacheAhead'
    BY <1>7, <2>1 DEF Undo!Installed, UndoInv, CacheAhead
  <2>3. HeadInv' /\ Undo!ChangesAreNamed'
    BY <1>7 DEF Undo!Installed, UndoInv, HeadInv, Undo!ChangesAreNamed, Undo!Contains
  <2> QED
    BY <1>4, <2>2, <2>3 DEF UndoInv
<1>8. CASE Undo!Erase
  BY <1>4, <1>8 DEF Undo!Erase, UndoInv, CacheAhead, HeadInv, Undo!ChangesAreNamed
<1>9. CASE Undo!Crash
  BY <1>4, <1>9 DEF Undo!Crash, UndoInv, CacheAhead, HeadInv, Undo!ChangesAreNamed, Undo!Contains
<1>10. CASE Undo!ReadHead
  BY <1>4, <1>10 DEF Undo!ReadHead, UndoInv, CacheAhead, HeadInv, Undo!ChangesAreNamed, Undo!Contains
<1> QED
  BY <1>5, <1>6, <1>7, <1>8, <1>9, <1>10

LEMMA UndoNextInv == UndoInv /\ [Undo!Next]_Undo!vars => UndoInv'
<1> SUFFICES ASSUME UndoInv, [Undo!Next]_Undo!vars PROVE UndoInv'
  OBVIOUS
<1>1. CASE UNCHANGED Undo!vars
  BY <1>1 DEF Undo!vars, UndoInv, UndoTypes, CacheAhead, HeadInv, Undo!ChangesAreNamed, Undo!Contains
<1>2. CASE Undo!Next
  BY <1>2, UndoLogWriteInv, UndoInstallInv, UndoOtherInv DEF Undo!Next
<1> QED
  BY <1>1, <1>2

(* lab2-undo-logging/log.c:105-122: whenever the machine stops, the header on *)
(* disk names every block that differs from what it was before.             *)
THEOREM HeaderNamesChanges == Undo!Spec => []ChangesAreNamed
<1>1. Undo!Init => UndoInv
  BY UndoInitInv, UndoLogIsLarge
<1>2. UndoInv => ChangesAreNamed
  BY DEF UndoInv, ChangesAreNamed
<1> QED
  BY <1>1, <1>2, UndoNextInv, PTL DEF Undo!Spec

(* No call starts while the header names blocks of an earlier transaction.  *)
THEOREM HeaderIsEmptyInCalls == Undo!Spec => []Undo!CallsStartClean
<1>1. Undo!Init => UndoInv
  BY UndoInitInv, UndoLogIsLarge
<1>2. UndoInv => Undo!CallsStartClean
  BY DEF UndoInv, HeadInv, Undo!CallsStartClean
<1> QED
  BY <1>1, <1>2, UndoNextInv, PTL DEF Undo!Spec
=============================================================================
