---------------------------- MODULE RedoLogProofs ----------------------------
(***************************************************************************)
(* What the redo log guarantees for every number of processes, blocks and  *)
(* log sizes.  The heart is an accounting argument: every process inside   *)
(* a transaction owns the part of its reservation it has not used, and     *)
(* the entries of the log plus everything still owned fit LOGSIZE.         *)
(***************************************************************************)
EXTENDS RedoLog, FiniteSetTheorems, TLAPS

(* The log entries that the processes of A may still append: process p     *)
(* owns <<p, i>> for each i above the number of blocks it has logged.      *)
Free(A, w) ==
  {t \in A \X (1 .. MaxOpBlocks) : t[2] > Cardinality(w[t[1]])}

LEMMA FreeBound ==
  ASSUME NEW A \in SUBSET Proc, NEW w
  PROVE  /\ IsFiniteSet(A) /\ Cardinality(A) \in Nat
         /\ IsFiniteSet(Free(A, w))
         /\ Cardinality(Free(A, w)) \in Nat
         /\ Cardinality(Free(A, w)) <= Cardinality(A) * MaxOpBlocks
<1>1. IsFiniteSet(A) /\ Cardinality(A) \in Nat
  BY FS_Subset, FS_CardinalityType, ConstantsAssumption
<1>2. /\ IsFiniteSet(1 .. MaxOpBlocks)
      /\ Cardinality(1 .. MaxOpBlocks) = MaxOpBlocks
  BY FS_Interval, ConstantsAssumption
<1>3. /\ IsFiniteSet(A \X (1 .. MaxOpBlocks))
      /\ Cardinality(A \X (1 .. MaxOpBlocks)) = Cardinality(A) * MaxOpBlocks
  BY <1>1, <1>2, FS_Product
<1>4. Free(A, w) \in SUBSET (A \X (1 .. MaxOpBlocks))
  BY DEF Free
<1>5. QED
  BY <1>1, <1>3, <1>4, FS_Subset, FS_CardinalityType

LEMMA FreeMonotone ==
  ASSUME NEW A \in SUBSET Proc, NEW B \in SUBSET A, NEW w
  PROVE  Cardinality(Free(B, w)) <= Cardinality(Free(A, w))
<1>1. Free(B, w) \in SUBSET Free(A, w)
  BY DEF Free
<1>2. QED
  BY <1>1, FreeBound, FS_Subset

(* A process that has logged at most OpBlocks blocks owns the rest.        *)
LEMMA FreeShare ==
  ASSUME NEW A \in SUBSET Proc, NEW w, NEW p \in A,
         Cardinality(w[p]) \in Nat, Cardinality(w[p]) <= OpBlocks
  PROVE  MaxOpBlocks - OpBlocks <= Cardinality(Free(A, w))
<1> DEFINE I == OpBlocks + 1 .. MaxOpBlocks
           S == {p} \X I
<1>0. OpBlocks \in Nat /\ MaxOpBlocks \in Nat /\ OpBlocks <= MaxOpBlocks
  BY ConstantsAssumption
<1>1. IsFiniteSet(I) /\ Cardinality(I) = MaxOpBlocks - OpBlocks
  <2>1. OpBlocks + 1 \in Int /\ MaxOpBlocks \in Int
    BY <1>0
  <2>2. /\ IsFiniteSet(I)
        /\ Cardinality(I) = IF OpBlocks + 1 > MaxOpBlocks THEN 0
                            ELSE MaxOpBlocks - (OpBlocks + 1) + 1
    BY <2>1, FS_Interval
  <2>3. QED
    BY <1>0, <2>2
<1>2. IsFiniteSet(S) /\ Cardinality(S) = 1 * Cardinality(I)
  <2>1. IsFiniteSet({p}) /\ Cardinality({p}) = 1
    BY FS_Singleton
  <2>2. QED
    BY <1>1, <2>1, FS_Product
<1>3. S \in SUBSET Free(A, w)
  BY <1>0 DEF Free
<1>4. Cardinality(S) <= Cardinality(Free(A, w))
  BY <1>3, FreeBound, FS_Subset
<1>5. QED
  BY <1>0, <1>1, <1>2, <1>4

(* Logging a new block uses up one owned entry.                            *)
LEMMA FreeSpend ==
  ASSUME NEW A \in SUBSET Proc, NEW w, NEW v, NEW p \in A,
         Cardinality(w[p]) \in Nat,
         Cardinality(w[p]) + 1 <= MaxOpBlocks,
         Cardinality(v[p]) = Cardinality(w[p]) + 1,
         \A q \in A : q # p => v[q] = w[q]
  PROVE  Cardinality(Free(A, v)) = Cardinality(Free(A, w)) - 1
<1> DEFINE x == <<p, Cardinality(w[p]) + 1>>
<1>0. MaxOpBlocks \in Nat
  BY ConstantsAssumption
<1>1. x \in Free(A, w)
  BY <1>0 DEF Free
<1>2. Free(A, v) = Free(A, w) \ {x}
  <2>1. ASSUME NEW t \in A \X (1 .. MaxOpBlocks)
        PROVE  t \in Free(A, v) <=> t \in Free(A, w) /\ t # x
    <3>0. t[1] \in A /\ t[2] \in 1 .. MaxOpBlocks /\ t = <<t[1], t[2]>>
      OBVIOUS
    <3>1. CASE t[1] = p
      <4>1. t[2] > Cardinality(w[p]) + 1
              <=> t[2] > Cardinality(w[p]) /\ t[2] # Cardinality(w[p]) + 1
        BY <1>0, <3>0
      <4>2. t = x <=> t[2] = Cardinality(w[p]) + 1
        BY <3>0, <3>1
      <4>3. QED
        BY <3>1, <4>1, <4>2 DEF Free
    <3>2. CASE t[1] # p
      BY <3>0, <3>2 DEF Free
    <3>3. QED
      BY <3>1, <3>2
  <2>2. QED
    BY <2>1 DEF Free
<1>3. IsFiniteSet(Free(A, w)) /\ Cardinality(Free(A, w)) \in Nat
  BY FreeBound
<1>4. Cardinality(Free(A, w) \ {x}) = Cardinality(Free(A, w)) - 1
  <2> HIDE DEF x
  <2>1. QED
    BY <1>1, <1>3, FS_RemoveElement
<1>5. QED
  BY <1>2, <1>4

-----------------------------------------------------------------------------
(* The inductive invariant.                                                *)

(* Where the threads can be together: recovery runs before any call, one   *)
(* process at a time commits, and it does so when no call is active.       *)
Control ==
  /\ pc[Boot] \in {"idle", "read_head", "install", "erase"}
  /\ \A p \in Proc : pc[p] # "read_head"
  /\ pc[Boot] # "idle" => /\ ~committing /\ outstanding = 0
                          /\ \A p \in Proc : pc[p] = "idle"
  /\ committing => /\ Active = {}
                   /\ \E p \in Proc : pc[p] \in InCommit
  /\ \A p \in Proc : pc[p] \in InCommit => committing
  /\ \A p, q \in Proc : pc[p] \in InCommit /\ pc[q] \in InCommit => p = q

(* The loops of write_log() and install_trans() stay inside the log.       *)
Loops ==
  /\ \A t \in Thread : pc[t] \in {"write_log", "install"} => tail < Len(lh)
  /\ \A p \in Proc : pc[p] = "write_head" => lh # <<>>

(* What a process holds and has logged.                                    *)
Budget ==
  /\ \A p \in Proc : IsFiniteSet(wrote[p])
  /\ \A p \in Active : wrote[p] \subseteq Logged /\ Cardinality(wrote[p]) <= OpBlocks
  /\ \A p \in Proc : pc[p] \in {"held", "logging"} =>
       blk[p] \in Block /\ Cardinality(wrote[p] \cup {blk[p]}) <= OpBlocks

Count == outstanding = Cardinality(Active)

(* A header that leaves room for what one call never uses.                 *)
Short(s) == s = <<>> \/ Len(s) + MaxOpBlocks - OpBlocks <= LogSize

Space ==
  /\ Len(lh) + Cardinality(Free(Active, wrote)) <= LogSize
  /\ Short(lh)
  /\ Short(head)

(* Between transactions the log is empty.                                  *)
Empty ==
  /\ pc[Boot] = "idle" /\ outstanding = 0 /\ ~committing => lh = <<>>
  /\ \A p \in Proc : pc[p] = "done" => lh = <<>>

Inv == TypeOK /\ Control /\ Loops /\ Budget /\ Count /\ Space /\ Empty

-----------------------------------------------------------------------------
(* The accounting is unchanged when the log and the active calls are.      *)
LEMMA Frame ==
  ASSUME Count, Space, Active' = Active, wrote' = wrote, lh' = lh,
         head' = head, outstanding' = outstanding
  PROVE  Count' /\ Space'
BY DEF Count, Space, Short, Free

LEMMA BudgetFrame ==
  ASSUME Budget, Active' = Active, wrote' = wrote, lh' = lh, blk' = blk,
         \A p \in Proc : pc'[p] \in {"held", "logging"}
                         => pc[p] \in {"held", "logging"}
  PROVE  Budget'
<1>1. Logged' = Logged
  BY DEF Logged
<1>2. QED
  BY <1>1 DEF Budget

LEMMA InitInv == Init => Inv
<1> SUFFICES ASSUME Init PROVE Inv
  OBVIOUS
<1> USE DEF Init, PowerOn
<1>1. Active = {}
  BY ConstantsAssumption DEF Active, InOp, Thread
<1>2. Cardinality({}) = 0 /\ IsFiniteSet({}) /\ Cardinality(Free({}, wrote)) = 0
  BY FS_EmptySet DEF Free
<1>3. TypeOK
  <2>1. slot \in [1 .. LogSize -> Val]
    OBVIOUS
  <2>2. head \in Seq(Block) /\ lh \in Seq(Block)
    OBVIOUS
  <2>3. pc \in [Thread -> PC]
    BY DEF PC
  <2>4. QED
    BY <2>1, <2>2, <2>3 DEF TypeOK
<1>4. Control /\ Loops
  BY ConstantsAssumption DEF Control, Loops, InCommit, Thread
<1>5. Budget /\ Count /\ Space /\ Empty
  BY <1>1, <1>2, ConstantsAssumption DEF Budget, Count, Space, Short, Empty, Thread
<1>6. QED
  BY <1>3, <1>4, <1>5 DEF Inv

LEMMA CallBeginOpInv ==
  ASSUME Inv, NEW p \in Proc, CallBeginOp(p)
  PROVE  Inv'
<1> USE DEF CallBeginOp, disk
<1>1. TypeOK'
  BY DEF Inv, TypeOK, PC, Thread
<1>2. Active' = Active
  BY DEF Inv, TypeOK, Thread, Active, InOp
<1>3. Control' /\ Loops'
  BY <1>2, ConstantsAssumption
  DEF Inv, TypeOK, Thread, Control, Loops, InCommit
<1>4. Budget'
  BY <1>2, BudgetFrame DEF Inv, TypeOK, Thread
<1>5. Count' /\ Space'
  BY <1>2, Frame DEF Inv
<1>6. Empty'
  BY ConstantsAssumption DEF Inv, TypeOK, Thread, Empty
<1>7. QED
  BY <1>1, <1>3, <1>4, <1>5, <1>6 DEF Inv

LEMMA BeginOpInv ==
  ASSUME Inv, NEW p \in Proc, BeginOp(p)
  PROVE  Inv'
<1> USE DEF BeginOp, disk
<1>0. p # Boot /\ pc[Boot] = "idle"
  BY ConstantsAssumption DEF Inv, Control
<1>1. TypeOK'
  BY DEF Inv, TypeOK, PC, Thread, InOp
<1>2. CASE MustWait
  <2>1. Active' = Active
    BY <1>2 DEF Inv, TypeOK, Thread, Active, InOp
  <2>2. Control' /\ Loops'
    BY <1>0, <1>2, <2>1
    DEF Inv, TypeOK, Thread, Control, Loops, InCommit
  <2>3. Budget'
    BY <1>2, <2>1, BudgetFrame DEF Inv, TypeOK, Thread
  <2>4. Count' /\ Space'
    BY <1>2, <2>1, Frame DEF Inv
  <2>5. Empty'
    BY <1>0, <1>2 DEF Inv, TypeOK, Thread, Empty
  <2>6. QED
    BY <1>1, <2>2, <2>3, <2>4, <2>5 DEF Inv
<1>3. CASE ~MustWait
  <2>1. Active' = Active \cup {p} /\ p \notin Active
    BY <1>3 DEF Inv, TypeOK, Thread, Active, InOp
  <2>2. Control' /\ Loops'
    BY <1>0, <1>3, <2>1
    DEF Inv, TypeOK, Thread, Control, Loops, InCommit, MustWait
  <2>3. Budget'
    <3>1. /\ wrote' = [wrote EXCEPT ![p] = {}] /\ pc'[p] = "op"
          /\ \A q \in Proc : q # p => pc'[q] = pc[q]
          /\ Logged' = Logged /\ blk' = blk
      BY <1>3 DEF Inv, TypeOK, Thread, Logged
    <3>2. IsFiniteSet({}) /\ Cardinality({}) <= OpBlocks
      BY FS_EmptySet, ConstantsAssumption
    <3>3. wrote'[p] = {} /\ \A q \in Proc : q # p => wrote'[q] = wrote[q]
      BY <3>1 DEF Inv, TypeOK
    <3>4. ASSUME NEW q \in Proc PROVE IsFiniteSet(wrote'[q])
      BY <3>2, <3>3 DEF Inv, Budget
    <3>5. ASSUME NEW q \in Active'
          PROVE  wrote'[q] \subseteq Logged' /\ Cardinality(wrote'[q]) <= OpBlocks
      <4>1. CASE q = p
        BY <3>2, <3>3, <4>1
      <4>2. CASE q # p
        BY <2>1, <3>1, <3>3, <4>2 DEF Inv, Budget, Active
      <4>3. QED
        BY <4>1, <4>2
    <3>6. ASSUME NEW q \in Proc, pc'[q] \in {"held", "logging"}
          PROVE  /\ blk'[q] \in Block
                 /\ Cardinality(wrote'[q] \cup {blk'[q]}) <= OpBlocks
      BY <3>1, <3>3, <3>6 DEF Inv, Budget
    <3>7. QED
      BY <3>4, <3>5, <3>6 DEF Budget
  <2>4. Count'
    BY <1>3, <2>1, FS_AddElement, FreeBound DEF Inv, Count, Active
  <2>5. Space'
    <3>1. Cardinality(Free(Active', wrote')) <= (outstanding + 1) * MaxOpBlocks
      BY <1>3, <2>4, FreeBound DEF Count, Active
    <3>2. Len(lh) + (outstanding + 1) * MaxOpBlocks <= LogSize
      BY <1>3, ConstantsAssumption DEF MustWait, Inv, TypeOK
    <3>3. Cardinality(Free(Active', wrote')) \in Nat
      BY FreeBound DEF Active
    <3>4. QED
      BY <1>3, <3>1, <3>2, <3>3, ConstantsAssumption
      DEF Inv, TypeOK, Space, Short
  <2>6. Empty'
    BY <1>0, <1>3 DEF Inv, TypeOK, Thread, Empty
  <2>7. QED
    BY <1>1, <2>2, <2>3, <2>4, <2>5, <2>6 DEF Inv
<1>4. QED
  BY <1>2, <1>3

LEMMA ModifyInv ==
  ASSUME Inv, NEW p \in Proc, NEW b \in Block, NEW v \in Val, Modify(p, b, v)
  PROVE  Inv'
<1> USE DEF Modify, disk
<1>0. p # Boot /\ p \in Active
  BY ConstantsAssumption DEF Active, InOp
<1>1. TypeOK'
  BY DEF Inv, TypeOK, PC, Thread, InOp
<1>2. Active' = Active
  BY DEF Inv, TypeOK, Thread, Active, InOp
<1>3. Control' /\ Loops'
  BY <1>0, <1>2 DEF Inv, TypeOK, Thread, Control, Loops, InCommit
<1>4. Budget'
  <2>1. /\ blk'[p] = b /\ \A q \in Proc : q # p => blk'[q] = blk[q]
        /\ pc'[p] = "held" /\ \A q \in Proc : q # p => pc'[q] = pc[q]
        /\ Logged' = Logged
    BY DEF Inv, TypeOK, Thread, Logged
  <2>2. QED
    BY <1>2, <2>1 DEF Inv, Budget
<1>5. Count' /\ Space'
  BY <1>2, Frame DEF Inv
<1>6. Empty'
  BY <1>0 DEF Inv, TypeOK, Thread, Empty
<1>7. QED
  BY <1>1, <1>3, <1>4, <1>5, <1>6 DEF Inv

LEMMA LogCheckInv ==
  ASSUME Inv, NEW p \in Proc, LogCheck(p)
  PROVE  Inv'
<1> USE DEF LogCheck, disk
<1>0. p # Boot
  BY ConstantsAssumption
<1>1. TypeOK'
  BY DEF Inv, TypeOK, PC, Thread, InOp
<1>2. Active' = Active
  BY DEF Inv, TypeOK, Thread, Active, InOp
<1>3. Control' /\ Loops'
  BY <1>0, <1>2 DEF Inv, TypeOK, Thread, Control, Loops, InCommit
<1>4. Budget'
  BY <1>2, BudgetFrame DEF Inv, TypeOK, Thread
<1>5. Count' /\ Space'
  BY <1>2, Frame DEF Inv
<1>6. Empty'
  BY <1>0 DEF Inv, TypeOK, Thread, Empty
<1>7. QED
  BY <1>1, <1>3, <1>4, <1>5, <1>6 DEF Inv

(* The step that uses the reservation: a new entry in the log is paid for  *)
(* by one of the entries that p owns.                                      *)
LEMMA LogWriteInv ==
  ASSUME Inv, NEW p \in Proc, LogWrite(p)
  PROVE  Inv'
<1> DEFINE b == blk[p]
<1> USE DEF LogWrite, disk
<1>0. p # Boot /\ p \in Active /\ b \in Block /\ pc[Boot] = "idle"
  BY ConstantsAssumption DEF Inv, Budget, Control, Active, InOp
<1>1. /\ wrote'[p] = wrote[p] \cup {b}
      /\ \A q \in Proc : q # p => wrote'[q] = wrote[q]
      /\ blk'[p] = NoBlock /\ \A q \in Proc : q # p => blk'[q] = blk[q]
      /\ pc'[p] = "op" /\ \A q \in Thread : q # p => pc'[q] = pc[q]
      /\ head' = head /\ outstanding' = outstanding /\ tail' = tail
      /\ committing' = committing
  BY DEF Inv, TypeOK, Thread
<1>2. lh' \in Seq(Block) /\ Len(lh) <= Len(lh') /\ Logged' = Logged \cup {b}
  <2>1. CASE b \in Logged
    BY <2>1 DEF Inv, TypeOK, Logged
  <2>2. CASE b \notin Logged
    <3>1. lh' = Append(lh, b) /\ lh \in Seq(Block)
      BY <2>2 DEF Inv, TypeOK
    <3>2. /\ lh' \in Seq(Block) /\ Len(lh') = Len(lh) + 1 /\ Len(lh) \in Nat
          /\ DOMAIN lh = 1 .. Len(lh) /\ DOMAIN lh' = 1 .. Len(lh')
          /\ lh'[Len(lh) + 1] = b /\ \A i \in 1 .. Len(lh) : lh'[i] = lh[i]
      BY <1>0, <3>1
    <3>3. QED
      BY <3>2 DEF Logged
  <2>3. QED
    BY <2>1, <2>2
<1>3. TypeOK'
  BY <1>0, <1>1, <1>2 DEF Inv, TypeOK, PC, Thread, InOp
<1>4. Active' = Active
  BY <1>0, <1>1 DEF Active, InOp, Thread
<1>5. ~committing
  BY <1>0 DEF Inv, Control
<1>6. Control'
  BY <1>0, <1>1, <1>4, <1>5 DEF Inv, Control, InCommit, Thread
<1>7. Loops'
  <2>1. Len(lh) \in Nat /\ Len(lh') \in Nat
    BY <1>2 DEF Inv, TypeOK
  <2>2. \A q \in Proc : pc'[q] # "write_head"
    BY <1>1, <1>5 DEF Inv, Control, InCommit, Thread
  <2>3. QED
    BY <1>0, <1>1, <1>2, <2>1, <2>2 DEF Inv, Loops, Thread, TypeOK
<1>8. Budget'
  <2>1. IsFiniteSet(wrote'[p]) /\ Cardinality(wrote'[p]) <= OpBlocks
    BY <1>1, FS_AddElement DEF Inv, Budget
  <2>2. ASSUME NEW q \in Proc PROVE IsFiniteSet(wrote'[q])
    BY <1>1, <2>1 DEF Inv, Budget
  <2>3. ASSUME NEW q \in Active'
        PROVE  wrote'[q] \subseteq Logged' /\ Cardinality(wrote'[q]) <= OpBlocks
    <3>1. wrote[q] \subseteq Logged /\ Cardinality(wrote[q]) <= OpBlocks
      BY <1>4 DEF Inv, Budget
    <3>2. QED
      BY <1>1, <1>2, <2>1, <3>1 DEF Active
  <2>4. ASSUME NEW q \in Proc, pc'[q] \in {"held", "logging"}
        PROVE  /\ blk'[q] \in Block
               /\ Cardinality(wrote'[q] \cup {blk'[q]}) <= OpBlocks
    BY <1>1, <2>4 DEF Inv, Budget, Thread
  <2>5. QED
    BY <2>2, <2>3, <2>4 DEF Budget
<1>9. Count'
  BY <1>1, <1>4 DEF Inv, Count
<1>10. Space'
  <2>1. /\ IsFiniteSet(wrote[p]) /\ Cardinality(wrote[p]) \in Nat
        /\ IsFiniteSet(wrote'[p]) /\ Cardinality(wrote'[p]) \in Nat
        /\ Cardinality(wrote'[p]) <= OpBlocks
    BY <1>0, <1>1, <1>4, <1>8, FS_CardinalityType DEF Inv, Budget
  <2>2. /\ OpBlocks \in Nat /\ MaxOpBlocks \in Nat /\ LogSize \in Nat
        /\ OpBlocks <= MaxOpBlocks /\ Len(lh) \in Nat /\ Len(lh') \in Nat
    BY <1>2, ConstantsAssumption DEF Inv, TypeOK
  <2>3. Len(lh') + Cardinality(Free(Active, wrote')) <= LogSize
    <3>1. CASE b \in wrote[p]
      <4>1. wrote' = wrote /\ lh' = lh
        BY <1>0, <1>1, <3>1 DEF Inv, Budget, TypeOK
      <4>2. QED
        BY <4>1 DEF Inv, Space
    <3>2. CASE b \notin wrote[p]
      <4>1. Cardinality(wrote'[p]) = Cardinality(wrote[p]) + 1
        BY <1>1, <2>1, <3>2, FS_AddElement
      <4>2. Cardinality(Free(Active, wrote'))
              = Cardinality(Free(Active, wrote)) - 1
        <5>1. /\ Active \in SUBSET Proc /\ p \in Active
              /\ Cardinality(wrote[p]) + 1 <= MaxOpBlocks
              /\ \A q \in Active : q # p => wrote'[q] = wrote[q]
          BY <1>0, <1>1, <2>1, <2>2, <4>1 DEF Active
        <5>2. QED
          BY <2>1, <4>1, <5>1, FreeSpend
      <4>3. Len(lh') <= Len(lh) + 1
        BY <2>2 DEF Inv, TypeOK
      <4>4. Cardinality(Free(Active, wrote)) \in Nat
        BY FreeBound DEF Active
      <4>5. QED
        BY <2>2, <4>2, <4>3, <4>4 DEF Inv, Space
    <3>3. QED
      BY <3>1, <3>2
  <2>4. MaxOpBlocks - OpBlocks <= Cardinality(Free(Active, wrote'))
    BY <1>0, <2>1, FreeShare DEF Active
  <2>5. Cardinality(Free(Active, wrote')) \in Nat
    BY FreeBound DEF Active
  <2>6. QED
    BY <1>1, <1>4, <2>2, <2>3, <2>4, <2>5 DEF Inv, Space, Short
<1>11. Empty'
  <2>1. outstanding # 0
    BY <1>0, FreeBound, FS_EmptySet DEF Inv, Count, Active
  <2>2. QED
    BY <1>0, <1>1, <1>5, <2>1 DEF Inv, Empty, Control, InCommit, Thread
<1>12. QED
  BY <1>3, <1>6, <1>7, <1>8, <1>9, <1>10, <1>11 DEF Inv

(* A call that ends gives back what it owned; the last one starts a commit *)
(* with nobody else active.                                                *)
LEMMA EndOpInv ==
  ASSUME Inv, NEW p \in Proc, EndOp(p)
  PROVE  Inv'
<1> USE DEF EndOp, disk
<1>0. p # Boot /\ p \in Active /\ pc[Boot] = "idle"
  BY ConstantsAssumption DEF Inv, Control, Active, InOp
<1>1. ~committing /\ \A q \in Proc : pc[q] \notin InCommit
  BY <1>0 DEF Inv, Control
<1>2. /\ Active \in SUBSET Proc /\ IsFiniteSet(Active)
      /\ outstanding = Cardinality(Active) /\ outstanding \in Nat
      /\ Cardinality(Active \ {p}) = outstanding - 1 /\ outstanding # 0
      /\ Cardinality(Active \ {p}) \in Nat
  <2>1. Active \in SUBSET Proc
    BY DEF Active
  <2>2. /\ IsFiniteSet(Active) /\ outstanding = Cardinality(Active)
        /\ outstanding \in Nat
    BY <2>1, FreeBound DEF Inv, Count
  <2>3. IsFiniteSet(Active \ {p}) /\ Cardinality(Active \ {p}) = outstanding - 1
    BY <1>0, <2>2, FS_RemoveElement
  <2>4. Cardinality(Active \ {p}) \in Nat
    BY <2>3, FS_CardinalityType
  <2>5. QED
    BY <2>1, <2>2, <2>3, <2>4
<1>3. /\ pc' \in [Thread -> PC] /\ pc'[Boot] = "idle"
      /\ \A q \in Proc : q # p => pc'[q] \in InOp <=> pc[q] \in InOp
      /\ \A q \in Proc : q # p => pc'[q] \notin InCommit
      /\ \A q \in Proc : q # p /\ pc'[q] \in {"held", "logging"} => pc[q] = pc'[q]
      /\ \A q \in Proc : q # p => pc'[q] # "read_head"
      /\ pc'[p] \in {"idle", "done", "write_log"}
      /\ pc'[p] # "idle" <=> outstanding - 1 = 0
      /\ pc'[p] = "write_log" => lh # <<>> /\ tail' = 0
      /\ pc'[p] = "done" => lh = <<>>
  <2>1. CASE outstanding - 1 = 0
    BY <1>0, <1>1, <2>1 DEF Inv, Control, TypeOK, PC, Thread, InOp, InCommit
  <2>2. CASE outstanding - 1 # 0
    BY <1>0, <1>1, <2>2
    DEF Inv, Control, TypeOK, PC, Thread, InOp, InCommit, WakeUp
  <2>3. QED
    BY <2>1, <2>2
<1>4. Active' = Active \ {p}
  BY <1>3 DEF Active, InOp
<1>5. TypeOK'
  BY <1>2, <1>3 DEF Inv, TypeOK
<1>6. Count'
  BY <1>2, <1>4 DEF Count
<1>7. Control'
  <2>1. CASE outstanding - 1 = 0
    <3>1. Active' = {}
      BY <1>2, <1>4, <2>1, FS_EmptySet, FS_RemoveElement
    <3>2. QED
      BY <1>1, <1>3, <2>1, <3>1 DEF Control, InCommit
  <2>2. CASE outstanding - 1 # 0
    BY <1>1, <1>3, <2>2 DEF Control, InCommit
  <2>3. QED
    BY <2>1, <2>2
<1>8. Loops'
  <2>1. ASSUME NEW t \in Thread, pc'[t] \in {"write_log", "install"}
        PROVE  t = p /\ pc'[p] = "write_log"
    BY <1>3, <2>1 DEF Thread, InCommit
  <2>2. lh # <<>> /\ lh \in Seq(Block) => 0 < Len(lh)
    OBVIOUS
  <2>3. \A q \in Proc : pc'[q] # "write_head"
    BY <1>3 DEF InCommit
  <2>4. QED
    BY <1>3, <2>1, <2>2, <2>3 DEF Loops, Inv, TypeOK
<1>9. Budget'
  <2>1. Logged' = Logged
    BY DEF Logged
  <2>2. QED
    BY <1>3, <1>4, <2>1 DEF Inv, Budget
<1>10. Space'
  <2>1. /\ Cardinality(Free(Active \ {p}, wrote))
             <= Cardinality(Free(Active, wrote))
        /\ Cardinality(Free(Active, wrote)) \in Nat
        /\ Cardinality(Free(Active \ {p}, wrote)) \in Nat
    BY <1>2, FreeMonotone, FreeBound
  <2>2. Len(lh) \in Nat /\ LogSize \in Nat
    BY ConstantsAssumption DEF Inv, TypeOK
  <2>3. QED
    BY <1>4, <2>1, <2>2 DEF Inv, Space, Short
<1>11. Empty'
  BY <1>2, <1>3 DEF Empty, InCommit
<1>12. QED
  BY <1>5, <1>6, <1>7, <1>8, <1>9, <1>10, <1>11 DEF Inv

(* The steps of a commit leave the accounting alone.                       *)
LEMMA WriteLogInv ==
  ASSUME Inv, NEW p \in Proc, WriteLog(p)
  PROVE  Inv'
<1> USE DEF WriteLog, disk
<1>0. p # Boot /\ tail < Len(lh) /\ tail \in Nat /\ lh \in Seq(Block)
  BY ConstantsAssumption DEF Inv, TypeOK, Loops, Thread
<1>1. Len(lh) <= LogSize /\ LogSize \in Nat /\ Len(lh) \in Nat
  BY <1>0, ConstantsAssumption DEF Inv, Space, Short
<1>2. lh[tail + 1] \in Block /\ tail + 1 \in 1 .. LogSize
  BY <1>0, <1>1
<1>3. Bread(lh[tail + 1]) \in Val
  BY <1>2 DEF Bread, Inv, TypeOK
<1>4. TypeOK'
  BY <1>0, <1>2, <1>3 DEF Inv, TypeOK, PC, InCommit, Thread
<1>5. Active' = Active
  BY DEF Inv, TypeOK, Thread, Active, InOp
<1>6. Control'
  BY <1>0, <1>5 DEF Inv, TypeOK, Control, InCommit, Thread
<1>7. Loops'
  <2>1. ASSUME NEW t \in Thread, pc'[t] \in {"write_log", "install"}
        PROVE  t = p /\ tail + 1 # Len(lh)
    BY <2>1 DEF Inv, TypeOK, Control, InCommit, Thread
  <2>2. QED
    BY <1>0, <1>1, <2>1 DEF Loops
<1>8. Budget'
  BY <1>5, BudgetFrame DEF Inv, TypeOK, Thread
<1>9. Count' /\ Space'
  BY <1>5, Frame DEF Inv
<1>10. Empty'
  BY <1>0 DEF Inv, Empty, TypeOK, Thread
<1>11. QED
  BY <1>4, <1>6, <1>7, <1>8, <1>9, <1>10 DEF Inv

LEMMA WriteHeadInv ==
  ASSUME Inv, NEW p \in Proc, WriteHead(p)
  PROVE  Inv'
<1> USE DEF WriteHead, disk
<1>0. p # Boot /\ lh # <<>> /\ lh \in Seq(Block)
  BY ConstantsAssumption DEF Inv, Loops, TypeOK
<1>1. TypeOK'
  BY DEF Inv, TypeOK, PC, InCommit, Thread
<1>2. Active' = Active
  BY DEF Inv, TypeOK, Thread, Active, InOp
<1>3. Control'
  BY <1>0, <1>2 DEF Inv, TypeOK, Control, InCommit, Thread
<1>4. Loops'
  <2>1. 0 < Len(lh)
    BY <1>0
  <2>2. QED
    BY <1>0, <2>1 DEF Inv, TypeOK, Control, Loops, InCommit, Thread
<1>5. Budget'
  BY <1>2, BudgetFrame DEF Inv, TypeOK, Thread
<1>6. Count'
  BY <1>2 DEF Inv, Count
<1>7. Space'
  BY <1>2 DEF Inv, Space, Short, Free
<1>8. Empty'
  BY <1>0 DEF Inv, Empty, TypeOK, Thread
<1>9. QED
  BY <1>1, <1>3, <1>4, <1>5, <1>6, <1>7, <1>8 DEF Inv

LEMMA InstallInv ==
  ASSUME Inv, NEW t \in Thread, Install(t)
  PROVE  Inv'
<1> USE DEF Install, disk
<1>0. tail < Len(lh) /\ tail \in Nat /\ lh \in Seq(Block)
  BY DEF Inv, TypeOK, Loops, Thread
<1>1. Len(lh) <= LogSize /\ LogSize \in Nat /\ Len(lh) \in Nat
  BY <1>0, ConstantsAssumption DEF Inv, Space, Short
<1>2. lh[tail + 1] \in Block /\ slot[tail + 1] \in Val
  BY <1>0, <1>1 DEF Inv, TypeOK
<1>3. TypeOK'
  BY <1>0, <1>2 DEF Inv, TypeOK, PC, InCommit, Thread
<1>4. Active' = Active
  BY DEF Inv, TypeOK, Thread, Active, InOp
<1>5. Control'
  BY <1>0, <1>4, ConstantsAssumption
  DEF Inv, TypeOK, Control, InCommit, Thread
<1>6. Loops'
  <2>1. ASSUME NEW u \in Thread, pc'[u] \in {"write_log", "install"}
        PROVE  tail + 1 # Len(lh)
    BY <2>1, ConstantsAssumption
    DEF Inv, TypeOK, Control, InCommit, Thread
  <2>2. ASSUME NEW p \in Proc, pc'[p] = "write_head" PROVE lh # <<>>
    BY <2>2 DEF Inv, TypeOK, Loops, Thread
  <2>3. QED
    BY <1>0, <1>1, <2>1, <2>2 DEF Loops
<1>7. Budget'
  BY <1>4, BudgetFrame DEF Inv, TypeOK, Thread
<1>8. Count' /\ Space'
  BY <1>4, Frame DEF Inv
<1>9. Empty'
  BY <1>0 DEF Inv, Empty, TypeOK, Thread
<1>10. QED
  BY <1>3, <1>5, <1>6, <1>7, <1>8, <1>9 DEF Inv

LEMMA EraseInv ==
  ASSUME Inv, NEW t \in Thread, Erase(t)
  PROVE  Inv'
<1> USE DEF Erase, disk
<1>0. Active = {} /\ Active' = {}
  BY ConstantsAssumption
  DEF Inv, TypeOK, Control, Active, InOp, InCommit, Thread
<1>1. <<>> \in Seq(Block) /\ Len(<<>>) = 0
  OBVIOUS
<1>2. TypeOK'
  BY <1>1 DEF Inv, TypeOK, PC, InCommit, Thread
<1>3. Control'
  BY <1>0, ConstantsAssumption DEF Inv, TypeOK, Control, InCommit, Thread
<1>4. Loops'
  BY ConstantsAssumption DEF Inv, TypeOK, Control, Loops, InCommit, Thread
<1>5. Budget'
  BY <1>0 DEF Inv, Budget, TypeOK, Thread
<1>6. Count'
  BY <1>0 DEF Inv, Count
<1>7. Space'
  <2>1. Free({}, wrote) = {}
    BY DEF Free
  <2>2. Cardinality(Free(Active', wrote')) = 0
    BY <1>0, <2>1, FS_EmptySet
  <2>3. QED
    BY <1>1, <2>2, ConstantsAssumption DEF Space, Short
<1>8. Empty'
  BY DEF Empty
<1>9. QED
  BY <1>2, <1>3, <1>4, <1>5, <1>6, <1>7, <1>8 DEF Inv

LEMMA CommitDoneInv ==
  ASSUME Inv, NEW p \in Proc, CommitDone(p)
  PROVE  Inv'
<1> USE DEF CommitDone, disk
<1>0. p # Boot /\ pc[Boot] = "idle" /\ lh = <<>> /\ committing
  BY ConstantsAssumption DEF Inv, Control, Empty, InCommit
<1>1. /\ pc' \in [Thread -> PC] /\ pc'[Boot] = "idle" /\ pc'[p] = "idle"
      /\ \A q \in Proc : pc'[q] \in {"idle", "begin"} \cup InOp
      /\ \A q \in Proc : pc'[q] \in InOp => pc[q] = pc'[q]
      /\ \A q \in Proc : pc[q] \in InOp => pc[q] = pc'[q]
  BY <1>0
  DEF Inv, Control, TypeOK, PC, Thread, InOp, InCommit, WakeUp
<1>2. Active' = Active
  BY <1>1 DEF Active
<1>3. TypeOK'
  BY <1>1 DEF Inv, TypeOK
<1>4. Control'
  BY <1>1 DEF Control, InOp, InCommit
<1>5. Loops'
  BY <1>1 DEF Loops, Thread, InOp
<1>6. Budget'
  BY <1>1, <1>2, BudgetFrame DEF Inv, InOp
<1>7. Count' /\ Space'
  BY <1>2, Frame DEF Inv
<1>8. Empty'
  BY <1>0 DEF Empty
<1>9. QED
  BY <1>3, <1>4, <1>5, <1>6, <1>7, <1>8 DEF Inv

(* Load(b), Recycle(b) and ReadHead touch no process.                      *)
LEMMA CacheInv ==
  ASSUME Inv, NEW b \in Block, Load(b) \/ Recycle(b)
  PROVE  Inv'
<1> USE DEF Load, Recycle, disk
<1>1. TypeOK'
  BY DEF Inv, TypeOK
<1>2. Active' = Active
  BY DEF Active
<1>3. Control' /\ Loops' /\ Empty'
  BY <1>2 DEF Inv, Control, Loops, Empty
<1>4. Budget'
  BY <1>2, BudgetFrame DEF Inv
<1>5. Count' /\ Space'
  BY <1>2, Frame DEF Inv
<1>6. QED
  BY <1>1, <1>3, <1>4, <1>5 DEF Inv

LEMMA ReadHeadInv ==
  ASSUME Inv, ReadHead
  PROVE  Inv'
<1> USE DEF ReadHead, disk
<1>0. Active = {} /\ Active' = {} /\ \A p \in Proc : pc'[p] = "idle"
  BY ConstantsAssumption DEF Inv, TypeOK, Control, Active, InOp, Thread
<1>1. head \in Seq(Block) /\ (head # <<>> => 0 < Len(head))
  BY DEF Inv, TypeOK
<1>2. TypeOK'
  BY DEF Inv, TypeOK, PC, InCommit, Thread
<1>3. Control'
  BY <1>0, ConstantsAssumption DEF Inv, TypeOK, Control, InCommit, Thread
<1>4. Loops'
  BY <1>0, <1>1, ConstantsAssumption DEF Inv, TypeOK, Loops, Thread
<1>5. Budget'
  BY <1>0 DEF Inv, Budget
<1>6. Count'
  BY <1>0 DEF Inv, Count
<1>7. Space'
  <2>1. Free({}, wrote) = {}
    BY DEF Free
  <2>2. Cardinality(Free(Active', wrote')) = 0
    BY <1>0, <2>1, FS_EmptySet
  <2>3. QED
    BY <1>1, <2>2, ConstantsAssumption DEF Inv, Space, Short
<1>8. Empty'
  BY <1>0, ConstantsAssumption DEF Inv, TypeOK, Empty, Thread
<1>9. QED
  BY <1>2, <1>3, <1>4, <1>5, <1>6, <1>7, <1>8 DEF Inv

LEMMA CrashInv ==
  ASSUME Inv, Crash
  PROVE  Inv'
<1> USE DEF Crash, PowerOn, disk
<1>1. Active' = {}
  BY ConstantsAssumption DEF Active, InOp, Thread
<1>2. Cardinality({}) = 0 /\ IsFiniteSet({}) /\ Cardinality(Free({}, wrote')) = 0
  BY FS_EmptySet DEF Free
<1>3. TypeOK'
  <2>1. lh' \in Seq(Block)
    OBVIOUS
  <2>2. pc' \in [Thread -> PC]
    BY DEF PC
  <2>3. QED
    BY <2>1, <2>2 DEF Inv, TypeOK
<1>4. Control' /\ Loops'
  BY <1>1, ConstantsAssumption DEF Control, Loops, InCommit, Thread
<1>5. Budget' /\ Count' /\ Space' /\ Empty'
  BY <1>1, <1>2, ConstantsAssumption
  DEF Inv, Budget, Count, Space, Short, Empty, Thread
<1>6. QED
  BY <1>3, <1>4, <1>5 DEF Inv

LEMMA StepInv == Inv /\ [Next]_vars => Inv'
<1> SUFFICES ASSUME Inv, [Next]_vars PROVE Inv'
  OBVIOUS
<1>1. ASSUME NEW p \in Proc, ProcStep(p) PROVE Inv'
  BY <1>1, CallBeginOpInv, BeginOpInv, LogCheckInv, LogWriteInv, EndOpInv,
     WriteLogInv, WriteHeadInv, CommitDoneInv DEF ProcStep
<1>2. CASE UNCHANGED vars
  <2>1. Active' = Active /\ Logged' = Logged
    BY <1>2 DEF vars, Active, Logged
  <2>2. QED
    BY <1>2, <2>1
    DEF vars, Inv, TypeOK, Control, Loops, Budget, Count, Space, Short, Free,
        Empty
<1>3. QED
  BY <1>1, <1>2, ModifyInv, InstallInv, EraseInv, CacheInv, ReadHeadInv,
     CrashInv DEF Next

THEOREM Invariance == Spec => []Inv
BY InitInv, StepInv, PTL DEF Spec

-----------------------------------------------------------------------------
(* Consequences.                                                           *)

(* Every variable of log.c keeps its type, whatever the constants.         *)
THEOREM TypeCorrect == Spec => []TypeOK
BY Invariance, PTL DEF Inv

(* A commit never overlaps a system call that is inside a transaction, and *)
(* a single process runs commit().                                         *)
THEOREM Exclusion == Spec => []CommitExclusion
<1>1. Inv => CommitExclusion
  <2> SUFFICES ASSUME Inv, committing PROVE CommitExclusion
    BY DEF CommitExclusion
  <2>1. PICK p \in Proc : pc[p] \in InCommit
    BY DEF Inv, Control
  <2>2. {q \in Proc : pc[q] \in InCommit} = {p}
    BY <2>1 DEF Inv, Control
  <2>3. QED
    BY <2>2, FS_Singleton DEF Inv, Control, CommitExclusion
<1>2. QED
  BY <1>1, Invariance, PTL

(* Calls leave some of what begin_op() reserves unused: one block when the *)
(* log has room for LOGSIZE data blocks, two when, as mkfs makes it, its   *)
(* LOGSIZE blocks include the header.                                      *)
Slack == LogSize + OpBlocks < MaxOpBlocks + NLog - 1 /\ OpBlocks < MaxOpBlocks

(* With that slack log_write() never panics, although it checks the log    *)
(* size and the number of calls before it takes log.lock, and neither does *)
(* end_op().                                                               *)
THEOREM NeverPanics == ASSUME Slack PROVE Spec => []NoPanic
<1>0. /\ OpBlocks \in Nat /\ MaxOpBlocks \in Nat /\ LogSize \in Nat
      /\ NLog \in Nat
  BY ConstantsAssumption
<1>1. Init => NoPanic
  BY DEF Init, PowerOn, NoPanic
<1>2. Inv /\ NoPanic /\ [Next]_vars => NoPanic'
  <2> SUFFICES ASSUME Inv, NoPanic, [Next]_vars PROVE NoPanic'
    OBVIOUS
  <2>1. ASSUME NEW p \in Proc, LogCheck(p) PROVE NoPanic'
    <3>1. p \in Active /\ Active \in SUBSET Proc
      BY <2>1 DEF LogCheck, Active, InOp
    <3>2. /\ Cardinality(Free(Active, wrote)) \in Nat
          /\ outstanding \in Nat /\ outstanding # 0
      BY <3>1, FreeBound, FS_EmptySet DEF Inv, Count
    <3>3. Cardinality(wrote[p]) \in Nat /\ Cardinality(wrote[p]) <= OpBlocks
      BY <3>1, FS_CardinalityType DEF Inv, Budget
    <3>4. MaxOpBlocks - OpBlocks <= Cardinality(Free(Active, wrote))
      BY <3>1, <3>3, FreeShare
    <3>5. Len(lh) + (MaxOpBlocks - OpBlocks) <= LogSize /\ Len(lh) \in Nat
      BY <1>0, <3>2, <3>4 DEF Inv, Space, TypeOK
    <3>6. Len(lh) < LogSize /\ Len(lh) < NLog - 1
      BY <1>0, <3>5 DEF Slack
    <3>7. QED
      BY <1>0, <2>1, <3>2, <3>5, <3>6 DEF LogCheck, NoPanic
  <2>2. ASSUME NEW p \in Proc, EndOp(p) PROVE NoPanic'
    BY <2>2 DEF EndOp, NoPanic, Inv, Control, Active, InOp
  <2>3. ASSUME NEW p \in Proc, ProcStep(p) PROVE NoPanic'
    BY <2>1, <2>2, <2>3
    DEF ProcStep, CallBeginOp, BeginOp, LogWrite, WriteLog, WriteHead,
        CommitDone, NoPanic
  <2>4. QED
    BY <2>3
    DEF Next, Modify, Install, Erase, Load, Recycle, ReadHead, Crash, PowerOn,
        NoPanic, vars
<1>3. QED
  BY <1>1, <1>2, Invariance, PTL DEF Spec

(* With that slack the log never outgrows its region of the disk.          *)
THEOREM NeverOverruns == ASSUME Slack PROVE Spec => []LogFits
<1>1. Inv => LogFits
  <2>1. /\ OpBlocks \in Nat /\ MaxOpBlocks \in Nat /\ LogSize \in Nat
        /\ NLog \in Nat \ {0}
    BY ConstantsAssumption
  <2>2. Inv => Len(lh) \in Nat /\ (lh = <<>> => Len(lh) = 0)
    BY DEF Inv, TypeOK
  <2>3. QED
    BY <2>1, <2>2 DEF Inv, Space, Short, Slack, LogFits
<1>2. QED
  BY <1>1, Invariance, PTL

(* No wakeup is lost: who sleeps in begin_op() has somebody to wake it up. *)
THEOREM NoLostWakeup == Spec => []SleeperHasWaker
<1>1. Init => SleeperHasWaker
  BY DEF Init, PowerOn, SleeperHasWaker, Thread
<1>2. Inv /\ SleeperHasWaker /\ [Next]_vars => SleeperHasWaker'
  <2> SUFFICES ASSUME Inv, SleeperHasWaker, [Next]_vars PROVE SleeperHasWaker'
    OBVIOUS
  <2> USE DEF SleeperHasWaker
  <2>0. outstanding \in Nat /\ pc \in [Thread -> PC] /\ Proc \subseteq Thread
    BY DEF Inv, TypeOK, Thread
  <2>1. ASSUME NEW p \in Proc, BeginOp(p) PROVE SleeperHasWaker'
    <3>1. CASE MustWait
      <4>1. pc[Boot] = "idle"
        BY <2>1 DEF BeginOp, Inv, Control
      <4>2. Len(<<>>) = 0 /\ (0 + 1) * MaxOpBlocks = MaxOpBlocks
        BY ConstantsAssumption
      <4>3. committing \/ outstanding > 0
        BY <2>0, <3>1, <4>1, <4>2, ConstantsAssumption
        DEF Inv, Empty, MustWait
      <4>4. QED
        BY <2>1, <3>1, <4>3 DEF BeginOp
    <3>2. CASE ~MustWait
      BY <2>0, <2>1, <3>2 DEF BeginOp
    <3>3. QED
      BY <3>1, <3>2
  <2>2. ASSUME NEW p \in Proc, EndOp(p) PROVE SleeperHasWaker'
    BY <2>0, <2>2 DEF EndOp, WakeUp
  <2>3. ASSUME NEW p \in Proc, CommitDone(p) PROVE SleeperHasWaker'
    BY <2>0, <2>3 DEF CommitDone, WakeUp
  <2>4. ASSUME NEW p \in Proc, ProcStep(p) PROVE SleeperHasWaker'
    BY <2>0, <2>1, <2>2, <2>3, <2>4
    DEF ProcStep, CallBeginOp, LogCheck, LogWrite, WriteLog, WriteHead
  <2>5. ASSUME NEW p \in Proc, NEW b \in Block, NEW v \in Val, Modify(p, b, v)
        PROVE  SleeperHasWaker'
    BY <2>0, <2>5 DEF Modify
  <2>6. ASSUME NEW t \in Thread, Install(t) \/ Erase(t) PROVE SleeperHasWaker'
    BY <2>0, <2>6 DEF Install, Erase
  <2>7. ASSUME NEW b \in Block, Load(b) \/ Recycle(b) PROVE SleeperHasWaker'
    BY <2>7 DEF Load, Recycle
  <2>8. ASSUME ReadHead \/ Crash PROVE SleeperHasWaker'
    BY <2>0, <2>8 DEF ReadHead, Crash, PowerOn
  <2>9. QED
    BY <2>4, <2>5, <2>6, <2>7, <2>8 DEF Next, vars
<1>3. QED
  BY <1>1, <1>2, Invariance, PTL DEF Spec
-----------------------------------------------------------------------------
(* The redo log implements the atomic disk.  The accounting above says     *)
(* nothing of contents: what is needed is where the copies of a block -    *)
(* cached, in the log, at home - must agree, at each control point.        *)

Apart(s) == \A i, j \in DOMAIN s : s[i] = s[j] => i = j

(* Absorption: no block has two entries, in memory or on the disk.         *)
NoRepeat == Apart(lh) /\ Apart(head)

(* The header names blocks only until it is erased, by the commit or the   *)
(* recovery whose list it is.                                              *)
Committed ==
  /\ head # <<>> => \/ pc[Boot] = "read_head"
                    \/ \E t \in Thread : pc[t] \in {"install", "erase"}
  /\ \A t \in Thread : pc[t] \in {"install", "erase"} => head = lh

(* install_trans() has copied the entries below tail to their homes.       *)
Installed ==
  \A t \in Thread : \A i \in DOMAIN lh :
    pc[t] = "erase" \/ (pc[t] = "install" /\ i <= tail)
      => home[lh[i]] = slot[i]

(* write_log() has copied the entries below tail from the cache, and no    *)
(* call has changed them since.                                            *)
Copied ==
  \A p \in Proc : \A i \in DOMAIN lh :
    pc[p] \in {"write_head", "install", "erase"}
      \/ (pc[p] = "write_log" /\ i <= tail)
      => slot[i] = Bread(lh[i])

(* A buffer that bget() may recycle holds what the disk holds.             *)
Clean == \A b \in Block : b \in dirty \/ Locked(b) \/ Bread(b) = home[b]

(* A buffer is pinned only while its block has to be installed.            *)
Pinned ==
  /\ dirty \subseteq Logged
  /\ pc[Boot] # "idle" => dirty = {}
  /\ \A t \in Thread : \A i \in DOMAIN lh :
       pc[t] = "erase" \/ (pc[t] = "install" /\ i <= tail) => lh[i] \notin dirty

Data == NoRepeat /\ Committed /\ Installed /\ Copied /\ Clean /\ Pinned

Copying == {"write_log", "write_head", "install", "erase"}

(* A step that touches no block and does not enter or leave the commit.    *)
LEMMA DataFrame ==
  ASSUME Data, home' = home, slot' = slot, head' = head, cache' = cache,
         dirty' = dirty, lh' = lh, tail' = tail, pc'[Boot] = pc[Boot],
         \A t \in Thread : pc[t] \in Copying \/ pc'[t] \in Copying
                           => pc'[t] = pc[t],
         \A b \in Block : Locked(b) => Locked(b)'
  PROVE  Data'
<1> USE DEF Data, Copying
<1>1. NoRepeat'
  BY DEF NoRepeat, Apart
<1>2. Committed'
  BY DEF Committed
<1>3. Installed'
  BY DEF Installed
<1>4. Copied'
  BY DEF Copied, Bread, Thread
<1>5. Clean'
  BY DEF Clean, Bread
<1>6. Pinned'
  BY DEF Pinned, Logged
<1>7. QED
  BY <1>1, <1>2, <1>3, <1>4, <1>5, <1>6

LEMMA InitData == Init => Data
<1> SUFFICES ASSUME Init PROVE Data
  OBVIOUS
<1> USE DEF Init, PowerOn
<1>1. \A t \in Thread : pc[t] \notin Copying
  BY DEF Copying
<1>2. lh = <<>> /\ head = <<>> /\ DOMAIN lh = {}
  OBVIOUS
<1>3. QED
  BY <1>1, <1>2
  DEF Data, NoRepeat, Apart, Committed, Installed, Copied, Clean, Bread,
      Pinned, Copying, Thread

(* While a call is active or nobody commits, no thread copies blocks.      *)
LEMMA NobodyCopies ==
  ASSUME Inv, pc[Boot] = "idle", ~committing
  PROVE  \A t \in Thread : pc[t] \notin Copying
BY DEF Inv, Control, Copying, InCommit, Thread

LEMMA ActiveIdle ==
  ASSUME Inv, NEW p \in Proc, pc[p] \in InOp \/ pc[p] \in {"begin", "sleep"}
  PROVE  /\ p # Boot /\ pc[Boot] = "idle"
         /\ pc[p] \in InOp => ~committing
BY ConstantsAssumption DEF Inv, Control, Active, InOp

LEMMA QuietData ==
  ASSUME Inv, Data, NEW p \in Proc,
         CallBeginOp(p) \/ BeginOp(p) \/ LogCheck(p) \/ CommitDone(p)
  PROVE  Data'
<1> USE DEF disk
<1>0. pc \in [Thread -> PC] /\ Proc \subseteq Thread /\ Boot \in Thread
      /\ p # Boot
  BY ConstantsAssumption DEF Inv, TypeOK, Thread
<1>1. /\ home' = home /\ slot' = slot /\ head' = head /\ cache' = cache
      /\ dirty' = dirty /\ lh' = lh /\ tail' = tail /\ blk' = blk
  BY DEF CallBeginOp, BeginOp, LogCheck, CommitDone
<1>2. \A t \in Thread : pc[t] \in Copying \/ pc'[t] \in Copying
                        => pc'[t] = pc[t]
  BY <1>0 DEF CallBeginOp, BeginOp, LogCheck, CommitDone, WakeUp, Copying
<1>3. pc'[Boot] = pc[Boot]
  BY <1>0
  DEF CallBeginOp, BeginOp, LogCheck, CommitDone, WakeUp, Inv, Control
<1>4. \A b \in Block : Locked(b) => Locked(b)'
  <2>1. \A q \in Proc : pc[q] \in {"held", "logging"}
                        => pc'[q] \in {"held", "logging"}
    BY <1>0 DEF CallBeginOp, BeginOp, LogCheck, CommitDone, WakeUp
  <2>2. QED
    BY <1>1, <2>1 DEF Locked
<1>5. QED
  BY <1>1, <1>2, <1>3, <1>4, DataFrame

LEMMA ModifyData ==
  ASSUME Inv, Data, NEW p \in Proc, NEW b \in Block, NEW v \in Val,
         Modify(p, b, v)
  PROVE  Data'
<1> USE DEF Modify, disk
<1>0. /\ p # Boot /\ pc[Boot] = "idle" /\ ~committing
      /\ pc \in [Thread -> PC] /\ Proc \subseteq Thread /\ Boot \in Thread
      /\ blk \in [Proc -> Block \cup {NoBlock}]
      /\ cache \in [Block -> Val \cup {NoVal}]
  BY ActiveIdle DEF InOp, Inv, TypeOK, Thread
<1>1. /\ \A t \in Thread : pc[t] \notin Copying /\ pc'[t] \notin Copying
      /\ pc'[Boot] = "idle"
  BY <1>0, NobodyCopies DEF Copying
<1>2. NoRepeat' /\ Committed' /\ Installed' /\ Copied' /\ Pinned'
  BY <1>0, <1>1
  DEF Data, NoRepeat, Apart, Committed, Installed, Copied, Pinned, Logged,
      Copying
<1>3. Clean'
  <2>1. pc'[p] = "held" /\ blk'[p] = b
    BY <1>0
  <2>2. ASSUME NEW c \in Block, c # b, Locked(c) PROVE Locked(c)'
    <3>1. PICK q \in Proc : pc[q] \in {"held", "logging"} /\ blk[q] = c
      BY <2>2 DEF Locked
    <3>2. q # p
      BY <3>1
    <3>3. QED
      BY <1>0, <3>1, <3>2 DEF Locked
  <2>3. \A c \in Block : c # b => Bread(c)' = Bread(c)
    BY <1>0 DEF Bread
  <2>4. QED
    BY <2>1, <2>2, <2>3 DEF Data, Clean, Locked
<1>4. QED
  BY <1>2, <1>3 DEF Data

LEMMA LogWriteData ==
  ASSUME Inv, Data, NEW p \in Proc, LogWrite(p)
  PROVE  Data'
<1> DEFINE b == blk[p]
<1> USE DEF LogWrite, disk
<1>0. /\ p # Boot /\ pc[Boot] = "idle" /\ ~committing /\ b \in Block
      /\ pc \in [Thread -> PC] /\ Proc \subseteq Thread /\ Boot \in Thread
      /\ blk \in [Proc -> Block \cup {NoBlock}] /\ lh \in Seq(Block)
  BY ActiveIdle DEF InOp, Inv, TypeOK, Thread, Budget
<1>1. /\ \A t \in Thread : pc[t] \notin Copying /\ pc'[t] \notin Copying
      /\ pc'[Boot] = "idle"
  BY <1>0, NobodyCopies DEF Copying
<1>2. Apart(lh') /\ Logged' = Logged \cup {b}
  <2>1. CASE b \in Logged
    BY <2>1 DEF Data, NoRepeat, Apart, Logged
  <2>2. CASE b \notin Logged
    <3>1. /\ Len(lh') = Len(lh) + 1 /\ Len(lh) \in Nat
          /\ DOMAIN lh = 1 .. Len(lh) /\ DOMAIN lh' = 1 .. Len(lh')
          /\ lh'[Len(lh) + 1] = b /\ \A i \in 1 .. Len(lh) : lh'[i] = lh[i]
      BY <1>0, <2>2
    <3>2. \A i \in 1 .. Len(lh) : lh[i] # b
      BY <2>2, <3>1 DEF Logged
    <3>3. QED
      BY <3>1, <3>2 DEF Data, NoRepeat, Apart, Logged
  <2>3. QED
    BY <2>1, <2>2
<1>3. NoRepeat' /\ Committed' /\ Installed' /\ Copied' /\ Pinned'
  BY <1>0, <1>1, <1>2
  DEF Data, NoRepeat, Apart, Committed, Installed, Copied, Pinned, Copying
<1>4. Clean'
  <2>1. ASSUME NEW c \in Block, c # b, Locked(c) PROVE Locked(c)'
    <3>1. PICK q \in Proc : pc[q] \in {"held", "logging"} /\ blk[q] = c
      BY <2>1 DEF Locked
    <3>2. q # p
      BY <2>1, <3>1
    <3>3. QED
      BY <1>0, <3>1, <3>2 DEF Locked
  <2>2. \A c \in Block : Bread(c)' = Bread(c)
    BY DEF Bread
  <2>3. QED
    BY <2>1, <2>2 DEF Data, Clean
<1>5. QED
  BY <1>3, <1>4 DEF Data

LEMMA EndOpData ==
  ASSUME Inv, Data, NEW p \in Proc, EndOp(p)
  PROVE  Data'
<1> USE DEF EndOp, disk
<1>0. /\ p # Boot /\ pc[Boot] = "idle" /\ ~committing
      /\ pc \in [Thread -> PC] /\ Proc \subseteq Thread /\ Boot \in Thread
      /\ lh \in Seq(Block)
  BY ActiveIdle DEF InOp, Inv, TypeOK, Thread
<1>1. \A t \in Thread : pc[t] \notin Copying
  BY <1>0, NobodyCopies
<1>2. /\ pc'[Boot] = "idle"
      /\ \A t \in Thread : pc'[t] \notin {"write_head", "install", "erase"}
      /\ \A t \in Thread : pc'[t] = "write_log" => tail' = 0
  BY <1>0, <1>1 DEF WakeUp, Copying
<1>3. NoRepeat' /\ Committed' /\ Installed' /\ Pinned'
  BY <1>0, <1>1, <1>2
  DEF Data, NoRepeat, Apart, Committed, Installed, Pinned, Logged, Copying
<1>4. Copied'
  <2>1. \A i \in DOMAIN lh : i \in Nat \ {0}
    BY <1>0
  <2>2. QED
    BY <1>0, <1>2, <2>1 DEF Copied
<1>5. Clean'
  <2>1. \A q \in Proc : pc[q] \in {"held", "logging"} => pc'[q] = pc[q]
    BY <1>0 DEF WakeUp
  <2>2. QED
    BY <2>1 DEF Data, Clean, Locked, Bread
<1>6. QED
  BY <1>3, <1>4, <1>5 DEF Data

(* During a commit no call is active, so no buffer is locked, and one      *)
(* process alone is at a control point of commit().                        *)
LEMMA OnlyCommitter ==
  ASSUME Inv, NEW p \in Proc, pc[p] \in InCommit
  PROVE  /\ p # Boot /\ pc[Boot] = "idle" /\ committing /\ Active = {}
         /\ \A b \in Block : ~Locked(b)
         /\ \A t \in Thread : t # p => pc[t] \notin Copying
<1>1. /\ p # Boot /\ pc[Boot] = "idle" /\ committing /\ Active = {}
      /\ \A q \in Proc : pc[q] \in InCommit => q = p
  BY ConstantsAssumption DEF Inv, Control, InCommit
<1>2. \A b \in Block : ~Locked(b)
  BY <1>1 DEF Active, InOp, Locked
<1>3. \A t \in Thread : t # p => pc[t] \notin Copying
  BY <1>1 DEF Thread, Copying, InCommit
<1>4. QED
  BY <1>1, <1>2, <1>3

LEMMA WriteLogData ==
  ASSUME Inv, Data, NEW p \in Proc, WriteLog(p)
  PROVE  Data'
<1> USE DEF WriteLog, disk
<1>0. /\ pc \in [Thread -> PC] /\ Proc \subseteq Thread /\ p \in Thread
      /\ lh \in Seq(Block) /\ tail \in Nat /\ tail < Len(lh)
      /\ cache \in [Block -> Val \cup {NoVal}]
      /\ slot \in [1 .. LogSize -> Val] /\ Len(lh) <= LogSize /\ LogSize \in Nat
  <2>1. pc[p] = "write_log" /\ Cardinality(Free(Active, wrote)) \in Nat
    BY FreeBound DEF Active
  <2>2. QED
    BY <2>1, ConstantsAssumption DEF Inv, TypeOK, Thread, Loops, Space
<1>1. /\ pc[Boot] = "idle" /\ p # Boot
      /\ \A t \in Thread : t # p => pc[t] \notin Copying /\ pc'[t] = pc[t]
      /\ \A b \in Block : ~Locked(b)
  BY <1>0, OnlyCommitter DEF InCommit
<1>2. /\ pc'[p] = IF tail + 1 = Len(lh) THEN "write_head" ELSE "write_log"
      /\ pc'[Boot] = "idle"
  BY <1>0, <1>1
<1>3. \A b \in Block : Bread(b)' = Bread(b)
  BY <1>0 DEF Bread
<1>4. NoRepeat'
  BY DEF Data, NoRepeat, Apart
<1>5. head = <<>>
  BY <1>0, <1>1 DEF Data, Committed, Copying
<1>6. Committed' /\ Installed' /\ Pinned'
  BY <1>0, <1>1, <1>2, <1>5
  DEF Data, Committed, Installed, Pinned, Logged, Copying
<1>7. Copied'
  <2>1. ASSUME NEW i \in DOMAIN lh, i <= tail + 1
        PROVE  slot'[i] = Bread(lh[i])
    <3>1. i \in 1 .. Len(lh) /\ i \in 1 .. LogSize /\ lh[i] \in Block
      BY <1>0
    <3>2. CASE i = tail + 1
      BY <1>0, <3>1, <3>2
    <3>3. CASE i # tail + 1
      <4>1. i <= tail
        BY <1>0, <2>1, <3>1, <3>3
      <4>2. slot[i] = Bread(lh[i])
        BY <4>1 DEF Data, Copied
      <4>3. QED
        BY <1>0, <3>1, <3>3, <4>2
    <3>4. QED
      BY <3>2, <3>3
  <2>2. \A i \in DOMAIN lh : lh[i] \in Block /\ i <= Len(lh)
    BY <1>0
  <2>3. QED
    BY <1>1, <1>2, <1>3, <2>1, <2>2 DEF Copied, Copying, Thread
<1>8. Clean'
  BY <1>1, <1>3 DEF Data, Clean
<1>9. QED
  BY <1>4, <1>6, <1>7, <1>8 DEF Data

LEMMA WriteHeadData ==
  ASSUME Inv, Data, NEW p \in Proc, WriteHead(p)
  PROVE  Data'
<1> USE DEF WriteHead, disk
<1>0. /\ pc \in [Thread -> PC] /\ Proc \subseteq Thread /\ p \in Thread
      /\ lh \in Seq(Block)
  BY DEF Inv, TypeOK, Thread
<1>1. /\ pc[Boot] = "idle" /\ p # Boot /\ pc[p] = "write_head"
      /\ \A t \in Thread : t # p => pc[t] \notin Copying /\ pc'[t] = pc[t]
      /\ \A b \in Block : ~Locked(b)
  BY <1>0, OnlyCommitter DEF InCommit
<1>2. pc'[p] = "install" /\ tail' = 0 /\ pc'[Boot] = "idle" /\ head' = lh
  BY <1>0, <1>1
<1>3. \A i \in DOMAIN lh : ~(i <= 0)
  BY <1>0
<1>4. NoRepeat' /\ Committed'
  BY <1>0, <1>1, <1>2 DEF Data, NoRepeat, Apart, Committed, Copying
<1>5. Installed'
  BY <1>1, <1>2, <1>3 DEF Installed, Copying
<1>6. Copied'
  BY <1>1, <1>2, <1>3 DEF Data, Copied, Bread, Copying, Thread
<1>7. Clean'
  BY <1>1 DEF Data, Clean, Bread
<1>8. Pinned'
  BY <1>1, <1>2, <1>3 DEF Data, Pinned, Logged, Copying
<1>9. QED
  BY <1>4, <1>5, <1>6, <1>7, <1>8 DEF Data

(* Recovery runs alone: no call is active and no buffer is locked.         *)
LEMMA OnlyBoot ==
  ASSUME Inv, pc[Boot] # "idle"
  PROVE  /\ \A b \in Block : ~Locked(b)
         /\ \A t \in Thread : t # Boot => pc[t] \notin Copying
         /\ Active = {}
BY DEF Inv, Control, Locked, Copying, Thread, Active, InOp

(* The same for the thread, process or recovery, in install_trans().       *)
LEMMA OnlyInstaller ==
  ASSUME Inv, NEW t \in Thread, pc[t] \in {"install", "erase"}
  PROVE  /\ \A b \in Block : ~Locked(b)
         /\ \A u \in Thread : u # t => pc[u] \notin Copying
         /\ Active = {}
BY OnlyCommitter, OnlyBoot DEF Thread, InCommit

LEMMA InstallData ==
  ASSUME Inv, Data, NEW t \in Thread, Install(t)
  PROVE  Data'
<1> DEFINE b == lh[tail + 1]
<1> USE DEF Install
<1>0. /\ pc \in [Thread -> PC] /\ Proc \subseteq Thread /\ Boot \in Thread
      /\ lh \in Seq(Block) /\ tail \in Nat /\ tail < Len(lh) /\ pc[t] = "install"
      /\ cache \in [Block -> Val \cup {NoVal}] /\ home \in [Block -> Val]
      /\ slot \in [1 .. LogSize -> Val] /\ Len(lh) <= LogSize /\ LogSize \in Nat
  <2>1. Cardinality(Free(Active, wrote)) \in Nat
    BY FreeBound DEF Active
  <2>2. QED
    BY <2>1, ConstantsAssumption DEF Inv, TypeOK, Thread, Loops, Space
<1>1. /\ \A u \in Thread : u # t => pc[u] \notin Copying /\ pc'[u] = pc[u]
      /\ \A c \in Block : ~Locked(c)
  BY <1>0, OnlyInstaller
<1>2. /\ pc'[t] = IF tail + 1 = Len(lh) THEN "erase" ELSE "install"
      /\ pc'[Boot] # "idle" => pc[Boot] # "idle"
      /\ tail' = tail + 1 /\ lh' = lh /\ head' = head /\ slot' = slot
  BY <1>0, <1>1
<1>3. b \in Block /\ tail + 1 \in DOMAIN lh /\ tail + 1 \in 1 .. LogSize
  BY <1>0
<1>4. /\ slot[tail + 1] \in Val /\ NoVal \notin Val
      /\ home'[b] = slot[tail + 1]
      /\ \A c \in Block : c = b => Bread(c)' = slot[tail + 1]
  BY <1>0, <1>3, ConstantsAssumption DEF Bread
<1>5. \A c \in Block : c # b => home'[c] = home[c] /\ Bread(c)' = Bread(c)
  BY <1>0 DEF Bread
<1>6. \A i \in DOMAIN lh : /\ i \in 1 .. Len(lh) /\ lh[i] \in Block
                           /\ i # tail + 1 => lh[i] # b
  BY <1>0, <1>3 DEF Data, NoRepeat, Apart
<1>7. NoRepeat'
  BY DEF Data, NoRepeat, Apart
<1>8. Committed'
  BY <1>0, <1>1, <1>2 DEF Data, Committed, Copying
<1>9. Installed'
  <2>1. ASSUME NEW i \in DOMAIN lh, i <= tail + 1 PROVE home'[lh[i]] = slot[i]
    <3>1. CASE i = tail + 1
      BY <1>4, <3>1
    <3>2. CASE i # tail + 1
      <4>1. i <= tail
        BY <1>0, <1>6, <2>1, <3>2
      <4>2. home[lh[i]] = slot[i]
        BY <1>0, <4>1 DEF Data, Installed
      <4>3. QED
        BY <1>5, <1>6, <3>2, <4>2
    <3>3. QED
      BY <3>1, <3>2
  <2>2. QED
    BY <1>0, <1>1, <1>2, <1>6, <2>1 DEF Installed, Copying
<1>10. Copied'
  <2>1. ASSUME NEW p \in Proc, pc'[p] \in Copying PROVE p = t /\ pc[p] = "install"
    BY <1>0, <1>1, <2>1
  <2>2. ASSUME t \in Proc, NEW i \in DOMAIN lh PROVE slot[i] = Bread(lh[i])'
    <3>1. slot[i] = Bread(lh[i])
      BY <1>0, <2>2 DEF Data, Copied
    <3>2. CASE i = tail + 1
      BY <1>2, <1>4, <1>6, <3>2 DEF Bread
    <3>3. CASE i # tail + 1
      BY <1>5, <1>6, <3>1, <3>3
    <3>4. QED
      BY <3>2, <3>3
  <2>3. QED
    BY <1>2, <2>1, <2>2 DEF Copied, Copying
<1>11. Clean'
  BY <1>1, <1>4, <1>5 DEF Data, Clean
<1>12. Pinned'
  <2>1. dirty' = dirty \ {b}
    OBVIOUS
  <2>2. dirty' \subseteq Logged' /\ (pc'[Boot] # "idle" => dirty' = {})
    BY <1>2, <2>1 DEF Data, Pinned, Logged
  <2>3. ASSUME NEW i \in DOMAIN lh, i <= tail + 1 PROVE lh[i] \notin dirty'
    <3>1. CASE i = tail + 1
      BY <2>1, <3>1
    <3>2. CASE i # tail + 1
      <4>1. i <= tail
        BY <1>0, <1>6, <2>3, <3>2
      <4>2. lh[i] \notin dirty
        BY <1>0, <4>1 DEF Data, Pinned
      <4>3. QED
        BY <2>1, <4>2
    <3>3. QED
      BY <3>1, <3>2
  <2>4. QED
    BY <1>0, <1>1, <1>2, <1>6, <2>2, <2>3 DEF Pinned, Copying
<1>13. QED
  BY <1>7, <1>8, <1>9, <1>10, <1>11, <1>12 DEF Data

LEMMA EraseData ==
  ASSUME Inv, Data, NEW t \in Thread, Erase(t)
  PROVE  Data'
<1> USE DEF Erase
<1>0. /\ pc \in [Thread -> PC] /\ Proc \subseteq Thread /\ Boot \in Thread
      /\ pc[t] = "erase" /\ lh' = <<>> /\ head' = <<>> /\ DOMAIN <<>> = {}
  BY DEF Inv, TypeOK, Thread
<1>1. /\ \A u \in Thread : u # t => pc[u] \notin Copying /\ pc'[u] = pc[u]
      /\ \A c \in Block : ~Locked(c)
      /\ pc'[t] \notin Copying
  BY <1>0, OnlyInstaller DEF Copying
<1>2. \A u \in Thread : pc'[u] \notin Copying
  BY <1>1
<1>3. dirty = {}
  BY <1>0 DEF Data, Pinned, Logged
<1>4. NoRepeat' /\ Committed' /\ Installed' /\ Copied' /\ Pinned'
  BY <1>0, <1>2, <1>3
  DEF NoRepeat, Apart, Committed, Installed, Copied, Pinned, Copying
<1>5. Clean'
  BY <1>1 DEF Data, Clean, Bread
<1>6. QED
  BY <1>4, <1>5 DEF Data

(* What the cache does by itself changes no copy that matters.             *)
LEMMA CacheData ==
  ASSUME Inv, Data, NEW b \in Block, Load(b) \/ Recycle(b)
  PROVE  Data'
<1>0. /\ cache \in [Block -> Val \cup {NoVal}] /\ home \in [Block -> Val]
      /\ NoVal \notin Val /\ lh \in Seq(Block)
  BY ConstantsAssumption DEF Inv, TypeOK
<1>1. /\ home' = home /\ slot' = slot /\ head' = head /\ lh' = lh
      /\ dirty' = dirty /\ tail' = tail /\ pc' = pc /\ blk' = blk
  BY DEF Load, Recycle, disk
<1>2. \A c \in Block : Bread(c)' = Bread(c)
  <2>1. CASE Load(b)
    BY <1>0, <1>1, <2>1 DEF Load, Bread
  <2>2. CASE Recycle(b)
    <3>1. Bread(b) = home[b]
      BY <2>2 DEF Recycle, Data, Clean
    <3>2. QED
      BY <1>0, <1>1, <2>2, <3>1 DEF Recycle, Bread
  <2>3. QED
    BY <2>1, <2>2
<1>3. NoRepeat' /\ Committed' /\ Installed' /\ Pinned'
  BY <1>1
  DEF Data, NoRepeat, Apart, Committed, Installed, Pinned, Logged
<1>4. Copied'
  <2>1. \A i \in DOMAIN lh : lh[i] \in Block
    BY <1>0
  <2>2. QED
    BY <1>1, <1>2, <2>1 DEF Data, Copied
<1>5. Clean'
  BY <1>1, <1>2 DEF Data, Clean, Locked
<1>6. QED
  BY <1>3, <1>4, <1>5 DEF Data

LEMMA ReadHeadData ==
  ASSUME Inv, Data, ReadHead
  PROVE  Data'
<1> USE DEF ReadHead, disk
<1>0. /\ pc \in [Thread -> PC] /\ Proc \subseteq Thread /\ Boot \in Thread
      /\ pc[Boot] = "read_head" /\ head \in Seq(Block)
      /\ pc'[Boot] = IF head = <<>> THEN "erase" ELSE "install"
      /\ lh' = head /\ head' = head /\ tail' = 0
  BY DEF Inv, TypeOK, Thread
<1>1. /\ \A u \in Thread : u # Boot => pc[u] \notin Copying /\ pc'[u] = pc[u]
      /\ \A c \in Block : ~Locked(c)
      /\ Boot \notin Proc
  BY <1>0, OnlyBoot, ConstantsAssumption
<1>2. \A i \in DOMAIN head : ~(i <= 0) /\ head # <<>>
  BY <1>0
<1>3. dirty' = {}
  BY <1>0 DEF Data, Pinned
<1>4. NoRepeat' /\ Committed'
  BY <1>0, <1>1 DEF Data, NoRepeat, Apart, Committed, Copying
<1>5. Installed'
  BY <1>0, <1>1, <1>2 DEF Installed, Copying
<1>6. Copied'
  BY <1>0, <1>1 DEF Copied, Copying
<1>7. Clean'
  BY <1>0, <1>1 DEF Data, Clean, Bread
<1>8. Pinned'
  BY <1>0, <1>1, <1>2, <1>3 DEF Pinned, Copying
<1>9. QED
  BY <1>4, <1>5, <1>6, <1>7, <1>8 DEF Data

(* A crash forgets everything but the disk, in whatever state that is.     *)
LEMMA CrashData ==
  ASSUME Data, Crash
  PROVE  Data'
<1> USE DEF Crash, PowerOn, disk
<1>1. /\ \A t \in Thread : pc'[t] \notin Copying
      /\ pc'[Boot] = "read_head" /\ lh' = <<>> /\ head' = head
      /\ home' = home /\ dirty' = {} /\ DOMAIN <<>> = {}
      /\ cache' = [b \in Block |-> NoVal]
  BY DEF Copying, Thread
<1>2. QED
  BY <1>1
  DEF Data, NoRepeat, Apart, Committed, Installed, Copied, Clean, Bread,
      Pinned, Copying

LEMMA StepData == Inv /\ Data /\ [Next]_vars => Data'
<1> SUFFICES ASSUME Inv, Data, [Next]_vars PROVE Data'
  OBVIOUS
<1>1. ASSUME NEW p \in Proc, ProcStep(p) PROVE Data'
  BY <1>1, QuietData, LogWriteData, EndOpData, WriteLogData, WriteHeadData
  DEF ProcStep
<1>2. CASE UNCHANGED vars
  BY <1>2, DataFrame DEF vars, Locked
<1>3. QED
  BY <1>1, <1>2, ModifyData, InstallData, EraseData, CacheData, ReadHeadData,
     CrashData DEF Next

(* The copies of a block agree where the code relies on it.                *)
THEOREM CopiesAgree == Spec => []Data
BY InitData, StepData, Invariance, PTL DEF Spec

-----------------------------------------------------------------------------
(* The refinement, step by step: WriteHead() commits, and everything that  *)
(* copies blocks around is invisible.                                      *)

View == [b \in Block |-> IF pc[Boot] = "idle" THEN Bread(b) ELSE Recovered[b]]
AtomicVars == <<Recovered, View, Active>>

(* What recovery finds for a block: its entry of the log, if it has one.   *)
LEMMA RecoveredAt ==
  ASSUME NoRepeat, NEW b \in Block
  PROVE  /\ \A i \in DOMAIN head : head[i] = b => Recovered[b] = slot[i]
         /\ (\A i \in DOMAIN head : head[i] # b) => Recovered[b] = home[b]
<1>1. ASSUME NEW i \in DOMAIN head, head[i] = b PROVE Recovered[b] = slot[i]
  <2>1. (CHOOSE j \in DOMAIN head : head[j] = b) = i
    BY <1>1 DEF NoRepeat, Apart
  <2>2. QED
    BY <1>1, <2>1 DEF Recovered
<1>2. QED
  BY <1>1 DEF Recovered

LEMMA RecoveredHome ==
  ASSUME Inv, head = <<>>
  PROVE  Recovered = home
<1>1. DOMAIN head = {} /\ home \in [Block -> Val]
  BY DEF Inv, TypeOK
<1>2. QED
  BY <1>1 DEF Recovered

LEMMA RecoveredType ==
  ASSUME Inv
  PROVE  Recovered \in [Block -> Val]
<1>1. /\ home \in [Block -> Val] /\ slot \in [1 .. LogSize -> Val]
      /\ head \in Seq(Block) /\ Len(head) <= LogSize /\ LogSize \in Nat
  <2>1. Len(head) <= LogSize
    <3>1. Len(head) \in Nat /\ (head = <<>> => Len(head) = 0)
      BY DEF Inv, TypeOK
    <3>2. QED
      BY <3>1, ConstantsAssumption DEF Inv, Space, Short
  <2>2. QED
    BY <2>1, ConstantsAssumption DEF Inv, TypeOK
<1>2. \A i \in DOMAIN head : slot[i] \in Val
  BY <1>1
<1>3. QED
  BY <1>1, <1>2 DEF Recovered

(* Steps that change neither the disk nor the cache.                       *)
LEMMA ViewFrame ==
  ASSUME home' = home, slot' = slot, head' = head, cache' = cache,
         pc'[Boot] = "idle" <=> pc[Boot] = "idle"
  PROVE  Recovered' = Recovered /\ View' = View
<1>1. Recovered' = Recovered
  BY DEF Recovered
<1>2. QED
  BY <1>1 DEF View, Bread

LEMMA CallBeginOpAtomic ==
  ASSUME Inv, NEW p \in Proc, CallBeginOp(p)
  PROVE  UNCHANGED AtomicVars
<1> USE DEF CallBeginOp, disk
<1>1. pc'[Boot] = pc[Boot] /\ Active' = Active
  BY ConstantsAssumption DEF Inv, TypeOK, Thread, Active, InOp
<1>2. QED
  BY <1>1, ViewFrame DEF AtomicVars

LEMMA BeginOpAtomic ==
  ASSUME Inv, NEW p \in Proc, BeginOp(p)
  PROVE  Atomic!Begin(p) \/ UNCHANGED AtomicVars
<1> USE DEF BeginOp, disk
<1>1. pc'[Boot] = pc[Boot]
  BY ConstantsAssumption DEF Inv, TypeOK, Thread
<1>2. Recovered' = Recovered /\ View' = View
  BY <1>1, ViewFrame
<1>3. CASE MustWait
  <2>1. Active' = Active
    BY <1>3 DEF Inv, TypeOK, Thread, Active, InOp
  <2>2. QED
    BY <1>2, <2>1 DEF AtomicVars
<1>4. CASE ~MustWait
  <2>1. p \notin Active /\ Active' = Active \cup {p}
    BY <1>4 DEF Inv, TypeOK, Thread, Active, InOp
  <2>2. QED
    BY <1>2, <2>1 DEF Atomic!Begin, View
<1>5. QED
  BY <1>3, <1>4

LEMMA InsideAtomic ==
  ASSUME Inv, NEW p \in Proc, LogCheck(p) \/ LogWrite(p) \/ CommitDone(p)
  PROVE  UNCHANGED AtomicVars
<1> USE DEF disk
<1>1. pc'[Boot] = pc[Boot] /\ Active' = Active
  BY ConstantsAssumption
  DEF LogCheck, LogWrite, CommitDone, WakeUp, Inv, TypeOK, Control, InCommit,
      Thread, Active, InOp
<1>2. QED
  BY <1>1, ViewFrame DEF AtomicVars, LogCheck, LogWrite, CommitDone

LEMMA ModifyAtomic ==
  ASSUME Inv, NEW p \in Proc, NEW b \in Block, NEW v \in Val, Modify(p, b, v)
  PROVE  Atomic!Write(p, b, v)
<1> USE DEF Modify, disk
<1>1. /\ pc[Boot] = "idle" /\ pc'[Boot] = "idle"
      /\ Active' = Active /\ p \in Active
  BY ActiveIdle DEF Inv, TypeOK, Thread, Active, InOp
<1>2. Recovered' = Recovered
  BY DEF Recovered
<1>3. \A c \in Block : Bread(c)' = IF c = b THEN v ELSE Bread(c)
  BY ConstantsAssumption DEF Inv, TypeOK, Bread
<1>4. View' = [View EXCEPT ![b] = v]
  BY <1>1, <1>3 DEF View
<1>5. QED
  BY <1>1, <1>2, <1>4 DEF Atomic!Write, View

LEMMA EndOpAtomic ==
  ASSUME Inv, NEW p \in Proc, EndOp(p)
  PROVE  Atomic!End(p)
<1> USE DEF EndOp, disk
<1>1. /\ pc[Boot] = "idle" /\ pc'[Boot] = "idle" /\ p \in Active
  BY ActiveIdle DEF Inv, TypeOK, Thread, Active, InOp, WakeUp
<1>2. Active' = Active \ {p}
  <2>1. ASSUME NEW q \in Proc
        PROVE  pc'[q] \in InOp <=> pc[q] \in InOp /\ q # p
    BY DEF Inv, TypeOK, Thread, InOp, WakeUp
  <2>2. QED
    BY <2>1 DEF Active
<1>3. Recovered' = Recovered /\ View' = View
  BY <1>1, ViewFrame
<1>4. QED
  BY <1>1, <1>2, <1>3 DEF Atomic!End, View

LEMMA WriteLogAtomic ==
  ASSUME Inv, Inv', Data, NEW p \in Proc, WriteLog(p)
  PROVE  UNCHANGED AtomicVars
<1> USE DEF WriteLog, disk
<1>1. /\ pc[p] \in InCommit /\ pc[Boot] = "idle" /\ Active = {} /\ p # Boot
      /\ \A t \in Thread : t # p => pc[t] \notin Copying
  BY OnlyCommitter DEF InCommit
<1>2. pc'[Boot] = "idle" /\ Active' = Active
  BY <1>1 DEF Inv, TypeOK, Thread, Active, InOp
<1>3. head = <<>>
  BY <1>1 DEF Data, Committed, Copying
<1>4. Recovered' = Recovered
  BY <1>3 DEF Recovered
<1>5. \A c \in Block : Bread(c)' = Bread(c)
  BY DEF Inv, TypeOK, Bread
<1>6. QED
  BY <1>1, <1>2, <1>4, <1>5 DEF AtomicVars, View

(* The commit point.  Every block is either logged, and then its slot and  *)
(* its buffer agree, or unchanged since it was last installed.             *)
LEMMA WriteHeadAtomic ==
  ASSUME Inv, Data, Data', NEW p \in Proc, WriteHead(p)
  PROVE  Atomic!Commit
<1> USE DEF WriteHead, disk
<1>1. /\ pc[p] = "write_head" /\ pc[Boot] = "idle" /\ p # Boot
      /\ Active = {} /\ \A b \in Block : ~Locked(b)
  BY OnlyCommitter DEF InCommit
<1>2. pc'[Boot] = "idle" /\ Active' = Active
  BY <1>1 DEF Inv, TypeOK, Thread, Active, InOp
<1>3. View = [b \in Block |-> Bread(b)] /\ View' = View
  BY <1>1, <1>2 DEF View, Bread
<1>4. ASSUME NEW b \in Block PROVE Recovered'[b] = Bread(b)
  <2>1. CASE b \in Logged
    <3>1. PICK i \in DOMAIN lh : lh[i] = b
      BY <2>1 DEF Logged
    <3>2. (CHOOSE j \in DOMAIN lh : lh[j] = b) = i
      BY <3>1 DEF Data, NoRepeat, Apart
    <3>3. slot[i] = Bread(b)
      BY <1>1, <3>1 DEF Data, Copied
    <3>4. QED
      BY <3>1, <3>2, <3>3 DEF Recovered
  <2>2. CASE b \notin Logged
    <3>1. Bread(b) = home[b]
      BY <1>1, <2>2 DEF Data, Clean, Pinned
    <3>2. QED
      BY <2>2, <3>1 DEF Recovered, Logged
  <2>3. QED
    BY <2>1, <2>2
<1>5. Recovered' = View
  BY <1>3, <1>4 DEF Recovered
<1>6. QED
  BY <1>1, <1>2, <1>3, <1>5 DEF Atomic!Commit, View

(* Installing a block changes neither what a reboot would find, which is   *)
(* still in the log, nor what system calls read, which is the same.        *)
LEMMA InstallAtomic ==
  ASSUME Inv, Data, Data', NEW t \in Thread, Install(t)
  PROVE  UNCHANGED AtomicVars
<1> DEFINE b == lh[tail + 1]
<1> USE DEF Install
<1>0. /\ pc \in [Thread -> PC] /\ Proc \subseteq Thread /\ Boot \in Thread
      /\ lh \in Seq(Block) /\ tail \in Nat /\ tail < Len(lh) /\ pc[t] = "install"
      /\ cache \in [Block -> Val \cup {NoVal}] /\ home \in [Block -> Val]
      /\ slot \in [1 .. LogSize -> Val] /\ Len(lh) <= LogSize /\ LogSize \in Nat
  <2>1. Cardinality(Free(Active, wrote)) \in Nat
    BY FreeBound DEF Active
  <2>2. QED
    BY <2>1, ConstantsAssumption DEF Inv, TypeOK, Thread, Loops, Space
<1>1. /\ b \in Block /\ tail + 1 \in DOMAIN lh /\ slot[tail + 1] \in Val
      /\ head = lh /\ NoVal \notin Val
  BY <1>0, ConstantsAssumption DEF Data, Committed
<1>2. /\ pc'[Boot] = "idle" <=> pc[Boot] = "idle"
      /\ Active' = Active
  BY <1>0 DEF Active, InOp
<1>3. Recovered' = Recovered
  <2>1. ASSUME NEW c \in Block PROVE Recovered'[c] = Recovered[c]
    <3>1. CASE c = b
      BY <1>1, <3>1 DEF Recovered
    <3>2. CASE c # b
      <4>1. home'[c] = home[c]
        BY <1>0, <3>2
      <4>2. QED
        BY <4>1 DEF Recovered
    <3>3. QED
      BY <3>1, <3>2
  <2>2. QED
    BY <2>1 DEF Recovered
<1>4. pc[Boot] = "idle" => \A c \in Block : Bread(c)' = Bread(c)
  <2>1. ASSUME pc[Boot] = "idle", NEW c \in Block, c = b
        PROVE  Bread(c)' = Bread(c)
    <3>1. t \in Proc
      BY <1>0, <2>1 DEF Thread
    <3>2. slot[tail + 1] = Bread(c)
      BY <1>0, <1>1, <2>1, <3>1 DEF Data, Copied
    <3>3. Bread(c)' = slot[tail + 1]
      BY <1>0, <1>1, <2>1 DEF Bread
    <3>4. QED
      BY <3>2, <3>3
  <2>2. ASSUME NEW c \in Block, c # b PROVE Bread(c)' = Bread(c)
    BY <1>0, <2>2 DEF Bread
  <2>3. QED
    BY <2>1, <2>2
<1>5. View' = View
  BY <1>2, <1>3, <1>4 DEF View
<1>6. QED
  BY <1>2, <1>3, <1>5 DEF AtomicVars

(* Nor does erasing the log once every block is home.                      *)
LEMMA EraseAtomic ==
  ASSUME Inv, Data, Data', NEW t \in Thread, Erase(t)
  PROVE  UNCHANGED AtomicVars
<1> USE DEF Erase
<1>0. /\ pc \in [Thread -> PC] /\ Proc \subseteq Thread /\ Boot \in Thread
      /\ pc[t] = "erase" /\ head' = <<>> /\ DOMAIN <<>> = {}
      /\ home \in [Block -> Val] /\ Boot \notin Proc
  BY ConstantsAssumption DEF Inv, TypeOK, Thread
<1>1. /\ head = lh /\ Active = {} /\ \A b \in Block : ~Locked(b)
      /\ dirty = {}
  BY <1>0, OnlyInstaller DEF Data, Committed, Pinned, Logged
<1>2. Active' = Active
  BY <1>0 DEF Active, InOp
<1>3. Recovered' = home /\ Recovered = home
  <2>1. Recovered' = home
    BY <1>0 DEF Recovered
  <2>2. ASSUME NEW b \in Block PROVE Recovered[b] = home[b]
    <3>1. ASSUME NEW i \in DOMAIN lh PROVE home[lh[i]] = slot[i]
      BY <1>0 DEF Data, Installed
    <3>2. CASE \E i \in DOMAIN head : head[i] = b
      BY <1>1, <3>1, <3>2, RecoveredAt DEF Data
    <3>3. CASE ~\E i \in DOMAIN head : head[i] = b
      BY <3>3 DEF Recovered
    <3>4. QED
      BY <3>2, <3>3
  <2>3. Recovered = [b \in Block |-> Recovered[b]]
    BY DEF Recovered
  <2>4. QED
    BY <1>0, <2>1, <2>2, <2>3
<1>4. \A b \in Block : Bread(b) = Bread(b)'
  BY DEF Bread
<1>5. View' = View
  <2>1. CASE t = Boot
    <3>1. pc[Boot] # "idle" /\ pc'[Boot] = "idle"
      BY <1>0, <2>1
    <3>2. \A b \in Block : Bread(b)' = home[b]
      BY <1>1, <1>4 DEF Data, Clean
    <3>3. QED
      BY <1>3, <3>1, <3>2 DEF View
  <2>2. CASE t # Boot
    BY <1>0, <1>3, <1>4, <2>2 DEF View
  <2>3. QED
    BY <2>1, <2>2
<1>6. QED
  BY <1>2, <1>3, <1>5 DEF AtomicVars

LEMMA CacheAtomic ==
  ASSUME Inv, Data, NEW b \in Block, Load(b) \/ Recycle(b)
  PROVE  UNCHANGED AtomicVars
<1>1. /\ home' = home /\ slot' = slot /\ head' = head /\ pc' = pc
  BY DEF Load, Recycle, disk
<1>2. \A c \in Block : Bread(c)' = Bread(c)
  <2>1. CASE Load(b)
    BY <1>1, <2>1, ConstantsAssumption DEF Load, Bread, Inv, TypeOK
  <2>2. CASE Recycle(b)
    <3>1. Bread(b) = home[b]
      BY <2>2 DEF Recycle, Data, Clean
    <3>2. QED
      BY <1>1, <2>2, <3>1 DEF Recycle, Bread, Inv, TypeOK
  <2>3. QED
    BY <2>1, <2>2
<1>3. Recovered' = Recovered /\ Active' = Active
  BY <1>1 DEF Recovered, Active
<1>4. QED
  BY <1>1, <1>2, <1>3 DEF AtomicVars, View

LEMMA ReadHeadAtomic ==
  ASSUME Inv, ReadHead
  PROVE  UNCHANGED AtomicVars
<1> USE DEF ReadHead, disk
<1>1. pc'[Boot] # "idle" /\ Active' = Active
  BY ConstantsAssumption DEF Inv, TypeOK, Thread, Active, InOp
<1>2. QED
  BY <1>1, ViewFrame DEF AtomicVars

LEMMA CrashAtomic ==
  ASSUME Inv, Crash
  PROVE  Atomic!Crash
<1> USE DEF Crash, PowerOn, disk
<1>1. pc'[Boot] = "read_head" /\ Active' = {}
  BY ConstantsAssumption DEF Thread, Active, InOp
<1>2. Recovered' = Recovered
  BY DEF Recovered
<1>3. View' = Recovered
  <2>1. View' = [b \in Block |-> Recovered[b]]
    BY <1>1, <1>2 DEF View
  <2>2. QED
    BY <2>1, RecoveredType
<1>4. QED
  BY <1>1, <1>2, <1>3 DEF Atomic!Crash, View

LEMMA InitAtomic == Init => Atomic!Init
<1> SUFFICES ASSUME Init PROVE Atomic!Init
  OBVIOUS
<1>1. pc[Boot] = "read_head" /\ Active = {}
  BY ConstantsAssumption DEF Init, PowerOn, Thread, Active, InOp
<1>2. Recovered \in [Block -> Val]
  BY InitInv, RecoveredType
<1>3. View = Recovered
  BY <1>1, <1>2 DEF View
<1>4. QED
  BY <1>1, <1>2, <1>3 DEF Atomic!Init, View

LEMMA StepAtomic ==
  Inv /\ Inv' /\ Data /\ Data' /\ [Next]_vars => [Atomic!Next]_AtomicVars
<1> SUFFICES ASSUME Inv, Inv', Data, Data', [Next]_vars
             PROVE  Atomic!Next \/ UNCHANGED AtomicVars
  OBVIOUS
<1>1. ASSUME NEW p \in Proc, ProcStep(p)
      PROVE  Atomic!Next \/ UNCHANGED AtomicVars
  <2>1. CASE CallBeginOp(p) \/ LogCheck(p) \/ LogWrite(p) \/ CommitDone(p)
             \/ WriteLog(p)
    BY <2>1, CallBeginOpAtomic, InsideAtomic, WriteLogAtomic
  <2>2. CASE BeginOp(p)
    BY <2>2, BeginOpAtomic DEF Atomic!Next
  <2>3. CASE EndOp(p)
    BY <2>3, EndOpAtomic DEF Atomic!Next
  <2>4. CASE WriteHead(p)
    BY <2>4, WriteHeadAtomic DEF Atomic!Next
  <2>5. QED
    BY <1>1, <2>1, <2>2, <2>3, <2>4 DEF ProcStep
<1>2. ASSUME NEW p \in Proc, NEW b \in Block, NEW v \in Val, Modify(p, b, v)
      PROVE  Atomic!Next
  BY <1>2, ModifyAtomic DEF Atomic!Next
<1>3. ASSUME NEW t \in Thread, Install(t) \/ Erase(t)
      PROVE  UNCHANGED AtomicVars
  BY <1>3, InstallAtomic, EraseAtomic
<1>4. CASE Crash
  BY <1>4, CrashAtomic DEF Atomic!Next
<1>5. CASE UNCHANGED vars
  <2>1. home' = home /\ slot' = slot /\ head' = head /\ cache' = cache /\ pc' = pc
    BY <1>5 DEF vars
  <2>2. QED
    BY <2>1, ViewFrame DEF AtomicVars, Active
<1>6. QED
  BY <1>1, <1>2, <1>3, <1>4, <1>5, CacheAtomic, ReadHeadAtomic DEF Next

(* The redo log implements the atomic disk: whatever the calls, the        *)
(* interleaving and the moment of a crash, system calls become durable in  *)
(* whole groups, at the write of the header.                               *)
THEOREM ImplementsAtomicDisk == Spec => AtomicSpec
<1>1. Inv /\ Inv' /\ Data /\ Data' /\ [Next]_vars => [Atomic!Next]_AtomicVars
  BY StepAtomic
<1>2. QED
  BY <1>1, InitAtomic, Invariance, CopiesAgree, PTL
  DEF Spec, AtomicSpec, Atomic!Spec, Atomic!vars, AtomicVars, View
=============================================================================
