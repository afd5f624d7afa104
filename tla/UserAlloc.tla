----------------------------- MODULE UserAlloc -----------------------------
(***************************************************************************)
(* malloc() and free() of the user library (umalloc.c).  Addresses count     *)
(* headers: the heap is 1..MaxBrk-1, and address 0 is the header base.  The  *)
(* free list is circular, in address order, and freep is one of its members. *)
(***************************************************************************)
EXTENDS Integers, FiniteSetsExt

CONSTANTS
  MaxBrk,        \* where sbrk() fails
  Chunk,         \* least size morecore() asks for (4096)
  Requests       \* sizes asked for, header included

HeapAssumption == MaxBrk \in Nat \ {0} /\ Chunk \in Nat /\ Requests \subseteq Nat \ {0}

VARIABLES
  ptr, size,     \* s.ptr and s.size of the header at each address
  freep, brk,
  used           \* addresses of the blocks given out

vars == <<ptr, size, freep, brk, used>>
Addr == 0..(MaxBrk - 1)

Init ==
  /\ ptr = [a \in Addr |-> 0] /\ size = [a \in Addr |-> 0]
  /\ freep = 0 /\ brk = 1 /\ used = {}

(* The members of the list, in the order a loop that starts at a sees them. *)
Walk(a) ==
  LET step[k \in Addr] == IF k = 0 THEN a ELSE ptr[step[k - 1]] IN step
FreeList == {Walk(freep)[k] : k \in Addr}

(* free()'s loop ends where the block goes between p and its successor, or   *)
(* at the wrap of the list when it is beyond either end.                    *)
Fits(b, p) ==
  \/ b > p /\ b < ptr[p]
  \/ p >= ptr[p] /\ (b > p \/ b < ptr[p])

(* Faulty: a block is not joined with the one above it.                    *)
NeverJoins(b, n, q) == FALSE

JoinsUpper(b, n, q) == b + n = q

(* The field f of a header, 0 once the header is within a larger block.     *)
Dead(f, S) == [a \in Addr |-> IF a \in S THEN 0 ELSE f[a]]

(* free() of the block b of n headers.                                     *)
Insert(b, n) ==
  LET walk == Walk(freep)
      p == walk[Min({j \in Addr : Fits(b, walk[j])})]
      q == ptr[p]
      up == JoinsUpper(b, n, q)
      down == p + size[p] = b
      total == IF up THEN n + size[q] ELSE n
      next == IF up THEN ptr[q] ELSE q
      gone == (IF up THEN {q} ELSE {}) \cup (IF down THEN {b} ELSE {})
  IN
  /\ size' = Dead([size EXCEPT ![b] = total, ![p] = IF down THEN @ + total ELSE @], gone)
  /\ ptr' = Dead([ptr EXCEPT ![b] = next, ![p] = IF down THEN next ELSE b], gone)
  /\ freep' = p

FreeBlock(b) ==
  /\ b \in used
  /\ Insert(b, size[b])
  /\ used' = used \ {b} /\ UNCHANGED brk

(* malloc() starts behind freep and takes the first block that is large      *)
(* enough: all of it, or the end of it.                                     *)
Large(n) == {k \in Addr \ {0} : size[Walk(freep)[k]] >= n}

Malloc(n) ==
  /\ Large(n) # {}
  /\ LET k == Min(Large(n))
         p == Walk(freep)[k]
         prev == Walk(freep)[k - 1]
         b == p + size[p] - n IN
     /\ ptr' = IF size[p] = n THEN Dead([ptr EXCEPT ![prev] = ptr[p]], {p}) ELSE ptr
     /\ size' = IF size[p] = n THEN size ELSE [size EXCEPT ![p] = @ - n, ![b] = n]
     /\ freep' = prev
     /\ used' = used \cup {b}
  /\ UNCHANGED brk

(* morecore(): grows the heap and frees the new block; malloc() goes on.     *)
Morecore(n) ==
  LET nu == IF n < Chunk THEN Chunk ELSE n IN
  /\ Large(n) = {} /\ brk + nu <= MaxBrk
  /\ Insert(brk, nu)
  /\ brk' = brk + nu /\ UNCHANGED used

Next == (\E b \in used : FreeBlock(b)) \/ \E n \in Requests : Malloc(n) \/ Morecore(n)

Spec == Init /\ [][Next]_vars

(* The blocks on the list and those given out are the heap, without overlap  *)
(* or gap; free neighbours are joined; the list has one wrap, at base.       *)
Blocks == used \cup (FreeList \ {0})
HeapPartition ==
  /\ used \cap FreeList = {} /\ 0 \in FreeList
  /\ \A x \in 1..(brk - 1) : Cardinality({b \in Blocks : b <= x /\ x < b + size[b]}) = 1
  /\ \A b \in Blocks : size[b] > 0 /\ b + size[b] <= brk
  /\ \A b \in FreeList : \A q \in FreeList : b + size[b] # q \/ b = 0
  /\ Cardinality({p \in FreeList : ptr[p] <= p}) = 1
=============================================================================
