----------------------------- MODULE BufferCache -----------------------------
(***************************************************************************)
(* The buffer cache (bio.c), the sleep locks of its buffers (sleeplock.c)   *)
(* and the queue of the disk driver (ide.c).                               *)
(*                                                                         *)
(* bcache.lock and idelock are held within one action each.  A buffer's     *)
(* sleep lock is held across actions: bget() takes a reference first and    *)
(* the lock later, and brelse() gives them back in the same order.          *)
(***************************************************************************)
EXTENDS Integers, FiniteSets, Sequences, SequencesExt

CONSTANTS
  Proc, Buf, Block, Val,
  NPin,          \* blocks that log_write() may keep in the cache at a time
  Free, None,    \* owner of a free lock; block of an unused buffer
  v0             \* contents of the blocks at boot

(* NBUF leaves a buffer for every process when the log has pinned its share *)
ASSUME BuffersAssumption ==
  /\ NPin \in Nat /\ IsFiniteSet(Buf) /\ IsFiniteSet(Proc)
  /\ Cardinality(Buf) >= NPin + Cardinality(Proc)
  /\ Free \notin Proc /\ None \notin Block \cup Buf /\ v0 \in Val

VARIABLES
  mru,           \* the list of buffers, most recently used first
  bno, refcnt,   \* block and number of users of each buffer
  valid, dirty,  \* B_VALID and B_DIRTY
  data, holder,  \* contents and sleep lock of each buffer
  disk,          \* contents of the blocks on disk
  queue, busy,   \* idequeue; the disk works on its head
  pc, mine       \* what each process does, with which buffer

cacheVars == <<mru, bno, refcnt>>
bufVars == <<valid, dirty, data>>
ideVars == <<disk, queue, busy>>
vars == <<cacheVars, bufVars, holder, ideVars, pc, mine>>

TypeOK ==
  /\ mru \in Seq(Buf)
  /\ bno \in [Buf -> Block \cup {None}] /\ refcnt \in [Buf -> Nat]
  /\ valid \in [Buf -> BOOLEAN] /\ dirty \in [Buf -> BOOLEAN] /\ data \in [Buf -> Val]
  /\ holder \in [Buf -> Proc \cup {Free}]
  /\ disk \in [Block -> Val] /\ queue \in Seq(Buf) /\ busy \in BOOLEAN
  /\ pc \in [Proc -> {"idle", "lock", "asleep", "locked", "io", "use", "drop", "panic"}]
  /\ mine \in [Proc -> Buf \cup {None}]

Init ==
  /\ mru = SetToSeq(Buf) /\ bno = [b \in Buf |-> None] /\ refcnt = [b \in Buf |-> 0]
  /\ valid = [b \in Buf |-> FALSE] /\ dirty = [b \in Buf |-> FALSE] /\ data = [b \in Buf |-> v0]
  /\ holder = [b \in Buf |-> Free]
  /\ disk = [k \in Block |-> v0] /\ queue = <<>> /\ busy = FALSE
  /\ pc = [p \in Proc |-> "idle"] /\ mine = [p \in Proc |-> None]

Become(p, s) == pc' = [pc EXCEPT ![p] = s]

-----------------------------------------------------------------------------
(* bget(): under bcache.lock.                                              *)

(* Faulty: a buffer whose read has not ended is not found.                 *)
HoldsValid(b, k) == bno[b] = k /\ valid[b]
Holds(b, k) == bno[b] = k

(* Faulty: ignores B_DIRTY.                                                *)
Unused(b) == refcnt[b] = 0
Recyclable(b) == refcnt[b] = 0 /\ ~dirty[b]

Hit(p, k) ==
  /\ pc[p] = "idle"
  /\ \E b \in Buf :
       /\ Holds(b, k)
       /\ refcnt' = [refcnt EXCEPT ![b] = @ + 1]
       /\ mine' = [mine EXCEPT ![p] = b]
  /\ Become(p, "lock")
  /\ UNCHANGED <<mru, bno, bufVars, holder, ideVars>>

(* The least recently used buffer that can be recycled.                    *)
Miss(p, k) ==
  /\ pc[p] = "idle" /\ \A b \in Buf : ~Holds(b, k)
  /\ IF \A i \in DOMAIN mru : ~Recyclable(mru[i])
     THEN Become(p, "panic") /\ UNCHANGED <<bno, refcnt, valid, dirty, mine>>
     ELSE \E i \in DOMAIN mru :
            LET b == mru[i] IN
            /\ Recyclable(b) /\ \A j \in i+1..Len(mru) : ~Recyclable(mru[j])
            /\ bno' = [bno EXCEPT ![b] = k]
            /\ refcnt' = [refcnt EXCEPT ![b] = 1]
            /\ valid' = [valid EXCEPT ![b] = FALSE]
            /\ dirty' = [dirty EXCEPT ![b] = FALSE]
            /\ mine' = [mine EXCEPT ![p] = b]
            /\ Become(p, "lock")
  /\ UNCHANGED <<mru, data, holder, ideVars>>

(* acquiresleep()                                                          *)
Lock(p) ==
  LET b == mine[p] IN
  /\ pc[p] = "lock"
  /\ IF holder[b] = Free
     THEN holder' = [holder EXCEPT ![b] = p] /\ Become(p, "locked")
     ELSE Become(p, "asleep") /\ UNCHANGED holder
  /\ UNCHANGED <<cacheVars, bufVars, ideVars, mine>>

-----------------------------------------------------------------------------
(* iderw() appends to the queue and starts an idle disk.                   *)
Request(p) ==
  /\ queue' = Append(queue, mine[p]) /\ busy' = TRUE
  /\ Become(p, "io")

(* bread() returns, or reads the block first.                              *)
Bread(p) ==
  /\ pc[p] = "locked"
  /\ IF valid[mine[p]]
     THEN Become(p, "use") /\ UNCHANGED <<queue, busy>>
     ELSE Request(p)
  /\ UNCHANGED <<cacheVars, bufVars, holder, disk, mine>>

(* Faulty: the disk stops after each request.                              *)
Stops(q) == FALSE
GoesOn(q) == q # <<>>

(* ideintr() answers the head of the queue, wakes its process, starts the   *)
(* next request.                                                           *)
Interrupt ==
  LET b == Head(queue) IN
  /\ busy
  /\ IF dirty[b]
     THEN disk' = [disk EXCEPT ![bno[b]] = data[b]] /\ UNCHANGED data
     ELSE data' = [data EXCEPT ![b] = disk[bno[b]]] /\ UNCHANGED disk
  /\ valid' = [valid EXCEPT ![b] = TRUE]
  /\ dirty' = [dirty EXCEPT ![b] = FALSE]
  /\ queue' = Tail(queue) /\ busy' = GoesOn(Tail(queue))
  /\ pc' = [p \in Proc |-> IF pc[p] = "io" /\ mine[p] = b THEN "use" ELSE pc[p]]
  /\ UNCHANGED <<cacheVars, holder, mine>>

-----------------------------------------------------------------------------
(* The owner modifies the block and log_write() keeps it in the cache.      *)
LogWrite(p, v) ==
  LET b == mine[p] IN
  /\ pc[p] = "use"
  /\ dirty[b] \/ Cardinality({c \in Buf : dirty[c]}) < NPin
  /\ data' = [data EXCEPT ![b] = v]
  /\ dirty' = [dirty EXCEPT ![b] = TRUE]
  /\ UNCHANGED <<cacheVars, valid, holder, ideVars, pc, mine>>

(* The owner modifies the block and bwrite() puts it on disk.               *)
Bwrite(p, v) ==
  LET b == mine[p] IN
  /\ pc[p] = "use"
  /\ data' = [data EXCEPT ![b] = v]
  /\ dirty' = [dirty EXCEPT ![b] = TRUE]
  /\ Request(p)
  /\ UNCHANGED <<cacheVars, valid, holder, disk, mine>>

(* Faulty: releasesleep() wakes nobody.                                    *)
NoWaiters(b) == {}
Waiters(b) == {q \in Proc : pc[q] = "asleep" /\ mine[q] = b}

(* brelse(): releasesleep(), then the reference under bcache.lock.          *)
Release(p) ==
  LET b == mine[p] IN
  /\ pc[p] = "use"
  /\ holder' = [holder EXCEPT ![b] = Free]
  /\ pc' = [q \in Proc |-> IF q = p THEN "drop" ELSE IF q \in Waiters(b) THEN "lock" ELSE pc[q]]
  /\ UNCHANGED <<cacheVars, bufVars, ideVars, mine>>

(* Faulty: the reference is kept.                                          *)
Kept(n) == n
Less(n) == n - 1

Drop(p) ==
  LET b == mine[p]
      n == Less(refcnt[b]) IN
  /\ pc[p] = "drop"
  /\ refcnt' = [refcnt EXCEPT ![b] = n]
  /\ IF n = 0
     THEN \E i \in DOMAIN mru : mru[i] = b /\ mru' = <<b>> \o RemoveAt(mru, i)
     ELSE UNCHANGED mru
  /\ mine' = [mine EXCEPT ![p] = None]
  /\ Become(p, "idle")
  /\ UNCHANGED <<bno, bufVars, holder, ideVars>>

Work(p) == Lock(p) \/ Bread(p) \/ Release(p) \/ Drop(p)

Next ==
  \/ Interrupt
  \/ \E p \in Proc :
       \/ \E k \in Block : Hit(p, k) \/ Miss(p, k)
       \/ \E v \in Val : LogWrite(p, v) \/ Bwrite(p, v)
       \/ Work(p)

Spec == Init /\ [][Next]_vars

-----------------------------------------------------------------------------
(* Properties.                                                             *)

(* bio.c:69-76: however many processes miss at once, a block is in at most   *)
(* one buffer, also while its read is under way.                           *)
OneBufferPerBlock ==
  \A b, c \in Buf : bno[b] = bno[c] /\ bno[b] # None => b = c

(* bio.c:92: "bget: no buffers" does not happen while the log pins at most  *)
(* NPin blocks and a process uses one at a time.                           *)
NeverOutOfBuffers == \A p \in Proc : pc[p] # "panic"

(* A process asleep in acquiresleep() waits for a lock that is held: no      *)
(* wakeup is missed between brelse() and the next owner.                    *)
SleeperHasHolder == \A p \in Proc : pc[p] = "asleep" => holder[mine[p]] # Free

(* The cache, its locks, the queue and the disk together are the block store:*)
(* recycling never loses a logged change and a reader gets the last contents.*)
Users(k) == {p \in Proc : pc[p] \in {"use", "io"} /\ bno[mine[p]] = k /\ valid[mine[p]]}
Cached(k) == {b \in Buf : bno[b] = k /\ valid[b]}
Content == [k \in Block |-> IF Cached(k) = {} THEN disk[k] ELSE data[CHOOSE b \in Cached(k) : TRUE]]
Owner == [k \in Block |-> IF Users(k) = {} THEN Free ELSE CHOOSE p \in Users(k) : TRUE]
Store == INSTANCE BlockStore WITH content <- Content, owner <- Owner
StoreSpec == Store!Spec

(* A process asleep in iderw() has its buffer in the queue exactly once, and  *)
(* the disk works on the head: with ideintr() answering in order, each is    *)
(* woken, whatever is queued before or behind it.                           *)
RequestIsQueued ==
  \A p \in Proc : pc[p] = "io" =>
     busy /\ Cardinality({i \in DOMAIN queue : queue[i] = mine[p]}) = 1
=============================================================================
