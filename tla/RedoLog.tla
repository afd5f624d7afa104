------------------------------- MODULE RedoLog -------------------------------
(***************************************************************************)
(* The redo log of the file system (project-cow-page-swapping/log.c) with  *)
(* the part of the buffer cache it relies on: concurrent FS system calls   *)
(* between begin_op() and end_op(), group commit by the last of them,      *)
(* crashes at every step and recovery at boot.                             *)
(*                                                                         *)
(* Every bwrite() is one step, and one sector is written atomically.       *)
(* Code that runs under log.lock is one step; the checks at the head of    *)
(* log_write() run before the lock is taken and are a step of their own.   *)
(***************************************************************************)
EXTENDS Integers, Sequences, FiniteSets

CONSTANTS
  Proc,         \* processes that make FS system calls
  Boot,         \* the thread that runs initlog() at boot
  Block,        \* home blocks of the file system
  Val,          \* contents of a block
  NoVal,        \* the block is not in the buffer cache
  NoBlock,      \* the process holds no buffer
  MaxOpBlocks,  \* MAXOPBLOCKS: what begin_op() reserves for one call
  LogSize,      \* LOGSIZE: entries of the in-memory header
  NLog,         \* sb.nlog: blocks of the on-disk log, its header included
  OpBlocks      \* distinct blocks a system call of this instance writes

ASSUME ConstantsAssumption ==
  /\ IsFiniteSet(Proc) /\ Boot \notin Proc
  /\ NoVal \notin Val /\ NoBlock \notin Block
  /\ MaxOpBlocks \in Nat \ {0} /\ LogSize \in Nat \ {0} /\ NLog \in Nat \ {0}
  /\ MaxOpBlocks <= LogSize
  /\ OpBlocks \in 0 .. MaxOpBlocks

VARIABLES
  home,         \* the disk: home locations
  slot,         \* the disk: data blocks of the log
  head,         \* the disk: header block of the log
  cache,        \* buffer cache contents
  dirty,        \* blocks whose buffer is pinned by B_DIRTY
  lh,           \* log.lh
  outstanding,  \* log.outstanding
  committing,   \* log.committing
  tail,         \* loop index of write_log() and install_trans()
  pc,           \* control point of each thread
  blk,          \* the buffer a process holds between bread() and brelse()
  wrote,        \* the blocks a process has logged in its current call
  panicked      \* panic() was called

disk == <<home, slot, head>>
memory == <<cache, dirty, lh, outstanding, committing, tail, pc, blk, wrote,
            panicked>>
vars == <<home, slot, head, cache, dirty, lh, outstanding, committing, tail,
          pc, blk, wrote, panicked>>

Thread == Proc \cup {Boot}
InOp == {"op", "held", "logging"}
InCommit == {"write_log", "write_head", "install", "erase", "done"}
PC == {"idle", "begin", "sleep", "read_head"} \cup InOp \cup InCommit

Logged == {lh[i] : i \in DOMAIN lh}
Active == {p \in Proc : pc[p] \in InOp}

(* The sleep lock of a buffer is held from bread() to brelse().            *)
Locked(b) == \E p \in Proc : pc[p] \in {"held", "logging"} /\ blk[p] = b

(* What bread(b) returns: the cached copy, or else the block on the disk.  *)
Bread(b) == IF cache[b] = NoVal THEN home[b] ELSE cache[b]

(* wakeup(&log) *)
WakeUp(f) == [t \in Thread |-> IF f[t] = "sleep" THEN "begin" ELSE f[t]]

(* What memory holds when the kernel boots.                                *)
PowerOn(c, d, l, o, k, i, f, h, w, x) ==
  /\ c = [b \in Block |-> NoVal] /\ d = {} /\ l = <<>> /\ o = 0 /\ k = FALSE
  /\ i = 0 /\ f = [t \in Thread |-> IF t = Boot THEN "read_head" ELSE "idle"]
  /\ h = [p \in Proc |-> NoBlock] /\ w = [p \in Proc |-> {}] /\ x = FALSE

Init ==
  /\ home \in [Block -> Val]
  /\ \E v \in Val : slot = [i \in 1 .. LogSize |-> v]
  /\ head = <<>>
  /\ PowerOn(cache, dirty, lh, outstanding, committing, tail, pc, blk, wrote,
             panicked)

-----------------------------------------------------------------------------
(* begin_op(): sleep while a commit runs or log space might run out.       *)

CallBeginOp(p) ==
  /\ ~panicked /\ pc[Boot] = "idle" /\ pc[p] = "idle"
  /\ pc' = [pc EXCEPT ![p] = "begin"]
  /\ UNCHANGED <<disk, cache, dirty, lh, outstanding, committing, tail, blk,
                 wrote, panicked>>

MustWait == committing \/ Len(lh) + (outstanding + 1) * MaxOpBlocks > LogSize

(* Faulty: the call is not counted.                                        *)
BeginOp_NotCounted(p) ==
  /\ ~panicked /\ pc[p] = "begin" /\ ~MustWait
  /\ pc' = [pc EXCEPT ![p] = "op"]
  /\ wrote' = [wrote EXCEPT ![p] = {}]
  /\ UNCHANGED <<disk, cache, dirty, lh, outstanding, committing, tail, blk,
                 panicked>>

BeginOp(p) ==
  /\ ~panicked /\ pc[p] = "begin"
  /\ IF MustWait
       THEN /\ pc' = [pc EXCEPT ![p] = "sleep"]
            /\ UNCHANGED <<outstanding, wrote>>
       ELSE /\ outstanding' = outstanding + 1
            /\ pc' = [pc EXCEPT ![p] = "op"]
            /\ wrote' = [wrote EXCEPT ![p] = {}]
  /\ UNCHANGED <<disk, cache, dirty, lh, committing, tail, blk, panicked>>

-----------------------------------------------------------------------------
(* The body of a system call: bread(), modify, log_write(), brelse().      *)

Modify(p, b, v) ==
  /\ ~panicked /\ pc[p] = "op" /\ ~Locked(b)
  /\ Cardinality(wrote[p] \cup {b}) <= OpBlocks
  /\ cache' = [cache EXCEPT ![b] = v]
  /\ blk' = [blk EXCEPT ![p] = b]
  /\ pc' = [pc EXCEPT ![p] = "held"]
  /\ UNCHANGED <<disk, dirty, lh, outstanding, committing, tail, wrote,
                 panicked>>

(* The two checks of log_write(), made before log.lock is acquired.        *)
LogCheck(p) ==
  /\ ~panicked /\ pc[p] = "held"
  /\ panicked' = \/ Len(lh) >= LogSize
                 \/ Len(lh) >= NLog - 1
                 \/ outstanding < 1
  /\ pc' = [pc EXCEPT ![p] = "logging"]
  /\ UNCHANGED <<disk, cache, dirty, lh, outstanding, committing, tail, blk,
                 wrote>>

(* The rest of log_write(): absorb or append, pin the buffer, release it.  *)
LogWrite(p) ==
  LET b == blk[p] IN
  /\ ~panicked /\ pc[p] = "logging"
  /\ lh' = IF b \in Logged THEN lh ELSE Append(lh, b)
  /\ dirty' = dirty \cup {b}
  /\ wrote' = [wrote EXCEPT ![p] = @ \cup {b}]
  /\ blk' = [blk EXCEPT ![p] = NoBlock]
  /\ pc' = [pc EXCEPT ![p] = "op"]
  /\ UNCHANGED <<disk, cache, outstanding, committing, tail, panicked>>

-----------------------------------------------------------------------------
(* end_op(): the last call commits, the others wake up waiting calls.      *)

EndOp(p) ==
  /\ ~panicked /\ pc[p] = "op"
  /\ outstanding' = outstanding - 1
  /\ panicked' = committing
  /\ IF outstanding - 1 = 0
       THEN /\ committing' = TRUE
            /\ pc' = [pc EXCEPT ![p] = IF lh = <<>> THEN "done" ELSE "write_log"]
            /\ tail' = 0
       ELSE /\ pc' = WakeUp([pc EXCEPT ![p] = "idle"])
            /\ UNCHANGED <<committing, tail>>
  /\ UNCHANGED <<disk, cache, dirty, lh, blk, wrote>>

(* write_log(): copy one modified block from the cache to its log slot.    *)
WriteLog(p) ==
  LET b == lh[tail + 1] IN
  /\ ~panicked /\ pc[p] = "write_log" /\ ~Locked(b)
  /\ slot' = [slot EXCEPT ![tail + 1] = Bread(b)]
  /\ cache' = [cache EXCEPT ![b] = Bread(b)]
  /\ tail' = tail + 1
  /\ pc' = IF tail + 1 = Len(lh) THEN [pc EXCEPT ![p] = "write_head"] ELSE pc
  /\ UNCHANGED <<home, head, dirty, lh, outstanding, committing, blk, wrote,
                 panicked>>

(* write_head(): the point at which the transaction commits.               *)
WriteHead(p) ==
  /\ ~panicked /\ pc[p] = "write_head"
  /\ head' = lh
  /\ tail' = 0
  /\ pc' = [pc EXCEPT ![p] = "install"]
  /\ UNCHANGED <<home, slot, cache, dirty, lh, outstanding, committing, blk,
                 wrote, panicked>>

(* install_trans(): copy one block from the log to its home location; the  *)
(* write clears B_DIRTY and so unpins the buffer.                          *)
Install(t) ==
  LET b == lh[tail + 1] IN
  /\ ~panicked /\ pc[t] = "install" /\ ~Locked(b)
  /\ home' = [home EXCEPT ![b] = slot[tail + 1]]
  /\ cache' = [cache EXCEPT ![b] = slot[tail + 1]]
  /\ dirty' = dirty \ {b}
  /\ tail' = tail + 1
  /\ pc' = IF tail + 1 = Len(lh) THEN [pc EXCEPT ![t] = "erase"] ELSE pc
  /\ UNCHANGED <<slot, head, lh, outstanding, committing, blk, wrote, panicked>>

(* log.lh.n = 0 and the write_head() that erases the transaction.          *)
Erase(t) ==
  /\ ~panicked /\ pc[t] = "erase"
  /\ lh' = <<>>
  /\ head' = <<>>
  /\ pc' = [pc EXCEPT ![t] = IF t = Boot THEN "idle" ELSE "done"]
  /\ UNCHANGED <<home, slot, cache, dirty, outstanding, committing, tail, blk,
                 wrote, panicked>>

(* Faulty: end_op() does not wake up the calls that wait for the commit.   *)
CommitDone_NoWakeUp(p) ==
  /\ ~panicked /\ pc[p] = "done"
  /\ committing' = FALSE
  /\ pc' = [pc EXCEPT ![p] = "idle"]
  /\ UNCHANGED <<disk, cache, dirty, lh, outstanding, tail, blk, wrote,
                 panicked>>

(* The tail of end_op(): the commit is over, waiting calls may start.      *)
CommitDone(p) ==
  /\ ~panicked /\ pc[p] = "done"
  /\ committing' = FALSE
  /\ pc' = WakeUp([pc EXCEPT ![p] = "idle"])
  /\ UNCHANGED <<disk, cache, dirty, lh, outstanding, tail, blk, wrote,
                 panicked>>

-----------------------------------------------------------------------------
(* Reads outside a transaction fill the cache; bget() recycles the buffer  *)
(* of a block that nobody holds and that is not dirty.                     *)

Load(b) ==
  /\ ~panicked /\ pc[Boot] = "idle" /\ cache[b] = NoVal
  /\ cache' = [cache EXCEPT ![b] = home[b]]
  /\ UNCHANGED <<disk, dirty, lh, outstanding, committing, tail, pc, blk,
                 wrote, panicked>>

(* Faulty: bget() takes any buffer that nobody holds.                      *)
Recycle_IgnoresDirty(b) ==
  /\ ~panicked /\ cache[b] # NoVal /\ ~Locked(b)
  /\ cache' = [cache EXCEPT ![b] = NoVal]
  /\ UNCHANGED <<disk, dirty, lh, outstanding, committing, tail, pc, blk,
                 wrote, panicked>>

Recycle(b) ==
  /\ ~panicked /\ cache[b] # NoVal /\ ~Locked(b) /\ b \notin dirty
  /\ cache' = [cache EXCEPT ![b] = NoVal]
  /\ UNCHANGED <<disk, dirty, lh, outstanding, committing, tail, pc, blk,
                 wrote, panicked>>

-----------------------------------------------------------------------------
(* A crash loses memory; recover_from_log() then runs before any call.     *)

Crash ==
  /\ PowerOn(cache', dirty', lh', outstanding', committing', tail', pc', blk',
             wrote', panicked')
  /\ UNCHANGED disk

ReadHead ==
  /\ ~panicked /\ pc[Boot] = "read_head"
  /\ lh' = head
  /\ tail' = 0
  /\ pc' = [pc EXCEPT ![Boot] = IF head = <<>> THEN "erase" ELSE "install"]
  /\ UNCHANGED <<disk, cache, dirty, outstanding, committing, blk, wrote,
                 panicked>>

-----------------------------------------------------------------------------

ProcStep(p) ==
  \/ CallBeginOp(p) \/ BeginOp(p)
  \/ LogCheck(p) \/ LogWrite(p)
  \/ EndOp(p) \/ WriteLog(p) \/ WriteHead(p) \/ CommitDone(p)

Next ==
  \/ \E p \in Proc : ProcStep(p)
  \/ \E p \in Proc, b \in Block, v \in Val : Modify(p, b, v)
  \/ \E t \in Thread : Install(t) \/ Erase(t)
  \/ \E b \in Block : Load(b) \/ Recycle(b)
  \/ ReadHead
  \/ Crash

Spec == Init /\ [][Next]_vars

(* A thread that can run does run, and a system call makes finitely many   *)
(* log_write() calls, so from "op" it keeps coming back to end_op() and    *)
(* takes it in the end.  Calling begin_op() is the user's choice.          *)
Fairness ==
  /\ \A p \in Proc :
       /\ WF_vars(BeginOp(p)) /\ WF_vars(LogCheck(p)) /\ WF_vars(LogWrite(p))
       /\ SF_vars(EndOp(p))
       /\ WF_vars(WriteLog(p)) /\ WF_vars(WriteHead(p))
       /\ WF_vars(CommitDone(p))
  /\ \A t \in Thread : WF_vars(Install(t)) /\ WF_vars(Erase(t))
  /\ WF_vars(ReadHead)

LiveSpec == Spec /\ Fairness

-----------------------------------------------------------------------------
(* The state of every variable.                                            *)
TypeOK ==
  /\ home \in [Block -> Val]
  /\ slot \in [1 .. LogSize -> Val]
  /\ head \in Seq(Block)
  /\ cache \in [Block -> Val \cup {NoVal}]
  /\ dirty \subseteq Block
  /\ lh \in Seq(Block)
  /\ outstanding \in Nat
  /\ committing \in BOOLEAN
  /\ tail \in Nat
  /\ pc \in [Thread -> PC]
  /\ blk \in [Proc -> Block \cup {NoBlock}]
  /\ wrote \in [Proc -> SUBSET Block]
  /\ panicked \in BOOLEAN

(* However the calls overlap, no assertion of begin_op()/end_op()/         *)
(* log_write() fires: the reservation begin_op() makes covers the checks   *)
(* log_write() runs before it takes log.lock.                              *)
NoPanic == ~panicked

(* Two log_write() calls that pass the unlocked check together still do    *)
(* not make the header name a block beyond the end of the on-disk log.     *)
LogFits == Len(lh) <= NLog - 1

(* While a commit writes the log, no system call is inside a transaction,  *)
(* and exactly one process runs commit().                                  *)
CommitExclusion ==
  committing => /\ Active = {}
                /\ Cardinality({p \in Proc : pc[p] \in InCommit}) = 1

(* A process sleeps in begin_op() only while some process is still going   *)
(* to call wakeup(&log): no wakeup is lost.                                *)
SleeperHasWaker ==
  (\E p \in Proc : pc[p] = "sleep") => committing \/ outstanding > 0

(* What recovery would put on the disk now: home blocks overlaid by the    *)
(* committed log.                                                          *)
Recovered ==
  [b \in Block |->
     IF \E i \in DOMAIN head : head[i] = b
       THEN slot[CHOOSE i \in DOMAIN head : head[i] = b]
       ELSE home[b]]

(* The log implements an atomic disk: system calls become durable in       *)
(* groups, all of a group or nothing of it, whenever the machine crashes.  *)
Atomic == INSTANCE AtomicDisk WITH
  stable <- Recovered,
  view <- [b \in Block |-> IF pc[Boot] = "idle" THEN Bread(b) ELSE Recovered[b]],
  active <- Active

AtomicSpec == Atomic!Spec

(* Every process put to sleep by begin_op() is woken up.                   *)
SleepersWake == \A p \in Proc : pc[p] = "sleep" ~> pc[p] # "sleep"

=============================================================================
