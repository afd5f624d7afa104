------------------------------ MODULE CowMemory ------------------------------
(***************************************************************************)
(* Copy-on-write memory of project-cow-page-swapping while free pages      *)
(* last: fork() shares pages read-only (copyuvm), a write fault copies a   *)
(* shared page or makes an unshared one writable (rmap_pgflt), and         *)
(* deallocuvm() gives a page back when the reverse map lists nobody.       *)
(* Page tables are indexed by page number 1 .. MaxPages.                   *)
(*                                                                         *)
(* Processes run on several CPUs and are preempted in the kernel, so every *)
(* section under rmap_lock or kmem.lock is a step of its own.  A process   *)
(* alone reads and writes the entries of its own page directory, so those  *)
(* accesses are part of the neighbouring step.  wait() keeps ptable.lock   *)
(* while it frees a child's memory; exec() and growproc() free memory      *)
(* without that lock.                                                      *)
(***************************************************************************)
EXTENDS Integers, FiniteSets

CONSTANTS
  Proc,       \* entries of the process table
  First,      \* the process that exists at boot
  NoProc,
  Pgdir,      \* page directories
  NoDir,
  Page,       \* pages of physical memory
  NoPage,
  Val, Zero,  \* contents of a page; what a new page holds
  Junk,       \* what kfree() fills a page with
  MaxPages,   \* the largest address space
  Deallocs    \* processes that exec or shrink in this instance

ASSUME ConstantsAssumption ==
  /\ First \in Proc /\ NoProc \notin Proc /\ NoDir \notin Pgdir
  /\ NoPage \notin Page /\ Zero \in Val /\ Junk \notin Val
  /\ MaxPages \in Nat \ {0} /\ Deallocs \subseteq Proc
  /\ IsFiniteSet(Pgdir)

VARIABLES
  state,   \* p->state
  parent,  \* p->parent
  pgdir,   \* p->pgdir
  sz,      \* p->sz, in pages
  pte,     \* pte[d][i]: the entry for page i of page directory d
  rmap,    \* rmap[g].pgdirs: the directories listed for physical page g
  free,    \* how often a page is on the free list
  mem,     \* contents of physical pages
  lock,    \* the process that keeps ptable.lock across steps
  pc,      \* control point of each process
  loc      \* local variables of the kernel function each process runs

vars == <<state, parent, pgdir, sz, pte, rmap, free, mem, lock, pc, loc>>
procs == <<state, parent, pgdir, sz, lock>>

Index == 1 .. MaxPages
NoEntry == [pa |-> NoPage, w |-> FALSE]
Entry == [pa : Page, w : BOOLEAN] \cup {NoEntry}
NoLoc == [dir |-> NoDir, i |-> 0, n |-> 0, page |-> NoPage, kid |-> NoProc]

Mappers(g) == {d \in Pgdir : \E i \in Index : pte[d][i].pa = g}
UnusedDir(d) ==
  /\ \A p \in Proc : pgdir[p] # d /\ loc[p].dir # d
  /\ \A i \in Index : pte[d][i] = NoEntry

(* The entry a kernel loop of process p is at.                             *)
Here(p) == pte[loc[p].dir][loc[p].i]
SetHere(p, e) == [pte EXCEPT ![loc[p].dir][loc[p].i] = e]
Goto(p, l) == pc' = [pc EXCEPT ![p] = l]

Init ==
  \E g \in Page, d \in Pgdir :
    /\ state = [p \in Proc |-> IF p = First THEN "running" ELSE "unused"]
    /\ parent = [p \in Proc |-> NoProc]
    /\ pgdir = [p \in Proc |-> IF p = First THEN d ELSE NoDir]
    /\ sz = [p \in Proc |-> IF p = First THEN 1 ELSE 0]
    /\ pte = [e \in Pgdir |-> [i \in Index |->
                IF e = d /\ i = 1 THEN [pa |-> g, w |-> TRUE] ELSE NoEntry]]
    /\ rmap = [h \in Page |-> IF h = g THEN {d} ELSE {}]
    /\ free = [h \in Page |-> IF h = g THEN 0 ELSE 1]
    /\ mem = [h \in Page |-> IF h = g THEN Zero ELSE Junk]
    /\ lock = NoProc
    /\ pc = [p \in Proc |-> "user"]
    /\ loc = [p \in Proc |-> NoLoc]

-----------------------------------------------------------------------------
(* The user program writes: the page is writable, or T_PGFLT is raised and *)
(* swap_in() passes it to rmap_pgflt().                                    *)

User(p) == state[p] = "running" /\ pc[p] = "user"

Write(p, i, v) ==
  /\ User(p) /\ i <= sz[p] /\ pte[pgdir[p]][i].w
  /\ mem' = [mem EXCEPT ![pte[pgdir[p]][i].pa] = v]
  /\ UNCHANGED <<procs, pte, rmap, free, pc, loc>>

Fault(p, i) ==
  /\ User(p) /\ i <= sz[p] /\ ~pte[pgdir[p]][i].w
  /\ Goto(p, "fault")
  /\ loc' = [loc EXCEPT ![p] = [NoLoc EXCEPT !.dir = pgdir[p], !.i = i]]
  /\ UNCHANGED <<procs, pte, rmap, free, mem>>

(* Faulty: every faulting process is taken for the only user.              *)
FaultCountNever(p) ==
  /\ pc[p] = "fault"
  /\ Goto(p, "own")
  /\ UNCHANGED <<procs, pte, rmap, free, mem, loc>>

(* rmap_getcnt(pa) == 1: nobody else uses the page.                        *)
FaultCount(p) ==
  /\ pc[p] = "fault"
  /\ Goto(p, IF Cardinality(rmap[Here(p).pa]) = 1 THEN "own" ELSE "alloc")
  /\ UNCHANGED <<procs, pte, rmap, free, mem, loc>>

MakeWritable(p) ==
  /\ pc[p] = "own"
  /\ pte' = SetHere(p, [Here(p) EXCEPT !.w = TRUE])
  /\ Goto(p, "user")
  /\ loc' = [loc EXCEPT ![p] = NoLoc]
  /\ UNCHANGED <<procs, rmap, free, mem>>

(* kalloc() while the free list is not empty.                              *)
Take(p, g) ==
  /\ free[g] > 0
  /\ free' = [free EXCEPT ![g] = @ - 1]
  /\ loc' = [loc EXCEPT ![p].page = g]

FaultAlloc(p, g) ==
  /\ pc[p] = "alloc"
  /\ Take(p, g)
  /\ Goto(p, "copy")
  /\ UNCHANGED <<procs, pte, rmap, mem>>

FaultCopy(p) ==
  /\ pc[p] = "copy"
  /\ mem' = [mem EXCEPT ![loc[p].page] = mem[Here(p).pa]]
  /\ Goto(p, "leave")
  /\ UNCHANGED <<procs, pte, rmap, free, loc>>

(* rmap_rm(pa, pgdir) *)
FaultLeave(p) ==
  /\ pc[p] = "leave"
  /\ rmap' = [rmap EXCEPT ![Here(p).pa] = @ \ {loc[p].dir}]
  /\ Goto(p, "remap")
  /\ UNCHANGED <<procs, pte, free, mem, loc>>

(* rmap_add(V2P(mem), pgdir) and the new entry.                            *)
FaultRemap(p) ==
  /\ pc[p] = "remap"
  /\ rmap' = [rmap EXCEPT ![loc[p].page] = @ \cup {loc[p].dir}]
  /\ pte' = SetHere(p, [pa |-> loc[p].page, w |-> TRUE])
  /\ Goto(p, "user")
  /\ loc' = [loc EXCEPT ![p] = NoLoc]
  /\ UNCHANGED <<procs, free, mem>>

-----------------------------------------------------------------------------
(* fork(): allocproc(), then copyuvm() page by page.                       *)

Fork(p, c, d) ==
  /\ User(p) /\ lock = NoProc /\ state[c] = "unused" /\ UnusedDir(d)
  /\ state' = [state EXCEPT ![c] = "embryo"]
  /\ Goto(p, "share")
  /\ loc' = [loc EXCEPT ![p] =
               [NoLoc EXCEPT !.dir = d, !.i = 1, !.kid = c]]
  /\ UNCHANGED <<parent, pgdir, sz, pte, rmap, free, mem, lock>>

(* Faulty: the parent keeps its write permission.                          *)
SharePageWritable(p) ==
  LET i == loc[p].i
      d == loc[p].dir
      e == [pte[pgdir[p]][i] EXCEPT !.w = FALSE] IN
  /\ pc[p] = "share" /\ i <= sz[p]
  /\ pte' = [pte EXCEPT ![d][i] = e]
  /\ rmap' = [rmap EXCEPT ![e.pa] = @ \cup {d}]
  /\ loc' = [loc EXCEPT ![p].i = i + 1]
  /\ UNCHANGED <<procs, free, mem, pc>>

(* Faulty: the child is not added to the reverse map.                      *)
SharePageUnlisted(p) ==
  LET i == loc[p].i
      e == [pte[pgdir[p]][i] EXCEPT !.w = FALSE] IN
  /\ pc[p] = "share" /\ i <= sz[p]
  /\ pte' = [pte EXCEPT ![pgdir[p]][i] = e, ![loc[p].dir][i] = e]
  /\ loc' = [loc EXCEPT ![p].i = i + 1]
  /\ UNCHANGED <<procs, rmap, free, mem, pc>>

(* *pte &= ~PTE_W, the same entry for the child, rmap_add(pa, d).          *)
SharePage(p) ==
  LET i == loc[p].i
      d == loc[p].dir
      e == [pte[pgdir[p]][i] EXCEPT !.w = FALSE] IN
  /\ pc[p] = "share" /\ i <= sz[p]
  /\ pte' = [pte EXCEPT ![pgdir[p]][i] = e, ![d][i] = e]
  /\ rmap' = [rmap EXCEPT ![e.pa] = @ \cup {d}]
  /\ loc' = [loc EXCEPT ![p].i = i + 1]
  /\ UNCHANGED <<procs, free, mem, pc>>

ForkReturn(p) ==
  LET c == loc[p].kid IN
  /\ pc[p] = "share" /\ loc[p].i > sz[p] /\ lock = NoProc
  /\ state' = [state EXCEPT ![c] = "running"]
  /\ parent' = [parent EXCEPT ![c] = p]
  /\ pgdir' = [pgdir EXCEPT ![c] = loc[p].dir]
  /\ sz' = [sz EXCEPT ![c] = sz[p]]
  /\ Goto(p, "user")
  /\ loc' = [loc EXCEPT ![p] = NoLoc]
  /\ UNCHANGED <<pte, rmap, free, mem, lock>>

-----------------------------------------------------------------------------
(* growproc(PGSIZE) and the new image of exec(): allocuvm() page by page.  *)

Grow(p) ==
  /\ User(p) /\ sz[p] < MaxPages
  /\ Goto(p, "grow")
  /\ loc' = [loc EXCEPT ![p] = [NoLoc EXCEPT
               !.dir = pgdir[p], !.i = sz[p] + 1, !.n = sz[p] + 1]]
  /\ UNCHANGED <<procs, pte, rmap, free, mem>>

Exec(p, d, n) ==
  /\ User(p) /\ p \in Deallocs /\ UnusedDir(d)
  /\ Goto(p, "load")
  /\ loc' = [loc EXCEPT ![p] = [NoLoc EXCEPT !.dir = d, !.i = 1, !.n = n]]
  /\ UNCHANGED <<procs, pte, rmap, free, mem>>

(* kalloc() and memset() *)
NewPage(p, g) ==
  /\ pc[p] \in {"grow", "load"} /\ loc[p].page = NoPage /\ loc[p].i <= loc[p].n
  /\ Take(p, g)
  /\ mem' = [mem EXCEPT ![g] = Zero]
  /\ UNCHANGED <<procs, pte, rmap, pc>>

(* mappages() and rmap_add() *)
MapPage(p) ==
  LET g == loc[p].page IN
  /\ pc[p] \in {"grow", "load"} /\ g # NoPage
  /\ pte' = SetHere(p, [pa |-> g, w |-> TRUE])
  /\ rmap' = [rmap EXCEPT ![g] = @ \cup {loc[p].dir}]
  /\ loc' = [loc EXCEPT ![p].page = NoPage, ![p].i = @ + 1]
  /\ UNCHANGED <<procs, free, mem, pc>>

GrowReturn(p) ==
  /\ pc[p] = "grow" /\ loc[p].i > loc[p].n
  /\ sz' = [sz EXCEPT ![p] = loc[p].n]
  /\ Goto(p, "user")
  /\ loc' = [loc EXCEPT ![p] = NoLoc]
  /\ UNCHANGED <<state, parent, pgdir, pte, rmap, free, mem, lock>>

(* exec() commits to the new image and frees the old one.                  *)
ExecCommit(p) ==
  /\ pc[p] = "load" /\ loc[p].i > loc[p].n
  /\ pgdir' = [pgdir EXCEPT ![p] = loc[p].dir]
  /\ sz' = [sz EXCEPT ![p] = loc[p].n]
  /\ Goto(p, "free")
  /\ loc' = [loc EXCEPT ![p] = [NoLoc EXCEPT
               !.dir = pgdir[p], !.i = 1, !.n = MaxPages]]
  /\ UNCHANGED <<state, parent, pte, rmap, free, mem, lock>>

-----------------------------------------------------------------------------
(* growproc(-PGSIZE), exit() and wait(): deallocuvm() page by page.        *)

Shrink(p) ==
  /\ User(p) /\ p \in Deallocs /\ sz[p] > 1
  /\ Goto(p, "free")
  /\ loc' = [loc EXCEPT ![p] = [NoLoc EXCEPT
               !.dir = pgdir[p], !.i = sz[p], !.n = sz[p]]]
  /\ UNCHANGED <<procs, pte, rmap, free, mem>>

Exit(p) ==
  /\ User(p) /\ p # First /\ lock = NoProc
  /\ state' = [state EXCEPT ![p] = "zombie"]
  /\ parent' = [c \in Proc |-> IF parent[c] = p THEN First ELSE parent[c]]
  /\ UNCHANGED <<pgdir, sz, pte, rmap, free, mem, lock, pc, loc>>

Wait(p, c) ==
  /\ User(p) /\ lock = NoProc /\ parent[c] = p /\ state[c] = "zombie"
  /\ lock' = p
  /\ Goto(p, "free")
  /\ loc' = [loc EXCEPT ![p] = [NoLoc EXCEPT
               !.dir = pgdir[c], !.i = 1, !.n = MaxPages, !.kid = c]]
  /\ UNCHANGED <<state, parent, pgdir, sz, pte, rmap, free, mem>>

SkipEntry(p) ==
  /\ pc[p] = "free" /\ loc[p].i <= loc[p].n /\ Here(p) = NoEntry
  /\ loc' = [loc EXCEPT ![p].i = @ + 1]
  /\ UNCHANGED <<procs, pte, rmap, free, mem, pc>>

(* rmap_rm(pa, pgdir) *)
FreeLeave(p) ==
  /\ pc[p] = "free" /\ loc[p].i <= loc[p].n /\ Here(p) # NoEntry
  /\ rmap' = [rmap EXCEPT ![Here(p).pa] = @ \ {loc[p].dir}]
  /\ Goto(p, "last")
  /\ UNCHANGED <<procs, pte, free, mem, loc>>

(* Faulty: shared pages are freed too.                                     *)
FreeLastAlways(p) ==
  LET g == Here(p).pa IN
  /\ pc[p] = "last"
  /\ free' = [free EXCEPT ![g] = @ + 1]
  /\ mem' = [mem EXCEPT ![g] = Junk]
  /\ pte' = SetHere(p, NoEntry)
  /\ Goto(p, "free")
  /\ loc' = [loc EXCEPT ![p].i = @ + 1]
  /\ UNCHANGED <<procs, rmap>>

(* if(rmap_getcnt(pa) == 0) kfree(v); *pte = 0 *)
FreeLast(p) ==
  LET g == Here(p).pa IN
  /\ pc[p] = "last"
  /\ IF rmap[g] = {}
       THEN /\ free' = [free EXCEPT ![g] = @ + 1]
            /\ mem' = [mem EXCEPT ![g] = Junk]
       ELSE UNCHANGED <<free, mem>>
  /\ pte' = SetHere(p, NoEntry)
  /\ Goto(p, "free")
  /\ loc' = [loc EXCEPT ![p].i = @ + 1]
  /\ UNCHANGED <<procs, rmap>>

FreeDone(p) == pc[p] = "free" /\ loc[p].i > loc[p].n

(* growproc() or exec() returns.                                           *)
FreeReturn(p) ==
  /\ FreeDone(p) /\ loc[p].kid = NoProc
  /\ sz' = IF loc[p].dir = pgdir[p] THEN [sz EXCEPT ![p] = @ - 1] ELSE sz
  /\ Goto(p, "user")
  /\ loc' = [loc EXCEPT ![p] = NoLoc]
  /\ UNCHANGED <<state, parent, pgdir, pte, rmap, free, mem, lock>>

(* wait() releases the child's table entry and ptable.lock.                *)
WaitReturn(p) ==
  LET c == loc[p].kid IN
  /\ FreeDone(p) /\ c # NoProc
  /\ state' = [state EXCEPT ![c] = "unused"]
  /\ parent' = [parent EXCEPT ![c] = NoProc]
  /\ pgdir' = [pgdir EXCEPT ![c] = NoDir]
  /\ sz' = [sz EXCEPT ![c] = 0]
  /\ lock' = NoProc
  /\ Goto(p, "user")
  /\ loc' = [loc EXCEPT ![p] = NoLoc]
  /\ UNCHANGED <<pte, rmap, free, mem>>

-----------------------------------------------------------------------------

Kernel(p) ==
  \/ FaultCount(p) \/ MakeWritable(p) \/ FaultCopy(p) \/ FaultLeave(p)
  \/ FaultRemap(p) \/ SharePage(p) \/ ForkReturn(p) \/ MapPage(p)
  \/ GrowReturn(p) \/ ExecCommit(p) \/ SkipEntry(p) \/ FreeLeave(p)
  \/ FreeLast(p) \/ FreeReturn(p) \/ WaitReturn(p)
  \/ \E g \in Page : FaultAlloc(p, g) \/ NewPage(p, g)

Syscall(p) ==
  \/ Grow(p) \/ Shrink(p) \/ Exit(p)
  \/ \E c \in Proc : Wait(p, c)
  \/ \E d \in Pgdir, c \in Proc : Fork(p, c, d)
  \/ \E d \in Pgdir, n \in Index : Exec(p, d, n)

Next ==
  \/ \E p \in Proc : Kernel(p) \/ Syscall(p)
  \/ \E p \in Proc, i \in Index : Fault(p, i)
  \/ \E p \in Proc, i \in Index, v \in Val : Write(p, i, v)

Spec == Init /\ [][Next]_vars

-----------------------------------------------------------------------------
(* The state of every variable.                                            *)
TypeOK ==
  /\ state \in [Proc -> {"unused", "embryo", "running", "zombie"}]
  /\ parent \in [Proc -> Proc \cup {NoProc}]
  /\ pgdir \in [Proc -> Pgdir \cup {NoDir}]
  /\ sz \in [Proc -> 0 .. MaxPages]
  /\ pte \in [Pgdir -> [Index -> Entry]]
  /\ rmap \in [Page -> SUBSET Pgdir]
  /\ free \in [Page -> Nat]
  /\ mem \in [Page -> Val \cup {Junk}]
  /\ lock \in Proc \cup {NoProc}
  /\ pc \in [Proc -> {"user", "fault", "own", "alloc", "copy", "leave", "remap",
                      "share", "grow", "load", "free", "last"}]
  /\ loc \in [Proc -> [dir : Pgdir \cup {NoDir}, i : 0 .. MaxPages + 1,
                       n : 0 .. MaxPages, page : Page \cup {NoPage},
                       kid : Proc \cup {NoProc}]]

(* Directory d is between its rmap_rm() and the change of its entry.       *)
InTransit(d, g) ==
  \E p \in Proc : /\ pc[p] \in {"remap", "last"}
                  /\ loc[p].dir = d /\ Here(p).pa = g

(* The page tables through which page g can still be reached.              *)
Users(g) == {d \in Mappers(g) : ~InTransit(d, g)}

(* A page one process may write is used by no other page table: a store    *)
(* can never reach memory that another process sees.                       *)
WritableIsExclusive ==
  \A d \in Pgdir, i \in Index :
    LET g == pte[d][i].pa IN
    pte[d][i].w /\ d \in Users(g) => Users(g) = {d}

(* No page table in use refers to a page that is on the free list.         *)
NoDanglingPte == \A g \in Page : Users(g) # {} => free[g] = 0

(* kfree() is never called twice for one page: the free list holds a page  *)
(* at most once.                                                           *)
NoDoubleFree == \A g \in Page : free[g] <= 1

(* rmap tells the truth: it lists exactly the page tables that use a page, *)
(* whatever faults, forks and exits are under way.                         *)
RmapExact == \A g \in Page : rmap[g] = Users(g)

(* A page is free, mapped, or in the hands of a process in the kernel: no  *)
(* page is lost.                                                           *)
NoOrphanPage ==
  \A g \in Page : free[g] = 0 =>
    Mappers(g) # {} \/ \E p \in Proc : loc[p].page = g

Size(p) ==
  IF pc[p] \in {"free", "last"} /\ loc[p].dir = pgdir[p]
    THEN loc[p].n - 1 ELSE sz[p]

(* The page behind page number i of process p; a fault that has left the   *)
(* shared page has its private copy in hand.                               *)
Behind(p, i) ==
  IF pc[p] = "remap" /\ loc[p].i = i THEN loc[p].page ELSE pte[pgdir[p]][i].pa

(* The memory a process that runs sees, and the processes that run their   *)
(* program and not the kernel.                                             *)
Sees(p) ==
  IF state[p] = "running" THEN [i \in 1 .. Size(p) |-> mem[Behind(p, i)]] ELSE <<>>
images == [p \in Proc |-> Sees(p)]
inUser == [p \in Proc |-> pc[p] = "user"]

(* Sharing cannot be observed: every process has a memory of its own.      *)
Private == INSTANCE PrivateMemory WITH user <- inUser, image <- images

PrivateSpec == Private!Spec
=============================================================================
