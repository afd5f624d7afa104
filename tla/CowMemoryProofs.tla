--------------------------- MODULE CowMemoryProofs ---------------------------
(***************************************************************************)
(* The reverse map tells the truth, and sharing is safe, for every number  *)
(* of processes, page directories and pages, and for address spaces of     *)
(* every size - as long as the one race of deallocuvm() does not happen:   *)
(* two processes between rmap_rm() and kfree() of the same page.  Where    *)
(* only wait() frees address spaces, ptable.lock rules that race out.      *)
(***************************************************************************)
EXTENDS CowMemory, FiniteSetTheorems, SequenceTheorems, TLAPS

(* The race: each of the two finds the reverse map empty and calls kfree().*)
NoRace ==
  \A p, q \in Proc :
    pc[p] = "last" /\ pc[q] = "last" /\ Here(p).pa = Here(q).pa => p = q

Faulting == {"fault", "own", "alloc", "copy", "leave", "remap"}
Freeing == {"free", "last"}
Leaving == {"remap", "last"}

(* What the local variables of each kernel function say.                   *)
Locals ==
  \A p \in Proc :
    /\ pc[p] = "user" => loc[p] = NoLoc
    /\ pc[p] # "user" =>
         state[p] = "running" /\ loc[p].dir \in Pgdir /\ loc[p].i >= 1
    /\ pc[p] \in Faulting => loc[p].dir = pgdir[p] /\ loc[p].i <= sz[p]
    /\ pc[p] = "share" => loc[p].i <= sz[p] + 1
    /\ pc[p] = "grow" => /\ loc[p].dir = pgdir[p] /\ loc[p].n = sz[p] + 1
                         /\ loc[p].i \in {loc[p].n, loc[p].n + 1}
    /\ pc[p] \in {"load", "free"} => loc[p].i <= loc[p].n + 1
    /\ pc[p] = "last" => loc[p].i <= loc[p].n /\ Here(p) # NoEntry
    /\ pc[p] \in Freeing /\ loc[p].dir = pgdir[p] =>
         /\ loc[p].n = sz[p] /\ sz[p] > 1 /\ loc[p].i >= loc[p].n
         /\ loc[p].kid = NoProc
    /\ loc[p].page # NoPage =>
         \/ pc[p] \in {"copy", "leave", "remap"}
         \/ pc[p] \in {"grow", "load"} /\ loc[p].i <= loc[p].n
    /\ pc[p] \in {"copy", "leave", "remap"} => loc[p].page # NoPage

(* The table entry that fork() fills in, and the one that wait() frees.    *)
Kids ==
  /\ \A p \in Proc : pc[p] = "share" =>
       loc[p].kid \in Proc /\ state[loc[p].kid] = "embryo"
  /\ \A p, q \in Proc :
       pc[p] = "share" /\ pc[q] = "share" /\ loc[p].kid = loc[q].kid => p = q
  /\ \A p \in Proc : loc[p].kid # NoProc /\ pc[p] # "share" =>
       /\ pc[p] \in Freeing /\ lock = p
       /\ state[loc[p].kid] = "zombie" /\ loc[p].dir = pgdir[loc[p].kid]

(* A page directory belongs to one process, or is being filled by fork()   *)
(* or exec(), or freed by exec() or wait().                                *)
Dirs ==
  /\ \A p \in Proc : pgdir[p] \in Pgdir <=> state[p] \in {"running", "zombie"}
  /\ \A p, q \in Proc : pgdir[p] = pgdir[q] /\ pgdir[p] # NoDir => p = q
  /\ \A p, q \in Proc : loc[p].dir = loc[q].dir /\ loc[p].dir # NoDir => p = q
  /\ \A p, q \in Proc : loc[p].dir = pgdir[q] /\ loc[p].dir # NoDir =>
       IF p = q THEN pc[p] \notin {"share", "load"}
                ELSE pc[p] \in Freeing /\ loc[p].kid = q

(* How many pages a process has mapped.                                    *)
Bound(p) ==
  IF pc[p] = "grow" THEN loc[p].i - 1
  ELSE IF pc[p] \in Freeing /\ loc[p].dir = pgdir[p] /\ loc[p].i > loc[p].n
    THEN sz[p] - 1
  ELSE sz[p]

Shape ==
  /\ \A p \in Proc : state[p] = "running" =>
       \A i \in Index : i <= Bound(p) <=> pte[pgdir[p]][i] # NoEntry
  /\ \A p \in Proc : pc[p] = "share" =>
       \A i \in Index :
         IF i < loc[p].i THEN pte[loc[p].dir][i].pa = pte[pgdir[p]][i].pa
                         ELSE pte[loc[p].dir][i] = NoEntry
  /\ \A p \in Proc : pc[p] = "load" =>
       \A i \in Index : i < loc[p].i <=> pte[loc[p].dir][i] # NoEntry

(* No page appears twice in one page table.                                *)
Once ==
  \A d \in Pgdir, i, j \in Index :
    pte[d][i].pa = pte[d][j].pa /\ pte[d][i].pa # NoPage => i = j

(* An entry whose page a process has left and that it has yet to change.   *)
Busy(d, i) ==
  \E p \in Proc : pc[p] \in Leaving /\ loc[p].dir = d /\ loc[p].i = i

(* The reverse map lists a directory for each entry it still uses.         *)
Listed ==
  \A g \in Page, d \in Pgdir :
    d \in rmap[g] <=> \E i \in Index : pte[d][i].pa = g /\ ~Busy(d, i)

(* A page that kalloc() gave to a process is nobody else's.                *)
Held ==
  \A p \in Proc : loc[p].page # NoPage =>
    /\ free[loc[p].page] = 0 /\ rmap[loc[p].page] = {}
    /\ \A q \in Proc : loc[q].page = loc[p].page => q = p

(* A page is not free while it is listed, or about to be freed.            *)
Freed ==
  /\ \A g \in Page : free[g] <= 1
  /\ \A g \in Page : rmap[g] # {} => free[g] = 0
  /\ \A p \in Proc : pc[p] = "last" =>
       /\ free[Here(p).pa] = 0
       /\ \A q \in Proc : loc[q].page # Here(p).pa

(* Who may write a page, or has just found that he may, is its only user.  *)
Exclusive ==
  /\ \A d \in Pgdir, i \in Index :
       pte[d][i].w /\ ~Busy(d, i) => rmap[pte[d][i].pa] = {d}
  /\ \A p \in Proc : pc[p] = "own" => rmap[Here(p).pa] = {loc[p].dir}

Control == TypeOK /\ Locals /\ Kids /\ Dirs /\ Shape
Pages == Once /\ Listed /\ Held /\ Freed /\ Exclusive
Inv == Control /\ Pages

-----------------------------------------------------------------------------
(* Steps that change no entry, no list and no page in hand.                *)
LEMMA PagesFrame ==
  ASSUME Pages, pte' = pte, rmap' = rmap, free' = free,
         \A p \in Proc : loc'[p].page = loc[p].page,
         \A p \in Proc : pc[p] \in Leaving \/ pc'[p] \in Leaving =>
           /\ pc'[p] = pc[p]
           /\ loc'[p].dir = loc[p].dir /\ loc'[p].i = loc[p].i,
         \A p \in Proc : pc'[p] = "own" =>
           rmap[pte[loc'[p].dir][loc'[p].i].pa] = {loc'[p].dir}
  PROVE  Pages'
<1>1. \A d, i : Busy(d, i)' <=> Busy(d, i)
  BY DEF Busy
<1>2. Once' /\ Listed'
  BY <1>1 DEF Pages, Once, Listed
<1>3. Held'
  BY DEF Pages, Held
<1>4. Freed'
  BY DEF Pages, Freed, Here, Leaving
<1>5. Exclusive'
  BY <1>1 DEF Pages, Exclusive, Here
<1> QED
  BY <1>2, <1>3, <1>4, <1>5 DEF Pages

(* The user program writes.                                                *)
LEMMA WriteStep ==
  ASSUME Inv, NEW p \in Proc, NEW i \in Index, NEW v \in Val, Write(p, i, v)
  PROVE  Inv'
<1>1. /\ state' = state /\ parent' = parent /\ pgdir' = pgdir /\ sz' = sz
      /\ lock' = lock /\ pte' = pte /\ rmap' = rmap /\ free' = free
      /\ pc' = pc /\ loc' = loc /\ mem' \in [Page -> Val \cup {Junk}]
  BY DEF Write, procs, Inv, Control, TypeOK
<1>2. TypeOK' /\ Locals' /\ Kids'
  BY <1>1 DEF Inv, Control, TypeOK, Locals, Kids, Here
<1>3. Dirs' /\ Shape'
  BY <1>1 DEF Inv, Control, Dirs, Shape, Bound
<1>4. Pages'
  BY <1>1, PagesFrame DEF Inv, Pages, Exclusive, Here
<1> QED
  BY <1>2, <1>3, <1>4 DEF Inv, Control

LEMMA FaultStep ==
  ASSUME Inv, NEW p \in Proc, NEW i \in Index, Fault(p, i)
  PROVE  Inv'
<1>0. /\ TypeOK /\ pgdir[p] \in Pgdir /\ state[p] = "running"
      /\ pc[p] = "user" /\ loc[p] = NoLoc /\ i <= sz[p]
  BY DEF Inv, Control, Locals, Dirs, Fault, User
<1>1. /\ state' = state /\ parent' = parent /\ pgdir' = pgdir /\ sz' = sz
      /\ lock' = lock /\ pte' = pte /\ rmap' = rmap /\ free' = free
      /\ mem' = mem
  BY DEF Fault, procs
<1>2. /\ pc'[p] = "fault"
      /\ loc'[p] = [dir |-> pgdir[p], i |-> i, n |-> 0, page |-> NoPage,
                    kid |-> NoProc]
      /\ \A q \in Proc : q # p => pc'[q] = pc[q] /\ loc'[q] = loc[q]
  BY <1>0 DEF Fault, Goto, NoLoc, TypeOK
<1>3. TypeOK'
  BY <1>0, <1>1, <1>2, ConstantsAssumption DEF Fault, Goto, TypeOK, Index
<1>4. Locals' /\ Kids'
  BY <1>0, <1>1, <1>2, ConstantsAssumption
  DEF Inv, Control, Locals, Kids, Here, Faulting, Freeing, Index
<1>5. Dirs'
  BY <1>0, <1>1, <1>2, ConstantsAssumption
  DEF Inv, Control, Kids, Dirs, Freeing
<1>6. Shape'
  BY <1>0, <1>1, <1>2 DEF Inv, Control, Shape, Bound, Freeing
<1>7. Pages'
  <2>1. loc[p].page = NoPage
    BY <1>0 DEF NoLoc
  <2>2. \A q \in Proc : pc'[q] = "own" => q # p /\ pc[q] = "own"
    BY <1>2
  <2>3. \A q \in Proc : pc'[q] = "own" =>
           rmap[pte[loc'[q].dir][loc'[q].i].pa] = {loc'[q].dir}
    BY <1>2, <2>2 DEF Inv, Pages, Exclusive, Here
  <2>4. \A q \in Proc : loc'[q].page = loc[q].page
    BY <1>2, <2>1
  <2>5. \A q \in Proc : pc[q] \in Leaving \/ pc'[q] \in Leaving => q # p
    BY <1>0, <1>2 DEF Leaving
  <2>6. QED
    BY <1>1, <1>2, <2>3, <2>4, <2>5, PagesFrame DEF Inv
<1> QED
  BY <1>3, <1>4, <1>5, <1>6, <1>7 DEF Inv, Control

LEMMA EntryType ==
  ASSUME TypeOK, NEW d \in Pgdir, NEW i \in Index
  PROVE  /\ pte[d][i] \in Entry
         /\ pte[d][i] # NoEntry <=> pte[d][i].pa # NoPage
         /\ pte[d][i] # NoEntry <=> pte[d][i].pa \in Page
         /\ pte[d][i].w \in BOOLEAN
         /\ pte[d][i].w => pte[d][i].pa \in Page
<1>1. pte[d][i] \in Entry
  BY DEF TypeOK
<1>2. ASSUME NEW e \in Entry
      PROVE  /\ e # NoEntry <=> e.pa # NoPage
             /\ e # NoEntry <=> e.pa \in Page
             /\ e.w \in BOOLEAN
             /\ e.w => e.pa \in Page
  <2>1. CASE e = NoEntry
    BY <2>1, ConstantsAssumption DEF NoEntry
  <2>2. CASE e \in [pa : Page, w : BOOLEAN]
    BY <2>2, ConstantsAssumption DEF NoEntry
  <2>3. QED
    BY <2>1, <2>2 DEF Entry
<1> QED
  BY <1>1, <1>2

LEMMA LocType ==
  ASSUME TypeOK, NEW p \in Proc
  PROVE  /\ loc[p].dir \in Pgdir \cup {NoDir} /\ loc[p].i \in 0 .. MaxPages + 1
         /\ loc[p].n \in 0 .. MaxPages /\ loc[p].page \in Page \cup {NoPage}
         /\ loc[p].kid \in Proc \cup {NoProc} /\ sz[p] \in 0 .. MaxPages
         /\ pgdir[p] \in Pgdir \cup {NoDir} /\ MaxPages \in Nat \ {0}
BY ConstantsAssumption DEF TypeOK

LEMMA SetW ==
  ASSUME NEW e \in Entry, e # NoEntry, NEW b
  PROVE  [e EXCEPT !.w = b] = [pa |-> e.pa, w |-> b]
<1>1. PICK a \in Page, w \in BOOLEAN : e = [pa |-> a, w |-> w]
  BY DEF Entry
<1> QED
  BY <1>1

(* A process handling a page fault: the entry it is at is mapped.          *)
LEMMA FaultingAt ==
  ASSUME Inv, NEW p \in Proc, pc[p] \in Faulting
  PROVE  /\ TypeOK /\ loc[p].dir = pgdir[p] /\ loc[p].dir \in Pgdir
         /\ loc[p].i \in Index /\ loc[p].i <= sz[p]
         /\ state[p] = "running" /\ Here(p) # NoEntry /\ Here(p).pa \in Page
         /\ loc[p].kid = NoProc
<1>1. TypeOK /\ loc[p].dir = pgdir[p] /\ loc[p].i <= sz[p] /\ pc[p] # "user"
  BY DEF Inv, Control, Locals, Faulting
<1>2. state[p] = "running" /\ loc[p].dir \in Pgdir /\ loc[p].i >= 1
  BY <1>1 DEF Inv, Control, Locals
<1>3. loc[p].i \in Index
  BY <1>1, <1>2, LocType DEF Index
<1>4. loc[p].i <= Bound(p)
  BY <1>1 DEF Bound, Freeing, Faulting
<1>5. Here(p) # NoEntry
  BY <1>1, <1>2, <1>3, <1>4 DEF Inv, Control, Shape, Here
<1>6. loc[p].kid = NoProc
  BY DEF Inv, Control, Kids, Faulting, Freeing
<1> QED
  BY <1>1, <1>2, <1>3, <1>5, <1>6, EntryType DEF Here

(* A process moves from one point of the kernel to another and takes       *)
(* nothing with it.                                                        *)
LEMMA QuietPages ==
  ASSUME Inv, NEW p \in Proc, pte' = pte, rmap' = rmap, free' = free,
         \A q \in Proc : q # p => pc'[q] = pc[q] /\ loc'[q] = loc[q],
         loc'[p].page = loc[p].page,
         pc[p] \notin Leaving, pc'[p] \notin Leaving, pc'[p] # "own"
  PROVE  Pages'
<1>1. \A q \in Proc : pc'[q] = "own" =>
        rmap[pte[loc'[q].dir][loc'[q].i].pa] = {loc'[q].dir}
  BY DEF Inv, Pages, Exclusive, Here
<1>2. \A q \in Proc : loc'[q].page = loc[q].page
  OBVIOUS
<1>3. \A q \in Proc : pc[q] \in Leaving \/ pc'[q] \in Leaving => q # p
  OBVIOUS
<1> QED
  BY <1>1, <1>2, <1>3, PagesFrame DEF Inv

(* rmap_getcnt() says that nobody else uses the page, or that somebody     *)
(* does; the page is listed for the process itself.                        *)
LEMMA FaultCountStep ==
  ASSUME Inv, NEW p \in Proc, FaultCount(p)
  PROVE  Inv'
<1> DEFINE g == Here(p).pa
           d == loc[p].dir
<1>0. /\ TypeOK /\ d = pgdir[p] /\ d \in Pgdir /\ loc[p].i \in Index
      /\ loc[p].i <= sz[p] /\ pc[p] = "fault" /\ state[p] = "running"
      /\ g \in Page /\ loc[p].kid = NoProc
  BY FaultingAt DEF FaultCount, Faulting
<1>1. /\ state' = state /\ parent' = parent /\ pgdir' = pgdir /\ sz' = sz
      /\ lock' = lock /\ pte' = pte /\ rmap' = rmap /\ free' = free
      /\ mem' = mem /\ loc' = loc
      /\ \A q \in Proc : q # p => pc'[q] = pc[q]
      /\ pc'[p] = IF Cardinality(rmap[g]) = 1 THEN "own" ELSE "alloc"
  BY <1>0 DEF FaultCount, procs, Goto, TypeOK
<1>2. TypeOK'
  BY <1>0, <1>1 DEF FaultCount, Goto, TypeOK
<1>3. Locals' /\ Kids'
  <2>1. Locals'
    <3>1. /\ Locals /\ \A q \in Proc : Here(q)' = Here(q)
          /\ pc'[p] \in {"own", "alloc"} /\ pc[p] = "fault"
      BY <1>0, <1>1 DEF Inv, Control, Here
    <3>2. QED
      BY <1>0, <1>1, <3>1 DEF Locals, Faulting, Freeing
  <2>2. Kids'
    BY <1>0, <1>1, SMTT(30) DEF Inv, Control, Kids, Freeing
  <2>3. QED
    BY <2>1, <2>2
<1>4. Dirs'
  BY <1>0, <1>1 DEF Inv, Control, Dirs, Freeing
<1>5. Shape'
  BY <1>0, <1>1 DEF Inv, Control, Shape, Bound, Freeing
<1>6. d \in rmap[g]
  <2>1. ~Busy(d, loc[p].i)
    BY <1>0, ConstantsAssumption DEF Inv, Control, Dirs, Busy, Leaving
  <2>2. QED
    BY <1>0, <2>1 DEF Inv, Pages, Listed, Here
<1>7. Cardinality(rmap[g]) = 1 => rmap[g] = {d}
  <2> SUFFICES ASSUME Cardinality(rmap[g]) = 1 PROVE rmap[g] = {d}
    OBVIOUS
  <2>1. IsFiniteSet(rmap[g])
    BY <1>0, <1>6, ConstantsAssumption, FS_Subset DEF TypeOK
  <2>2. PICK e : rmap[g] = {e}
    BY <2>1, FS_Singleton
  <2>3. QED
    BY <1>6, <2>2
<1>8. Pages'
  <2>1. \A q \in Proc : pc'[q] = "own" =>
          rmap[pte[loc'[q].dir][loc'[q].i].pa] = {loc'[q].dir}
    BY <1>1, <1>7 DEF Inv, Pages, Exclusive, Here
  <2>2. \A q \in Proc : pc[q] \in Leaving \/ pc'[q] \in Leaving => q # p
    BY <1>0, <1>1 DEF Leaving
  <2>3. QED
    BY <1>1, <2>1, <2>2, PagesFrame DEF Inv
<1> QED
  BY <1>2, <1>3, <1>4, <1>5, <1>8 DEF Inv, Control

LEMMA FaultCopyStep ==
  ASSUME Inv, NEW p \in Proc, FaultCopy(p)
  PROVE  Inv'
<1>0. /\ TypeOK /\ pc[p] = "copy" /\ Here(p).pa \in Page
      /\ loc[p].dir = pgdir[p]
  BY FaultingAt DEF FaultCopy, Faulting
<1>1. /\ state' = state /\ parent' = parent /\ pgdir' = pgdir /\ sz' = sz
      /\ lock' = lock /\ pte' = pte /\ rmap' = rmap /\ free' = free
      /\ loc' = loc /\ pc'[p] = "leave"
      /\ \A q \in Proc : q # p => pc'[q] = pc[q]
  BY <1>0 DEF FaultCopy, procs, Goto, TypeOK
<1>2. TypeOK'
  BY <1>0, <1>1 DEF FaultCopy, Goto, TypeOK
<1>3. Locals' /\ Kids'
  BY <1>0, <1>1
  DEF Inv, Control, Locals, Kids, Here, Faulting, Freeing
<1>4. Dirs'
  BY <1>0, <1>1 DEF Inv, Control, Dirs, Freeing
<1>5. Shape'
  BY <1>0, <1>1 DEF Inv, Control, Shape, Bound, Freeing
<1>6. Pages'
  BY <1>0, <1>1, QuietPages DEF Leaving
<1> QED
  BY <1>2, <1>3, <1>4, <1>5, <1>6 DEF Inv, Control

(* growproc() starts to map one page more.                                 *)
LEMMA GrowStep ==
  ASSUME Inv, NEW p \in Proc, Grow(p)
  PROVE  Inv'
<1>0. /\ TypeOK /\ pgdir[p] \in Pgdir /\ state[p] = "running"
      /\ pc[p] = "user" /\ loc[p] = NoLoc /\ sz[p] < MaxPages
      /\ sz[p] \in 0 .. MaxPages /\ MaxPages \in Nat
  BY LocType DEF Inv, Control, Locals, Dirs, Grow, User
<1>1. /\ state' = state /\ parent' = parent /\ pgdir' = pgdir /\ sz' = sz
      /\ lock' = lock /\ pte' = pte /\ rmap' = rmap /\ free' = free
      /\ mem' = mem
  BY DEF Grow, procs
<1>2. /\ pc'[p] = "grow"
      /\ loc'[p] = [dir |-> pgdir[p], i |-> sz[p] + 1, n |-> sz[p] + 1,
                    page |-> NoPage, kid |-> NoProc]
      /\ \A q \in Proc : q # p => pc'[q] = pc[q] /\ loc'[q] = loc[q]
  BY <1>0 DEF Grow, Goto, NoLoc, TypeOK
<1>3. TypeOK'
  BY <1>0, <1>1, <1>2, ConstantsAssumption DEF Grow, Goto, TypeOK, NoLoc
<1>4. Locals' /\ Kids'
  BY <1>0, <1>1, <1>2, ConstantsAssumption
  DEF Inv, Control, Locals, Kids, Here, Faulting, Freeing
<1>5. Dirs'
  BY <1>0, <1>1, <1>2, ConstantsAssumption
  DEF Inv, Control, Kids, Dirs, Freeing
<1>6. Shape'
  BY <1>0, <1>1, <1>2 DEF Inv, Control, Shape, Bound, Freeing
<1>7. Pages'
  BY <1>0, <1>1, <1>2, QuietPages DEF Leaving, NoLoc
<1> QED
  BY <1>3, <1>4, <1>5, <1>6, <1>7 DEF Inv, Control

(* exec() starts to fill a page directory that nobody uses.                *)
LEMMA ExecStep ==
  ASSUME Inv, NEW p \in Proc, NEW d \in Pgdir, NEW n \in Index, Exec(p, d, n)
  PROVE  Inv'
<1>0. /\ TypeOK /\ pgdir[p] \in Pgdir /\ state[p] = "running"
      /\ pc[p] = "user" /\ loc[p] = NoLoc /\ MaxPages \in Nat
      /\ \A q \in Proc : pgdir[q] # d /\ loc[q].dir # d
      /\ \A i \in Index : pte[d][i] = NoEntry
      /\ d # NoDir /\ n \in 1 .. MaxPages
  BY LocType, ConstantsAssumption
  DEF Inv, Control, Locals, Dirs, Exec, User, UnusedDir, Index
<1>1. /\ state' = state /\ parent' = parent /\ pgdir' = pgdir /\ sz' = sz
      /\ lock' = lock /\ pte' = pte /\ rmap' = rmap /\ free' = free
      /\ mem' = mem
  BY DEF Exec, procs
<1>2. /\ pc'[p] = "load"
      /\ loc'[p] = [dir |-> d, i |-> 1, n |-> n, page |-> NoPage,
                    kid |-> NoProc]
      /\ \A q \in Proc : q # p => pc'[q] = pc[q] /\ loc'[q] = loc[q]
  BY <1>0 DEF Exec, Goto, NoLoc, TypeOK
<1>3. TypeOK'
  BY <1>0, <1>1, <1>2, ConstantsAssumption DEF Exec, Goto, TypeOK, NoLoc
<1>4. Locals' /\ Kids'
  BY <1>0, <1>1, <1>2, ConstantsAssumption
  DEF Inv, Control, Locals, Kids, Here, Faulting, Freeing
<1>5. Dirs'
  BY <1>0, <1>1, <1>2, ConstantsAssumption
  DEF Inv, Control, Kids, Dirs, Freeing
<1>6. Shape'
  BY <1>0, <1>1, <1>2 DEF Inv, Control, Shape, Bound, Freeing, Index
<1>7. Pages'
  BY <1>0, <1>1, <1>2, QuietPages DEF Leaving, NoLoc
<1> QED
  BY <1>3, <1>4, <1>5, <1>6, <1>7 DEF Inv, Control

(* growproc(-PGSIZE) starts to free the last page.                         *)
LEMMA ShrinkStep ==
  ASSUME Inv, NEW p \in Proc, Shrink(p)
  PROVE  Inv'
<1>0. /\ TypeOK /\ pgdir[p] \in Pgdir /\ state[p] = "running"
      /\ pc[p] = "user" /\ loc[p] = NoLoc /\ sz[p] > 1
      /\ sz[p] \in 0 .. MaxPages /\ MaxPages \in Nat
  BY LocType DEF Inv, Control, Locals, Dirs, Shrink, User
<1>1. /\ state' = state /\ parent' = parent /\ pgdir' = pgdir /\ sz' = sz
      /\ lock' = lock /\ pte' = pte /\ rmap' = rmap /\ free' = free
      /\ mem' = mem
  BY DEF Shrink, procs
<1>2. /\ pc'[p] = "free"
      /\ loc'[p] = [dir |-> pgdir[p], i |-> sz[p], n |-> sz[p],
                    page |-> NoPage, kid |-> NoProc]
      /\ \A q \in Proc : q # p => pc'[q] = pc[q] /\ loc'[q] = loc[q]
  BY <1>0 DEF Shrink, Goto, NoLoc, TypeOK
<1>3. TypeOK'
  BY <1>0, <1>1, <1>2, ConstantsAssumption DEF Shrink, Goto, TypeOK, NoLoc
<1>4. Locals' /\ Kids'
  BY <1>0, <1>1, <1>2, ConstantsAssumption
  DEF Inv, Control, Locals, Kids, Here, Faulting, Freeing
<1>5. Dirs'
  BY <1>0, <1>1, <1>2, ConstantsAssumption
  DEF Inv, Control, Kids, Dirs, Freeing
<1>6. Shape'
  BY <1>0, <1>1, <1>2 DEF Inv, Control, Shape, Bound, Freeing
<1>7. Pages'
  BY <1>0, <1>1, <1>2, QuietPages DEF Leaving, NoLoc
<1> QED
  BY <1>3, <1>4, <1>5, <1>6, <1>7 DEF Inv, Control

LEMMA GrowReturnStep ==
  ASSUME Inv, NEW p \in Proc, GrowReturn(p)
  PROVE  Inv'
<1>0. /\ TypeOK /\ state[p] = "running" /\ pc[p] = "grow"
      /\ loc[p].i = loc[p].n + 1 /\ loc[p].page = NoPage
      /\ loc[p].dir = pgdir[p] /\ loc[p].n \in 0 .. MaxPages
      /\ loc[p].n = sz[p] + 1
  BY LocType DEF Inv, Control, Locals, GrowReturn
<1>1. /\ state' = state /\ parent' = parent /\ pgdir' = pgdir
      /\ lock' = lock /\ pte' = pte /\ rmap' = rmap /\ free' = free
      /\ mem' = mem
  BY DEF GrowReturn
<1>2. /\ pc'[p] = "user" /\ loc'[p] = NoLoc /\ sz'[p] = loc[p].n
      /\ \A q \in Proc : q # p =>
           pc'[q] = pc[q] /\ loc'[q] = loc[q] /\ sz'[q] = sz[q]
  BY <1>0 DEF GrowReturn, Goto, TypeOK
<1>3. TypeOK'
  BY <1>0, <1>1, <1>2, ConstantsAssumption
  DEF GrowReturn, Goto, TypeOK, NoLoc
<1>4. Locals'
  BY <1>0, <1>1, <1>2, ConstantsAssumption
  DEF Inv, Control, Locals, Here, Faulting, Freeing, NoLoc
<1>a. Kids'
  BY <1>0, <1>1, <1>2, ConstantsAssumption
  DEF Inv, Control, Kids, Faulting, Freeing, NoLoc
<1>5. Dirs'
  BY <1>0, <1>1, <1>2, ConstantsAssumption
  DEF Inv, Control, Kids, Dirs, Freeing, NoLoc
<1>6. Shape'
  BY <1>0, <1>1, <1>2, LocType DEF Inv, Control, Shape, Bound, Freeing, Index
<1>7. Pages'
  BY <1>0, <1>1, <1>2, QuietPages DEF Leaving, NoLoc
<1> QED
  BY <1>3, <1>4, <1>a, <1>5, <1>6, <1>7 DEF Inv, Control

(* exec() takes the new page directory and starts to free the old one.     *)
LEMMA ExecCommitStep ==
  ASSUME Inv, NEW p \in Proc, ExecCommit(p)
  PROVE  Inv'
<1>0. /\ TypeOK /\ state[p] = "running" /\ pc[p] = "load"
      /\ loc[p].i = loc[p].n + 1 /\ loc[p].page = NoPage
      /\ loc[p].dir \in Pgdir /\ pgdir[p] \in Pgdir
      /\ loc[p].n \in 0 .. MaxPages /\ MaxPages \in Nat \ {0}
      /\ loc[p].kid = NoProc /\ loc[p].dir # pgdir[p]
      /\ \A q \in Proc : loc[p].dir # pgdir[q]
  BY LocType, ConstantsAssumption
  DEF Inv, Control, Locals, Kids, Dirs, Freeing, ExecCommit
<1>1. /\ state' = state /\ parent' = parent
      /\ lock' = lock /\ pte' = pte /\ rmap' = rmap /\ free' = free
      /\ mem' = mem
  BY DEF ExecCommit
<1>2. /\ pc'[p] = "free" /\ sz'[p] = loc[p].n /\ pgdir'[p] = loc[p].dir
      /\ loc'[p] = [dir |-> pgdir[p], i |-> 1, n |-> MaxPages,
                    page |-> NoPage, kid |-> NoProc]
      /\ \A q \in Proc : q # p =>
           /\ pc'[q] = pc[q] /\ loc'[q] = loc[q] /\ sz'[q] = sz[q]
           /\ pgdir'[q] = pgdir[q]
  BY <1>0 DEF ExecCommit, Goto, TypeOK, NoLoc
<1>3. TypeOK'
  BY <1>0, <1>1, <1>2, ConstantsAssumption
  DEF ExecCommit, Goto, TypeOK, NoLoc
<1>4. Locals'
  BY <1>0, <1>1, <1>2, ConstantsAssumption
  DEF Inv, Control, Locals, Here, Faulting, Freeing
<1>a. Kids'
  BY <1>0, <1>1, <1>2, LocType, ConstantsAssumption
  DEF Inv, Control, Kids, Faulting, Freeing
<1>5. Dirs'
  BY <1>0, <1>1, <1>2, ConstantsAssumption
  DEF Inv, Control, Kids, Dirs, Freeing
<1>6. Shape'
  BY <1>0, <1>1, <1>2, LocType DEF Inv, Control, Shape, Bound, Freeing, Index
<1>7. Pages'
  BY <1>0, <1>1, <1>2, QuietPages DEF Leaving
<1> QED
  BY <1>3, <1>4, <1>a, <1>5, <1>6, <1>7 DEF Inv, Control

LEMMA ExitStep ==
  ASSUME Inv, NEW p \in Proc, Exit(p)
  PROVE  Inv'
<1>0. /\ TypeOK /\ state[p] = "running" /\ pc[p] = "user" /\ loc[p] = NoLoc
      /\ pgdir[p] \in Pgdir
  BY DEF Inv, Control, Locals, Dirs, Exit, User
<1>1. /\ pgdir' = pgdir /\ sz' = sz /\ pc' = pc /\ loc' = loc
      /\ lock' = lock /\ pte' = pte /\ rmap' = rmap /\ free' = free
      /\ mem' = mem /\ state'[p] = "zombie"
      /\ \A q \in Proc : q # p => state'[q] = state[q]
  BY <1>0 DEF Exit, TypeOK
<1>2. TypeOK'
  BY <1>0, <1>1, ConstantsAssumption DEF Exit, TypeOK
<1>3. Locals' /\ Kids'
  BY <1>0, <1>1, LocType, ConstantsAssumption
  DEF Inv, Control, Locals, Kids, Here, Faulting, Freeing
<1>4. Dirs' /\ Shape'
  BY <1>0, <1>1 DEF Inv, Control, Dirs, Shape, Bound
<1>5. Pages'
  BY <1>0, <1>1, QuietPages DEF Leaving
<1> QED
  BY <1>2, <1>3, <1>4, <1>5 DEF Inv, Control

(* wait() keeps ptable.lock and starts to free the child's memory.         *)
LEMMA WaitStep ==
  ASSUME Inv, NEW p \in Proc, NEW c \in Proc, Wait(p, c)
  PROVE  Inv'
<1>0. /\ TypeOK /\ state[p] = "running" /\ pc[p] = "user" /\ loc[p] = NoLoc
      /\ state[c] = "zombie" /\ pc[c] = "user" /\ loc[c] = NoLoc /\ p # c
      /\ pgdir[c] \in Pgdir /\ pgdir[p] \in Pgdir /\ pgdir[p] # pgdir[c]
      /\ lock = NoProc /\ MaxPages \in Nat \ {0}
  BY ConstantsAssumption DEF Inv, Control, Locals, Dirs, Wait, User
<1>1. /\ state' = state /\ parent' = parent /\ pgdir' = pgdir /\ sz' = sz
      /\ lock' = p /\ pte' = pte /\ rmap' = rmap /\ free' = free
      /\ mem' = mem
  BY DEF Wait
<1>2. /\ pc'[p] = "free"
      /\ loc'[p] = [dir |-> pgdir[c], i |-> 1, n |-> MaxPages,
                    page |-> NoPage, kid |-> c]
      /\ \A q \in Proc : q # p => pc'[q] = pc[q] /\ loc'[q] = loc[q]
  BY <1>0 DEF Wait, Goto, TypeOK, NoLoc
<1>3. TypeOK'
  BY <1>0, <1>1, <1>2, ConstantsAssumption DEF Wait, Goto, TypeOK, NoLoc
<1>4. \A q \in Proc : loc[q].kid = NoProc \/ pc[q] = "share"
  BY <1>0, ConstantsAssumption DEF Inv, Control, Kids
<1>5. Locals' /\ Kids'
  BY <1>0, <1>1, <1>2, <1>4, ConstantsAssumption
  DEF Inv, Control, Locals, Kids, Here, Faulting, Freeing
<1>6. \A q \in Proc : loc[q].dir # pgdir[c]
  BY <1>0, <1>4, ConstantsAssumption DEF Inv, Control, Dirs, Freeing, NoLoc
<1>7. Dirs'
  BY <1>0, <1>1, <1>2, <1>6, ConstantsAssumption
  DEF Inv, Control, Dirs, Freeing
<1>8. Shape'
  BY <1>0, <1>1, <1>2 DEF Inv, Control, Shape, Bound, Freeing
<1>9. Pages'
  BY <1>0, <1>1, <1>2, QuietPages DEF Leaving, NoLoc
<1> QED
  BY <1>3, <1>5, <1>7, <1>8, <1>9 DEF Inv, Control

(* Only the loop over a whole address space meets entries without a page.  *)
LEMMA SkipEntryStep ==
  ASSUME Inv, NEW p \in Proc, SkipEntry(p)
  PROVE  Inv'
<1>0. /\ TypeOK /\ state[p] = "running" /\ pc[p] = "free"
      /\ loc[p].dir \in Pgdir /\ loc[p].i >= 1 /\ loc[p].i <= loc[p].n
      /\ loc[p].n \in 0 .. MaxPages /\ loc[p].i \in 0 .. MaxPages + 1
      /\ sz[p] \in 0 .. MaxPages /\ MaxPages \in Nat \ {0}
      /\ loc[p].i \in Index /\ loc[p].page = NoPage
  BY LocType DEF Inv, Control, Locals, SkipEntry, Index
<1>1. /\ state' = state /\ parent' = parent /\ pgdir' = pgdir /\ sz' = sz
      /\ lock' = lock /\ pte' = pte /\ rmap' = rmap /\ free' = free
      /\ mem' = mem /\ pc' = pc
  BY DEF SkipEntry, procs
<1>2. /\ loc'[p] = [dir |-> loc[p].dir, i |-> loc[p].i + 1, n |-> loc[p].n,
                    page |-> loc[p].page, kid |-> loc[p].kid]
      /\ \A q \in Proc : q # p => loc'[q] = loc[q]
  BY <1>0 DEF SkipEntry, TypeOK
<1>3. TypeOK'
  BY <1>0, <1>1, <1>2 DEF SkipEntry, TypeOK
<1>4. loc[p].dir # pgdir[p]
  <2> SUFFICES ASSUME loc[p].dir = pgdir[p] PROVE FALSE
    OBVIOUS
  <2>1. loc[p].n = sz[p] /\ loc[p].i = loc[p].n
    BY <1>0 DEF Inv, Control, Locals, Freeing
  <2>2. loc[p].i <= Bound(p)
    BY <1>0, <2>1 DEF Bound, Freeing
  <2>3. Here(p) # NoEntry
    BY <1>0, <2>2 DEF Inv, Control, Shape, Here
  <2>4. QED
    BY <2>3 DEF SkipEntry
<1>5. Locals' /\ Kids'
  BY <1>0, <1>1, <1>2, <1>4, ConstantsAssumption
  DEF Inv, Control, Locals, Kids, Here, Faulting, Freeing
<1>6. Dirs'
  BY <1>0, <1>1, <1>2, ConstantsAssumption
  DEF Inv, Control, Kids, Dirs, Freeing
<1>7. Shape'
  BY <1>0, <1>1, <1>2, <1>4 DEF Inv, Control, Shape, Bound, Freeing
<1>8. Pages'
  BY <1>0, <1>1, <1>2, QuietPages DEF Leaving
<1> QED
  BY <1>3, <1>5, <1>6, <1>7, <1>8 DEF Inv, Control

LEMMA FreeReturnStep ==
  ASSUME Inv, NEW p \in Proc, FreeReturn(p)
  PROVE  Inv'
<1>0. /\ TypeOK /\ state[p] = "running" /\ pc[p] = "free"
      /\ loc[p].dir \in Pgdir /\ loc[p].i = loc[p].n + 1
      /\ loc[p].kid = NoProc /\ loc[p].page = NoPage
      /\ loc[p].dir = pgdir[p] => loc[p].n = sz[p] /\ sz[p] > 1
      /\ sz[p] \in 0 .. MaxPages /\ MaxPages \in Nat \ {0}
  BY LocType DEF Inv, Control, Locals, FreeReturn, FreeDone, Freeing
<1>1. /\ state' = state /\ parent' = parent /\ pgdir' = pgdir
      /\ lock' = lock /\ pte' = pte /\ rmap' = rmap /\ free' = free
      /\ mem' = mem
  BY DEF FreeReturn
<1>2. /\ pc'[p] = "user" /\ loc'[p] = NoLoc
      /\ sz'[p] = IF loc[p].dir = pgdir[p] THEN sz[p] - 1 ELSE sz[p]
      /\ \A q \in Proc : q # p =>
           pc'[q] = pc[q] /\ loc'[q] = loc[q] /\ sz'[q] = sz[q]
  BY <1>0 DEF FreeReturn, Goto, TypeOK
<1>3. TypeOK'
  BY <1>0, <1>1, <1>2, ConstantsAssumption
  DEF FreeReturn, Goto, TypeOK, NoLoc
<1>4. Locals' /\ Kids'
  BY <1>0, <1>1, <1>2, ConstantsAssumption
  DEF Inv, Control, Locals, Kids, Here, Faulting, Freeing, NoLoc
<1>5. Dirs'
  BY <1>0, <1>1, <1>2, ConstantsAssumption
  DEF Inv, Control, Kids, Dirs, Freeing, NoLoc
<1>6. Shape'
  BY <1>0, <1>1, <1>2, LocType DEF Inv, Control, Shape, Bound, Freeing, Index
<1>7. Pages'
  BY <1>0, <1>1, <1>2, QuietPages DEF Leaving, NoLoc
<1> QED
  BY <1>3, <1>4, <1>5, <1>6, <1>7 DEF Inv, Control

(* wait() gives the child's table entry back.                              *)
LEMMA WaitReturnStep ==
  ASSUME Inv, NEW p \in Proc, WaitReturn(p)
  PROVE  Inv'
<1> DEFINE c == loc[p].kid
<1>0. /\ TypeOK /\ state[p] = "running" /\ pc[p] = "free" /\ lock = p
      /\ c \in Proc /\ state[c] = "zombie" /\ pc[c] = "user"
      /\ loc[c] = NoLoc /\ p # c /\ loc[p].dir = pgdir[c]
      /\ loc[p].dir \in Pgdir /\ loc[p].dir # pgdir[p] /\ loc[p].page = NoPage
      /\ sz[p] \in 0 .. MaxPages /\ MaxPages \in Nat \ {0}
  BY LocType, ConstantsAssumption
  DEF Inv, Control, Locals, Kids, Dirs, WaitReturn, FreeDone, Freeing
<1>1. /\ lock' = NoProc /\ pte' = pte /\ rmap' = rmap /\ free' = free
      /\ mem' = mem
  BY DEF WaitReturn
<1>2. /\ pc'[p] = "user" /\ loc'[p] = NoLoc
      /\ state'[c] = "unused" /\ pgdir'[c] = NoDir /\ sz'[c] = 0
      /\ \A q \in Proc : q # p => pc'[q] = pc[q] /\ loc'[q] = loc[q]
      /\ \A q \in Proc : q # c =>
           state'[q] = state[q] /\ pgdir'[q] = pgdir[q] /\ sz'[q] = sz[q]
  BY <1>0 DEF WaitReturn, Goto, TypeOK
<1>3. TypeOK'
  BY <1>0, <1>1, <1>2, ConstantsAssumption
  DEF WaitReturn, Goto, TypeOK, NoLoc
<1>4. \A q \in Proc : q # p => loc[q].kid = NoProc \/ pc[q] = "share"
  BY <1>0 DEF Inv, Control, Kids
<1>5. Locals'
  BY <1>0, <1>1, <1>2, ConstantsAssumption
  DEF Inv, Control, Locals, Here, Faulting, Freeing, NoLoc
<1>6. Kids'
  BY <1>0, <1>1, <1>2, <1>4, ConstantsAssumption
  DEF Inv, Control, Kids, NoLoc
<1>7. Dirs'
  BY <1>0, <1>1, <1>2, <1>4, ConstantsAssumption
  DEF Inv, Control, Kids, Dirs, Freeing, NoLoc
<1>8. Shape'
  BY <1>0, <1>1, <1>2 DEF Inv, Control, Shape, Bound, Freeing
<1>9. Pages'
  BY <1>0, <1>1, <1>2, QuietPages DEF Leaving, NoLoc
<1> QED
  BY <1>3, <1>5, <1>6, <1>7, <1>8, <1>9 DEF Inv, Control

LEMMA ForkStep ==
  ASSUME Inv, NEW p \in Proc, NEW c \in Proc, NEW d \in Pgdir, Fork(p, c, d)
  PROVE  Inv'
<1>0. /\ TypeOK /\ pgdir[p] \in Pgdir /\ state[p] = "running"
      /\ pc[p] = "user" /\ loc[p] = NoLoc /\ state[c] = "unused"
      /\ pc[c] = "user" /\ p # c
      /\ \A q \in Proc : pgdir[q] # d /\ loc[q].dir # d
      /\ \A i \in Index : pte[d][i] = NoEntry
      /\ d # NoDir /\ MaxPages \in Nat \ {0} /\ sz[p] \in 0 .. MaxPages
  BY LocType, ConstantsAssumption
  DEF Inv, Control, Locals, Dirs, Fork, User, UnusedDir
<1>1. /\ parent' = parent /\ pgdir' = pgdir /\ sz' = sz
      /\ lock' = lock /\ pte' = pte /\ rmap' = rmap /\ free' = free
      /\ mem' = mem
  BY DEF Fork
<1>2. /\ pc'[p] = "share" /\ state'[c] = "embryo"
      /\ loc'[p] = [dir |-> d, i |-> 1, n |-> 0, page |-> NoPage, kid |-> c]
      /\ \A q \in Proc : q # p => pc'[q] = pc[q] /\ loc'[q] = loc[q]
      /\ \A q \in Proc : q # c => state'[q] = state[q]
  BY <1>0 DEF Fork, Goto, NoLoc, TypeOK
<1>3. TypeOK'
  BY <1>0, <1>1, <1>2, ConstantsAssumption DEF Fork, Goto, TypeOK, NoLoc
<1>4. Locals'
  BY <1>0, <1>1, <1>2, ConstantsAssumption
  DEF Inv, Control, Locals, Here, Faulting, Freeing
<1>5. Kids'
  BY <1>0, <1>1, <1>2, LocType, ConstantsAssumption
  DEF Inv, Control, Kids, Freeing
<1>6. Dirs'
  BY <1>0, <1>1, <1>2, ConstantsAssumption
  DEF Inv, Control, Kids, Dirs, Freeing
<1>7. Shape'
  BY <1>0, <1>1, <1>2 DEF Inv, Control, Shape, Bound, Freeing, Index
<1>8. Pages'
  BY <1>0, <1>1, <1>2, QuietPages DEF Leaving, NoLoc
<1> QED
  BY <1>3, <1>4, <1>5, <1>6, <1>7, <1>8 DEF Inv, Control

(* The child gets the page directory, with as many pages as the parent.    *)
LEMMA ForkReturnStep ==
  ASSUME Inv, NEW p \in Proc, ForkReturn(p)
  PROVE  Inv'
<1> DEFINE c == loc[p].kid
<1>0. /\ TypeOK /\ state[p] = "running" /\ pc[p] = "share" /\ lock = NoProc
      /\ c \in Proc /\ state[c] = "embryo" /\ pc[c] = "user"
      /\ loc[c] = NoLoc /\ p # c /\ pgdir[c] \notin Pgdir
      /\ loc[p].dir \in Pgdir /\ loc[p].dir # pgdir[p] /\ loc[p].page = NoPage
      /\ \A q \in Proc : pgdir[q] # loc[p].dir
      /\ \A q \in Proc : q # p => loc[q].dir # loc[p].dir
      /\ loc[p].i = sz[p] + 1 /\ pgdir[p] \in Pgdir
      /\ sz[p] \in 0 .. MaxPages /\ MaxPages \in Nat \ {0}
  BY LocType, ConstantsAssumption, SMTT(30)
  DEF Inv, Control, Locals, Kids, Dirs, ForkReturn, Freeing
<1>1. /\ lock' = lock /\ pte' = pte /\ rmap' = rmap /\ free' = free
      /\ mem' = mem
  BY DEF ForkReturn
<1>2. /\ pc'[p] = "user" /\ loc'[p] = NoLoc
      /\ state'[c] = "running" /\ pgdir'[c] = loc[p].dir /\ sz'[c] = sz[p]
      /\ \A q \in Proc : q # p => pc'[q] = pc[q] /\ loc'[q] = loc[q]
      /\ \A q \in Proc : q # c =>
           state'[q] = state[q] /\ pgdir'[q] = pgdir[q] /\ sz'[q] = sz[q]
  BY <1>0 DEF ForkReturn, Goto, TypeOK
<1>3. TypeOK'
  BY <1>0, <1>1, <1>2, ConstantsAssumption
  DEF ForkReturn, Goto, TypeOK, NoLoc
<1>4. \A q \in Proc : loc[q].kid = NoProc \/ pc[q] = "share"
  BY <1>0, ConstantsAssumption DEF Inv, Control, Kids
<1>5. Locals'
  BY <1>0, <1>1, <1>2, ConstantsAssumption
  DEF Inv, Control, Locals, Here, Faulting, Freeing, NoLoc
<1>6. Kids'
  BY <1>0, <1>1, <1>2, <1>4, ConstantsAssumption
  DEF Inv, Control, Kids, NoLoc
<1>7. Dirs'
  BY <1>0, <1>1, <1>2, <1>4, ConstantsAssumption
  DEF Inv, Control, Dirs, Freeing, NoLoc
<1>8. Shape'
  <2>1. \A i \in Index : i <= sz[p] <=> pte[loc[p].dir][i] # NoEntry
    <3> SUFFICES ASSUME NEW i \in Index
                 PROVE  i <= sz[p] <=> pte[loc[p].dir][i] # NoEntry
      OBVIOUS
    <3>1. i <= sz[p] <=> i < loc[p].i
      BY <1>0 DEF Index
    <3>2. i <= sz[p] <=> pte[pgdir[p]][i] # NoEntry
      BY <1>0 DEF Inv, Control, Shape, Bound, Freeing
    <3>3. IF i < loc[p].i THEN pte[loc[p].dir][i].pa = pte[pgdir[p]][i].pa
                          ELSE pte[loc[p].dir][i] = NoEntry
      BY <1>0 DEF Inv, Control, Shape
    <3>4. QED
      BY <1>0, <3>1, <3>2, <3>3, EntryType
  <2>2. \A q \in Proc : q = c => Bound(q)' = sz[p]
    BY <1>0, <1>2 DEF Bound, Freeing
  <2>3. QED
    BY <1>0, <1>1, <1>2, <2>1, <2>2
    DEF Inv, Control, Shape, Bound, Freeing
<1>9. Pages'
  BY <1>0, <1>1, <1>2, QuietPages DEF Leaving, NoLoc
<1> QED
  BY <1>3, <1>5, <1>6, <1>7, <1>8, <1>9 DEF Inv, Control

-----------------------------------------------------------------------------
(* Steps that change entries, lists or the free list.                      *)

(* The only user of the page gets his write permission back.               *)
LEMMA MakeWritableStep ==
  ASSUME Inv, NEW p \in Proc, MakeWritable(p)
  PROVE  Inv'
<1> DEFINE d == loc[p].dir
           i == loc[p].i
           g == Here(p).pa
<1>0. /\ TypeOK /\ d = pgdir[p] /\ d \in Pgdir /\ i \in Index
      /\ pc[p] = "own" /\ state[p] = "running" /\ g \in Page
      /\ Here(p) # NoEntry /\ loc[p].page = NoPage /\ loc[p].kid = NoProc
      /\ Here(p) \in Entry
  BY FaultingAt, EntryType
  DEF MakeWritable, Faulting, Inv, Control, Locals, Here
<1>1. /\ state' = state /\ parent' = parent /\ pgdir' = pgdir /\ sz' = sz
      /\ lock' = lock /\ rmap' = rmap /\ free' = free /\ mem' = mem
  BY DEF MakeWritable, procs
<1>2. /\ pc'[p] = "user" /\ loc'[p] = NoLoc
      /\ \A q \in Proc : q # p => pc'[q] = pc[q] /\ loc'[q] = loc[q]
  BY <1>0 DEF MakeWritable, Goto, TypeOK
<1>3. [Here(p) EXCEPT !.w = TRUE] = [pa |-> g, w |-> TRUE]
  BY <1>0, SetW, Zenon
<1>4. /\ pte'[d][i] = [pa |-> g, w |-> TRUE]
      /\ \A e \in Pgdir, j \in Index :
           <<e, j>> # <<d, i>> => pte'[e][j] = pte[e][j]
  BY <1>0, <1>3 DEF MakeWritable, SetHere, TypeOK
<1>5. \A e \in Pgdir, j \in Index :
        /\ pte'[e][j].pa = pte[e][j].pa
        /\ pte'[e][j] = NoEntry <=> pte[e][j] = NoEntry
  BY <1>0, <1>4 DEF NoEntry, Here
<1>6. TypeOK'
  <2>1. pte' \in [Pgdir -> [Index -> Entry]]
    BY <1>0, <1>3 DEF MakeWritable, SetHere, TypeOK, Entry
  <2>2. pc' = [pc EXCEPT ![p] = "user"] /\ loc' = [loc EXCEPT ![p] = NoLoc]
    BY DEF MakeWritable, Goto
  <2>3. QED
    BY <1>1, <2>1, <2>2, ConstantsAssumption DEF Inv, Control, TypeOK, NoLoc
<1>7. Locals'
  <2>1. \A q \in Proc : pc[q] = "last" => loc[q].i \in Index
    BY <1>0, LocType DEF Inv, Control, Locals, Index
  <2>2. QED
    BY <1>0, <1>1, <1>2, <1>5, <2>1, ConstantsAssumption
    DEF Inv, Control, Locals, Here, Faulting, Freeing, NoLoc
<1>8. Kids'
  BY <1>0, <1>1, <1>2, ConstantsAssumption DEF Inv, Control, Kids, NoLoc
<1>9. Dirs'
  BY <1>0, <1>1, <1>2, ConstantsAssumption
  DEF Inv, Control, Kids, Dirs, Freeing, NoLoc
<1>10. Shape'
  <2>1. \A q \in Proc : state[q] = "running" =>
          pgdir[q] \in Pgdir /\ Bound(q)' = Bound(q)
    BY <1>0, <1>1, <1>2 DEF Inv, Control, Dirs, Bound, Freeing
  <2>2. \A q \in Proc : pc[q] # "user" =>
           loc[q].dir \in Pgdir /\ state[q] = "running"
    BY DEF Inv, Control, Locals
  <2>3. QED
    BY <1>0, <1>1, <1>2, <1>5, <2>1, <2>2, SMTT(30) DEF Inv, Control, Shape
<1>11. \A e, j : Busy(e, j)' <=> Busy(e, j)
  BY <1>0, <1>2 DEF Busy, Leaving
<1>12. Once' /\ Listed'
  BY <1>1, <1>5, <1>11 DEF Inv, Pages, Once, Listed
<1>13. Held'
  BY <1>0, <1>1, <1>2 DEF Inv, Pages, Held, NoLoc
<1>14. \A q \in Proc : pc'[q] \in {"last", "own"} =>
         /\ q # p /\ pc[q] = pc'[q] /\ loc'[q] = loc[q]
         /\ Here(q)'.pa = Here(q).pa
  <2>1. \A q \in Proc : pc[q] \in {"last", "own"} =>
          loc[q].dir \in Pgdir /\ loc[q].i \in Index
    BY <1>0, LocType, FaultingAt DEF Inv, Control, Locals, Index, Faulting
  <2>2. QED
    BY <1>2, <1>5, <2>1 DEF Here
<1>15. Freed'
  BY <1>0, <1>1, <1>2, <1>14 DEF Inv, Pages, Freed, NoLoc
<1>16. Exclusive'
  <2>1. rmap[g] = {d}
    BY <1>0 DEF Inv, Pages, Exclusive
  <2>2. \A e \in Pgdir, j \in Index :
          pte'[e][j].w /\ ~Busy(e, j) => rmap[pte'[e][j].pa] = {e}
    BY <1>0, <1>4, <2>1 DEF Inv, Pages, Exclusive
  <2>3. QED
    BY <1>1, <1>11, <1>14, <2>2 DEF Inv, Pages, Exclusive
<1> QED
  BY <1>6, <1>7, <1>8, <1>9, <1>10, <1>12, <1>13, <1>15, <1>16
  DEF Inv, Control, Pages

(* kalloc(): a page of the free list is listed for nobody, and in nobody's *)
(* hands.                                                                  *)
LEMMA TakePages ==
  ASSUME Inv, NEW p \in Proc, NEW g \in Page, Take(p, g),
         pte' = pte, rmap' = rmap, loc[p].page = NoPage,
         \A q \in Proc : q # p => pc'[q] = pc[q],
         pc[p] \notin Leaving, pc'[p] \notin Leaving, pc'[p] # "own"
  PROVE  Pages'
<1>1. /\ TypeOK /\ free[g] = 1 /\ rmap[g] = {}
      /\ \A q \in Proc : loc[q].page # g
      /\ \A q \in Proc : pc[q] = "last" => Here(q).pa # g
  <2>1. TypeOK /\ free[g] \in Nat /\ free[g] > 0
    BY DEF Inv, Control, TypeOK, Take
  <2>2. QED
    BY <2>1, ConstantsAssumption DEF Inv, Pages, Held, Freed
<1>2. /\ free'[g] = 0
      /\ \A h \in Page : h # g => free'[h] = free[h]
      /\ loc'[p].dir = loc[p].dir /\ loc'[p].i = loc[p].i /\ loc'[p].page = g
      /\ \A q \in Proc : q # p => loc'[q] = loc[q]
  BY <1>1 DEF Take, TypeOK
<1>3. \A d, i : Busy(d, i)' <=> Busy(d, i)
  BY <1>2 DEF Busy, Leaving
<1>4. Once' /\ Listed'
  BY <1>3 DEF Inv, Pages, Once, Listed
<1>5. Held'
  <2>1. \A q \in Proc : loc[q].page \in Page \cup {NoPage}
    BY <1>1, LocType
  <2>2. QED
    BY <1>1, <1>2, <2>1 DEF Inv, Pages, Held
<1>6. Freed'
  <2>1. \A q \in Proc : pc'[q] = "last" =>
          /\ q # p /\ pc[q] = "last" /\ Here(q)' = Here(q)
          /\ Here(q).pa \in Page
    <3>1. \A q \in Proc : pc[q] = "last" => Here(q).pa \in Page
      BY <1>1, LocType, EntryType DEF Inv, Control, Locals, Here, Index
    <3>2. QED
      BY <1>2, <3>1 DEF Leaving, Here
  <2>2. QED
    BY <1>1, <1>2, <2>1 DEF Inv, Pages, Freed
<1>7. Exclusive'
  BY <1>2, <1>3 DEF Inv, Pages, Exclusive, Here
<1> QED
  BY <1>4, <1>5, <1>6, <1>7 DEF Pages

LEMMA FaultAllocStep ==
  ASSUME Inv, NEW p \in Proc, NEW g \in Page, FaultAlloc(p, g)
  PROVE  Inv'
<1>0. /\ TypeOK /\ pc[p] = "alloc" /\ loc[p].dir = pgdir[p]
      /\ loc[p].page = NoPage /\ loc[p].kid = NoProc
  BY FaultingAt DEF FaultAlloc, Faulting, Inv, Control, Locals
<1>1. /\ state' = state /\ parent' = parent /\ pgdir' = pgdir /\ sz' = sz
      /\ lock' = lock /\ pte' = pte /\ rmap' = rmap /\ mem' = mem
      /\ free[g] > 0 /\ free' = [free EXCEPT ![g] = free[g] - 1]
  BY DEF FaultAlloc, procs, Take
<1>2. /\ pc'[p] = "copy"
      /\ loc'[p].dir = loc[p].dir /\ loc'[p].i = loc[p].i
      /\ loc'[p].n = loc[p].n /\ loc'[p].kid = loc[p].kid
      /\ loc'[p].page = g
      /\ \A q \in Proc : q # p => pc'[q] = pc[q] /\ loc'[q] = loc[q]
  BY <1>0 DEF FaultAlloc, Take, Goto, TypeOK
<1>3. TypeOK'
  <2>1. free' \in [Page -> Nat]
    BY <1>0, <1>1 DEF TypeOK
  <2>2. pc' = [pc EXCEPT ![p] = "copy"] /\ loc' = [loc EXCEPT ![p].page = g]
    BY DEF FaultAlloc, Take, Goto
  <2>3. QED
    BY <1>0, <1>1, <2>1, <2>2 DEF TypeOK
<1>4. Locals' /\ Kids'
  BY <1>0, <1>1, <1>2, ConstantsAssumption
  DEF Inv, Control, Locals, Kids, Here, Faulting, Freeing
<1>5. Dirs'
  BY <1>0, <1>1, <1>2, ConstantsAssumption
  DEF Inv, Control, Kids, Dirs, Freeing
<1>6. Shape'
  BY <1>0, <1>1, <1>2 DEF Inv, Control, Shape, Bound, Freeing
<1>7. Pages'
  BY <1>0, <1>1, <1>2, TakePages DEF FaultAlloc, Leaving
<1> QED
  BY <1>3, <1>4, <1>5, <1>6, <1>7 DEF Inv, Control

LEMMA NewPageStep ==
  ASSUME Inv, NEW p \in Proc, NEW g \in Page, NewPage(p, g)
  PROVE  Inv'
<1>0. /\ TypeOK /\ pc[p] \in {"grow", "load"}
      /\ loc[p].page = NoPage /\ loc[p].i <= loc[p].n
  BY DEF NewPage, Inv, Control
<1>1. /\ state' = state /\ parent' = parent /\ pgdir' = pgdir /\ sz' = sz
      /\ lock' = lock /\ pte' = pte /\ rmap' = rmap /\ pc' = pc
      /\ free[g] > 0 /\ free' = [free EXCEPT ![g] = free[g] - 1]
  BY DEF NewPage, procs, Take
<1>2. /\ loc'[p].dir = loc[p].dir /\ loc'[p].i = loc[p].i
      /\ loc'[p].n = loc[p].n /\ loc'[p].kid = loc[p].kid
      /\ loc'[p].page = g
      /\ \A q \in Proc : q # p => loc'[q] = loc[q]
  BY <1>0 DEF NewPage, Take, TypeOK
<1>3. TypeOK'
  <2>1. free' \in [Page -> Nat]
    BY <1>0, <1>1 DEF TypeOK
  <2>2. mem' \in [Page -> Val \cup {Junk}]
    BY <1>0, ConstantsAssumption DEF NewPage, TypeOK
  <2>3. loc' = [loc EXCEPT ![p].page = g]
    BY DEF NewPage, Take
  <2>4. TypeOK
    BY <1>0
  <2>5. QED
    BY <1>1, <2>1, <2>2, <2>3, <2>4, SMTT(60) DEF TypeOK
<1>4. Locals' /\ Kids'
  BY <1>0, <1>1, <1>2, ConstantsAssumption
  DEF Inv, Control, Locals, Kids, Here, Faulting, Freeing
<1>5. Dirs'
  BY <1>0, <1>1, <1>2, ConstantsAssumption
  DEF Inv, Control, Kids, Dirs, Freeing
<1>6. Shape'
  BY <1>0, <1>1, <1>2 DEF Inv, Control, Shape, Bound, Freeing
<1>7. Pages'
  BY <1>0, <1>1, <1>2, TakePages DEF NewPage, Leaving
<1> QED
  BY <1>3, <1>4, <1>5, <1>6, <1>7 DEF Inv, Control

(* rmap_rm(): the page table is taken off the list; its entry still holds  *)
(* the page, and that is what Busy says.                                   *)
LEMMA LeavePages ==
  ASSUME Inv, NEW p \in Proc, loc[p].dir \in Pgdir, loc[p].i \in Index,
         Here(p).pa \in Page, pte' = pte, free' = free, loc' = loc,
         rmap' = [rmap EXCEPT ![Here(p).pa] = @ \ {loc[p].dir}],
         \A q \in Proc : q # p => pc'[q] = pc[q],
         pc[p] \notin Leaving, pc'[p] \in Leaving
  PROVE  Pages'
<1> DEFINE d == loc[p].dir
           i == loc[p].i
           g == Here(p).pa
<1>1. \A q \in Proc : q # p => loc[q].dir # d
  BY ConstantsAssumption DEF Inv, Control, Dirs
<1>2. d \in rmap[g]
  <2>1. ~Busy(d, i)
    BY <1>1 DEF Busy
  <2>2. QED
    BY <2>1 DEF Inv, Pages, Listed, Here
<1>3. /\ rmap'[g] = rmap[g] \ {d}
      /\ \A h \in Page : h # g => rmap'[h] = rmap[h]
  BY DEF Inv, Control, TypeOK
<1>4. \A e, j : Busy(e, j)' <=> Busy(e, j) \/ (e = d /\ j = i)
  BY DEF Busy
<1>5. Once'
  BY DEF Inv, Pages, Once
<1>6. Listed'
  <2> SUFFICES ASSUME NEW h \in Page, NEW e \in Pgdir
               PROVE  e \in rmap'[h] <=>
                        \E j \in Index : pte[e][j].pa = h /\ ~Busy(e, j)'
    BY DEF Listed
  <2>1. e \in rmap[h] <=> \E j \in Index : pte[e][j].pa = h /\ ~Busy(e, j)
    BY DEF Inv, Pages, Listed
  <2>2. CASE e = d /\ h = g
    <3>1. \A j \in Index : pte[e][j].pa = h => j = i
      BY <2>2, ConstantsAssumption DEF Inv, Pages, Once, Here
    <3>2. QED
      BY <1>3, <1>4, <2>2, <3>1
  <2>3. CASE ~(e = d /\ h = g)
    <3>1. e \in rmap'[h] <=> e \in rmap[h]
      BY <1>3, <2>3
    <3>2. \A j \in Index : pte[e][j].pa = h => (Busy(e, j)' <=> Busy(e, j))
      BY <1>4, <2>3 DEF Here
    <3>3. QED
      BY <2>1, <3>1, <3>2
  <2>4. QED
    BY <2>2, <2>3
<1>7. Held'
  BY <1>3, LocType, ConstantsAssumption DEF Inv, Control, Pages, Held
<1>8. Freed'
  <2>1. free[g] = 0
    BY <1>2 DEF Inv, Pages, Freed
  <2>2. \A q \in Proc : loc[q].page # g
    BY <1>2, ConstantsAssumption DEF Inv, Pages, Held
  <2>3. QED
    BY <1>3, <2>1, <2>2 DEF Inv, Pages, Freed, Here
<1>9. Exclusive'
  <2>1. ASSUME NEW e \in Pgdir, NEW j \in Index, pte[e][j].w, ~Busy(e, j)'
        PROVE  rmap'[pte[e][j].pa] = {e}
    <3>1. rmap[pte[e][j].pa] = {e} /\ <<e, j>> # <<d, i>>
      BY <1>4, <2>1 DEF Inv, Pages, Exclusive
    <3>2. pte[e][j].pa # g
      <4> SUFFICES ASSUME pte[e][j].pa = g PROVE FALSE
        OBVIOUS
      <4>1. e = d /\ j # i
        BY <1>2, <3>1
      <4>2. pte[d][i].pa = g /\ g # NoPage
        BY ConstantsAssumption DEF Here
      <4>3. QED
        BY <4>1, <4>2 DEF Inv, Pages, Once
    <3>3. pte[e][j].pa \in Page
      BY <2>1, EntryType DEF Inv, Control
    <3>4. QED
      BY <1>3, <3>1, <3>2, <3>3
  <2>2. ASSUME NEW q \in Proc, pc'[q] = "own"
        PROVE  rmap'[Here(q).pa] = {loc[q].dir}
    <3>1. q # p /\ pc[q] = "own"
      BY <2>2 DEF Leaving
    <3>2. rmap[Here(q).pa] = {loc[q].dir} /\ Here(q).pa \in Page
      BY <3>1, FaultingAt DEF Inv, Pages, Exclusive, Faulting
    <3>3. Here(q).pa # g
      BY <1>1, <1>2, <3>1, <3>2
    <3>4. QED
      BY <1>3, <3>2, <3>3
  <2>3. pte' = pte /\ loc' = loc
    OBVIOUS
  <2>4. \A e \in Pgdir, j \in Index :
          pte'[e][j].w /\ ~Busy(e, j)' => rmap'[pte'[e][j].pa] = {e}
    BY <2>1, <2>3
  <2>5. \A q \in Proc : pc'[q] = "own" => rmap'[Here(q)'.pa] = {loc'[q].dir}
    BY <2>2, <2>3 DEF Here
  <2>6. QED
    BY <2>4, <2>5 DEF Exclusive
<1> QED
  BY <1>5, <1>6, <1>7, <1>8, <1>9 DEF Pages

LEMMA FaultLeaveStep ==
  ASSUME Inv, NEW p \in Proc, FaultLeave(p)
  PROVE  Inv'
<1>0. /\ TypeOK /\ pc[p] = "leave" /\ loc[p].dir = pgdir[p]
      /\ loc[p].dir \in Pgdir /\ loc[p].i \in Index /\ Here(p).pa \in Page
  BY FaultingAt DEF FaultLeave, Faulting
<1>1. /\ state' = state /\ parent' = parent /\ pgdir' = pgdir /\ sz' = sz
      /\ lock' = lock /\ pte' = pte /\ free' = free /\ mem' = mem
      /\ loc' = loc /\ pc'[p] = "remap"
      /\ rmap' = [rmap EXCEPT ![Here(p).pa] = @ \ {loc[p].dir}]
      /\ \A q \in Proc : q # p => pc'[q] = pc[q]
  BY <1>0 DEF FaultLeave, procs, Goto, TypeOK
<1>2. TypeOK'
  BY <1>0, <1>1 DEF FaultLeave, Goto, TypeOK
<1>3. Locals' /\ Kids'
  <2>1. /\ Locals /\ \A q \in Proc : Here(q)' = Here(q)
        /\ pc'[p] = "remap" /\ pc[p] = "leave"
    BY <1>0, <1>1 DEF Inv, Control, Here
  <2>2. Locals'
    BY <1>0, <1>1, <2>1 DEF Locals, Faulting, Freeing
  <2>3. Kids'
    BY <1>0, <1>1 DEF Inv, Control, Kids, Freeing
  <2>4. QED
    BY <2>2, <2>3
<1>4. Dirs'
  BY <1>0, <1>1 DEF Inv, Control, Dirs, Freeing
<1>5. Shape'
  BY <1>0, <1>1 DEF Inv, Control, Shape, Bound, Freeing
<1>6. Pages'
  BY <1>0, <1>1, LeavePages DEF Leaving
<1> QED
  BY <1>2, <1>3, <1>4, <1>5, <1>6 DEF Inv, Control

LEMMA FreeLeaveStep ==
  ASSUME Inv, NEW p \in Proc, FreeLeave(p)
  PROVE  Inv'
<1>0. /\ TypeOK /\ pc[p] = "free" /\ Here(p) # NoEntry
      /\ loc[p].i <= loc[p].n /\ loc[p].dir \in Pgdir
      /\ loc[p].i \in Index /\ Here(p).pa \in Page
  <2>1. /\ TypeOK /\ pc[p] = "free" /\ Here(p) # NoEntry
        /\ loc[p].i <= loc[p].n /\ loc[p].dir \in Pgdir
        /\ loc[p].i \in Index
    BY LocType DEF FreeLeave, Inv, Control, Locals, Index
  <2>2. QED
    BY <2>1, EntryType DEF Here
<1>1. /\ state' = state /\ parent' = parent /\ pgdir' = pgdir /\ sz' = sz
      /\ lock' = lock /\ pte' = pte /\ free' = free /\ mem' = mem
      /\ loc' = loc /\ pc'[p] = "last"
      /\ rmap' = [rmap EXCEPT ![Here(p).pa] = @ \ {loc[p].dir}]
      /\ \A q \in Proc : q # p => pc'[q] = pc[q]
  BY <1>0 DEF FreeLeave, procs, Goto, TypeOK
<1>2. TypeOK'
  BY <1>0, <1>1 DEF FreeLeave, Goto, TypeOK
<1>3. Locals' /\ Kids'
  <2>1. Locals'
    <3>1. /\ Locals /\ \A q \in Proc : Here(q)' = Here(q)
          /\ pc'[p] = "last" /\ pc[p] = "free"
      BY <1>0, <1>1 DEF Inv, Control, Here
    <3>2. QED
      BY <1>0, <1>1, <3>1 DEF Locals, Faulting, Freeing
  <2>2. Kids'
    BY <1>0, <1>1, SMTT(30) DEF Inv, Control, Kids, Freeing
  <2>3. QED
    BY <2>1, <2>2
<1>4. Dirs'
  BY <1>0, <1>1 DEF Inv, Control, Dirs, Freeing
<1>5. Shape'
  BY <1>0, <1>1 DEF Inv, Control, Shape, Bound, Freeing
<1>6. Pages'
  BY <1>0, <1>1, LeavePages DEF Leaving
<1> QED
  BY <1>2, <1>3, <1>4, <1>5, <1>6 DEF Inv, Control

(* rmap_add() and the new entry: the page in hand gets its first user.     *)
LEMMA GainPages ==
  ASSUME Inv, NEW p \in Proc, NEW h \in Page, NEW d \in Pgdir,
         NEW i \in Index, loc[p].page = h, loc[p].dir = d, loc[p].i = i,
         pc[p] = "remap" \/ Here(p) = NoEntry,
         pc[p] # "last", pc'[p] \notin Leaving, pc'[p] # "own",
         free' = free,
         pte'[d][i].pa = h,
         \A e \in Pgdir, j \in Index :
           e # d \/ j # i => pte'[e][j] = pte[e][j],
         rmap'[h] = rmap[h] \cup {d},
         \A k \in Page : k # h => rmap'[k] = rmap[k],
         loc'[p].page = NoPage,
         \A q \in Proc : q # p => pc'[q] = pc[q] /\ loc'[q] = loc[q]
  PROVE  Pages'
<1>1. TypeOK /\ \A q \in Proc : q # p => loc[q].dir # d
  BY ConstantsAssumption DEF Inv, Control, Dirs
<1>2. /\ rmap[h] = {} /\ free[h] = 0
      /\ \A q \in Proc : q # p => loc[q].page # h
  BY ConstantsAssumption DEF Inv, Pages, Held
<1>3. rmap'[h] = {d}
  BY <1>2
<1>5. \A e, j : /\ (e # d \/ j # i) => (Busy(e, j)' <=> Busy(e, j))
                /\ e = d /\ j # i => ~Busy(e, j)
  <2>1. \A q \in Proc : q # p =>
          /\ pc'[q] = pc[q] /\ loc'[q].dir = loc[q].dir
          /\ loc'[q].i = loc[q].i /\ loc[q].dir # d
    BY <1>1
  <2>2. QED
    BY <2>1 DEF Busy, Leaving
<1>6. ~Busy(d, i)'
  BY <1>1 DEF Busy
<1>7. \A e \in Pgdir, j \in Index : pte[e][j].pa = h => Busy(e, j)
  BY <1>2 DEF Inv, Pages, Listed
<1>8. \A j \in Index : j # i => pte[d][j].pa # h
  BY <1>5, <1>7
<1>9. Once'
  <2> SUFFICES ASSUME NEW e \in Pgdir, NEW a \in Index, NEW b \in Index,
                      pte'[e][a].pa = pte'[e][b].pa, pte'[e][a].pa # NoPage
               PROVE  a = b
    BY DEF Once
  <2>1. CASE e = d
    BY <1>8, <2>1 DEF Inv, Pages, Once
  <2>2. CASE e # d
    BY <2>2 DEF Inv, Pages, Once
  <2>3. QED
    BY <2>1, <2>2
<1>10. Listed'
  <2> SUFFICES ASSUME NEW k \in Page, NEW e \in Pgdir
               PROVE  e \in rmap'[k] <=>
                        \E j \in Index : pte'[e][j].pa = k /\ ~Busy(e, j)'
    BY DEF Listed
  <2>1. CASE e = d /\ k = h
    BY <1>3, <1>6, <2>1
  <2>2. CASE e # d
    <3>1. \A j \in Index : pte'[e][j] = pte[e][j] /\ (Busy(e, j)' <=> Busy(e, j))
      BY <1>5, <2>2
    <3>2. e \in rmap'[k] <=> e \in rmap[k]
      BY <1>2, <1>3, <2>2
    <3>3. QED
      BY <3>1, <3>2 DEF Inv, Pages, Listed
  <2>3. CASE e = d /\ k # h
    <3>1. d \in rmap[k] <=> \E j \in Index : pte[d][j].pa = k /\ ~Busy(d, j)
      BY DEF Inv, Pages, Listed
    <3>2. Busy(d, i) \/ pte[d][i].pa # k
      BY ConstantsAssumption DEF Busy, Leaving, Here, NoEntry
    <3>3. \A j \in Index : j # i =>
            pte'[d][j] = pte[d][j] /\ (Busy(d, j)' <=> Busy(d, j))
      BY <1>5
    <3>4. QED
      BY <1>3, <2>3, <3>1, <3>2, <3>3
  <2>4. QED
    BY <2>1, <2>2, <2>3
<1>11. Held'
  <2>1. \A q \in Proc : loc[q].page \in Page \cup {NoPage}
    BY <1>1, LocType
  <2>2. QED
    BY <1>2, <1>3, <2>1 DEF Inv, Pages, Held
<1>12. \A q \in Proc : pc'[q] \in {"last", "own"} =>
         /\ q # p /\ pc[q] = pc'[q] /\ loc'[q] = loc[q]
         /\ Here(q)' = Here(q) /\ Here(q).pa \in Page
  <2>1. \A q \in Proc : pc[q] \in {"last", "own"} =>
          /\ loc[q].dir \in Pgdir /\ loc[q].i \in Index
          /\ Here(q) # NoEntry
    BY <1>1, LocType, FaultingAt DEF Inv, Control, Locals, Index, Faulting
  <2>2. \A q \in Proc : pc[q] \in {"last", "own"} => Here(q).pa \in Page
    BY <1>1, <2>1, EntryType DEF Here
  <2>3. \A q \in Proc : pc'[q] \in {"last", "own"} =>
          q # p /\ pc[q] = pc'[q] /\ loc'[q] = loc[q]
    BY DEF Leaving
  <2>4. \A q \in Proc : pc'[q] \in {"last", "own"} => Here(q)' = Here(q)
    BY <1>1, <2>1, <2>3 DEF Here
  <2>5. QED
    BY <2>2, <2>3, <2>4
<1>13. Freed'
  BY <1>2, <1>3, <1>12, ConstantsAssumption DEF Inv, Pages, Freed
<1>14. Exclusive'
  <2>1. ASSUME NEW e \in Pgdir, NEW j \in Index, pte'[e][j].w, ~Busy(e, j)'
        PROVE  rmap'[pte'[e][j].pa] = {e}
    <3>1. CASE e = d /\ j = i
      BY <1>3, <3>1
    <3>2. CASE e # d \/ j # i
      <4>1. pte'[e][j] = pte[e][j] /\ ~Busy(e, j)
        BY <1>5, <2>1, <3>2
      <4>2. rmap[pte[e][j].pa] = {e} /\ pte[e][j].pa \in Page
        BY <1>1, <2>1, <4>1, EntryType DEF Inv, Pages, Exclusive
      <4>3. QED
        BY <1>2, <1>3, <4>1, <4>2
    <3>3. QED
      BY <3>1, <3>2
  <2>2. ASSUME NEW q \in Proc, pc'[q] = "own"
        PROVE  rmap'[Here(q)'.pa] = {loc'[q].dir}
    <3>1. rmap[Here(q).pa] = {loc[q].dir}
      BY <1>12, <2>2 DEF Inv, Pages, Exclusive
    <3>2. QED
      BY <1>2, <1>3, <1>12, <2>2, <3>1
  <2>3. QED
    BY <2>1, <2>2 DEF Exclusive
<1> QED
  BY <1>9, <1>10, <1>11, <1>13, <1>14 DEF Pages

(* The process has a copy of its own, and may write it.                    *)
LEMMA FaultRemapStep ==
  ASSUME Inv, NEW p \in Proc, FaultRemap(p)
  PROVE  Inv'
<1> DEFINE d == loc[p].dir
           i == loc[p].i
           h == loc[p].page
<1>0. /\ TypeOK /\ d = pgdir[p] /\ d \in Pgdir /\ i \in Index /\ i <= sz[p]
      /\ pc[p] = "remap" /\ state[p] = "running" /\ h \in Page
      /\ Here(p) # NoEntry /\ loc[p].kid = NoProc
  BY FaultingAt, LocType
  DEF FaultRemap, Faulting, Inv, Control, Locals
<1>1. /\ state' = state /\ parent' = parent /\ pgdir' = pgdir /\ sz' = sz
      /\ lock' = lock /\ free' = free /\ mem' = mem
      /\ pc' = [pc EXCEPT ![p] = "user"] /\ loc' = [loc EXCEPT ![p] = NoLoc]
  BY DEF FaultRemap, procs, Goto
<1>2. /\ pc'[p] = "user" /\ loc'[p] = NoLoc
      /\ \A q \in Proc : q # p => pc'[q] = pc[q] /\ loc'[q] = loc[q]
  BY <1>0, <1>1 DEF TypeOK
<1>3. /\ pte' \in [Pgdir -> [Index -> Entry]]
      /\ pte'[d][i].pa = h /\ pte'[d][i] # NoEntry
      /\ \A e \in Pgdir, j \in Index :
           e # d \/ j # i => pte'[e][j] = pte[e][j]
      /\ rmap' \in [Page -> SUBSET Pgdir]
      /\ rmap'[h] = rmap[h] \cup {d}
      /\ \A k \in Page : k # h => rmap'[k] = rmap[k]
  <2>1. PICK e \in Entry : e.pa = h /\ e # NoEntry /\ pte' = SetHere(p, e)
    BY <1>0, ConstantsAssumption DEF FaultRemap, Entry, NoEntry
  <2>2. /\ pte' \in [Pgdir -> [Index -> Entry]] /\ pte'[d][i] = e
        /\ \A f \in Pgdir, j \in Index :
             f # d \/ j # i => pte'[f][j] = pte[f][j]
    BY <1>0, <2>1 DEF SetHere, TypeOK
  <2>3. rmap' = [rmap EXCEPT ![h] = @ \cup {d}]
    BY DEF FaultRemap
  <2>4. QED
    BY <1>0, <2>1, <2>2, <2>3 DEF TypeOK
<1>4. TypeOK'
  BY <1>0, <1>1, <1>3, ConstantsAssumption DEF TypeOK, NoLoc
<1>a. \A e \in Pgdir, j \in Index :
        pte'[e][j] = NoEntry <=> pte[e][j] = NoEntry
  BY <1>0, <1>3 DEF Here
<1>5. \A q \in Proc : q # p => loc[q].dir # d /\ pgdir[q] # d
  BY <1>0, ConstantsAssumption DEF Inv, Control, Dirs
<1>6. Locals'
  <2>1. \A q \in Proc : pc[q] = "last" =>
          loc[q].i \in Index /\ loc[q].dir \in Pgdir
    BY <1>0, LocType DEF Inv, Control, Locals, Index
  <2>2. QED
    BY <1>0, <1>1, <1>2, <1>a, <2>1, ConstantsAssumption
    DEF Inv, Control, Locals, Here, Faulting, Freeing, NoLoc
<1>7. Kids'
  BY <1>0, <1>1, <1>2, ConstantsAssumption DEF Inv, Control, Kids, NoLoc
<1>8. Dirs'
  BY <1>0, <1>1, <1>2, ConstantsAssumption
  DEF Inv, Control, Kids, Dirs, Freeing, NoLoc
<1>9. Shape'
  <2>1. \A q \in Proc : state[q] = "running" =>
          pgdir[q] \in Pgdir /\ Bound(q)' = Bound(q)
    BY <1>0, <1>1, <1>2 DEF Inv, Control, Dirs, Bound, Freeing
  <2>2. \A q \in Proc : pc[q] # "user" =>
           loc[q].dir \in Pgdir /\ state[q] = "running"
    BY DEF Inv, Control, Locals
  <2>3. \A q \in Proc : state'[q] = "running" =>
          \A j \in Index : j <= Bound(q)' <=> pte'[pgdir'[q]][j] # NoEntry
    BY <1>1, <1>a, <2>1 DEF Inv, Control, Shape
  <2>4. \A q \in Proc : pc'[q] \in {"share", "load"} =>
          /\ q # p /\ pc'[q] = pc[q] /\ loc'[q] = loc[q]
          /\ pgdir'[q] = pgdir[q] /\ pgdir[q] \in Pgdir
          /\ \A j \in Index : /\ pte'[loc[q].dir][j] = pte[loc[q].dir][j]
                              /\ pte'[pgdir[q]][j] = pte[pgdir[q]][j]
    BY <1>1, <1>2, <1>3, <1>5, <2>1, <2>2
  <2>5. \A q \in Proc : pc'[q] = "share" =>
          \A j \in Index :
            IF j < loc'[q].i
              THEN pte'[loc'[q].dir][j].pa = pte'[pgdir'[q]][j].pa
              ELSE pte'[loc'[q].dir][j] = NoEntry
    BY <2>4, SMTT(30) DEF Inv, Control, Shape
  <2>6. \A q \in Proc : pc'[q] = "load" =>
          \A j \in Index : j < loc'[q].i <=> pte'[loc'[q].dir][j] # NoEntry
    BY <2>4 DEF Inv, Control, Shape
  <2>7. QED
    BY <2>3, <2>5, <2>6 DEF Shape
<1>10. Pages'
  BY <1>0, <1>1, <1>2, <1>3, GainPages DEF NoLoc, Leaving
<1> QED
  BY <1>4, <1>6, <1>7, <1>8, <1>9, <1>10 DEF Inv, Control

(* allocuvm() maps the new page at the first number that has none.         *)
LEMMA MapPageStep ==
  ASSUME Inv, NEW p \in Proc, MapPage(p)
  PROVE  Inv'
<1> DEFINE d == loc[p].dir
           i == loc[p].i
           h == loc[p].page
<1>0. /\ TypeOK /\ d \in Pgdir /\ d # NoDir /\ pc[p] \in {"grow", "load"}
      /\ state[p] = "running" /\ h \in Page /\ h # NoPage
      /\ pc[p] = "grow" => d = pgdir[p] /\ loc[p].n = sz[p] + 1 /\ i = loc[p].n
      /\ i >= 1 /\ i <= loc[p].n /\ loc[p].n \in 0 .. MaxPages
      /\ i \in 0 .. MaxPages + 1 /\ sz[p] \in 0 .. MaxPages
      /\ i \in Index /\ MaxPages \in Nat \ {0}
  <2>1. /\ TypeOK /\ d \in Pgdir /\ pc[p] \in {"grow", "load"}
        /\ state[p] = "running" /\ h # NoPage /\ i >= 1 /\ i <= loc[p].n
        /\ pc[p] = "grow" => /\ d = pgdir[p] /\ loc[p].n = sz[p] + 1
                             /\ i \in {loc[p].n, loc[p].n + 1}
    BY DEF MapPage, Inv, Control, Locals
  <2>2. QED
    BY <2>1, LocType, ConstantsAssumption DEF Index
<1>a. pte[d][i] = NoEntry
  <2>1. CASE pc[p] = "grow"
    <3>1. ~(i <= Bound(p))
      BY <1>0, <2>1 DEF Bound
    <3>2. QED
      BY <1>0, <2>1, <3>1 DEF Inv, Control, Shape
  <2>2. CASE pc[p] = "load"
    BY <1>0, <2>2 DEF Inv, Control, Shape
  <2>3. QED
    BY <1>0, <2>1, <2>2
<1>1. /\ state' = state /\ parent' = parent /\ pgdir' = pgdir /\ sz' = sz
      /\ lock' = lock /\ free' = free /\ mem' = mem /\ pc' = pc
  BY DEF MapPage, procs
<1>2. /\ loc'[p] = [dir |-> d, i |-> i + 1, n |-> loc[p].n,
                    page |-> NoPage, kid |-> loc[p].kid]
      /\ \A q \in Proc : q # p => loc'[q] = loc[q]
  BY <1>0 DEF MapPage, TypeOK
<1>3. /\ pte' \in [Pgdir -> [Index -> Entry]]
      /\ pte'[d][i].pa = h /\ pte'[d][i] # NoEntry
      /\ \A e \in Pgdir, j \in Index :
           e # d \/ j # i => pte'[e][j] = pte[e][j]
      /\ rmap' \in [Page -> SUBSET Pgdir]
      /\ rmap'[h] = rmap[h] \cup {d}
      /\ \A k \in Page : k # h => rmap'[k] = rmap[k]
  <2>1. PICK e \in Entry : e.pa = h /\ e # NoEntry /\ pte' = SetHere(p, e)
    BY <1>0, ConstantsAssumption DEF MapPage, Entry, NoEntry
  <2>2. /\ pte' \in [Pgdir -> [Index -> Entry]] /\ pte'[d][i] = e
        /\ \A f \in Pgdir, j \in Index :
             f # d \/ j # i => pte'[f][j] = pte[f][j]
    BY <1>0, <2>1 DEF SetHere, TypeOK
  <2>3. rmap' = [rmap EXCEPT ![h] = @ \cup {d}]
    BY DEF MapPage
  <2>4. QED
    BY <1>0, <2>1, <2>2, <2>3 DEF TypeOK
<1>4. TypeOK'
  <2>1. loc'[p] \in [dir : Pgdir \cup {NoDir}, i : 0 .. MaxPages + 1,
                     n : 0 .. MaxPages, page : Page \cup {NoPage},
                     kid : Proc \cup {NoProc}]
    BY <1>0, <1>2, LocType
  <2>2. DOMAIN loc' = Proc /\ loc' = [q \in Proc |-> loc'[q]]
    BY <1>0 DEF MapPage, TypeOK
  <2>3. loc' \in [Proc -> [dir : Pgdir \cup {NoDir}, i : 0 .. MaxPages + 1,
                     n : 0 .. MaxPages, page : Page \cup {NoPage},
                     kid : Proc \cup {NoProc}]]
    BY <1>0, <1>2, <2>1, <2>2 DEF TypeOK
  <2>4. QED
    BY <1>0, <1>1, <1>3, <2>3 DEF TypeOK
<1>5. \A q \in Proc : q # p => loc[q].dir # d /\ pgdir[q] # d
  BY <1>0, LocType, ConstantsAssumption
  DEF Inv, Control, Locals, Kids, Dirs, Freeing
<1>6. Locals'
  <2>1. \A q \in Proc : pc[q] = "last" =>
          loc[q].i \in Index /\ loc[q].dir \in Pgdir
    BY <1>0, LocType DEF Inv, Control, Locals, Index
  <2>2. \A q \in Proc : pc'[q] = "last" => q # p /\ Here(q)' = Here(q)
    BY <1>0, <1>1, <1>2, <1>3, <1>5, <2>1 DEF Here
  <2>3. QED
    BY <1>0, <1>1, <1>2, <2>2, ConstantsAssumption
    DEF Inv, Control, Locals, Faulting, Freeing, NoLoc
<1>7. Kids'
  BY <1>0, <1>1, <1>2, ConstantsAssumption DEF Inv, Control, Kids
<1>8. Dirs'
  BY <1>0, <1>1, <1>2, ConstantsAssumption
  DEF Inv, Control, Kids, Dirs, Freeing
<1>9. Shape'
  <2>1. \A q \in Proc : state[q] = "running" => pgdir[q] \in Pgdir
    BY DEF Inv, Control, Dirs
  <2>2. \A q \in Proc : pc[q] # "user" =>
           loc[q].dir \in Pgdir /\ state[q] = "running"
    BY DEF Inv, Control, Locals
  <2>3. \A q \in Proc : q # p /\ state'[q] = "running" =>
          \A j \in Index : j <= Bound(q)' <=> pte'[pgdir'[q]][j] # NoEntry
    <3>1. \A q \in Proc : q # p => Bound(q)' = Bound(q)
      BY <1>1, <1>2 DEF Bound
    <3>2. QED
      BY <1>1, <1>3, <1>5, <2>1, <3>1 DEF Inv, Control, Shape
  <2>4. \A j \in Index : j <= Bound(p)' <=> pte'[pgdir'[p]][j] # NoEntry
    <3>1. \A j \in Index : j <= Bound(p) <=> pte[pgdir[p]][j] # NoEntry
      BY <1>0 DEF Inv, Control, Shape
    <3>2. CASE pc[p] = "grow"
      <4>1. Bound(p) = i - 1 /\ Bound(p)' = i /\ d = pgdir[p]
        BY <1>0, <1>1, <1>2, <3>2 DEF Bound
      <4>2. \A j \in Index : j <= i <=> j <= i - 1 \/ j = i
        BY <1>0 DEF Index
      <4>3. QED
        BY <1>0, <1>1, <1>3, <3>1, <4>1, <4>2
    <3>3. CASE pc[p] = "load"
      <4>1. pgdir[p] # d /\ pgdir[p] \in Pgdir
        BY <1>0, <2>1, <3>3 DEF Inv, Control, Dirs
      <4>2. Bound(p)' = Bound(p)
        BY <1>1, <3>3 DEF Bound, Freeing
      <4>3. QED
        BY <1>1, <1>3, <3>1, <4>1, <4>2
    <3>4. QED
      BY <1>0, <3>2, <3>3
  <2>5. \A q \in Proc : pc'[q] \in {"share", "load"} /\ q # p =>
          /\ pc'[q] = pc[q] /\ loc'[q] = loc[q]
          /\ pgdir'[q] = pgdir[q] /\ pgdir[q] \in Pgdir
          /\ \A j \in Index : /\ pte'[loc[q].dir][j] = pte[loc[q].dir][j]
                              /\ pte'[pgdir[q]][j] = pte[pgdir[q]][j]
    BY <1>1, <1>2, <1>3, <1>5, <2>1, <2>2
  <2>6. \A q \in Proc : pc'[q] = "share" =>
          \A j \in Index :
            IF j < loc'[q].i
              THEN pte'[loc'[q].dir][j].pa = pte'[pgdir'[q]][j].pa
              ELSE pte'[loc'[q].dir][j] = NoEntry
    <3> SUFFICES ASSUME NEW q \in Proc, pc'[q] = "share", NEW j \in Index
                 PROVE  IF j < loc'[q].i
                    THEN pte'[loc'[q].dir][j].pa = pte'[pgdir'[q]][j].pa
                    ELSE pte'[loc'[q].dir][j] = NoEntry
      OBVIOUS
    <3>1. q # p /\ pc[q] = "share"
      BY <1>0, <1>1
    <3>2. IF j < loc[q].i THEN pte[loc[q].dir][j].pa = pte[pgdir[q]][j].pa
                          ELSE pte[loc[q].dir][j] = NoEntry
      BY <3>1 DEF Inv, Control, Shape
    <3>3. QED
      BY <2>5, <3>1, <3>2, SMTT(30)
  <2>7. pc[p] = "load" =>
          \A j \in Index : j < i + 1 <=> pte'[d][j] # NoEntry
    <3> SUFFICES ASSUME pc[p] = "load", NEW j \in Index
                 PROVE  j < i + 1 <=> pte'[d][j] # NoEntry
      OBVIOUS
    <3>1. j < i <=> pte[d][j] # NoEntry
      BY DEF Inv, Control, Shape
    <3>2. j < i + 1 <=> j < i \/ j = i
      BY <1>0 DEF Index
    <3>3. QED
      BY <1>0, <1>3, <3>1, <3>2
  <2>8. \A q \in Proc : pc'[q] = "load" =>
          \A j \in Index : j < loc'[q].i <=> pte'[loc'[q].dir][j] # NoEntry
    <3>1. ASSUME NEW q \in Proc, q # p, pc'[q] = "load"
          PROVE  \A j \in Index :
                   j < loc'[q].i <=> pte'[loc'[q].dir][j] # NoEntry
      BY <2>5, <3>1 DEF Inv, Control, Shape
    <3>2. QED
      BY <1>1, <1>2, <2>7, <3>1
  <2>9. QED
    BY <2>3, <2>4, <2>6, <2>8 DEF Shape
<1>10. Pages'
  <2>1. pc[p] \notin Leaving /\ pc'[p] # "own" /\ pc'[p] \notin Leaving
    BY <1>0, <1>1 DEF Leaving
  <2>2. Here(p) = NoEntry /\ pc[p] # "last"
    BY <1>0, <1>a DEF Here
  <2>3. QED
    BY <1>0, <1>1, <1>2, <1>3, <2>1, <2>2, GainPages
<1> QED
  BY <1>4, <1>6, <1>7, <1>8, <1>9, <1>10 DEF Inv, Control

(* copyuvm() shares one page: both entries become read-only and the child  *)
(* is added to the reverse map.                                            *)
LEMMA SharePageStep ==
  ASSUME Inv, NEW p \in Proc, SharePage(p)
  PROVE  Inv'
<1> SUFFICES ASSUME NEW d, NEW i, NEW P, NEW g, loc[p].dir = d,
                    loc[p].i = i, pgdir[p] = P, pte[P][i].pa = g
             PROVE  Inv'
  OBVIOUS
<1>0. /\ TypeOK /\ pc[p] = "share" /\ state[p] = "running"
      /\ d \in Pgdir /\ P \in Pgdir /\ d # NoDir /\ P # d
      /\ i \in Index /\ i >= 1 /\ i <= sz[p] /\ sz[p] \in 0 .. MaxPages
      /\ MaxPages \in Nat \ {0} /\ pte[P][i] # NoEntry /\ g \in Page
      /\ pte[P][i] \in Entry /\ loc[p].page = NoPage
  <2>1. /\ TypeOK /\ pc[p] = "share" /\ state[p] = "running"
        /\ d \in Pgdir /\ P \in Pgdir /\ i >= 1 /\ i <= sz[p]
        /\ P # d /\ loc[p].page = NoPage
    BY ConstantsAssumption DEF SharePage, Inv, Control, Locals, Dirs
  <2>2. /\ i \in Index /\ sz[p] \in 0 .. MaxPages /\ MaxPages \in Nat \ {0}
    BY <2>1, LocType DEF Index
  <2>3. i <= Bound(p)
    BY <2>1 DEF Bound, Freeing
  <2>4. pte[P][i] # NoEntry
    BY <2>1, <2>2, <2>3 DEF Inv, Control, Shape
  <2>5. QED
    BY <2>1, <2>2, <2>4, EntryType, ConstantsAssumption
<1>1. /\ state' = state /\ parent' = parent /\ pgdir' = pgdir /\ sz' = sz
      /\ lock' = lock /\ free' = free /\ mem' = mem /\ pc' = pc
  BY DEF SharePage, procs
<1>2. /\ loc'[p] = [dir |-> d, i |-> i + 1, n |-> loc[p].n,
                    page |-> NoPage, kid |-> loc[p].kid]
      /\ \A q \in Proc : q # p => loc'[q] = loc[q]
  BY <1>0 DEF SharePage, TypeOK
<1>3. /\ pte' \in [Pgdir -> [Index -> Entry]]
      /\ pte'[d][i].pa = g /\ pte'[P][i].pa = g
      /\ pte'[d][i] # NoEntry /\ pte'[P][i] # NoEntry
      /\ ~pte'[d][i].w /\ ~pte'[P][i].w
      /\ \A e \in Pgdir, j \in Index :
           e \notin {d, P} \/ j # i => pte'[e][j] = pte[e][j]
      /\ rmap' \in [Page -> SUBSET Pgdir]
      /\ rmap'[g] = rmap[g] \cup {d}
      /\ \A k \in Page : k # g => rmap'[k] = rmap[k]
  <2>1. [pte[P][i] EXCEPT !.w = FALSE] = [pa |-> g, w |-> FALSE]
    BY <1>0, SetW, Zenon
  <2>2. PICK e \in Entry :
          /\ e.pa = g /\ ~e.w /\ e # NoEntry
          /\ pte' = [pte EXCEPT ![P][i] = e, ![d][i] = e]
          /\ rmap' = [rmap EXCEPT ![g] = @ \cup {d}]
    <3>1. PICK e \in Entry : e = [pa |-> g, w |-> FALSE]
      BY <1>0 DEF Entry
    <3>2. e.pa = g /\ ~e.w /\ e # NoEntry
      BY <1>0, <3>1, ConstantsAssumption DEF NoEntry
    <3>3. [pte[P][i] EXCEPT !.w = FALSE] = e
      BY <2>1, <3>1, Zenon
    <3>4. /\ pte' = [pte EXCEPT ![P][i] = e, ![d][i] = e]
          /\ rmap' = [rmap EXCEPT ![g] = @ \cup {d}]
      BY <3>2, <3>3 DEF SharePage
    <3>5. QED
      BY <3>2, <3>4
  <2>4. PICK m : m = [pte EXCEPT ![P][i] = e]
    OBVIOUS
  <2>a. /\ m \in [Pgdir -> [Index -> Entry]] /\ m[P][i] = e
        /\ \A f \in Pgdir, j \in Index : f # P \/ j # i => m[f][j] = pte[f][j]
    BY <1>0, <2>4 DEF TypeOK
  <2>b. pte' = [m EXCEPT ![d][i] = e]
    BY <2>2, <2>4
  <2>c. /\ pte' \in [Pgdir -> [Index -> Entry]]
        /\ pte'[d][i] = e /\ pte'[P][i] = e
        /\ \A f \in Pgdir, j \in Index :
             f \notin {d, P} \/ j # i => pte'[f][j] = pte[f][j]
    BY <1>0, <2>a, <2>b
  <2>d. /\ rmap' \in [Page -> SUBSET Pgdir]
        /\ rmap'[g] = rmap[g] \cup {d}
        /\ \A k \in Page : k # g => rmap'[k] = rmap[k]
    BY <1>0, <2>2 DEF TypeOK
  <2>5. QED
    BY <2>2, <2>c, <2>d, Zenon
<1>4. TypeOK'
  <2>1. loc'[p] \in [dir : Pgdir \cup {NoDir}, i : 0 .. MaxPages + 1,
                     n : 0 .. MaxPages, page : Page \cup {NoPage},
                     kid : Proc \cup {NoProc}]
    BY <1>0, <1>2, LocType
  <2>2. DOMAIN loc' = Proc /\ loc' = [q \in Proc |-> loc'[q]]
    BY <1>0 DEF SharePage, TypeOK
  <2>3. loc' \in [Proc -> [dir : Pgdir \cup {NoDir}, i : 0 .. MaxPages + 1,
                     n : 0 .. MaxPages, page : Page \cup {NoPage},
                     kid : Proc \cup {NoProc}]]
    BY <1>0, <1>2, <2>1, <2>2 DEF TypeOK
  <2>4. QED
    BY <1>0, <1>1, <1>3, <2>3 DEF TypeOK
<1>5. /\ \A q \in Proc : q # p => loc[q].dir # d /\ pgdir[q] # P
      /\ \A q \in Proc : loc[q].dir # P /\ pgdir[q] # d
  <2>1. \A q \in Proc : pc[q] \in Freeing => loc[q].kid # p
    BY <1>0, ConstantsAssumption DEF Inv, Control, Kids, Freeing
  <2>2. QED
    BY <1>0, <2>1, ConstantsAssumption DEF Inv, Control, Dirs, Freeing
<1>6. \A q \in Proc : pc[q] # "user" =>
        /\ loc[q].dir \in Pgdir /\ state[q] = "running"
        /\ pgdir[q] \in Pgdir
  BY DEF Inv, Control, Locals, Dirs
<1>7. \A q \in Proc : pc'[q] \in {"last", "own"} =>
        /\ q # p /\ pc[q] = pc'[q] /\ loc'[q] = loc[q]
        /\ Here(q)' = Here(q) /\ Here(q).pa \in Page
  <2>1. \A q \in Proc : pc[q] \in {"last", "own"} =>
          /\ q # p /\ loc[q].dir \in Pgdir /\ loc[q].i \in Index
          /\ Here(q) # NoEntry
    BY <1>0, LocType, FaultingAt DEF Inv, Control, Locals, Index, Faulting
  <2>2. \A q \in Proc : pc[q] \in {"last", "own"} => Here(q).pa \in Page
    BY <1>0, <2>1, EntryType DEF Here
  <2>3. \A q \in Proc : pc[q] \in {"last", "own"} => Here(q)' = Here(q)
    BY <1>2, <1>3, <1>5, <2>1 DEF Here
  <2>4. QED
    BY <1>1, <1>2, <2>1, <2>2, <2>3
<1>8. Locals'
  <2>1. \A q \in Proc : pc'[q] = "last" => q # p /\ Here(q)' = Here(q)
    BY <1>7
  <2>2. i + 1 <= sz[p] + 1 /\ i + 1 >= 1
    BY <1>0 DEF Index
  <2>3. QED
    BY <1>0, <1>1, <1>2, <2>1, <2>2, ConstantsAssumption
    DEF Inv, Control, Locals, Faulting, Freeing, NoLoc
<1>9. Kids'
  BY <1>0, <1>1, <1>2, ConstantsAssumption DEF Inv, Control, Kids
<1>10. Dirs'
  BY <1>0, <1>1, <1>2, ConstantsAssumption
  DEF Inv, Control, Kids, Dirs, Freeing
<1>11. pte[d][i] = NoEntry /\ pte[d][i].pa = NoPage
  <2>1. ~(i < i)
    BY <1>0 DEF Index
  <2>2. QED
    BY <1>0, <2>1, EntryType DEF Inv, Control, Shape
<1>12. Shape'
  <2>1. \A q \in Proc : state[q] = "running" =>
          pgdir[q] \in Pgdir /\ Bound(q)' = Bound(q)
    BY <1>0, <1>1, <1>2 DEF Inv, Control, Dirs, Bound, Freeing
  <2>2. \A e \in Pgdir, j \in Index : e # d =>
          (pte'[e][j] # NoEntry <=> pte[e][j] # NoEntry)
    BY <1>0, <1>3
  <2>3. \A q \in Proc : state'[q] = "running" =>
          \A j \in Index : j <= Bound(q)' <=> pte'[pgdir'[q]][j] # NoEntry
    BY <1>1, <1>5, <2>1, <2>2 DEF Inv, Control, Shape
  <2>4. ASSUME NEW q \in Proc, pc'[q] = "share", NEW j \in Index
        PROVE  IF j < loc'[q].i
                 THEN pte'[loc'[q].dir][j].pa = pte'[pgdir'[q]][j].pa
                 ELSE pte'[loc'[q].dir][j] = NoEntry
    <3>1. /\ pc[q] = "share" /\ loc[q].dir \in Pgdir /\ pgdir[q] \in Pgdir
          /\ loc[q].i \in 0 .. MaxPages + 1
      BY <1>0, <1>1, <1>6, <2>4, LocType
    <3>2. IF j < loc[q].i THEN pte[loc[q].dir][j].pa = pte[pgdir[q]][j].pa
                          ELSE pte[loc[q].dir][j] = NoEntry
      BY <3>1 DEF Inv, Control, Shape
    <3>3. CASE q # p
      <4>1. /\ loc[q].dir \notin {d, P} /\ loc'[q] = loc[q]
            /\ pgdir[q] \notin {d, P} /\ pgdir'[q] = pgdir[q]
        BY <1>1, <1>2, <1>5, <3>3
      <4>2. /\ pte'[loc[q].dir][j] = pte[loc[q].dir][j]
            /\ pte'[pgdir[q]][j] = pte[pgdir[q]][j]
        BY <1>3, <3>1, <4>1
      <4>3. QED
        BY <3>2, <4>1, <4>2
    <3>4. CASE q = p /\ j = i
      <4>1. i < i + 1
        BY <1>0 DEF Index
      <4>2. QED
        BY <1>0, <1>1, <1>2, <1>3, <3>4, <4>1
    <3>5. CASE q = p /\ j # i
      <4>1. j < i + 1 <=> j < i
        BY <1>0, <3>5 DEF Index
      <4>2. QED
        BY <1>0, <1>1, <1>2, <1>3, <3>2, <3>5, <4>1
    <3>6. QED
      BY <3>3, <3>4, <3>5
  <2>5. ASSUME NEW q \in Proc, pc'[q] = "load", NEW j \in Index
        PROVE  j < loc'[q].i <=> pte'[loc'[q].dir][j] # NoEntry
    <3>1. /\ pc[q] = "load" /\ q # p /\ loc[q].dir \in Pgdir
      BY <1>0, <1>1, <1>6, <2>5
    <3>2. j < loc[q].i <=> pte[loc[q].dir][j] # NoEntry
      BY <3>1 DEF Inv, Control, Shape
    <3>3. QED
      BY <1>2, <1>3, <1>5, <3>1, <3>2
  <2>6. QED
    BY <2>3, <2>4, <2>5 DEF Shape
<1>13. \A e, j : Busy(e, j)' <=> Busy(e, j)
  <2>1. pc[p] \notin Leaving
    BY <1>0 DEF Leaving
  <2>2. QED
    BY <1>1, <1>2, <2>1 DEF Busy
<1>14. \A j : ~Busy(d, j) /\ ~Busy(P, j)
  <2>1. pc[p] \notin Leaving
    BY <1>0 DEF Leaving
  <2>2. QED
    BY <1>5, <2>1 DEF Busy
<1>15. P \in rmap[g] /\ free[g] = 0 /\ \A q \in Proc : loc[q].page # g
  <2>1. P \in rmap[g]
    BY <1>0, <1>14 DEF Inv, Pages, Listed
  <2>2. QED
    BY <1>0, <2>1, ConstantsAssumption DEF Inv, Pages, Freed, Held
<1>16. \A j \in Index : /\ pte'[P][j].pa = pte[P][j].pa
                        /\ pte'[d][j].pa \in {pte[P][j].pa, NoPage}
  <2> SUFFICES ASSUME NEW j \in Index
               PROVE  /\ pte'[P][j].pa = pte[P][j].pa
                      /\ pte'[d][j].pa \in {pte[P][j].pa, NoPage}
    OBVIOUS
  <2>1. CASE j = i
    BY <1>0, <1>3, <2>1
  <2>2. CASE j # i
    <3>1. pte[d][j].pa = pte[P][j].pa \/ pte[d][j] = NoEntry
      BY <1>0 DEF Inv, Control, Shape
    <3>2. QED
      BY <1>0, <1>3, <2>2, <3>1 DEF NoEntry
  <2>3. QED
    BY <2>1, <2>2
<1>17. Once'
  <2> SUFFICES ASSUME NEW e \in Pgdir, NEW a \in Index, NEW b \in Index,
                      pte'[e][a].pa = pte'[e][b].pa, pte'[e][a].pa # NoPage
               PROVE  a = b
    BY DEF Once
  <2>1. CASE e \in {d, P}
    <3>1. pte[P][a].pa = pte[P][b].pa /\ pte[P][a].pa # NoPage
      BY <1>16, <2>1
    <3>2. QED
      BY <1>0, <3>1 DEF Inv, Pages, Once
  <2>2. CASE e \notin {d, P}
    BY <1>3, <2>2 DEF Inv, Pages, Once
  <2>3. QED
    BY <2>1, <2>2
<1>18. Listed'
  <2> SUFFICES ASSUME NEW k \in Page, NEW e \in Pgdir
               PROVE  e \in rmap'[k] <=>
                        \E j \in Index : pte'[e][j].pa = k /\ ~Busy(e, j)'
    BY DEF Listed
  <2>1. e \in rmap[k] <=> \E j \in Index : pte[e][j].pa = k /\ ~Busy(e, j)
    BY DEF Inv, Pages, Listed
  <2>2. CASE e = d /\ k = g
    BY <1>0, <1>3, <1>13, <1>14, <2>2
  <2>3. CASE e = d /\ k # g
    <3>1. \A j \in Index : pte'[d][j].pa = k <=> pte[d][j].pa = k
      BY <1>0, <1>3, <1>11, <2>3, ConstantsAssumption
    <3>2. e \in rmap'[k] <=> e \in rmap[k]
      BY <1>3, <2>3
    <3>3. QED
      BY <1>13, <2>1, <2>3, <3>1, <3>2
  <2>4. CASE e # d
    <3>1. \A j \in Index : pte'[e][j].pa = pte[e][j].pa
      BY <1>3, <1>16, <2>4
    <3>2. e \in rmap'[k] <=> e \in rmap[k]
      BY <1>3, <2>4
    <3>3. QED
      BY <1>13, <2>1, <3>1, <3>2
  <2>5. QED
    BY <2>2, <2>3, <2>4
<1>19. Held'
  <2>1. \A q \in Proc : loc[q].page \in Page \cup {NoPage}
    BY <1>0, LocType
  <2>2. \A q \in Proc : loc'[q].page = loc[q].page
    BY <1>0, <1>2
  <2>3. ASSUME NEW q \in Proc, loc[q].page # NoPage
        PROVE  /\ free'[loc[q].page] = 0 /\ rmap'[loc[q].page] = {}
               /\ \A r \in Proc : loc[r].page = loc[q].page => r = q
    <3>1. /\ free[loc[q].page] = 0 /\ rmap[loc[q].page] = {}
          /\ \A r \in Proc : loc[r].page = loc[q].page => r = q
      BY <2>3 DEF Inv, Pages, Held
    <3>2. QED
      BY <1>1, <1>3, <1>15, <2>1, <2>3, <3>1
  <2>4. QED
    BY <2>2, <2>3 DEF Held
<1>20. Freed'
  <2>1. \A q \in Proc : loc'[q].page = loc[q].page
    BY <1>0, <1>2
  <2>2. QED
    BY <1>1, <1>3, <1>7, <1>15, <2>1 DEF Inv, Pages, Freed
<1>21. Exclusive'
  <2>1. ASSUME NEW e \in Pgdir, NEW j \in Index, pte'[e][j].w, ~Busy(e, j)'
        PROVE  rmap'[pte'[e][j].pa] = {e}
    <3>1. e \notin {d, P} \/ j # i
      BY <1>3, <2>1
    <3>2. pte'[e][j] = pte[e][j] /\ ~Busy(e, j)
      BY <1>3, <1>13, <2>1, <3>1
    <3>3. rmap[pte[e][j].pa] = {e} /\ pte[e][j].pa \in Page
      BY <1>0, <2>1, <3>2, EntryType DEF Inv, Pages, Exclusive
    <3>4. pte[e][j].pa # g
      <4> SUFFICES ASSUME pte[e][j].pa = g PROVE FALSE
        OBVIOUS
      <4>1. e = P
        BY <1>15, <3>3
      <4>2. j = i
        BY <1>0, <4>1, ConstantsAssumption DEF Inv, Pages, Once
      <4>3. QED
        BY <3>1, <4>1, <4>2
    <3>5. QED
      BY <1>3, <3>2, <3>3, <3>4
  <2>2. ASSUME NEW q \in Proc, pc'[q] = "own"
        PROVE  rmap'[Here(q)'.pa] = {loc'[q].dir}
    <3>1. rmap[Here(q).pa] = {loc[q].dir}
      BY <1>7, <2>2 DEF Inv, Pages, Exclusive
    <3>2. Here(q).pa # g
      BY <1>5, <1>15, <3>1
    <3>3. QED
      BY <1>3, <1>7, <2>2, <3>1, <3>2, ZenonT(30)
  <2>3. QED
    BY <2>1, <2>2 DEF Exclusive
<1> QED
  BY <1>4, <1>8, <1>9, <1>10, <1>12, <1>17, <1>18, <1>19, <1>20, <1>21
  DEF Inv, Control, Pages

(* deallocuvm() frees the page when the list is empty, and clears the      *)
(* entry.  This is the step that needs NoRace: a second process that has   *)
(* left the list of the same page would find it free.                      *)
LEMMA FreeLastStep ==
  ASSUME Inv, NoRace, NEW p \in Proc, FreeLast(p)
  PROVE  Inv'
<1> SUFFICES ASSUME NEW d, NEW i, NEW g, loc[p].dir = d,
                    loc[p].i = i, pte[d][i].pa = g
             PROVE  Inv'
  OBVIOUS
<1>0. /\ TypeOK /\ pc[p] = "last" /\ state[p] = "running"
      /\ d \in Pgdir /\ d # NoDir /\ i \in Index /\ i >= 1 /\ i <= loc[p].n
      /\ loc[p].n \in 0 .. MaxPages /\ sz[p] \in 0 .. MaxPages
      /\ MaxPages \in Nat \ {0} /\ g \in Page /\ g = Here(p).pa
      /\ loc[p].page = NoPage
      /\ d = pgdir[p] => loc[p].n = sz[p] /\ i = sz[p]
  <2>1. /\ TypeOK /\ pc[p] = "last" /\ state[p] = "running"
        /\ d \in Pgdir /\ i >= 1 /\ i <= loc[p].n /\ Here(p) # NoEntry
        /\ loc[p].page = NoPage
        /\ d = pgdir[p] => loc[p].n = sz[p] /\ i >= loc[p].n
    BY DEF FreeLast, Inv, Control, Locals, Freeing
  <2>2. /\ i \in Index /\ loc[p].n \in 0 .. MaxPages /\ i \in Nat
        /\ sz[p] \in 0 .. MaxPages /\ MaxPages \in Nat \ {0}
    BY <2>1, LocType DEF Index
  <2>3. g \in Page /\ g = Here(p).pa
    BY <2>1, <2>2, EntryType DEF Here
  <2>4. d = pgdir[p] => i = sz[p]
    BY <2>1, <2>2
  <2>5. QED
    BY <2>1, <2>2, <2>3, <2>4, ConstantsAssumption
<1>1. /\ state' = state /\ parent' = parent /\ pgdir' = pgdir /\ sz' = sz
      /\ lock' = lock /\ rmap' = rmap
  BY DEF FreeLast, procs
<1>2. /\ loc'[p] = [dir |-> d, i |-> i + 1, n |-> loc[p].n,
                    page |-> NoPage, kid |-> loc[p].kid]
      /\ pc'[p] = "free"
      /\ \A q \in Proc : q # p => loc'[q] = loc[q] /\ pc'[q] = pc[q]
  BY <1>0 DEF FreeLast, Goto, TypeOK
<1>3. /\ pte' \in [Pgdir -> [Index -> Entry]]
      /\ pte'[d][i] = NoEntry
      /\ \A e \in Pgdir, j \in Index :
           e # d \/ j # i => pte'[e][j] = pte[e][j]
  <2>1. NoEntry \in Entry
    BY DEF Entry
  <2>2. QED
    BY <1>0, <2>1 DEF FreeLast, SetHere, TypeOK
<1>4. /\ free' \in [Page -> Nat] /\ mem' \in [Page -> Val \cup {Junk}]
      /\ \A h \in Page : h # g => free'[h] = free[h]
      /\ free'[g] = IF rmap[g] = {} THEN free[g] + 1 ELSE free[g]
  <2>1. CASE rmap[g] = {}
    <3>1. /\ free' = [free EXCEPT ![g] = @ + 1]
          /\ mem' = [mem EXCEPT ![g] = Junk]
      BY <1>0, <2>1 DEF FreeLast
    <3>2. QED
      BY <1>0, <2>1, <3>1 DEF TypeOK
  <2>2. CASE rmap[g] # {}
    <3>1. free' = free /\ mem' = mem
      BY <1>0, <2>2 DEF FreeLast
    <3>2. QED
      BY <1>0, <2>2, <3>1 DEF TypeOK
  <2>3. QED
    BY <2>1, <2>2
<1>5. TypeOK'
  <2>1. loc'[p] \in [dir : Pgdir \cup {NoDir}, i : 0 .. MaxPages + 1,
                     n : 0 .. MaxPages, page : Page \cup {NoPage},
                     kid : Proc \cup {NoProc}]
    BY <1>0, <1>2, LocType DEF Index
  <2>2. /\ DOMAIN loc' = Proc /\ loc' = [q \in Proc |-> loc'[q]]
        /\ pc' = [pc EXCEPT ![p] = "free"]
    BY <1>0 DEF FreeLast, TypeOK, Goto
  <2>3. loc' \in [Proc -> [dir : Pgdir \cup {NoDir}, i : 0 .. MaxPages + 1,
                     n : 0 .. MaxPages, page : Page \cup {NoPage},
                     kid : Proc \cup {NoProc}]]
    BY <1>0, <1>2, <2>1, <2>2 DEF TypeOK
  <2>4. QED
    BY <1>0, <1>1, <1>3, <1>4, <2>2, <2>3 DEF TypeOK
<1>6. /\ \A q \in Proc : q # p => loc[q].dir # d
      /\ \A q \in Proc : q # p /\ state[q] = "running" => pgdir[q] # d
  BY <1>0, ConstantsAssumption DEF Inv, Control, Kids, Dirs, Freeing
<1>7. \A q \in Proc : pc[q] # "user" =>
        /\ loc[q].dir \in Pgdir /\ state[q] = "running"
        /\ pgdir[q] \in Pgdir
  BY DEF Inv, Control, Locals, Dirs
<1>8. \A q \in Proc : pc'[q] \in {"last", "own"} =>
        /\ q # p /\ pc[q] = pc'[q] /\ loc'[q] = loc[q]
        /\ Here(q)' = Here(q) /\ Here(q).pa \in Page
  <2>1. \A q \in Proc : pc[q] \in {"last", "own"} =>
          /\ loc[q].dir \in Pgdir /\ loc[q].i \in Index
          /\ Here(q) # NoEntry
    BY <1>0, LocType, FaultingAt DEF Inv, Control, Locals, Index, Faulting
  <2>2. \A q \in Proc : pc[q] \in {"last", "own"} => Here(q).pa \in Page
    BY <1>0, <2>1, EntryType DEF Here
  <2>3. \A q \in Proc : pc[q] \in {"last", "own"} /\ q # p =>
          Here(q)' = Here(q)
    BY <1>2, <1>3, <1>6, <2>1 DEF Here
  <2>4. QED
    BY <1>1, <1>2, <2>1, <2>2, <2>3
<1>9. Locals'
  <2>1. \A q \in Proc : pc'[q] = "last" => q # p /\ Here(q)' = Here(q)
    BY <1>8
  <2>2. i + 1 <= loc[p].n + 1 /\ i + 1 >= 1
    BY <1>0 DEF Index
  <2>3. QED
    BY <1>0, <1>1, <1>2, <2>1, <2>2, ConstantsAssumption
    DEF Inv, Control, Locals, Faulting, Freeing, NoLoc
<1>10. Kids'
  BY <1>0, <1>1, <1>2, ConstantsAssumption DEF Inv, Control, Kids, Freeing
<1>11. Dirs'
  BY <1>0, <1>1, <1>2, ConstantsAssumption
  DEF Inv, Control, Kids, Dirs, Freeing
<1>12. Shape'
  <2>1. ASSUME NEW q \in Proc, q # p, state'[q] = "running", NEW j \in Index
        PROVE  j <= Bound(q)' <=> pte'[pgdir'[q]][j] # NoEntry
    <3>1. pgdir[q] \in Pgdir /\ pgdir[q] # d /\ state[q] = "running"
      BY <1>1, <1>6, <2>1 DEF Inv, Control, Dirs
    <3>2. Bound(q)' = Bound(q)
      BY <1>1, <1>2, <2>1 DEF Bound
    <3>3. QED
      BY <1>1, <1>3, <3>1, <3>2 DEF Inv, Control, Shape
  <2>2. ASSUME NEW j \in Index
        PROVE  j <= Bound(p)' <=> pte'[pgdir'[p]][j] # NoEntry
    <3>1. j <= Bound(p) <=> pte[pgdir[p]][j] # NoEntry
      BY <1>0 DEF Inv, Control, Shape
    <3>2. CASE d = pgdir[p]
      <4>1. Bound(p) = sz[p] /\ Bound(p)' = sz[p] - 1
        BY <1>0, <1>1, <1>2, <3>2 DEF Bound, Freeing, Index
      <4>2. j <= sz[p] - 1 <=> j <= sz[p] /\ j # i
        BY <1>0, <3>2 DEF Index
      <4>3. QED
        BY <1>0, <1>1, <1>3, <3>1, <3>2, <4>1, <4>2
    <3>3. CASE d # pgdir[p]
      <4>1. Bound(p) = sz[p] /\ Bound(p)' = sz[p]
        BY <1>0, <1>1, <1>2, <3>3 DEF Bound, Freeing
      <4>2. QED
        BY <1>0, <1>1, <1>3, <1>7, <3>1, <3>3, <4>1
    <3>4. QED
      BY <3>2, <3>3
  <2>3. \A q \in Proc : pc'[q] \in {"share", "load"} =>
          /\ pc'[q] = pc[q] /\ loc'[q] = loc[q] /\ pgdir'[q] = pgdir[q]
          /\ \A j \in Index : /\ pte'[loc[q].dir][j] = pte[loc[q].dir][j]
                              /\ pte'[pgdir[q]][j] = pte[pgdir[q]][j]
    BY <1>1, <1>2, <1>3, <1>6, <1>7
  <2>4. ASSUME NEW q \in Proc, pc'[q] = "share", NEW j \in Index
        PROVE  IF j < loc'[q].i
                 THEN pte'[loc'[q].dir][j].pa = pte'[pgdir'[q]][j].pa
                 ELSE pte'[loc'[q].dir][j] = NoEntry
    <3>1. pc[q] = "share"
      BY <2>3, <2>4
    <3>2. IF j < loc[q].i THEN pte[loc[q].dir][j].pa = pte[pgdir[q]][j].pa
                          ELSE pte[loc[q].dir][j] = NoEntry
      BY <3>1 DEF Inv, Control, Shape
    <3>3. QED
      BY <2>3, <2>4, <3>2, SMTT(30)
  <2>5. \A q \in Proc : pc'[q] = "load" =>
          \A j \in Index : j < loc'[q].i <=> pte'[loc'[q].dir][j] # NoEntry
    BY <2>3 DEF Inv, Control, Shape
  <2>6. QED
    BY <2>1, <2>2, <2>4, <2>5 DEF Shape
<1>13. /\ Busy(d, i) /\ \A j : ~Busy(d, j)'
       /\ \A j : j # i => ~Busy(d, j)
       /\ \A e, j : e # d => (Busy(e, j)' <=> Busy(e, j))
  <2>1. \A q \in Proc : q # p =>
          /\ pc'[q] = pc[q] /\ loc'[q].dir = loc[q].dir
          /\ loc'[q].i = loc[q].i /\ loc[q].dir # d
    BY <1>2, <1>6
  <2>2. pc'[p] \notin Leaving /\ pc[p] \in Leaving /\ loc'[p].dir = d
    BY <1>0, <1>2 DEF Leaving
  <2>3. QED
    BY <2>1, <2>2 DEF Busy
<1>14. \A e \in Pgdir, j \in Index :
         /\ pte'[e][j].pa = IF e = d /\ j = i THEN NoPage ELSE pte[e][j].pa
         /\ pte'[e][j].w => pte'[e][j] = pte[e][j] /\ (e # d \/ j # i)
  <2>1. NoEntry.pa = NoPage /\ ~NoEntry.w
    BY DEF NoEntry
  <2>2. QED
    BY <1>3, <2>1
<1>15. Once'
  <2> SUFFICES ASSUME NEW e \in Pgdir, NEW a \in Index, NEW b \in Index,
                      pte'[e][a].pa = pte'[e][b].pa, pte'[e][a].pa # NoPage
               PROVE  a = b
    BY DEF Once
  <2>1. pte[e][a].pa = pte[e][b].pa /\ pte[e][a].pa # NoPage
    BY <1>14
  <2>2. QED
    BY <2>1 DEF Inv, Pages, Once
<1>16. Listed'
  <2> SUFFICES ASSUME NEW k \in Page, NEW e \in Pgdir
               PROVE  e \in rmap'[k] <=>
                        \E j \in Index : pte'[e][j].pa = k /\ ~Busy(e, j)'
    BY DEF Listed
  <2>1. e \in rmap[k] <=> \E j \in Index : pte[e][j].pa = k /\ ~Busy(e, j)
    BY DEF Inv, Pages, Listed
  <2>2. \A j \in Index : pte'[e][j].pa = k /\ ~Busy(e, j)' <=>
                         pte[e][j].pa = k /\ ~Busy(e, j)
    BY <1>0, <1>13, <1>14, ConstantsAssumption
  <2>3. QED
    BY <1>1, <2>1, <2>2
<1>17. free[g] = 0 /\ \A q \in Proc : loc[q].page # g
  BY <1>0 DEF Inv, Pages, Freed
<1>18. Held'
  <2>1. \A q \in Proc : loc'[q].page = loc[q].page
    BY <1>0, <1>2
  <2>2. ASSUME NEW q \in Proc, loc[q].page # NoPage
        PROVE  /\ free'[loc[q].page] = 0 /\ rmap'[loc[q].page] = {}
               /\ \A r \in Proc : loc[r].page = loc[q].page => r = q
    <3>1. /\ free[loc[q].page] = 0 /\ rmap[loc[q].page] = {}
          /\ \A r \in Proc : loc[r].page = loc[q].page => r = q
      BY <2>2 DEF Inv, Pages, Held
    <3>2. loc[q].page \in Page
      BY <1>0, <2>2, LocType
    <3>3. QED
      BY <1>1, <1>4, <1>17, <3>1, <3>2
  <2>3. QED
    BY <2>1, <2>2 DEF Held
<1>19. Freed'
  <2>1. \A h \in Page : free'[h] <= 1 /\ (rmap'[h] # {} => free'[h] = 0)
    BY <1>0, <1>1, <1>4, <1>17 DEF Inv, Pages, Freed
  <2>2. ASSUME NEW q \in Proc, pc'[q] = "last"
        PROVE  /\ free'[Here(q)'.pa] = 0
               /\ \A r \in Proc : loc'[r].page # Here(q)'.pa
    <3>1. q # p /\ pc[q] = "last" /\ Here(q)' = Here(q) /\ Here(q).pa \in Page
      BY <1>8, <2>2
    <3>2. Here(q).pa # g
      BY <1>0, <3>1 DEF NoRace
    <3>3. free[Here(q).pa] = 0 /\ \A r \in Proc : loc[r].page # Here(q).pa
      BY <3>1 DEF Inv, Pages, Freed
    <3>4. \A r \in Proc : loc'[r].page = loc[r].page
      BY <1>0, <1>2
    <3>5. QED
      BY <1>4, <3>1, <3>2, <3>3, <3>4
  <2>3. QED
    BY <2>1, <2>2 DEF Freed
<1>20. Exclusive'
  <2>1. ASSUME NEW e \in Pgdir, NEW j \in Index, pte'[e][j].w, ~Busy(e, j)'
        PROVE  rmap'[pte'[e][j].pa] = {e}
    <3>1. pte'[e][j] = pte[e][j] /\ (e # d \/ j # i) /\ ~Busy(e, j)
      BY <1>13, <1>14, <2>1
    <3>2. QED
      BY <1>1, <2>1, <3>1 DEF Inv, Pages, Exclusive
  <2>2. ASSUME NEW q \in Proc, pc'[q] = "own"
        PROVE  rmap'[Here(q)'.pa] = {loc'[q].dir}
    BY <1>1, <1>8, <2>2 DEF Inv, Pages, Exclusive
  <2>3. QED
    BY <2>1, <2>2 DEF Exclusive
<1> QED
  BY <1>5, <1>9, <1>10, <1>11, <1>12, <1>15, <1>16, <1>18, <1>19, <1>20
  DEF Inv, Control, Pages

-----------------------------------------------------------------------------
LEMMA InitInv == Init => Inv
<1> SUFFICES ASSUME Init PROVE Inv
  OBVIOUS
<1>0. PICK g \in Page, d \in Pgdir :
        /\ state = [p \in Proc |-> IF p = First THEN "running" ELSE "unused"]
        /\ parent = [p \in Proc |-> NoProc]
        /\ pgdir = [p \in Proc |-> IF p = First THEN d ELSE NoDir]
        /\ sz = [p \in Proc |-> IF p = First THEN 1 ELSE 0]
        /\ pte = [e \in Pgdir |-> [i \in Index |->
                    IF e = d /\ i = 1 THEN [pa |-> g, w |-> TRUE] ELSE NoEntry]]
        /\ rmap = [h \in Page |-> IF h = g THEN {d} ELSE {}]
        /\ free = [h \in Page |-> IF h = g THEN 0 ELSE 1]
        /\ mem = [h \in Page |-> IF h = g THEN Zero ELSE Junk]
        /\ lock = NoProc
        /\ pc = [p \in Proc |-> "user"]
        /\ loc = [p \in Proc |-> NoLoc]
  BY DEF Init
<1>1. 1 \in Index
  BY ConstantsAssumption DEF Index
<1>2. /\ pte[d][1].pa = g /\ pte[d][1] # NoEntry
      /\ pte \in [Pgdir -> [Index -> Entry]]
      /\ \A e \in Pgdir, i \in Index : e # d \/ i # 1 =>
           pte[e][i] = NoEntry /\ pte[e][i].pa = NoPage /\ ~pte[e][i].w
  <2>1. PICK x \in Entry : x = [pa |-> g, w |-> TRUE]
    BY DEF Entry
  <2>2. x.pa = g /\ x # NoEntry
    BY <2>1, ConstantsAssumption DEF NoEntry
  <2>3. pte = [e \in Pgdir |-> [i \in Index |->
                 IF e = d /\ i = 1 THEN x ELSE NoEntry]]
    BY <1>0, <2>1
  <2>4. NoEntry \in Entry /\ NoEntry.pa = NoPage /\ ~NoEntry.w
    BY DEF Entry, NoEntry
  <2>5. QED
    BY <1>1, <2>2, <2>3, <2>4
<1>3. TypeOK
  <2>1. \A p \in Proc : sz[p] \in 0 .. MaxPages
    BY <1>0, ConstantsAssumption
  <2>2. NoLoc \in [dir : Pgdir \cup {NoDir}, i : 0 .. MaxPages + 1,
                   n : 0 .. MaxPages, page : Page \cup {NoPage},
                   kid : Proc \cup {NoProc}]
    BY ConstantsAssumption DEF NoLoc
  <2>3. /\ state \in [Proc -> {"unused", "embryo", "running", "zombie"}]
        /\ parent \in [Proc -> Proc \cup {NoProc}]
        /\ pgdir \in [Proc -> Pgdir \cup {NoDir}]
        /\ sz \in [Proc -> 0 .. MaxPages]
        /\ rmap \in [Page -> SUBSET Pgdir]
        /\ free \in [Page -> Nat]
        /\ mem \in [Page -> Val \cup {Junk}]
        /\ lock \in Proc \cup {NoProc}
    BY <1>0, <2>1, ConstantsAssumption
  <2>4. /\ pc \in [Proc -> {"user", "fault", "own", "alloc", "copy", "leave",
                            "remap", "share", "grow", "load", "free", "last"}]
        /\ loc \in [Proc -> [dir : Pgdir \cup {NoDir}, i : 0 .. MaxPages + 1,
                             n : 0 .. MaxPages, page : Page \cup {NoPage},
                             kid : Proc \cup {NoProc}]]
    BY <1>0, <2>2
  <2>5. QED
    BY <1>2, <2>3, <2>4 DEF TypeOK
<1>4. \A p \in Proc : /\ pc[p] = "user" /\ loc[p] = NoLoc
                      /\ loc[p].dir = NoDir /\ loc[p].kid = NoProc
                      /\ loc[p].page = NoPage
  BY <1>0 DEF NoLoc
<1>5. Locals /\ Kids
  BY <1>4 DEF Locals, Kids, Faulting, Freeing
<1>6. Dirs
  BY <1>0, <1>4, ConstantsAssumption DEF Dirs
<1>7. Shape
  <2>1. \A i \in Index : i <= 1 <=> i = 1
    BY DEF Index
  <2>2. \A p \in Proc : state[p] = "running" =>
          pgdir[p] = d /\ Bound(p) = 1
    BY <1>0, <1>4 DEF Bound, Freeing
  <2>3. QED
    BY <1>2, <1>4, <2>1, <2>2 DEF Shape
<1>8. \A e, i : ~Busy(e, i)
  BY <1>4 DEF Busy, Leaving
<1>9. Once
  BY <1>2 DEF Once
<1>10. Listed
  BY <1>0, <1>1, <1>2, <1>8, ConstantsAssumption DEF Listed
<1>11. Held /\ Freed
  BY <1>0, <1>4 DEF Held, Freed
<1>12. Exclusive
  BY <1>0, <1>2, <1>4 DEF Exclusive
<1> QED
  BY <1>3, <1>5, <1>6, <1>7, <1>9, <1>10, <1>11, <1>12
  DEF Inv, Control, Pages

LEMMA StutterInv ==
  ASSUME Inv, UNCHANGED vars
  PROVE  Inv'
<1>1. /\ state' = state /\ parent' = parent /\ pgdir' = pgdir /\ sz' = sz
      /\ lock' = lock /\ pte' = pte /\ rmap' = rmap /\ free' = free
      /\ mem' = mem /\ pc' = pc /\ loc' = loc
  BY DEF vars
<1>2. TypeOK' /\ Locals' /\ Kids'
  BY <1>1 DEF Inv, Control, TypeOK, Locals, Kids, Here
<1>3. Dirs' /\ Shape'
  BY <1>1 DEF Inv, Control, Dirs, Shape, Bound
<1>4. Pages'
  BY <1>1, PagesFrame DEF Inv, Pages, Exclusive, Here
<1> QED
  BY <1>2, <1>3, <1>4 DEF Inv, Control

LEMMA NextInv ==
  ASSUME Inv, NoRace, Next
  PROVE  Inv'
<1>1. ASSUME NEW p \in Proc, Kernel(p) PROVE Inv'
  BY <1>1, FaultCountStep, MakeWritableStep, FaultCopyStep, FaultLeaveStep,
     FaultRemapStep, SharePageStep, ForkReturnStep, MapPageStep,
     GrowReturnStep, ExecCommitStep, SkipEntryStep, FreeLeaveStep,
     FreeLastStep, FreeReturnStep, WaitReturnStep, FaultAllocStep, NewPageStep
  DEF Kernel
<1>2. ASSUME NEW p \in Proc, Syscall(p) PROVE Inv'
  BY <1>2, GrowStep, ShrinkStep, ExitStep, WaitStep, ForkStep, ExecStep
  DEF Syscall
<1> QED
  BY <1>1, <1>2, FaultStep, WriteStep DEF Next

(* rmap lists the page tables that use a page, and no other.               *)
LEMMA UsersListed ==
  ASSUME Inv, NEW g \in Page
  PROVE  rmap[g] = Users(g)
<1>1. \A p \in Proc : pc[p] \in Leaving => loc[p].i \in Index
  BY FaultingAt, LocType
  DEF Inv, Control, Locals, Index, Leaving, Faulting
<1>2. \A d \in Pgdir, i \in Index : pte[d][i].pa = g =>
        (InTransit(d, g) <=> Busy(d, i))
  <2> SUFFICES ASSUME NEW d \in Pgdir, NEW i \in Index, pte[d][i].pa = g
               PROVE  InTransit(d, g) <=> Busy(d, i)
    OBVIOUS
  <2>1. \A j \in Index : pte[d][j].pa = g => j = i
    BY ConstantsAssumption DEF Inv, Pages, Once
  <2>2. QED
    BY <1>1, <2>1 DEF InTransit, Busy, Leaving, Here
<1>3. rmap[g] \in SUBSET Pgdir
  BY DEF Inv, Control, TypeOK
<1>4. \A d \in Pgdir : d \in rmap[g] <=> d \in Users(g)
  BY <1>2 DEF Inv, Pages, Listed, Users, Mappers
<1> QED
  BY <1>3, <1>4 DEF Users, Mappers

LEMMA InvProperties ==
  ASSUME Inv
  PROVE  TypeOK /\ RmapExact /\ WritableIsExclusive /\ NoDanglingPte
         /\ NoDoubleFree
<1>1. RmapExact
  BY UsersListed DEF RmapExact
<1>2. NoDanglingPte /\ NoDoubleFree
  BY UsersListed DEF NoDanglingPte, NoDoubleFree, Inv, Pages, Freed
<1>3. WritableIsExclusive
  <2> SUFFICES ASSUME NEW d \in Pgdir, NEW i \in Index, NEW g,
                      g = pte[d][i].pa, pte[d][i].w, d \in Users(g)
               PROVE  Users(g) = {d}
    BY DEF WritableIsExclusive
  <2>1. g \in Page /\ g # NoPage
    BY EntryType, ConstantsAssumption DEF Inv, Control
  <2>2. PICK j \in Index : pte[d][j].pa = g /\ ~Busy(d, j)
    BY <2>1, UsersListed DEF Inv, Pages, Listed
  <2>3. j = i
    BY <2>1, <2>2 DEF Inv, Pages, Once
  <2>4. rmap[g] = {d}
    BY <2>2, <2>3 DEF Inv, Pages, Exclusive
  <2>5. QED
    BY <2>1, <2>4, UsersListed
<1> QED
  BY <1>1, <1>2, <1>3 DEF Inv, Control

(* Where the race does not happen, the invariant holds.                    *)
THEOREM Invariance == Spec /\ []NoRace => []Inv
<1>1. Inv /\ NoRace /\ [Next]_vars => Inv'
  BY NextInv, StutterInv
<1> QED
  BY InitInv, <1>1, PTL DEF Spec

(* As long as no two processes are between rmap_rm() and kfree() of one    *)
(* page, the reverse map of every page lists exactly the page tables that  *)
(* use it.                                                                 *)
THEOREM ReverseMapIsExact == Spec /\ []NoRace => []RmapExact
BY Invariance, InvProperties, PTL

(* ... a page that one process may write is used by no other page table.   *)
THEOREM SharingIsReadOnly == Spec /\ []NoRace => []WritableIsExclusive
BY Invariance, InvProperties, PTL

(* ... and no page table in use refers to a free page, nor is a page freed *)
(* twice.                                                                  *)
THEOREM MappedPagesStay ==
  Spec /\ []NoRace => [](NoDanglingPte /\ NoDoubleFree)
BY Invariance, InvProperties, PTL

-----------------------------------------------------------------------------
(* Where no process executes a program or shrinks, only wait() frees       *)
(* address spaces, and it keeps ptable.lock while it does.                 *)
OnlyWaitFrees ==
  \A p \in Proc :
    pc[p] # "load" /\ (pc[p] \in Freeing => loc[p].kid # NoProc)

LEMMA LockExcludesRace ==
  ASSUME Inv, OnlyWaitFrees
  PROVE  NoRace
BY DEF Inv, Control, Kids, OnlyWaitFrees, NoRace, Freeing

LEMMA OnlyWaitFreesStep ==
  ASSUME Inv, OnlyWaitFrees, Deallocs = {}, [Next]_vars
  PROVE  OnlyWaitFrees'
<1>0. TypeOK
  BY DEF Inv, Control
<1>1. ASSUME NEW p \in Proc, Kernel(p) PROVE OnlyWaitFrees'
  <2>1. CASE FaultCount(p)
    BY <1>0, <2>1 DEF FaultCount, Goto, TypeOK, OnlyWaitFrees, Freeing
  <2>2. CASE MakeWritable(p)
    BY <1>0, <2>2 DEF MakeWritable, Goto, TypeOK, OnlyWaitFrees, Freeing
  <2>3. CASE FaultCopy(p) \/ FaultLeave(p)
    BY <1>0, <2>3
    DEF FaultCopy, FaultLeave, Goto, TypeOK, OnlyWaitFrees, Freeing
  <2>4. CASE FaultRemap(p)
    BY <1>0, <2>4 DEF FaultRemap, Goto, TypeOK, OnlyWaitFrees, Freeing
  <2>5. CASE SharePage(p)
    BY <1>0, <2>5 DEF SharePage, TypeOK, OnlyWaitFrees, Freeing
  <2>6. CASE ForkReturn(p) \/ GrowReturn(p)
    BY <1>0, <2>6
    DEF ForkReturn, GrowReturn, Goto, TypeOK, OnlyWaitFrees, Freeing
  <2>7. CASE MapPage(p)
    BY <1>0, <2>7 DEF MapPage, TypeOK, OnlyWaitFrees, Freeing
  <2>8. CASE ExecCommit(p)
    BY <2>8 DEF ExecCommit, OnlyWaitFrees
  <2>9. CASE SkipEntry(p)
    BY <1>0, <2>9 DEF SkipEntry, TypeOK, OnlyWaitFrees, Freeing
  <2>10. CASE FreeLeave(p)
    BY <1>0, <2>10 DEF FreeLeave, Goto, TypeOK, OnlyWaitFrees, Freeing
  <2>11. CASE FreeLast(p)
    BY <1>0, <2>11 DEF FreeLast, Goto, TypeOK, OnlyWaitFrees, Freeing
  <2>12. CASE FreeReturn(p) \/ WaitReturn(p)
    BY <1>0, <2>12
    DEF FreeReturn, WaitReturn, Goto, TypeOK, OnlyWaitFrees, Freeing
  <2>13. ASSUME NEW g \in Page, FaultAlloc(p, g) \/ NewPage(p, g)
         PROVE  OnlyWaitFrees'
    BY <1>0, <2>13
    DEF FaultAlloc, NewPage, Take, Goto, TypeOK, OnlyWaitFrees, Freeing
  <2>14. QED
    BY <1>1, <2>1, <2>2, <2>3, <2>4, <2>5, <2>6, <2>7, <2>8, <2>9, <2>10,
       <2>11, <2>12, <2>13 DEF Kernel
<1>2. ASSUME NEW p \in Proc, Syscall(p) PROVE OnlyWaitFrees'
  <2>1. CASE Grow(p) \/ Exit(p)
    BY <1>0, <2>1 DEF Grow, Exit, Goto, TypeOK, OnlyWaitFrees, Freeing
  <2>2. CASE Shrink(p)
    BY <2>2 DEF Shrink
  <2>3. ASSUME NEW c \in Proc, Wait(p, c) PROVE OnlyWaitFrees'
    BY <1>0, <2>3, ConstantsAssumption
    DEF Wait, NoLoc, Goto, TypeOK, OnlyWaitFrees, Freeing
  <2>4. ASSUME NEW c \in Proc, NEW d \in Pgdir, Fork(p, c, d)
        PROVE  OnlyWaitFrees'
    BY <1>0, <2>4 DEF Fork, Goto, TypeOK, OnlyWaitFrees, Freeing
  <2>5. ASSUME NEW d \in Pgdir, NEW n \in Index, Exec(p, d, n)
        PROVE  OnlyWaitFrees'
    BY <2>5 DEF Exec
  <2>6. QED
    BY <1>2, <2>1, <2>2, <2>3, <2>4, <2>5 DEF Syscall
<1>3. ASSUME NEW p \in Proc, NEW i \in Index, Fault(p, i)
      PROVE  OnlyWaitFrees'
  BY <1>0, <1>3 DEF Fault, Goto, TypeOK, OnlyWaitFrees, Freeing
<1>4. ASSUME NEW p \in Proc, NEW i \in Index, NEW v \in Val, Write(p, i, v)
      PROVE  OnlyWaitFrees'
  BY <1>4 DEF Write, OnlyWaitFrees
<1>5. CASE UNCHANGED vars
  BY <1>5 DEF vars, OnlyWaitFrees
<1> QED
  BY <1>1, <1>2, <1>3, <1>4, <1>5 DEF Next

(* fork(), page faults, growth, exit() and wait() in any order, by any     *)
(* number of processes: the reverse map is exact, a page that one process  *)
(* may write is used by no other, no page in use is free and none is freed *)
(* twice.                                                                  *)
THEOREM ForkAndWaitAreSafe ==
  ASSUME Deallocs = {}
  PROVE  Spec => [](RmapExact /\ WritableIsExclusive /\ NoDanglingPte
                    /\ NoDoubleFree /\ TypeOK)
<1>1. Init => Inv /\ OnlyWaitFrees
  <2>1. Init => OnlyWaitFrees
    BY DEF Init, OnlyWaitFrees, Freeing
  <2>2. QED
    BY <2>1, InitInv
<1>2. Inv /\ OnlyWaitFrees /\ [Next]_vars => Inv' /\ OnlyWaitFrees'
  BY NextInv, StutterInv, LockExcludesRace, OnlyWaitFreesStep
<1>3. Inv => RmapExact /\ WritableIsExclusive /\ NoDanglingPte
             /\ NoDoubleFree /\ TypeOK
  BY InvProperties
<1> QED
  BY <1>1, <1>2, <1>3, PTL DEF Spec

-----------------------------------------------------------------------------
(* What processes see of their memory.                                     *)

(* What a process has in hand until it is seen: the copy a fault has made, *)
(* and the new pages of sbrk() and exec().                                 *)
Fresh(p) == IF pc[p] = "grow" THEN loc[p].n ELSE 1

DataOf(p) ==
  /\ state[p] = "running" => sz[p] >= 1
  /\ pc[p] = "load" => loc[p].n >= 1
  /\ pc[p] = "leave" => mem[loc[p].page] = mem[Here(p).pa]
  /\ pc[p] \in {"grow", "load"} =>
       /\ loc[p].page # NoPage => mem[loc[p].page] = Zero
       /\ \A i \in Index : Fresh(p) <= i /\ i < loc[p].i => mem[pte[loc[p].dir][i].pa] = Zero
Data == \A p \in Proc : DataOf(p)

(* What a step of process p leaves alone; C are the children it makes.     *)
Alone(p, C) ==
  /\ \A q \in Proc : q # p => pc'[q] = pc[q] /\ loc'[q] = loc[q]
  /\ \A q \in Proc : q # p /\ q \notin C => (state'[q] = "running" <=> state[q] = "running")
  /\ \A q \in Proc : q # p /\ state[q] = "running" => sz'[q] = sz[q] /\ pgdir'[q] = pgdir[q]
  /\ \A d \in Pgdir, i \in Index :
       pte'[d][i].pa = pte[d][i].pa \/ (pc[p] # "user" /\ d = loc[p].dir /\ i = loc[p].i)
  /\ \A g \in Page :
       \/ mem'[g] = mem[g] \/ g = loc[p].page \/ free[g] > 0
       \/ pc[p] = "user" /\ state[p] = "running" /\ rmap[g] = {pgdir[p]}
       \/ pc[p] = "last" /\ g = Here(p).pa /\ rmap[g] = {}

(* Pages that only process q may change.                                   *)
Own(q, g) ==
  \/ loc[q].page = g \/ pgdir[q] \in rmap[g]
  \/ pc[q] = "load" /\ loc[q].dir \in rmap[g]

LEMMA OthersKeep ==
  ASSUME Inv, NEW p \in Proc, NEW C, Alone(p, C), NEW q \in Proc, q # p,
         state[q] = "running", NEW g \in Page, Own(q, g)
  PROVE  mem'[g] = mem[g]
<1>1. TypeOK /\ g # NoPage
  BY ConstantsAssumption DEF Inv, Control
<1>2. pgdir[q] \in Pgdir
  BY DEF Inv, Control, Dirs
<1>3. free[g] = 0
  BY <1>1, <1>2 DEF Own, Inv, Pages, Held, Freed
<1>4. g # loc[p].page
  BY <1>1 DEF Own, Inv, Pages, Held
<1>5. ~(pc[p] = "user" /\ state[p] = "running" /\ rmap[g] = {pgdir[p]})
  <2> SUFFICES ASSUME pc[p] = "user", state[p] = "running", rmap[g] = {pgdir[p]}
               PROVE  FALSE
    OBVIOUS
  <2>1. pgdir[p] \in Pgdir /\ pgdir[p] # NoDir
    BY ConstantsAssumption DEF Inv, Control, Dirs
  <2>2. loc[q].page # g
    BY <1>1 DEF Inv, Pages, Held
  <2>3. pgdir[q] # pgdir[p]
    BY <2>1 DEF Inv, Control, Dirs
  <2>4. ~(pc[q] = "load" /\ loc[q].dir = pgdir[p])
    BY <2>1 DEF Inv, Control, Dirs, Freeing
  <2> QED
    BY <2>2, <2>3, <2>4 DEF Own
<1>6. ~(pc[p] = "last" /\ g = Here(p).pa /\ rmap[g] = {})
  BY DEF Own, Inv, Pages, Freed
<1> QED
  BY <1>1, <1>3, <1>4, <1>5, <1>6 DEF Alone, TypeOK

(* What a process sees is mapped, and its own.                             *)
LEMMA SeenPages ==
  ASSUME Inv, NEW q \in Proc, state[q] = "running", NEW i \in 1..Size(q)
  PROVE  /\ i \in Index /\ pgdir[q] \in Pgdir /\ pte[pgdir[q]][i].pa \in Page
         /\ Behind(q, i) \in Page /\ Own(q, Behind(q, i))
         /\ pc[q] # "remap" => /\ Behind(q, i) = pte[pgdir[q]][i].pa
                               /\ pgdir[q] \in rmap[Behind(q, i)]
<1>1. /\ TypeOK /\ pgdir[q] \in Pgdir /\ pgdir[q] # NoDir /\ NoPage \notin Page
      /\ sz[q] \in 0..MaxPages /\ MaxPages \in Nat \ {0}
      /\ loc[q].i \in 0..(MaxPages + 1) /\ loc[q].n \in 0..MaxPages
      /\ loc[q].page \in Page \cup {NoPage}
  BY LocType, ConstantsAssumption DEF Inv, Control, Dirs
<1>2. Size(q) \in Int /\ Size(q) <= Bound(q) /\ Size(q) <= MaxPages
  BY <1>1 DEF Size, Bound, Freeing, Inv, Control, Locals
<1>3. i \in Index /\ i <= Bound(q)
  BY <1>1, <1>2 DEF Index, Bound
<1>4. pte[pgdir[q]][i].pa \in Page
  BY <1>1, <1>3, EntryType DEF Inv, Control, Shape
<1>5. CASE pc[q] = "remap" /\ loc[q].i = i
  <2>1. loc[q].page \in Page /\ Behind(q, i) = loc[q].page
    BY <1>1, <1>5 DEF Behind, Inv, Control, Locals
  <2> QED
    BY <1>1, <1>3, <1>4, <1>5, <2>1 DEF Own
<1>6. CASE ~(pc[q] = "remap" /\ loc[q].i = i)
  <2>1. Behind(q, i) = pte[pgdir[q]][i].pa
    BY <1>6 DEF Behind
  <2>2. ~Busy(pgdir[q], i)
    <3> SUFFICES ASSUME NEW r \in Proc, pc[r] \in Leaving, loc[r].dir = pgdir[q], loc[r].i = i
                 PROVE  FALSE
      BY DEF Busy
    <3>1. r = q
      BY <1>1, ConstantsAssumption DEF Inv, Control, Dirs, Kids, Freeing, Leaving
    <3>2. pc[q] = "last" /\ loc[q].i = i /\ loc[q].dir = pgdir[q]
      BY <1>6, <3>1 DEF Leaving
    <3>3. loc[q].i >= loc[q].n /\ Size(q) = loc[q].n - 1
      BY <3>2 DEF Size, Freeing, Inv, Control, Locals
    <3> QED
      BY <1>1, <3>2, <3>3
  <2>3. pgdir[q] \in rmap[Behind(q, i)]
    BY <1>1, <1>3, <1>4, <2>1, <2>2 DEF Inv, Pages, Listed
  <2> QED
    BY <1>1, <1>3, <1>4, <1>6, <2>1, <2>3 DEF Own
<1> QED
  BY <1>5, <1>6

(* The other processes see what they saw.                                  *)
LEMMA OthersSee ==
  ASSUME Inv, NEW p \in Proc, NEW C, Alone(p, C), NEW q \in Proc, q # p, q \notin C
  PROVE  Sees(q)' = Sees(q)
<1>1. CASE state[q] # "running"
  BY <1>1 DEF Alone, Sees
<1>2. CASE state[q] = "running"
  <2>1. /\ state'[q] = "running" /\ pgdir'[q] = pgdir[q] /\ sz'[q] = sz[q]
        /\ pc'[q] = pc[q] /\ loc'[q] = loc[q] /\ pgdir[q] \in Pgdir /\ pgdir[q] # NoDir
    BY <1>2, ConstantsAssumption DEF Alone, Inv, Control, Dirs
  <2>2. Size(q)' = Size(q)
    BY <2>1 DEF Size
  <2>3. ASSUME NEW i \in 1..Size(q)
        PROVE  mem'[Behind(q, i)'] = mem[Behind(q, i)]
    <3>1. i \in Index /\ Behind(q, i) \in Page /\ Own(q, Behind(q, i))
      BY <1>2, SeenPages
    <3>2. ~(pc[p] # "user" /\ pgdir[q] = loc[p].dir)
      BY <1>2, <2>1, ConstantsAssumption DEF Inv, Control, Dirs, Kids, Freeing
    <3>3. pte'[pgdir[q]][i].pa = pte[pgdir[q]][i].pa
      BY <2>1, <3>1, <3>2 DEF Alone
    <3>4. Behind(q, i)' = Behind(q, i)
      BY <2>1, <3>3 DEF Behind
    <3> QED
      BY <1>2, <3>1, <3>4, OthersKeep
  <2> QED
    BY <1>2, <2>1, <2>2, <2>3 DEF Sees
<1> QED
  BY <1>1, <1>2

(* The pages sbrk() or exec() has mapped so far.                           *)
LEMMA FreshMapped ==
  ASSUME Inv, NEW q \in Proc, pc[q] \in {"grow", "load"},
         NEW i \in Index, Fresh(q) <= i, i < loc[q].i
  PROVE  /\ loc[q].dir \in Pgdir
         /\ pte[loc[q].dir][i] # NoEntry /\ pte[loc[q].dir][i].pa \in Page
<1>1. /\ state[q] = "running" /\ loc[q].dir \in Pgdir /\ TypeOK
      /\ loc[q].i \in 0..(MaxPages + 1) /\ loc[q].n \in 0..MaxPages
      /\ sz[q] \in 0..MaxPages /\ MaxPages \in Nat
  BY LocType DEF Inv, Control, Locals
<1>2. pte[loc[q].dir][i] # NoEntry
  <2>1. CASE pc[q] = "load"
    BY <2>1 DEF Inv, Control, Shape
  <2>2. CASE pc[q] = "grow"
    <3>1. loc[q].dir = pgdir[q] /\ i <= Bound(q)
      BY <1>1, <2>2 DEF Bound, Inv, Control, Locals, Index
    <3> QED
      BY <1>1, <3>1 DEF Inv, Control, Shape
  <2> QED
    BY <2>1, <2>2
<1> QED
  BY <1>1, <1>2, EntryType

(* The other processes keep what they have in hand.                        *)
LEMMA OthersData ==
  ASSUME Inv, Data, NEW p \in Proc, NEW C, Alone(p, C), NEW q \in Proc, q # p, q \notin C
  PROVE  DataOf(q)'
<1>1. pc'[q] = pc[q] /\ loc'[q] = loc[q] /\ TypeOK
  BY DEF Alone, Inv, Control
<1>2. DataOf(q)
  BY DEF Data
<1>3. state'[q] = "running" => sz'[q] >= 1
  BY <1>2 DEF Alone, DataOf
<1>4. CASE pc[q] \notin {"leave", "grow", "load"}
  BY <1>1, <1>3, <1>4 DEF DataOf
<1>5. CASE pc[q] \in {"leave", "grow", "load"}
  <2>1. /\ state[q] = "running" /\ loc[q].dir \in Pgdir /\ loc[q].dir # NoDir
        /\ loc[q].page \in Page \cup {NoPage} /\ NoPage \notin Page
        /\ loc[q].i \in 0..(MaxPages + 1) /\ loc[q].n \in 0..MaxPages /\ loc[q].i >= 1
        /\ loc[q].dir = pgdir[q] \/ pc[q] = "load"
        /\ sz[q] \in 0..MaxPages
    BY <1>1, <1>5, LocType, ConstantsAssumption DEF Inv, Control, Locals, Faulting
  <2>2. ~(pc[p] # "user" /\ loc[q].dir = loc[p].dir)
    BY <2>1 DEF Inv, Control, Dirs
  <2>3. \A i \in Index : pte'[loc[q].dir][i].pa = pte[loc[q].dir][i].pa
    BY <2>1, <2>2 DEF Alone
  <2>4. loc[q].page # NoPage => mem'[loc[q].page] = mem[loc[q].page]
    BY <2>1, OthersKeep DEF Own
  <2>5. ASSUME NEW i \in Index, pte[loc[q].dir][i] # NoEntry
        PROVE  mem'[pte[loc[q].dir][i].pa] = mem[pte[loc[q].dir][i].pa]
    <3>1. pte[loc[q].dir][i].pa \in Page
      BY <1>1, <2>1, <2>5, EntryType
    <3>2. ~Busy(loc[q].dir, i)
      BY <1>5, <2>1 DEF Busy, Leaving, Inv, Control, Dirs
    <3>3. loc[q].dir \in rmap[pte[loc[q].dir][i].pa]
      BY <2>1, <3>1, <3>2 DEF Inv, Pages, Listed
    <3>4. Own(q, pte[loc[q].dir][i].pa)
      BY <2>1, <3>3 DEF Own
    <3> QED
      BY <2>1, <3>1, <3>4, OthersKeep
  <2>6. CASE pc[q] = "leave"
    <3>1. loc[q].i \in Index /\ Here(q) # NoEntry /\ loc[q].page # NoPage
      BY <2>6, FaultingAt DEF Faulting, Inv, Control, Locals
    <3>2. mem'[Here(q)'.pa] = mem[Here(q).pa]
      BY <1>1, <2>3, <2>5, <3>1 DEF Here
    <3> QED
      BY <1>1, <1>2, <1>3, <2>4, <2>6, <3>1, <3>2 DEF DataOf
  <2>7. CASE pc[q] \in {"grow", "load"}
    <3>1. Fresh(q)' = Fresh(q)
      BY <1>1 DEF Fresh
    <3>2. ASSUME NEW i \in Index, Fresh(q) <= i, i < loc[q].i
          PROVE  mem'[pte'[loc[q].dir][i].pa] = Zero
      <4>1. pte[loc[q].dir][i] # NoEntry
        BY <2>7, <3>2, FreshMapped
      <4>2. mem[pte[loc[q].dir][i].pa] = Zero
        BY <1>2, <2>7, <3>2 DEF DataOf
      <4> QED
        BY <2>3, <2>5, <4>1, <4>2
    <3> QED
      BY <1>1, <1>2, <1>3, <2>4, <2>7, <3>1, <3>2 DEF DataOf
  <2> QED
    BY <1>5, <2>6, <2>7
<1> QED
  BY <1>4, <1>5

(* A step after which everybody sees what he saw.                          *)
Quiet(p) == Alone(p, {}) /\ DataOf(p)' /\ Sees(p)' = Sees(p)

(* A step that changes no page and no mapping.                             *)
Still(p) ==
  /\ mem' = mem /\ state'[p] = "running" /\ pgdir'[p] = pgdir[p] /\ sz'[p] >= 1
  /\ \A q \in Proc : q # p => /\ pc'[q] = pc[q] /\ loc'[q] = loc[q]
                              /\ state'[q] = "running" <=> state[q] = "running"
                              /\ state[q] = "running" => sz'[q] = sz[q] /\ pgdir'[q] = pgdir[q]
  /\ \A d \in Pgdir, i \in Index : pte'[d][i].pa = pte[d][i].pa
  /\ Size(p)' = Size(p) /\ pc[p] # "remap"
  /\ pc'[p] \notin {"leave", "grow", "load", "remap"}

LEMMA StillIsQuiet ==
  ASSUME Inv, NEW p \in Proc, state[p] = "running", Still(p)
  PROVE  Quiet(p)
<1>1. Alone(p, {})
  BY DEF Still, Alone
<1>2. DataOf(p)'
  BY DEF Still, DataOf
<1>3. \A i \in 1..Size(p) : Behind(p, i)' = Behind(p, i)
  BY SeenPages DEF Still, Behind
<1>4. Sees(p)' = Sees(p)
  BY <1>3 DEF Still, Sees
<1> QED
  BY <1>1, <1>2, <1>4 DEF Quiet

(* The size of a running process, and where the kernel has it.             *)
LEMMA Running ==
  ASSUME Inv, Data, NEW p \in Proc, state[p] = "running" \/ pc[p] # "user"
  PROVE  /\ TypeOK /\ state[p] = "running" /\ sz[p] \in 1..MaxPages
         /\ pgdir[p] \in Pgdir /\ pgdir[p] # NoDir /\ MaxPages \in Nat \ {0}
         /\ loc[p].dir \in Pgdir \cup {NoDir} /\ loc[p].i \in 0 .. MaxPages + 1
         /\ loc[p].n \in 0 .. MaxPages /\ loc[p].page \in Page \cup {NoPage}
<1>1. state[p] = "running"
  BY DEF Inv, Control, Locals
<1>2. sz[p] >= 1
  BY <1>1 DEF Data, DataOf
<1> QED
  BY <1>1, <1>2, LocType, ConstantsAssumption DEF Inv, Control, Dirs

LEMMA FaultQuiet ==
  ASSUME Inv, Data, NEW p \in Proc, NEW i \in Index, Fault(p, i)
  PROVE  Quiet(p)
<1>1. /\ pc[p] = "user" /\ TypeOK /\ state[p] = "running" /\ sz[p] \in 1..MaxPages
  BY Running DEF Fault, User
<1>2. Still(p)
  BY <1>1 DEF Fault, Goto, TypeOK, procs, Still, Size
<1> QED
  BY <1>1, <1>2, StillIsQuiet

LEMMA FaultCountQuiet ==
  ASSUME Inv, Data, NEW p \in Proc, FaultCount(p)
  PROVE  Quiet(p)
<1>1. /\ pc[p] = "fault" /\ TypeOK /\ state[p] = "running" /\ sz[p] \in 1..MaxPages
  BY Running DEF FaultCount
<1>2. Still(p)
  BY <1>1 DEF FaultCount, Goto, TypeOK, procs, Still, Size
<1> QED
  BY <1>1, <1>2, StillIsQuiet

LEMMA MakeWritableQuiet ==
  ASSUME Inv, Data, NEW p \in Proc, MakeWritable(p)
  PROVE  Quiet(p)
<1>1. /\ pc[p] = "own" /\ TypeOK /\ state[p] = "running" /\ sz[p] \in 1..MaxPages
      /\ loc[p].dir \in Pgdir /\ loc[p].i \in Index /\ Here(p) \in Entry /\ Here(p) # NoEntry
  BY Running, FaultingAt, EntryType DEF MakeWritable, Faulting, Here
<1>2. [Here(p) EXCEPT !.w = TRUE].pa = Here(p).pa
  <2>1. [Here(p) EXCEPT !.w = TRUE] = [pa |-> Here(p).pa, w |-> TRUE]
    BY <1>1, SetW, Zenon
  <2> QED
    BY <2>1
<1>3. \A d \in Pgdir, i \in Index : pte'[d][i].pa = pte[d][i].pa
  BY <1>1, <1>2 DEF MakeWritable, SetHere, Here, TypeOK
<1>4. /\ mem' = mem /\ state' = state /\ sz' = sz /\ pgdir' = pgdir /\ pc'[p] = "user"
      /\ \A q \in Proc : q # p => pc'[q] = pc[q] /\ loc'[q] = loc[q]
  BY <1>1 DEF MakeWritable, Goto, TypeOK, procs
<1>5. Still(p)
  BY <1>1, <1>3, <1>4 DEF Still, Size
<1> QED
  BY <1>1, <1>5, StillIsQuiet

LEMMA FaultAllocQuiet ==
  ASSUME Inv, Data, NEW p \in Proc, NEW g \in Page, FaultAlloc(p, g)
  PROVE  Quiet(p)
<1>1. /\ pc[p] = "alloc" /\ TypeOK /\ state[p] = "running" /\ sz[p] \in 1..MaxPages
  BY Running DEF FaultAlloc
<1>2. Still(p)
  BY <1>1 DEF FaultAlloc, Take, Goto, TypeOK, procs, Still, Size
<1> QED
  BY <1>1, <1>2, StillIsQuiet

LEMMA ForkQuiet ==
  ASSUME Inv, Data, NEW p \in Proc, NEW c \in Proc, NEW d \in Pgdir, Fork(p, c, d)
  PROVE  Quiet(p)
<1>1. /\ pc[p] = "user" /\ TypeOK /\ state[p] = "running" /\ sz[p] \in 1..MaxPages
      /\ state[c] = "unused"
  BY Running DEF Fork, User
<1>2. Still(p)
  BY <1>1 DEF Fork, Goto, TypeOK, Still, Size
<1> QED
  BY <1>1, <1>2, StillIsQuiet

LEMMA WaitQuiet ==
  ASSUME Inv, Data, NEW p \in Proc, NEW c \in Proc, Wait(p, c)
  PROVE  Quiet(p)
<1>1. /\ pc[p] = "user" /\ TypeOK /\ state[p] = "running" /\ sz[p] \in 1..MaxPages
      /\ state[c] = "zombie" /\ pgdir[p] # NoDir
  BY Running DEF Wait, User
<1>2. pgdir[c] # pgdir[p]
  BY <1>1 DEF Inv, Control, Dirs
<1>3. loc'[p].dir = pgdir[c]
  BY <1>1 DEF Wait, NoLoc, TypeOK
<1>4. Size(p)' = Size(p)
  BY <1>1, <1>2, <1>3 DEF Wait, Size
<1>5. Still(p)
  BY <1>1, <1>4 DEF Wait, Goto, TypeOK, Still
<1> QED
  BY <1>1, <1>5, StillIsQuiet

LEMMA SkipEntryQuiet ==
  ASSUME Inv, Data, NEW p \in Proc, SkipEntry(p)
  PROVE  Quiet(p)
<1>1. /\ pc[p] = "free" /\ TypeOK /\ state[p] = "running" /\ sz[p] \in 1..MaxPages
  BY Running DEF SkipEntry
<1>2. loc'[p].dir = loc[p].dir /\ loc'[p].n = loc[p].n
  BY <1>1 DEF SkipEntry, TypeOK
<1>3. Still(p)
  BY <1>1, <1>2 DEF SkipEntry, TypeOK, procs, Still, Size
<1> QED
  BY <1>1, <1>3, StillIsQuiet

LEMMA FreeLeaveQuiet ==
  ASSUME Inv, Data, NEW p \in Proc, FreeLeave(p)
  PROVE  Quiet(p)
<1>1. /\ pc[p] = "free" /\ TypeOK /\ state[p] = "running" /\ sz[p] \in 1..MaxPages
  BY Running DEF FreeLeave
<1>2. Still(p)
  BY <1>1 DEF FreeLeave, Goto, TypeOK, procs, Still, Size
<1> QED
  BY <1>1, <1>2, StillIsQuiet

LEMMA FreeReturnQuiet ==
  ASSUME Inv, Data, NEW p \in Proc, FreeReturn(p)
  PROVE  Quiet(p)
<1>1. /\ pc[p] = "free" /\ TypeOK /\ state[p] = "running" /\ sz[p] \in 1..MaxPages
      /\ MaxPages \in Nat /\ pc'[p] = "user"
  BY Running DEF FreeReturn, FreeDone, Goto, TypeOK
<1>2. loc[p].dir = pgdir[p] => loc[p].n = sz[p] /\ sz[p] > 1
  BY <1>1 DEF Inv, Control, Locals, Freeing
<1>3. sz'[p] = IF loc[p].dir = pgdir[p] THEN sz[p] - 1 ELSE sz[p]
  BY <1>1 DEF FreeReturn, TypeOK
<1>4. Size(p)' = Size(p) /\ sz'[p] >= 1
  BY <1>1, <1>2, <1>3 DEF Size
<1>5. Still(p)
  BY <1>1, <1>4 DEF FreeReturn, Goto, TypeOK, Still
<1> QED
  BY <1>1, <1>5, StillIsQuiet

LEMMA WaitReturnQuiet ==
  ASSUME Inv, Data, NEW p \in Proc, WaitReturn(p)
  PROVE  Quiet(p)
<1> DEFINE c == loc[p].kid
<1>1. /\ pc[p] = "free" /\ TypeOK /\ state[p] = "running" /\ sz[p] \in 1..MaxPages
      /\ pc'[p] = "user" /\ pgdir[p] # NoDir
  BY Running DEF WaitReturn, FreeDone, Goto, TypeOK
<1>2. c \in Proc /\ state[c] = "zombie" /\ loc[p].dir = pgdir[c]
  BY <1>1 DEF WaitReturn, FreeDone, Inv, Control, Kids, TypeOK
<1>3. c # p /\ loc[p].dir # pgdir[p]
  BY <1>1, <1>2 DEF Inv, Control, Dirs
<1>4. /\ state' = [state EXCEPT ![c] = "unused"] /\ pgdir' = [pgdir EXCEPT ![c] = NoDir]
      /\ sz' = [sz EXCEPT ![c] = 0] /\ pte' = pte /\ mem' = mem
      /\ \A q \in Proc : q # p => pc'[q] = pc[q] /\ loc'[q] = loc[q]
  BY <1>1 DEF WaitReturn, Goto, TypeOK
<1> HIDE DEF c
<1>5. Size(p)' = Size(p)
  BY <1>1, <1>3, <1>4 DEF Size, TypeOK
<1>6. Still(p)
  BY <1>1, <1>2, <1>3, <1>4, <1>5 DEF TypeOK, Still
<1> QED
  BY <1>1, <1>6, StillIsQuiet

(* sbrk() and exec() begin with no new page.                               *)
LEMMA GrowQuiet ==
  ASSUME Inv, Data, NEW p \in Proc, Grow(p)
  PROVE  Quiet(p)
<1>1. /\ pc[p] = "user" /\ TypeOK /\ state[p] = "running" /\ sz[p] \in 1..MaxPages
      /\ MaxPages \in Nat
  BY Running DEF Grow, User
<1>2. /\ pte' = pte /\ mem' = mem /\ state' = state /\ sz' = sz /\ pgdir' = pgdir
      /\ pc'[p] = "grow" /\ loc'[p].page = NoPage /\ loc'[p].i = loc'[p].n
      /\ \A q \in Proc : q # p => pc'[q] = pc[q] /\ loc'[q] = loc[q]
      /\ loc'[p].n \in Int
  BY <1>1 DEF Grow, Goto, TypeOK, procs, NoLoc
<1>3. Alone(p, {})
  BY <1>1, <1>2 DEF Alone
<1>4. DataOf(p)'
  BY <1>1, <1>2 DEF DataOf, Fresh, Index
<1>5. Sees(p)' = Sees(p)
  BY <1>1, <1>2 DEF Sees, Size, Behind
<1> QED
  BY <1>3, <1>4, <1>5 DEF Quiet

LEMMA ExecQuiet ==
  ASSUME Inv, Data, NEW p \in Proc, NEW d \in Pgdir, NEW n \in Index, Exec(p, d, n)
  PROVE  Quiet(p)
<1>1. /\ pc[p] = "user" /\ TypeOK /\ state[p] = "running" /\ sz[p] \in 1..MaxPages
      /\ MaxPages \in Nat
  BY Running DEF Exec, User
<1>2. /\ pte' = pte /\ mem' = mem /\ state' = state /\ sz' = sz /\ pgdir' = pgdir
      /\ pc'[p] = "load" /\ loc'[p].page = NoPage /\ loc'[p].i = 1 /\ loc'[p].n = n
      /\ \A q \in Proc : q # p => pc'[q] = pc[q] /\ loc'[q] = loc[q]
  BY <1>1 DEF Exec, Goto, TypeOK, procs, NoLoc
<1>3. Alone(p, {})
  BY <1>1, <1>2 DEF Alone
<1>4. DataOf(p)'
  BY <1>1, <1>2 DEF DataOf, Fresh, Index
<1>5. Sees(p)' = Sees(p)
  BY <1>1, <1>2 DEF Sees, Size, Behind
<1> QED
  BY <1>3, <1>4, <1>5 DEF Quiet

(* A page fault that copies.                                               *)
LEMMA FaultCopyQuiet ==
  ASSUME Inv, Data, NEW p \in Proc, FaultCopy(p)
  PROVE  Quiet(p)
<1>1. /\ pc[p] = "copy" /\ TypeOK /\ state[p] = "running" /\ sz[p] \in 1..MaxPages
      /\ loc[p].page \in Page /\ Here(p).pa \in Page
  BY Running, FaultingAt DEF FaultCopy, Faulting, Inv, Control, Locals
<1>2. /\ pte' = pte /\ state' = state /\ sz' = sz /\ pgdir' = pgdir /\ loc' = loc
      /\ pc'[p] = "leave" /\ \A q \in Proc : q # p => pc'[q] = pc[q]
      /\ \A g \in Page : mem'[g] = IF g = loc[p].page THEN mem[Here(p).pa] ELSE mem[g]
  BY <1>1 DEF FaultCopy, Goto, TypeOK, procs
<1>3. Alone(p, {})
  BY <1>1, <1>2 DEF Alone
<1>4. DataOf(p)'
  BY <1>1, <1>2 DEF DataOf, Here
<1>5. ASSUME NEW i \in 1..Size(p)
      PROVE  Behind(p, i)' = Behind(p, i) /\ mem'[Behind(p, i)] = mem[Behind(p, i)]
  <2>1. Behind(p, i) \in Page /\ rmap[Behind(p, i)] # {}
    BY <1>1, SeenPages
  <2>2. Behind(p, i) # loc[p].page
    BY <1>1, <2>1, ConstantsAssumption DEF Inv, Pages, Held
  <2> QED
    BY <1>1, <1>2, <2>1, <2>2 DEF Behind
<1>6. Size(p)' = Size(p)
  BY <1>1, <1>2 DEF Size
<1>7. Sees(p)' = Sees(p)
  BY <1>1, <1>2, <1>5, <1>6 DEF Sees
<1> QED
  BY <1>3, <1>4, <1>7 DEF Quiet

(* From now on the process sees its copy, which is the same.               *)
LEMMA FaultLeaveQuiet ==
  ASSUME Inv, Data, NEW p \in Proc, FaultLeave(p)
  PROVE  Quiet(p)
<1>1. /\ pc[p] = "leave" /\ TypeOK /\ state[p] = "running" /\ sz[p] \in 1..MaxPages
      /\ loc[p].dir = pgdir[p] /\ mem[loc[p].page] = mem[Here(p).pa]
  BY Running, FaultingAt DEF FaultLeave, Faulting, Data, DataOf
<1>2. /\ pte' = pte /\ mem' = mem /\ state' = state /\ sz' = sz /\ pgdir' = pgdir /\ loc' = loc
      /\ pc'[p] = "remap" /\ \A q \in Proc : q # p => pc'[q] = pc[q]
  BY <1>1 DEF FaultLeave, Goto, TypeOK, procs
<1>3. Alone(p, {})
  BY <1>1, <1>2 DEF Alone
<1>4. DataOf(p)'
  BY <1>1, <1>2 DEF DataOf
<1>5. ASSUME NEW i \in 1..Size(p)
      PROVE  mem[Behind(p, i)'] = mem[Behind(p, i)]
  BY <1>1, <1>2 DEF Behind, Here
<1>6. Size(p)' = Size(p)
  BY <1>1, <1>2 DEF Size
<1>7. Sees(p)' = Sees(p)
  BY <1>1, <1>2, <1>5, <1>6 DEF Sees
<1> QED
  BY <1>3, <1>4, <1>7 DEF Quiet

LEMMA FaultRemapQuiet ==
  ASSUME Inv, Data, NEW p \in Proc, FaultRemap(p)
  PROVE  Quiet(p)
<1>1. /\ pc[p] = "remap" /\ TypeOK /\ state[p] = "running" /\ sz[p] \in 1..MaxPages
      /\ loc[p].dir = pgdir[p] /\ loc[p].dir \in Pgdir /\ loc[p].i \in Index
  BY Running, FaultingAt DEF FaultRemap, Faulting
<1>2. /\ mem' = mem /\ state' = state /\ sz' = sz /\ pgdir' = pgdir
      /\ pc'[p] = "user" /\ \A q \in Proc : q # p => pc'[q] = pc[q] /\ loc'[q] = loc[q]
  BY <1>1 DEF FaultRemap, Goto, TypeOK, procs
<1>3. /\ \A d \in Pgdir, i \in Index :
           (d = loc[p].dir /\ i = loc[p].i) \/ pte'[d][i] = pte[d][i]
      /\ pte'[loc[p].dir][loc[p].i].pa = loc[p].page
  BY <1>1 DEF FaultRemap, SetHere, TypeOK
<1>4. Alone(p, {})
  BY <1>1, <1>2, <1>3 DEF Alone
<1>5. DataOf(p)'
  BY <1>1, <1>2 DEF DataOf
<1>6. ASSUME NEW i \in 1..Size(p)
      PROVE  Behind(p, i)' = Behind(p, i)
  <2>1. i \in Index /\ pgdir[p] \in Pgdir
    BY <1>1, SeenPages
  <2> QED
    BY <1>1, <1>2, <1>3, <2>1 DEF Behind
<1>7. Size(p)' = Size(p)
  BY <1>1, <1>2 DEF Size
<1>8. Sees(p)' = Sees(p)
  BY <1>1, <1>2, <1>6, <1>7 DEF Sees
<1> QED
  BY <1>4, <1>5, <1>8 DEF Quiet

(* fork() shares a page: the child's directory is nobody's yet.            *)
LEMMA SharePageQuiet ==
  ASSUME Inv, Data, NEW p \in Proc, SharePage(p)
  PROVE  Quiet(p)
<1>1. /\ pc[p] = "share" /\ TypeOK /\ state[p] = "running" /\ sz[p] \in 1..MaxPages
      /\ loc[p].i \in Index /\ loc[p].i <= sz[p] /\ pgdir[p] \in Pgdir
      /\ loc[p].dir \in Pgdir /\ loc[p].dir # pgdir[p] /\ MaxPages \in Nat
  <2>1. /\ pc[p] = "share" /\ TypeOK /\ state[p] = "running" /\ sz[p] \in 1..MaxPages
        /\ loc[p].i <= sz[p] /\ pgdir[p] \in Pgdir /\ loc[p].i \in 0..(MaxPages + 1)
        /\ MaxPages \in Nat /\ pgdir[p] # NoDir
    BY Running DEF SharePage
  <2>2. loc[p].dir \in Pgdir /\ loc[p].i >= 1
    BY <2>1 DEF Inv, Control, Locals
  <2>3. loc[p].i \in Index
    BY <2>1, <2>2 DEF Index
  <2>4. loc[p].dir # pgdir[p]
    BY <2>1, <2>2 DEF Inv, Control, Dirs
  <2> QED
    BY <2>1, <2>2, <2>3, <2>4
<1> DEFINE e == [pte[pgdir[p]][loc[p].i] EXCEPT !.w = FALSE]
<1>2. e.pa = pte[pgdir[p]][loc[p].i].pa
  <2>1. pte[pgdir[p]][loc[p].i] # NoEntry /\ pte[pgdir[p]][loc[p].i] \in Entry
    BY <1>1, EntryType DEF Inv, Control, Shape, Bound, Freeing
  <2>2. e = [pa |-> pte[pgdir[p]][loc[p].i].pa, w |-> FALSE]
    BY <2>1, SetW, Zenon
  <2> QED
    BY <2>2
<1>3. /\ mem' = mem /\ state' = state /\ sz' = sz /\ pgdir' = pgdir /\ pc' = pc
      /\ \A q \in Proc : q # p => loc'[q] = loc[q]
  BY <1>1 DEF SharePage, TypeOK, procs
<1>4. \A d \in Pgdir, i \in Index :
        (d = loc[p].dir /\ i = loc[p].i) \/ pte'[d][i].pa = pte[d][i].pa
  <2>1. pte' = [pte EXCEPT ![pgdir[p]][loc[p].i] = e, ![loc[p].dir][loc[p].i] = e]
    BY DEF SharePage
  <2> HIDE DEF e
  <2> QED
    BY <1>1, <1>2, <2>1 DEF TypeOK
<1> HIDE DEF e
<1>5. Alone(p, {})
  BY <1>1, <1>3, <1>4 DEF Alone
<1>6. DataOf(p)'
  <2>1. pc'[p] = "share" /\ sz'[p] >= 1
    BY <1>1, <1>3
  <2> QED
    BY <2>1 DEF DataOf
<1>7. ASSUME NEW i \in 1..Size(p)
      PROVE  Behind(p, i)' = Behind(p, i)
  <2>1. i \in Index
    BY <1>1, SeenPages
  <2>2. pte'[pgdir[p]][i].pa = pte[pgdir[p]][i].pa /\ pc'[p] = "share" /\ pgdir' = pgdir
    BY <1>1, <1>3, <1>4, <2>1
  <2> QED
    BY <1>1, <2>2 DEF Behind
<1>8. Size(p)' = Size(p)
  BY <1>1, <1>3 DEF Size
<1>9. Sees(p)' = Sees(p)
  BY <1>1, <1>3, <1>7, <1>8 DEF Sees
<1> QED
  BY <1>5, <1>6, <1>9 DEF Quiet

LEMMA NewPageQuiet ==
  ASSUME Inv, Data, NEW p \in Proc, NEW g \in Page, NewPage(p, g)
  PROVE  Quiet(p)
<1>1. /\ pc[p] \in {"grow", "load"} /\ TypeOK /\ state[p] = "running"
      /\ sz[p] \in 1..MaxPages /\ free[g] > 0 /\ pgdir[p] \in Pgdir
  BY Running DEF NewPage, Take
<1>2. /\ pte' = pte /\ state' = state /\ sz' = sz /\ pgdir' = pgdir /\ pc' = pc
      /\ \A q \in Proc : q # p => loc'[q] = loc[q]
      /\ loc'[p].page = g /\ loc'[p].i = loc[p].i /\ loc'[p].n = loc[p].n
      /\ loc'[p].dir = loc[p].dir
      /\ \A h \in Page : mem'[h] = IF h = g THEN Zero ELSE mem[h]
  BY <1>1 DEF NewPage, Take, TypeOK, procs
<1>3. Alone(p, {})
  BY <1>1, <1>2 DEF Alone
<1>4. DataOf(p)'
  <2>1. DataOf(p) /\ Fresh(p)' = Fresh(p)
    BY <1>2 DEF Data, Fresh
  <2>2. ASSUME NEW i \in Index, Fresh(p) <= i, i < loc[p].i
        PROVE  mem'[pte[loc[p].dir][i].pa] = Zero
    BY <1>1, <1>2, <2>1, <2>2, FreshMapped DEF DataOf
  <2> QED
    BY <1>1, <1>2, <2>1, <2>2 DEF DataOf
<1>5. ASSUME NEW i \in 1..Size(p)
      PROVE  Behind(p, i)' = Behind(p, i) /\ mem'[Behind(p, i)] = mem[Behind(p, i)]
  <2>1. Behind(p, i) \in Page /\ rmap[Behind(p, i)] # {}
    BY <1>1, SeenPages
  <2>2. Behind(p, i) # g
    BY <1>1, <2>1 DEF Inv, Pages, Freed
  <2> QED
    BY <1>1, <1>2, <2>1, <2>2 DEF Behind
<1>6. Size(p)' = Size(p)
  BY <1>1, <1>2 DEF Size
<1>7. Sees(p)' = Sees(p)
  BY <1>1, <1>2, <1>5, <1>6 DEF Sees
<1> QED
  BY <1>3, <1>4, <1>7 DEF Quiet

LEMMA MapPageQuiet ==
  ASSUME Inv, Data, NEW p \in Proc, MapPage(p)
  PROVE  Quiet(p)
<1>1. /\ pc[p] \in {"grow", "load"} /\ TypeOK /\ state[p] = "running"
      /\ sz[p] \in 1..MaxPages /\ pgdir[p] \in Pgdir /\ loc[p].dir \in Pgdir
      /\ loc[p].i \in 0..(MaxPages + 1) /\ loc[p].n \in 0..MaxPages /\ MaxPages \in Nat
      /\ loc[p].page # NoPage /\ loc[p].dir # NoDir
  BY Running, ConstantsAssumption DEF MapPage, Inv, Control, Locals
<1>2. loc[p].i \in Index /\ loc[p].i <= loc[p].n
  BY <1>1 DEF Index, Inv, Control, Locals
<1>3. /\ mem' = mem /\ state' = state /\ sz' = sz /\ pgdir' = pgdir /\ pc' = pc
      /\ \A q \in Proc : q # p => loc'[q] = loc[q]
      /\ loc'[p].page = NoPage /\ loc'[p].i = loc[p].i + 1 /\ loc'[p].n = loc[p].n
      /\ loc'[p].dir = loc[p].dir
  BY <1>1 DEF MapPage, TypeOK, procs
<1>4. /\ \A d \in Pgdir, i \in Index :
           (d = loc[p].dir /\ i = loc[p].i) \/ pte'[d][i] = pte[d][i]
      /\ pte'[loc[p].dir][loc[p].i].pa = loc[p].page
  BY <1>1, <1>2 DEF MapPage, SetHere, TypeOK
<1>5. Alone(p, {})
  BY <1>1, <1>3, <1>4 DEF Alone
<1>6. DataOf(p)'
  <2>1. DataOf(p) /\ Fresh(p)' = Fresh(p)
    BY <1>3 DEF Data, Fresh
  <2>2. ASSUME NEW i \in Index, Fresh(p) <= i, i < loc[p].i + 1
        PROVE  mem[pte'[loc[p].dir][i].pa] = Zero
    <3>1. CASE i = loc[p].i
      BY <1>1, <1>4, <2>1, <3>1 DEF DataOf
    <3>2. CASE i # loc[p].i
      <4>1. i < loc[p].i
        BY <1>1, <2>2, <3>2 DEF Index
      <4> QED
        BY <1>1, <1>4, <2>1, <2>2, <4>1 DEF DataOf
    <3> QED
      BY <3>1, <3>2
  <2> QED
    BY <1>1, <1>3, <2>1, <2>2 DEF DataOf
<1>7. ASSUME NEW i \in 1..Size(p)
      PROVE  Behind(p, i)' = Behind(p, i)
  <2>1. i \in Index /\ i <= sz[p]
    BY <1>1, SeenPages DEF Size
  <2>2. CASE pc[p] = "grow"
    <3>1. i # loc[p].i
      BY <1>1, <2>1, <2>2 DEF Inv, Control, Locals
    <3> QED
      BY <1>1, <1>3, <1>4, <2>1, <3>1 DEF Behind
  <2>3. CASE pc[p] = "load"
    <3>1. loc[p].dir # pgdir[p]
      BY <1>1, <2>3 DEF Inv, Control, Dirs
    <3> QED
      BY <1>1, <1>3, <1>4, <2>1, <3>1 DEF Behind
  <2> QED
    BY <1>1, <2>2, <2>3
<1>8. Size(p)' = Size(p)
  BY <1>1, <1>3 DEF Size
<1>9. Sees(p)' = Sees(p)
  BY <1>1, <1>3, <1>7, <1>8 DEF Sees
<1> QED
  BY <1>5, <1>6, <1>9 DEF Quiet

(* A page is given back, and nobody sees it any more.                      *)
LEMMA FreeLastQuiet ==
  ASSUME Inv, Data, NEW p \in Proc, FreeLast(p)
  PROVE  Quiet(p)
<1>1. /\ pc[p] = "last" /\ TypeOK /\ state[p] = "running" /\ sz[p] \in 1..MaxPages
      /\ pgdir[p] \in Pgdir /\ loc[p].dir \in Pgdir /\ MaxPages \in Nat
      /\ loc[p].i \in 0..(MaxPages + 1) /\ loc[p].n \in 0..MaxPages /\ loc[p].i >= 1
      /\ loc[p].i <= loc[p].n
  BY Running DEF FreeLast, Inv, Control, Locals
<1>2. loc[p].i \in Index /\ Here(p).pa \in Page
  BY <1>1, EntryType DEF Index, Here, Inv, Control, Locals
<1>3. /\ state' = state /\ sz' = sz /\ pgdir' = pgdir /\ pc'[p] = "free"
      /\ \A q \in Proc : q # p => pc'[q] = pc[q] /\ loc'[q] = loc[q]
      /\ loc'[p].dir = loc[p].dir /\ loc'[p].n = loc[p].n
  BY <1>1 DEF FreeLast, Goto, TypeOK, procs
<1>4. \A d \in Pgdir, i \in Index :
        (d = loc[p].dir /\ i = loc[p].i) \/ pte'[d][i] = pte[d][i]
  BY <1>1, <1>2 DEF FreeLast, SetHere, TypeOK
<1>5. \A h \in Page : mem'[h] = mem[h] \/ (h = Here(p).pa /\ rmap[h] = {})
  BY <1>1, <1>2 DEF FreeLast, TypeOK
<1>6. Alone(p, {})
  BY <1>1, <1>3, <1>4, <1>5 DEF Alone
<1>7. DataOf(p)'
  BY <1>1, <1>3 DEF DataOf
<1>8. ASSUME NEW i \in 1..Size(p)
      PROVE  Behind(p, i)' = Behind(p, i) /\ mem'[Behind(p, i)] = mem[Behind(p, i)]
  <2>1. /\ i \in Index /\ Behind(p, i) \in Page /\ rmap[Behind(p, i)] # {}
        /\ Behind(p, i) = pte[pgdir[p]][i].pa
    BY <1>1, SeenPages
  <2>2. ~(loc[p].dir = pgdir[p] /\ i = loc[p].i)
    BY <1>1 DEF Size, Inv, Control, Locals, Freeing
  <2>3. pte'[pgdir[p]][i] = pte[pgdir[p]][i]
    BY <1>1, <1>4, <2>1, <2>2
  <2> QED
    BY <1>1, <1>3, <1>5, <2>1, <2>3 DEF Behind
<1>9. Size(p)' = Size(p)
  BY <1>1, <1>3 DEF Size
<1>10. Sees(p)' = Sees(p)
  BY <1>1, <1>3, <1>8, <1>9 DEF Sees
<1> QED
  BY <1>6, <1>7, <1>10 DEF Quiet

(* What a running process sees is a sequence of pages.                     *)
LEMMA SeesPages ==
  ASSUME Inv, Data, NEW p \in Proc, state[p] = "running"
  PROVE  /\ Size(p) \in 1..MaxPages /\ Sees(p) \in Seq(Val \cup {Junk})
         /\ Len(Sees(p)) = Size(p) /\ Sees(p) # <<>>
         /\ \A i \in 1..Size(p) : Sees(p)[i] = mem[Behind(p, i)]
         /\ Sees(p) = [i \in 1..Size(p) |-> mem[Behind(p, i)]]
<1>1. /\ sz[p] \in 1..MaxPages /\ MaxPages \in Nat /\ TypeOK /\ loc[p].n \in 0..MaxPages
  BY Running
<1>2. Size(p) \in 1..MaxPages
  BY <1>1 DEF Size, Inv, Control, Locals, Freeing
<1>3. Sees(p) = [i \in 1..Size(p) |-> mem[Behind(p, i)]]
  BY DEF Sees
<1>4. \A i \in 1..Size(p) : mem[Behind(p, i)] \in Val \cup {Junk}
  BY <1>1, SeenPages DEF TypeOK
<1>5. Sees(p) \in [1..Size(p) -> Val \cup {Junk}]
  BY <1>3, <1>4
<1> HIDE DEF Sees
<1>6. Size(p) \in Nat /\ Size(p) >= 1
  BY <1>1, <1>2
<1>7. Sees(p) \in Seq(Val \cup {Junk}) /\ Len(Sees(p)) = Size(p)
  BY <1>5, <1>6
<1>8. Sees(p) # <<>>
  BY <1>6, <1>7
<1> QED
  BY <1>2, <1>3, <1>7, <1>8

(* The memories of all after a step of p.                                  *)
LEMMA Changed ==
  ASSUME Inv, NEW p \in Proc, NEW C, Alone(p, C)
  PROVE  \A q \in Proc : q # p /\ q \notin C => images'[q] = images[q]
<1> SUFFICES ASSUME NEW q \in Proc, q # p, q \notin C PROVE images'[q] = images[q]
  OBVIOUS
<1>1. Sees(q)' = Sees(q)
  BY OthersSee
<1> QED
  BY <1>1 DEF images

(* The steps of the abstract memory are the ends of system calls.          *)
LEMMA ForkReturnIsFork ==
  ASSUME Inv, Data, NEW p \in Proc, ForkReturn(p)
  PROVE  /\ \E c \in Proc : Private!Fork(p, c)
         /\ Data'
<1>1. /\ pc[p] = "share" /\ TypeOK /\ state[p] = "running" /\ sz[p] \in 1..MaxPages
      /\ MaxPages \in Nat /\ loc[p].i \in 0..(MaxPages + 1) /\ loc[p].i > sz[p]
  BY Running DEF ForkReturn
<1>0. PICK c \in Proc : c = loc[p].kid
  BY <1>1 DEF Inv, Control, Kids
<1>2. state[c] = "embryo" /\ c # p /\ pc[c] = "user"
  BY <1>0, <1>1 DEF Inv, Control, Kids, Locals
<1>3. /\ pte' = pte /\ mem' = mem /\ pc'[p] = "user"
      /\ \A q \in Proc : q # p => pc'[q] = pc[q] /\ loc'[q] = loc[q]
      /\ state'[c] = "running" /\ pgdir'[c] = loc[p].dir /\ sz'[c] = sz[p]
      /\ \A q \in Proc : q # c => state'[q] = state[q] /\ pgdir'[q] = pgdir[q] /\ sz'[q] = sz[q]
  BY <1>0, <1>1, <1>2 DEF ForkReturn, Goto, TypeOK
<1>4. Alone(p, {c})
  BY <1>1, <1>2, <1>3 DEF Alone
<1>5. Data'
  <2>1. \A q \in Proc : q # p /\ q # c => DataOf(q)'
    BY <1>4, OthersData
  <2>2. DataOf(p)' /\ DataOf(c)'
    BY <1>1, <1>2, <1>3 DEF DataOf
  <2> QED
    BY <2>1, <2>2 DEF Data
<1>6. Sees(p)' = Sees(p)
  BY <1>1, <1>2, <1>3 DEF Sees, Size, Behind
<1>7. Sees(c)' = Sees(p)
  <2>1. Size(p) = sz[p] /\ Size(c)' = sz[p]
    BY <1>1, <1>2, <1>3 DEF Size
  <2>2. ASSUME NEW i \in 1..sz[p]
        PROVE  Behind(c, i)' = Behind(p, i)
    <3>1. i \in Index /\ i < loc[p].i
      BY <1>1 DEF Index
    <3>2. pte[loc[p].dir][i].pa = pte[pgdir[p]][i].pa
      BY <1>1, <3>1 DEF Inv, Control, Shape
    <3> QED
      BY <1>1, <1>2, <1>3, <3>2 DEF Behind
  <2> QED
    BY <1>1, <1>2, <1>3, <2>1, <2>2 DEF Sees
<1>8. images[p] # <<>> /\ images[c] = <<>>
  <2>1. Sees(p) # <<>>
    BY <1>1, SeesPages
  <2>2. Sees(c) = <<>>
    BY <1>2 DEF Sees
  <2> QED
    BY <1>2, <2>1, <2>2 DEF images
<1>9. images' = [images EXCEPT ![c] = images[p]]
  <2>1. \A q \in Proc : q # p /\ q # c => images'[q] = images[q]
    BY <1>4, Changed
  <2>2. images'[p] = images[p] /\ images'[c] = images[p]
    BY <1>2, <1>6, <1>7 DEF images
  <2>3. images' = [q \in Proc |-> images'[q]] /\ images = [q \in Proc |-> images[q]]
    BY DEF images
  <2> HIDE DEF images
  <2> QED
    BY <1>2, <2>1, <2>2, <2>3
<1> QED
  BY <1>2, <1>5, <1>8, <1>9 DEF Private!Fork

(* A step that changes the memory of one process.                          *)
LEMMA OneChanged ==
  ASSUME Inv, Data, NEW p \in Proc, Alone(p, {}), DataOf(p)'
  PROVE  images' = [images EXCEPT ![p] = Sees(p)'] /\ Data'
<1>1. \A q \in Proc : q # p => images'[q] = images[q]
  BY Changed
<1>2. images'[p] = Sees(p)'
  BY DEF images
<1>3. images' = [q \in Proc |-> images'[q]] /\ images = [q \in Proc |-> images[q]]
  BY DEF images
<1>4. \A q \in Proc : q # p => DataOf(q)'
  BY OthersData
<1>5. Data'
  BY <1>4 DEF Data
<1> HIDE DEF images, Sees
<1> QED
  BY <1>1, <1>2, <1>3, <1>5

LEMMA GrowReturnIsGrow ==
  ASSUME Inv, Data, NEW p \in Proc, GrowReturn(p)
  PROVE  Private!Grow(p) /\ Data'
<1>1. /\ pc[p] = "grow" /\ TypeOK /\ state[p] = "running" /\ sz[p] \in 1..MaxPages
      /\ MaxPages \in Nat /\ loc[p].dir = pgdir[p] /\ loc[p].n = sz[p] + 1
      /\ loc[p].i = loc[p].n + 1 /\ loc[p].n <= MaxPages
      /\ mem[pte[pgdir[p]][loc[p].n].pa] = Zero
  <2>1. /\ pc[p] = "grow" /\ TypeOK /\ state[p] = "running" /\ sz[p] \in 1..MaxPages
        /\ MaxPages \in Nat /\ loc[p].n \in 0..MaxPages
    BY Running DEF GrowReturn
  <2>2. /\ loc[p].dir = pgdir[p] /\ loc[p].n = sz[p] + 1 /\ loc[p].i = loc[p].n + 1
    BY <2>1 DEF GrowReturn, Inv, Control, Locals
  <2>3. loc[p].n \in Index /\ Fresh(p) = loc[p].n /\ loc[p].n < loc[p].i
    BY <2>1, <2>2 DEF Index, Fresh
  <2>4. mem[pte[loc[p].dir][loc[p].n].pa] = Zero
    BY <2>1, <2>2, <2>3 DEF Data, DataOf
  <2> QED
    BY <2>1, <2>2, <2>4
<1>2. /\ pte' = pte /\ mem' = mem /\ pc'[p] = "user" /\ state' = state /\ pgdir' = pgdir
      /\ \A q \in Proc : q # p => pc'[q] = pc[q] /\ loc'[q] = loc[q] /\ sz'[q] = sz[q]
      /\ sz'[p] = loc[p].n
  BY <1>1 DEF GrowReturn, Goto, TypeOK
<1>3. Alone(p, {})
  BY <1>1, <1>2 DEF Alone
<1>4. DataOf(p)'
  BY <1>1, <1>2 DEF DataOf
<1>5. images' = [images EXCEPT ![p] = Sees(p)'] /\ Data'
  BY <1>3, <1>4, OneChanged
<1>6. /\ Sees(p) \in Seq(Val \cup {Junk}) /\ Len(Sees(p)) = sz[p] /\ Size(p) = sz[p]
      /\ \A i \in 1..sz[p] : Sees(p)[i] = mem[pte[pgdir[p]][i].pa]
  BY <1>1, SeesPages DEF Size, Behind
<1>7. Sees(p)' = [i \in 1..(sz[p] + 1) |-> mem[pte[pgdir[p]][i].pa]]
  BY <1>1, <1>2 DEF Sees, Size, Behind
<1> HIDE DEF Sees
<1>8. Sees(p)' = Append(Sees(p), Zero)
  <2>1. Zero \in Val \cup {Junk}
    BY ConstantsAssumption
  <2> DEFINE t == Append(Sees(p), Zero)
  <2>2. /\ t \in Seq(Val \cup {Junk}) /\ Len(t) = sz[p] + 1
        /\ \A i \in 1..sz[p] : t[i] = Sees(p)[i]
        /\ t[sz[p] + 1] = Zero
    BY <1>6, <2>1, AppendProperties
  <2> HIDE DEF t
  <2>3. t = [i \in 1..(sz[p] + 1) |-> t[i]]
    BY <2>2
  <2>4. \A i \in 1..(sz[p] + 1) : t[i] = mem[pte[pgdir[p]][i].pa]
    BY <1>1, <1>6, <2>2
  <2>5. Sees(p)' = t
    BY <1>7, <2>3, <2>4
  <2> QED
    BY <2>5 DEF t
<1>9. images[p] = Sees(p)
  BY DEF images
<1>10. Len(images[p]) \in 1..(MaxPages - 1)
  BY <1>1, <1>6, <1>9
<1> HIDE DEF images
<1>11. images' = [images EXCEPT ![p] = Append(@, Zero)]
  BY <1>5, <1>8, <1>9
<1> QED
  BY <1>5, <1>10, <1>11 DEF Private!Grow

LEMMA ExecCommitIsExec ==
  ASSUME Inv, Data, NEW p \in Proc, ExecCommit(p)
  PROVE  Private!Exec(p) /\ Data'
<1>1. /\ pc[p] = "load" /\ TypeOK /\ state[p] = "running" /\ sz[p] \in 1..MaxPages
      /\ MaxPages \in Nat /\ loc[p].n \in 1..MaxPages /\ loc[p].i > loc[p].n
      /\ loc[p].dir # pgdir[p] /\ loc[p].i \in Int
      /\ \A i \in 1..loc[p].n : mem[pte[loc[p].dir][i].pa] = Zero
  <2>1. /\ pc[p] = "load" /\ TypeOK /\ state[p] = "running" /\ sz[p] \in 1..MaxPages
        /\ MaxPages \in Nat /\ loc[p].n \in 0..MaxPages /\ pgdir[p] # NoDir
        /\ loc[p].i \in Int /\ loc[p].i > loc[p].n /\ DataOf(p)
    BY Running DEF ExecCommit, Data
  <2>2. loc[p].n >= 1 /\ loc[p].dir # pgdir[p]
    BY <2>1 DEF DataOf, Inv, Control, Dirs
  <2>3. ASSUME NEW i \in 1..loc[p].n PROVE mem[pte[loc[p].dir][i].pa] = Zero
    <3>1. i \in Index /\ Fresh(p) <= i /\ i < loc[p].i
      BY <2>1 DEF Index, Fresh
    <3> QED
      BY <2>1, <3>1 DEF DataOf
  <2> QED
    BY <2>1, <2>2, <2>3
<1>2. /\ pte' = pte /\ mem' = mem /\ pc'[p] = "free" /\ state' = state
      /\ \A q \in Proc : q # p =>
           pc'[q] = pc[q] /\ loc'[q] = loc[q] /\ sz'[q] = sz[q] /\ pgdir'[q] = pgdir[q]
      /\ sz'[p] = loc[p].n /\ pgdir'[p] = loc[p].dir /\ loc'[p].dir = pgdir[p]
  BY <1>1 DEF ExecCommit, Goto, TypeOK, NoLoc
<1>3. Alone(p, {})
  BY <1>1, <1>2 DEF Alone
<1>4. DataOf(p)'
  BY <1>1, <1>2 DEF DataOf
<1>5. images' = [images EXCEPT ![p] = Sees(p)'] /\ Data'
  BY <1>3, <1>4, OneChanged
<1>6. Sees(p)' = [i \in 1..loc[p].n |-> Zero]
  BY <1>1, <1>2 DEF Sees, Size, Behind
<1>7. images[p] # <<>>
  BY <1>1, SeesPages DEF images
<1>8. Sees(p)' \in Private!NewImages
  BY <1>1, <1>6 DEF Private!NewImages
<1> HIDE DEF images, Sees
<1> QED
  BY <1>5, <1>7, <1>8 DEF Private!Exec

LEMMA ShrinkIsShrink ==
  ASSUME Inv, Data, NEW p \in Proc, Shrink(p)
  PROVE  Private!Shrink(p) /\ Data'
<1>1. /\ pc[p] = "user" /\ TypeOK /\ state[p] = "running" /\ sz[p] \in 1..MaxPages
      /\ MaxPages \in Nat /\ sz[p] > 1
  BY Running DEF Shrink, User
<1>2. /\ pte' = pte /\ mem' = mem /\ pc'[p] = "free" /\ state' = state /\ sz' = sz
      /\ pgdir' = pgdir
      /\ \A q \in Proc : q # p => pc'[q] = pc[q] /\ loc'[q] = loc[q]
      /\ loc'[p].dir = pgdir[p] /\ loc'[p].n = sz[p]
  BY <1>1 DEF Shrink, Goto, TypeOK, procs, NoLoc
<1>3. Alone(p, {})
  BY <1>1, <1>2 DEF Alone
<1>4. DataOf(p)'
  BY <1>1, <1>2 DEF DataOf
<1>5. images' = [images EXCEPT ![p] = Sees(p)'] /\ Data'
  BY <1>3, <1>4, OneChanged
<1>6. /\ Sees(p) \in Seq(Val \cup {Junk}) /\ Len(Sees(p)) = sz[p] /\ Size(p) = sz[p]
      /\ \A i \in 1..sz[p] :
           Sees(p)[i] = mem[pte[pgdir[p]][i].pa] /\ Sees(p)[i] \in Val \cup {Junk}
  <2>1. /\ Sees(p) \in Seq(Val \cup {Junk}) /\ Len(Sees(p)) = sz[p] /\ Size(p) = sz[p]
        /\ \A i \in 1..sz[p] : Sees(p)[i] = mem[pte[pgdir[p]][i].pa]
    BY <1>1, SeesPages DEF Size, Behind
  <2> HIDE DEF Sees
  <2>2. \A i \in 1..sz[p] : Sees(p)[i] \in Val \cup {Junk}
    BY <2>1
  <2> QED
    BY <2>1, <2>2
<1>7. Sees(p)' = [i \in 1..(sz[p] - 1) |-> mem[pte[pgdir[p]][i].pa]]
  BY <1>1, <1>2 DEF Sees, Size, Behind
<1> HIDE DEF Sees
<1>8. Sees(p)' = SubSeq(Sees(p), 1, Len(Sees(p)) - 1)
  <2> DEFINE t == SubSeq(Sees(p), 1, sz[p] - 1)
  <2>1. 1 \in Int /\ sz[p] - 1 \in Int /\ \A i \in 1..(sz[p] - 1) : Sees(p)[i] \in Val \cup {Junk}
    BY <1>1, <1>6
  <2>2. /\ t \in Seq(Val \cup {Junk})
        /\ Len(t) = IF 1 <= sz[p] - 1 THEN (sz[p] - 1) - 1 + 1 ELSE 0
        /\ \A i \in 1..((sz[p] - 1) - 1 + 1) : t[i] = Sees(p)[1 + i - 1]
    BY <2>1, SubSeqProperties
  <2> HIDE DEF t
  <2>3. Len(t) = sz[p] - 1 /\ \A i \in 1..(sz[p] - 1) : t[i] = mem[pte[pgdir[p]][i].pa]
    BY <1>1, <1>6, <2>2
  <2>4. t = [i \in 1..(sz[p] - 1) |-> t[i]]
    BY <2>2, <2>3
  <2>5. Sees(p)' = t
    BY <1>7, <2>3, <2>4
  <2> QED
    BY <1>6, <2>5 DEF t
<1>9. images[p] = Sees(p)
  BY DEF images
<1>10. Len(images[p]) > 1
  BY <1>1, <1>6, <1>9
<1> HIDE DEF images
<1>11. images' = [images EXCEPT ![p] = SubSeq(@, 1, Len(@) - 1)]
  BY <1>5, <1>8, <1>9
<1> QED
  BY <1>5, <1>10, <1>11 DEF Private!Shrink

LEMMA ExitIsExit ==
  ASSUME Inv, Data, NEW p \in Proc, Exit(p)
  PROVE  Private!Exit(p) /\ Data'
<1>1. pc[p] = "user" /\ TypeOK /\ state[p] = "running" /\ sz[p] \in 1..MaxPages
  BY Running DEF Exit, User
<1>2. /\ pte' = pte /\ mem' = mem /\ pc' = pc /\ loc' = loc /\ sz' = sz /\ pgdir' = pgdir
      /\ state'[p] = "zombie" /\ \A q \in Proc : q # p => state'[q] = state[q]
  BY <1>1 DEF Exit, TypeOK
<1>3. Alone(p, {})
  BY <1>1, <1>2 DEF Alone
<1>4. DataOf(p)'
  BY <1>1, <1>2 DEF DataOf
<1>5. images' = [images EXCEPT ![p] = Sees(p)'] /\ Data'
  BY <1>3, <1>4, OneChanged
<1>6. Sees(p)' = <<>>
  BY <1>2 DEF Sees
<1>7. images[p] # <<>>
  BY <1>1, SeesPages DEF images
<1> HIDE DEF images, Sees
<1> QED
  BY <1>5, <1>6, <1>7 DEF Private!Exit

LEMMA WriteIsWrite ==
  ASSUME Inv, Data, NEW p \in Proc, NEW i \in Index, NEW v \in Val, Write(p, i, v)
  PROVE  inUser' = inUser /\ Private!Write(p, i, v) /\ Data'
<1>1. /\ pc[p] = "user" /\ TypeOK /\ state[p] = "running" /\ sz[p] \in 1..MaxPages
      /\ MaxPages \in Nat /\ i \in 1..sz[p] /\ pgdir[p] \in Pgdir /\ Size(p) = sz[p]
  BY Running DEF Write, User, Index, Size
<1> DEFINE g == pte[pgdir[p]][i].pa
<1>2. g \in Page /\ rmap[g] = {pgdir[p]}
  <2>1. g \in Page
    BY <1>1, SeenPages
  <2>2. pgdir[p] \in rmap[g]
    BY <1>1, SeenPages
  <2>3. ~Busy(pgdir[p], i)
    <3>1. PICK j \in Index : pte[pgdir[p]][j].pa = g /\ ~Busy(pgdir[p], j)
      BY <1>1, <2>1, <2>2 DEF Inv, Pages, Listed
    <3>2. j = i
      BY <1>1, <2>1, <3>1, ConstantsAssumption DEF Inv, Pages, Once
    <3> QED
      BY <3>1, <3>2
  <2> QED
    BY <1>1, <2>1, <2>3 DEF Write, Inv, Pages, Exclusive
<1>3. /\ pte' = pte /\ pc' = pc /\ loc' = loc /\ sz' = sz /\ pgdir' = pgdir /\ state' = state
      /\ \A h \in Page : mem'[h] = IF h = g THEN v ELSE mem[h]
  BY <1>1, <1>2 DEF Write, procs, TypeOK
<1>4. Alone(p, {})
  BY <1>1, <1>2, <1>3 DEF Alone
<1>5. DataOf(p)'
  BY <1>1, <1>3 DEF DataOf
<1>6. images' = [images EXCEPT ![p] = Sees(p)'] /\ Data'
  BY <1>4, <1>5, OneChanged
<1>7. Sees(p)' = [Sees(p) EXCEPT ![i] = v]
  <2>1. ASSUME NEW j \in 1..sz[p]
        PROVE  mem'[pte[pgdir[p]][j].pa] = IF j = i THEN v ELSE mem[pte[pgdir[p]][j].pa]
    <3>1. j \in Index /\ pte[pgdir[p]][j].pa \in Page
      BY <1>1, SeenPages
    <3>2. pte[pgdir[p]][j].pa = g => j = i
      BY <1>1, <1>2, <3>1, ConstantsAssumption DEF Inv, Pages, Once
    <3> QED
      BY <1>3, <3>1, <3>2
  <2>2. Sees(p) = [j \in 1..sz[p] |-> mem[pte[pgdir[p]][j].pa]]
    BY <1>1 DEF Sees, Behind
  <2>3. Sees(p)' = [j \in 1..sz[p] |-> mem'[pte[pgdir[p]][j].pa]]
    BY <1>1, <1>3 DEF Sees, Behind, Size
  <2> HIDE DEF Sees
  <2> QED
    BY <1>1, <2>1, <2>2, <2>3
<1>8. images[p] = Sees(p) /\ inUser[p] /\ inUser' = inUser
  BY <1>1, <1>3 DEF images, inUser
<1>9. i \in DOMAIN images[p]
  BY <1>1, <1>8, SeesPages
<1> HIDE DEF images, Sees, inUser
<1>10. images' = [images EXCEPT ![p][i] = v]
  BY <1>6, <1>7, <1>8
<1> QED
  BY <1>6, <1>8, <1>9, <1>10 DEF Private!Write

LEMMA QuietIsKernel ==
  ASSUME Inv, Data, NEW p \in Proc, Quiet(p)
  PROVE  Private!EnterOrLeaveKernel /\ Data'
<1>1. images' = [images EXCEPT ![p] = Sees(p)'] /\ Data'
  BY OneChanged DEF Quiet
<1>2. Sees(p)' = images[p]
  BY DEF Quiet, images
<1>3. images = [q \in Proc |-> images[q]]
  BY DEF images
<1> HIDE DEF images
<1>4. images' = images
  BY <1>1, <1>2, <1>3
<1> QED
  BY <1>1, <1>4 DEF Private!EnterOrLeaveKernel

LEMMA PrivateStep ==
  ASSUME Inv, Data, [Next]_vars
  PROVE  [Private!Next]_<<images, inUser>> /\ Data'
<1>1. inUser' \in [Proc -> BOOLEAN]
  BY DEF inUser
<1>2. ASSUME NEW p \in Proc, Private!Kernel(p) /\ Data'
      PROVE  [Private!Next]_<<images, inUser>> /\ Data'
  BY <1>1, <1>2 DEF Private!Next
<1>3. ASSUME NEW p \in Proc, Quiet(p)
      PROVE  Private!Kernel(p) /\ Data'
  BY <1>3, QuietIsKernel DEF Private!Kernel
<1>4. ASSUME NEW p \in Proc, Kernel(p)
      PROVE  Private!Kernel(p) /\ Data'
  <2>1. CASE Quiet(p)
    BY <1>3, <2>1
  <2>2. CASE ForkReturn(p)
    BY <2>2, ForkReturnIsFork DEF Private!Kernel
  <2>3. CASE GrowReturn(p)
    BY <2>3, GrowReturnIsGrow DEF Private!Kernel
  <2>4. CASE ExecCommit(p)
    BY <2>4, ExecCommitIsExec DEF Private!Kernel
  <2> QED
    BY <1>4, <2>1, <2>2, <2>3, <2>4, FaultCountQuiet, MakeWritableQuiet, FaultCopyQuiet,
       FaultLeaveQuiet, FaultRemapQuiet, SharePageQuiet, MapPageQuiet, SkipEntryQuiet,
       FreeLeaveQuiet, FreeLastQuiet, FreeReturnQuiet, WaitReturnQuiet, FaultAllocQuiet,
       NewPageQuiet
    DEF Kernel
<1>5. ASSUME NEW p \in Proc, Syscall(p)
      PROVE  Private!Kernel(p) /\ Data'
  <2>1. CASE Quiet(p)
    BY <1>3, <2>1
  <2>2. CASE Shrink(p)
    BY <2>2, ShrinkIsShrink DEF Private!Kernel
  <2>3. CASE Exit(p)
    BY <2>3, ExitIsExit DEF Private!Kernel
  <2> QED
    BY <1>5, <2>1, <2>2, <2>3, GrowQuiet, WaitQuiet, ForkQuiet, ExecQuiet DEF Syscall
<1>6. ASSUME NEW p \in Proc, NEW i \in Index, Fault(p, i)
      PROVE  Private!Kernel(p) /\ Data'
  BY <1>3, <1>6, FaultQuiet
<1>7. ASSUME NEW p \in Proc, NEW i \in Index, NEW v \in Val, Write(p, i, v)
      PROVE  [Private!Next]_<<images, inUser>> /\ Data'
  BY <1>7, WriteIsWrite DEF Private!Next, Index
<1>8. CASE UNCHANGED vars
  <2>1. images' = images /\ inUser' = inUser
    BY <1>8 DEF vars, images, inUser, Sees, Size, Behind
  <2>2. Data'
    BY <1>8 DEF vars, Data, DataOf, Here, Fresh
  <2> QED
    BY <2>1, <2>2
<1> QED
  BY <1>2, <1>4, <1>5, <1>6, <1>7, <1>8 DEF Next

LEMMA PrivateInit ==
  ASSUME Init
  PROVE  Data /\ Private!Init /\ inUser \in [Proc -> BOOLEAN]
<1>1. PICK g \in Page, d \in Pgdir :
        /\ state = [p \in Proc |-> IF p = First THEN "running" ELSE "unused"]
        /\ pgdir = [p \in Proc |-> IF p = First THEN d ELSE NoDir]
        /\ sz = [p \in Proc |-> IF p = First THEN 1 ELSE 0]
        /\ pte = [e \in Pgdir |-> [i \in Index |->
                    IF e = d /\ i = 1 THEN [pa |-> g, w |-> TRUE] ELSE NoEntry]]
        /\ mem = [h \in Page |-> IF h = g THEN Zero ELSE Junk]
        /\ pc = [p \in Proc |-> "user"] /\ loc = [p \in Proc |-> NoLoc]
  BY DEF Init
<1>2. Data
  BY <1>1 DEF Data, DataOf
<1>3. 1 \in Index
  BY ConstantsAssumption DEF Index
<1>4. \A p \in Proc : Sees(p) = IF p = First THEN [i \in 1..1 |-> Zero] ELSE <<>>
  <2>1. ASSUME NEW p \in Proc, p = First PROVE Sees(p) = [i \in 1..1 |-> Zero]
    <3>1. pte[d][1].pa = g
      BY <1>1, <1>3
    <3>2. Size(p) = 1 /\ state[p] = "running" /\ \A i \in 1..1 : Behind(p, i) = g
      BY <1>1, <2>1, <3>1 DEF Size, Behind
    <3>3. mem[g] = Zero
      BY <1>1
    <3> QED
      BY <3>2, <3>3 DEF Sees
  <2> QED
    BY <1>1, <2>1 DEF Sees
<1>5. [i \in 1..1 |-> Zero] \in Private!NewImages
  BY ConstantsAssumption DEF Private!NewImages
<1>6. images = [p \in Proc |-> IF p = First THEN [i \in 1..1 |-> Zero] ELSE <<>>]
  BY <1>4 DEF images
<1>7. Private!Init
  BY <1>5, <1>6 DEF Private!Init
<1> QED
  BY <1>2, <1>7 DEF inUser

-----------------------------------------------------------------------------
(* As long as the race does not happen, every process has a memory of its   *)
(* own: fork() copies (vm.c:319), and no page fault (cow.c:107), fork,      *)
(* exec(), growth or freeing of pages changes what another process sees.    *)
THEOREM SharingIsInvisible == Spec /\ []NoRace => PrivateSpec
<1>1. Inv /\ NoRace /\ [Next]_vars => Inv'
  BY NextInv, StutterInv
<1>2. Inv /\ Data /\ [Next]_vars => [Private!Next]_<<images, inUser>> /\ Data'
  BY PrivateStep
<1>3. Init => Inv /\ Data /\ Private!Init /\ inUser \in [Proc -> BOOLEAN]
  BY InitInv, PrivateInit
<1> QED
  BY <1>1, <1>2, <1>3, PTL DEF Spec, PrivateSpec, Private!Spec

(* Where only wait() frees address spaces the race cannot happen, and the   *)
(* same holds without a condition.                                         *)
THEOREM ForkAndWaitAreInvisible ==
  ASSUME Deallocs = {}
  PROVE  Spec => PrivateSpec
<1>1. Init => Inv /\ OnlyWaitFrees
  <2>1. Init => OnlyWaitFrees
    BY DEF Init, OnlyWaitFrees, Freeing
  <2> QED
    BY <2>1, InitInv
<1>2. Inv /\ OnlyWaitFrees /\ [Next]_vars => Inv' /\ OnlyWaitFrees'
  BY NextInv, StutterInv, LockExcludesRace, OnlyWaitFreesStep
<1>3. Inv /\ OnlyWaitFrees => NoRace
  BY LockExcludesRace
<1> QED
  BY <1>1, <1>2, <1>3, SharingIsInvisible, PTL DEF Spec
=============================================================================
