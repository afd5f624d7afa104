------------------------------ MODULE SwapMemory ------------------------------
(***************************************************************************)
(* Copy-on-write memory with page swapping (project-cow-page-swapping):    *)
(* kalloc() evicts a page when the free list is empty (swap_out), a fault  *)
(* on a non-present entry brings one back (swap_in), and the reverse map   *)
(* is saved in the swap slot meanwhile.                                    *)
(*                                                                         *)
(* A system call or fault is one step except where it sleeps for the disk: *)
(* after write_slotnums_to_ptes(), before the page is written to its slot, *)
(* and before swap_in() uses what it read.  CowMemory has the finer steps. *)
(* A page number and the number of a swap slot stand in the same field of  *)
(* a page table entry; slot 0 gives the entry that is all zero.  A reverse *)
(* map is a set here: its order decides only which directory is in CR3     *)
(* after a swap_in(), and any of those listed may be.  exec() is           *)
(* not modelled here, so a process keeps one page directory; the pages the *)
(* kernel takes for itself and the tree of parents are left out.           *)
(***************************************************************************)
EXTENDS Integers, FiniteSets, FiniteSetsExt

CONSTANTS
  Proc,       \* process table entries, in the order of their pids
  First,      \* the process that exists at boot
  NoProc,
  NPage,      \* pages of physical memory ...
  FirstPage,  \* ... and the number of the first one after the kernel's
  NSlot,      \* swap slots: 0 .. NSlot - 1 (NSWAP)
  RssMod,     \* p->rss wraps here (a uint of bytes: 2^20 pages)
  MaxPages,   \* the largest address space, pages 0 .. MaxPages - 1
  Val, Zero

ASSUME SwapAssumption ==
  /\ Proc \subseteq Nat /\ First \in Proc /\ NoProc \notin Proc
  /\ NPage \in Nat \ {0} /\ FirstPage \in Nat \ {0}
  /\ NSlot \in Nat \ {0} /\ MaxPages \in Nat \ {0}
  /\ RssMod \in Nat /\ RssMod > MaxPages + 1
  /\ Zero \in Val

VARIABLES
  state,     \* p->state
  sz,        \* p->sz, in pages
  rss,       \* p->rss, in pages
  pte,       \* pte[p][i]
  rmap,      \* the directories in rmap[g].pgdirs
  free,      \* the free list
  mem,       \* contents of physical pages
  slotmap,   \* those in swapslots[s].rmap_node.pgdirs
  slotfree,  \* swapslots[s].is_free
  slotdata,  \* the disk blocks of each slot
  cr3,       \* the page directory a process runs on
  pc, loc,   \* control point and local variables of each process
  panicked

vars == <<state, sz, rss, pte, rmap, free, mem, slotmap, slotfree, slotdata,
          cr3, pc, loc, panicked>>
swap == <<slotmap, slotfree, slotdata>>

Page == FirstPage .. FirstPage + NPage - 1
Slot == 0 .. NSlot - 1
Index == 0 .. MaxPages - 1

(* A page table entry: PTE_P, the number above the flag bits, PTE_W, PTE_A *)
Resident(g, w) == [p |-> TRUE, n |-> g, w |-> w, a |-> FALSE]
Swapped(s) == [p |-> FALSE, n |-> s, w |-> FALSE, a |-> FALSE]
Zeroed == Swapped(0)
Entry == [p : {TRUE}, n : Page, w : BOOLEAN, a : BOOLEAN]
           \cup {Swapped(s) : s \in Slot}

NoLoc == [why |-> "none", i |-> 0, pa |-> 0, page |-> 0, slot |-> 0,
          out |-> 0, victim |-> NoProc]

Init ==
  /\ state = [p \in Proc |-> IF p = First THEN "running" ELSE "unused"]
  /\ sz = [p \in Proc |-> IF p = First THEN 1 ELSE 0]
  /\ rss = [p \in Proc |-> IF p = First THEN 1 ELSE 0]
  /\ pte = [p \in Proc |-> [i \in Index |->
              IF p = First /\ i = 0 THEN Resident(FirstPage, TRUE) ELSE Zeroed]]
  /\ rmap = [g \in Page |-> IF g = FirstPage THEN {First} ELSE {}]
  /\ free = Page \ {FirstPage}
  /\ mem = [g \in Page |-> Zero]
  /\ slotmap = [s \in Slot |-> {}]
  /\ slotfree = [s \in Slot |-> TRUE]
  /\ slotdata = [s \in Slot |-> Zero]
  /\ cr3 = [p \in Proc |-> p]
  /\ pc = [p \in Proc |-> "user"]
  /\ loc = [p \in Proc |-> NoLoc]
  /\ panicked = FALSE

User(p) == ~panicked /\ state[p] = "running" /\ pc[p] = "user"
In(p, l) == ~panicked /\ pc[p] = l
Goto(p, l) == pc' = [pc EXCEPT ![p] = l]

AddRss(ps, n) ==
  [q \in Proc |-> IF q \in ps THEN (rss[q] + n) % RssMod ELSE rss[q]]
RmapRm(users, p) == users \ {p}
RmapAdd(users, p) == users \cup {p}

-----------------------------------------------------------------------------
(* The user program reads or writes through the page table in CR3; the     *)
(* scheduler's switchuvm() puts the process's own table there.             *)

Read(p, i) ==
  LET e == pte[cr3[p]][i] IN
  /\ User(p) /\ i < sz[p] /\ e.p
  /\ pte' = [pte EXCEPT ![cr3[p]][i].a = TRUE]
  /\ UNCHANGED <<state, sz, rss, rmap, free, mem, swap, cr3, pc, loc, panicked>>

Write(p, i, v) ==
  LET e == pte[cr3[p]][i] IN
  /\ User(p) /\ i < sz[p] /\ e.p /\ e.w
  /\ mem' = [mem EXCEPT ![e.n] = v]
  /\ pte' = [pte EXCEPT ![cr3[p]][i].a = TRUE]
  /\ UNCHANGED <<state, sz, rss, rmap, free, swap, cr3, pc, loc, panicked>>

Reschedule(p) ==
  /\ User(p) /\ cr3[p] # p
  /\ cr3' = [cr3 EXCEPT ![p] = p]
  /\ UNCHANGED <<state, sz, rss, pte, rmap, free, mem, swap, pc, loc, panicked>>

(* The access at page i raises T_PGFLT: swap_in() decides by the process's *)
(* own entry.  An unshared read-only page is made writable at once.        *)
Fault(p, i) ==
  LET e == pte[p][i] IN
  /\ User(p) /\ i < sz[p]
  /\ ~pte[cr3[p]][i].p \/ ~pte[cr3[p]][i].w
  /\ IF e.p /\ (e.w \/ Cardinality(rmap[e.n]) = 1)
       THEN /\ pte' = [pte EXCEPT ![p][i].w = TRUE]
            /\ cr3' = IF e.w THEN cr3 ELSE [cr3 EXCEPT ![p] = p]
            /\ UNCHANGED <<pc, loc>>
       ELSE /\ Goto(p, "alloc")
            /\ loc' = [loc EXCEPT ![p] = [NoLoc EXCEPT
                         !.why = IF e.p THEN "cow" ELSE "in", !.i = i,
                         !.pa = IF e.p THEN e.n ELSE 0,
                         !.slot = IF e.p THEN 0 ELSE e.n]]
            /\ UNCHANGED <<pte, cr3>>
  /\ UNCHANGED <<state, sz, rss, rmap, free, mem, swap, panicked>>

-----------------------------------------------------------------------------
(* kalloc() and swap_out()                                                 *)

TakeFree(p, g) ==
  /\ In(p, "alloc") /\ g \in free
  /\ free' = free \ {g}
  /\ loc' = [loc EXCEPT ![p].page = g]
  /\ Goto(p, loc[p].why)
  /\ UNCHANGED <<state, sz, rss, pte, rmap, mem, swap, cr3, panicked>>

(* get_victim_process(): the largest rss, the lowest pid among equals.     *)
SwapOut(p, v) ==
  /\ In(p, "alloc") /\ free = {} /\ state[v] # "unused"
  /\ \A q \in Proc : state[q] # "unused" =>
       rss[q] < rss[v] \/ (rss[q] = rss[v] /\ v <= q)
  /\ loc' = [loc EXCEPT ![p].victim = v]
  /\ Goto(p, "victim")
  /\ UNCHANGED <<state, sz, rss, pte, rmap, free, mem, swap, cr3, panicked>>

Users(n) == IF n \in Page THEN rmap[n] ELSE {}

(* check_present_and_accessed_bits() of the page with number n at i        *)
Accessed(n, i) ==
  Users(n) # {} /\ \A q \in Users(n) : pte[q][i].p => pte[q][i].a

(* get_victim_page() takes the highest of these, never page 0.             *)
Candidates(v) == {i \in Index \ {0} : i < sz[v] /\ Accessed(pte[v][i].n, i)}

FreeSlots == {s \in Slot : slotfree[s]}

(* Faulty: only the victim's entry is redirected.                          *)
EvictVictimOnly(p) ==
  LET v == loc[p].victim
      i == Max(Candidates(v))
      g == pte[v][i].n
      s == Min(FreeSlots) IN
  /\ In(p, "victim") /\ Candidates(v) # {} /\ FreeSlots # {}
  /\ slotfree' = [slotfree EXCEPT ![s] = FALSE]
  /\ slotmap' = [slotmap EXCEPT ![s] = rmap[g]]
  /\ pte' = [pte EXCEPT ![v][i] = Swapped(s)]
  /\ rss' = AddRss({v}, -1)
  /\ loc' = [loc EXCEPT ![p].page = g, ![p].out = s]
  /\ Goto(p, "evict")
  /\ UNCHANGED <<state, sz, rmap, free, mem, slotdata, cr3, panicked>>

(* swap_out() up to the disk write: find_slot() saves the reverse map, and *)
(* write_slotnums_to_ptes() redirects every process listed in it.          *)
Evict(p) ==
  LET v == loc[p].victim
      i == Max(Candidates(v))
      g == pte[v][i].n
      s == Min(FreeSlots) IN
  /\ In(p, "victim") /\ Candidates(v) # {}
  /\ panicked' = (FreeSlots = {})
  /\ IF FreeSlots = {}
       THEN UNCHANGED <<slotmap, slotfree, pte, rss, pc, loc>>
       ELSE /\ slotfree' = [slotfree EXCEPT ![s] = FALSE]
            /\ slotmap' = [slotmap EXCEPT ![s] = rmap[g]]
            /\ pte' = [q \in Proc |-> IF q \in Users(g)
                         THEN [pte[q] EXCEPT ![i] = Swapped(s)] ELSE pte[q]]
            /\ rss' = AddRss(Users(g), -1)
            /\ loc' = [loc EXCEPT ![p].page = g, ![p].out = s]
            /\ Goto(p, "evict")
  /\ UNCHANGED <<state, sz, rmap, free, mem, slotdata, cr3>>

(* No page qualifies: clear_accessed_bits() clears the bits of the lowest  *)
(* page that has any (a tenth of ten pages or less), and swap_out() looks  *)
(* again; when no page has any it goes on looking.                         *)
Marked(v) ==
  {i \in Index \ {0} :
     i < sz[v] /\ \E q \in Users(pte[v][i].n) : pte[q][i].p /\ pte[q][i].a}

ClearAccessed(p) ==
  LET v == loc[p].victim
      i == Min(Marked(v)) IN
  /\ In(p, "victim") /\ Candidates(v) = {} /\ Marked(v) # {}
  /\ pte' = [q \in Proc |-> IF q \in Users(pte[v][i].n)
               THEN [pte[q] EXCEPT ![i].a = FALSE] ELSE pte[q]]
  /\ UNCHANGED <<state, sz, rss, rmap, free, mem, swap, cr3, pc, loc, panicked>>

(* Faulty: the page is not written to its slot.                            *)
EvictWriteLost(p) ==
  /\ In(p, "evict")
  /\ rmap' = [rmap EXCEPT ![loc[p].page] = {}]
  /\ cr3' = [cr3 EXCEPT ![p] = p]
  /\ Goto(p, loc[p].why)
  /\ UNCHANGED <<state, sz, rss, pte, free, mem, swap, loc, panicked>>

(* write_page_to_slot() and rmap_clear_addr(); the process slept, so the   *)
(* scheduler has restored its CR3.                                         *)
EvictWrite(p) ==
  /\ In(p, "evict")
  /\ slotdata' = [slotdata EXCEPT ![loc[p].out] = mem[loc[p].page]]
  /\ rmap' = [rmap EXCEPT ![loc[p].page] = {}]
  /\ cr3' = [cr3 EXCEPT ![p] = p]
  /\ Goto(p, loc[p].why)
  /\ UNCHANGED <<state, sz, rss, pte, free, mem, slotmap, slotfree, loc,
                 panicked>>

-----------------------------------------------------------------------------
(* What the new page was for.                                              *)

(* rmap_pgflt(): copy the page that was shared when the fault was taken.   *)
CopyPage(p) ==
  LET g == loc[p].page
      old == loc[p].pa IN
  /\ In(p, "cow")
  /\ mem' = [mem EXCEPT ![g] = mem[old]]
  /\ rmap' = LET r == [rmap EXCEPT ![old] = RmapRm(@, p)] IN
             [r EXCEPT ![g] = RmapAdd(@, p)]
  /\ pte' = [pte EXCEPT ![p][loc[p].i] = Resident(g, TRUE)]
  /\ cr3' = [cr3 EXCEPT ![p] = p]
  /\ Goto(p, "user")
  /\ loc' = [loc EXCEPT ![p] = NoLoc]
  /\ UNCHANGED <<state, sz, rss, free, swap, panicked>>

(* swap_in(): read the slot, sleeping unless its blocks are cached ...     *)
SwapRead(p) ==
  /\ In(p, "in")
  /\ mem' = [mem EXCEPT ![loc[p].page] = slotdata[loc[p].slot]]
  /\ cr3' \in {cr3, [cr3 EXCEPT ![p] = p]}
  /\ Goto(p, "map")
  /\ UNCHANGED <<state, sz, rss, pte, rmap, free, swap, loc, panicked>>

(* What CR3 is when swap_in() has loaded the directory of each user.       *)
LoadedLast(p, users) ==
  IF users = {} THEN {cr3} ELSE {[cr3 EXCEPT ![p] = q] : q \in users}

(* Faulty: the slot is not given back.                                     *)
SwapMapKeepsSlot(p) ==
  LET g == loc[p].page
      users == slotmap[loc[p].slot] IN
  /\ In(p, "map")
  /\ pte' = [q \in Proc |-> IF q \in users
               THEN [pte[q] EXCEPT ![loc[p].i] = Resident(g, TRUE)] ELSE pte[q]]
  /\ rss' = AddRss(users, 1)
  /\ rmap' = [rmap EXCEPT ![g] = @ \cup users]
  /\ cr3' \in LoadedLast(p, users)
  /\ Goto(p, "user")
  /\ loc' = [loc EXCEPT ![p] = NoLoc]
  /\ UNCHANGED <<state, sz, free, mem, swap, panicked>>

(* Faulty: the brought-in page is not added to the reverse map.            *)
SwapMapUnlisted(p) ==
  LET s == loc[p].slot
      users == slotmap[s] IN
  /\ In(p, "map")
  /\ pte' = [q \in Proc |-> IF q \in users
               THEN [pte[q] EXCEPT ![loc[p].i] = Resident(loc[p].page, TRUE)]
               ELSE pte[q]]
  /\ rss' = AddRss(users, 1)
  /\ cr3' \in LoadedLast(p, users)
  /\ slotfree' = [slotfree EXCEPT ![s] = TRUE]
  /\ slotmap' = [slotmap EXCEPT ![s] = {}]
  /\ Goto(p, "user")
  /\ loc' = [loc EXCEPT ![p] = NoLoc]
  /\ UNCHANGED <<state, sz, rmap, free, mem, slotdata, panicked>>

(* ... then give the page, with the permissions saved in the slot (P|W|U), *)
(* to every process listed in it, loading each one's table into CR3.       *)
SwapMap(p) ==
  LET g == loc[p].page
      s == loc[p].slot
      users == slotmap[s] IN
  /\ In(p, "map")
  /\ pte' = [q \in Proc |-> IF q \in users
               THEN [pte[q] EXCEPT ![loc[p].i] = Resident(g, TRUE)] ELSE pte[q]]
  /\ rss' = AddRss(users, 1)
  /\ rmap' = [rmap EXCEPT ![g] = @ \cup users]
  /\ cr3' \in LoadedLast(p, users)
  /\ slotfree' = [slotfree EXCEPT ![s] = TRUE]
  /\ slotmap' = [slotmap EXCEPT ![s] = {}]
  /\ Goto(p, "user")
  /\ loc' = [loc EXCEPT ![p] = NoLoc]
  /\ UNCHANGED <<state, sz, free, mem, slotdata, panicked>>

(* growproc(PGSIZE): allocuvm() of one page, then switchuvm().             *)
Grow(p) ==
  /\ User(p) /\ sz[p] < MaxPages
  /\ Goto(p, "alloc")
  /\ loc' = [loc EXCEPT ![p] = [NoLoc EXCEPT !.why = "grow", !.i = sz[p]]]
  /\ UNCHANGED <<state, sz, rss, pte, rmap, free, mem, swap, cr3, panicked>>

GrowMap(p) ==
  LET g == loc[p].page IN
  /\ In(p, "grow")
  /\ mem' = [mem EXCEPT ![g] = Zero]
  /\ pte' = [pte EXCEPT ![p][loc[p].i] = Resident(g, TRUE)]
  /\ rmap' = [rmap EXCEPT ![g] = RmapAdd(@, p)]
  /\ sz' = [sz EXCEPT ![p] = @ + 1]
  /\ rss' = AddRss({p}, 1)
  /\ cr3' = [cr3 EXCEPT ![p] = p]
  /\ Goto(p, "user")
  /\ loc' = [loc EXCEPT ![p] = NoLoc]
  /\ UNCHANGED <<state, free, swap, panicked>>

-----------------------------------------------------------------------------
(* fork(), exit() and wait()                                               *)

(* copyuvm() panics when a page of the parent is not present.              *)
Fork(p, c) ==
  LET inside == {i \in Index : i < sz[p]}
      absent == \E i \in inside : ~pte[p][i].p
      shared == [i \in Index |-> IF i \in inside
                   THEN [pte[p][i] EXCEPT !.w = FALSE] ELSE pte[p][i]]
      copied == [i \in Index |-> IF i \in inside THEN shared[i] ELSE Zeroed] IN
  /\ User(p) /\ state[c] = "unused"
  /\ panicked' = absent
  /\ IF absent
       THEN UNCHANGED <<state, sz, rss, pte, rmap, cr3>>
       ELSE /\ pte' = [pte EXCEPT ![p] = shared, ![c] = copied]
            /\ rmap' = [g \in Page |->
                 IF \E i \in inside : pte[p][i].n = g THEN RmapAdd(rmap[g], c)
                 ELSE rmap[g]]
            /\ state' = [state EXCEPT ![c] = "running"]
            /\ sz' = [sz EXCEPT ![c] = sz[p]]
            /\ rss' = [rss EXCEPT ![c] = rss[p]]
            /\ cr3' = [cr3 EXCEPT ![p] = p, ![c] = c]
  /\ UNCHANGED <<free, mem, swap, pc, loc>>

(* Faulty: exit() frees slots that others still need.                      *)
ExitFreesShared(p) ==
  LET leaves == {pte[p][i].n : i \in {j \in Index \ {0} :
                   j < sz[p] /\ ~pte[p][j].p /\ pte[p][j].n # 0}} IN
  /\ User(p) /\ p # First
  /\ state' = [state EXCEPT ![p] = "zombie"]
  /\ slotmap' = [s \in Slot |-> IF s \in leaves
                                THEN RmapRm(slotmap[s], p) ELSE slotmap[s]]
  /\ slotfree' = [s \in Slot |-> slotfree[s] \/ s \in leaves]
  /\ UNCHANGED <<sz, rss, pte, rmap, free, mem, slotdata, cr3, pc, loc,
                 panicked>>

(* exit(): clear_swap_slots() leaves the slots the process shares, except  *)
(* that an entry of zero is taken for an unmapped page.                    *)
Exit(p) ==
  LET leaves == {pte[p][i].n : i \in {j \in Index \ {0} :
                   j < sz[p] /\ ~pte[p][j].p /\ pte[p][j].n # 0}}
      left == [s \in Slot |-> IF s \in leaves
                                THEN RmapRm(slotmap[s], p) ELSE slotmap[s]] IN
  /\ User(p) /\ p # First
  /\ state' = [state EXCEPT ![p] = "zombie"]
  /\ slotmap' = left
  /\ slotfree' = [s \in Slot |->
                    slotfree[s] \/ (s \in leaves /\ left[s] = {})]
  /\ UNCHANGED <<sz, rss, pte, rmap, free, mem, slotdata, cr3, pc, loc,
                 panicked>>

(* wait(): freevm() of a zombie; deallocuvm() visits the present entries.  *)
(* Which process waits for it makes no difference here.                    *)
Reap(p, c) ==
  LET mapped == {pte[c][i].n : i \in {j \in Index : pte[c][j].p}}
      left == [g \in Page |-> IF g \in mapped THEN RmapRm(rmap[g], c)
                              ELSE rmap[g]] IN
  /\ User(p) /\ state[c] = "zombie"
  /\ rmap' = left
  /\ free' = free \cup {g \in mapped : left[g] = {}}
  /\ pte' = [pte EXCEPT ![c] = [i \in Index |-> Zeroed]]
  /\ state' = [state EXCEPT ![c] = "unused"]
  /\ sz' = [sz EXCEPT ![c] = 0]
  /\ UNCHANGED <<rss, mem, swap, cr3, pc, loc, panicked>>

-----------------------------------------------------------------------------

Kernel(p) ==
  \/ \E g \in Page : TakeFree(p, g)
  \/ \E v \in Proc : SwapOut(p, v)
  \/ Evict(p) \/ ClearAccessed(p) \/ EvictWrite(p) \/ CopyPage(p) \/ SwapRead(p) \/ SwapMap(p) \/ GrowMap(p)

Next ==
  \/ \E p \in Proc : Kernel(p) \/ Grow(p) \/ Exit(p) \/ Reschedule(p)
  \/ \E p, c \in Proc : Fork(p, c) \/ Reap(p, c)
  \/ \E p \in Proc, i \in Index : Read(p, i) \/ Fault(p, i)
  \/ \E p \in Proc, i \in Index, v \in Val : Write(p, i, v)

Spec == Init /\ [][Next]_vars

(* A process in the kernel runs on and the timer reschedules every one.    *)
LiveSpec ==
  Spec /\ \A p \in Proc : WF_vars(Kernel(p)) /\ WF_vars(Reschedule(p))

-----------------------------------------------------------------------------
(* The state of every variable.                                            *)
TypeOK ==
  /\ state \in [Proc -> {"unused", "running", "zombie"}]
  /\ sz \in [Proc -> 0 .. MaxPages]
  /\ rss \in [Proc -> 0 .. RssMod - 1]
  /\ pte \in [Proc -> [Index -> Entry]]
  /\ rmap \in [Page -> SUBSET Proc]
  /\ free \subseteq Page
  /\ mem \in [Page -> Val]
  /\ slotmap \in [Slot -> SUBSET Proc]
  /\ slotfree \in [Slot -> BOOLEAN]
  /\ slotdata \in [Slot -> Val]
  /\ cr3 \in [Proc -> Proc]
  /\ pc \in [Proc -> {"user", "alloc", "victim", "evict", "cow", "in", "map",
                      "grow"}]
  /\ loc \in [Proc -> [why : {"none", "cow", "in", "grow"}, i : Index,
                       pa : Page \cup {0}, page : Page \cup {0},
                       slot : Slot, out : Slot, victim : Proc \cup {NoProc}]]
  /\ panicked \in BOOLEAN

Mappers(g) == {q \in Proc : \E i \in Index : pte[q][i].p /\ pte[q][i].n = g}
Holders(s) == {q \in Proc : /\ state[q] = "running"
                            /\ \E i \in 1 .. sz[q] - 1 : pte[q][i] = Swapped(s)}
InHand(g) == {p \in Proc : loc[p].page = g}
Evicting(g) == \E p \in InHand(g) : pc[p] = "evict"

(* A page is on the free list, or in the hands of one process in kalloc()  *)
(* or between kalloc() and the new mapping, or mapped: kalloc() and        *)
(* swap_out() never give away a page that somebody can still reach.        *)
PageHasOneRole ==
  \A g \in Page :
    /\ Cardinality(InHand(g)) <= 1
    /\ InHand(g) # {} => g \notin free /\ Mappers(g) = {}
    /\ Mappers(g) # {} => g \notin free

(* Every process that maps a page is in its reverse map, and every process *)
(* whose entry names a slot is in that slot's: swap_out() redirects, and   *)
(* swap_in() restores, all of them.                                        *)
EveryUserListed ==
  /\ \A g \in Page : Mappers(g) \subseteq Users(g)
  /\ \A s \in Slot \ {0} : Holders(s) \subseteq slotmap[s]

(* A slot some process still needs is not handed out again, whoever else   *)
(* exits or swaps in.                                                      *)
SlotKept == \A s \in Slot : Holders(s) # {} => ~slotfree[s]

(* A page a running process may write is mapped by no other running        *)
(* process.                                                                *)
Alive == {p \in Proc : state[p] = "running"}

WritableIsExclusive ==
  \A p \in Alive, i \in Index :
    pte[p][i].p /\ pte[p][i].w => Mappers(pte[p][i].n) \cap Alive = {p}

(* No page is mapped into an address space that wait() has freed.          *)
NoMappingAfterFree ==
  \A p \in Proc, i \in Index : state[p] = "unused" => ~pte[p][i].p

(* swap_in() reads a slot only after swap_out() has written it.            *)
ReadsWrittenSlot ==
  \A p, q \in Proc :
    ~(pc[p] = "map" /\ pc[q] = "evict" /\ loc[q].out = loc[p].slot)

(* The kernel's memory management never panics.                            *)
NoPanic == ~panicked

(* A user program does not run on the page table of another process.       *)
RunsOnOwnTable == \A p \in Proc : User(p) => cr3[p] = p \/ cr3[p] \notin Alive

Evicter(s) == {p \in Proc : pc[p] = "evict" /\ loc[p].out = s}
(* What process q sees at page i: memory, the slot, or the page on its way *)
(* to the slot.                                                            *)
Content(q, i) ==
  LET e == pte[q][i] IN
  IF e.p THEN mem[e.n]
  ELSE IF Evicter(e.n) # {}
         THEN mem[loc[CHOOSE p \in Evicter(e.n) : TRUE].page]
         ELSE slotdata[e.n]

(* The page a write fault copies still has the contents of the faulting    *)
(* address when kalloc() has returned.                                     *)
CopiesOwnPage ==
  \A p \in Proc : pc[p] = "cow" => mem[loc[p].pa] = Content(p, loc[p].i)

(* What every process sees of its address space.                           *)
Image == [p \in Proc |-> IF state[p] = "running" THEN [i \in 1 .. sz[p] |-> Content(p, i - 1)]
                         ELSE <<>>]
InUser == [p \in Proc |-> pc[p] = "user"]

(* kalloc() finds a page.                                                  *)
AllocReturns == \A p \in Proc : pc[p] = "victim" ~> pc[p] # "victim"
=============================================================================
