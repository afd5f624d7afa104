-------------------------- MODULE SwapMemoryProofs --------------------------
(***************************************************************************)
(* Page swapping never gives away a page somebody can reach, lists every    *)
(* user of a page or slot and frees no slot somebody needs, when page       *)
(* faults and sbrk() come one at a time and no slot in use has the number   *)
(* of a page; and a process that never forks cannot tell that its pages go  *)
(* to the disk and come back.                                               *)
(***************************************************************************)
EXTENDS SwapAlone, Sequences, FiniteSetTheorems, WellFoundedInduction, TLAPS

(* Page faults and sbrk() come one at a time: nobody else is in one while a  *)
(* process sleeps for the disk.                                             *)
OneInKernel == \A p, q \in Proc : pc[p] # "user" /\ pc[q] # "user" => p = q

(* get_victim_page() takes the number in an absent entry for a page.  The    *)
(* slots whose numbers are those of pages (the last of NSWAP, when the kernel *)
(* is small) are not in use.                                                *)
SlotsAreNoPages == \A s \in Slot : s \in Page => slotfree[s]

Orderly == OneInKernel /\ SlotsAreNoPages

-----------------------------------------------------------------------------
(* All mappings of a page are at the same address.                          *)
OnePlace ==
  \A q, r \in Proc, i, j \in Index :
    pte[q][i].p /\ pte[r][j].p /\ pte[q][i].n = pte[r][j].n => i = j

Listed == \A q \in Proc, i \in Index : pte[q][i].p => q \in rmap[pte[q][i].n]

Unmapped(g) == \A q \in Proc, i \in Index : ~(pte[q][i].p /\ pte[q][i].n = g)

FreeInv == \A g \in free : Unmapped(g)
HandInv == \A p \in Proc : loc[p].page \in Page => loc[p].page \notin free /\ Unmapped(loc[p].page)

(* The entry of q at i is that of a page in slot s.                         *)
Holds(q, i, s) == state[q] = "running" /\ i < sz[q] /\ ~pte[q][i].p /\ pte[q][i].n = s

HeldInv ==
  \A q \in Proc, i \in Index, s \in Slot :
    Holds(q, i, s) => i > 0 /\ ~slotfree[s] /\ q \in slotmap[s]
OneSlotPlace ==
  \A q, r \in Proc, i, j \in Index, s \in Slot : Holds(q, i, s) /\ Holds(r, j, s) => i = j

NumberInv == \A q \in Proc, i \in Index : ~pte[q][i].p => pte[q][i].n \notin Page

(* What a process in the kernel came for.                                   *)
CowInv(p) ==
  loc[p].why = "cow" =>
    /\ loc[p].pa \in Page
    /\ \A j \in Index : pte[p][j].p /\ pte[p][j].n = loc[p].pa => j = loc[p].i
InInv(p) ==
  loc[p].why = "in" =>
    /\ ~slotfree[loc[p].slot] /\ p \in slotmap[loc[p].slot]
    /\ \A r \in Proc, j \in Index : Holds(r, j, loc[p].slot) => j = loc[p].i
PlaceInv(p) ==
  /\ pc[p] = "user" => loc[p].page = 0 /\ loc[p].why = "none"
  /\ pc[p] # "user" => state[p] = "running" /\ loc[p].why # "none"
  /\ pc[p] \in {"alloc", "victim"} => loc[p].page = 0
  /\ pc[p] = "victim" => loc[p].victim \in Proc
  /\ pc[p] \in {"evict", "cow", "in", "map", "grow"} => loc[p].page \in Page
  /\ pc[p] \in {"cow", "in", "grow"} => loc[p].why = pc[p]
  /\ pc[p] = "map" => loc[p].why = "in"
  /\ loc[p].why = "grow" => loc[p].i = sz[p]

LocInv == \A p \in Proc : CowInv(p) /\ InInv(p) /\ PlaceInv(p)
PageInv == OnePlace /\ Listed /\ FreeInv /\ HandInv /\ NumberInv
SlotInv == HeldInv /\ OneSlotPlace
Inv == TypeOK /\ PageInv /\ SlotInv /\ LocInv

-----------------------------------------------------------------------------
LEMMA Constants ==
  /\ 0 \notin Page /\ Page \subseteq Nat /\ FirstPage \in Page /\ 0 \in Index /\ 0 \in Slot
  /\ Index \subseteq Nat /\ Slot \subseteq Nat /\ First \in Proc /\ NoProc \notin Proc
  /\ MaxPages \in Nat /\ \A k \in Nat : k < MaxPages <=> k \in Index
BY SwapAssumption DEF Page, Index, Slot

LEMMA ResidentEntry ==
  ASSUME NEW g \in Page, NEW w \in BOOLEAN
  PROVE  /\ Resident(g, w) \in Entry
         /\ Resident(g, w).p = TRUE /\ Resident(g, w).n = g /\ Resident(g, w).w = w
BY DEF Resident, Entry

LEMMA SwappedEntry ==
  ASSUME NEW s \in Slot
  PROVE  /\ Swapped(s) \in Entry
         /\ Swapped(s).p = FALSE /\ Swapped(s).n = s
BY DEF Swapped, Entry

LEMMA EntryKinds ==
  ASSUME NEW e \in Entry
  PROVE  \/ e \in [p : {TRUE}, n : Page, w : BOOLEAN, a : BOOLEAN]
         \/ \E s \in Slot : e = Swapped(s)
BY Zenon DEF Entry

LEMMA EntryFields ==
  ASSUME NEW e \in Entry
  PROVE  /\ e.p \in BOOLEAN /\ e.w \in BOOLEAN /\ e.a \in BOOLEAN
         /\ e.p => e.n \in Page
         /\ ~e.p => e.n \in Slot
         /\ \A s \in Slot : e = Swapped(s) <=> ~e.p /\ e.n = s
<1>1. CASE e \in [p : {TRUE}, n : Page, w : BOOLEAN, a : BOOLEAN]
  <2>1. e.p = TRUE /\ e.n \in Page /\ e.w \in BOOLEAN /\ e.a \in BOOLEAN
    BY <1>1
  <2>2. \A s \in Slot : e # Swapped(s)
    BY <2>1 DEF Swapped
  <2> QED
    BY <2>1, <2>2
<1>2. CASE \E s \in Slot : e = Swapped(s)
  <2>1. PICK s \in Slot : e = Swapped(s)
    BY <1>2
  <2>2. e.p = FALSE /\ e.n = s /\ e.w = FALSE /\ e.a = FALSE
    BY <2>1 DEF Swapped
  <2>3. \A t \in Slot : e = Swapped(t) <=> t = s
    BY <2>1 DEF Swapped
  <2> QED
    BY <2>2, <2>3
<1> QED
  BY <1>1, <1>2, EntryKinds

(* The accessed bit and the write bit of an entry.                          *)
LEMMA EntryBits ==
  ASSUME NEW e \in Entry, NEW b \in BOOLEAN
  PROVE  /\ e.p \/ ~b => [e EXCEPT !.a = b] \in Entry
         /\ e.p \/ ~b => [e EXCEPT !.w = b] \in Entry
         /\ [e EXCEPT !.a = b].p = e.p /\ [e EXCEPT !.a = b].n = e.n
         /\ [e EXCEPT !.w = b].p = e.p /\ [e EXCEPT !.w = b].n = e.n
<1>1. CASE e \in [p : {TRUE}, n : Page, w : BOOLEAN, a : BOOLEAN]
  <2>1. /\ [e EXCEPT !.a = b] \in [p : {TRUE}, n : Page, w : BOOLEAN, a : BOOLEAN]
        /\ [e EXCEPT !.w = b] \in [p : {TRUE}, n : Page, w : BOOLEAN, a : BOOLEAN]
    BY <1>1
  <2>2. /\ [e EXCEPT !.a = b].p = e.p /\ [e EXCEPT !.a = b].n = e.n
        /\ [e EXCEPT !.w = b].p = e.p /\ [e EXCEPT !.w = b].n = e.n
    BY <1>1
  <2> QED
    BY <2>1, <2>2, Zenon DEF Entry
<1>2. CASE \E s \in Slot : e = Swapped(s)
  <2>1. PICK s \in Slot : e = Swapped(s)
    BY <1>2
  <2>2. e.p = FALSE
    BY <2>1 DEF Swapped
  <2>3. ASSUME ~b PROVE [e EXCEPT !.a = b] = e /\ [e EXCEPT !.w = b] = e
    <3>1. b = FALSE
      BY <2>3
    <3>2. e.a = FALSE /\ e.w = FALSE /\ DOMAIN e = {"p", "n", "w", "a"} /\ e = [x \in DOMAIN e |-> e[x]]
      BY <2>1 DEF Swapped
    <3> QED
      BY <3>1, <3>2
  <2>4. /\ [e EXCEPT !.a = b].p = e.p /\ [e EXCEPT !.a = b].n = e.n
        /\ [e EXCEPT !.w = b].p = e.p /\ [e EXCEPT !.w = b].n = e.n
    BY <2>1 DEF Swapped
  <2> QED
    BY <2>2, <2>3, <2>4
<1> QED
  BY <1>1, <1>2, EntryKinds

LEMMA PteFacts ==
  ASSUME TypeOK, NEW q \in Proc, NEW i \in Index
  PROVE  /\ pte[q] \in [Index -> Entry] /\ pte[q][i] \in Entry
         /\ pte[q][i].p \in BOOLEAN
         /\ pte[q][i].p => pte[q][i].n \in Page
         /\ ~pte[q][i].p => pte[q][i].n \in Slot
BY EntryFields DEF TypeOK

LocRecord == [why : {"none", "cow", "in", "grow"}, i : Index,
              pa : Page \cup {0}, page : Page \cup {0},
              slot : Slot, out : Slot, victim : Proc \cup {NoProc}]

LEMMA NoLocType ==
  NoLoc \in LocRecord /\ NoLoc.page = 0 /\ NoLoc.why = "none"
BY Constants DEF NoLoc, LocRecord

LEMMA LocType ==
  ASSUME TypeOK, NEW p \in Proc
  PROVE  /\ loc \in [Proc -> LocRecord] /\ loc[p] \in LocRecord
         /\ loc[p].i \in Index /\ loc[p].pa \in Page \cup {0} /\ loc[p].page \in Page \cup {0}
         /\ loc[p].slot \in Slot /\ loc[p].out \in Slot
BY DEF TypeOK, LocRecord

-----------------------------------------------------------------------------
(* Steps that move no page.                                                 *)
SameView == \A q \in Proc, i \in Index : pte'[q][i].p = pte[q][i].p /\ pte'[q][i].n = pte[q][i].n

LEMMA FramePages ==
  ASSUME PageInv, SameView, UNCHANGED <<rmap, free>>, \A p \in Proc : loc'[p].page = loc[p].page
  PROVE  PageInv'
BY DEF PageInv, OnePlace, Listed, FreeInv, HandInv, NumberInv, Unmapped, SameView

LEMMA FrameSlots ==
  ASSUME SlotInv, SameView, UNCHANGED <<state, sz, slotmap, slotfree>>
  PROVE  SlotInv'
BY DEF SlotInv, HeldInv, OneSlotPlace, Holds, SameView

LEMMA FrameLoc ==
  ASSUME NEW p \in Proc, CowInv(p), InInv(p), SameView, UNCHANGED <<state, sz, slotmap, slotfree>>,
         loc'[p].why = loc[p].why, loc'[p].pa = loc[p].pa, loc'[p].i = loc[p].i, loc'[p].slot = loc[p].slot
  PROVE  CowInv(p)' /\ InInv(p)'
BY DEF CowInv, InInv, Holds, SameView

(* A process outside the kernel has no page in hand.                        *)
LEMMA Idle ==
  ASSUME NEW p \in Proc, pc'[p] = "user", loc'[p].page = 0, loc'[p].why = "none"
  PROVE  CowInv(p)' /\ InInv(p)' /\ PlaceInv(p)'
BY DEF CowInv, InInv, PlaceInv

(* Nobody but p is in the kernel: what p does there changes nothing for the  *)
(* others.                                                                  *)
LEMMA OthersIdle ==
  ASSUME LocInv, OneInKernel, NEW p \in Proc, pc[p] # "user", NEW q \in Proc, q # p,
         loc'[q] = loc[q], pc'[q] = pc[q]
  PROVE  /\ loc[q].page = 0 /\ pc[q] = "user"
         /\ CowInv(q)' /\ InInv(q)' /\ PlaceInv(q)'
<1>1. pc[q] = "user"
  BY DEF OneInKernel
<1>2. loc[q].page = 0 /\ loc[q].why = "none"
  BY <1>1 DEF LocInv, PlaceInv
<1> QED
  BY <1>1, <1>2, Idle

LEMMA InitInv == Init => Inv
<1> SUFFICES ASSUME Init PROVE Inv
  OBVIOUS
<1>1. /\ Resident(FirstPage, TRUE) \in Entry /\ Resident(FirstPage, TRUE).p = TRUE
      /\ Resident(FirstPage, TRUE).n = FirstPage
      /\ Zeroed \in Entry /\ Zeroed.p = FALSE /\ Zeroed.n = 0
  BY Constants, ResidentEntry, SwappedEntry DEF Zeroed
<1>2. \A q \in Proc, i \in Index : pte[q][i] = IF q = First /\ i = 0 THEN Resident(FirstPage, TRUE) ELSE Zeroed
  BY DEF Init
<1>3. \A q \in Proc : pc[q] = "user" /\ loc[q] = NoLoc
  BY DEF Init
<1>4. TypeOK
  <2>1. pte \in [Proc -> [Index -> Entry]]
    BY <1>1 DEF Init
  <2>2. /\ sz \in [Proc -> 0 .. MaxPages] /\ rss \in [Proc -> 0 .. RssMod - 1]
        /\ state \in [Proc -> {"unused", "running", "zombie"}]
    BY SwapAssumption DEF Init
  <2>3. loc \in [Proc -> LocRecord]
    BY NoLocType DEF Init
  <2>4. /\ rmap \in [Page -> SUBSET Proc] /\ free \subseteq Page /\ mem \in [Page -> Val]
        /\ slotmap \in [Slot -> SUBSET Proc] /\ slotfree \in [Slot -> BOOLEAN] /\ slotdata \in [Slot -> Val]
        /\ cr3 \in [Proc -> Proc] /\ panicked \in BOOLEAN
    BY SwapAssumption DEF Init
  <2>5. pc \in [Proc -> {"user", "alloc", "victim", "evict", "cow", "in", "map", "grow"}]
    BY DEF Init
  <2> QED
    BY <2>1, <2>2, <2>3, <2>4, <2>5 DEF TypeOK, LocRecord
<1>5. PageInv
  <2>1. OnePlace /\ NumberInv
    BY <1>1, <1>2, Constants DEF OnePlace, NumberInv
  <2>2. Listed
    BY <1>1, <1>2, Constants DEF Init, Listed
  <2>3. FreeInv
    BY <1>1, <1>2 DEF Init, FreeInv, Unmapped
  <2>4. HandInv
    BY <1>3, NoLocType, Constants DEF HandInv
  <2> QED
    BY <2>1, <2>2, <2>3, <2>4 DEF PageInv
<1>6. SlotInv
  <2>1. \A q \in Proc, i \in Index, s \in Slot : ~Holds(q, i, s)
    <3> SUFFICES ASSUME NEW q \in Proc, NEW i \in Index, NEW s \in Slot, Holds(q, i, s) PROVE FALSE
      OBVIOUS
    <3>1. q = First /\ i < 1
      BY DEF Holds, Init
    <3>2. i = 0
      BY <3>1, Constants
    <3> QED
      BY <3>1, <3>2, <1>1, <1>2 DEF Holds
  <2> QED
    BY <2>1 DEF SlotInv, HeldInv, OneSlotPlace
<1>7. LocInv
  BY <1>3, NoLocType DEF LocInv, CowInv, InInv, PlaceInv
<1> QED
  BY <1>4, <1>5, <1>6, <1>7 DEF Inv

-----------------------------------------------------------------------------
(* A step that changes neither who uses what nor where a process is.         *)
LEMMA Quiet ==
  ASSUME Inv, TypeOK', SameView, UNCHANGED <<state, sz, rmap, free, slotmap, slotfree, pc, loc>>
  PROVE  Inv'
<1>1. PageInv'
  BY FramePages DEF Inv
<1>2. SlotInv'
  BY FrameSlots DEF Inv
<1>3. LocInv'
  <2> SUFFICES ASSUME NEW p \in Proc PROVE CowInv(p)' /\ InInv(p)' /\ PlaceInv(p)'
    BY DEF LocInv
  <2>1. CowInv(p)' /\ InInv(p)'
    BY FrameLoc DEF Inv, LocInv
  <2>2. PlaceInv(p)'
    BY DEF Inv, LocInv, PlaceInv
  <2> QED
    BY <2>1, <2>2
<1> QED
  BY <1>1, <1>2, <1>3 DEF Inv

(* One bit of one entry changes.                                            *)
LEMMA OneEntry ==
  ASSUME TypeOK, NEW d \in Proc, NEW i \in Index, NEW e \in Entry,
         e.p = pte[d][i].p, e.n = pte[d][i].n, pte' = [pte EXCEPT ![d][i] = e]
  PROVE  pte' \in [Proc -> [Index -> Entry]] /\ SameView
BY DEF TypeOK, SameView

LEMMA ReadInv ==
  ASSUME Inv, NEW p \in Proc, NEW i \in Index, Read(p, i)
  PROVE  Inv'
<1>1. PICK d \in Proc : d = cr3[p]
  BY DEF Inv, TypeOK
<1>2. pte[d][i] \in Entry /\ pte[d][i].p
  BY <1>1, PteFacts DEF Inv, Read
<1>3. PICK e \in Entry : e = [pte[d][i] EXCEPT !.a = TRUE] /\ e.p = pte[d][i].p /\ e.n = pte[d][i].n
  BY <1>2, EntryBits
<1>4. pte' = [pte EXCEPT ![d][i] = e]
  BY <1>1, <1>3 DEF Read
<1>5. pte' \in [Proc -> [Index -> Entry]] /\ SameView
  BY <1>3, <1>4, OneEntry DEF Inv
<1>6. TypeOK'
  BY <1>5 DEF Inv, TypeOK, Read, swap
<1> QED
  BY <1>5, <1>6, Quiet DEF Read, swap

LEMMA WriteInv ==
  ASSUME Inv, NEW p \in Proc, NEW i \in Index, NEW v \in Val, Write(p, i, v)
  PROVE  Inv'
<1>1. PICK d \in Proc : d = cr3[p]
  BY DEF Inv, TypeOK
<1>2. pte[d][i] \in Entry /\ pte[d][i].p /\ pte[d][i].n \in Page
  BY <1>1, PteFacts DEF Inv, Write
<1>3. PICK e \in Entry : e = [pte[d][i] EXCEPT !.a = TRUE] /\ e.p = pte[d][i].p /\ e.n = pte[d][i].n
  BY <1>2, EntryBits
<1>4. pte' = [pte EXCEPT ![d][i] = e]
  BY <1>1, <1>3 DEF Write
<1>5. pte' \in [Proc -> [Index -> Entry]] /\ SameView
  BY <1>3, <1>4, OneEntry DEF Inv
<1>6. mem' \in [Page -> Val]
  BY <1>1, <1>2 DEF Inv, TypeOK, Write
<1>7. TypeOK'
  BY <1>5, <1>6 DEF Inv, TypeOK, Write, swap
<1> QED
  BY <1>5, <1>7, Quiet DEF Write, swap

LEMMA RescheduleInv ==
  ASSUME Inv, NEW p \in Proc, Reschedule(p)
  PROVE  Inv'
<1>1. TypeOK'
  BY DEF Inv, TypeOK, Reschedule, swap
<1>2. SameView
  BY DEF SameView, Reschedule
<1> QED
  BY <1>1, <1>2, Quiet DEF Reschedule, swap

LEMMA ClearAccessedView ==
  ASSUME Inv, NEW p \in Proc, ClearAccessed(p)
  PROVE  pte' \in [Proc -> [Index -> Entry]] /\ SameView
<1> DEFINE v == loc[p].victim
           i == Min(Marked(v))
           users == Users(pte[v][i].n)
<1>1. \A q \in Proc : pte'[q] = IF q \in users THEN [pte[q] EXCEPT ![i].a = FALSE] ELSE pte[q]
  BY DEF ClearAccessed
<1>2. ASSUME NEW q \in Proc
      PROVE  /\ pte'[q] \in [Index -> Entry]
             /\ \A j \in Index : pte'[q][j].p = pte[q][j].p /\ pte'[q][j].n = pte[q][j].n
  <2> HIDE DEF i, users
  <2>1. pte[q] \in [Index -> Entry]
    BY DEF Inv, TypeOK
  <2>2. CASE q \notin users \/ i \notin Index
    <3>1. pte'[q] = pte[q]
      BY <1>1, <2>1, <2>2
    <3> QED
      BY <2>1, <3>1
  <2>3. CASE q \in users /\ i \in Index
    <3>1. PICK e \in Entry : e = [pte[q][i] EXCEPT !.a = FALSE] /\ e.p = pte[q][i].p /\ e.n = pte[q][i].n
      BY <2>1, <2>3, EntryBits
    <3>2. pte'[q] = [pte[q] EXCEPT ![i] = e]
      BY <1>1, <2>3, <3>1
    <3> QED
      BY <2>1, <3>1, <3>2
  <2> QED
    BY <2>2, <2>3
<1>3. pte' = [q \in Proc |-> pte'[q]]
  BY DEF ClearAccessed
<1> QED
  BY <1>2, <1>3 DEF SameView

LEMMA ClearAccessedInv ==
  ASSUME Inv, NEW p \in Proc, ClearAccessed(p)
  PROVE  Inv'
<1>1. pte' \in [Proc -> [Index -> Entry]] /\ SameView
  BY ClearAccessedView
<1>2. TypeOK'
  BY <1>1 DEF Inv, TypeOK, ClearAccessed, swap
<1> QED
  BY <1>1, <1>2, Quiet DEF ClearAccessed, swap

-----------------------------------------------------------------------------
(* Inside kalloc() and swap_out().                                          *)
LEMMA SwapOutInv ==
  ASSUME Inv, Orderly, NEW p \in Proc, NEW v \in Proc, SwapOut(p, v)
  PROVE  Inv'
<1>1. loc[p] \in LocRecord /\ loc \in [Proc -> LocRecord]
  BY LocType DEF Inv
<1>2. loc' = [loc EXCEPT ![p] = [loc[p] EXCEPT !.victim = v]]
  BY <1>1 DEF SwapOut
<1>3. /\ loc' \in [Proc -> LocRecord]
      /\ loc'[p].page = loc[p].page /\ loc'[p].why = loc[p].why /\ loc'[p].i = loc[p].i
      /\ loc'[p].pa = loc[p].pa /\ loc'[p].slot = loc[p].slot /\ loc'[p].victim = v
  BY <1>1, <1>2 DEF LocRecord
<1>4. pc' = [pc EXCEPT ![p] = "victim"] /\ pc[p] = "alloc"
  BY DEF SwapOut, Goto, In
<1>5. \A q \in Proc : q # p => loc'[q] = loc[q] /\ pc'[q] = pc[q]
  BY <1>1, <1>2, <1>4
<1>6. TypeOK'
  BY <1>3, <1>4 DEF Inv, TypeOK, LocRecord, SwapOut, swap
<1>7. SameView
  BY DEF SameView, SwapOut
<1>8. PageInv'
  BY <1>3, <1>5, <1>7, FramePages DEF Inv, SwapOut
<1>9. SlotInv'
  BY <1>7, FrameSlots DEF Inv, SwapOut, swap
<1>10. LocInv'
  <2> SUFFICES ASSUME NEW q \in Proc PROVE CowInv(q)' /\ InInv(q)' /\ PlaceInv(q)'
    BY DEF LocInv
  <2>1. CASE q = p
    <3>1. CowInv(q)' /\ InInv(q)'
      BY <1>3, <1>7, <2>1, FrameLoc DEF Inv, LocInv, SwapOut, swap
    <3>2. pc'[p] = "victim"
      BY <1>4 DEF Inv, TypeOK
    <3>3. PlaceInv(q)'
      BY <1>3, <1>4, <2>1, <3>2 DEF Inv, LocInv, PlaceInv, SwapOut
    <3> QED
      BY <3>1, <3>3
  <2>2. CASE q # p
    BY <1>4, <1>5, <2>2, OthersIdle DEF Inv, Orderly
  <2> QED
    BY <2>1, <2>2
<1> QED
  BY <1>6, <1>8, <1>9, <1>10 DEF Inv

LEMMA TakeFreeInv ==
  ASSUME Inv, Orderly, NEW p \in Proc, NEW g \in Page, TakeFree(p, g)
  PROVE  Inv'
<1>1. loc[p] \in LocRecord /\ loc \in [Proc -> LocRecord]
  BY LocType DEF Inv
<1>2. loc' = [loc EXCEPT ![p] = [loc[p] EXCEPT !.page = g]]
  BY <1>1 DEF TakeFree
<1>3. /\ loc' \in [Proc -> LocRecord]
      /\ loc'[p].page = g /\ loc'[p].why = loc[p].why /\ loc'[p].i = loc[p].i
      /\ loc'[p].pa = loc[p].pa /\ loc'[p].slot = loc[p].slot
  BY <1>1, <1>2 DEF LocRecord
<1>4. /\ pc[p] = "alloc" /\ PlaceInv(p)
      /\ loc[p].why \in {"cow", "in", "grow"}
  BY <1>1 DEF TakeFree, In, Inv, LocInv, PlaceInv, LocRecord
<1>5. pc' = [pc EXCEPT ![p] = loc[p].why] /\ pc'[p] = loc[p].why
  BY DEF TakeFree, Goto, Inv, TypeOK
<1>6. \A q \in Proc : q # p => loc'[q] = loc[q] /\ pc'[q] = pc[q]
  BY <1>1, <1>2, <1>5
<1>7. TypeOK'
  BY <1>3, <1>4, <1>5 DEF Inv, TypeOK, LocRecord, TakeFree, swap
<1>8. SameView
  BY DEF SameView, TakeFree
<1>9. PageInv'
  <2>1. OnePlace' /\ Listed' /\ NumberInv'
    BY <1>8 DEF Inv, PageInv, OnePlace, Listed, NumberInv, SameView, TakeFree
  <2>2. free' = free \ {g} /\ g \in free
    BY DEF TakeFree
  <2>3. \A h : Unmapped(h) => Unmapped(h)'
    BY <1>8 DEF Unmapped, SameView
  <2>4. FreeInv'
    BY <2>2, <2>3 DEF Inv, PageInv, FreeInv
  <2>5. HandInv'
    <3>1. g \notin free' /\ Unmapped(g)'
      BY <2>2, <2>3 DEF Inv, PageInv, FreeInv
    <3>2. ASSUME NEW q \in Proc, q # p PROVE loc'[q].page = 0
      BY <1>4, <1>6, <3>2, OthersIdle DEF Inv, Orderly
    <3> QED
      BY <1>3, <3>1, <3>2, Constants DEF HandInv, Page, Unmapped
  <2> QED
    BY <2>1, <2>4, <2>5 DEF PageInv
<1>10. SlotInv'
  BY <1>8, FrameSlots DEF Inv, TakeFree, swap
<1>11. LocInv'
  <2> SUFFICES ASSUME NEW q \in Proc PROVE CowInv(q)' /\ InInv(q)' /\ PlaceInv(q)'
    BY DEF LocInv
  <2>1. CASE q = p
    <3>1. CowInv(q)' /\ InInv(q)'
      BY <1>3, <1>8, <2>1, FrameLoc DEF Inv, LocInv, TakeFree, swap
    <3>2. PlaceInv(q)'
      BY <1>3, <1>4, <1>5, <2>1 DEF PlaceInv, TakeFree, Page
    <3> QED
      BY <3>1, <3>2
  <2>2. CASE q # p
    BY <1>4, <1>6, <2>2, OthersIdle DEF Inv, Orderly
  <2> QED
    BY <2>1, <2>2
<1> QED
  BY <1>7, <1>9, <1>10, <1>11 DEF Inv

LEMMA EvictWriteInv ==
  ASSUME Inv, Orderly, NEW p \in Proc, EvictWrite(p)
  PROVE  Inv'
<1>1. PICK g \in Page : g = loc[p].page
  BY DEF EvictWrite, In, Inv, LocInv, PlaceInv
<1>2. /\ rmap' = [rmap EXCEPT ![g] = {}] /\ slotdata' \in [Slot -> Val]
      /\ pc' = [pc EXCEPT ![p] = loc[p].why] /\ cr3' \in [Proc -> Proc]
  BY <1>1, LocType DEF EvictWrite, Goto, Inv, TypeOK
<1>3. pc[p] = "evict" /\ PlaceInv(p) /\ loc[p].why \in {"cow", "in", "grow"} /\ pc'[p] = loc[p].why
  BY <1>2, LocType DEF EvictWrite, In, Inv, LocInv, PlaceInv, LocRecord, TypeOK
<1>4. TypeOK'
  BY <1>2, <1>3 DEF Inv, TypeOK, EvictWrite
<1>5. SameView
  BY DEF SameView, EvictWrite
<1>6. PageInv'
  <2>1. Unmapped(g)
    BY <1>1 DEF Inv, PageInv, HandInv
  <2>2. Listed'
    BY <1>2, <2>1, PteFacts DEF Inv, PageInv, Listed, Unmapped, EvictWrite, TypeOK
  <2>3. OnePlace' /\ FreeInv' /\ HandInv' /\ NumberInv'
    BY DEF Inv, PageInv, OnePlace, FreeInv, HandInv, NumberInv, Unmapped, EvictWrite, Page
  <2> QED
    BY <2>2, <2>3 DEF PageInv
<1>7. SlotInv'
  BY <1>5, FrameSlots DEF Inv, EvictWrite
<1>8. LocInv'
  <2> SUFFICES ASSUME NEW q \in Proc PROVE CowInv(q)' /\ InInv(q)' /\ PlaceInv(q)'
    BY DEF LocInv
  <2>1. CASE q = p
    <3>1. CowInv(q)' /\ InInv(q)'
      BY <1>5, <2>1, FrameLoc DEF Inv, LocInv, EvictWrite
    <3>2. PlaceInv(q)'
      BY <1>1, <1>3, <2>1 DEF PlaceInv, EvictWrite, Page
    <3> QED
      BY <3>1, <3>2
  <2>2. CASE q # p
    <3>1. loc'[q] = loc[q] /\ pc'[q] = pc[q]
      BY <1>2, <2>2 DEF Inv, TypeOK, EvictWrite
    <3> QED
      BY <1>3, <2>2, <3>1, OthersIdle DEF Inv, Orderly
  <2> QED
    BY <2>1, <2>2
<1> QED
  BY <1>4, <1>6, <1>7, <1>8 DEF Inv

LEMMA SwapReadInv ==
  ASSUME Inv, Orderly, NEW p \in Proc, SwapRead(p)
  PROVE  Inv'
<1>1. pc[p] = "in" /\ PlaceInv(p)
  BY DEF SwapRead, In, Inv, LocInv
<1>2. loc[p].page \in Page /\ loc[p].slot \in Slot
  BY <1>1, LocType DEF PlaceInv, Inv
<1>3. /\ mem' \in [Page -> Val] /\ cr3' \in [Proc -> Proc]
      /\ pc' = [pc EXCEPT ![p] = "map"]
  BY <1>2 DEF SwapRead, Goto, Inv, TypeOK
<1>4. TypeOK'
  BY <1>3 DEF Inv, TypeOK, SwapRead, swap
<1>5. SameView
  BY DEF SameView, SwapRead
<1>6. PageInv' /\ SlotInv'
  BY <1>5, FramePages, FrameSlots DEF Inv, SwapRead, swap
<1>7. LocInv'
  <2> SUFFICES ASSUME NEW q \in Proc PROVE CowInv(q)' /\ InInv(q)' /\ PlaceInv(q)'
    BY DEF LocInv
  <2>1. CASE q = p
    <3>1. CowInv(q)' /\ InInv(q)'
      BY <1>5, <2>1, FrameLoc DEF Inv, LocInv, SwapRead, swap
    <3>2. pc'[p] = "map"
      BY <1>3 DEF Inv, TypeOK
    <3>3. PlaceInv(q)'
      BY <1>1, <2>1, <3>2 DEF PlaceInv, SwapRead, Page
    <3> QED
      BY <3>1, <3>3
  <2>2. CASE q # p
    <3>1. loc'[q] = loc[q] /\ pc'[q] = pc[q]
      BY <1>3, <2>2 DEF Inv, TypeOK, SwapRead
    <3> QED
      BY <1>1, <2>2, <3>1, OthersIdle DEF Inv, Orderly
  <2> QED
    BY <2>1, <2>2
<1> QED
  BY <1>4, <1>6, <1>7 DEF Inv

-----------------------------------------------------------------------------
(* Sets of numbers have a least element, and bounded ones a greatest.       *)
LEMMA LeastElement ==
  ASSUME NEW S, S \subseteq Nat, S # {}
  PROVE  \E x \in S : \A y \in S : x <= y
<1> DEFINE R == OpToRel(<, Nat)
<1>1. IsWellFoundedOn(R, Nat)
  BY NatLessThanWellFounded, Zenon
<1>2. PICK x \in S : \A y \in S : ~(<<y, x>> \in R)
  <2> HIDE DEF R
  <2> QED
    BY <1>1, WFMin
<1>3. \A y \in S : ~(y < x)
  BY <1>2 DEF OpToRel
<1> QED
  BY <1>3

LEMMA MinIsMember ==
  ASSUME NEW S, S \subseteq Nat, S # {}
  PROVE  Min(S) \in S /\ \A y \in S : Min(S) <= y
<1>1. \E x \in S : \A y \in S : x =< y
  BY LeastElement
<1> QED
  BY <1>1, Zenon DEF Min

LEMMA MaxIsMember ==
  ASSUME NEW S, NEW m \in Nat, S \subseteq 0..m, S # {}
  PROVE  Max(S) \in S /\ \A y \in S : y <= Max(S)
<1> DEFINE T == {k \in 0..m : m - k \in S}
<1>1. T \subseteq Nat
  OBVIOUS
<1>2. T # {}
  <2>1. PICK y \in S : TRUE
    OBVIOUS
  <2>2. m - y \in 0..m /\ m - (m - y) = y
    OBVIOUS
  <2> QED
    BY <2>1, <2>2
<1>3. PICK k \in T : \A l \in T : k <= l
  BY <1>1, <1>2, LeastElement
<1>4. \A y \in S : y <= m - k
  <2> SUFFICES ASSUME NEW y \in S PROVE y <= m - k
    OBVIOUS
  <2>1. y \in 0..m /\ m - y \in 0..m /\ m - (m - y) = y
    OBVIOUS
  <2>2. m - y \in T
    BY <2>1
  <2>3. k <= m - y /\ k \in 0..m
    BY <1>3, <2>2
  <2> QED
    BY <2>1, <2>3
<1>5. \E x \in S : \A y \in S : x >= y
  BY <1>3, <1>4
<1>6. Max(S) \in S /\ \A y \in S : Max(S) >= y
  BY <1>5, Zenon DEF Max
<1> QED
  BY <1>6

(* The page that swap_out() takes, and the slot.                            *)
LEMMA EvictChoice ==
  ASSUME Inv, NEW p \in Proc, Evict(p)
  PROVE  /\ loc[p].victim \in Proc
         /\ Max(Candidates(loc[p].victim)) \in Candidates(loc[p].victim)
         /\ FreeSlots # {} => Min(FreeSlots) \in Slot /\ slotfree[Min(FreeSlots)]
<1>1. loc[p].victim \in Proc
  BY DEF Evict, In, Inv, LocInv, PlaceInv
<1>2. Candidates(loc[p].victim) \subseteq 0..(MaxPages - 1) /\ Candidates(loc[p].victim) # {}
  BY DEF Evict, Candidates, Index
<1>3. MaxPages - 1 \in Nat
  BY SwapAssumption
<1>4. FreeSlots \subseteq Nat
  BY Constants DEF FreeSlots
<1>5. FreeSlots # {} => Min(FreeSlots) \in FreeSlots
  BY <1>4, MinIsMember
<1> QED
  BY <1>1, <1>2, <1>3, <1>5, MaxIsMember DEF FreeSlots

LEMMA RssType ==
  ASSUME TypeOK, NEW S, NEW n \in Int
  PROVE  AddRss(S, n) \in [Proc -> 0 .. RssMod - 1]
<1>1. RssMod \in Nat \ {0}
  BY SwapAssumption
<1> QED
  BY <1>1 DEF AddRss, TypeOK

LEMMA EvictInv ==
  ASSUME Inv, Orderly, Orderly', NEW p \in Proc, Evict(p)
  PROVE  Inv'
<1>1. CASE FreeSlots = {}
  <2>1. UNCHANGED <<slotmap, slotfree, pte, rss, pc, loc, state, sz, rmap, free, mem, slotdata, cr3>>
        /\ panicked' = TRUE
    BY <1>1 DEF Evict
  <2>2. TypeOK' /\ SameView
    BY <2>1 DEF Inv, TypeOK, SameView
  <2> QED
    BY <2>1, <2>2, Quiet
<1>2. CASE FreeSlots # {}
  <2>1. PICK v \in Proc : v = loc[p].victim
    BY EvictChoice
  <2>2. PICK i \in Candidates(v) : i = Max(Candidates(v))
    BY <2>1, EvictChoice
  <2>3. PICK g : g = pte[v][i].n
    OBVIOUS
  <2>4. PICK s \in Slot : s = Min(FreeSlots) /\ slotfree[s]
    BY <1>2, EvictChoice
  <2>5. i \in Index /\ i > 0 /\ i < sz[v] /\ Users(g) # {}
    <3>1. i \in Index \ {0} /\ i < sz[v] /\ Accessed(g, i)
      BY <2>2, <2>3 DEF Candidates
    <3>2. i \in Nat
      BY <3>1, Constants
    <3> QED
      BY <3>1, <3>2 DEF Accessed
  <2>6. g \in Page /\ Users(g) = rmap[g] /\ rmap[g] \subseteq Proc
    BY <2>5 DEF Users, Inv, TypeOK
  <2>7. pte[v][i].p
    BY <2>3, <2>5, <2>6 DEF Inv, PageInv, NumberInv
  <2>8. /\ slotfree' = [slotfree EXCEPT ![s] = FALSE]
        /\ slotmap' = [slotmap EXCEPT ![s] = rmap[g]]
        /\ pte' = [q \in Proc |-> IF q \in rmap[g] THEN [pte[q] EXCEPT ![i] = Swapped(s)] ELSE pte[q]]
        /\ rss' = AddRss(rmap[g], -1)
        /\ loc' = [loc EXCEPT ![p].page = g, ![p].out = s]
        /\ pc' = [pc EXCEPT ![p] = "evict"]
        /\ UNCHANGED <<state, sz, rmap, free, mem, slotdata, cr3>>
        /\ panicked' = FALSE /\ pc[p] = "victim"
    <3>1. pc[p] = "victim" /\ panicked' = FALSE /\ UNCHANGED <<state, sz, rmap, free, mem, slotdata, cr3>>
      BY <1>2 DEF Evict, In
    <3>2. Max(Candidates(loc[p].victim)) = i /\ pte[loc[p].victim][i].n = g /\ Min(FreeSlots) = s
      BY <2>1, <2>2, <2>3, <2>4
    <3>3. /\ slotfree' = [slotfree EXCEPT ![s] = FALSE]
          /\ slotmap' = [slotmap EXCEPT ![s] = rmap[g]]
          /\ pte' = [q \in Proc |-> IF q \in Users(g) THEN [pte[q] EXCEPT ![i] = Swapped(s)] ELSE pte[q]]
          /\ rss' = AddRss(Users(g), -1)
          /\ loc' = [loc EXCEPT ![p].page = g, ![p].out = s]
          /\ pc' = [pc EXCEPT ![p] = "evict"]
      BY <1>2, <3>2, Zenon DEF Evict, Goto
    <3> QED
      BY <2>6, <3>1, <3>3
  <2>9. \A q \in Proc, j \in Index :
          pte'[q][j] = IF q \in rmap[g] /\ j = i THEN Swapped(s) ELSE pte[q][j]
    BY <2>5, <2>8 DEF Inv, TypeOK
  <2>10. Swapped(s) \in Entry /\ Swapped(s).p = FALSE /\ Swapped(s).n = s
    BY SwappedEntry
  <2>11. s \notin Page
    <3>1. slotfree'[s] = FALSE
      BY <2>8 DEF Inv, TypeOK
    <3> QED
      BY <3>1 DEF Orderly, SlotsAreNoPages, Slot, Page
  <2>12. loc[p] \in LocRecord /\ loc \in [Proc -> LocRecord]
    BY LocType DEF Inv
  <2>13. /\ loc' \in [Proc -> LocRecord]
         /\ loc'[p].page = g /\ loc'[p].why = loc[p].why /\ loc'[p].i = loc[p].i
         /\ loc'[p].pa = loc[p].pa /\ loc'[p].slot = loc[p].slot
    <3>1. loc' = [loc EXCEPT ![p] = [loc[p] EXCEPT !.page = g, !.out = s]]
      BY <2>8, <2>12
    <3> QED
      BY <2>6, <2>12, <3>1 DEF LocRecord
  <2>14. \A q \in Proc : q # p => loc'[q] = loc[q] /\ pc'[q] = pc[q]
    BY <2>8, <2>12 DEF Inv, TypeOK
  <2>15. TypeOK'
    <3>1. pte' \in [Proc -> [Index -> Entry]]
      BY <2>8, <2>10 DEF Inv, TypeOK
    <3>2. rss' \in [Proc -> 0 .. RssMod - 1]
      BY <2>8, RssType DEF Inv
    <3> QED
      BY <2>6, <2>8, <2>13, <3>1, <3>2 DEF Inv, TypeOK, LocRecord
  <2> DEFINE Old(q, j) == pte'[q][j] = pte[q][j]
  <2>16. \A q \in Proc, j \in Index : pte'[q][j].p => Old(q, j)
    BY <2>9, <2>10
  <2>17. Unmapped(g)'
    <3> SUFFICES ASSUME NEW q \in Proc, NEW j \in Index, pte'[q][j].p, pte'[q][j].n = g PROVE FALSE
      BY <2>8 DEF Unmapped, Index
    <3>1. pte[q][j].p /\ pte[q][j].n = g
      BY <2>16
    <3>2. j = i
      BY <2>3, <2>5, <2>7, <3>1 DEF Inv, PageInv, OnePlace
    <3>3. q \in rmap[g]
      BY <3>1 DEF Inv, PageInv, Listed
    <3> QED
      BY <2>9, <2>10, <3>2, <3>3
  <2>18. PageInv'
    <3>1. OnePlace'
      BY <2>16 DEF Inv, PageInv, OnePlace, Index
    <3>2. Listed'
      BY <2>8, <2>16 DEF Inv, PageInv, Listed, Index
    <3>3. FreeInv'
      BY <2>8, <2>16 DEF Inv, PageInv, FreeInv, Unmapped, Index
    <3>4. g \notin free
      BY <2>3, <2>5, <2>7 DEF Inv, PageInv, FreeInv, Unmapped
    <3>5. \A q \in Proc : q # p => loc'[q].page = 0
      BY <2>8, <2>14, OthersIdle DEF Inv, Orderly
    <3>6. HandInv'
      BY <2>8, <2>13, <2>17, <3>4, <3>5, Constants DEF HandInv, Page
    <3>7. NumberInv'
      BY <2>9, <2>10, <2>11 DEF Inv, PageInv, NumberInv, Page, Index
    <3> QED
      BY <3>1, <3>2, <3>3, <3>6, <3>7 DEF PageInv
  <2>19. \A q \in Proc, j \in Index, t \in Slot :
           Holds(q, j, t)' => \/ t = s /\ j = i /\ q \in rmap[g]
                              \/ t # s /\ Holds(q, j, t)
    <3> SUFFICES ASSUME NEW q \in Proc, NEW j \in Index, NEW t \in Slot, Holds(q, j, t)'
                 PROVE  \/ t = s /\ j = i /\ q \in rmap[g]
                        \/ t # s /\ Holds(q, j, t)
      BY DEF Index, Slot
    <3>1. CASE q \in rmap[g] /\ j = i
      BY <2>9, <2>10, <3>1 DEF Holds
    <3>2. CASE ~(q \in rmap[g] /\ j = i)
      <4>1. Holds(q, j, t)
        BY <2>8, <2>9, <3>2 DEF Holds
      <4> QED
        BY <2>4, <4>1 DEF Inv, SlotInv, HeldInv
    <3> QED
      BY <3>1, <3>2
  <2>20. SlotInv'
    <3>1. HeldInv'
      <4> SUFFICES ASSUME NEW q \in Proc, NEW j \in Index, NEW t \in Slot, Holds(q, j, t)'
                   PROVE  j > 0 /\ ~slotfree'[t] /\ q \in slotmap'[t]
        BY DEF HeldInv, Index, Slot
      <4> QED
        BY <2>5, <2>8, <2>19 DEF Inv, SlotInv, HeldInv, TypeOK
    <3>2. OneSlotPlace'
      <4> SUFFICES ASSUME NEW q \in Proc, NEW r \in Proc, NEW j \in Index, NEW k \in Index, NEW t \in Slot,
                          Holds(q, j, t)', Holds(r, k, t)'
                   PROVE  j = k
        BY DEF OneSlotPlace, Index, Slot
      <4> QED
        BY <2>19 DEF Inv, SlotInv, OneSlotPlace
    <3> QED
      BY <3>1, <3>2 DEF SlotInv
  <2>21. CowInv(p)'
    BY <2>13, <2>16 DEF Inv, LocInv, CowInv, Index, Page
  <2>22. InInv(p)'
    <3> SUFFICES ASSUME loc'[p].why = "in"
                 PROVE  /\ ~slotfree'[loc[p].slot] /\ p \in slotmap'[loc[p].slot]
                        /\ \A r \in Proc, j \in Index : Holds(r, j, loc[p].slot)' => j = loc[p].i
      BY <2>13 DEF InInv, Holds
    <3>1. loc[p].slot \in Slot /\ InInv(p) /\ loc[p].why = "in"
      BY <2>13, LocType DEF Inv, LocInv
    <3>2. loc[p].slot # s
      BY <2>4, <3>1 DEF InInv
    <3> QED
      BY <2>8, <2>19, <3>1, <3>2 DEF InInv, Inv, TypeOK
  <2>23. PlaceInv(p)'
    <3>1. pc'[p] = "evict"
      BY <2>8 DEF Inv, TypeOK
    <3> QED
      BY <2>6, <2>8, <2>13, <3>1 DEF Inv, LocInv, PlaceInv, Page
  <2>24. LocInv'
    BY <2>8, <2>14, <2>21, <2>22, <2>23, OthersIdle DEF Inv, Orderly, LocInv
  <2> QED
    BY <2>15, <2>18, <2>20, <2>24 DEF Inv
<1> QED
  BY <1>1, <1>2

-----------------------------------------------------------------------------
(* What the page in hand is for: a page nobody maps, now at index i of every *)
(* process in users.                                                        *)
MappedAt(users, i, g) ==
  \A q \in Proc, j \in Index :
    IF q \in users /\ j = i THEN pte'[q][j].p /\ pte'[q][j].n = g ELSE pte'[q][j] = pte[q][j]

LEMMA MapPage ==
  ASSUME PageInv, NEW users \in SUBSET Proc, NEW i \in Index, NEW g \in Page,
         MappedAt(users, i, g), Unmapped(g), g \notin free, free' = free,
         \A q \in users : q \in rmap'[g],
         \A q \in Proc, j \in Index :
           pte[q][j].p => (q \in users /\ j = i) \/ q \in rmap'[pte[q][j].n],
         \A q \in Proc : loc'[q].page = 0
  PROVE  PageInv'
<1>1. ASSUME NEW q \in Proc, NEW j \in Index, pte'[q][j].p
      PROVE  \/ q \in users /\ j = i /\ pte'[q][j].n = g
             \/ pte'[q][j] = pte[q][j] /\ pte[q][j].p /\ pte'[q][j].n # g
  <2>1. CASE q \in users /\ j = i
    BY <2>1 DEF MappedAt
  <2>2. CASE ~(q \in users /\ j = i)
    <3>1. pte'[q][j] = pte[q][j]
      BY <2>2 DEF MappedAt
    <3> QED
      BY <1>1, <3>1 DEF Unmapped
  <2> QED
    BY <2>1, <2>2
<1>2. OnePlace'
  <2> SUFFICES ASSUME NEW q \in Proc, NEW r \in Proc, NEW j \in Index, NEW k \in Index,
                      pte'[q][j].p, pte'[r][k].p, pte'[q][j].n = pte'[r][k].n
               PROVE  j = k
    BY DEF OnePlace, Index
  <2>1. CASE pte'[q][j].n = g
    <3>1. j = i
      BY <1>1, <2>1
    <3>2. pte'[r][k].n = g
      BY <2>1
    <3>3. k = i
      BY <1>1, <3>2
    <3> QED
      BY <3>1, <3>3
  <2>2. CASE pte'[q][j].n # g
    <3>1. /\ pte'[q][j] = pte[q][j] /\ pte[q][j].p
          /\ pte'[r][k] = pte[r][k] /\ pte[r][k].p
      BY <1>1, <2>2
    <3> QED
      BY <3>1 DEF PageInv, OnePlace
  <2> QED
    BY <2>1, <2>2
<1>3. Listed'
  <2> SUFFICES ASSUME NEW q \in Proc, NEW j \in Index, pte'[q][j].p PROVE q \in rmap'[pte'[q][j].n]
    BY DEF Listed, Index
  <2>1. CASE q \in users /\ j = i
    BY <2>1 DEF MappedAt
  <2>2. CASE ~(q \in users /\ j = i)
    <3>1. pte'[q][j] = pte[q][j]
      BY <2>2 DEF MappedAt
    <3> QED
      BY <2>2, <3>1
  <2> QED
    BY <2>1, <2>2
<1>4. FreeInv'
  <2> SUFFICES ASSUME NEW h \in free, NEW q \in Proc, NEW j \in Index, pte'[q][j].p, pte'[q][j].n = h
               PROVE  FALSE
    BY DEF FreeInv, Unmapped, Index
  <2>1. pte'[q][j] = pte[q][j] /\ pte[q][j].p
    BY <1>1
  <2> QED
    BY <2>1 DEF PageInv, FreeInv, Unmapped
<1>5. HandInv'
  BY Constants DEF HandInv, Page
<1>6. NumberInv'
  <2> SUFFICES ASSUME NEW q \in Proc, NEW j \in Index, ~pte'[q][j].p PROVE pte'[q][j].n \notin Page
    BY DEF NumberInv, Index, Page
  <2>1. pte'[q][j] = pte[q][j]
    BY DEF MappedAt
  <2> QED
    BY <2>1 DEF PageInv, NumberInv
<1> QED
  BY <1>2, <1>3, <1>4, <1>5, <1>6 DEF PageInv

(* An entry stays that of its slot when the slot keeps its users.           *)
LEMMA KeepSlots ==
  ASSUME SlotInv,
         \A q \in Proc, j \in Index, t \in Slot :
           Holds(q, j, t)' => Holds(q, j, t) /\ ~slotfree'[t] /\ q \in slotmap'[t]
  PROVE  SlotInv'
<1>1. HeldInv'
  <2> SUFFICES ASSUME NEW q \in Proc, NEW j \in Index, NEW t \in Slot, Holds(q, j, t)'
               PROVE  j > 0 /\ ~slotfree'[t] /\ q \in slotmap'[t]
    BY DEF HeldInv, Index, Slot
  <2> QED
    BY DEF SlotInv, HeldInv
<1>2. OneSlotPlace'
  <2> SUFFICES ASSUME NEW q \in Proc, NEW r \in Proc, NEW j \in Index, NEW k \in Index, NEW t \in Slot,
                      Holds(q, j, t)', Holds(r, k, t)'
               PROVE  j = k
    BY DEF OneSlotPlace, Index, Slot
  <2>1. Holds(q, j, t) /\ Holds(r, k, t)
    OBVIOUS
  <2> QED
    BY <2>1 DEF SlotInv, OneSlotPlace
<1> QED
  BY <1>1, <1>2 DEF SlotInv

(* Process p goes back to the user program.                                 *)
LEMMA BackToUser ==
  ASSUME Inv, OneInKernel, NEW p \in Proc, pc[p] # "user",
         loc' = [loc EXCEPT ![p] = NoLoc], pc' = [pc EXCEPT ![p] = "user"]
  PROVE  /\ LocInv' /\ \A q \in Proc : loc'[q].page = 0
         /\ loc' \in [Proc -> LocRecord]
<1>1. loc \in [Proc -> LocRecord] /\ pc \in [Proc -> {"user", "alloc", "victim", "evict", "cow", "in", "map", "grow"}]
  BY LocType DEF Inv, TypeOK
<1>2. loc'[p] = NoLoc /\ pc'[p] = "user"
  BY <1>1
<1>3. ASSUME NEW q \in Proc, q # p
      PROVE  loc'[q].page = 0 /\ CowInv(q)' /\ InInv(q)' /\ PlaceInv(q)'
  <2>1. loc'[q] = loc[q] /\ pc'[q] = pc[q]
    BY <1>1, <1>3
  <2> QED
    BY <1>3, <2>1, OthersIdle DEF Inv
<1>4. CowInv(p)' /\ InInv(p)' /\ PlaceInv(p)'
  BY <1>2, NoLocType, Idle
<1>5. \A q \in Proc : loc'[q].page = 0
  BY <1>2, <1>3, NoLocType
<1> QED
  BY <1>1, <1>3, <1>4, <1>5, NoLocType DEF LocInv

LEMMA CopyPageInv ==
  ASSUME Inv, Orderly, NEW p \in Proc, CopyPage(p)
  PROVE  Inv'
<1>1. pc[p] = "cow" /\ PlaceInv(p) /\ CowInv(p)
  BY DEF CopyPage, In, Inv, LocInv
<1>2. PICK g \in Page : g = loc[p].page
  BY <1>1 DEF PlaceInv
<1>3. PICK old \in Page : old = loc[p].pa
  BY <1>1 DEF PlaceInv, CowInv
<1>4. PICK i \in Index : i = loc[p].i
  BY LocType DEF Inv
<1>5. g \notin free /\ Unmapped(g)
  BY <1>2 DEF Inv, PageInv, HandInv
<1>6. \A j \in Index : pte[p][j].p /\ pte[p][j].n = old => j = i
  BY <1>1, <1>3, <1>4 DEF PlaceInv, CowInv
<1>7. Resident(g, TRUE) \in Entry /\ Resident(g, TRUE).p = TRUE /\ Resident(g, TRUE).n = g
  BY ResidentEntry
<1>8. /\ mem' = [mem EXCEPT ![g] = mem[old]]
      /\ pte' = [pte EXCEPT ![p][i] = Resident(g, TRUE)]
      /\ cr3' = [cr3 EXCEPT ![p] = p]
      /\ pc' = [pc EXCEPT ![p] = "user"]
      /\ loc' = [loc EXCEPT ![p] = NoLoc]
      /\ UNCHANGED <<state, sz, rss, free, slotmap, slotfree, slotdata, panicked>>
  BY <1>2, <1>3, <1>4 DEF CopyPage, Goto, swap
<1>9. rmap' = [[rmap EXCEPT ![old] = RmapRm(@, p)] EXCEPT ![g] = RmapAdd(@, p)]
  BY <1>2, <1>3 DEF CopyPage
<1>10. /\ rmap' \in [Page -> SUBSET Proc] /\ p \in rmap'[g]
       /\ \A q \in Proc, h \in Page : q \in rmap[h] /\ (q # p \/ h # old) => q \in rmap'[h]
  BY <1>9 DEF Inv, TypeOK, RmapRm, RmapAdd
<1>11. MappedAt({p}, i, g)
  <2>1. \A q \in Proc, j \in Index :
         pte'[q][j] = IF q = p /\ j = i THEN Resident(g, TRUE) ELSE pte[q][j]
    BY <1>8 DEF Inv, TypeOK
  <2> QED
    BY <1>7, <2>1 DEF MappedAt
<1>12. TypeOK' /\ LocInv' /\ \A q \in Proc : loc'[q].page = 0
  <2>1. pte' \in [Proc -> [Index -> Entry]] /\ mem' \in [Page -> Val]
    BY <1>7, <1>8 DEF Inv, TypeOK
  <2>2. loc' \in [Proc -> LocRecord] /\ LocInv' /\ \A q \in Proc : loc'[q].page = 0
    BY <1>1, <1>8, BackToUser DEF Orderly
  <2> QED
    BY <1>8, <1>10, <2>1, <2>2 DEF Inv, TypeOK, LocRecord
<1>13. PageInv'
  <2>1. ASSUME NEW q \in Proc, NEW j \in Index, pte[q][j].p, ~(q \in {p} /\ j = i)
        PROVE  q \in rmap'[pte[q][j].n]
    <3>1. pte[q][j].n \in Page /\ q \in rmap[pte[q][j].n]
      BY <2>1, PteFacts DEF Inv, PageInv, Listed
    <3>2. q # p \/ pte[q][j].n # old
      BY <1>6, <2>1
    <3> QED
      BY <1>10, <3>1, <3>2
  <2> QED
    BY <1>5, <1>8, <1>10, <1>11, <1>12, <2>1, MapPage DEF Inv
<1>14. SlotInv'
  <2>1. ASSUME NEW q \in Proc, NEW j \in Index, NEW t \in Slot, Holds(q, j, t)'
        PROVE  Holds(q, j, t) /\ ~slotfree'[t] /\ q \in slotmap'[t]
    <3>1. pte'[q][j] = pte[q][j]
      BY <1>11, <2>1 DEF MappedAt, Holds
    <3>2. Holds(q, j, t)
      BY <1>8, <2>1, <3>1 DEF Holds
    <3> QED
      BY <1>8, <3>2 DEF Inv, SlotInv, HeldInv
  <2> QED
    BY <2>1, KeepSlots DEF Inv
<1> QED
  BY <1>12, <1>13, <1>14 DEF Inv

LEMMA SwapMapInv ==
  ASSUME Inv, Orderly, NEW p \in Proc, SwapMap(p)
  PROVE  Inv'
<1>1. pc[p] = "map" /\ PlaceInv(p) /\ InInv(p) /\ loc[p].why = "in"
  BY DEF SwapMap, In, Inv, LocInv, PlaceInv
<1>2. PICK g \in Page : g = loc[p].page
  BY <1>1 DEF PlaceInv
<1>3. PICK s \in Slot : s = loc[p].slot
  BY LocType DEF Inv
<1>4. PICK i \in Index : i = loc[p].i
  BY LocType DEF Inv
<1>5. PICK users \in SUBSET Proc : users = slotmap[s]
  BY DEF Inv, TypeOK
<1>6. g \notin free /\ Unmapped(g)
  BY <1>2 DEF Inv, PageInv, HandInv
<1>7. Resident(g, TRUE) \in Entry /\ Resident(g, TRUE).p = TRUE /\ Resident(g, TRUE).n = g
  BY ResidentEntry
<1>8. /\ pte' = [q \in Proc |-> IF q \in users THEN [pte[q] EXCEPT ![i] = Resident(g, TRUE)] ELSE pte[q]]
      /\ rss' = AddRss(users, 1)
      /\ rmap' = [rmap EXCEPT ![g] = @ \cup users]
      /\ cr3' \in LoadedLast(p, users)
      /\ slotfree' = [slotfree EXCEPT ![s] = TRUE]
      /\ slotmap' = [slotmap EXCEPT ![s] = {}]
      /\ pc' = [pc EXCEPT ![p] = "user"]
      /\ loc' = [loc EXCEPT ![p] = NoLoc]
      /\ UNCHANGED <<state, sz, free, mem, slotdata, panicked>>
  BY <1>2, <1>3, <1>4, <1>5, Zenon DEF SwapMap, Goto
<1>9. MappedAt(users, i, g)
  <2>1. \A q \in Proc, j \in Index :
          pte'[q][j] = IF q \in users /\ j = i THEN Resident(g, TRUE) ELSE pte[q][j]
    BY <1>8 DEF Inv, TypeOK
  <2> QED
    BY <1>7, <2>1 DEF MappedAt
<1>10. TypeOK' /\ LocInv' /\ \A q \in Proc : loc'[q].page = 0
  <2>1. pte' \in [Proc -> [Index -> Entry]]
    BY <1>7, <1>8 DEF Inv, TypeOK
  <2>2. loc' \in [Proc -> LocRecord] /\ LocInv' /\ \A q \in Proc : loc'[q].page = 0
    BY <1>1, <1>8, BackToUser DEF Orderly
  <2>3. cr3' \in [Proc -> Proc]
    BY <1>8 DEF Inv, TypeOK, LoadedLast
  <2>4. rss' \in [Proc -> 0 .. RssMod - 1]
    BY <1>8, RssType DEF Inv
  <2>5. rmap' \in [Page -> SUBSET Proc] /\ slotmap' \in [Slot -> SUBSET Proc]
    BY <1>8 DEF Inv, TypeOK
  <2> QED
    BY <1>8, <2>1, <2>2, <2>3, <2>4, <2>5 DEF Inv, TypeOK, LocRecord
<1>11. PageInv'
  <2>1. (\A q \in users : q \in rmap'[g]) /\ \A q \in Proc, h \in Page : q \in rmap[h] => q \in rmap'[h]
    BY <1>8 DEF Inv, TypeOK
  <2>2. ASSUME NEW q \in Proc, NEW j \in Index, pte[q][j].p PROVE q \in rmap'[pte[q][j].n]
    BY <2>1, <2>2, PteFacts DEF Inv, PageInv, Listed
  <2> QED
    BY <1>6, <1>8, <1>9, <1>10, <2>1, <2>2, MapPage DEF Inv
<1>12. SlotInv'
  <2>1. ASSUME NEW q \in Proc, NEW j \in Index, NEW t \in Slot, Holds(q, j, t)'
        PROVE  Holds(q, j, t) /\ ~slotfree'[t] /\ q \in slotmap'[t]
    <3>1. ~(q \in users /\ j = i) /\ pte'[q][j] = pte[q][j]
      BY <1>9, <2>1 DEF MappedAt, Holds
    <3>2. Holds(q, j, t)
      BY <1>8, <2>1, <3>1 DEF Holds
    <3>3. ~slotfree[t] /\ q \in slotmap[t]
      BY <3>2 DEF Inv, SlotInv, HeldInv
    <3>4. ASSUME t = s PROVE FALSE
      <4>1. j = i
        BY <1>1, <1>3, <1>4, <3>2, <3>4 DEF InInv
      <4> QED
        BY <1>5, <3>1, <3>3, <3>4, <4>1
    <3> QED
      BY <1>8, <3>2, <3>3, <3>4 DEF Inv, TypeOK
  <2> QED
    BY <2>1, KeepSlots DEF Inv
<1> QED
  BY <1>10, <1>11, <1>12 DEF Inv

LEMMA GrowMapInv ==
  ASSUME Inv, Orderly, NEW p \in Proc, GrowMap(p)
  PROVE  Inv'
<1>1. pc[p] = "grow" /\ PlaceInv(p) /\ loc[p].why = "grow" /\ loc[p].i = sz[p] /\ state[p] = "running"
  BY DEF GrowMap, In, Inv, LocInv, PlaceInv
<1>2. PICK g \in Page : g = loc[p].page
  BY <1>1 DEF PlaceInv
<1>3. PICK i \in Index : i = loc[p].i
  BY LocType DEF Inv
<1>4. g \notin free /\ Unmapped(g)
  BY <1>2 DEF Inv, PageInv, HandInv
<1>5. Resident(g, TRUE) \in Entry /\ Resident(g, TRUE).p = TRUE /\ Resident(g, TRUE).n = g
  BY ResidentEntry
<1>6. /\ mem' = [mem EXCEPT ![g] = Zero]
      /\ pte' = [pte EXCEPT ![p][i] = Resident(g, TRUE)]
      /\ rmap' = [rmap EXCEPT ![g] = RmapAdd(@, p)]
      /\ sz' = [sz EXCEPT ![p] = @ + 1]
      /\ rss' = AddRss({p}, 1)
      /\ cr3' = [cr3 EXCEPT ![p] = p]
      /\ pc' = [pc EXCEPT ![p] = "user"]
      /\ loc' = [loc EXCEPT ![p] = NoLoc]
      /\ UNCHANGED <<state, free, slotmap, slotfree, slotdata, panicked>>
  BY <1>2, <1>3 DEF GrowMap, Goto, swap
<1>7. MappedAt({p}, i, g)
  <2>1. \A q \in Proc, j \in Index :
          pte'[q][j] = IF q = p /\ j = i THEN Resident(g, TRUE) ELSE pte[q][j]
    BY <1>6 DEF Inv, TypeOK
  <2> QED
    BY <1>5, <2>1 DEF MappedAt
<1>8. TypeOK' /\ LocInv' /\ \A q \in Proc : loc'[q].page = 0
  <2>1. pte' \in [Proc -> [Index -> Entry]] /\ mem' \in [Page -> Val]
    BY <1>5, <1>6, SwapAssumption DEF Inv, TypeOK
  <2>2. loc' \in [Proc -> LocRecord] /\ LocInv' /\ \A q \in Proc : loc'[q].page = 0
    BY <1>1, <1>6, BackToUser DEF Orderly
  <2>3. sz' \in [Proc -> 0 .. MaxPages]
    <3>1. sz[p] \in Nat /\ sz[p] < MaxPages
      BY <1>1, <1>3, Constants DEF Index
    <3>2. sz[p] + 1 \in 0 .. MaxPages
      BY <3>1, Constants
    <3> QED
      BY <1>6, <3>2 DEF Inv, TypeOK
  <2>4. rss' \in [Proc -> 0 .. RssMod - 1]
    BY <1>6, RssType DEF Inv
  <2>5. rmap' \in [Page -> SUBSET Proc]
    BY <1>6 DEF Inv, TypeOK, RmapAdd
  <2> QED
    BY <1>6, <2>1, <2>2, <2>3, <2>4, <2>5 DEF Inv, TypeOK, LocRecord
<1>9. PageInv'
  <2>1. p \in rmap'[g] /\ \A q \in Proc, h \in Page : q \in rmap[h] => q \in rmap'[h]
    BY <1>6 DEF Inv, TypeOK, RmapAdd
  <2>2. ASSUME NEW q \in Proc, NEW j \in Index, pte[q][j].p PROVE q \in rmap'[pte[q][j].n]
    BY <2>1, <2>2, PteFacts DEF Inv, PageInv, Listed
  <2> QED
    BY <1>4, <1>6, <1>7, <1>8, <2>1, <2>2, MapPage DEF Inv
<1>10. SlotInv'
  <2>1. ASSUME NEW q \in Proc, NEW j \in Index, NEW t \in Slot, Holds(q, j, t)'
        PROVE  Holds(q, j, t) /\ ~slotfree'[t] /\ q \in slotmap'[t]
    <3>1. ~(q = p /\ j = i) /\ pte'[q][j] = pte[q][j]
      BY <1>7, <2>1 DEF MappedAt, Holds
    <3>2. j < sz[q]
      <4>1. CASE q = p
        <5>1. j < sz[p] + 1 /\ j # sz[p] /\ j \in Nat /\ sz[p] \in Nat
          BY <1>1, <1>3, <1>6, <2>1, <3>1, <4>1, Constants DEF Holds, Inv, TypeOK
        <5> QED
          BY <4>1, <5>1
      <4>2. CASE q # p
        BY <1>6, <2>1, <4>2 DEF Holds, Inv, TypeOK
      <4> QED
        BY <4>1, <4>2
    <3>3. Holds(q, j, t)
      BY <1>6, <2>1, <3>1, <3>2 DEF Holds
    <3> QED
      BY <1>6, <3>3 DEF Inv, SlotInv, HeldInv
  <2> QED
    BY <2>1, KeepSlots DEF Inv
<1> QED
  BY <1>8, <1>9, <1>10 DEF Inv

-----------------------------------------------------------------------------
(* Entering the kernel.                                                     *)
LEMMA Enter ==
  ASSUME Inv, NEW p \in Proc, NEW e \in LocRecord, e.page = 0, e.why # "none",
         e.why = "grow" => e.i = sz[p], state[p] = "running",
         pc' = [pc EXCEPT ![p] = "alloc"], loc' = [loc EXCEPT ![p] = e],
         CowInv(p)', InInv(p)',
         UNCHANGED <<state, sz, pte, rmap, free, slotmap, slotfree>>, pc[p] = "user"
  PROVE  PageInv' /\ SlotInv' /\ LocInv' /\ loc' \in [Proc -> LocRecord]
<1>1. loc \in [Proc -> LocRecord] /\ pc \in [Proc -> {"user", "alloc", "victim", "evict", "cow", "in", "map", "grow"}]
  BY LocType DEF Inv, TypeOK
<1>2. loc'[p] = e /\ pc'[p] = "alloc" /\ loc[p].page = 0 /\ \A q \in Proc : q # p => loc'[q] = loc[q] /\ pc'[q] = pc[q]
  BY <1>1 DEF Inv, LocInv, PlaceInv
<1>3. SameView
  BY DEF SameView
<1>4. PageInv'
  <2>1. \A q \in Proc : loc'[q].page = loc[q].page
    BY <1>2
  <2> QED
    BY <1>3, <2>1, FramePages DEF Inv
<1>5. SlotInv'
  BY <1>3, FrameSlots DEF Inv
<1>6. LocInv'
  <2> SUFFICES ASSUME NEW q \in Proc PROVE CowInv(q)' /\ InInv(q)' /\ PlaceInv(q)'
    BY DEF LocInv
  <2>1. CASE q = p
    BY <1>2, <2>1 DEF PlaceInv
  <2>2. CASE q # p
    <3>1. loc'[q] = loc[q] /\ pc'[q] = pc[q]
      BY <1>2, <2>2
    <3>2. CowInv(q)' /\ InInv(q)'
      BY <1>3, <3>1, FrameLoc DEF Inv, LocInv
    <3>3. PlaceInv(q)'
      BY <3>1 DEF Inv, LocInv, PlaceInv, Page
    <3> QED
      BY <3>2, <3>3
  <2> QED
    BY <2>1, <2>2
<1> QED
  BY <1>1, <1>4, <1>5, <1>6

LEMMA GrowInv ==
  ASSUME Inv, NEW p \in Proc, Grow(p)
  PROVE  Inv'
<1>1. sz[p] \in Index
  BY Constants DEF Grow, Inv, TypeOK
<1>2. PICK e : e = [NoLoc EXCEPT !.why = "grow", !.i = sz[p]]
  OBVIOUS
<1>3. e \in LocRecord /\ e.page = 0 /\ e.why = "grow" /\ e.i = sz[p]
  BY <1>1, <1>2, NoLocType DEF LocRecord
<1>4. /\ pc' = [pc EXCEPT ![p] = "alloc"] /\ loc' = [loc EXCEPT ![p] = e]
      /\ pc[p] = "user" /\ state[p] = "running"
      /\ UNCHANGED <<state, sz, rss, pte, rmap, free, mem, slotmap, slotfree, slotdata, cr3, panicked>>
  BY <1>2 DEF Grow, Goto, User, swap
<1>5. loc'[p] = e
  BY <1>4, LocType DEF Inv
<1>6. CowInv(p)' /\ InInv(p)'
  BY <1>3, <1>5 DEF CowInv, InInv
<1>7. PageInv' /\ SlotInv' /\ LocInv' /\ loc' \in [Proc -> LocRecord]
  BY <1>3, <1>4, <1>6, Enter
<1>8. TypeOK'
  BY <1>4, <1>7 DEF Inv, TypeOK, LocRecord
<1> QED
  BY <1>7, <1>8 DEF Inv

LEMMA FaultInv ==
  ASSUME Inv, NEW p \in Proc, NEW i \in Index, Fault(p, i)
  PROVE  Inv'
<1>1. PICK old \in Entry : old = pte[p][i]
  BY PteFacts DEF Inv
<1>2. CASE old.p /\ (old.w \/ Cardinality(rmap[old.n]) = 1)
  <2>1. /\ pte' = [pte EXCEPT ![p][i].w = TRUE]
        /\ cr3' = IF old.w THEN cr3 ELSE [cr3 EXCEPT ![p] = p]
        /\ UNCHANGED <<pc, loc, state, sz, rss, rmap, free, mem, slotmap, slotfree, slotdata, panicked>>
    BY <1>1, <1>2, Zenon DEF Fault, swap
  <2>2. PICK e \in Entry : e = [old EXCEPT !.w = TRUE] /\ e.p = old.p /\ e.n = old.n
    BY <1>2, EntryBits
  <2>3. pte' = [pte EXCEPT ![p][i] = e]
    BY <1>1, <2>1, <2>2
  <2>4. pte' \in [Proc -> [Index -> Entry]] /\ SameView
    BY <1>1, <2>2, <2>3, OneEntry DEF Inv
  <2>5. TypeOK'
    BY <2>1, <2>4 DEF Inv, TypeOK
  <2> QED
    BY <2>1, <2>4, <2>5, Quiet
<1>3. CASE ~(old.p /\ (old.w \/ Cardinality(rmap[old.n]) = 1))
  <2>1. PICK e : e = [NoLoc EXCEPT !.why = IF old.p THEN "cow" ELSE "in", !.i = i,
                                   !.pa = IF old.p THEN old.n ELSE 0,
                                   !.slot = IF old.p THEN 0 ELSE old.n]
    OBVIOUS
  <2>2. /\ pc' = [pc EXCEPT ![p] = "alloc"] /\ loc' = [loc EXCEPT ![p] = e]
        /\ pc[p] = "user" /\ state[p] = "running" /\ i < sz[p]
        /\ UNCHANGED <<state, sz, rss, pte, rmap, free, mem, slotmap, slotfree, slotdata, cr3, panicked>>
    BY <1>1, <1>3, <2>1, Zenon DEF Fault, Goto, User, swap
  <2>3. (old.p => old.n \in Page) /\ (~old.p => old.n \in Slot)
    BY EntryFields
  <2>4. /\ e.page = 0 /\ e.i = i /\ e.why = (IF old.p THEN "cow" ELSE "in")
        /\ e.pa = (IF old.p THEN old.n ELSE 0) /\ e.slot = (IF old.p THEN 0 ELSE old.n)
        /\ e \in LocRecord
    BY <2>1, <2>3, NoLocType, Constants DEF LocRecord
  <2>5. loc'[p] = e
    BY <2>2, LocType DEF Inv
  <2>6. CowInv(p)'
    <3> SUFFICES ASSUME e.why = "cow"
                 PROVE  e.pa \in Page /\ \A j \in Index : pte[p][j].p /\ pte[p][j].n = e.pa => j = e.i
      BY <2>2, <2>5 DEF CowInv, Page, Index
    <3>1. old.p /\ e.pa = old.n /\ e.i = i
      BY <2>4
    <3> QED
      BY <1>1, <2>3, <3>1 DEF Inv, PageInv, OnePlace
  <2>7. InInv(p)'
    <3> SUFFICES ASSUME e.why = "in"
                 PROVE  /\ ~slotfree[e.slot] /\ p \in slotmap[e.slot]
                        /\ \A r \in Proc, j \in Index : Holds(r, j, e.slot) => j = e.i
      BY <2>2, <2>5 DEF InInv, Index, Holds
    <3>1. ~old.p /\ e.slot = old.n /\ e.i = i /\ e.slot \in Slot
      BY <2>3, <2>4
    <3>2. Holds(p, i, e.slot)
      BY <1>1, <2>2, <3>1 DEF Holds
    <3> QED
      BY <3>1, <3>2 DEF Inv, SlotInv, HeldInv, OneSlotPlace
  <2>8. PageInv' /\ SlotInv' /\ LocInv' /\ loc' \in [Proc -> LocRecord]
    BY <2>2, <2>4, <2>6, <2>7, Enter
  <2>9. TypeOK'
    BY <2>2, <2>8 DEF Inv, TypeOK, LocRecord
  <2> QED
    BY <2>8, <2>9 DEF Inv
<1> QED
  BY <1>2, <1>3

-----------------------------------------------------------------------------
(* fork(), exit() and wait(): c, whom they are about, is not in the kernel   *)
(* and has nothing in swap afterwards.                                      *)
LEMMA FamilySlots ==
  ASSUME Inv, NEW c \in Proc, pc[c] = "user", UNCHANGED <<pc, loc>>,
         \A q \in Proc : q # c => state'[q] = state[q] /\ sz'[q] = sz[q],
         \A q \in Proc, j \in Index : q # c => pte'[q][j].p = pte[q][j].p /\ pte'[q][j].n = pte[q][j].n,
         \A j \in Index, t \in Slot : ~Holds(c, j, t)',
         \A q \in Proc, t \in Slot :
           q # c /\ ~slotfree[t] /\ q \in slotmap[t] => ~slotfree'[t] /\ q \in slotmap'[t]
  PROVE  SlotInv' /\ LocInv'
<1>1. ASSUME NEW q \in Proc, NEW j \in Index, NEW t \in Slot, Holds(q, j, t)'
      PROVE  q # c /\ Holds(q, j, t)
  BY <1>1 DEF Holds
<1>2. SlotInv'
  <2>1. ASSUME NEW q \in Proc, NEW j \in Index, NEW t \in Slot, Holds(q, j, t)'
        PROVE  Holds(q, j, t) /\ ~slotfree'[t] /\ q \in slotmap'[t]
    <3>1. q # c /\ Holds(q, j, t)
      BY <1>1, <2>1
    <3>2. ~slotfree[t] /\ q \in slotmap[t]
      BY <3>1 DEF Inv, SlotInv, HeldInv
    <3> QED
      BY <3>1, <3>2
  <2> QED
    BY <2>1, KeepSlots DEF Inv
<1>3. LocInv'
  <2> SUFFICES ASSUME NEW q \in Proc PROVE CowInv(q)' /\ InInv(q)' /\ PlaceInv(q)'
    BY DEF LocInv
  <2>1. CASE q = c
    <3>1. pc'[c] = "user" /\ loc'[c].page = 0 /\ loc'[c].why = "none"
      BY DEF Inv, LocInv, PlaceInv
    <3> QED
      BY <2>1, <3>1, Idle
  <2>2. CASE q # c
    <3>1. CowInv(q) /\ InInv(q) /\ PlaceInv(q) /\ loc[q].slot \in Slot
      BY LocType DEF Inv, LocInv
    <3>2. CowInv(q)'
      BY <2>2, <3>1 DEF CowInv, Index, Page
    <3>3. InInv(q)'
      <4> SUFFICES ASSUME loc[q].why = "in"
                   PROVE  /\ ~slotfree'[loc[q].slot] /\ q \in slotmap'[loc[q].slot]
                          /\ \A r \in Proc, j \in Index : Holds(r, j, loc[q].slot)' => j = loc[q].i
        BY DEF InInv, Holds, Index
      <4> QED
        BY <1>1, <2>2, <3>1 DEF InInv
    <3>4. PlaceInv(q)'
      BY <2>2, <3>1 DEF PlaceInv, Page
    <3> QED
      BY <3>2, <3>3, <3>4
  <2> QED
    BY <2>1, <2>2
<1> QED
  BY <1>2, <1>3

LEMMA ExitInv ==
  ASSUME Inv, NEW p \in Proc, Exit(p)
  PROVE  Inv'
<1> DEFINE leaves == {pte[p][i].n : i \in {j \in Index \ {0} :
                        j < sz[p] /\ ~pte[p][j].p /\ pte[p][j].n # 0}}
           left == [s \in Slot |-> IF s \in leaves THEN RmapRm(slotmap[s], p) ELSE slotmap[s]]
<1>1. /\ state' = [state EXCEPT ![p] = "zombie"] /\ slotmap' = left
      /\ slotfree' = [s \in Slot |-> slotfree[s] \/ (s \in leaves /\ left[s] = {})]
      /\ pc[p] = "user"
      /\ UNCHANGED <<sz, rss, pte, rmap, free, mem, slotdata, cr3, pc, loc, panicked>>
  BY DEF Exit, User
<1> HIDE DEF leaves
<1>2. TypeOK'
  <2>1. /\ state' \in [Proc -> {"unused", "running", "zombie"}]
        /\ slotmap' \in [Slot -> SUBSET Proc] /\ slotfree' \in [Slot -> BOOLEAN]
    BY <1>1 DEF Inv, TypeOK, RmapRm
  <2> QED
    BY <1>1, <2>1 DEF Inv, TypeOK
<1>3. PageInv'
  <2>1. SameView
    BY <1>1 DEF SameView
  <2> QED
    BY <1>1, <2>1, FramePages DEF Inv
<1>4. SlotInv' /\ LocInv'
  <2>1. \A q \in Proc : q # p => state'[q] = state[q] /\ sz'[q] = sz[q]
    BY <1>1 DEF Inv, TypeOK
  <2>2. \A j \in Index, t \in Slot : ~Holds(p, j, t)'
    <3>1. state'[p] # "running"
      BY <1>1 DEF Inv, TypeOK
    <3> QED
      BY <3>1 DEF Holds
  <2>3. ASSUME NEW q \in Proc, NEW t \in Slot, q # p, ~slotfree[t], q \in slotmap[t]
        PROVE  ~slotfree'[t] /\ q \in slotmap'[t]
    <3>1. q \in left[t]
      BY <2>3 DEF RmapRm
    <3> QED
      BY <1>1, <2>3, <3>1
  <2> QED
    BY <1>1, <2>1, <2>2, <2>3, FamilySlots
<1> QED
  BY <1>2, <1>3, <1>4 DEF Inv

LEMMA ForkInv ==
  ASSUME Inv, NEW p \in Proc, NEW c \in Proc, Fork(p, c)
  PROVE  Inv'
<1> DEFINE inside == {i \in Index : i < sz[p]}
           shared == [i \in Index |-> IF i \in inside THEN [pte[p][i] EXCEPT !.w = FALSE] ELSE pte[p][i]]
           copied == [i \in Index |-> IF i \in inside THEN shared[i] ELSE Zeroed]
<1>1. /\ state[p] = "running" /\ pc[p] = "user" /\ state[c] = "unused" /\ c # p
      /\ UNCHANGED <<free, mem, slotmap, slotfree, slotdata, pc, loc>>
      /\ panicked' = \E i \in inside : ~pte[p][i].p
  BY DEF Fork, User, swap
<1>2. CASE \E i \in inside : ~pte[p][i].p
  <2>1. UNCHANGED <<state, sz, rss, pte, rmap, cr3>> /\ panicked' = TRUE
    BY <1>1, <1>2 DEF Fork
  <2>2. TypeOK' /\ SameView
    BY <1>1, <2>1 DEF Inv, TypeOK, SameView
  <2> QED
    BY <1>1, <2>1, <2>2, Quiet
<1>3. CASE ~ \E i \in inside : ~pte[p][i].p
  <2>1. /\ pte' = [pte EXCEPT ![p] = shared, ![c] = copied]
        /\ rmap' = [g \in Page |-> IF \E i \in inside : pte[p][i].n = g THEN RmapAdd(rmap[g], c) ELSE rmap[g]]
        /\ state' = [state EXCEPT ![c] = "running"]
        /\ sz' = [sz EXCEPT ![c] = sz[p]]
        /\ rss' = [rss EXCEPT ![c] = rss[p]]
        /\ cr3' = [cr3 EXCEPT ![p] = p, ![c] = c]
    BY <1>3, Zenon DEF Fork
  <2>2. panicked' = FALSE
    BY <1>1, <1>3
  <2>3. ASSUME NEW i \in Index
        PROVE  shared[i] \in Entry /\ shared[i].p = pte[p][i].p /\ shared[i].n = pte[p][i].n
    BY PteFacts, EntryBits DEF Inv
  <2>4. Zeroed \in Entry /\ Zeroed.p = FALSE /\ Zeroed.n = 0
    BY Constants, SwappedEntry DEF Zeroed
  <2>5. shared \in [Index -> Entry] /\ copied \in [Index -> Entry]
    BY <2>3, <2>4
  <2>6. \A i \in Index : copied[i] = IF i \in inside THEN shared[i] ELSE Zeroed
    OBVIOUS
  <2> HIDE DEF shared, copied
  <2>7. pte'[p] = shared /\ pte'[c] = copied /\ \A q \in Proc : q # p /\ q # c => pte'[q] = pte[q]
    BY <1>1, <2>1 DEF Inv, TypeOK
  <2>8. \A q \in Proc, j \in Index : q # c => pte'[q][j].p = pte[q][j].p /\ pte'[q][j].n = pte[q][j].n
    BY <2>3, <2>7
  <2>9. ASSUME NEW j \in Index
        PROVE  /\ j \in inside => pte'[c][j].p /\ pte[p][j].p /\ pte'[c][j].n = pte[p][j].n
               /\ j \notin inside => ~pte'[c][j].p /\ pte'[c][j].n = 0
    BY <1>3, <2>3, <2>4, <2>6, <2>7
  <2> HIDE DEF inside
  <2>10. ASSUME NEW q \in Proc, NEW j \in Index, pte'[q][j].p
         PROVE  \E r \in Proc : pte[r][j].p /\ pte[r][j].n = pte'[q][j].n
    BY <2>8, <2>9, <2>10
  <2>11. /\ rmap' \in [Page -> SUBSET Proc]
         /\ \A g \in Page : rmap[g] \subseteq rmap'[g]
         /\ \A g \in Page, j \in inside : pte[p][j].n = g => c \in rmap'[g]
    BY <2>1 DEF Inv, TypeOK, RmapAdd
  <2>12. TypeOK'
    <3>1. pte' \in [Proc -> [Index -> Entry]]
      BY <2>1, <2>5 DEF Inv, TypeOK
    <3> QED
      BY <1>1, <2>1, <2>2, <2>11, <3>1 DEF Inv, TypeOK
  <2>13. PageInv'
    <3>1. OnePlace'
      <4> SUFFICES ASSUME NEW q \in Proc, NEW r \in Proc, NEW j \in Index, NEW k \in Index,
                          pte'[q][j].p, pte'[r][k].p, pte'[q][j].n = pte'[r][k].n
                   PROVE  j = k
        BY DEF OnePlace, Index
      <4>1. PICK y \in Proc : pte[y][j].p /\ pte[y][j].n = pte'[q][j].n
        BY <2>10
      <4>2. PICK z \in Proc : pte[z][k].p /\ pte[z][k].n = pte'[r][k].n
        BY <2>10
      <4> QED
        BY <4>1, <4>2 DEF Inv, PageInv, OnePlace
    <3>2. Listed'
      <4> SUFFICES ASSUME NEW q \in Proc, NEW j \in Index, pte'[q][j].p PROVE q \in rmap'[pte'[q][j].n]
        BY DEF Listed, Index
      <4>1. CASE q = c
        <5>1. j \in inside /\ pte[p][j].p /\ pte'[c][j].n = pte[p][j].n
          BY <2>9, <4>1
        <5>2. pte[p][j].n \in Page
          BY <5>1, PteFacts DEF Inv
        <5> QED
          BY <2>11, <4>1, <5>1, <5>2
      <4>2. CASE q # c
        <5>1. pte[q][j].p /\ pte'[q][j].n = pte[q][j].n
          BY <2>8, <4>2
        <5>2. pte[q][j].n \in Page /\ q \in rmap[pte[q][j].n]
          BY <5>1, PteFacts DEF Inv, PageInv, Listed
        <5> QED
          BY <2>11, <5>1, <5>2
      <4> QED
        BY <4>1, <4>2
    <3>3. \A g : Unmapped(g) => Unmapped(g)'
      <4> SUFFICES ASSUME NEW g, Unmapped(g), NEW q \in Proc, NEW j \in Index, pte'[q][j].p, pte'[q][j].n = g
                   PROVE  FALSE
        BY DEF Unmapped, Index
      <4> QED
        BY <2>10 DEF Unmapped
    <3>4. FreeInv' /\ HandInv'
      BY <1>1, <3>3 DEF Inv, PageInv, FreeInv, HandInv, Page
    <3>5. NumberInv'
      <4> SUFFICES ASSUME NEW q \in Proc, NEW j \in Index, ~pte'[q][j].p PROVE pte'[q][j].n \notin Page
        BY DEF NumberInv, Index, Page
      <4>1. CASE q = c
        <5>1. pte'[q][j].n = 0
          BY <2>9, <4>1
        <5> QED
          BY <5>1, Constants
      <4>2. CASE q # c
        BY <2>8, <4>2 DEF Inv, PageInv, NumberInv
      <4> QED
        BY <4>1, <4>2
    <3> QED
      BY <3>1, <3>2, <3>4, <3>5 DEF PageInv
  <2>14. SlotInv' /\ LocInv'
    <3>1. pc[c] = "user"
      BY <1>1 DEF Inv, LocInv, PlaceInv
    <3>2. \A q \in Proc : q # c => state'[q] = state[q] /\ sz'[q] = sz[q]
      BY <2>1 DEF Inv, TypeOK
    <3>3. ASSUME NEW j \in Index, NEW t \in Slot, Holds(c, j, t)' PROVE FALSE
      <4>1. j < sz[p] /\ ~pte'[c][j].p
        BY <2>1, <3>3 DEF Holds, Inv, TypeOK
      <4> QED
        BY <2>9, <4>1 DEF inside
    <3> QED
      BY <1>1, <2>8, <3>1, <3>2, <3>3, FamilySlots
  <2> QED
    BY <2>12, <2>13, <2>14 DEF Inv
<1> QED
  BY <1>2, <1>3

LEMMA ReapInv ==
  ASSUME Inv, NEW p \in Proc, NEW c \in Proc, Reap(p, c)
  PROVE  Inv'
<1> DEFINE mapped == {pte[c][i].n : i \in {j \in Index : pte[c][j].p}}
           left == [g \in Page |-> IF g \in mapped THEN RmapRm(rmap[g], c) ELSE rmap[g]]
<1>1. /\ state[c] = "zombie" /\ rmap' = left
      /\ free' = free \cup {g \in mapped : left[g] = {}}
      /\ pte' = [pte EXCEPT ![c] = [i \in Index |-> Zeroed]]
      /\ state' = [state EXCEPT ![c] = "unused"]
      /\ sz' = [sz EXCEPT ![c] = 0]
      /\ UNCHANGED <<rss, mem, slotmap, slotfree, slotdata, cr3, pc, loc, panicked>>
  BY DEF Reap, swap
<1>2. mapped \subseteq Page
  BY PteFacts DEF Inv
<1>3. \A g \in Page : Unmapped(g) => g \notin mapped
  BY DEF Unmapped
<1>4. Zeroed \in Entry /\ Zeroed.p = FALSE /\ Zeroed.n = 0
  BY Constants, SwappedEntry DEF Zeroed
<1>5. \A q \in Proc, j \in Index : pte'[q][j] = IF q = c THEN Zeroed ELSE pte[q][j]
  BY <1>1 DEF Inv, TypeOK
<1>6. left \in [Page -> SUBSET Proc] /\ \A q \in Proc, g \in Page : q # c /\ q \in rmap[g] => q \in left[g]
  BY DEF Inv, TypeOK, RmapRm
<1> HIDE DEF mapped, left
<1>7. TypeOK'
  <2>1. [i \in Index |-> Zeroed] \in [Index -> Entry]
    BY <1>4
  <2>2. pte' \in [Proc -> [Index -> Entry]]
    BY <1>1, <2>1 DEF Inv, TypeOK
  <2>3. sz' \in [Proc -> 0 .. MaxPages] /\ state' \in [Proc -> {"unused", "running", "zombie"}]
    BY <1>1, Constants DEF Inv, TypeOK
  <2>4. free' \subseteq Page
    BY <1>1, <1>2 DEF Inv, TypeOK
  <2> QED
    BY <1>1, <1>6, <2>2, <2>3, <2>4 DEF Inv, TypeOK
<1>8. ASSUME NEW q \in Proc, NEW j \in Index, pte'[q][j].p
      PROVE  /\ q # c /\ pte'[q][j] = pte[q][j] /\ pte[q][j].p
             /\ pte[q][j].n \in Page /\ q \in rmap[pte[q][j].n] /\ q \in left[pte[q][j].n]
  <2>1. q # c /\ pte'[q][j] = pte[q][j] /\ pte[q][j].p
    BY <1>4, <1>5, <1>8
  <2>2. pte[q][j].n \in Page /\ q \in rmap[pte[q][j].n]
    BY <2>1, PteFacts DEF Inv, PageInv, Listed
  <2> QED
    BY <1>6, <2>1, <2>2
<1>9. PageInv'
  <2>1. OnePlace'
    <3> SUFFICES ASSUME NEW q \in Proc, NEW r \in Proc, NEW j \in Index, NEW k \in Index,
                        pte'[q][j].p, pte'[r][k].p, pte'[q][j].n = pte'[r][k].n
                 PROVE  j = k
      BY DEF OnePlace, Index
    <3>1. pte'[q][j] = pte[q][j] /\ pte[q][j].p /\ pte'[r][k] = pte[r][k] /\ pte[r][k].p
      BY <1>8
    <3> QED
      BY <3>1 DEF Inv, PageInv, OnePlace
  <2>2. Listed'
    <3> SUFFICES ASSUME NEW q \in Proc, NEW j \in Index, pte'[q][j].p PROVE q \in rmap'[pte'[q][j].n]
      BY DEF Listed, Index
    <3> QED
      BY <1>1, <1>8
  <2>3. \A g : Unmapped(g) => Unmapped(g)'
    <3> SUFFICES ASSUME NEW g, Unmapped(g), NEW q \in Proc, NEW j \in Index, pte'[q][j].p, pte'[q][j].n = g
                 PROVE  FALSE
      BY DEF Unmapped, Index
    <3> QED
      BY <1>8 DEF Unmapped
  <2>4. FreeInv'
    <3> SUFFICES ASSUME NEW g \in free' PROVE Unmapped(g)'
      BY DEF FreeInv
    <3>1. CASE g \in free
      BY <2>3, <3>1 DEF Inv, PageInv, FreeInv
    <3>2. CASE g \in mapped /\ left[g] = {}
      <4> SUFFICES ASSUME NEW q \in Proc, NEW j \in Index, pte'[q][j].p, pte'[q][j].n = g PROVE FALSE
        BY DEF Unmapped, Index
      <4>1. q \in left[pte[q][j].n] /\ pte[q][j].n = g
        BY <1>8
      <4> QED
        BY <3>2, <4>1
    <3> QED
      BY <1>1, <3>1, <3>2
  <2>5. HandInv'
    <3> SUFFICES ASSUME NEW q \in Proc, loc[q].page \in Page PROVE loc[q].page \notin free' /\ Unmapped(loc[q].page)'
      BY <1>1 DEF HandInv, Page, Unmapped
    <3>1. PICK g \in Page : g = loc[q].page
      OBVIOUS
    <3>2. g \notin free /\ Unmapped(g)
      BY <3>1 DEF Inv, PageInv, HandInv
    <3>3. g \notin free'
      BY <1>1, <1>3, <3>2
    <3> QED
      BY <1>1, <2>3, <3>1, <3>2, <3>3 DEF Unmapped
  <2>6. NumberInv'
    <3> SUFFICES ASSUME NEW q \in Proc, NEW j \in Index, ~pte'[q][j].p PROVE pte'[q][j].n \notin Page
      BY DEF NumberInv, Index, Page
    <3> QED
      BY <1>4, <1>5, Constants DEF Inv, PageInv, NumberInv
  <2> QED
    BY <2>1, <2>2, <2>4, <2>5, <2>6 DEF PageInv
<1>10. SlotInv' /\ LocInv'
  <2>1. pc[c] = "user"
    BY <1>1 DEF Inv, LocInv, PlaceInv
  <2>2. \A q \in Proc : q # c => state'[q] = state[q] /\ sz'[q] = sz[q]
    BY <1>1 DEF Inv, TypeOK
  <2>3. \A j \in Index, t \in Slot : ~Holds(c, j, t)'
    <3>1. state'[c] # "running"
      BY <1>1 DEF Inv, TypeOK
    <3> QED
      BY <3>1 DEF Holds
  <2>4. \A q \in Proc, j \in Index : q # c => pte'[q][j].p = pte[q][j].p /\ pte'[q][j].n = pte[q][j].n
    BY <1>5
  <2> QED
    BY <1>1, <2>1, <2>2, <2>3, <2>4, FamilySlots
<1> QED
  BY <1>7, <1>9, <1>10 DEF Inv

-----------------------------------------------------------------------------
LEMMA StepInv ==
  ASSUME Inv, Orderly, Orderly', [Next]_vars
  PROVE  Inv'
<1>1. CASE UNCHANGED vars
  <2>1. TypeOK' /\ SameView
    BY <1>1 DEF Inv, TypeOK, SameView, vars
  <2> QED
    BY <1>1, <2>1, Quiet DEF vars
<1>2. ASSUME NEW p \in Proc, NEW g \in Page, TakeFree(p, g) PROVE Inv'
  BY <1>2, TakeFreeInv
<1>3. ASSUME NEW p \in Proc, NEW v \in Proc, SwapOut(p, v) PROVE Inv'
  BY <1>3, SwapOutInv
<1>4. ASSUME NEW p \in Proc,
             Evict(p) \/ ClearAccessed(p) \/ EvictWrite(p) \/ CopyPage(p) \/ SwapRead(p) \/ SwapMap(p) \/ GrowMap(p)
      PROVE  Inv'
  BY <1>4, EvictInv, ClearAccessedInv, EvictWriteInv, CopyPageInv, SwapReadInv, SwapMapInv, GrowMapInv
<1>5. ASSUME NEW p \in Proc, Grow(p) \/ Exit(p) \/ Reschedule(p) PROVE Inv'
  BY <1>5, GrowInv, ExitInv, RescheduleInv
<1>6. ASSUME NEW p \in Proc, NEW c \in Proc, Fork(p, c) \/ Reap(p, c) PROVE Inv'
  BY <1>6, ForkInv, ReapInv
<1>7. ASSUME NEW p \in Proc, NEW i \in Index, Read(p, i) \/ Fault(p, i) PROVE Inv'
  BY <1>7, ReadInv, FaultInv
<1>8. ASSUME NEW p \in Proc, NEW i \in Index, NEW v \in Val, Write(p, i, v) PROVE Inv'
  BY <1>8, WriteInv
<1> QED
  BY <1>1, <1>2, <1>3, <1>4, <1>5, <1>6, <1>7, <1>8 DEF Next, Kernel

(* The inductive invariant: the pages and slots a process in the kernel has  *)
(* in its local variables are still what it took them for when it uses them. *)
THEOREM Invariant == Spec /\ []Orderly => []Inv
<1>1. Inv /\ Orderly /\ Orderly' /\ [Next]_vars => Inv'
  BY StepInv
<1> QED
  BY InitInv, <1>1, PTL DEF Spec

(* swap_in(), swap_out(), allocuvm(), copyuvm(), exit() and freevm() keep     *)
(* the type of every variable.                                              *)
THEOREM TypeCorrect == Spec /\ []Orderly => []TypeOK
<1>1. Inv => TypeOK
  BY DEF Inv
<1> QED
  BY Invariant, <1>1, PTL

(* kalloc() and swap_out() (kalloc.c:88-111, pageswap.c:202-215) never give   *)
(* away a page that a process can still reach, or that another one was given. *)
THEOREM OneRole == Spec /\ []Orderly => []PageHasOneRole
<1>1. ASSUME Inv, Orderly PROVE PageHasOneRole
  <2> SUFFICES ASSUME NEW g \in Page
               PROVE  /\ Cardinality(InHand(g)) <= 1
                      /\ InHand(g) # {} => g \notin free /\ Mappers(g) = {}
                      /\ Mappers(g) # {} => g \notin free
    BY DEF PageHasOneRole
  <2>1. Cardinality(InHand(g)) <= 1
    <3>1. ASSUME NEW p \in InHand(g), NEW q \in InHand(g) PROVE p = q
      <4>1. p \in Proc /\ q \in Proc /\ loc[p].page # 0 /\ loc[q].page # 0
        BY Constants DEF InHand
      <4>2. pc[p] # "user" /\ pc[q] # "user"
        BY <4>1, <1>1 DEF Inv, LocInv, PlaceInv
      <4> QED
        BY <4>1, <4>2, <1>1 DEF Orderly, OneInKernel
    <3>2. CASE InHand(g) = {}
      <4>1. Cardinality(InHand(g)) = 0
        BY <3>2, FS_EmptySet
      <4> QED
        BY <4>1
    <3>3. CASE InHand(g) # {}
      <4>1. PICK p \in InHand(g) : TRUE
        BY <3>3
      <4>2. InHand(g) = {p}
        BY <3>1, <4>1
      <4>3. Cardinality({p}) = 1
        BY FS_Singleton
      <4> QED
        BY <4>2, <4>3
    <3> QED
      BY <3>2, <3>3
  <2>2. ASSUME InHand(g) # {} PROVE g \notin free /\ Mappers(g) = {}
    <3>1. PICK p \in Proc : loc[p].page = g
      BY <2>2 DEF InHand
    <3>2. g \notin free /\ Unmapped(g)
      BY <1>1, <3>1 DEF Inv, PageInv, HandInv
    <3> QED
      BY <3>2 DEF Unmapped, Mappers
  <2>3. ASSUME Mappers(g) # {} PROVE g \notin free
    BY <1>1, <2>3 DEF Inv, PageInv, FreeInv, Unmapped, Mappers
  <2> QED
    BY <2>1, <2>2, <2>3
<1> QED
  BY Invariant, <1>1, PTL

(* An entry that names a slot.                                              *)
LEMMA HolderHolds ==
  ASSUME Inv, NEW s \in Slot, NEW q \in Holders(s)
  PROVE  \E i \in Index : Holds(q, i, s)
<1>1. q \in Proc /\ state[q] = "running"
  BY DEF Holders
<1>2. PICK i \in 1 .. sz[q] - 1 : pte[q][i] = Swapped(s)
  BY DEF Holders
<1>3. sz[q] \in Nat /\ sz[q] <= MaxPages
  BY <1>1, Constants DEF Inv, TypeOK
<1>4. i \in Index /\ i < sz[q]
  BY <1>3, Constants DEF Index
<1> QED
  BY <1>1, <1>2, <1>4, SwappedEntry DEF Holds

(* write_slotnums_to_ptes() and swap_in() (pageswap.c:183-200, 235-251) reach *)
(* every process that maps the page or waits for it: it is in the reverse map *)
(* of the page, or in the one saved in the slot.                            *)
THEOREM UsersListed == Spec /\ []Orderly => []EveryUserListed
<1>1. ASSUME Inv PROVE EveryUserListed
  <2>1. ASSUME NEW g \in Page, NEW q \in Mappers(g) PROVE q \in Users(g)
    BY <1>1 DEF Mappers, Users, Inv, PageInv, Listed
  <2>2. ASSUME NEW s \in Slot \ {0}, NEW q \in Holders(s) PROVE q \in slotmap[s]
    <3>1. PICK i \in Index : Holds(q, i, s)
      BY <1>1, HolderHolds
    <3> QED
      BY <1>1, <3>1 DEF Inv, SlotInv, HeldInv, Holders
  <2> QED
    BY <2>1, <2>2 DEF EveryUserListed
<1> QED
  BY Invariant, <1>1, PTL

(* clear_swap_slots() and swap_in() (pageswap.c:257-277, 253) free a slot only *)
(* when no running process has its page there any more.                     *)
THEOREM SlotsKept == Spec /\ []Orderly => []SlotKept
<1>1. ASSUME Inv PROVE SlotKept
  <2> SUFFICES ASSUME NEW s \in Slot, NEW q \in Holders(s) PROVE ~slotfree[s]
    BY DEF SlotKept
  <2>1. PICK i \in Index : Holds(q, i, s)
    BY <1>1, HolderHolds
  <2> QED
    BY <1>1, <2>1 DEF Inv, SlotInv, HeldInv, Holders
<1> QED
  BY Invariant, <1>1, PTL

-----------------------------------------------------------------------------
(* A process that never forks.  Nobody else has a page or a slot, a slot in  *)
(* use holds a page of its own, and it never copies a page.                 *)
LoneProcess ==
  /\ state[First] = "running" /\ sz[First] > 0 /\ cr3[First] = First
  /\ \A q \in Proc : q # First => state[q] = "unused" /\ \A i \in Index : ~pte[q][i].p
LonePlaces ==
  /\ \A g \in Page : rmap[g] \subseteq {First}
  /\ \A s \in Slot : slotmap[s] \subseteq {First}
  /\ \A s \in Slot : ~slotfree[s] => \E i \in Index : Holds(First, i, s)
LoneFault ==
  /\ loc[First].why # "cow"
  /\ loc[First].why = "in" => Holds(First, loc[First].i, loc[First].slot)
  /\ pc[First] = "map" => mem[loc[First].page] = slotdata[loc[First].slot]
Lone == LoneProcess /\ LonePlaces /\ LoneFault

(* What the process sees at page i.                                         *)
Sees(i) ==
  IF pte[First][i].p THEN mem[pte[First][i].n]
  ELSE IF pc[First] = "evict" /\ loc[First].out = pte[First][i].n THEN mem[loc[First].page]
  ELSE slotdata[pte[First][i].n]
SameSees == sz'[First] = sz[First] /\ \A i \in Index : i < sz[First] => Sees(i)' = Sees(i)

LEMMA LoneIdle ==
  ASSUME Inv, Lone
  PROVE  OneInKernel /\ \A q \in Proc : q # First => pc[q] = "user" /\ loc[q].page = 0
BY DEF Inv, LocInv, PlaceInv, Lone, LoneProcess, OneInKernel

LEMMA LoneInit == Init => Lone
<1> SUFFICES ASSUME Init PROVE Lone
  OBVIOUS
<1>1. First \in Proc /\ Zeroed.p = FALSE
  BY Constants, SwappedEntry DEF Zeroed
<1>2. LoneProcess
  BY <1>1 DEF Init, LoneProcess
<1>3. LonePlaces
  BY <1>1 DEF Init, LonePlaces
<1>4. LoneFault
  BY <1>1, NoLocType DEF Init, LoneFault
<1> QED
  BY <1>2, <1>3, <1>4 DEF Lone

(* No other process takes a step.                                           *)
LEMMA LoneSteps ==
  ASSUME Inv, Lone, Next, UNCHANGED state
  PROVE  \/ \E i \in Index : Read(First, i) \/ Fault(First, i) \/ \E v \in Val : Write(First, i, v)
         \/ Grow(First) \/ \E c \in Proc : Fork(First, c) /\ UNCHANGED <<pte, rmap, sz, rss, cr3>>
         \/ \E g \in Page : TakeFree(First, g)
         \/ \E v \in Proc : SwapOut(First, v)
         \/ Evict(First) \/ ClearAccessed(First) \/ EvictWrite(First) \/ SwapRead(First)
         \/ SwapMap(First) \/ GrowMap(First)
<1>1. First \in Proc
  BY Constants
<1>2. \A p \in Proc : state[p] = "running" \/ pc[p] # "user" => p = First
  BY LoneIdle DEF Lone, LoneProcess
<1>3. ASSUME NEW p \in Proc, Kernel(p) PROVE p = First /\ ~CopyPage(p)
  <2>1. pc[p] # "user"
    BY <1>3 DEF Kernel, TakeFree, SwapOut, Evict, ClearAccessed, EvictWrite, CopyPage, SwapRead, SwapMap, GrowMap, In
  <2>2. pc[First] # "cow"
    BY <1>1 DEF Inv, LocInv, PlaceInv, Lone, LoneFault
  <2> QED
    BY <1>2, <2>1, <2>2 DEF CopyPage, In
<1>4. ASSUME NEW p \in Proc, Grow(p) \/ Exit(p) \/ Reschedule(p) PROVE p = First /\ Grow(p)
  <2>1. p = First
    BY <1>2, <1>4 DEF Grow, Exit, Reschedule, User
  <2> QED
    BY <1>4, <2>1 DEF Exit, Reschedule, Lone, LoneProcess
<1>5. ASSUME NEW p \in Proc, NEW c \in Proc, Fork(p, c) \/ Reap(p, c)
      PROVE  p = First /\ Fork(p, c) /\ UNCHANGED <<pte, rmap, sz, rss, cr3>>
  <2>1. p = First
    BY <1>2, <1>5 DEF Fork, Reap, User
  <2>2. ~Reap(p, c)
    BY <1>2 DEF Reap, Lone, LoneProcess
  <2>3. state'[c] # "running" /\ state \in [Proc -> {"unused", "running", "zombie"}]
    BY <1>5, <2>2 DEF Fork, Inv, TypeOK
  <2>4. state' # [state EXCEPT ![c] = "running"]
    BY <2>3
  <2>5. CASE \E i \in {j \in Index : j < sz[p]} : ~pte[p][i].p
    BY <1>5, <2>1, <2>2, <2>5 DEF Fork
  <2>6. CASE ~ \E i \in {j \in Index : j < sz[p]} : ~pte[p][i].p
    <3>1. state' = [state EXCEPT ![c] = "running"]
      BY <1>5, <2>2, <2>6, Zenon DEF Fork
    <3> QED
      BY <2>4, <3>1
  <2> QED
    BY <2>5, <2>6
<1>6. ASSUME NEW p \in Proc, NEW i \in Index, Read(p, i) \/ Fault(p, i) \/ \E v \in Val : Write(p, i, v)
      PROVE  p = First
  BY <1>2, <1>6 DEF Read, Fault, Write, User
<1>7. CASE \E p \in Proc : Kernel(p)
  <2>1. PICK p \in Proc : Kernel(p)
    BY <1>7
  <2>2. Kernel(First) /\ ~CopyPage(First)
    BY <1>3, <2>1
  <2> QED
    BY <2>2 DEF Kernel
<1>8. CASE ~ \E p \in Proc : Kernel(p)
  BY <1>1, <1>4, <1>5, <1>6, <1>8 DEF Next
<1> QED
  BY <1>7, <1>8

(* A step that leaves all pages and slots as they are.                      *)
LEMMA LoneQuiet ==
  ASSUME Inv, Lone, SameView, UNCHANGED <<state, sz, rmap, slotmap, slotfree, mem, slotdata>>,
         cr3'[First] = First, pc[First] # "evict", pc'[First] \notin {"evict", "map"},
         loc'[First].why # "cow", loc'[First].i \in Index,
         loc'[First].why = "in" => Holds(First, loc'[First].i, loc'[First].slot)
  PROVE  Lone' /\ SameSees
<1>1. First \in Proc
  BY Constants
<1>2. \A i, s : i \in Index => (Holds(First, i, s)' <=> Holds(First, i, s))
  BY <1>1 DEF Holds, SameView
<1>3. LoneProcess'
  BY <1>1 DEF Lone, LoneProcess, SameView, Index
<1>4. LonePlaces'
  BY <1>2 DEF Lone, LonePlaces, Page, Slot, Index
<1>5. LoneFault'
  BY <1>1, <1>2 DEF LoneFault, Holds
<1>6. SameSees
  BY <1>1 DEF SameSees, Sees, SameView, Index
<1> QED
  BY <1>3, <1>4, <1>5, <1>6 DEF Lone

LEMMA LoneEasy ==
  ASSUME Inv, Lone,
         \/ \E i \in Index : Read(First, i) \/ Fault(First, i)
         \/ Grow(First) \/ \E c \in Proc : Fork(First, c) /\ UNCHANGED <<state, pte, rmap, sz, rss, cr3>>
         \/ \E g \in Page : TakeFree(First, g)
         \/ \E v \in Proc : SwapOut(First, v)
         \/ ClearAccessed(First)
  PROVE  Lone' /\ SameSees
<1>1. First \in Proc /\ cr3[First] = First /\ state[First] = "running"
  BY Constants DEF Lone, LoneProcess
<1>2. /\ loc \in [Proc -> LocRecord] /\ loc[First] \in LocRecord /\ loc[First].i \in Index
      /\ pc \in [Proc -> {"user", "alloc", "victim", "evict", "cow", "in", "map", "grow"}]
      /\ cr3 \in [Proc -> Proc]
  BY <1>1, LocType DEF Inv, TypeOK
<1>3. loc[First].why # "cow" /\ (loc[First].why = "in" => Holds(First, loc[First].i, loc[First].slot))
  BY DEF Lone, LoneFault
<1>4. ASSUME SameView, UNCHANGED <<state, sz, rmap, slotmap, slotfree, mem, slotdata, cr3>>,
             loc'[First].why = loc[First].why, loc'[First].i = loc[First].i, loc'[First].slot = loc[First].slot,
             pc[First] # "evict", pc'[First] \notin {"evict", "map"}
      PROVE  Lone' /\ SameSees
  BY <1>1, <1>2, <1>3, <1>4, LoneQuiet
<1>5. ASSUME NEW i \in Index, Read(First, i) PROVE Lone' /\ SameSees
  <2>1. pte[First][i] \in Entry /\ pte[First][i].p
    BY <1>1, <1>5, PteFacts DEF Inv, Read
  <2>2. PICK e \in Entry : e = [pte[First][i] EXCEPT !.a = TRUE] /\ e.p = pte[First][i].p /\ e.n = pte[First][i].n
    BY <2>1, EntryBits
  <2>3. pte' = [pte EXCEPT ![First][i] = e]
    BY <1>1, <1>5, <2>2 DEF Read
  <2>4. SameView
    BY <1>1, <2>2, <2>3, OneEntry DEF Inv
  <2> QED
    BY <1>4, <1>5, <2>4 DEF Read, User, swap
<1>6. ASSUME NEW i \in Index, Fault(First, i) PROVE Lone' /\ SameSees
  <2>1. PICK old \in Entry : old = pte[First][i]
    BY <1>1, PteFacts DEF Inv
  <2>2. (old.p => old.n \in Page) /\ (~old.p => old.n \in Slot)
    BY EntryFields
  <2>3. CASE old.p
    <3>1. rmap[old.n] = {First}
      BY <1>1, <2>1, <2>2, <2>3 DEF Lone, LonePlaces, Inv, PageInv, Listed
    <3>2. Cardinality(rmap[old.n]) = 1
      BY <3>1, FS_Singleton
    <3>3. /\ pte' = [pte EXCEPT ![First][i].w = TRUE]
          /\ cr3' = (IF old.w THEN cr3 ELSE [cr3 EXCEPT ![First] = First])
          /\ UNCHANGED <<pc, loc, state, sz, rmap, mem, slotmap, slotfree, slotdata>> /\ pc[First] = "user"
      BY <1>6, <2>1, <2>3, <3>2, Zenon DEF Fault, swap, User
    <3>4. cr3' = cr3
      BY <1>1, <1>2, <3>3
    <3>5. PICK e \in Entry : e = [old EXCEPT !.w = TRUE] /\ e.p = old.p /\ e.n = old.n
      BY <2>3, EntryBits
    <3>6. pte' = [pte EXCEPT ![First][i] = e]
      BY <2>1, <3>3, <3>5
    <3>7. SameView
      BY <1>1, <2>1, <3>5, <3>6, OneEntry DEF Inv
    <3> QED
      BY <1>4, <3>3, <3>4, <3>7
  <2>4. CASE ~old.p
    <3>1. PICK e : e = [NoLoc EXCEPT !.why = "in", !.i = i, !.pa = 0, !.slot = old.n]
      OBVIOUS
    <3>2. e.why = "in" /\ e.i = i /\ e.slot = old.n
      BY <3>1, NoLocType DEF LocRecord
    <3>3. /\ pc' = [pc EXCEPT ![First] = "alloc"] /\ loc' = [loc EXCEPT ![First] = e]
          /\ pc[First] = "user" /\ i < sz[First]
          /\ UNCHANGED <<state, sz, pte, rmap, mem, slotmap, slotfree, slotdata, cr3>>
      <4>1. /\ pc' = [pc EXCEPT ![First] = "alloc"] /\ pc[First] = "user" /\ i < sz[First]
            /\ UNCHANGED <<state, sz, pte, rmap, mem, slotmap, slotfree, slotdata, cr3>>
        BY <1>6, <2>1, <2>4, Zenon DEF Fault, Goto, User, swap
      <4>2. loc' = [loc EXCEPT ![First] = [NoLoc EXCEPT
                      !.why = IF old.p THEN "cow" ELSE "in", !.i = i,
                      !.pa = IF old.p THEN old.n ELSE 0,
                      !.slot = IF old.p THEN 0 ELSE old.n]]
        BY <1>6, <2>1, <2>4, Zenon DEF Fault
      <4> QED
        BY <2>4, <3>1, <4>1, <4>2
    <3>4. loc'[First] = e /\ pc'[First] = "alloc"
      BY <1>1, <1>2, <3>3
    <3>5. Holds(First, i, old.n)
      BY <1>1, <2>1, <2>4, <3>3 DEF Holds
    <3>6. SameView
      BY <3>3 DEF SameView
    <3> QED
      BY <1>1, <3>2, <3>3, <3>4, <3>5, <3>6, LoneQuiet
  <2> QED
    BY <2>3, <2>4
<1>7. ASSUME Grow(First) PROVE Lone' /\ SameSees
  <2>1. PICK e : e = [NoLoc EXCEPT !.why = "grow", !.i = sz[First]]
    OBVIOUS
  <2>2. e.why = "grow" /\ e.i = sz[First] /\ sz[First] \in Index
    BY <1>1, <1>7, <2>1, NoLocType, Constants DEF LocRecord, Grow, Inv, TypeOK
  <2>3. /\ pc' = [pc EXCEPT ![First] = "alloc"] /\ loc' = [loc EXCEPT ![First] = e]
        /\ pc[First] = "user"
        /\ UNCHANGED <<state, sz, pte, rmap, mem, slotmap, slotfree, slotdata, cr3>>
    BY <1>7, <2>1 DEF Grow, Goto, User, swap
  <2>4. loc'[First] = e /\ pc'[First] = "alloc" /\ SameView
    BY <1>1, <1>2, <2>3 DEF SameView
  <2> QED
    BY <1>1, <2>2, <2>3, <2>4, LoneQuiet
<1>8. ASSUME NEW c \in Proc, Fork(First, c), UNCHANGED <<state, pte, rmap, sz, rss, cr3>> PROVE Lone' /\ SameSees
  <2>1. SameView
    BY <1>8 DEF SameView
  <2> QED
    BY <1>4, <1>8, <2>1 DEF Fork, User, swap
<1>9. ASSUME NEW g \in Page, TakeFree(First, g) PROVE Lone' /\ SameSees
  <2>1. loc' = [loc EXCEPT ![First] = [loc[First] EXCEPT !.page = g]] /\ pc[First] = "alloc"
        /\ pc' = [pc EXCEPT ![First] = loc[First].why]
    BY <1>1, <1>2, <1>9 DEF TakeFree, In, Goto
  <2>2. /\ loc'[First].why = loc[First].why /\ loc'[First].i = loc[First].i /\ loc'[First].slot = loc[First].slot
        /\ pc'[First] = loc[First].why
    BY <1>1, <1>2, <2>1 DEF LocRecord
  <2>3. pc'[First] \notin {"evict", "map"}
    BY <1>2, <2>2 DEF LocRecord
  <2>4. SameView
    BY <1>9 DEF SameView, TakeFree
  <2> QED
    BY <1>4, <1>9, <2>1, <2>2, <2>3, <2>4 DEF TakeFree, swap
<1>10. ASSUME NEW v \in Proc, SwapOut(First, v) PROVE Lone' /\ SameSees
  <2>1. loc' = [loc EXCEPT ![First] = [loc[First] EXCEPT !.victim = v]] /\ pc[First] = "alloc"
        /\ pc' = [pc EXCEPT ![First] = "victim"]
    BY <1>1, <1>2, <1>10 DEF SwapOut, In, Goto
  <2>2. /\ loc'[First].why = loc[First].why /\ loc'[First].i = loc[First].i /\ loc'[First].slot = loc[First].slot
        /\ pc'[First] = "victim"
    BY <1>1, <1>2, <2>1 DEF LocRecord
  <2>3. SameView
    BY <1>10 DEF SameView, SwapOut
  <2> QED
    BY <1>4, <1>10, <2>1, <2>2, <2>3 DEF SwapOut, swap
<1>11. ASSUME ClearAccessed(First) PROVE Lone' /\ SameSees
  <2>1. SameView
    BY <1>1, <1>11, ClearAccessedView
  <2> QED
    BY <1>4, <1>11, <2>1 DEF ClearAccessed, In, swap
<1> QED
  BY <1>5, <1>6, <1>7, <1>8, <1>9, <1>10, <1>11

(* The steps that move the contents of a page.                              *)
SeesAfter(k, v) ==
  \A i \in Index : i < sz'[First] => Sees(i)' = IF i = k THEN v ELSE Sees(i)

LEMMA LoneWrite ==
  ASSUME Inv, Lone, NEW k \in Index, NEW v \in Val, Write(First, k, v)
  PROVE  Lone' /\ UNCHANGED sz /\ k < sz[First] /\ pc[First] = "user" /\ pc' = pc /\ SeesAfter(k, v)
<1>1. First \in Proc /\ cr3[First] = First /\ pte[First][k].p /\ pc[First] = "user" /\ k < sz[First]
  BY Constants DEF Lone, LoneProcess, Write, User
<1>2. PICK g \in Page : g = pte[First][k].n
  BY <1>1, PteFacts DEF Inv
<1>3. /\ mem' = [mem EXCEPT ![g] = v]
      /\ UNCHANGED <<state, sz, rmap, slotmap, slotfree, slotdata, cr3, pc, loc>>
  BY <1>1, <1>2 DEF Write, swap
<1>4. SameView
  <2>1. pte[First][k] \in Entry
    BY <1>1, PteFacts DEF Inv
  <2>2. PICK e \in Entry : e = [pte[First][k] EXCEPT !.a = TRUE] /\ e.p = pte[First][k].p /\ e.n = pte[First][k].n
    BY <1>1, <2>1, EntryBits
  <2>3. pte' = [pte EXCEPT ![First][k] = e]
    BY <1>1, <2>2 DEF Write
  <2> QED
    BY <1>1, <2>2, <2>3, OneEntry DEF Inv
<1>5. \A i, s : i \in Index => (Holds(First, i, s)' <=> Holds(First, i, s))
  BY <1>1, <1>3, <1>4 DEF Holds, SameView
<1>6. LoneProcess'
  BY <1>1, <1>3, <1>4 DEF Lone, LoneProcess, SameView, Index
<1>7. LonePlaces'
  BY <1>3, <1>5 DEF Lone, LonePlaces, Page, Slot, Index
<1>8. LoneFault'
  <2>1. PICK i \in Index, t \in Slot : i = loc[First].i /\ t = loc[First].slot
    BY <1>1, LocType DEF Inv
  <2>2. loc[First].why = "in" => Holds(First, i, t)'
    BY <1>5, <2>1 DEF Lone, LoneFault
  <2>3. loc'[First].why = "in" => Holds(First, loc[First].i, loc[First].slot)'
    BY <1>3, <2>1, <2>2 DEF Holds
  <2> QED
    BY <1>1, <1>3, <2>3 DEF Lone, LoneFault
<1>9. SeesAfter(k, v)
  <2> SUFFICES ASSUME NEW i \in Index PROVE Sees(i)' = IF i = k THEN v ELSE Sees(i)
    BY DEF SeesAfter, Index
  <2>1. pte'[First][i].p = pte[First][i].p /\ pte'[First][i].n = pte[First][i].n
    BY <1>1, <1>4 DEF SameView
  <2>2. CASE pte[First][i].p
    <3>1. pte[First][i].n \in Page
      BY <1>1, <2>2, PteFacts DEF Inv
    <3>2. pte[First][i].n = g => i = k
      BY <1>1, <1>2, <2>2 DEF Inv, PageInv, OnePlace
    <3>3. mem'[pte[First][i].n] = IF i = k THEN v ELSE mem[pte[First][i].n]
      BY <1>2, <1>3, <3>1, <3>2 DEF Inv, TypeOK
    <3> QED
      BY <2>1, <2>2, <3>3 DEF Sees
  <2>3. CASE ~pte[First][i].p
    <3>1. i # k
      BY <1>1, <2>3
    <3> QED
      BY <1>1, <1>3, <2>1, <2>3, <3>1 DEF Sees
  <2> QED
    BY <2>2, <2>3
<1> QED
  BY <1>1, <1>3, <1>6, <1>7, <1>8, <1>9 DEF Lone

LEMMA LoneEvict ==
  ASSUME Inv, Lone, Evict(First)
  PROVE  Lone' /\ SameSees
<1>1. First \in Proc /\ cr3[First] = First /\ pc[First] = "victim"
  BY Constants DEF Lone, LoneProcess, Evict, In
<1>2. CASE FreeSlots = {}
  <2>1. UNCHANGED <<slotmap, slotfree, pte, pc, loc, state, sz, rmap, mem, slotdata, cr3>>
    BY <1>2 DEF Evict
  <2>2. SameView /\ loc[First].i \in Index
    BY <1>1, <2>1, LocType DEF SameView, Inv
  <2> QED
    BY <1>1, <2>1, <2>2, LoneQuiet DEF Lone, LoneFault
<1>3. CASE FreeSlots # {}
  <2>1. PICK v \in Proc : v = loc[First].victim
    BY <1>1, EvictChoice
  <2>2. PICK k \in Candidates(v) : k = Max(Candidates(v))
    BY <1>1, <2>1, EvictChoice
  <2>3. PICK g : g = pte[v][k].n
    OBVIOUS
  <2>4. PICK s \in Slot : s = Min(FreeSlots) /\ slotfree[s]
    BY <1>1, <1>3, EvictChoice
  <2>5. k \in Index /\ k < sz[v] /\ Users(g) # {}
    BY <2>2, <2>3 DEF Candidates, Accessed
  <2>6. g \in Page /\ Users(g) = rmap[g]
    BY <2>5 DEF Users
  <2>7. pte[v][k].p
    BY <2>3, <2>5, <2>6 DEF Inv, PageInv, NumberInv
  <2>8. v = First
    BY <2>5, <2>7 DEF Lone, LoneProcess
  <2>9. rmap[g] = {First}
    BY <2>5, <2>6 DEF Lone, LonePlaces
  <2>10. /\ slotfree' = [slotfree EXCEPT ![s] = FALSE]
         /\ slotmap' = [slotmap EXCEPT ![s] = {First}]
         /\ pte' = [q \in Proc |-> IF q \in {First} THEN [pte[q] EXCEPT ![k] = Swapped(s)] ELSE pte[q]]
         /\ loc' = [loc EXCEPT ![First].page = g, ![First].out = s]
         /\ pc' = [pc EXCEPT ![First] = "evict"]
         /\ UNCHANGED <<state, sz, rmap, mem, slotdata, cr3>>
    <3>1. UNCHANGED <<state, sz, rmap, mem, slotdata, cr3>>
      BY DEF Evict
    <3>2. Max(Candidates(loc[First].victim)) = k /\ pte[loc[First].victim][k].n = g /\ Min(FreeSlots) = s
      BY <2>1, <2>2, <2>3, <2>4
    <3>3. /\ slotfree' = [slotfree EXCEPT ![s] = FALSE]
          /\ slotmap' = [slotmap EXCEPT ![s] = rmap[g]]
          /\ pte' = [q \in Proc |-> IF q \in Users(g) THEN [pte[q] EXCEPT ![k] = Swapped(s)] ELSE pte[q]]
          /\ loc' = [loc EXCEPT ![First].page = g, ![First].out = s]
          /\ pc' = [pc EXCEPT ![First] = "evict"]
      BY <1>3, <3>2, Zenon DEF Evict, Goto
    <3> QED
      BY <2>6, <2>9, <3>1, <3>3
  <2>11. Swapped(s).p = FALSE /\ Swapped(s).n = s
    BY SwappedEntry
  <2>12. /\ \A q \in Proc, j \in Index : q # First \/ j # k => pte'[q][j] = pte[q][j]
         /\ ~pte'[First][k].p /\ pte'[First][k].n = s
    BY <1>1, <2>5, <2>10, <2>11 DEF Inv, TypeOK
  <2>13. loc[First] \in LocRecord /\ loc \in [Proc -> LocRecord] /\ loc[First].i \in Index /\ loc[First].slot \in Slot
    BY <1>1, LocType DEF Inv
  <2>14. /\ loc'[First].page = g /\ loc'[First].out = s /\ loc'[First].why = loc[First].why
         /\ loc'[First].i = loc[First].i /\ loc'[First].slot = loc[First].slot
    <3>1. loc' = [loc EXCEPT ![First] = [loc[First] EXCEPT !.page = g, !.out = s]]
      BY <2>10, <2>13
    <3> QED
      BY <1>1, <2>13, <3>1 DEF LocRecord
  <2>15. pc'[First] = "evict"
    BY <1>1, <2>10 DEF Inv, TypeOK
  <2>16. ASSUME NEW i \in Index, NEW t \in Slot, Holds(First, i, t) PROVE Holds(First, i, t)' /\ i # k /\ t # s
    <3>1. i # k
      BY <2>3, <2>7, <2>8, <2>16 DEF Holds
    <3>2. t # s
      BY <1>1, <2>4, <2>16 DEF Inv, SlotInv, HeldInv
    <3> QED
      BY <1>1, <2>10, <2>12, <2>16, <3>1, <3>2 DEF Holds
  <2>17. LoneProcess'
    BY <1>1, <2>10, <2>12 DEF Lone, LoneProcess, Index
  <2>18. LonePlaces'
    <3>1. Holds(First, k, s)'
      BY <1>1, <2>5, <2>8, <2>10, <2>12 DEF Holds, Lone, LoneProcess
    <3>2. \A t \in Slot : ~slotfree'[t] => t = s \/ ~slotfree[t]
      BY <2>10 DEF Inv, TypeOK
    <3>3. \A t \in Slot : ~slotfree'[t] => \E i \in Index : Holds(First, i, t)'
      BY <2>5, <2>16, <3>1, <3>2 DEF Lone, LonePlaces
    <3>4. (\A h \in Page : rmap'[h] \subseteq {First}) /\ \A t \in Slot : slotmap'[t] \subseteq {First}
      BY <2>10 DEF Lone, LonePlaces, Inv, TypeOK
    <3> QED
      BY <3>3, <3>4 DEF LonePlaces, Page, Slot, Index
  <2>19. LoneFault'
    <3>1. PICK i \in Index, t \in Slot : i = loc[First].i /\ t = loc[First].slot
      BY <2>13
    <3>2. loc[First].why = "in" => Holds(First, i, t)'
      BY <2>16, <3>1 DEF Lone, LoneFault
    <3>3. loc'[First].why = "in" => Holds(First, loc[First].i, loc[First].slot)'
      BY <2>14, <3>1, <3>2 DEF Holds
    <3> QED
      BY <2>14, <2>15, <3>3 DEF Lone, LoneFault
  <2>20. SameSees
    <3> SUFFICES ASSUME NEW i \in Index, i < sz[First] PROVE Sees(i)' = Sees(i)
      BY <2>10 DEF SameSees, Index
    <3>1. CASE i = k
      BY <1>1, <2>3, <2>7, <2>8, <2>10, <2>12, <2>14, <2>15, <3>1 DEF Sees
    <3>2. CASE i # k /\ pte[First][i].p
      BY <1>1, <2>10, <2>12, <3>2 DEF Sees
    <3>3. CASE i # k /\ ~pte[First][i].p
      <4>1. pte[First][i].n \in Slot
        BY <1>1, <3>3, PteFacts DEF Inv
      <4>2. Holds(First, i, pte[First][i].n)
        BY <3>3 DEF Holds, Lone, LoneProcess
      <4>3. pte[First][i].n # s
        BY <2>16, <4>1, <4>2
      <4> QED
        BY <1>1, <2>10, <2>12, <2>14, <3>3, <4>3 DEF Sees
    <3> QED
      BY <3>1, <3>2, <3>3
  <2> QED
    BY <2>17, <2>18, <2>19, <2>20 DEF Lone
<1> QED
  BY <1>2, <1>3

LEMMA LoneEvictWrite ==
  ASSUME Inv, Lone, EvictWrite(First)
  PROVE  Lone' /\ SameSees
<1>1. First \in Proc /\ cr3[First] = First /\ pc[First] = "evict"
  BY Constants DEF Lone, LoneProcess, EvictWrite, In
<1>2. loc[First] \in LocRecord /\ loc[First].out \in Slot /\ loc[First].page \in Page
  BY <1>1, LocType DEF Inv, LocInv, PlaceInv
<1>3. /\ slotdata' = [slotdata EXCEPT ![loc[First].out] = mem[loc[First].page]]
      /\ rmap' = [rmap EXCEPT ![loc[First].page] = {}]
      /\ cr3' = [cr3 EXCEPT ![First] = First]
      /\ pc' = [pc EXCEPT ![First] = loc[First].why]
      /\ UNCHANGED <<state, sz, pte, mem, slotmap, slotfree, loc>>
  BY DEF EvictWrite, Goto
<1>4. pc'[First] = loc[First].why /\ pc'[First] \notin {"evict", "map"} /\ cr3'[First] = First
  BY <1>1, <1>2, <1>3 DEF Inv, TypeOK, LocRecord
<1>5. LoneProcess'
  BY <1>3, <1>4 DEF Lone, LoneProcess, Index
<1>6. LonePlaces'
  <2>1. \A g \in Page : rmap'[g] \subseteq {First}
    BY <1>3 DEF Lone, LonePlaces, Inv, TypeOK
  <2> QED
    BY <1>3, <2>1 DEF Lone, LonePlaces, Holds, Page, Slot, Index
<1>7. LoneFault'
  BY <1>3, <1>4 DEF Lone, LoneFault, Holds
<1>8. SameSees
  <2> SUFFICES ASSUME NEW i \in Index, i < sz[First] PROVE Sees(i)' = Sees(i)
    BY <1>3 DEF SameSees, Index
  <2>1. CASE pte[First][i].p
    BY <1>3, <2>1 DEF Sees
  <2>2. CASE ~pte[First][i].p
    <3>1. pte[First][i].n \in Slot
      BY <1>1, <2>2, PteFacts DEF Inv
    <3>2. slotdata'[pte[First][i].n] = IF loc[First].out = pte[First][i].n THEN mem[loc[First].page]
                                       ELSE slotdata[pte[First][i].n]
      BY <1>3, <3>1 DEF Inv, TypeOK
    <3> QED
      BY <1>1, <1>3, <1>4, <2>2, <3>2 DEF Sees
  <2> QED
    BY <2>1, <2>2
<1> QED
  BY <1>5, <1>6, <1>7, <1>8 DEF Lone

LEMMA LoneSwapRead ==
  ASSUME Inv, Lone, SwapRead(First)
  PROVE  Lone' /\ SameSees
<1>1. First \in Proc /\ cr3[First] = First /\ pc[First] = "in"
  BY Constants DEF Lone, LoneProcess, SwapRead, In
<1>2. PICK g \in Page : g = loc[First].page
  BY <1>1 DEF Inv, LocInv, PlaceInv
<1>3. /\ mem' = [mem EXCEPT ![g] = slotdata[loc[First].slot]]
      /\ pc' = [pc EXCEPT ![First] = "map"]
      /\ UNCHANGED <<state, sz, pte, rmap, slotmap, slotfree, slotdata, loc>>
  BY <1>2 DEF SwapRead, Goto, swap
<1>4. pc'[First] = "map" /\ cr3'[First] = First
  BY <1>1, <1>3 DEF SwapRead, Inv, TypeOK
<1>5. LoneProcess' /\ LonePlaces'
  BY <1>3, <1>4 DEF Lone, LoneProcess, LonePlaces, Holds, Page, Slot, Index
<1>6. LoneFault'
  <2>1. mem'[g] = slotdata[loc[First].slot]
    BY <1>3 DEF Inv, TypeOK
  <2> QED
    BY <1>2, <1>3, <2>1 DEF Lone, LoneFault, Holds
<1>7. SameSees
  <2> SUFFICES ASSUME NEW i \in Index PROVE Sees(i)' = Sees(i)
    BY <1>3 DEF SameSees, Index
  <2>1. CASE pte[First][i].p
    <3>1. pte[First][i].n # g /\ pte[First][i].n \in Page
      BY <1>1, <1>2, <2>1, PteFacts DEF Inv, PageInv, HandInv, Unmapped
    <3> QED
      BY <1>3, <2>1, <3>1 DEF Sees, Inv, TypeOK
  <2>2. CASE ~pte[First][i].p
    BY <1>1, <1>3, <1>4, <2>2 DEF Sees
  <2> QED
    BY <2>1, <2>2
<1> QED
  BY <1>5, <1>6, <1>7 DEF Lone

LEMMA LoneSwapMap ==
  ASSUME Inv, Lone, SwapMap(First)
  PROVE  Lone' /\ SameSees
<1>1. First \in Proc /\ cr3[First] = First /\ pc[First] = "map" /\ state[First] = "running"
  BY Constants DEF Lone, LoneProcess, SwapMap, In
<1>2. InInv(First) /\ loc[First].why = "in"
  BY <1>1 DEF Inv, LocInv, PlaceInv
<1>3. PICK g \in Page : g = loc[First].page
  BY <1>1 DEF Inv, LocInv, PlaceInv
<1>4. PICK s \in Slot, k \in Index : s = loc[First].slot /\ k = loc[First].i
  BY <1>1, LocType DEF Inv
<1>5. slotmap[s] = {First} /\ Holds(First, k, s) /\ mem[g] = slotdata[s]
  BY <1>1, <1>2, <1>3, <1>4 DEF InInv, Lone, LonePlaces, LoneFault
<1>6. Resident(g, TRUE).p = TRUE /\ Resident(g, TRUE).n = g
  BY ResidentEntry
<1>7. /\ pte' = [q \in Proc |-> IF q \in {First} THEN [pte[q] EXCEPT ![k] = Resident(g, TRUE)] ELSE pte[q]]
      /\ rmap' = [rmap EXCEPT ![g] = @ \cup {First}]
      /\ cr3' \in LoadedLast(First, {First})
      /\ slotfree' = [slotfree EXCEPT ![s] = TRUE]
      /\ slotmap' = [slotmap EXCEPT ![s] = {}]
      /\ pc' = [pc EXCEPT ![First] = "user"]
      /\ loc' = [loc EXCEPT ![First] = NoLoc]
      /\ UNCHANGED <<state, sz, mem, slotdata>>
  BY <1>3, <1>4, <1>5, Zenon DEF SwapMap, Goto
<1>8. /\ \A q \in Proc, j \in Index : q # First \/ j # k => pte'[q][j] = pte[q][j]
      /\ pte'[First][k].p /\ pte'[First][k].n = g
  BY <1>1, <1>6, <1>7 DEF Inv, TypeOK
<1>9. cr3'[First] = First /\ pc'[First] = "user" /\ loc'[First] = NoLoc
  <2>1. cr3' = [cr3 EXCEPT ![First] = First]
    BY <1>7 DEF LoadedLast
  <2> QED
    BY <1>1, <1>7, <2>1, LocType DEF Inv, TypeOK
<1>10. LoneProcess'
  BY <1>7, <1>8, <1>9 DEF Lone, LoneProcess, Index
<1>11. LonePlaces'
  <2>1. ASSUME NEW t \in Slot, ~slotfree'[t] PROVE \E i \in Index : Holds(First, i, t)'
    <3>1. ~slotfree[t] /\ t # s
      BY <1>7, <2>1 DEF Inv, TypeOK
    <3>2. PICK i \in Index : Holds(First, i, t)
      BY <3>1 DEF Lone, LonePlaces
    <3>3. i # k
      BY <1>5, <3>1, <3>2 DEF Holds
    <3> QED
      BY <1>1, <1>7, <1>8, <3>2, <3>3 DEF Holds
  <2>2. (\A h \in Page : rmap'[h] \subseteq {First}) /\ \A t \in Slot : slotmap'[t] \subseteq {First}
    BY <1>7 DEF Lone, LonePlaces, Inv, TypeOK
  <2> QED
    BY <2>1, <2>2 DEF LonePlaces, Page, Slot, Index
<1>12. LoneFault'
  BY <1>9, NoLocType DEF LoneFault
<1>13. SameSees
  <2> SUFFICES ASSUME NEW i \in Index PROVE Sees(i)' = Sees(i)
    BY <1>7 DEF SameSees, Index
  <2>1. CASE i = k
    <3>1. ~pte[First][k].p /\ pte[First][k].n = s
      BY <1>5 DEF Holds
    <3>2. Sees(k) = slotdata[s]
      BY <1>1, <3>1 DEF Sees
    <3>3. mem'[pte'[First][k].n] = slotdata[s]
      BY <1>5, <1>7, <1>8
    <3> QED
      BY <1>8, <2>1, <3>2, <3>3 DEF Sees
  <2>2. CASE i # k
    BY <1>1, <1>7, <1>8, <1>9, <2>2 DEF Sees
  <2> QED
    BY <2>1, <2>2
<1> QED
  BY <1>10, <1>11, <1>12, <1>13 DEF Lone

LEMMA LoneGrowMap ==
  ASSUME Inv, Lone, GrowMap(First)
  PROVE  Lone' /\ sz[First] \in Index /\ sz'[First] = sz[First] + 1 /\ SeesAfter(sz[First], Zero)
<1>1. First \in Proc /\ cr3[First] = First /\ pc[First] = "grow" /\ state[First] = "running"
  BY Constants DEF Lone, LoneProcess, GrowMap, In
<1>2. PICK g \in Page : g = loc[First].page
  BY <1>1 DEF Inv, LocInv, PlaceInv
<1>3. PICK k \in Index : k = loc[First].i /\ k = sz[First]
  BY <1>1, LocType DEF Inv, LocInv, PlaceInv
<1>4. Resident(g, TRUE).p = TRUE /\ Resident(g, TRUE).n = g
  BY ResidentEntry
<1>5. /\ mem' = [mem EXCEPT ![g] = Zero]
      /\ pte' = [pte EXCEPT ![First][k] = Resident(g, TRUE)]
      /\ rmap' = [rmap EXCEPT ![g] = RmapAdd(@, First)]
      /\ sz' = [sz EXCEPT ![First] = @ + 1]
      /\ cr3' = [cr3 EXCEPT ![First] = First]
      /\ pc' = [pc EXCEPT ![First] = "user"]
      /\ loc' = [loc EXCEPT ![First] = NoLoc]
      /\ UNCHANGED <<state, slotmap, slotfree, slotdata>>
  BY <1>2, <1>3 DEF GrowMap, Goto, swap
<1>6. /\ \A q \in Proc, j \in Index : q # First \/ j # k => pte'[q][j] = pte[q][j]
      /\ pte'[First][k].p /\ pte'[First][k].n = g
  BY <1>1, <1>4, <1>5 DEF Inv, TypeOK
<1>7. /\ cr3'[First] = First /\ pc'[First] = "user" /\ loc'[First] = NoLoc
      /\ sz'[First] = sz[First] + 1 /\ sz[First] \in Nat
  BY <1>1, <1>5, LocType DEF Inv, TypeOK
<1>8. LoneProcess'
  BY <1>5, <1>6, <1>7 DEF Lone, LoneProcess, Index
<1>9. LonePlaces'
  <2>1. ASSUME NEW t \in Slot, ~slotfree'[t] PROVE \E i \in Index : Holds(First, i, t)'
    <3>1. PICK i \in Index : Holds(First, i, t)
      BY <1>5, <2>1 DEF Lone, LonePlaces
    <3>2. i < sz[First] /\ i \in Nat
      BY <3>1, Constants DEF Holds
    <3>3. i # k /\ i < sz'[First]
      BY <1>3, <1>7, <3>2
    <3> QED
      BY <1>1, <1>5, <1>6, <3>1, <3>3 DEF Holds
  <2>2. (\A h \in Page : rmap'[h] \subseteq {First}) /\ \A t \in Slot : slotmap'[t] \subseteq {First}
    BY <1>5 DEF Lone, LonePlaces, Inv, TypeOK, RmapAdd
  <2> QED
    BY <2>1, <2>2 DEF LonePlaces, Page, Slot, Index
<1>10. LoneFault'
  BY <1>7, NoLocType DEF LoneFault
<1>11. SeesAfter(k, Zero)
  <2> SUFFICES ASSUME NEW i \in Index PROVE Sees(i)' = IF i = k THEN Zero ELSE Sees(i)
    BY DEF SeesAfter, Index
  <2>1. CASE i = k
    <3>1. mem'[g] = Zero
      BY <1>5 DEF Inv, TypeOK
    <3> QED
      BY <1>6, <2>1, <3>1 DEF Sees
  <2>2. CASE i # k /\ pte[First][i].p
    <3>1. pte[First][i].n # g /\ pte[First][i].n \in Page
      BY <1>1, <1>2, <2>2, PteFacts DEF Inv, PageInv, HandInv, Unmapped
    <3>2. mem'[pte[First][i].n] = mem[pte[First][i].n]
      BY <1>5, <3>1 DEF Inv, TypeOK
    <3>3. pte'[First][i] = pte[First][i]
      BY <1>1, <1>6, <2>2
    <3> QED
      BY <2>2, <3>2, <3>3 DEF Sees
  <2>3. CASE i # k /\ ~pte[First][i].p
    BY <1>1, <1>5, <1>6, <1>7, <2>3 DEF Sees
  <2> QED
    BY <2>1, <2>2, <2>3
<1> QED
  BY <1>3, <1>7, <1>8, <1>9, <1>10, <1>11 DEF Lone

-----------------------------------------------------------------------------
(* What one step does to what the process sees.                             *)
LoneEffect ==
  \/ SameSees
  \/ \E k \in Index, v \in Val : k < sz[First] /\ sz'[First] = sz[First] /\ SeesAfter(k, v) /\ pc[First] = "user" /\ pc' = pc
  \/ sz[First] \in Index /\ sz'[First] = sz[First] + 1 /\ SeesAfter(sz[First], Zero)

LEMMA LoneStep ==
  ASSUME Inv, Lone, SlotsAreNoPages, SlotsAreNoPages', Next, UNCHANGED state
  PROVE  Inv' /\ Lone' /\ LoneEffect
<1>1. First \in Proc
  BY Constants
<1>2. Lone' /\ LoneEffect
  <2>1. ASSUME \/ \E i \in Index : Read(First, i) \/ Fault(First, i)
               \/ Grow(First) \/ \E c \in Proc : Fork(First, c) /\ UNCHANGED <<state, pte, rmap, sz, rss, cr3>>
               \/ \E g \in Page : TakeFree(First, g)
               \/ \E v \in Proc : SwapOut(First, v)
               \/ ClearAccessed(First)
        PROVE  Lone' /\ LoneEffect
    BY <2>1, LoneEasy DEF LoneEffect
  <2>2. ASSUME Evict(First) \/ EvictWrite(First) \/ SwapRead(First) \/ SwapMap(First) PROVE Lone' /\ LoneEffect
    BY <2>2, LoneEvict, LoneEvictWrite, LoneSwapRead, LoneSwapMap DEF LoneEffect
  <2>3. ASSUME NEW k \in Index, NEW v \in Val, Write(First, k, v) PROVE Lone' /\ LoneEffect
    <3>1. Lone' /\ UNCHANGED sz /\ k < sz[First] /\ pc[First] = "user" /\ pc' = pc /\ SeesAfter(k, v)
      BY <2>3, LoneWrite
    <3> QED
      BY <3>1 DEF LoneEffect
  <2>4. ASSUME GrowMap(First) PROVE Lone' /\ LoneEffect
    BY <2>4, LoneGrowMap DEF LoneEffect
  <2> QED
    BY <2>1, <2>2, <2>3, <2>4, LoneSteps
<1>3. Orderly
  BY LoneIdle DEF Orderly
<1>4. OneInKernel'
  <2>1. pc' = pc \/ \E l : pc' = [pc EXCEPT ![First] = l]
    BY LoneSteps DEF Read, Fault, Write, Grow, Fork, TakeFree, SwapOut, Evict, ClearAccessed, EvictWrite,
                     SwapRead, SwapMap, GrowMap, Goto
  <2>2. \A q \in Proc : q # First => pc'[q] = "user"
    BY <2>1, LoneIdle DEF Inv, TypeOK
  <2> QED
    BY <2>2 DEF OneInKernel
<1>5. Inv'
  BY <1>3, <1>4, StepInv DEF Orderly
<1> QED
  BY <1>2, <1>5

(* A process that never forks (alone), and one that may, of which nothing is *)
(* said.                                                                    *)
AloneInv == alone \in BOOLEAN /\ (alone => Inv /\ Lone)

LEMMA AloneInitInv == AloneInit => AloneInv
BY InitInv, LoneInit DEF AloneInit, AloneInv

LEMMA AloneUnchanged ==
  ASSUME AloneInv, UNCHANGED aloneVars
  PROVE  AloneInv' /\ UNCHANGED <<ownUser, ownImage>>
<1>1. UNCHANGED vars /\ alone' = alone
  BY DEF aloneVars
<1>2. TypeOK => TypeOK' /\ SameView
  BY <1>1 DEF TypeOK, SameView, vars
<1>3. Inv => Inv'
  BY <1>1, <1>2, Quiet DEF Inv, vars
<1>4. Lone => Lone'
  BY <1>1 DEF Lone, LoneProcess, LonePlaces, LoneFault, Holds, vars, Page, Slot, Index
<1>5. UNCHANGED <<ownUser, ownImage>>
  BY <1>1 DEF ownUser, ownImage, InUser, Image, Content, Evicter, vars
<1> QED
  BY <1>1, <1>3, <1>4, <1>5 DEF AloneInv

LEMMA AloneStep ==
  ASSUME AloneInv, SlotsAreNoPages, SlotsAreNoPages', [AloneNext]_aloneVars
  PROVE  AloneInv'
<1>1. CASE AloneNext
  <2>1. CASE alone
    BY <1>1, <2>1, LoneStep DEF AloneInv, AloneNext
  <2>2. CASE ~alone
    BY <1>1, <2>2 DEF AloneInv, AloneNext
  <2> QED
    BY <2>1, <2>2
<1>2. CASE UNCHANGED aloneVars
  BY <1>2, AloneUnchanged
<1> QED
  BY <1>1, <1>2

(* The inductive invariant of a process that never forks: swap_out() and     *)
(* swap_in() (pageswap.c:202-255) move pages of its own only, and each slot  *)
(* in use holds one of them.                                                *)
THEOREM AloneInvariant == AloneSpec /\ []SlotsAreNoPages => []AloneInv
<1>1. AloneInv /\ SlotsAreNoPages /\ SlotsAreNoPages' /\ [AloneNext]_aloneVars => AloneInv'
  BY AloneStep
<1> QED
  BY AloneInitInv, <1>1, PTL DEF AloneSpec

(* swap_in() (pageswap.c:253) gives back every slot swap_out() took: with one *)
(* process, each slot in use holds one of its pages.                        *)
THEOREM NoSlotIsLost == AloneSpec /\ []SlotsAreNoPages => []NoSlotLost
<1>1. ASSUME AloneInv PROVE NoSlotLost
  <2> SUFFICES ASSUME alone, NEW s \in Slot, ~slotfree[s] PROVE Holders(s) # {}
    BY DEF NoSlotLost
  <2>1. First \in Proc /\ state[First] = "running" /\ sz[First] \in Nat
    BY <1>1, Constants DEF AloneInv, Lone, LoneProcess, Inv, TypeOK
  <2>2. PICK i \in Index : Holds(First, i, s)
    BY <1>1 DEF AloneInv, Lone, LonePlaces
  <2>3. i > 0 /\ i < sz[First] /\ i \in Nat
    BY <1>1, <2>1, <2>2, Constants DEF AloneInv, Inv, SlotInv, HeldInv, Holds
  <2>4. i \in 1 .. sz[First] - 1
    BY <2>1, <2>3
  <2>5. pte[First][i] = Swapped(s)
    BY <1>1, <2>1, <2>2, EntryFields, PteFacts DEF AloneInv, Inv, Holds
  <2> QED
    BY <2>1, <2>4, <2>5 DEF Holders
<1> QED
  BY AloneInvariant, <1>1, PTL

-----------------------------------------------------------------------------
(* The memory of its own.                                                   *)
Memory == [p \in Proc |-> IF p = First THEN [i \in 1 .. sz[First] |-> Sees(i - 1)] ELSE <<>>]

LEMMA LoneImage ==
  ASSUME Inv, Lone
  PROVE  Image = Memory /\ sz[First] \in 1 .. MaxPages
<1>1. First \in Proc /\ state[First] = "running"
  BY Constants DEF Lone, LoneProcess
<1>2. sz[First] \in 1 .. MaxPages
  BY <1>1, Constants DEF Inv, TypeOK, Lone, LoneProcess
<1>3. ASSUME NEW i \in Index PROVE Content(First, i) = Sees(i)
  <2>1. PICK n : n = pte[First][i].n
    OBVIOUS
  <2>2. Evicter(n) = IF pc[First] = "evict" /\ loc[First].out = n THEN {First} ELSE {}
    BY <1>1, LoneIdle DEF Evicter
  <2>3. (CHOOSE p \in {First} : TRUE) = First
    OBVIOUS
  <2>4. CASE pc[First] = "evict" /\ loc[First].out = n
    <3>1. Evicter(n) = {First}
      BY <2>2, <2>4
    <3> QED
      BY <2>1, <2>3, <2>4, <3>1 DEF Content, Sees
  <2>5. CASE ~(pc[First] = "evict" /\ loc[First].out = n)
    <3>1. Evicter(n) = {}
      BY <2>2, <2>5
    <3> QED
      BY <2>1, <2>5, <3>1 DEF Content, Sees
  <2> QED
    BY <2>4, <2>5
<1>4. \A i \in 1 .. sz[First] : i - 1 \in Index
  BY <1>2, Constants DEF Index
<1>5. [i \in 1 .. sz[First] |-> Content(First, i - 1)] = [i \in 1 .. sz[First] |-> Sees(i - 1)]
  BY <1>3, <1>4
<1>6. \A p \in Proc : p # First => state[p] # "running"
  BY DEF Lone, LoneProcess
<1>7. Image = Memory
  BY <1>1, <1>5, <1>6 DEF Image, Memory
<1> QED
  BY <1>2, <1>7

LEMMA LoneImageNext == (Inv /\ Lone => Image = Memory /\ sz[First] \in 1 .. MaxPages)'
<1>1. Inv /\ Lone => Image = Memory /\ sz[First] \in 1 .. MaxPages
  BY LoneImage
<1> QED
  BY <1>1, PTL

(* The first page of the process is zero when it starts.                    *)
LEMMA PrivateInit == AloneInit => Private!Init /\ ownUser \in [Proc -> BOOLEAN]
<1> SUFFICES ASSUME AloneInit PROVE Private!Init /\ ownUser \in [Proc -> BOOLEAN]
  OBVIOUS
<1>1. ownUser \in [Proc -> BOOLEAN]
  BY DEF ownUser, InUser
<1>2. PICK w : w = [i \in 1 .. 1 |-> Zero]
  OBVIOUS
<1>3. w = <<Zero>>
  BY <1>2
<1>4. w \in Private!NewImages
  <2>1. 1 \in 1 .. MaxPages
    BY SwapAssumption
  <2> QED
    BY <1>2, <2>1 DEF Private!NewImages
<1>5. ownImage = [p \in Proc |-> IF p = First THEN w ELSE <<>>]
  <2>1. CASE ~alone
    BY <1>3, <2>1 DEF ownImage
  <2>2. CASE alone
    <3>1. Init
      BY DEF AloneInit
    <3>2. Image = Memory
      BY <3>1, InitInv, LoneInit, LoneImage
    <3>3. Resident(FirstPage, TRUE).p = TRUE /\ Resident(FirstPage, TRUE).n = FirstPage
      BY Constants, ResidentEntry
    <3>4. sz[First] = 1 /\ pte[First][0] = Resident(FirstPage, TRUE) /\ mem[FirstPage] = Zero
      BY <3>1, Constants DEF Init
    <3>5. Sees(0) = Zero
      BY <3>3, <3>4 DEF Sees
    <3>6. \A i \in 1 .. 1 : i - 1 = 0
      OBVIOUS
    <3>7. [i \in 1 .. sz[First] |-> Sees(i - 1)] = w
      BY <1>2, <3>4, <3>5, <3>6
    <3> QED
      BY <2>2, <3>2, <3>7 DEF ownImage, Memory
  <2> QED
    BY <2>1, <2>2
<1> QED
  BY <1>1, <1>4, <1>5 DEF Private!Init

LEMMA PrivateStep ==
  ASSUME AloneInv, AloneInv', alone, AloneNext, SlotsAreNoPages, SlotsAreNoPages'
  PROVE  [Private!Next]_<<ownImage, ownUser>>
<1>1. Inv /\ Lone /\ Inv' /\ Lone' /\ alone' = alone /\ LoneEffect /\ First \in Proc
  BY LoneStep, Constants DEF AloneInv, AloneNext
<1>2. ownImage = Memory /\ ownImage' = Memory' /\ sz[First] \in 1 .. MaxPages /\ sz'[First] \in 1 .. MaxPages
  <2>1. Image = Memory /\ sz[First] \in 1 .. MaxPages
    BY <1>1, LoneImage
  <2>2. Image' = Memory' /\ sz'[First] \in 1 .. MaxPages
    BY <1>1, LoneImageNext
  <2> QED
    BY <1>1, <2>1, <2>2 DEF ownImage
<1>3. ownUser = InUser /\ ownUser' = InUser' /\ ownUser' \in [Proc -> BOOLEAN]
  BY <1>1 DEF ownUser, InUser
<1>4. PICK m : m = [i \in 1 .. sz[First] |-> Sees(i - 1)]
  OBVIOUS
<1>5. PICK n : n = [i \in 1 .. sz'[First] |-> Sees(i - 1)']
  OBVIOUS
<1>6. /\ ownImage = [p \in Proc |-> IF p = First THEN m ELSE <<>>]
      /\ ownImage' = [p \in Proc |-> IF p = First THEN n ELSE <<>>]
      /\ ownImage[First] = m
  BY <1>1, <1>2, <1>4, <1>5 DEF Memory
<1>7. \A i \in 1 .. sz[First] : i - 1 \in Index /\ i - 1 < sz[First]
  BY <1>2, Constants DEF Index
<1>8. CASE SameSees
  <2>1. \A i \in 1 .. sz[First] : Sees(i - 1)' = Sees(i - 1)
    BY <1>7, <1>8 DEF SameSees
  <2>2. n = m
    BY <1>4, <1>5, <1>8, <2>1 DEF SameSees
  <2>3. Private!EnterOrLeaveKernel
    BY <1>6, <2>2 DEF Private!EnterOrLeaveKernel
  <2> QED
    BY <1>1, <1>3, <2>3 DEF Private!Next, Private!Kernel
<1>9. ASSUME NEW k \in Index, NEW v \in Val, k < sz[First], sz'[First] = sz[First], SeesAfter(k, v), pc[First] = "user", pc' = pc
      PROVE  Private!Next
  <2>1. \A i \in 1 .. sz[First] : Sees(i - 1)' = IF i - 1 = k THEN v ELSE Sees(i - 1)
    BY <1>7, <1>9 DEF SeesAfter
  <2>2. k + 1 \in 1 .. sz[First] /\ k + 1 \in 1 .. MaxPages /\ \A i \in 1 .. sz[First] : i - 1 = k <=> i = k + 1
    BY <1>2, <1>9, Constants
  <2>3. n = [m EXCEPT ![k + 1] = v] /\ DOMAIN m = 1 .. sz[First]
    BY <1>4, <1>5, <1>9, <2>1, <2>2
  <2>4. ownImage' = [ownImage EXCEPT ![First][k + 1] = v]
    BY <1>1, <1>6, <2>3
  <2>5. ownUser' = ownUser /\ ownUser[First]
    BY <1>1, <1>3, <1>9 DEF InUser
  <2>6. Private!Write(First, k + 1, v)
    BY <1>6, <2>2, <2>3, <2>4, <2>5 DEF Private!Write
  <2> QED
    BY <1>1, <2>2, <2>5, <2>6 DEF Private!Next
<1>10. ASSUME sz[First] \in Index, sz'[First] = sz[First] + 1, SeesAfter(sz[First], Zero) PROVE Private!Next
  <2>1. \A i \in 1 .. sz'[First] : i - 1 \in Index /\ i - 1 < sz'[First]
    BY <1>2, <1>10, Constants DEF Index
  <2>2. \A i \in 1 .. sz'[First] : Sees(i - 1)' = IF i - 1 = sz[First] THEN Zero ELSE Sees(i - 1)
    BY <1>10, <2>1 DEF SeesAfter
  <2>3. m \in Seq(Val \cup {Sees(j) : j \in Index}) /\ Len(m) = sz[First]
    BY <1>2, <1>4, <1>7
  <2>4. n = Append(m, Zero)
    BY <1>2, <1>4, <1>5, <1>10, <2>2, <2>3
  <2>5. Len(ownImage[First]) \in 1 .. MaxPages - 1
    <3>1. sz[First] \in 1 .. MaxPages - 1
      BY <1>2, <1>10, Constants
    <3> QED
      BY <1>6, <2>3, <3>1
  <2>6. Private!Grow(First)
    BY <1>1, <1>6, <2>4, <2>5 DEF Private!Grow
  <2> QED
    BY <1>1, <1>3, <2>6 DEF Private!Next, Private!Kernel
<1> QED
  BY <1>1, <1>8, <1>9, <1>10 DEF LoneEffect

(* swap_out() and swap_in() (pageswap.c:202-255): a process that never forks  *)
(* has a memory of its own, as if no page ever went to the disk.            *)
THEOREM SwappingIsInvisible == AloneSpec /\ []SlotsAreNoPages => PrivateSpec
<1>1. AloneInv /\ AloneInv' /\ SlotsAreNoPages /\ SlotsAreNoPages' /\ [AloneNext]_aloneVars
        => [Private!Next]_<<ownImage, ownUser>>
  <2> SUFFICES ASSUME AloneInv, AloneInv', SlotsAreNoPages, SlotsAreNoPages', [AloneNext]_aloneVars
               PROVE  [Private!Next]_<<ownImage, ownUser>>
    OBVIOUS
  <2>1. CASE UNCHANGED aloneVars
    BY <2>1, AloneUnchanged
  <2>2. CASE AloneNext /\ alone
    BY <2>2, PrivateStep
  <2>3. CASE AloneNext /\ ~alone
    <3>1. UNCHANGED <<ownImage, ownUser>>
      BY <2>3 DEF AloneNext, ownImage, ownUser
    <3> QED
      BY <3>1
  <2> QED
    BY <2>1, <2>2, <2>3
<1> QED
  BY PrivateInit, AloneInvariant, <1>1, PTL DEF AloneSpec, PrivateSpec, Private!Spec

(* When no slot has the number of a page, that is when the kernel takes at    *)
(* least NSWAP pages, a process that never forks loses no slot and sees a    *)
(* memory of its own, with no further hypothesis.                           *)
THEOREM LoneProcessIsSafe ==
  ASSUME NSlot <= FirstPage
  PROVE  AloneSpec => []NoSlotLost /\ PrivateSpec
<1>1. SlotsAreNoPages
  BY SwapAssumption DEF SlotsAreNoPages, Slot, Page
<1> QED
  BY <1>1, NoSlotIsLost, SwappingIsInvisible, PTL
=============================================================================
