----------------------------- MODULE FileBlocks -----------------------------
(***************************************************************************)
(* Contents of files on disk blocks (fs.c, file.c): write() in transactions  *)
(* of limited size, bmap() and balloc(), the truncation of a file nobody     *)
(* names, and crashes, after which the log leaves the blocks as they were at  *)
(* the last commit.  A block has BSIZE cells; a cell holds a byte, or in an  *)
(* indirect block the number of a block.                                    *)
(*                                                                         *)
(* The inode lock is held from ilock() to iunlock(); the bitmap is read and   *)
(* changed under the lock of its buffer, in one step.                       *)
(***************************************************************************)
EXTENDS Integers, FiniteSets, FiniteSetsExt

CONSTANTS
  Proc,
  File,          \* inode numbers
  None, Stale,
  NBlock, BSIZE, NDIRECT,
  MaxChunk,      \* the bytes filewrite() writes in one transaction
  Sizes          \* the bytes write() is called for

ASSUME FileAssumption ==
  /\ NBlock \in Nat /\ BSIZE \in Nat \ {0} /\ NDIRECT \in Nat /\ MaxChunk \in Nat \ {0}
  /\ Sizes \subseteq Nat \ {0}
  /\ None \notin Proc /\ None \notin File

VARIABLES
  bitmap,        \* blocks in use
  data,          \* contents of the blocks
  dinode,        \* size and addrs of each inode on disk
  ip,            \* the same of the inode in memory
  ilocked,       \* who holds ip->lock
  off,           \* f->off of the one struct file of each file, -1 when closed
  stable,        \* bitmap, data and inodes of the last commit
  pc, loc        \* the call each process is in

disk == <<bitmap, data, dinode>>
vars == <<disk, ip, ilocked, off, stable, pc, loc>>

Block == 1..NBlock
Cell == 0..(BSIZE - 1)
Zeros == [c \in Cell |-> 0]
NoBlocks == [size |-> 0, addrs |-> [k \in 0..NDIRECT |-> 0]]
NoLoc == [file |-> None, left |-> 0, pos |-> 0, todo |-> 0, addr |-> 0]

Init ==
  /\ bitmap = {} /\ data = [b \in Block |-> [c \in Cell |-> Stale]]
  /\ dinode = [f \in File |-> NoBlocks] /\ ip = dinode
  /\ ilocked = [f \in File |-> None] /\ off = [f \in File |-> -1]
  /\ stable = [bitmap |-> bitmap, data |-> data, dinode |-> dinode]
  /\ pc = [p \in Proc |-> "idle"] /\ loc = [p \in Proc |-> NoLoc]

Goto(p, s) == pc' = [pc EXCEPT ![p] = s]
Here(p) == loc[p].file
InOp(p) == pc[p] \notin {"idle", "begin"}

(* end_op() of p: the last call commits.                                   *)
EndOp(p) == stable' = IF \E q \in Proc \ {p} : InOp(q) THEN stable
  ELSE [bitmap |-> bitmap', data |-> data', dinode |-> dinode']

-----------------------------------------------------------------------------
Open(f) ==
  /\ off[f] = -1 /\ \A p \in Proc : Here(p) # f
  /\ off' = [off EXCEPT ![f] = 0]
  /\ UNCHANGED <<disk, ip, ilocked, stable, pc, loc>>

Close(f) ==
  /\ off[f] # -1 /\ \A p \in Proc : Here(p) # f
  /\ off' = [off EXCEPT ![f] = -1]
  /\ UNCHANGED <<disk, ip, ilocked, stable, pc, loc>>

StartWrite(p, f, n) ==
  /\ pc[p] = "idle" /\ off[f] # -1
  /\ loc' = [loc EXCEPT ![p] = [NoLoc EXCEPT !.file = f, !.left = n]]
  /\ Goto(p, "begin")
  /\ UNCHANGED <<disk, ip, ilocked, off, stable>>

MaxSize == (NDIRECT + BSIZE) * BSIZE

(* begin_op(), ilock() and the checks of writei(): write() returns -1       *)
(* whatever it has written in transactions before.                          *)
BeginChunk(p) ==
  LET f == Here(p)
      n1 == Min({loc[p].left, MaxChunk}) IN
  /\ pc[p] = "begin" /\ ilocked[f] = None
  /\ IF off[f] > ip[f].size \/ off[f] + n1 > MaxSize
     THEN /\ Goto(p, "idle") /\ loc' = [loc EXCEPT ![p] = NoLoc]
          /\ UNCHANGED ilocked
     ELSE /\ Goto(p, "bmap")
          /\ loc' = [loc EXCEPT ![p].left = @ - n1, ![p].pos = off[f], ![p].todo = n1]
          /\ ilocked' = [ilocked EXCEPT ![f] = p]
  /\ UNCHANGED <<disk, ip, off, stable>>

(* bmap(): what there is of the path to block bn of the file.               *)
Indirect(f) == ip[f].addrs[NDIRECT]
Lacks(f, bn) ==
  IF bn < NDIRECT THEN IF ip[f].addrs[bn] = 0 THEN "direct" ELSE "none"
  ELSE IF Indirect(f) = 0 THEN "indirect"
  ELSE IF data[Indirect(f)][bn - NDIRECT] = 0 THEN "entry" ELSE "none"
BlockOf(f, bn) == IF bn < NDIRECT THEN ip[f].addrs[bn] ELSE data[Indirect(f)][bn - NDIRECT]

(* balloc() marks the first block that is free; it panics when none is, and  *)
(* nothing but a crash follows.                                             *)
Balloc(p) ==
  /\ pc[p] = "bmap" /\ Lacks(Here(p), loc[p].pos \div BSIZE) # "none"
  /\ Block \ bitmap # {}
  /\ LET b == Min(Block \ bitmap) IN
     /\ bitmap' = bitmap \cup {b}
     /\ loc' = [loc EXCEPT ![p].addr = b]
  /\ Goto(p, "zero")
  /\ UNCHANGED <<data, dinode, ip, ilocked, off, stable>>

Bzero(b) == [data EXCEPT ![b] = Zeros]

(* bzero(), and the block becomes part of the file.                        *)
Attach(p) ==
  LET f == Here(p)
      b == loc[p].addr
      bn == loc[p].pos \div BSIZE IN
  /\ pc[p] = "zero"
  /\ IF Lacks(f, bn) = "entry"
     THEN data' = [Bzero(b) EXCEPT ![Indirect(f)][bn - NDIRECT] = b] /\ UNCHANGED ip
     ELSE /\ data' = Bzero(b)
          /\ ip' = [ip EXCEPT ![f].addrs[Min({bn, NDIRECT})] = b]
  /\ loc' = [loc EXCEPT ![p].addr = 0]
  /\ Goto(p, "bmap")
  /\ UNCHANGED <<bitmap, dinode, ilocked, off, stable>>

(* What programs write as byte i of file f: each byte tells its place.       *)
Byte(f, i) == f * (MaxSize + 1) + i

WriteBlock(p) ==
  LET f == Here(p)
      first == loc[p].pos % BSIZE
      m == Min({loc[p].todo, BSIZE - first})
      b == BlockOf(f, loc[p].pos \div BSIZE) IN
  /\ pc[p] = "bmap" /\ Lacks(f, loc[p].pos \div BSIZE) = "none"
  /\ data' = [data EXCEPT ![b] = [c \in Cell |-> IF c \in first..(first + m - 1)
                                              THEN Byte(f, loc[p].pos + 1 + c - first) ELSE @[c]]]
  /\ loc' = [loc EXCEPT ![p].pos = @ + m, ![p].todo = @ - m]
  /\ Goto(p, IF m = loc[p].todo THEN "end" ELSE "bmap")
  /\ UNCHANGED <<bitmap, dinode, ip, ilocked, off, stable>>

(* Faulty: the inode is written to the disk when its size is known only.     *)
KeepAddrs(f, i) == [dinode EXCEPT ![f].size = i.size]

Iupdate(f, i) == [dinode EXCEPT ![f] = i]

(* Faulty: f->off stays where it was.                                       *)
OffKept(f, n) == off

OffMoves(f, n) == [off EXCEPT ![f] = n]

(* The size grows, the offset moves, iunlock() and end_op().                *)
EndChunk(p) ==
  LET f == Here(p)
      grown == [ip[f] EXCEPT !.size = loc[p].pos] IN
  /\ pc[p] = "end"
  /\ IF loc[p].pos > ip[f].size
     THEN ip' = [ip EXCEPT ![f] = grown] /\ dinode' = Iupdate(f, grown)
     ELSE UNCHANGED <<ip, dinode>>
  /\ off' = OffMoves(f, loc[p].pos)
  /\ ilocked' = [ilocked EXCEPT ![f] = None]
  /\ UNCHANGED <<bitmap, data>> /\ EndOp(p)
  /\ IF loc[p].left = 0
     THEN Goto(p, "idle") /\ loc' = [loc EXCEPT ![p] = NoLoc]
     ELSE Goto(p, "begin") /\ loc' = [loc EXCEPT ![p].pos = 0]

(* read() moves f->off under the inode lock too; the bytes it copies are what *)
(* Bytes below says of the file.                                            *)
Read(p, f, n) ==
  /\ pc[p] = "idle" /\ off[f] # -1 /\ ilocked[f] = None
  /\ off[f] < ip[f].size
  /\ off' = [off EXCEPT ![f] = Min({@ + n, ip[f].size})]
  /\ UNCHANGED <<disk, ip, ilocked, stable, pc, loc>>

-----------------------------------------------------------------------------
(* itrunc() of a file that nobody has open and nobody names any more.       *)
StartTrunc(p, f) ==
  /\ pc[p] = "idle" /\ off[f] = -1 /\ ilocked[f] = None /\ ip[f].size > 0
  /\ loc' = [loc EXCEPT ![p] = [NoLoc EXCEPT !.file = f]]
  /\ ilocked' = [ilocked EXCEPT ![f] = p]
  /\ Goto(p, "trunc")
  /\ UNCHANGED <<disk, ip, off, stable>>

Addrs(f) == {k \in 0..NDIRECT : ip[f].addrs[k] # 0}
Entries(f, j) == {c \in Cell : c >= j /\ data[Indirect(f)][c] # 0}

(* The direct blocks, what the indirect block lists, and that one last.  What *)
(* a free block still holds, nobody reads: it is called Stale here.          *)
Bfree(p) ==
  LET f == Here(p)
      k == Min(Addrs(f))
      entries == Entries(f, loc[p].pos)
      listed == k = NDIRECT /\ entries # {}
      b == IF listed THEN data[Indirect(f)][Min(entries)] ELSE ip[f].addrs[k]
  IN
  /\ pc[p] = "trunc" /\ Addrs(f) # {}
  /\ bitmap' = bitmap \ {b}
  /\ data' = [data EXCEPT ![b] = [c \in Cell |-> Stale]]
  /\ loc' = IF listed THEN [loc EXCEPT ![p].pos = Min(entries) + 1] ELSE loc
  /\ ip' = IF listed THEN ip ELSE [ip EXCEPT ![f].addrs[k] = 0]
  /\ UNCHANGED <<dinode, ilocked, off, stable, pc>>

TruncDone(p) ==
  LET f == Here(p) IN
  /\ pc[p] = "trunc" /\ Addrs(f) = {}
  /\ ip' = [ip EXCEPT ![f] = NoBlocks] /\ dinode' = Iupdate(f, NoBlocks)
  /\ ilocked' = [ilocked EXCEPT ![f] = None]
  /\ UNCHANGED <<bitmap, data, off>> /\ EndOp(p)
  /\ Goto(p, "idle") /\ loc' = [loc EXCEPT ![p] = NoLoc]

Crash ==
  /\ bitmap' = stable.bitmap /\ data' = stable.data /\ dinode' = stable.dinode /\ ip' = stable.dinode
  /\ ilocked' = [f \in File |-> None] /\ off' = [f \in File |-> -1]
  /\ pc' = [p \in Proc |-> "idle"] /\ loc' = [p \in Proc |-> NoLoc]
  /\ UNCHANGED stable

Next ==
  \/ \E f \in File : Open(f) \/ Close(f)
  \/ \E p \in Proc :
       \/ BeginChunk(p) \/ Balloc(p) \/ Attach(p) \/ WriteBlock(p) \/ EndChunk(p)
       \/ Bfree(p) \/ TruncDone(p)
       \/ \E f \in File : StartTrunc(p, f) \/ \E n \in Sizes : StartWrite(p, f, n) \/ Read(p, f, n)
  \/ Crash

Spec == Init /\ [][Next]_vars

-----------------------------------------------------------------------------
(* The places that name block b, when the inodes are i and the blocks d; a   *)
(* truncation has gone past the first past[f] entries of the indirect block. *)
Uses(b, i, d, past) ==
  {u \in File \X (0..(NDIRECT + BSIZE)) :
     LET addrs == i[u[1]].addrs
         c == u[2] - NDIRECT - 1 IN
     IF u[2] <= NDIRECT THEN addrs[u[2]] = b
     ELSE addrs[NDIRECT] # 0 /\ c >= past[u[1]] /\ d[addrs[NDIRECT]][c] = b}

Past == [f \in File |-> IF \E p \in Proc : pc[p] = "trunc" /\ Here(p) = f
                        THEN loc[ilocked[f]].pos ELSE 0]

(* fs.c:72-92.  The bitmap marks exactly the blocks in use, each used once,   *)
(* while files grow and are freed at the same time, and again after a crash  *)
(* at any moment: bfree() never finds a free block.                         *)
BitmapExact ==
  \A b \in Block :
    /\ Cardinality(Uses(b, ip, data, Past)) + Cardinality({p \in Proc : loc[p].addr = b})
         = IF b \in bitmap THEN 1 ELSE 0
    /\ Cardinality(Uses(b, stable.dinode, stable.data, [f \in File |-> 0]))
         = IF b \in stable.bitmap THEN 1 ELSE 0

(* The bytes of a file whose inode is i, up to size n.                      *)
Bytes(i, d, n) ==
  [x \in 1..n |->
     LET bn == (x - 1) \div BSIZE
         b == IF bn < NDIRECT THEN i.addrs[bn]
              ELSE IF i.addrs[NDIRECT] = 0 THEN 0 ELSE d[i.addrs[NDIRECT]][bn - NDIRECT]
     IN IF b \in Block THEN d[b][(x - 1) % BSIZE] ELSE None]

At(f) == IF off[f] # -1 /\ ilocked[f] # None THEN loc[ilocked[f]].pos ELSE off[f]
Size(f) == IF ilocked[f] = None THEN ip[f].size
           ELSE IF pc[ilocked[f]] = "trunc" THEN 0 ELSE Max({ip[f].size, loc[ilocked[f]].pos})

(* writei() and filewrite() write the bytes of a file one after the other    *)
(* wherever its blocks are: no write reaches another file, two writers of one *)
(* open file do not overwrite each other, and a crash loses whole             *)
(* transactions.                                                            *)
Files == INSTANCE FileStore WITH
  content <- [f \in File |-> Bytes(ip[f], data, Size(f))],
  at <- [f \in File |-> At(f)],
  kept <- [f \in File |-> Bytes(stable.dinode[f], stable.data, stable.dinode[f].size)]
FileSpec == Files!Spec
=============================================================================
