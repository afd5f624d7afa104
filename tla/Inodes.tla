------------------------------- MODULE Inodes -------------------------------
(***************************************************************************)
(* Inodes, directories and path lookup of fs.c, and the system calls of     *)
(* sysfile.c that change them: open, mkdir, link, unlink, chdir, close.     *)
(*                                                                         *)
(* An inode's contents change only under its sleep lock, so everything a    *)
(* call does between ilock() and iunlock() of one inode is one action; where *)
(* a call holds one lock while it takes another or calls iput(), the lock   *)
(* is kept in `lock'.  ref is guarded by icache.lock instead and changes on  *)
(* its own: iput() decides under the lock whether it frees the inode        *)
(* (PutCheck) and gives its reference back afterwards (PutDrop).            *)
(* "." is the directory itself and ".." is up; neither occurs in a path.    *)
(***************************************************************************)
EXTENDS Integers, FiniteSets, Sequences

CONSTANTS
  Proc,          \* processes, each with room for one open file
  NInode,        \* inodes on the disk; 1 is the root directory
  Name,          \* names of directory entries
  Calls,         \* the calls made: records [op, path, new]
  MaxLink,       \* bound on nlink: links made in removed directories are never taken back
  Free, None     \* the owner of a free lock; no inode

ASSUME InodesAssumption ==
  /\ NInode \in Nat \ {0} /\ Free \notin Proc /\ None \notin 1..NInode
  /\ IsFiniteSet(Proc) /\ IsFiniteSet(Name) /\ MaxLink \in Nat

(* What the calls are given: the paths of calls that look for a directory   *)
(* entry name one, as nameiparent() asks (fs.c:653).                        *)
ASSUME CallsAssumption ==
  \A c \in Calls :
    /\ c.op \in {"open", "create", "mkdir", "link", "unlink", "chdir", "close"}
    /\ c.path \in Seq(Name) /\ (c.op \in {"create", "mkdir", "unlink"} => c.path # <<>>)
    /\ c.op = "link" => c.new \in Seq(Name) \ {<<>>}

VARIABLES
  dinode,        \* contents of each inode, in the cache and on disk
  ref,           \* ip->ref
  valid,         \* ip->valid
  lock,          \* holder of ip->lock
  cwd,           \* current directory of each process
  file,          \* inode of the process's open file
  frame          \* what each process is doing in the kernel

vars == <<dinode, ref, valid, lock, cwd, file, frame>>

Inode == 1..NInode
Root == 1
NoNames == [n \in Name |-> None]
FreeInode == [type |-> "none", nlink |-> 0, up |-> None, ent |-> NoNames]
NewInode(type, dp) == [type |-> type, nlink |-> 1, up |-> dp, ent |-> NoNames]

(* pc: what the call does next, once every inode in puts has been iput().   *)
(* ip is its inode, dp its directory (or the old file of link()), path      *)
(* what namex() has not resolved yet, dropping the second half of iput().   *)
Frame(pc, call, ip, dp, path, puts) ==
  [pc |-> pc, call |-> call, ip |-> ip, dp |-> dp, path |-> path, puts |-> puts,
   dropping |-> FALSE]
NoCall == [op |-> "none"]
Idle(puts) == Frame("idle", NoCall, None, None, <<>>, puts)

Dinodes ==
  [type: {"none", "dir", "file"}, nlink: Nat, up: Inode \cup {None},
   ent: [Name -> Inode \cup {None}]]
Frames ==
  [pc: {"idle", "walk", "found", "exists", "got", "setcwd", "unlockdir", "unlink", "unlinkold"},
   call: Calls \cup {NoCall}, ip: Inode \cup {None}, dp: Inode \cup {None},
   path: Seq(Name), puts: Seq(Inode), dropping: BOOLEAN]

TypeOK ==
  /\ dinode \in [Inode -> Dinodes]
  /\ ref \in [Inode -> Nat] /\ valid \in [Inode -> BOOLEAN]
  /\ lock \in [Inode -> Proc \cup {Free}]
  /\ cwd \in [Proc -> Inode] /\ file \in [Proc -> Inode \cup {None}]
  /\ frame \in [Proc -> Frames]

Init ==
  /\ dinode = [i \in Inode |-> IF i = Root THEN NewInode("dir", Root) ELSE FreeInode]
  /\ ref = [i \in Inode |-> IF i = Root THEN Cardinality(Proc) ELSE 0]
  /\ valid = [i \in Inode |-> i = Root]
  /\ lock = [i \in Inode |-> Free]
  /\ cwd = [p \in Proc |-> Root] /\ file = [p \in Proc |-> None]
  /\ frame = [p \in Proc |-> Idle(<<>>)]

(***************************************************************************)
(* Helpers.                                                                *)
(***************************************************************************)
(* Process p is about to take the step pc and has no iput() to finish.      *)
At(p, pc) == frame[p].pc = pc /\ frame[p].puts = <<>>
Become(p, f) == frame' = [frame EXCEPT ![p] = f]
NameOf(p) == Head(frame[p].path)
IsDir(i) == dinode[i].type = "dir"

(* ilock() waits for the lock, panics on a free inode, and reads it.        *)
CanLock(p, i) == lock[i] \in {Free, p} /\ dinode[i].type # "none"
Loaded(i) == valid' = [valid EXCEPT ![i] = TRUE]

(* iget(): a cache entry that nobody uses is recycled and is not valid.     *)
IgetTo(i) == ref' = [ref EXCEPT ![i] = @ + 1]

Fails(p, puts) == Become(p, Idle(puts))

(***************************************************************************)
(* iput()                                                                  *)
(***************************************************************************)
(* Faulty: does not ask whether others hold the inode.                     *)
AnyRef(i) == valid[i] /\ dinode[i].nlink = 0

LastRef(i) == valid[i] /\ dinode[i].nlink = 0 /\ ref[i] = 1

PutCheck(p) ==
  /\ frame[p].puts # <<>> /\ ~frame[p].dropping
  /\ LET i == Head(frame[p].puts) IN
     /\ lock[i] = Free
     /\ IF LastRef(i)
        THEN /\ dinode' = [dinode EXCEPT ![i] = FreeInode]
             /\ valid' = [valid EXCEPT ![i] = FALSE]
        ELSE UNCHANGED <<dinode, valid>>
  /\ frame' = [frame EXCEPT ![p].dropping = TRUE]
  /\ UNCHANGED <<ref, lock, cwd, file>>

PutDrop(p) ==
  /\ frame[p].dropping
  /\ LET i == Head(frame[p].puts) IN
     /\ ref' = [ref EXCEPT ![i] = @ - 1]
     /\ valid' = [valid EXCEPT ![i] = @ /\ ref[i] > 1]
  /\ frame' = [frame EXCEPT ![p].dropping = FALSE, ![p].puts = Tail(@)]
  /\ UNCHANGED <<dinode, lock, cwd, file>>

(***************************************************************************)
(* Entry of a call, and namex()                                            *)
(***************************************************************************)
ByParent(op) == op \in {"create", "mkdir", "unlink"}

Searching(path) == IF path = <<>> THEN "found" ELSE "walk"
From(p, c) == IF c.rel THEN cwd[p] ELSE Root

(* open, create, mkdir, link, unlink and chdir start with a path lookup;    *)
(* it begins at the root or at the current directory.                       *)
Start(p, c) ==
  /\ At(p, "idle") /\ c.op # "close"
  /\ IgetTo(From(p, c))
  /\ Become(p, Frame(Searching(c.path), c, From(p, c), None, c.path, <<>>))
  /\ UNCHANGED <<dinode, valid, lock, cwd, file>>

(* sys_close(): fileclose() of the last reference to the file.             *)
Close(p) ==
  /\ At(p, "idle") /\ file[p] # None /\ \E c \in Calls : c.op = "close"
  /\ file' = [file EXCEPT ![p] = None]
  /\ Become(p, Idle(<<file[p]>>))
  /\ UNCHANGED <<dinode, ref, valid, lock, cwd>>

(* The lookup of link()'s new name, of create() and of unlink() stops one   *)
(* level early.                                                             *)
StopsEarly(f) == (ByParent(f.call.op) \/ f.dp # None) /\ Len(f.path) = 1

(* Where a lookup that failed leaves the call.                             *)
LookupFails(p, puts) ==
  LET f == frame[p] IN
  Become(p, IF f.dp = None THEN Idle(puts) ELSE Frame("unlinkold", f.call, f.dp, None, <<>>, puts))

Walk(p) ==
  LET f == frame[p]
      i == f.ip
      next == dinode[i].ent[NameOf(p)]
  IN
  /\ At(p, "walk")
  /\ CanLock(p, i) /\ Loaded(i)
  /\ IF ~IsDir(i) \/ (~StopsEarly(f) /\ next = None)
     THEN LookupFails(p, <<i>>) /\ UNCHANGED ref
     ELSE IF StopsEarly(f)
     THEN Become(p, [f EXCEPT !.pc = "found"]) /\ UNCHANGED ref
     ELSE /\ IgetTo(next)
          /\ Become(p, Frame(Searching(Tail(f.path)), f.call, next, f.dp, Tail(f.path), <<i>>))
  /\ UNCHANGED <<dinode, lock, cwd, file>>

(***************************************************************************)
(* create(): the directory stays locked until the entry is written.         *)
(***************************************************************************)
TypeFor(op) == IF op = "mkdir" THEN "dir" ELSE "file"

(* Faulty: create() does not count the ".." of the new directory.          *)
NoDotDot(type) == 0

(* The link that a child's ".." is to its directory.                       *)
DotDot(type) == IF type = "dir" THEN 1 ELSE 0

(* ialloc() takes the first free inode.                                    *)
FirstFree ==
  CHOOSE i \in Inode : /\ dinode[i].type = "none"
                       /\ \A j \in Inode : dinode[j].type = "none" => i <= j

Create(p) ==
  LET f == frame[p]
      d == f.ip
      type == TypeFor(f.call.op)
      exists == dinode[d].ent[NameOf(p)]
      new == FirstFree
  IN
  /\ At(p, "found") /\ f.call.op \in {"create", "mkdir"}
  /\ CanLock(p, d)
  /\ IF exists # None
     THEN /\ IgetTo(exists) /\ Loaded(d)
          /\ Become(p, Frame("exists", f.call, exists, None, <<>>, <<d>>))
          /\ UNCHANGED <<dinode, lock>>
     ELSE /\ \E i \in Inode : dinode[i].type = "none"
          /\ lock[new] = Free
          /\ IgetTo(new)
          /\ valid' = [valid EXCEPT ![d] = TRUE, ![new] = TRUE]
          /\ dinode' = [dinode EXCEPT ![new] = NewInode(type, d),
                                      ![d].nlink = @ + DotDot(type),
                                      ![d].ent[NameOf(p)] = new]
          /\ lock' = [lock EXCEPT ![new] = p]
          /\ Become(p, Frame("got", f.call, new, None, <<>>, <<d>>))
  /\ UNCHANGED <<cwd, file>>

(* create() found the name: only open() of a file goes on.                  *)
Exists(p) ==
  LET i == frame[p].ip
      ok == frame[p].call.op = "create" /\ dinode[i].type = "file"
  IN
  /\ At(p, "exists") /\ CanLock(p, i) /\ Loaded(i)
  /\ lock' = [lock EXCEPT ![i] = IF ok THEN p ELSE Free]
  /\ IF ok THEN Become(p, [frame[p] EXCEPT !.pc = "got"]) ELSE Fails(p, <<i>>)
  /\ UNCHANGED <<dinode, ref, cwd, file>>

(* The end of open() and mkdir(): the inode becomes the open file unless    *)
(* there is no room for another, and otherwise is put.                      *)
Opens(f) == f.call.op \in {"open", "create"}
Got(p) ==
  LET f == frame[p]
      keep == Opens(f) /\ file[p] = None
  IN
  /\ At(p, "got") \/ (At(p, "found") /\ f.call.op = "open")
  /\ CanLock(p, f.ip) /\ Loaded(f.ip)
  /\ lock' = [lock EXCEPT ![f.ip] = Free]
  /\ file' = IF keep THEN [file EXCEPT ![p] = f.ip] ELSE file
  /\ Become(p, Idle(IF keep THEN <<>> ELSE <<f.ip>>))
  /\ UNCHANGED <<dinode, ref, cwd>>

(***************************************************************************)
(* chdir(): the old directory is put before cwd names the new one.          *)
(***************************************************************************)
(* Faulty: chdir() keeps its reference to the old directory.               *)
KeepCwd(p) == <<>>

OldCwd(p) == <<cwd[p]>>

Chdir(p) ==
  LET i == frame[p].ip IN
  /\ At(p, "found") /\ frame[p].call.op = "chdir"
  /\ CanLock(p, i) /\ Loaded(i)
  /\ IF IsDir(i)
     THEN Become(p, Frame("setcwd", frame[p].call, i, None, <<>>, OldCwd(p)))
     ELSE Fails(p, <<i>>)
  /\ UNCHANGED <<dinode, ref, lock, cwd, file>>

SetCwd(p) ==
  /\ At(p, "setcwd")
  /\ cwd' = [cwd EXCEPT ![p] = frame[p].ip]
  /\ Become(p, Idle(<<>>))
  /\ UNCHANGED <<dinode, ref, valid, lock, file>>

(***************************************************************************)
(* link()                                                                  *)
(***************************************************************************)
(* Faulty: link() of anything.                                             *)
AnyType(i) == TRUE

Linkable(i) == ~IsDir(i)

(* The link is counted before the new name is looked up.                   *)
LinkOld(p) ==
  LET i == frame[p].ip
      c == frame[p].call IN
  /\ At(p, "found") /\ c.op = "link" /\ frame[p].dp = None /\ dinode[i].nlink < MaxLink
  /\ CanLock(p, i) /\ Loaded(i)
  /\ IF Linkable(i)
     THEN /\ dinode' = [dinode EXCEPT ![i].nlink = @ + 1]
          /\ IgetTo(From(p, c))
          /\ Become(p, Frame("walk", c, From(p, c), i, c.new, <<>>))
     ELSE Fails(p, <<i>>) /\ UNCHANGED <<dinode, ref>>
  /\ UNCHANGED <<lock, cwd, file>>

(* dirlink(): a name that exists is put while the directory is locked.      *)
LinkNew(p) ==
  LET f == frame[p]
      d == f.ip
      exists == dinode[d].ent[NameOf(p)] IN
  /\ At(p, "found") /\ f.dp # None
  /\ CanLock(p, d) /\ Loaded(d)
  /\ IF exists = None
     THEN /\ dinode' = [dinode EXCEPT ![d].ent[NameOf(p)] = f.dp]
          /\ Become(p, Idle(<<d, f.dp>>))
          /\ UNCHANGED <<lock, ref>>
     ELSE /\ lock' = [lock EXCEPT ![d] = p]
          /\ IgetTo(exists)
          /\ Become(p, [f EXCEPT !.pc = "unlockdir", !.puts = <<exists>>])
          /\ UNCHANGED dinode
  /\ UNCHANGED <<cwd, file>>

(* iunlockput(dp) of a call that fails.                                    *)
UnlockDir(p) ==
  LET f == frame[p] IN
  /\ At(p, "unlockdir")
  /\ lock' = [lock EXCEPT ![f.ip] = Free]
  /\ LookupFails(p, <<f.ip>>)
  /\ UNCHANGED <<dinode, ref, valid, cwd, file>>

(* The end of link() that failed and of unlink(): one link less.            *)
UnlinkOld(p) ==
  LET i == frame[p].ip IN
  /\ At(p, "unlinkold") /\ CanLock(p, i) /\ Loaded(i)
  /\ dinode' = [dinode EXCEPT ![i].nlink = @ - 1]
  /\ lock' = [lock EXCEPT ![i] = Free]
  /\ Become(p, Idle(<<i>>))
  /\ UNCHANGED <<ref, cwd, file>>

(***************************************************************************)
(* unlink(): the directory is locked while the entry's inode is locked.     *)
(***************************************************************************)
UnlinkFind(p) ==
  LET d == frame[p].ip
      i == dinode[d].ent[NameOf(p)] IN
  /\ At(p, "found") /\ frame[p].call.op = "unlink"
  /\ CanLock(p, d) /\ Loaded(d)
  /\ IF i = None
     THEN Fails(p, <<d>>) /\ UNCHANGED <<lock, ref>>
     ELSE /\ lock' = [lock EXCEPT ![d] = p]
          /\ IgetTo(i)
          /\ Become(p, [frame[p] EXCEPT !.pc = "unlink", !.ip = i, !.dp = d])
  /\ UNCHANGED <<dinode, cwd, file>>

(* Faulty: unlink() of a directory that has entries.                       *)
AnyDir(i) == TRUE

IsDirEmpty(i) == IsDir(i) => dinode[i].ent = NoNames

Unlink(p) ==
  LET f == frame[p]
      i == f.ip
      d == f.dp IN
  /\ At(p, "unlink") /\ CanLock(p, i) /\ Loaded(i)
  /\ IF IsDirEmpty(i)
     THEN /\ dinode' = [dinode EXCEPT ![d].ent[NameOf(p)] = None,
                                      ![d].nlink = @ - DotDot(dinode[i].type)]
          /\ lock' = [lock EXCEPT ![d] = Free, ![i] = p]
          /\ Become(p, Frame("unlinkold", f.call, i, None, <<>>, <<d>>))
     ELSE /\ Become(p, [f EXCEPT !.pc = "unlockdir", !.ip = d, !.dp = None, !.puts = <<i>>])
          /\ UNCHANGED <<dinode, lock>>
  /\ UNCHANGED <<ref, cwd, file>>

-----------------------------------------------------------------------------
Step(p) ==
  \/ PutCheck(p) \/ PutDrop(p)
  \/ \E c \in Calls : Start(p, c)
  \/ Close(p) \/ Walk(p)
  \/ Create(p) \/ Exists(p) \/ Got(p)
  \/ Chdir(p) \/ SetCwd(p)
  \/ LinkOld(p) \/ LinkNew(p) \/ UnlockDir(p) \/ UnlinkOld(p)
  \/ UnlinkFind(p) \/ Unlink(p)

Next == \E p \in Proc : Step(p)

Spec == Init /\ [][Next]_vars

(***************************************************************************)
(* Properties.                                                             *)
(***************************************************************************)
(* Who refers to inode i: as current directory, open file, directory or     *)
(* inode of a call, or as the k-th of the inodes it is about to iput().     *)
InCwd(i) == {p \in Proc : cwd[p] = i /\ frame[p].pc # "setcwd"}
InFile(i) == {p \in Proc : file[p] = i}
InIp(i) == {p \in Proc : frame[p].ip = i}
InDp(i) == {p \in Proc : frame[p].dp = i}
InPuts(i, k) == {p \in Proc : Len(frame[p].puts) >= k /\ frame[p].puts[k] = i}

(* Every reference counted in ref is held by somebody and every holder is    *)
(* counted, through lookups, failures and the windows of iput() and chdir(): *)
(* an entry of the inode cache is neither lost nor recycled under a user.    *)
RefsExact ==
  \A i \in Inode :
    ref[i] = Cardinality(InCwd(i)) + Cardinality(InFile(i)) + Cardinality(InIp(i))
             + Cardinality(InDp(i)) + Cardinality(InPuts(i, 1)) + Cardinality(InPuts(i, 2))

(* Process p holds inode i, other than to drop the reference it has put.    *)
Uses(p, i) ==
  \/ p \in InCwd(i) \cup InFile(i) \cup InIp(i) \cup InDp(i) \cup InPuts(i, 2)
  \/ p \in InPuts(i, 1) /\ ~frame[p].dropping

(* An inode that somebody uses is not freed, whoever unlinks it: ilock()     *)
(* never meets an inode of no type.                                         *)
UsedIsAllocated ==
  \A p \in Proc, i \in Inode : Uses(p, i) => dinode[i].type # "none"

(* The names an inode has: entries of directories, and the ".." of those     *)
(* of its subdirectories that have a name.                                  *)
EntriesOf(i) == {e \in Inode \X Name : dinode[e[1]].ent[e[2]] = i}
Children(i) ==
  {j \in Inode \ {i} : IsDir(j) /\ dinode[j].up = i /\ \E n \in Name : dinode[i].ent[n] = j}

(* No inode has more names than nlink counts, so that none is freed while a  *)
(* name leads to it, and no count is exceeded by a call that is half done.   *)
NamesAreCounted ==
  \A i \in Inode : Cardinality(EntriesOf(i)) + Cardinality(Children(i)) <= dinode[i].nlink

(* The directories form a tree: one entry names a directory, in the          *)
(* directory that its ".." names.                                           *)
DirectoryTree ==
  \A i \in Inode : IsDir(i) =>
     \A e \in EntriesOf(i) : EntriesOf(i) = {e} /\ dinode[i].up = e[1]

(* The count of a directory falls with an entry of its own that goes, or    *)
(* else, when its own name has gone, while it is empty, although that was   *)
(* tested two locks earlier than the count is written.                      *)
RemovedWasEmpty ==
  [][\A i \in Inode : IsDir(i) /\ dinode'[i].nlink < dinode[i].nlink
                         => dinode[i].ent = NoNames \/ dinode'[i].ent # dinode[i].ent]_vars

(* fs.c:327-328: "If that was the last reference and the inode has no links  *)
(* to it, free the inode (and its content) on disk."  Two iput() that both   *)
(* look at ref before either drops its reference leave it allocated.         *)
LastPutFrees ==
  \A i \in Inode : dinode[i].type # "none" => ref[i] > 0 \/ dinode[i].nlink > 0
=============================================================================
