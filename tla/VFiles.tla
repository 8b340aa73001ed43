-------------------------------- MODULE VFiles --------------------------------
(***************************************************************************)
(* The virtual file system of src/bell_fs (file.c, vfs.c) on the root file *)
(* system (fat32.c on the RAM disk): descriptors, vnodes with their        *)
(* reference counts and their hash, and the directory entries on the disk. *)
(* The RAM disk never sleeps, so every call runs to its end at once.       *)
(*                                                                         *)
(* Opening a name below a vnode counts both, closing a vnode counts it and *)
(* its directory down, and the last close writes the directory entry back  *)
(* and frees the vnode.                                                    *)
(***************************************************************************)
EXTENDS Naturals, FiniteSets, SequencesExt

CONSTANTS Names,      \* the spellings callers use, "." and ".." aside
          Fold,       \* Fold[n]: spellings the file system takes for one name
          Dirs,       \* what precedes the last name of a path
          Buckets,    \* the places of the hash table
          Bucket,     \* Bucket[n]: the place the hash of name n gives
          MaxVNode,   \* vnodes of the one chunk (MAX_CHUNK_ENT, 32)
          MaxFD,      \* descriptors (MAX_FD_CHUNK chunks of MAX_FD_PER_CHUNK)
          MaxFile     \* bound: clusters files can start at, the root's included

ASSUME FoldAssumption == Fold \in [Names -> Names]

(* Paths have at most two names: with three the walk frees the first       *)
(* directory under the second, as vnode_close counts down one parent only  *)
(* (file.c:435).                                                           *)
ASSUME DirsAssumption == Dirs \subseteq {<<>>} \cup [1 .. 1 -> Names]

ASSUME BucketAssumption == Bucket \in [Names -> Buckets]
ASSUME BoundAssumption == {MaxVNode, MaxFD, MaxFile} \subseteq Nat \ {0}

VARIABLES vnode,   \* the chunk of vnodes
          hash,    \* hash[b]: the vnodes linked at place b
          fd,      \* fd[i]: the vnode of descriptor i
          disk     \* the directory entries

vars == <<vnode, hash, fd, disk>>

Slots == 0 .. MaxVNode - 1
FDs == 0 .. MaxFD - 1
Files == 0 .. MaxFile - 1

NoVNode == MaxVNode
Root == 0          \* the slot of the root vnode
RootDir == 0       \* where the root directory starts

(* A file is known by its first cluster (dwStartCluster); a directory is a *)
(* file, and no call looks whether what it takes for a directory is one.   *)
VNodes == [used : BOOLEAN, nRefCount : Nat, pParent : Slots \cup {NoVNode},
           szName : Names \cup {"/"}, file : Files]
Entries == [dir : Files, name : Names, file : Files]

Free == [used |-> FALSE, nRefCount |-> 0, pParent |-> NoVNode, szName |-> "/", file |-> RootDir]
RootVNode == [used |-> TRUE, nRefCount |-> 1, pParent |-> NoVNode, szName |-> "/", file |-> RootDir]

(* The root file system is mounted: its root vnode has a reference.        *)
Init ==
    /\ vnode = [v \in Slots |-> IF v = Root THEN RootVNode ELSE Free]
    /\ hash = [b \in Buckets |-> <<>>]
    /\ fd = [i \in FDs |-> NoVNode]
    /\ disk = {}

------------------------------------------------------------------------------
(* vnodes: s is the chunk and the hash.                                     *)

Now == [vnode |-> vnode, hash |-> hash]

(* Where the chain of the name's hash has vnodes of the directory: the name *)
(* itself is not compared.                                                 *)
Hits(s, p, n) ==
    {k \in DOMAIN s.hash[Bucket[n]] :
        LET v == s.hash[Bucket[n]][k] IN s.vnode[v].used /\ s.vnode[v].pParent = p}

find_vnode(s, p, n) ==
    IF Hits(s, p, n) = {} THEN NoVNode ELSE s.hash[Bucket[n]][Min(Hits(s, p, n))]

EmptySlots(s) == {v \in Slots : ~ s.vnode[v].used}
FirstEmpty(s) == Min(EmptySlots(s))

\* Mutant of EntriesOf: the spelling counts.
EntriesSpelled(s, p, n) == {e \in disk : e.dir = s.vnode[p].file /\ e.name = n}

(* Case is ignored, and the long name of an entry or its short one will do *)
(* (strcmpi): unlike the hash, the disk tells no spellings of a name apart. *)
(* A short name is a spelling of the one long name it is made for; that a   *)
(* file is created under it before there is that long name is left out.     *)
EntriesOf(s, p, n) == {e \in disk : e.dir = s.vnode[p].file /\ Fold[e.name] = Fold[n]}

(* new_vnode and register_vnode_hash.                                      *)
Registered(s, p, n, f) ==
    LET v == FirstEmpty(s)
    IN  [vnode |-> [s.vnode EXCEPT ![v] = [used |-> TRUE, nRefCount |-> 0, pParent |-> p,
                                           szName |-> n, file |-> f]],
         hash |-> [s.hash EXCEPT ![Bucket[n]] = Append(@, v)]]

\* Mutant of Unregistered: the vnode is freed and stays in the hash.
UnregisteredNot(s, v) == [s EXCEPT !.vnode[v] = Free]

(* unregister_vnode_hash and delete_vnode.                                 *)
Unregistered(s, v) ==
    [vnode |-> [s.vnode EXCEPT ![v] = Free],
     hash |-> [b \in Buckets |-> RemoveFirst(s.hash[b], v)]]

Counted(s, v) == [s EXCEPT !.vnode[v].nRefCount = @ + 1]

(* An opened vnode counts, and its directory counts it.                    *)
CountedBoth(s, p, v) == Counted(Counted(s, v), p)

CanOpenNew(s, p, n) == EmptySlots(s) # {} /\ EntriesOf(s, p, n) # {}

\* Mutant of vnode_open: a vnode that exists already is not looked for.
OpenAnew(s, p, n) ==
    IF ~ CanOpenNew(s, p, n) THEN [s |-> s, v |-> NoVNode]
    ELSE LET e == CHOOSE x \in EntriesOf(s, p, n) : TRUE
         IN  [s |-> CountedBoth(Registered(s, p, n, e.file), p, FirstEmpty(s)), v |-> FirstEmpty(s)]

(* The vnode that opening name n of directory p gives, and the chunk then. *)
vnode_open(s, p, n) ==
    LET v == find_vnode(s, p, n)
        e == CHOOSE x \in EntriesOf(s, p, n) : TRUE
    IN  IF v # NoVNode THEN [s |-> CountedBoth(s, p, v), v |-> v]
        ELSE IF ~ CanOpenNew(s, p, n) THEN [s |-> s, v |-> NoVNode]
        ELSE [s |-> CountedBoth(Registered(s, p, n, e.file), p, FirstEmpty(s)),
              v |-> FirstEmpty(s)]

inner_vnode_close_file(s, v) ==
    CASE s.vnode[v].nRefCount > 1 -> [s EXCEPT !.vnode[v].nRefCount = @ - 1]
      [] s.vnode[v].nRefCount = 1 -> Unregistered(s, v)
      [] OTHER -> s

\* Mutant of vnode_close: the directory is not counted down.
CloseAlone(s, v) == inner_vnode_close_file(s, v)

(* The vnode and its directory.                                            *)
vnode_close(s, v) ==
    LET p == s.vnode[v].pParent
        t == inner_vnode_close_file(s, v)
    IN  IF s.vnode[v].nRefCount = 0 \/ p = NoVNode THEN t ELSE inner_vnode_close_file(t, p)

(* The directory of a path, opened.                                        *)
tunnel_path(s, dir) ==
    LET r == Counted(s, Root)
        o == vnode_open(r, Root, dir[1])
    IN  IF dir = <<>> THEN [s |-> r, v |-> Root]
        ELSE [s |-> vnode_close(o.s, Root), v |-> o.v]

------------------------------------------------------------------------------
(* The calls.                                                               *)

FreeFDs == {i \in FDs : fd[i] = NoVNode}
FirstFD == Min(FreeFDs)

Becomes(s) == vnode' = s.vnode /\ hash' = s.hash

(* A call that ends without a descriptor and leaves the disk alone.        *)
Fails(s) == Becomes(s) /\ UNCHANGED <<fd, disk>>

Gives(s, v) == Becomes(s) /\ fd' = [fd EXCEPT ![FirstFD] = v]

(* kopen of the root: it is not walked to.                                 *)
OpenRoot ==
    /\ FreeFDs # {}
    /\ Gives(Counted(Now, Root), Root)
    /\ UNCHANGED disk

(* kopen, kopendir.                                                        *)
Open(dir, n) ==
    LET t == tunnel_path(Now, dir)
        o == vnode_open(t.s, t.v, n)
    IN  /\ FreeFDs # {}
        /\ \/ t.v = NoVNode /\ Fails(t.s)
           \/ t.v # NoVNode /\ o.v = NoVNode /\ Fails(vnode_close(t.s, t.v))
           \/ /\ t.v # NoVNode /\ o.v # NoVNode
              /\ Gives(vnode_close(o.s, t.v), o.v)
              /\ UNCHANGED disk

(* kclose.                                                                 *)
Close(i) ==
    /\ fd[i] # NoVNode
    /\ Becomes(vnode_close(Now, fd[i]))
    /\ fd' = [fd EXCEPT ![i] = NoVNode]
    /\ UNCHANGED disk

(* Clusters that start no file.  The code never frees the clusters of a    *)
(* removed file; here the number of one that is not open and held no       *)
(* entries names the next.                                                 *)
FreeFiles ==
    {f \in Files \ {RootDir} :
        /\ \A e \in disk : f \notin {e.file, e.dir}
        /\ \A v \in Slots : vnode[v].used => vnode[v].file # f}
FirstFree == Min(FreeFiles)

(* kcreate, kmkdir: what can be opened exists; else a cluster and a new    *)
(* entry, a vnode and a descriptor.                                        *)
Create(dir, n) ==
    LET t == tunnel_path(Now, dir)
        o == vnode_open(t.s, t.v, n)
        v == FirstEmpty(t.s)
        f == FirstFree
        new == CountedBoth(Registered(t.s, t.v, n, f), t.v, v)
    IN  /\ FreeFDs # {}
        /\ \/ t.v = NoVNode /\ Fails(t.s)
           \/ /\ t.v # NoVNode /\ o.v # NoVNode
              /\ Fails(vnode_close(vnode_close(o.s, o.v), t.v))
           \/ /\ t.v # NoVNode /\ o.v = NoVNode
              /\ EmptySlots(t.s) = {} \/ FreeFiles = {}
              /\ Fails(vnode_close(t.s, t.v))
           \/ /\ t.v # NoVNode /\ o.v = NoVNode
              /\ EmptySlots(t.s) # {} /\ FreeFiles # {}
              /\ Gives(vnode_close(new, t.v), v)
              /\ disk' = disk \cup {[dir |-> t.s.vnode[t.v].file, name |-> n, file |-> f]}

\* Mutant of MayRemove: open files are removed.
MayRemoveOpen(s, p, n) == TRUE

(* A file that is open is not removed.                                     *)
MayRemove(s, p, n) == find_vnode(s, p, n) = NoVNode

(* kremove.                                                                *)
RemoveFile(dir, n) ==
    LET t == tunnel_path(Now, dir)
    IN  IF t.v = NoVNode THEN Fails(t.s)
        ELSE /\ Becomes(vnode_close(t.s, t.v))
             /\ disk' = IF MayRemove(t.s, t.v, n) THEN disk \ EntriesOf(t.s, t.v, n) ELSE disk
             /\ UNCHANGED fd

(* fat32_vnode_rename opens the old name and makes an entry for the new    *)
(* one, each with a vnode of its own, and frees both.                      *)
MayRename(s, p, n, q, m) ==
    /\ find_vnode(s, p, n) = NoVNode
    /\ find_vnode(s, q, m) = NoVNode
    /\ EntriesOf(s, p, n) # {}
    /\ Cardinality(EmptySlots(s)) >= 2

Renamed(s, p, n, q, m) ==
    (disk \ EntriesOf(s, p, n))
        \cup {[dir |-> s.vnode[q].file, name |-> m, file |-> e.file] : e \in EntriesOf(s, p, n)}

(* krename of a name of the open directory p to m in the open directory q. *)
RenameTo(s, p, q, m) ==
    LET o == vnode_open(s, q, m)
        Closed(x) == vnode_close(vnode_close(x, p), q)
    IN  IF o.v # NoVNode THEN Fails(Closed(vnode_close(o.s, o.v)))
        ELSE /\ Becomes(Closed(s))
             /\ UNCHANGED fd
             /\ \E n \in Names :
                    disk' = IF MayRename(s, p, n, q, m) THEN Renamed(s, p, n, q, m) ELSE disk

(* krename.                                                                *)
Rename(old, new) ==
    LET t == tunnel_path(Now, old)
        u == tunnel_path(t.s, new)
    IN  \/ t.v = NoVNode /\ Fails(t.s)
        \/ t.v # NoVNode /\ u.v = NoVNode /\ Fails(vnode_close(u.s, t.v))
        \/ t.v # NoVNode /\ u.v # NoVNode /\ \E m \in Names : RenameTo(u.s, t.v, u.v, m)

Next ==
    \/ OpenRoot
    \/ \E i \in FDs : Close(i)
    \/ \E dir \in Dirs, n \in Names : Open(dir, n) \/ Create(dir, n) \/ RemoveFile(dir, n)
    \/ \E old, new \in Dirs : Rename(old, new)

Spec == Init /\ [][Next]_vars

------------------------------------------------------------------------------
Used == {v \in Slots : vnode[v].used}

(* The descriptors a vnode counts: its own and those of the vnodes below.  *)
Holders(v) ==
    {i \in FDs : fd[i] # NoVNode /\ v \in {fd[i], vnode[fd[i]].pParent}}

(* Vnodes, hash, descriptors and entries have their types, and a free slot *)
(* is in no link, for no vnode is left in the hash when it is freed.       *)
TypeOK ==
    /\ vnode \in [Slots -> VNodes]
    /\ hash \in [Buckets -> Seq(Slots)]
    /\ fd \in [FDs -> Slots \cup {NoVNode}]
    /\ disk \subseteq Entries
    /\ \A b \in Buckets : \A k \in 1 .. Len(hash[b]) : vnode[hash[b][k]].used

(* The count of a vnode is the number of descriptors on it and directly    *)
(* below it, whatever succeeded or failed before; the root has one more.   *)
(* No vnode stays that nothing refers to, and none is freed while          *)
(* something does (vnode_open, vnode_close, tunnel_path).                  *)
VNodesCounted ==
    \A v \in Slots :
        /\ vnode[v].nRefCount = Cardinality(Holders(v)) + (IF v = Root THEN 1 ELSE 0)
        /\ vnode[v].used <=> vnode[v].nRefCount > 0

(* A name stands for one entry of its directory in every spelling: what    *)
(* fat32_fssd_find_dirent finds first is all there is, for no file can be  *)
(* created beside one, or renamed to one, that a longer or shorter or      *)
(* otherwise capitalised name finds (vnode_create_file, krename).          *)
OneEntryPerName ==
    \A e, f \in disk : e.dir = f.dir /\ Fold[e.name] = Fold[f.name] => e = f

(* All spellings of a name have one place in the hash.  A condition: the   *)
(* hash of vfs.c gives "a" and "A" places of their own, and names that are *)
(* always spelled alike satisfy it.                                        *)
SpellingsMeet == \A m, n \in Names : Fold[m] = Fold[n] => Bucket[m] = Bucket[n]

(* What is open has its entry in the directory it was opened in: neither a *)
(* file nor a directory above it can be removed or renamed under an open   *)
(* descriptor, and the last close writes into the entry that it means      *)
(* (kremove, krename; file.c:822).  Where SpellingsMeet: without, removing *)
(* "/A" removes the open "/a".                                             *)
OpenIsOnDisk ==
    \A v \in Used \ {Root} :
        \E e \in disk :
            /\ e.file = vnode[v].file
            /\ e.dir = vnode[vnode[v].pParent].file
            /\ Fold[e.name] = Fold[vnode[v].szName]

(* Two descriptors of one file share its vnode: no file has two sizes and  *)
(* two directory entries to write back (fat32_vnode_open).  Where          *)
(* SpellingsMeet: without, "/a" and "/A" are one file with two vnodes.     *)
OneVNodePerFile ==
    \A v, w \in Used : vnode[v].file = vnode[w].file => v = w
=============================================================================
