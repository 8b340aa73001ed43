------------------------------- MODULE FatFile -------------------------------
(***************************************************************************)
(* Files of the FAT file system (src/bell_fs/fat32.c) below the calls      *)
(* kopen, kread, kwrite, klseek, kclose and kmkdir of file.c: the chains   *)
(* of the FAT, the cursor a vnode keeps in its file, the entries of a      *)
(* directory, which is a file itself.  The RAM disk never sleeps and its   *)
(* blocks are cached (BCache), so a call runs to its end at once.          *)
(*                                                                         *)
(* A unit is 32 bytes, a slot of a directory.  s is the record of fat,     *)
(* data and vn; a routine gives the record it leaves and its result.       *)
(***************************************************************************)
EXTENDS Integers, Sequences

CONSTANTS Dir,           \* the directory, which stays open
          Files,         \* files in it
          NewDirs,       \* names for new directories
          NoFile,        \* the file of a free descriptor
          FDs,           \* descriptors
          LastCluster,   \* entries of the FAT, the disk has a cluster for each
          ClusterUnits,  \* units of a cluster
          MaxIO, Sizes,  \* bound: units of one read or write
          SeekPlaces,    \* bound: where FSEEK_SET goes to
          Disks,         \* contents of the disk at first: [fat, data]
          DirGrows       \* directories are made when the directory is full

ASSUME DiskAssumption ==
    /\ LastCluster \in Nat \ {0} /\ ClusterUnits \in Nat \ {0}
    /\ MaxIO \in Nat /\ Sizes \subseteq 1 .. MaxIO /\ SeekPlaces \subseteq Int
    /\ Dir \notin Files /\ NoFile \notin Files

Nodes == Files \cup {Dir}
FatIndex == 0 .. LastCluster    \* 0: none; its block is the boot block
LastChain == LastCluster + 1     \* 0x0FFFFFFF
FreeEntry == 0

VARIABLES fat,     \* fat[c]: the cluster after c, LastChain or FreeEntry; after
                   \*   LastChain comes LastChain
          data,    \* data[c]: the units of cluster c
          vn,      \* vn[f]: the FAT32FileStt of f
          fd,      \* fd[h]: pVNode and dwOffs
          got,     \* what the last call read
          holds    \* holds[f]: what file f holds, computed from the others

fatVars == <<fat, data, vn, fd, got, holds>>

(* Units: zero, what files hold, what directories hold.                    *)
Zero == <<>>
Written == <<"new">>
Dots == <<"dots">>                           \* the entries . and ..
LongEnt(n) == <<"long", n>>
ShortEnt(n, start, size) == <<"short", n, start, size>>
IsShortOf(u, n) == Len(u) = 4 /\ u[2] = n

Closed == [open |-> FALSE, start |-> 0, slot |-> 0, cur |-> 0, off |-> 0,
           last |-> 0, avail |-> 0, total |-> 0, size |-> 0, pos |-> 0]

------------------------------------------------------------------------------
(* The FAT.                                                                 *)

AtEnd(c) == c \in {FreeEntry, LastChain}

(* The cluster k after c (get_next_cluster_number k times).                *)
After(ft, c, k) ==
    LET next[i \in 0 .. k] == IF i = 0 THEN c ELSE ft[next[i - 1]] IN next[k]

Least(S) == CHOOSE x \in S : \A y \in S : x <= y

(* The clusters of the chain from c; a chain that does not end has more    *)
(* than there are.                                                         *)
ChainLength(ft, c) ==
    Least({k \in 1 .. LastCluster : AtEnd(After(ft, c, k))} \cup {LastChain})

Chain(ft, c) == {After(ft, c, k) : k \in 0 .. ChainLength(ft, c) - 1}

(* A chain that starts at a cluster and ends with the mark.                *)
EndsWell(ft, c) ==
    /\ c \in FatIndex \ {0} /\ ChainLength(ft, c) <= LastCluster
    /\ After(ft, c, ChainLength(ft, c)) = LastChain

get_free_cluster(ft) ==
    LET free == {c \in FatIndex : ft[c] = FreeEntry}
    IN  IF free = {} THEN 0 ELSE Least(free)

\* Mutant of Linked: the new cluster is not marked as the end of its chain.
LinkedUnmarked(ft, last, c) == [ft EXCEPT ![last] = c]

(* set_next_cluster_number for the old and the new end of a chain.         *)
Linked(ft, last, c) == [ft EXCEPT ![last] = c, ![c] = LastChain]

------------------------------------------------------------------------------
(* The cursor of a vnode.                                                   *)

(* The cursor of v is moved.                                               *)
Moved(s, v, cur, off, pos) ==
    [s EXCEPT !.vn[v] = [@ EXCEPT !.cur = cur, !.off = off, !.pos = pos]]

(* fat32_cluster_tracking: the clusters it walks over exist, but for the   *)
(* one after a file that ends with its last cluster.                       *)
CanTrack(s, v, l) ==
    LET n == l \div ClusterUnits
        c == After(s.fat, s.vn[v].start, n)
    IN  n > 0 => /\ ~ AtEnd(After(s.fat, s.vn[v].start, n - 1))
                 /\ AtEnd(c) => l % ClusterUnits = 0

Tracked(s, v, l) ==
    LET c == After(s.fat, s.vn[v].start, l \div ClusterUnits)
    IN  Moved(s, v, IF l >= ClusterUnits /\ AtEnd(c) THEN LastChain ELSE c, l % ClusterUnits, l)

Clipped(s, v, l) == IF l >= s.vn[v].size THEN s.vn[v].size ELSE IF l < 0 THEN 0 ELSE l

(* fat32_vnode_lseek to l; result -1 when the chain is too short.          *)
Lseek(s, v, l) ==
    LET new == Clipped(s, v, l)
    IN  IF new = s.vn[v].pos THEN [s |-> s, n |-> new]
        ELSE IF CanTrack(s, v, new) THEN [s |-> Tracked(s, v, new), n |-> new]
        ELSE [s |-> s, n |-> -1]

(* generalize_cluster_offset: a cursor at the end of its cluster goes to   *)
(* the next.                                                               *)
CanGeneralize(s, v) ==
    s.vn[v].off < ClusterUnits \/ ~ AtEnd(After(s.fat, s.vn[v].cur, 1))

Generalized(s, v) ==
    IF s.vn[v].off < ClusterUnits THEN s
    ELSE Moved(s, v, After(s.fat, s.vn[v].cur, 1), s.vn[v].off - ClusterUnits, s.vn[v].pos)

------------------------------------------------------------------------------
(* Growing.                                                                 *)

(* Where a file ends: its last cluster, how many there are, what is used   *)
(* of them and what is not.                                                *)
Sized(s, v, last, total, size, avail) ==
    [s EXCEPT !.vn[v] = [@ EXCEPT !.last = last, !.total = total, !.size = size, !.avail = avail]]

\* What a file that grows by left units takes of a cluster.
Part(left) == IF left <= ClusterUnits THEN left ELSE ClusterUnits

\* Mutant of OneMore: what is used of the new cluster is taken for its free part.
OneMoreUsed(s, v, left) ==
    LET c == get_free_cluster(s.fat)
        n == s.vn[v]
        m == Moved(s, v, IF n.cur = LastChain THEN c ELSE n.cur, n.off, n.pos)
    IN  [Sized(m, v, c, n.total + 1, n.size + Part(left), Part(left))
            EXCEPT !.fat = Linked(@, n.last, c)]

(* One more cluster for a file that grows by left units.                   *)
OneMore(s, v, left) ==
    LET c == get_free_cluster(s.fat)
        n == s.vn[v]
        m == Moved(s, v, IF n.cur = LastChain THEN c ELSE n.cur, n.off, n.pos)
    IN  [Sized(m, v, c, n.total + 1, n.size + Part(left), ClusterUnits - Part(left))
            EXCEPT !.fat = Linked(@, n.last, c)]

(* One turn of fat32_vnode_increase's loop; what was added stays when the  *)
(* disk is full.                                                           *)
GrowTurn(r, v) ==
    IF r.left <= 0 \/ r.n < 0 THEN r
    ELSE IF get_free_cluster(r.s.fat) = 0 THEN [s |-> r.s, left |-> r.left, n |-> -1]
    ELSE [s |-> OneMore(r.s, v, r.left), left |-> r.left - ClusterUnits, n |-> 0]

(* fat32_vnode_increase by n units: what the last cluster has room for,    *)
(* then cluster by cluster.                                                *)
Increased(s, v, n) ==
    LET u == s.vn[v]
        grown[i \in 0 .. n] ==
            IF i = 0 THEN [s |-> Sized(s, v, u.last, u.total, u.size + u.avail, 0),
                           left |-> n - u.avail, n |-> 0]
            ELSE GrowTurn(grown[i - 1], v)
    IN  IF n <= u.avail
        THEN [s |-> Sized(s, v, u.last, u.total, u.size + n, u.avail - n), n |-> 0]
        ELSE [s |-> grown[n].s, n |-> grown[n].n]

------------------------------------------------------------------------------
(* Reading and writing.                                                     *)

UnitAt(s, start, i) ==
    s.data[After(s.fat, start, i \div ClusterUnits)][(i % ClusterUnits) + 1]

(* The first units of a chain.                                             *)
Units(s, start, size) == [i \in 1 .. size |-> UnitAt(s, start, i - 1)]

(* One turn of fat32_vnode_raw_write's loop, in one cluster: it ends when  *)
(* it has written as much as is left (fat32.c:1186), or the chain ends.    *)
ClusterTurn(ft, r) ==
    LET n == IF ClusterUnits - r.off < Len(r.buf) THEN ClusterUnits - r.off ELSE Len(r.buf)
        rest == SubSeq(r.buf, n + 1, Len(r.buf))
        total == r.total + n
        put == [r.data EXCEPT ![r.cur] =
                   [i \in 1 .. ClusterUnits |->
                       IF i \in r.off + 1 .. r.off + n THEN r.buf[i - r.off] ELSE @[i]]]
        done == total >= Len(rest)
        none == AtEnd(After(ft, r.cur, 1))
    IN  [data |-> put, buf |-> rest, total |-> total, done |-> done \/ none,
         cur |-> IF done \/ none THEN r.cur ELSE After(ft, r.cur, 1),
         off |-> IF done THEN r.off + n ELSE IF none THEN n ELSE 0]

WrittenAt(s, v, buf) ==
    LET turn[i \in 0 .. Len(buf)] ==
            IF i = 0 THEN [data |-> s.data, buf |-> buf, total |-> 0, done |-> FALSE,
                           cur |-> s.vn[v].cur, off |-> s.vn[v].off]
            ELSE IF turn[i - 1].done THEN turn[i - 1] ELSE ClusterTurn(s.fat, turn[i - 1])
        w == turn[Len(buf)]
    IN  [s |-> [Moved(s, v, w.cur, w.off, s.vn[v].pos + w.total) EXCEPT !.data = w.data],
         n |-> w.total]

(* fat32_vnode_raw_write of buf at the cursor.                             *)
RawWrite(s, v, buf) ==
    LET more == Len(buf) - (s.vn[v].size - s.vn[v].pos)
        grown == IF more > 0 THEN Increased(s, v, more) ELSE [s |-> s, n |-> 0]
    IN  IF grown.n < 0 \/ ~ CanGeneralize(grown.s, v) THEN [s |-> grown.s, n |-> -1]
        ELSE WrittenAt(Generalized(grown.s, v), v, buf)

(* fat32_vnode_write.                                                      *)
WriteAt(s, v, offs, buf) ==
    LET sought == Lseek(s, v, offs)
    IN  IF sought.n = -1 THEN [s |-> sought.s, n |-> -1] ELSE RawWrite(sought.s, v, buf)

(* fat32_vnode_read, which leaves the cursor alone: the clusters before    *)
(* the last are read whatever the size is, the last as far as it is used.  *)
(* With more than a cluster unused that would be a negative number, which  *)
(* memcpy cannot copy (fat32.c:1273-1280): DisksAssumption has no such     *)
(* file, and CursorsRight says that none comes to be.                      *)
ReadAt(s, v, offs, n) ==
    LET last == ClusterUnits * (ChainLength(s.fat, s.vn[v].start) - 1)
        end == last + (ClusterUnits - s.vn[v].avail)
        k == IF offs + n <= last \/ offs + n < end THEN n ELSE end - offs
    IN  [i \in 1 .. k |-> UnitAt(s, s.vn[v].start, offs + i - 1)]

(* fat32_vnode_raw_read of one slot of the directory.                      *)
SlotRead(s) ==
    IF s.vn[Dir].pos >= s.vn[Dir].size \/ ~ CanGeneralize(s, Dir) THEN s
    ELSE LET g == Generalized(s, Dir)
         IN  Moved(g, Dir, g.vn[Dir].cur, g.vn[Dir].off + 1, g.vn[Dir].pos + 1)

(* The first k slots are read (fat32_read_dirent, nFindFreeDirEnt).        *)
SlotsRead(s, k) ==
    LET read[i \in 0 .. k] == IF i = 0 THEN Lseek(s, Dir, 0).s ELSE SlotRead(read[i - 1])
    IN  read[k]

------------------------------------------------------------------------------
(* The directory.                                                           *)

Slot(s, i) == UnitAt(s, s.vn[Dir].start, i)

(* The first slot that was never used; there may be none.                  *)
FirstUnused(s) ==
    Least({i \in 0 .. s.vn[Dir].size - 1 : Slot(s, i) = Zero} \cup {s.vn[Dir].size})

SlotsOf(s, n) == {i \in 0 .. FirstUnused(s) - 1 : IsShortOf(Slot(s, i), n)}

(* fat32_fssd_find_dirent reads as far as the entry of n, or to the end.   *)
EntryFound(s, n) ==
    SlotsRead(s, IF SlotsOf(s, n) # {} THEN Least(SlotsOf(s, n)) + 1 ELSE FirstUnused(s) + 1)

(* fat32_calc_filesize of a file.                                          *)
Calculated(s, f) ==
    LET n == ChainLength(s.fat, s.vn[f].start)
    IN  Sized(s, f, After(s.fat, s.vn[f].start, n - 1), n, s.vn[f].size,
              n * ClusterUnits - s.vn[f].size)

(* fat32_vnode_open of a file without a vnode.                             *)
NewVNode(s, f) ==
    LET e == Least(SlotsOf(s, f))
        u == Slot(s, e)
    IN  [EntryFound(s, f) EXCEPT !.vn[f] = [Closed EXCEPT !.open = TRUE, !.start = u[3],
                                             !.cur = u[3], !.size = u[4], !.slot = e]]

\* Mutant of short_entry: the entry keeps the size the file was opened with.
ShortEntryUnsized(s, f) == Slot(s, s.vn[f].slot)

(* The entry of a file with its size (fat32_write_short_entry).            *)
short_entry(s, f) == ShortEnt(f, s.vn[f].start, s.vn[f].size)

(* fat32_vnode_close.                                                      *)
VNodeClosed(s, f) ==
    LET sought == Lseek(s, Dir, s.vn[f].slot)
        saved == IF sought.n = s.vn[f].slot
                 THEN WriteAt(sought.s, Dir, s.vn[f].slot, <<short_entry(s, f)>>).s
                 ELSE sought.s
    IN  [saved EXCEPT !.vn[f] = Closed]

(* nFindFreeDirEnt for an entry: no slot is free again, for removing is    *)
(* left out, so slots of zeros are written after the first unused one.     *)
FreeSlots(s) ==
    LET first == RawWrite(SlotsRead(s, FirstUnused(s) + 1), Dir, <<Zero>>)
    IN  IF first.n = 1 THEN RawWrite(first.s, Dir, <<Zero>>) ELSE first

Entry(n, c) == <<LongEnt(n), ShortEnt(n, c, 0)>>

(* The directory has room for the entry and the unused slot after it.      *)
HasRoom(s) == FirstUnused(s) + Len(Entry(Dir, 0)) < s.vn[Dir].size

(* fat32_vnode_create of a directory in cluster c, which is free until the *)
(* entry is saved.                                                         *)
Created(s, n, c) ==
    LET free == FreeSlots(s)
        saved == RawWrite(Lseek(free.s, Dir, FirstUnused(s)).s, Dir, Entry(n, c))
    IN  IF free.n # 1 THEN free.s
        ELSE IF saved.n # Len(Entry(n, c)) THEN saved.s
        ELSE [fat |-> [saved.s.fat EXCEPT ![c] = LastChain],
              data |-> [saved.s.data EXCEPT ![c] = [@ EXCEPT ![1] = Dots, ![2] = Zero]],
              vn |-> saved.s.vn]

(* What a file holds: an open one is as long as its vnode says, a closed   *)
(* one as its entry says.                                                  *)
ContentOf(s, f) ==
    IF s.vn[f].open THEN Units(s, s.vn[f].start, s.vn[f].size)
    ELSE IF SlotsOf(s, f) = {} THEN <<>>
    ELSE LET e == Slot(s, Least(SlotsOf(s, f))) IN Units(s, e[3], e[4])

------------------------------------------------------------------------------
Now == [fat |-> fat, data |-> data, vn |-> vn]
Becomes(s) ==
    \E r \in {s} : /\ fat' = r.fat /\ data' = r.data /\ vn' = r.vn
                   /\ holds' = [f \in Files |-> ContentOf(r, f)]

(* The mounted directory: its size is that of its clusters.                *)
Mounted(d) ==
    LET n == ChainLength(d.fat, 1)
        root == [Closed EXCEPT !.open = TRUE, !.start = 1, !.cur = 1, !.total = n,
                               !.last = After(d.fat, 1, n - 1), !.size = n * ClusterUnits]
    IN  [fat |-> d.fat, data |-> d.data, vn |-> [f \in Nodes |-> IF f = Dir THEN root ELSE Closed]]

(* The files and directories that have an entry.                           *)
Entered(s) == {i \in 0 .. FirstUnused(s) - 1 : Len(Slot(s, i)) = 4}

(* The chain of every entry ends, has the clusters its size needs, and has *)
(* no cluster of another entry nor of the directory.                       *)
EntriesApart(s) ==
    LET start(i) == Slot(s, i)[3]
        Own(c) == Chain(s.fat, c)
    IN  \A i \in Entered(s) :
            /\ EndsWell(s.fat, start(i))
            /\ Slot(s, i)[4] \in 0 .. ClusterUnits * ChainLength(s.fat, start(i))
            /\ Own(start(i)) \cap Own(s.vn[Dir].start) = {}
            /\ \A j \in Entered(s) \ {i} : Own(start(i)) \cap Own(start(j)) = {}

(* No entry has a cluster its size does not need, but for its last one,    *)
(* which may be empty as that of a new file is.                            *)
NoSpareCluster(s) ==
    \A i \in Entered(s) :
        Slot(s, i)[4] + ClusterUnits >= ClusterUnits * ChainLength(s.fat, Slot(s, i)[3])

\* Disks as they are formatted and written elsewhere.
ASSUME DisksAssumption ==
    \A d \in Disks :
        /\ d.fat \in [0 .. LastChain -> 0 .. LastChain] /\ d.fat[LastChain] = LastChain
        /\ d.data = [c \in FatIndex |-> [i \in 1 .. ClusterUnits |-> d.data[c][i]]]
        /\ EndsWell(d.fat, 1)
        /\ EntriesApart(Mounted(d)) /\ NoSpareCluster(Mounted(d))

FatInit ==
    /\ \E d \in Disks :
        LET s == Mounted(d)
        IN  /\ fat = s.fat /\ data = s.data /\ vn = s.vn
            /\ holds = [f \in Files |-> ContentOf(s, f)]
    /\ fd = [h \in FDs |-> [pVNode |-> NoFile, dwOffs |-> 0]]
    /\ got = <<>>

(* kopen.                                                                  *)
Open(h, f) ==
    /\ fd[h].pVNode = NoFile
    /\ SlotsOf(Now, f) # {}
    /\ Becomes(Calculated(IF vn[f].open THEN Now ELSE NewVNode(Now, f), f))
    /\ fd' = [fd EXCEPT ![h].pVNode = f]
    /\ got' = <<>>

(* kclose: the last descriptor of a file closes its vnode.                 *)
Close(h) ==
    /\ fd[h].pVNode # NoFile
    /\ Becomes(IF \E g \in FDs \ {h} : fd[g].pVNode = fd[h].pVNode THEN Now
               ELSE VNodeClosed(Now, fd[h].pVNode))
    /\ fd' = [fd EXCEPT ![h] = [pVNode |-> NoFile, dwOffs |-> 0]]
    /\ got' = <<>>

(* kread.                                                                  *)
Read(h, n) ==
    /\ fd[h].pVNode # NoFile
    /\ got' = ReadAt(Now, fd[h].pVNode, fd[h].dwOffs, n)
    /\ fd' = [fd EXCEPT ![h].dwOffs = @ + Len(got')]
    /\ UNCHANGED <<fat, data, vn, holds>>

(* kwrite.                                                                 *)
Write(h, n) ==
    /\ fd[h].pVNode # NoFile
    /\ \E w \in {WriteAt(Now, fd[h].pVNode, fd[h].dwOffs, [i \in 1 .. n |-> Written])} :
        /\ Becomes(w.s)
        /\ fd' = [fd EXCEPT ![h].dwOffs = IF w.n > 0 THEN @ + w.n ELSE @]
    /\ got' = <<>>

(* klseek: the vnode is moved from its own place, and the descriptor is    *)
(* only when both get to the same one.                                     *)
Seek(h, l, own, shared) ==
    LET v == fd[h].pVNode
        r == Lseek(Now, v, shared + l)
    IN  /\ Becomes(r.s)
        /\ fd' = [fd EXCEPT ![h].dwOffs = IF r.n = Clipped(Now, v, own + l) THEN r.n ELSE @]
        /\ got' = <<>>

SeekSet(h, l) == fd[h].pVNode # NoFile /\ Seek(h, l, 0, 0)
SeekCur(h) == fd[h].pVNode # NoFile /\ Seek(h, 0, fd[h].dwOffs, vn[fd[h].pVNode].pos)
SeekEnd(h) == fd[h].pVNode # NoFile /\ Seek(h, 0, vn[fd[h].pVNode].size, vn[fd[h].pVNode].size)

(* kmkdir: what exists or finds no cluster leaves the directory's cursor   *)
(* where the search ended.                                                 *)
Mkdir(n) ==
    /\ DirGrows \/ HasRoom(Now)
    /\ LET found == EntryFound(Now, n)
           c == get_free_cluster(fat)
       IN  Becomes(IF SlotsOf(Now, n) # {} \/ c = 0 THEN found ELSE Created(found, n, c))
    /\ got' = <<>>
    /\ UNCHANGED fd

FatNext ==
    \/ \E h \in FDs : \/ \E f \in Files : Open(h, f)
                      \/ Close(h)
                      \/ \E n \in Sizes : Read(h, n)
                      \/ \E n \in Sizes : Write(h, n)
                      \/ \E l \in SeekPlaces : SeekSet(h, l)
                      \/ SeekCur(h)
                      \/ SeekEnd(h)
    \/ \E n \in NewDirs : Mkdir(n)

FatSpec == FatInit /\ [][FatNext]_fatVars

------------------------------------------------------------------------------
(* Properties.                                                              *)

(* Every entry has its own clusters, as many as its size needs: whatever   *)
(* grew, and however far when the disk was full, nothing can write into a  *)
(* stranger's cluster (fat32_vnode_increase, fat32_vnode_create).          *)
ChainsApart == EntriesApart(Now)

(* What the vnode of f remembers: where the file ends, how much of the     *)
(* last cluster is free, no more than all of it, and that the cursor is at *)
(* the offset.                                                             *)
CursorRight(s, f) ==
    LET v == s.vn[f]
        n == ChainLength(s.fat, v.start)
    IN  /\ v.total = n /\ v.last = After(s.fat, v.start, n - 1)
        /\ v.size + v.avail = n * ClusterUnits /\ v.avail <= ClusterUnits
        /\ v.pos <= v.size
        /\ IF v.cur = LastChain
           THEN v.pos = v.size /\ v.pos = n * ClusterUnits /\ v.off = 0
           ELSE \E k \in 0 .. n - 1 : /\ v.cur = After(s.fat, v.start, k)
                                      /\ v.off \in 0 .. ClusterUnits
                                      /\ v.pos = k * ClusterUnits + v.off

(* What a vnode remembers of its file is so, whoever read, wrote and       *)
(* sought through which descriptor (raw_read, raw_write, cluster_tracking, *)
(* increase).                                                              *)
CursorsRight == \A f \in {g \in Nodes : vn[g].open} : CursorRight(Now, f)

Abstract == INSTANCE AbstractFile WITH
    Handles <- FDs,
    content <- holds,
    file <- [h \in FDs |-> fd[h].pVNode],
    at <- [h \in FDs |-> fd[h].dwOffs]

(* Every call does to every file what AbstractFile says: a write changes   *)
(* the units it counts and no others, in this or another file, a read      *)
(* gives what is there, and nothing is lost by closing, by a full disk or  *)
(* by making directories.                                                  *)
FilesKept == Abstract!FileSpec

=============================================================================
