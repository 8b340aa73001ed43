------------------------------- MODULE BCache -------------------------------
(***************************************************************************)
(* The block cache of one block device (bell_fs/bcache.c): hash chains of  *)
(* cached blocks, and threads that look blocks up, sleep for the disk and  *)
(* insert what they read.  Files are written through the buffers that      *)
(* get_blk_cache_buff returns (fat32.c:1033).  No caller of the system     *)
(* enters a block with CACHE_DIRTY, so the dirty link is always empty and  *)
(* is left out: an evicted block is not written back.                      *)
(*                                                                         *)
(* The disk driver lets a second request in while a first one sleeps       *)
(* (kernel/hdd.c:190-321: registers, clear_event_count, command and        *)
(* wait_event, and no lock around them), and a request that timed out may  *)
(* be answered during a later one.  What such a crossed request brings is  *)
(* the block that was asked for or anything else.                          *)
(***************************************************************************)
EXTENDS Integers, Sequences, FiniteSets

CONSTANTS
    Threads,          \* threads that use the device
    NoThread,         \* nobody keeps the processor
    MaxBlock,         \* highest block number of the device
    nMaxHashIndex,    \* hash chains, 32 in the code
    nMaxEntry,        \* entries of the cache, 256 in the code
    ClusterSize,      \* sectors per cluster
    MaxRead,          \* longest read_block
    MaxVersion        \* bound on the writes to one block

ASSUME ConstantsAssumption ==
    /\ NoThread \notin Threads
    /\ MaxBlock \in Nat /\ MaxVersion \in Nat
    /\ nMaxHashIndex \in Nat \ {0} /\ nMaxEntry \in Nat \ {0}
    /\ ClusterSize \in Nat \ {0} /\ MaxRead \in Nat \ {0}

VARIABLES
    cache,      \* BCacheManStt: chains, their counters, the total
    pc,         \* what each thread does
    inKernel,   \* the thread in the middle of a loop that does not sleep
    content,    \* what each block holds: as it was read, written since, or junk
    crossed,    \* threads whose request to the disk met another one
    owes,       \* the disk may still answer a request that timed out
    doubtful    \* cached blocks that a crossed or a failed request brought

vars == <<cache, pc, inKernel, content, crossed, owes, doubtful>>

-----------------------------------------------------------------------------
Blocks == 0..MaxBlock
Keys == 0..MaxBlock + MaxRead   \* read_blk_cache enters keys past the block
Index == 0..nMaxHashIndex - 1

Junk == [blk |-> 0, ver |-> -1]
Content(b, v) == [blk |-> b, ver |-> v]
OnDisk(b) == Content(b, 0)
\* What a write into a part of a buffer makes of it; junk stays junk.
Bump(d) == IF d = Junk THEN Junk ELSE [d EXCEPT !.ver = @ + 1]
Contents == [blk : Keys, ver : Nat \cup {-1}]
Entries == [dwBlockNo : Keys, pBuff : Contents]

(***************************************************************************)
(* The operations on the cache, as functions from caches to caches         *)
(***************************************************************************)
bhash(b) == b % nMaxHashIndex

Places(c, b) ==
    {j \in 1..Len(c.chain[bhash(b)]) : c.chain[bhash(b)][j].dwBlockNo = b}

Cached(c, b) == Places(c, b) # {}

Place(c, b) == CHOOSE j \in Places(c, b) : \A k \in Places(c, b) : j <= k

AppendEnt(c, e) ==
    LET h == bhash(e.dwBlockNo)
    IN  [chain |-> [c.chain EXCEPT ![h] = Append(@, e)],
         nTotal |-> [c.nTotal EXCEPT ![h] = @ + 1],
         nTotalEntry |-> c.nTotalEntry + 1]

\* The first of the fullest chains loses its oldest entry.
Victim(c) ==
    CHOOSE i \in Index :
        \A j \in Index : /\ c.nTotal[j] <= c.nTotal[i]
                         /\ c.nTotal[j] = c.nTotal[i] => i <= j

\* Mutant of get_removable_cache_ent: the counter of the chain is forgotten.
GetRemovableUncounted(c) ==
    [c EXCEPT !.chain[Victim(c)] = Tail(@), !.nTotalEntry = @ - 1]

get_removable_cache_ent(c) ==
    LET h == Victim(c)
    IN  [chain |-> [c.chain EXCEPT ![h] = Tail(@)],
         nTotal |-> [c.nTotal EXCEPT ![h] = @ - 1],
         nTotalEntry |-> c.nTotalEntry - 1]

Room(c) ==
    IF c.nTotalEntry < nMaxEntry THEN c ELSE get_removable_cache_ent(c)

\* A buffer is changed in place; the entry is not marked dirty.
WriteBuff(c, b) ==
    [c EXCEPT !.chain[bhash(b)][Place(c, b)].pBuff = Bump(@)]

\* Mutant of insert_blk_cache: what was read replaces a buffer that is there.
InsertOver(c, b, d) ==
    IF Cached(c, b) THEN [c EXCEPT !.chain[bhash(b)][Place(c, b)].pBuff = d]
    ELSE AppendEnt(Room(c), [dwBlockNo |-> b, pBuff |-> d])

insert_blk_cache(c, b, d) ==
    IF Cached(c, b) THEN c
    ELSE AppendEnt(Room(c), [dwBlockNo |-> b, pBuff |-> d])

\* Mutant of insert_blk_cache_ex: no second look.
InsertExBlindly(c, b, d) == AppendEnt(c, [dwBlockNo |-> b, pBuff |-> d])

\* Entries of a whole cluster are added without a look at nMaxEntry.
insert_blk_cache_ex(c, b, d) ==
    IF Cached(c, b) THEN c ELSE AppendEnt(c, [dwBlockNo |-> b, pBuff |-> d])

-----------------------------------------------------------------------------
Idle == [op |-> "idle"]
Getting(b, wr) == [op |-> "getting", blk |-> b, wr |-> wr]
Reading(f, n, i) == [op |-> "reading", first |-> f, n |-> n, i |-> i]
ReadSleep(f, n, i) == [op |-> "readsleep", first |-> f, n |-> n, i |-> i]
Scattering(f, b) == [op |-> "scattering", first |-> f, blk |-> b]
Filling(f, b, i, ok) ==
    [op |-> "filling", first |-> f, blk |-> b, i |-> i, ok |-> ok]

Init ==
    /\ cache = [chain |-> [i \in Index |-> <<>>],
                nTotal |-> [i \in Index |-> 0],
                nTotalEntry |-> 0]
    /\ pc = [t \in Threads |-> Idle]
    /\ inKernel = NoThread
    /\ content = [b \in Keys |-> OnDisk(b)]
    /\ crossed = {} /\ owes = FALSE /\ doubtful = {}

\* What the blocks hold when cache c, with data d for key k, replaces the one
\* there is: eviction loses writes.
Holds(c, k, d) ==
    [b \in Keys |-> IF Cached(cache, b) = Cached(c, b) THEN content[b]
                    ELSE IF b = k THEN d ELSE OnDisk(b)]

Doubts(c, k, sure) ==
    {b \in doubtful : Cached(c, b)} \cup
    IF sure \/ Cached(cache, k) THEN {} ELSE {k}

(***************************************************************************)
(* The disk                                                                *)
(***************************************************************************)
Asking == {t \in Threads : pc[t].op \in {"getting", "readsleep", "scattering"}}

\* Thread t sends its request while others wait for theirs.
Asks(t) ==
    crossed' = IF Asking = {} /\ ~owes THEN crossed ELSE crossed \cup Asking \cup {t}

Answered(t) == crossed' = crossed \ {t}

Delivered(t, b) == {OnDisk(b)} \cup IF t \in crossed THEN {Junk} ELSE {}

\* The interrupt of a request that timed out: the next clear_event_count
\* drops it.
LateAnswer ==
    /\ owes
    /\ owes' = FALSE
    /\ UNCHANGED <<cache, pc, inKernel, content, crossed, doubtful>>

\* Bound: a block is written MaxVersion times.
CanWrite(b, wr) == wr => content[b].ver < MaxVersion

(***************************************************************************)
(* get_blk_cache_buff and the write of its caller                          *)
(***************************************************************************)
GetHit(t, b) ==
    /\ inKernel = NoThread /\ pc[t] = Idle
    /\ Cached(cache, b) /\ CanWrite(b, TRUE)
    /\ cache' = WriteBuff(cache, b)
    /\ content' = [content EXCEPT ![b] = Bump(@)]
    /\ UNCHANGED <<pc, inKernel, crossed, owes, doubtful>>

GetMiss(t, b, wr) ==
    /\ inKernel = NoThread /\ pc[t] = Idle
    /\ ~Cached(cache, b)
    /\ pc' = [pc EXCEPT ![t] = Getting(b, wr)]
    /\ Asks(t)
    /\ UNCHANGED <<cache, inKernel, content, owes, doubtful>>

GetEnds(t) ==
    /\ inKernel = NoThread /\ pc[t].op = "getting"
    /\ CanWrite(pc[t].blk, pc[t].wr)
    /\ \E d \in Delivered(t, pc[t].blk) :
        LET b == pc[t].blk
            c == insert_blk_cache(cache, b, d)
        IN  /\ IF pc[t].wr
               THEN /\ cache' = WriteBuff(c, b)
                    /\ content' = [Holds(c, b, d) EXCEPT ![b] = Bump(@)]
               ELSE cache' = c /\ content' = Holds(c, b, d)
            /\ doubtful' = Doubts(c, b, t \notin crossed)
    /\ pc' = [pc EXCEPT ![t] = Idle]
    /\ Answered(t)
    /\ UNCHANGED <<inKernel, owes>>

\* op.read times out: nothing is entered.
DiskFails(t) ==
    /\ inKernel = NoThread /\ pc[t].op \in {"getting", "readsleep"}
    /\ pc' = [pc EXCEPT ![t] = Idle]
    /\ owes' = TRUE
    /\ Answered(t)
    /\ UNCHANGED <<cache, inKernel, content, doubtful>>

(***************************************************************************)
(* read_blk_cache: block by block, into the buffer of the caller           *)
(***************************************************************************)
ReadBlock(t, f, n) ==
    /\ inKernel = NoThread /\ pc[t] = Idle
    /\ f + n - 1 <= MaxBlock
    /\ pc' = [pc EXCEPT ![t] = Reading(f, n, 0)]
    /\ inKernel' = t
    /\ UNCHANGED <<cache, content, crossed, owes, doubtful>>

ReadNext(t) ==
    /\ inKernel = t /\ pc[t].op = "reading"
    /\ LET f == pc[t].first  n == pc[t].n  i == pc[t].i
       IN  \/ /\ i = n
              /\ pc' = [pc EXCEPT ![t] = Idle]
              /\ inKernel' = NoThread
              /\ UNCHANGED crossed
           \/ /\ i < n /\ Cached(cache, f + i)
              /\ pc' = [pc EXCEPT ![t] = Reading(f, n, i + 1)]
              /\ UNCHANGED <<inKernel, crossed>>
           \/ /\ i < n /\ ~Cached(cache, f + i)
              /\ pc' = [pc EXCEPT ![t] = ReadSleep(f, n, i)]
              /\ inKernel' = NoThread
              /\ Asks(t)
    /\ UNCHANGED <<cache, content, owes, doubtful>>

\* Mutant of EnteredKey: nI is counted before the block is entered.
EnteredKeyNext(f, i) == f + i + i + 1

\* io.dwIndex has been advanced by nI already when nI is added for the key.
EnteredKey(f, i) == f + i + i

ReadEnds(t) ==
    /\ inKernel = NoThread /\ pc[t].op = "readsleep"
    /\ \E d \in Delivered(t, pc[t].first + pc[t].i) :
        LET k == EnteredKey(pc[t].first, pc[t].i)
            c == insert_blk_cache(cache, k, d)
        IN  /\ cache' = c
            /\ content' = Holds(c, k, d)
            /\ doubtful' = Doubts(c, k, t \notin crossed)
    /\ pc' = [pc EXCEPT ![t] = Reading(pc[t].first, pc[t].n, pc[t].i + 1)]
    /\ inKernel' = t
    /\ Answered(t)
    /\ UNCHANGED owes

(***************************************************************************)
(* new_fat32_vnode_cluster_read: the cluster is loaded at once when its    *)
(* first block is not cached.  The result of scatter_read is not tested.   *)
(***************************************************************************)
ClusterRead(t, f, b) ==
    /\ inKernel = NoThread /\ pc[t] = Idle
    /\ ~Cached(cache, f)
    /\ pc' = [pc EXCEPT ![t] = Scattering(f, b)]
    /\ Asks(t)
    /\ UNCHANGED <<cache, inKernel, content, owes, doubtful>>

\* ok: the cluster was read, and by a request that met no other.
ScatterEnds(t, ok) ==
    /\ inKernel = NoThread /\ pc[t].op = "scattering"
    /\ ok => t \notin crossed
    /\ pc' = [pc EXCEPT ![t] = Filling(pc[t].first, pc[t].blk, 0, ok)]
    /\ inKernel' = t
    /\ owes' = (owes \/ ~ok)
    /\ Answered(t)
    /\ UNCHANGED <<cache, content, doubtful>>

FillOne(t) ==
    /\ inKernel = t /\ pc[t].op = "filling"
    /\ \E d \in {OnDisk(pc[t].first + pc[t].i)} \cup IF pc[t].ok THEN {} ELSE {Junk} :
        LET b == pc[t].first + pc[t].i
            c == insert_blk_cache_ex(cache, b, d)
        IN  /\ cache' = c
            /\ content' = Holds(c, b, d)
            /\ doubtful' = Doubts(c, b, pc[t].ok)
    /\ pc' = [pc EXCEPT ![t].i = @ + 1]
    /\ UNCHANGED <<inKernel, crossed, owes>>

FillNext(t) == pc[t].op = "filling" /\ pc[t].i < ClusterSize /\ FillOne(t)

FillEnds(t) ==
    /\ inKernel = t /\ pc[t].op = "filling" /\ pc[t].i = ClusterSize
    /\ IF Cached(cache, pc[t].blk)
       THEN pc' = [pc EXCEPT ![t] = Idle] /\ UNCHANGED crossed
       ELSE pc' = [pc EXCEPT ![t] = Getting(pc[t].blk, FALSE)] /\ Asks(t)
    /\ inKernel' = NoThread
    /\ UNCHANGED <<cache, content, owes, doubtful>>

Clusters == {f \in Blocks : f % ClusterSize = 0 /\ f + ClusterSize - 1 <= MaxBlock}

Next == LateAnswer \/ \E t \in Threads :
    \/ \E b \in Blocks : GetHit(t, b) \/ \E wr \in BOOLEAN : GetMiss(t, b, wr)
    \/ GetEnds(t) \/ DiskFails(t)
    \/ \E f \in Blocks, n \in 1..MaxRead : ReadBlock(t, f, n)
    \/ ReadNext(t) \/ ReadEnds(t)
    \/ \E f \in Clusters : \E b \in f..f + ClusterSize - 1 : ClusterRead(t, f, b)
    \/ \E ok \in BOOLEAN : ScatterEnds(t, ok)
    \/ FillNext(t) \/ FillEnds(t)

Spec == Init /\ [][Next]_vars

-----------------------------------------------------------------------------
(***************************************************************************)
(* Properties                                                              *)
(***************************************************************************)
PcStates ==
    {Idle}
    \cup [op : {"getting"}, blk : Blocks, wr : BOOLEAN]
    \cup [op : {"reading", "readsleep"}, first : Blocks, n : 1..MaxRead, i : 0..MaxRead]
    \cup [op : {"scattering"}, first : Clusters, blk : Blocks]
    \cup [op : {"filling"}, first : Clusters, blk : Blocks, i : 0..ClusterSize, ok : BOOLEAN]

Caches == [chain : [Index -> Seq(Entries)], nTotal : [Index -> Nat], nTotalEntry : Nat]

\* The variables stay in their types; reads stay on the device (bcache.c:180,
\* 206); a thread that keeps the processor is in a loop (bcache.c:172-211,
\* 509-562).
TypeOK ==
    /\ cache \in Caches
    /\ pc \in [Threads -> PcStates]
    /\ inKernel \in Threads \cup {NoThread}
    /\ content \in [Keys -> Contents]
    /\ crossed \subseteq Threads /\ owes \in BOOLEAN /\ doubtful \subseteq Keys
    /\ \A t \in Threads :
        /\ pc[t].op \in {"reading", "filling"} <=> inKernel = t
        /\ pc[t].op \in {"reading", "readsleep"} =>
              pc[t].first + pc[t].n - 1 <= MaxBlock /\ pc[t].i <= pc[t].n
        /\ pc[t].op = "readsleep" => pc[t].i < pc[t].n

NoDouble(c) ==
    \A i \in Index : \A j, k \in 1..Len(c.chain[i]) :
        /\ bhash(c.chain[i][j].dwBlockNo) = i
        /\ c.chain[i][j].dwBlockNo = c.chain[i][k].dwBlockNo => j = k

\* A block is cached once, in its chain, whoever read it meanwhile: two
\* threads that miss the same block and sleep for it, or a block read alone
\* while its cluster is on the way (bcache.c:395, 477 look again).
OneEntryPerBlock == NoDouble(cache)

Slots(chain) == UNION {{i} \X (1..Len(chain[i])) : i \in Index}

Counted(c) ==
    /\ \A i \in Index : c.nTotal[i] = Len(c.chain[i])
    /\ c.nTotalEntry = Cardinality(Slots(c.chain))

\* The counters by which eviction picks a chain and starts at all agree with
\* the chains (bcache.c:319-330, 412), so it always finds an entry.
CountersMatch == Counted(cache)

\* A cached buffer holds what the disk delivered when the block was entered and
\* what was written since, whatever the disk delivers: a read that ends late
\* does not replace what another one entered, or wrote, meanwhile
\* (bcache.c:239-247, 395, 477).
CachedIsLatest ==
    \A i \in Index : \A j \in 1..Len(cache.chain[i]) :
        cache.chain[i][j].pBuff = content[cache.chain[i][j].dwBlockNo]

\* Only a request that met another one, or failed, brings a block something
\* that is not its own, and the damage ends with the eviction of that block:
\* hits, writes, evictions and reads that end meanwhile do not spread it.
\* Holds for reads of one block (EnteredKey).
CachedIsOwn ==
    \A i \in Index : \A j \in 1..Len(cache.chain[i]) :
        LET e == cache.chain[i][j]
        IN  e.dwBlockNo \notin doubtful =>
                e.pBuff # Junk /\ e.pBuff.blk = e.dwBlockNo

=============================================================================
