------------------------------- MODULE MemPool -------------------------------
(***************************************************************************)
(* A memory pool (malloc.c): blocks with a header each, linked by position *)
(* and, while they are free, in the list of their size class.  The kernel  *)
(* has one pool, every process one for its heap.  Addresses and sizes are  *)
(* in units of a block header.                                             *)
(***************************************************************************)
EXTENDS Integers, FiniteSets, SequencesExt

CONSTANTS
    Bounds,         \* where the size classes after the first one begin
    MinSize,        \* the smallest block that is handed out (64 bytes)
    Page,           \* 4096 bytes
    MinGrow,        \* the pool grows by this at least (128 KB)
    Sizes,          \* sizes callers ask for
    MaxSize         \* bound on the size of the pool

ASSUME PoolAssumption ==
    /\ Bounds \in Seq(Nat)
    /\ MinSize \in Nat \ {0} /\ Page \in Nat \ {0} /\ MinGrow \in Nat /\ MaxSize \in Nat
    /\ Sizes \subseteq Nat \ {0}

VARIABLES
    dwSize,         \* the pool has the addresses 0..dwSize - 1
    pos,            \* addresses of the blocks in the order of pPosNext
    blk,            \* their headers
    mfl,            \* the free lists, by size class
    asked           \* size of the last request that was met, 0 before it

poolVars == <<dwSize, pos, blk, mfl, asked>>

-----------------------------------------------------------------------------
H == 1              \* sizeof( MemBlockStt )

BlockAddrs == 0..MaxSize - 1
Classes == 0..Len(Bounds)
Header == [byUsage : {"MBT_USED", "MBT_FREE"}, dwSize : 0..MaxSize]

Pool == [pos |-> pos, blk |-> blk, mfl |-> mfl]

IsFree(h, b) == h.blk[b].byUsage = "MBT_FREE"

get_mfl_index(n) == Cardinality({k \in DOMAIN Bounds : n >= Bounds[k]})

(***************************************************************************)
(* The size lists                                                          *)
(***************************************************************************)
append_memblk_to_size_link(h, b) ==
    [h EXCEPT !.mfl[get_mfl_index(h.blk[b].dwSize)] = Append(@, b)]

delete_memblk_from_size_link(h, b) ==
    [h EXCEPT !.mfl[get_mfl_index(h.blk[b].dwSize)] = RemoveFirst(@, b)]

(***************************************************************************)
(* Merging: with the free blocks before it, then with those behind it.  A  *)
(* merge gives the heap and the block that is left.                        *)
(***************************************************************************)
\* The lower block grows over the upper one, whose header is cleared.
merge_this_memblk(h, x, y) ==
    LET b1 == IF x < y THEN x ELSE y
        b2 == IF x < y THEN y ELSE x
    IN  [at   |-> b1,
         heap |-> [pos |-> RemoveFirst(h.pos, b2),
                   blk |-> [b \in DOMAIN h.blk \ {b2} |->
                              IF b = b1 THEN [byUsage |-> "MBT_FREE",
                                              dwSize |-> h.blk[b1].dwSize + h.blk[b2].dwSize + H]
                              ELSE h.blk[b]],
                   mfl |-> h.mfl]]

PlaceOf(h, b) == CHOOSE i \in DOMAIN h.pos : h.pos[i] = b

\* How far blocks are free next to b, before it (d = -1) or behind it (d = 1).
FreeRun(h, b, d) ==
    {k \in 1..Len(h.pos) : \A j \in 1..k :
        LET i == PlaceOf(h, b) + d * j IN i \in DOMAIN h.pos /\ IsFree(h, h.pos[i])}

\* Mutant of MergeStep: the block that is merged stays in its size list.
MergeStepLinked(m, d) ==
    LET p == m.heap.pos[PlaceOf(m.heap, m.at) + d] IN merge_this_memblk(m.heap, p, m.at)

MergeStep(m, d) ==
    LET p == m.heap.pos[PlaceOf(m.heap, m.at) + d]
    IN  merge_this_memblk(delete_memblk_from_size_link(m.heap, p), p, m.at)

Merged(m, d) ==
    LET f[n \in Nat] == IF n = 0 THEN m ELSE MergeStep(f[n - 1], d)
    IN  f[Cardinality(FreeRun(m.heap, m.at, d))]

merge_memblk(h, b) == Merged(Merged([heap |-> h, at |-> b], -1), 1)

(***************************************************************************)
(* Splitting: b keeps n, the rest becomes a free block behind it           *)
(***************************************************************************)
\* Mutant of Rest: the header of the new block is not accounted for.
RestWithHeader(h, b, n) == h.blk[b].dwSize - n

Rest(h, b, n) == h.blk[b].dwSize - n - H

split_memblk(h, b, n) ==
    LET new == b + H + n
        s   == [pos |-> InsertAt(h.pos, PlaceOf(h, b) + 1, new),
                blk |-> [c \in DOMAIN h.blk \cup {new} |->
                           CASE c = new -> [byUsage |-> "MBT_FREE", dwSize |-> Rest(h, b, n)]
                             [] c = b   -> [h.blk[b] EXCEPT !.dwSize = n]
                             [] OTHER   -> h.blk[c]],
                mfl |-> h.mfl]
    IN  append_memblk_to_size_link(s, new)

(***************************************************************************)
(* internal_malloc                                                         *)
(***************************************************************************)
\* The first block that is large enough, in the class of n or in the next
\* one that has such a block.
FitsIn(h, i, n) == {k \in DOMAIN h.mfl[i] : h.blk[h.mfl[i][k]].dwSize >= n}

Fits(h, n) == {i \in Classes : i >= get_mfl_index(n) /\ FitsIn(h, i, n) # {}}

FirstFit(h, n) == LET i == Min(Fits(h, n)) IN h.mfl[i][Min(FitsIn(h, i, n))]

WorthSplitting(h, b, n) == h.blk[b].dwSize >= n + H + MinSize

Allocate(h, n) ==
    LET b == FirstFit(h, n)
        d == delete_memblk_from_size_link(h, b)
        s == IF WorthSplitting(d, b, n) THEN split_memblk(d, b, n) ELSE d
    IN  [s EXCEPT !.blk[b].byUsage = "MBT_USED"]

\* What enlarge_memory_pool makes of a request for n: whole pages.
PagesFor(n) == LET m == IF n + Page < MinGrow THEN MinGrow ELSE n + Page
               IN  (m + Page - 1) \div Page

\* The new block starts where the memory of the pool ended.
Enlarged(h, g) ==
    LET new == [pos |-> Append(h.pos, dwSize),
                blk |-> [b \in DOMAIN h.blk \cup {dwSize} |->
                           IF b = dwSize
                           THEN [byUsage |-> "MBT_FREE", dwSize |-> g * Page - H]
                           ELSE h.blk[b]],
                mfl |-> h.mfl]
        m   == merge_memblk(new, dwSize)
    IN  append_memblk_to_size_link(m.heap, m.at)

SetPool(h) == pos' = h.pos /\ blk' = h.blk /\ mfl' = h.mfl

RoundUp(s) == IF s < MinSize THEN MinSize ELSE s

Malloc(s) ==
    LET n == RoundUp(s) IN
    \/ /\ Fits(Pool, n) # {}
       /\ SetPool(Allocate(Pool, n))
       /\ asked' = s
       /\ UNCHANGED dwSize
    \/ LET g == PagesFor(n) IN
       /\ Fits(Pool, n) = {}
       /\ dwSize + g * Page <= MaxSize
       /\ dwSize' = dwSize + g * Page
       /\ SetPool(Allocate(Enlarged(Pool, g), n))
       /\ asked' = s

\* The pages run out while the pool grows: those it got are its own from now
\* on, but belong to no block.
GrowFails(s) ==
    LET n == RoundUp(s) IN
    /\ Fits(Pool, n) = {}
    /\ \E k \in 0..PagesFor(n) - 1 :
        /\ dwSize + k * Page <= MaxSize
        /\ dwSize' = dwSize + k * Page
    /\ UNCHANGED <<pos, blk, mfl, asked>>

\* internal_free of a block that is in use.
Free(b) ==
    /\ b \in DOMAIN blk /\ ~IsFree(Pool, b)
    /\ LET m == merge_memblk(Pool, b)
           f == [m.heap EXCEPT !.blk[m.at].byUsage = "MBT_FREE"]
       IN  SetPool(append_memblk_to_size_link(f, m.at))
    /\ UNCHANGED <<dwSize, asked>>

\* init_memory_pool of a process: nothing until the first request.
PoolInit ==
    /\ dwSize = 0 /\ pos = <<>> /\ blk = [b \in {} |-> 0]
    /\ mfl = [i \in Classes |-> <<>>]
    /\ asked = 0

PoolNext ==
    \/ \E s \in Sizes : Malloc(s) \/ GrowFails(s)
    \/ \E b \in BlockAddrs : Free(b)

PoolSpec == PoolInit /\ [][PoolNext]_poolVars

-----------------------------------------------------------------------------
(***************************************************************************)
(* Properties                                                              *)
(***************************************************************************)
(* Headers are in the memory of the pool, sizes are not negative.          *)
PoolTypeOK ==
    /\ dwSize \in 0..MaxSize
    /\ DOMAIN blk \subseteq BlockAddrs /\ blk \in [DOMAIN blk -> Header]
    /\ pos \in Seq(BlockAddrs)
    /\ mfl \in [Classes -> Seq(BlockAddrs)]
    /\ asked \in Sizes \cup {0}

(* Free space can be found and is in one piece: a block is in the position *)
(* list once, a free block is in the list of its class once, a block in    *)
(* use in none, and no two neighbours are free (split_memblk,              *)
(* merge_memblk and the callers of the size links).                        *)
FreeSpaceIndexed ==
    /\ PoolTypeOK
    /\ IsInjective(pos) /\ ToSet(pos) = DOMAIN blk
    /\ \A i \in Classes :
        /\ IsInjective(mfl[i])
        /\ ToSet(mfl[i]) = {b \in DOMAIN blk :
                              IsFree(Pool, b) /\ get_mfl_index(blk[b].dwSize) = i}
    /\ \A k \in 1..Len(pos) - 1 : ~(IsFree(Pool, pos[k]) /\ IsFree(Pool, pos[k + 1]))

Given == {b \in DOMAIN blk : ~IsFree(Pool, b)}

Promise == INSTANCE AbstractHeap WITH
    regions <- {[addr |-> b + H, size |-> blk[b].dwSize] : b \in Given},
    memory  <- dwSize

(* A pool keeps what a heap promises, also when it could not grow: what a  *)
(* caller gets is large enough, nobody else's, and stays as it is until    *)
(* the caller gives it back, whatever is split and merged around it.       *)
HeapPromise == Promise!HeapSpec

=============================================================================
