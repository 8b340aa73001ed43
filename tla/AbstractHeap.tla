---------------------------- MODULE AbstractHeap ----------------------------
(***************************************************************************)
(* What a memory pool promises its callers: a region is at least as long   *)
(* as asked for, it is inside the memory of the pool, nobody else has any  *)
(* of it, and it stays as it is until it is given back.                    *)
(***************************************************************************)
EXTENDS Integers

CONSTANTS Sizes         \* sizes that are asked for

VARIABLES
    regions,            \* given and not given back: [addr, size]
    memory,             \* the pool has the addresses below this one
    asked               \* what the last region was given for

heapVars == <<regions, memory, asked>>

HeapInit == regions = {} /\ memory \in Nat /\ asked = 0

Disjoint(r, s) == r.addr + r.size <= s.addr \/ s.addr + s.size <= r.addr

\* The pool may get more memory at any time and gives none back.
Grow == memory' >= memory

Give(n) ==
    /\ Grow
    /\ asked' = n
    /\ \E r \in regions' :
        /\ r \notin regions
        /\ regions' = regions \cup {r}
        /\ r.size >= n /\ r.addr >= 0 /\ r.addr + r.size <= memory'
        /\ \A s \in regions : Disjoint(r, s)

TakeBack(r) == regions' = regions \ {r} /\ UNCHANGED <<memory, asked>>

HeapNext ==
    \/ \E n \in Sizes : Give(n)
    \/ \E r \in regions : TakeBack(r)
    \/ Grow /\ UNCHANGED <<regions, asked>>

HeapSpec == HeapInit /\ [][HeapNext]_heapVars

=============================================================================
