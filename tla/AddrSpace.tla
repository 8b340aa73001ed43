------------------------------ MODULE AddrSpace ------------------------------
(***************************************************************************)
(* User memory: physical pages and their reference counters (paging.c),    *)
(* the address spaces of processes with their pForkRef chain and counter   *)
(* (kprocess.c), copy on write, the growing heap of a process (malloc.c),  *)
(* and one shared memory region of one page (memory.c).                    *)
(***************************************************************************)
EXTENDS Integers, FiniteSets

CONSTANTS
    Procs,          \* processes and, under the same name, their AddrSpaceStt
    NoProc,         \* the NULL of pForkRef
    MaxPage,        \* physical pages 1..MaxPage are free at first
    MaxHeap,        \* pages the heap of a process may grow to
    GrandForks,     \* may a forked process that did not exec fork again?
    Untidy          \* may a process fork or end with the region attached, or
                    \* detach it where it is not attached?

ASSUME ConstantsAssumption ==
    /\ NoProc \notin Procs
    /\ MaxPage \in Nat /\ MaxHeap \in Nat
    /\ GrandForks \in BOOLEAN /\ Untidy \in BOOLEAN

VARIABLES
    bPhysRefTbl,        \* reference counter of every physical page
    live,               \* processes that have their address space
    spaces,             \* allocated AddrSpaceStt
    nForkRefCounter,
    pForkRef,
    pPD,                \* page directory and tables of a space
    mp,                 \* pages in the memory pool of a process
    shmem               \* the region: its page and nRefCount

vars == <<bPhysRefTbl, live, spaces, nForkRefCounter, pForkRef, pPD, mp, shmem>>

-----------------------------------------------------------------------------
Pages == 1..MaxPage
NoPage == 0

Stack == 0
Heap == 1..MaxHeap
Window == MaxHeap + 1           \* where the region is attached
Addrs == 0..MaxHeap + 1

NotPresent == [page |-> NoPage, w |-> FALSE]
Entries == {NotPresent} \cup [page : Pages, w : BOOLEAN]
Empty == [v \in Addrs |-> NotPresent]
Present(a, v) == pPD[a][v].page # NoPage

NoRegion == [page |-> NoPage, nRefCount |-> 0]

\* dwAllocPhysPage finds page g, the first without references.
FirstFree(g) == bPhysRefTbl[g] = 0 /\ \A h \in 1..g - 1 : bPhysRefTbl[h] # 0
NoneFree == \A g \in Pages : bPhysRefTbl[g] # 0

Init ==
    /\ bPhysRefTbl = [g \in Pages |-> 0]
    /\ live = {} /\ spaces = {}
    /\ nForkRefCounter = [a \in Procs |-> 0]
    /\ pForkRef = [a \in Procs |-> NoProc]
    /\ pPD = [a \in Procs |-> Empty]
    /\ mp = [a \in Procs |-> 0]
    /\ shmem = NoRegion

\* A name for a new process: nobody's chain leads to it.
Fresh(c) == c \notin live \cup spaces /\ \A a \in live \cup spaces : pForkRef[a] # c

(***************************************************************************)
(* kcreate_process and the stack of its first thread                       *)
(***************************************************************************)
CreateProcess(c) ==
    /\ Fresh(c)
    /\ \E g \in Pages :
        /\ FirstFree(g)
        /\ bPhysRefTbl' = [bPhysRefTbl EXCEPT ![g] = @ + 1]
        /\ pPD' = [pPD EXCEPT ![c] = [Empty EXCEPT ![Stack] = [page |-> g, w |-> TRUE]]]
    /\ live' = live \cup {c} /\ spaces' = spaces \cup {c}
    /\ nForkRefCounter' = [nForkRefCounter EXCEPT ![c] = 1]
    /\ pForkRef' = [pForkRef EXCEPT ![c] = NoProc]
    /\ mp' = [mp EXCEPT ![c] = 0]
    /\ UNCHANGED shmem

(***************************************************************************)
(* enlarge_memory_pool, one page.  A forked process starts with an empty   *)
(* pool over the mapped heap of its parent: the page is lost then.         *)
(***************************************************************************)
Enlarge(p) ==
    /\ p \in live /\ mp[p] < MaxHeap
    /\ \E g \in Pages :
        LET v == mp[p] + 1 IN
        /\ FirstFree(g)
        /\ bPhysRefTbl' = [bPhysRefTbl EXCEPT ![g] = @ + 1]
        /\ IF Present(p, v)
           THEN UNCHANGED <<pPD, mp>>
           ELSE /\ pPD' = [pPD EXCEPT ![p][v] = [page |-> g, w |-> TRUE]]
                /\ mp' = [mp EXCEPT ![p] = v]
    /\ UNCHANGED <<live, spaces, nForkRefCounter, pForkRef, shmem>>

(***************************************************************************)
(* kfork: dup_page_dir, then copy_on_write of the stack, whose result is   *)
(* not tested                                                              *)
(***************************************************************************)
\* Mutant of DupEntry: the child keeps the right to write.
DupEntryWritable(e) == e

DupEntry(e) == [page |-> e.page, w |-> FALSE]

CountFork(p, c) == [nForkRefCounter EXCEPT ![c] = 1, ![p] = @ + 1]

Fork(p, c) ==
    /\ p \in live /\ Fresh(c) /\ c # p
    /\ GrandForks \/ pForkRef[p] = NoProc
    /\ Untidy \/ ~Present(p, Window)
    /\ LET dup == [v \in Addrs |-> DupEntry(pPD[p][v])]
       IN  \/ \E g \in Pages :
                /\ FirstFree(g)
                /\ bPhysRefTbl' = [bPhysRefTbl EXCEPT ![g] = @ + 1]
                /\ pPD' = [pPD EXCEPT ![c] = [dup EXCEPT ![Stack] = [page |-> g, w |-> TRUE]]]
           \/ /\ NoneFree
              /\ pPD' = [pPD EXCEPT ![c] = dup]
              /\ UNCHANGED bPhysRefTbl
    /\ live' = live \cup {c} /\ spaces' = spaces \cup {c}
    /\ nForkRefCounter' = CountFork(p, c)
    /\ pForkRef' = [pForkRef EXCEPT ![c] = p]
    /\ mp' = [mp EXCEPT ![c] = 0]
    /\ UNCHANGED shmem

\* page_fault: a write to a page that is present and read-only.  The counter
\* of the old page stays, it was not raised by the fork.
CopyOnWrite(p, v) ==
    /\ p \in live /\ Present(p, v) /\ ~pPD[p][v].w
    /\ \E g \in Pages :
        /\ FirstFree(g)
        /\ bPhysRefTbl' = [bPhysRefTbl EXCEPT ![g] = @ + 1]
        /\ pPD' = [pPD EXCEPT ![p][v] = [page |-> g, w |-> TRUE]]
    /\ UNCHANGED <<live, spaces, nForkRefCounter, pForkRef, mp, shmem>>

(***************************************************************************)
(* detach_addr_space: down the whole pForkRef chain                        *)
(***************************************************************************)
ClosedUp(S) == \A a \in S : pForkRef[a] # NoProc => pForkRef[a] \in S

Chain(p) == {a \in Procs : \A S \in SUBSET Procs : p \in S /\ ClosedUp(S) => a \in S}

\* Mutant of ReleasedBy: the space goes with its process.
ReleasedByOwner(p) == {p}

ReleasedBy(p) == {a \in Chain(p) : nForkRefCounter[a] <= 1}

\* What __release_user_area counts down: everything of a space that was not
\* forked, the writable pages of one that was.
Frees(a, v) == Present(a, v) /\ (pForkRef[a] = NoProc \/ pPD[a][v].w)

DecRef(n, k) == IF n < k THEN 0 ELSE n - k

Exit(p) ==
    /\ p \in live
    /\ Untidy \/ ~Present(p, Window)
    /\ LET gone == ReleasedBy(p)
       IN  /\ bPhysRefTbl' = [g \in Pages |->
                DecRef(bPhysRefTbl[g],
                       Cardinality({av \in gone \X Addrs :
                           Frees(av[1], av[2]) /\ pPD[av[1]][av[2]].page = g}))]
           /\ spaces' = spaces \ gone
           /\ pPD' = [a \in Procs |-> IF a \in gone THEN Empty ELSE pPD[a]]
    /\ nForkRefCounter' =
            [a \in Procs |-> nForkRefCounter[a] - IF a \in Chain(p) THEN 1 ELSE 0]
    /\ live' = live \ {p}
    /\ UNCHANGED <<pForkRef, mp, shmem>>

(***************************************************************************)
(* Shared memory                                                           *)
(***************************************************************************)
CreateShmem ==
    /\ shmem = NoRegion
    /\ \E g \in Pages :
        /\ FirstFree(g)
        /\ bPhysRefTbl' = [bPhysRefTbl EXCEPT ![g] = @ + 1]
        /\ shmem' = [page |-> g, nRefCount |-> 0]
    /\ UNCHANGED <<live, spaces, nForkRefCounter, pForkRef, pPD, mp>>

\* The page is mapped without a reference of its own.
AttachShmem(p) ==
    /\ p \in live /\ shmem # NoRegion /\ ~Present(p, Window)
    /\ pPD' = [pPD EXCEPT ![p][Window] = [page |-> shmem.page, w |-> TRUE]]
    /\ shmem' = [shmem EXCEPT !.nRefCount = @ + 1]
    /\ UNCHANGED <<bPhysRefTbl, live, spaces, nForkRefCounter, pForkRef, mp>>

Detached(r) == [r EXCEPT !.nRefCount = @ - 1]

\* The result of dwReleaseMappingVAddr is not looked at: the counter goes down
\* whether or not there was something to detach.
DetachShmem(p) ==
    /\ p \in live /\ shmem # NoRegion
    /\ Untidy \/ Present(p, Window)
    /\ pPD' = [pPD EXCEPT ![p][Window] = NotPresent]
    /\ shmem' = Detached(shmem)
    /\ UNCHANGED <<bPhysRefTbl, live, spaces, nForkRefCounter, pForkRef, mp>>

MayClose == shmem # NoRegion /\ shmem.nRefCount <= 0

CloseShmem ==
    /\ MayClose
    /\ bPhysRefTbl' = [bPhysRefTbl EXCEPT ![shmem.page] = DecRef(@, 1)]
    /\ shmem' = NoRegion
    /\ UNCHANGED <<live, spaces, nForkRefCounter, pForkRef, pPD, mp>>

Next ==
    \/ \E p \in Procs :
        \/ CreateProcess(p) \/ Enlarge(p) \/ Exit(p)
        \/ AttachShmem(p) \/ DetachShmem(p)
        \/ \E c \in Procs : Fork(p, c)
        \/ \E v \in Addrs : CopyOnWrite(p, v)
    \/ CreateShmem \/ CloseShmem

Spec == Init /\ [][Next]_vars

-----------------------------------------------------------------------------
(***************************************************************************)
(* Properties                                                              *)
(***************************************************************************)
\* The variables stay in their types.
TypeOK ==
    /\ bPhysRefTbl \in [Pages -> 0..255]
    /\ live \subseteq Procs /\ spaces \subseteq Procs
    /\ nForkRefCounter \in [Procs -> Int]
    /\ pForkRef \in [Procs -> Procs \cup {NoProc}]
    /\ pPD \in [Procs -> [Addrs -> Entries]]
    /\ mp \in [Procs -> 0..MaxHeap]
    /\ shmem \in [page : Pages \cup {NoPage}, nRefCount : Nat]

\* The next two are what the code gives to tidy processes: with GrandForks or
\* Untidy they do not hold.

\* Whoever exits first, parent or child, the space of a live process and of
\* its fork parent is there, and no page it maps is free for others
\* (kprocess.c:1041-1081 against paging.c:493-531, 765-810).
LiveMemoryIsAllocated ==
    \A p \in live :
        /\ p \in spaces
        /\ pForkRef[p] # NoProc => pForkRef[p] \in spaces
        /\ \A v \in Addrs : Present(p, v) => bPhysRefTbl[pPD[p][v].page] > 0

\* A page that a process maps is written by the process itself, by the parent
\* it was forked from, or through the shared region, and by nobody else.
OnlyFamilyWrites ==
    \A p, q \in live : \A u, v \in Addrs :
        /\ p # q /\ Present(p, u) /\ Present(q, v)
        /\ pPD[p][u].page = pPD[q][v].page
        /\ pPD[q][v].w
        => \/ u = v /\ pForkRef[p] = q /\ ~pPD[p][u].w
           \/ u = Window /\ v = Window /\ pPD[q][v].page = shmem.page

=============================================================================
