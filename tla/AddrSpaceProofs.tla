--------------------------- MODULE AddrSpaceProofs ---------------------------
(***************************************************************************)
(* Proofs about AddrSpace: as long as only processes that were not forked  *)
(* fork, and regions are detached before a fork and before the end, no     *)
(* live process maps a free page and only its family writes what it maps.  *)
(* Then about MemPool: free space stays indexed and in one piece, and a    *)
(* pool keeps the promise of AbstractHeap.                                 *)
(***************************************************************************)
EXTENDS AddrSpace, MemPool, LinkLemmas, FiniteSetTheorems, TLAPS

Kids(a) == {c \in live : pForkRef[c] = a}

(* An entry of a space whose page __release_user_area would count down. *)
Owns(a, v) == v # Window /\ Frees(a, v)

Attached == {p \in live : Present(p, Window)}

(* Who has a space, and what its counter counts. *)
Families ==
    /\ IsFiniteSet(live)
    /\ live \subseteq spaces
    /\ \A c \in live : pForkRef[c] # NoProc =>
            pForkRef[c] \in spaces /\ pForkRef[pForkRef[c]] = NoProc
    /\ \A a \in spaces : a \notin live => pForkRef[a] = NoProc
    /\ \A a \in spaces :
            /\ nForkRefCounter[a] = (IF a \in live THEN 1 ELSE 0) + Cardinality(Kids(a))
            /\ nForkRefCounter[a] >= 1

(* A page has one owner: an entry of a space, or the region. *)
OneOwner ==
    /\ \A g \in Pages : bPhysRefTbl[g] \in {0, 1}
    /\ \A a \in spaces : \A u \in Addrs : Owns(a, u) =>
            /\ bPhysRefTbl[pPD[a][u].page] = 1
            /\ pPD[a][u].page # shmem.page
            /\ \A b \in spaces : \A v \in Addrs :
                  Owns(b, v) /\ pPD[a][u].page = pPD[b][v].page => a = b /\ u = v
    /\ shmem.page # NoPage => bPhysRefTbl[shmem.page] = 1

(* Read-only entries are those a live process got from its parent. *)
ReadOnlyFromParent ==
    \A c \in spaces : \A v \in Addrs : Present(c, v) /\ ~pPD[c][v].w =>
        /\ c \in live /\ pForkRef[c] # NoProc /\ v # Window
        /\ pPD[pForkRef[c]][v] = [page |-> pPD[c][v].page, w |-> TRUE]

(* The region is mapped by those it counts. *)
RegionCounted ==
    /\ shmem.page = NoPage => shmem.nRefCount = 0
    /\ shmem.nRefCount = Cardinality(Attached)
    /\ \A a \in spaces : Present(a, Window) =>
            a \in live /\ pPD[a][Window] = [page |-> shmem.page, w |-> TRUE]

IInv == TypeOK /\ Families /\ OneOwner /\ ReadOnlyFromParent /\ RegionCounted

-----------------------------------------------------------------------------
(* General facts.                                                          *)

(* The pForkRef chain of a process that was not forked. *)
LEMMA RootChain ==
  ASSUME NEW p \in Procs, pForkRef[p] = NoProc
  PROVE  Chain(p) = {p}
<1>1. ClosedUp({p}) /\ p \in {p} /\ {p} \in SUBSET Procs
  BY DEF ClosedUp
<1>2. \A a \in Chain(p) : a = p
  BY <1>1 DEF Chain
<1>3. p \in Chain(p)
  BY DEF Chain
<1> QED
  BY <1>2, <1>3

(* The chain of a process that was forked from one that was not. *)
LEMMA ForkedChain ==
  ASSUME NEW p \in Procs, NEW q \in Procs, pForkRef[p] = q, pForkRef[q] = NoProc,
         NoProc \notin Procs
  PROVE  Chain(p) = {p, q}
<1>1. ClosedUp({p, q}) /\ p \in {p, q} /\ {p, q} \in SUBSET Procs
  BY DEF ClosedUp
<1>2. \A a \in Chain(p) : a \in {p, q}
  BY <1>1 DEF Chain
<1>3. p \in Chain(p) /\ q \in Chain(p)
  BY DEF Chain, ClosedUp
<1> QED
  BY <1>2, <1>3

(* Children are counted by a natural number. *)
LEMMA KidsFinite ==
  ASSUME IsFiniteSet(live), NEW a
  PROVE  /\ IsFiniteSet(Kids(a))
         /\ Cardinality(Kids(a)) \in Nat
         /\ Cardinality(Kids(a)) = 0 <=> Kids(a) = {}
<1>1. Kids(a) \subseteq live
  BY DEF Kids
<1>2. IsFiniteSet(Kids(a))
  BY <1>1, FS_Subset
<1> QED
  BY <1>2, FS_CardinalityType, FS_EmptySet

(* Processes with the region are counted by a natural number. *)
LEMMA AttachedFinite ==
  ASSUME IsFiniteSet(live)
  PROVE  /\ IsFiniteSet(Attached)
         /\ Cardinality(Attached) \in Nat
         /\ Cardinality(Attached) = 0 <=> Attached = {}
<1>1. Attached \subseteq live
  BY DEF Attached
<1>2. IsFiniteSet(Attached)
  BY <1>1, FS_Subset
<1> QED
  BY <1>2, FS_CardinalityType, FS_EmptySet

(* A page without references belongs to nobody. *)
LEMMA FreePageUnowned ==
  ASSUME OneOwner, NEW g \in Pages, bPhysRefTbl[g] = 0
  PROVE  /\ g # shmem.page
         /\ \A a \in spaces : \A u \in Addrs : Owns(a, u) => pPD[a][u].page # g
  BY DEF OneOwner, Pages, NoPage

(* Owners stay owners or stop to be, and v0 of a0 becomes the owner of g. *)
Gains(a0, v0, g) ==
    \A b \in spaces' : \A v \in Addrs : Owns(b, v)' =>
        \/ b \in spaces /\ Owns(b, v) /\ pPD'[b][v].page = pPD[b][v].page
        \/ b = a0 /\ v = v0 /\ pPD'[b][v].page = g

GainsNothing ==
    \A b \in spaces' : \A v \in Addrs : Owns(b, v)' =>
        b \in spaces /\ Owns(b, v) /\ pPD'[b][v].page = pPD[b][v].page

(* A page that is allocated gets its owner. *)
LEMMA NewOwner ==
  ASSUME TypeOK, OneOwner, NEW g \in Pages, FirstFree(g),
         bPhysRefTbl' = [bPhysRefTbl EXCEPT ![g] = @ + 1],
         shmem' = shmem,
         NEW a0, NEW v0, Gains(a0, v0, g)
  PROVE  OneOwner'
<1>1. /\ bPhysRefTbl[g] = 0
      /\ bPhysRefTbl'[g] = 1
      /\ \A h \in Pages : h # g => bPhysRefTbl'[h] = bPhysRefTbl[h]
  BY DEF FirstFree, TypeOK
<1>2. /\ g # shmem.page
      /\ \A a \in spaces : \A u \in Addrs : Owns(a, u) => pPD[a][u].page # g
  BY <1>1, FreePageUnowned
<1>3. \A a \in spaces : \A u \in Addrs : Owns(a, u) => pPD[a][u].page \in Pages
  BY DEF TypeOK, Owns, Frees, Present, Entries, NotPresent
<1>4. shmem.page \in Pages \cup {NoPage}
  BY DEF TypeOK
<1>5. \A h \in Pages : bPhysRefTbl'[h] \in {0, 1}
  BY <1>1 DEF OneOwner
<1>6. shmem'.page # NoPage => bPhysRefTbl'[shmem'.page] = 1
  BY <1>1, <1>2, <1>4 DEF OneOwner
<1>7. ASSUME NEW a \in spaces', NEW u \in Addrs, Owns(a, u)'
      PROVE  /\ bPhysRefTbl'[pPD'[a][u].page] = 1
             /\ pPD'[a][u].page # shmem'.page
             /\ \A b \in spaces' : \A v \in Addrs :
                  Owns(b, v)' /\ pPD'[a][u].page = pPD'[b][v].page => a = b /\ u = v
  <2>1. CASE a \in spaces /\ Owns(a, u) /\ pPD'[a][u].page = pPD[a][u].page
    BY <2>1, <1>1, <1>2, <1>3 DEF OneOwner, Gains
  <2>2. CASE a = a0 /\ u = v0 /\ pPD'[a][u].page = g
    BY <2>2, <1>1, <1>2 DEF Gains
  <2> QED
    BY <1>7, <2>1, <2>2 DEF Gains
<1> QED
  BY <1>5, <1>6, <1>7 DEF OneOwner

(* Nothing is allocated, and owners stay owners or stop to be. *)
LEMMA SameOwners ==
  ASSUME OneOwner,
         bPhysRefTbl' = bPhysRefTbl, shmem'.page = shmem.page, GainsNothing
  PROVE  OneOwner'
<1>1. ASSUME NEW a \in spaces', NEW u \in Addrs, Owns(a, u)'
      PROVE  /\ bPhysRefTbl'[pPD'[a][u].page] = 1
             /\ pPD'[a][u].page # shmem'.page
             /\ \A b \in spaces' : \A v \in Addrs :
                  Owns(b, v)' /\ pPD'[a][u].page = pPD'[b][v].page => a = b /\ u = v
  BY <1>1 DEF OneOwner, GainsNothing
<1> QED
  BY <1>1 DEF OneOwner

(* Who is there and who was forked from whom stays. *)
LEMMA SameFamilies ==
  ASSUME Families, UNCHANGED <<live, spaces, nForkRefCounter, pForkRef>>
  PROVE  Families'
<1>1. \A a : Kids(a)' = Kids(a)
  BY DEF Kids
<1> QED
  BY <1>1 DEF Families

(* The mapping of the region stays. *)
LEMMA SameRegion ==
  ASSUME RegionCounted, shmem' = shmem, live' = live, spaces' = spaces,
         \A a \in spaces : pPD'[a][Window] = pPD[a][Window],
         live \subseteq spaces
  PROVE  RegionCounted'
<1>1. Attached' = Attached
  BY DEF Attached, Present
<1>2. \A a \in spaces : Present(a, Window)' <=> Present(a, Window)
  BY DEF Present
<1> QED
  BY <1>1, <1>2 DEF RegionCounted

-----------------------------------------------------------------------------
(* One lemma per action.                                                   *)

(* What the code does not enforce and the theorems assume: no forked process *)
(* forks before it execs, no process forks or ends with the region attached, *)
(* and none detaches the region where it is not attached.                    *)
Tidy == ~GrandForks /\ ~Untidy

(* What a new name is not. *)
LEMMA FreshName ==
  ASSUME TypeOK, Families, NEW c \in Procs, Fresh(c)
  PROVE  /\ c \notin spaces /\ c \notin live
         /\ Kids(c) = {}
         /\ \A a \in spaces : pForkRef[a] # c
  BY DEF Fresh, Kids, Families

(* An entry after a store of another one. *)
LEMMA StoreEntry ==
  ASSUME TypeOK, NEW p \in Procs, NEW v \in Addrs, NEW e \in Entries,
         pPD' = [pPD EXCEPT ![p][v] = e]
  PROVE  /\ pPD'[p][v] = e
         /\ \A a \in Procs : \A u \in Addrs : <<a, u>> # <<p, v>> => pPD'[a][u] = pPD[a][u]
         /\ pPD' \in [Procs -> [Addrs -> Entries]]
  BY DEF TypeOK

(* What is in an entry. *)
LEMMA EntryType ==
  ASSUME TypeOK
  PROVE  \A a \in Procs : \A v \in Addrs :
            /\ pPD[a][v] \in Entries
            /\ pPD[a][v].w \in BOOLEAN
            /\ pPD[a][v].page \in Pages \cup {NoPage}
            /\ Present(a, v) => pPD[a][v].page \in Pages
            /\ pPD[a][v] = [page |-> pPD[a][v].page, w |-> pPD[a][v].w]
<1> SUFFICES ASSUME NEW a \in Procs, NEW v \in Addrs
             PROVE  /\ pPD[a][v] \in Entries
                    /\ pPD[a][v].w \in BOOLEAN
                    /\ pPD[a][v].page \in Pages \cup {NoPage}
                    /\ Present(a, v) => pPD[a][v].page \in Pages
                    /\ pPD[a][v] = [page |-> pPD[a][v].page, w |-> pPD[a][v].w]
  OBVIOUS
<1> DEFINE e == pPD[a][v]
<1>1. e \in Entries
  BY DEF TypeOK
<1>2. e = NotPresent \/ e \in [page : Pages, w : BOOLEAN]
  BY <1>1 DEF Entries
<1> HIDE DEF e
<1>3. e.w \in BOOLEAN /\ e.page \in Pages \cup {NoPage} /\ e = [page |-> e.page, w |-> e.w]
  <2>1. CASE e = NotPresent
    BY <2>1 DEF NotPresent
  <2>2. CASE e \in [page : Pages, w : BOOLEAN]
    BY <2>2
  <2> QED
    BY <1>2, <2>1, <2>2
<1> QED
  BY <1>1, <1>3 DEF Present, e

(* Addresses. *)
LEMMA AddrFacts ==
  /\ MaxHeap \in Nat
  /\ Stack \in Addrs /\ Window \in Addrs /\ Stack # Window
  /\ NoPage \notin Pages
  /\ [page |-> NoPage, w |-> FALSE] \in Entries
  /\ \A g \in Pages : \A w \in BOOLEAN : [page |-> g, w |-> w] \in Entries
  BY ConstantsAssumption DEF Stack, Window, Addrs, NoPage, Pages, Entries, NotPresent

(* kcreate_process. *)
LEMMA CreateInv ==
  ASSUME IInv, NEW c \in Procs, CreateProcess(c)
  PROVE  IInv'
<1> USE AddrFacts
<1>0. c \notin spaces /\ c \notin live /\ Kids(c) = {} /\ (\A a \in spaces : pForkRef[a] # c)
  BY FreshName DEF IInv, CreateProcess
<1>1. PICK g \in Pages :
        /\ FirstFree(g)
        /\ bPhysRefTbl' = [bPhysRefTbl EXCEPT ![g] = @ + 1]
        /\ pPD' = [pPD EXCEPT ![c] = [Empty EXCEPT ![Stack] = [page |-> g, w |-> TRUE]]]
  BY DEF CreateProcess
<1>2. /\ live' = live \cup {c} /\ spaces' = spaces \cup {c}
      /\ nForkRefCounter' = [nForkRefCounter EXCEPT ![c] = 1]
      /\ pForkRef' = [pForkRef EXCEPT ![c] = NoProc]
      /\ mp' = [mp EXCEPT ![c] = 0]
      /\ shmem' = shmem
  BY DEF CreateProcess
<1>3. /\ \A a \in Procs : a # c => /\ pPD'[a] = pPD[a]
                                   /\ pForkRef'[a] = pForkRef[a]
                                   /\ nForkRefCounter'[a] = nForkRefCounter[a]
      /\ pForkRef'[c] = NoProc /\ nForkRefCounter'[c] = 1
      /\ pPD'[c][Stack] = [page |-> g, w |-> TRUE]
      /\ \A v \in Addrs : v # Stack => pPD'[c][v] = NotPresent
  BY <1>1, <1>2 DEF IInv, TypeOK, Empty
<1>4. spaces \subseteq Procs /\ live \subseteq spaces /\ NoProc \notin Procs
  BY ConstantsAssumption DEF IInv, TypeOK, Families
<1>5. Families'
  <2>1. Kids(c)' = {}
    BY <1>0, <1>2, <1>3, <1>4 DEF Kids, IInv, Families
  <2>2. \A a \in spaces : Kids(a)' = Kids(a)
    BY <1>0, <1>2, <1>3, <1>4 DEF Kids
  <2>3. IsFiniteSet(live')
    BY <1>2, FS_AddElement DEF IInv, Families
  <2>4. ASSUME NEW a \in live', pForkRef'[a] # NoProc
        PROVE  pForkRef'[a] \in spaces' /\ pForkRef'[pForkRef'[a]] = NoProc
    BY <2>4, <1>0, <1>2, <1>3, <1>4 DEF IInv, Families
  <2>5. \A a \in spaces' : a \notin live' => pForkRef'[a] = NoProc
    BY <1>0, <1>2, <1>3, <1>4 DEF IInv, Families
  <2>6. ASSUME NEW a \in spaces'
        PROVE  /\ nForkRefCounter'[a] = (IF a \in live' THEN 1 ELSE 0) + Cardinality(Kids(a)')
               /\ nForkRefCounter'[a] >= 1
    <3>1. CASE a = c
      BY <3>1, <2>1, <1>2, <1>3, FS_EmptySet
    <3>2. CASE a # c
      BY <3>2, <2>2, <1>2, <1>3, <1>4 DEF IInv, Families
    <3> QED
      BY <3>1, <3>2
  <2>7. live' \subseteq spaces'
    BY <1>2, <1>4
  <2> QED
    BY <2>3, <2>4, <2>5, <2>6, <2>7 DEF Families
<1>6. OneOwner'
  <2>1. Gains(c, Stack, g)
    <3> SUFFICES ASSUME NEW b \in spaces', NEW v \in Addrs, Owns(b, v)'
                 PROVE  \/ b \in spaces /\ Owns(b, v) /\ pPD'[b][v].page = pPD[b][v].page
                        \/ b = c /\ v = Stack /\ pPD'[b][v].page = g
      BY DEF Gains
    <3>1. CASE b # c
      BY <3>1, <1>2, <1>3, <1>4 DEF Owns, Frees, Present
    <3>2. CASE b = c
      BY <3>2, <1>3 DEF Owns, Frees, Present, NotPresent
    <3> QED
      BY <3>1, <3>2
  <2>2. TypeOK /\ OneOwner
    BY DEF IInv
  <2> QED
    BY <1>1, <1>2, <2>1, <2>2, NewOwner
<1>7. ReadOnlyFromParent'
  <2> SUFFICES ASSUME NEW a \in spaces', NEW v \in Addrs, Present(a, v)', ~pPD'[a][v].w
               PROVE  /\ a \in live' /\ pForkRef'[a] # NoProc /\ v # Window
                      /\ pPD'[pForkRef'[a]][v] = [page |-> pPD'[a][v].page, w |-> TRUE]
    BY DEF ReadOnlyFromParent
  <2>1. a # c
    BY <1>3 DEF Present, NotPresent
  <2>2. a \in spaces /\ Present(a, v) /\ ~pPD[a][v].w
    BY <2>1, <1>2, <1>3, <1>4 DEF Present
  <2>3. /\ a \in live /\ pForkRef[a] # NoProc /\ v # Window
        /\ pPD[pForkRef[a]][v] = [page |-> pPD[a][v].page, w |-> TRUE]
    BY <2>2 DEF IInv, ReadOnlyFromParent
  <2>4. pForkRef[a] \in spaces /\ pForkRef[a] # c
    BY <2>2, <2>3, <1>0 DEF IInv, Families
  <2>5. a \in Procs /\ pForkRef[a] \in Procs
    BY <2>2, <2>4, <1>4
  <2>6. /\ pPD'[a] = pPD[a] /\ pForkRef'[a] = pForkRef[a]
        /\ pPD'[pForkRef[a]] = pPD[pForkRef[a]]
    BY <2>1, <2>4, <2>5, <1>3
  <2> QED
    BY <2>3, <2>6, <1>2
<1>8. RegionCounted'
  <2>1. Attached' = Attached
    BY <1>0, <1>2, <1>3, <1>4 DEF Attached, Present, NotPresent
  <2>2. ASSUME NEW a \in spaces', Present(a, Window)'
        PROVE  a \in live' /\ pPD'[a][Window] = [page |-> shmem'.page, w |-> TRUE]
    <3>1. a # c
      BY <2>2, <1>3 DEF Present, NotPresent
    <3>2. a \in spaces /\ Present(a, Window) /\ pPD'[a] = pPD[a]
      BY <3>1, <2>2, <1>2, <1>3, <1>4 DEF Present
    <3> QED
      BY <3>2, <1>2 DEF IInv, RegionCounted
  <2> QED
    BY <2>1, <2>2, <1>2 DEF IInv, RegionCounted
<1>9. TypeOK'
  <2>1. bPhysRefTbl' \in [Pages -> 0..255]
    BY <1>1, <1>6 DEF IInv, TypeOK, OneOwner
  <2>2. pPD' \in [Procs -> [Addrs -> Entries]]
    BY <1>1 DEF IInv, TypeOK, Empty, NotPresent
  <2> QED
    BY <2>1, <2>2, <1>2 DEF IInv, TypeOK
<1> QED
  BY <1>5, <1>6, <1>7, <1>8, <1>9 DEF IInv

(* A process gets a page of its own where it had none, or only to read. *)
LEMMA StorePage ==
  ASSUME IInv, NEW p \in live, NEW v \in Addrs, v # Window,
         Present(p, v) => ~pPD[p][v].w,
         NEW g \in Pages, FirstFree(g),
         bPhysRefTbl' = [bPhysRefTbl EXCEPT ![g] = @ + 1],
         pPD' = [pPD EXCEPT ![p][v] = [page |-> g, w |-> TRUE]],
         UNCHANGED <<live, spaces, nForkRefCounter, pForkRef, shmem>>
  PROVE  Families' /\ OneOwner' /\ ReadOnlyFromParent' /\ RegionCounted'
<1> USE AddrFacts
<1>1. /\ spaces \subseteq Procs /\ live \subseteq spaces /\ p \in Procs
      /\ TypeOK /\ OneOwner /\ Families /\ RegionCounted /\ ReadOnlyFromParent
  BY DEF IInv, TypeOK, Families
<1> DEFINE e == [page |-> g, w |-> TRUE]
<1>2. e \in Entries /\ e.page = g /\ e.w = TRUE /\ pPD' = [pPD EXCEPT ![p][v] = e]
  BY DEF Entries
<1> HIDE DEF e
<1>3. /\ pPD'[p][v] = e
      /\ \A a \in Procs : \A u \in Addrs : <<a, u>> # <<p, v>> => pPD'[a][u] = pPD[a][u]
  BY <1>1, <1>2 DEF TypeOK
<1>4. Families'
  BY <1>1, SameFamilies
<1>5. Gains(p, v, g)
  <2> SUFFICES ASSUME NEW b \in spaces', NEW u \in Addrs, Owns(b, u)'
               PROVE  \/ b \in spaces /\ Owns(b, u) /\ pPD'[b][u].page = pPD[b][u].page
                      \/ b = p /\ u = v /\ pPD'[b][u].page = g
    BY DEF Gains
  <2>1. CASE <<b, u>> = <<p, v>>
    BY <2>1, <1>2, <1>3
  <2>2. CASE <<b, u>> # <<p, v>>
    <3>1. b \in spaces /\ pPD'[b][u] = pPD[b][u] /\ pForkRef' = pForkRef
      BY <2>2, <1>1, <1>3
    <3> QED
      BY <3>1 DEF Owns, Frees, Present
  <2> QED
    BY <2>1, <2>2
<1>6. OneOwner'
  BY <1>1, <1>5, NewOwner
<1>7. ReadOnlyFromParent'
  <2> SUFFICES ASSUME NEW a \in spaces', NEW u \in Addrs, Present(a, u)', ~pPD'[a][u].w
               PROVE  /\ a \in live' /\ pForkRef'[a] # NoProc /\ u # Window
                      /\ pPD'[pForkRef'[a]][u] = [page |-> pPD'[a][u].page, w |-> TRUE]
    BY DEF ReadOnlyFromParent
  <2>1. <<a, u>> # <<p, v>>
    BY <1>2, <1>3
  <2>2. a \in spaces /\ a \in Procs /\ pPD'[a][u] = pPD[a][u]
    BY <2>1, <1>1, <1>3
  <2>3. Present(a, u) /\ ~pPD[a][u].w
    BY <2>2 DEF Present
  <2>4. /\ a \in live /\ pForkRef[a] # NoProc /\ u # Window
        /\ pPD[pForkRef[a]][u] = [page |-> pPD[a][u].page, w |-> TRUE]
    BY <1>1, <2>2, <2>3 DEF ReadOnlyFromParent
  <2>5. pForkRef[a] \in spaces /\ pForkRef[a] \in Procs
    BY <1>1, <2>2, <2>4 DEF Families
  <2>6. <<pForkRef[a], u>> # <<p, v>>
    <3> SUFFICES ASSUME pForkRef[a] = p, u = v PROVE FALSE
      OBVIOUS
    <3>1. pPD[p][v].w /\ pPD[p][v].page = pPD[a][u].page
      BY <2>4
    <3> QED
      BY <3>1, <2>3 DEF Present
  <2>7. pPD'[pForkRef[a]][u] = pPD[pForkRef[a]][u]
    BY <2>5, <2>6, <1>3
  <2> QED
    BY <2>2, <2>4, <2>7
<1>8. RegionCounted'
  <2>1. \A a \in spaces : pPD'[a][Window] = pPD[a][Window]
    BY <1>1, <1>3
  <2> QED
    BY <1>1, <2>1, SameRegion
<1> QED
  BY <1>4, <1>6, <1>7, <1>8

(* The types follow, when the entries have theirs. *)
LEMMA TypesFollow ==
  ASSUME TypeOK, OneOwner', NEW g \in Pages,
         bPhysRefTbl' = [bPhysRefTbl EXCEPT ![g] = @ + 1]
  PROVE  bPhysRefTbl' \in [Pages -> 0..255]
  BY DEF TypeOK, OneOwner

(* enlarge_memory_pool. *)
LEMMA EnlargeInv ==
  ASSUME IInv, NEW p \in Procs, Enlarge(p)
  PROVE  IInv'
<1> USE AddrFacts
<1> DEFINE v == mp[p] + 1
<1>1. PICK g \in Pages :
        /\ FirstFree(g)
        /\ bPhysRefTbl' = [bPhysRefTbl EXCEPT ![g] = @ + 1]
        /\ IF Present(p, v)
           THEN UNCHANGED <<pPD, mp>>
           ELSE /\ pPD' = [pPD EXCEPT ![p][v] = [page |-> g, w |-> TRUE]]
                /\ mp' = [mp EXCEPT ![p] = v]
  BY DEF Enlarge
<1>2. /\ p \in live /\ mp[p] < MaxHeap
      /\ live' = live /\ spaces' = spaces /\ nForkRefCounter' = nForkRefCounter
      /\ pForkRef' = pForkRef /\ shmem' = shmem
  BY DEF Enlarge
<1>3. /\ v \in Addrs /\ v # Window /\ v \in 0..MaxHeap
      /\ spaces \subseteq Procs /\ live \subseteq spaces
      /\ TypeOK /\ OneOwner /\ Families /\ RegionCounted /\ ReadOnlyFromParent
  BY <1>2 DEF IInv, TypeOK, Families, Addrs, Window
<1> HIDE DEF v
<1>4. CASE Present(p, v)
  <2>1. pPD' = pPD /\ mp' = mp
    BY <1>1, <1>4
  <2>2. Gains(p, v, g)
    BY <2>1, <1>2 DEF Gains, Owns, Frees, Present
  <2>3. OneOwner'
    BY <1>1, <1>2, <1>3, <2>2, NewOwner
  <2>4. Families'
    BY <1>2, <1>3, SameFamilies
  <2>5. RegionCounted'
    BY <2>1, <1>2, <1>3, SameRegion
  <2>6. ReadOnlyFromParent'
    BY <2>1, <1>2, <1>3 DEF ReadOnlyFromParent, Present
  <2>7. bPhysRefTbl' \in [Pages -> 0..255]
    BY <1>1, <1>3, <2>3, TypesFollow
  <2>8. TypeOK'
    BY <2>1, <2>7, <1>2, <1>3 DEF TypeOK
  <2> QED
    BY <2>3, <2>4, <2>5, <2>6, <2>8 DEF IInv
<1>5. CASE ~Present(p, v)
  <2>1. /\ pPD' = [pPD EXCEPT ![p][v] = [page |-> g, w |-> TRUE]]
        /\ mp' = [mp EXCEPT ![p] = v]
    BY <1>1, <1>5
  <2>2. Families' /\ OneOwner' /\ ReadOnlyFromParent' /\ RegionCounted'
    BY <2>1, <1>1, <1>2, <1>3, <1>5, StorePage
  <2>3. bPhysRefTbl' \in [Pages -> 0..255]
    BY <1>1, <1>3, <2>2, TypesFollow
  <2>4. pPD' \in [Procs -> [Addrs -> Entries]]
    BY <2>1, <1>3, StoreEntry
  <2>5. mp' \in [Procs -> 0..MaxHeap]
    BY <2>1, <1>3 DEF TypeOK
  <2>6. TypeOK'
    BY <2>3, <2>4, <2>5, <1>2, <1>3 DEF TypeOK
  <2> QED
    BY <2>2, <2>6 DEF IInv
<1> QED
  BY <1>4, <1>5

(* page_fault. *)
LEMMA CopyOnWriteInv ==
  ASSUME IInv, NEW p \in Procs, NEW v \in Addrs, CopyOnWrite(p, v)
  PROVE  IInv'
<1> USE AddrFacts
<1>1. PICK g \in Pages :
        /\ FirstFree(g)
        /\ bPhysRefTbl' = [bPhysRefTbl EXCEPT ![g] = @ + 1]
        /\ pPD' = [pPD EXCEPT ![p][v] = [page |-> g, w |-> TRUE]]
  BY DEF CopyOnWrite
<1>2. /\ p \in live /\ Present(p, v) /\ ~pPD[p][v].w
      /\ live' = live /\ spaces' = spaces /\ nForkRefCounter' = nForkRefCounter
      /\ pForkRef' = pForkRef /\ mp' = mp /\ shmem' = shmem
  BY DEF CopyOnWrite
<1>3. TypeOK /\ v # Window
  BY <1>2 DEF IInv, Families, ReadOnlyFromParent
<1>4. Families' /\ OneOwner' /\ ReadOnlyFromParent' /\ RegionCounted'
  BY <1>1, <1>2, <1>3, StorePage
<1>5. bPhysRefTbl' \in [Pages -> 0..255]
  BY <1>1, <1>3, <1>4, TypesFollow
<1>6. pPD' \in [Procs -> [Addrs -> Entries]]
  BY <1>1, <1>3, StoreEntry
<1>7. TypeOK'
  BY <1>2, <1>3, <1>5, <1>6 DEF TypeOK
<1> QED
  BY <1>4, <1>7 DEF IInv

(* create_shmem. *)
LEMMA CreateShmemInv ==
  ASSUME IInv, CreateShmem
  PROVE  IInv'
<1> USE AddrFacts
<1>1. PICK g \in Pages :
        /\ FirstFree(g)
        /\ bPhysRefTbl' = [bPhysRefTbl EXCEPT ![g] = @ + 1]
        /\ shmem' = [page |-> g, nRefCount |-> 0]
  BY DEF CreateShmem
<1>2. /\ shmem.page = NoPage /\ shmem.nRefCount = 0
      /\ live' = live /\ spaces' = spaces /\ nForkRefCounter' = nForkRefCounter
      /\ pForkRef' = pForkRef /\ pPD' = pPD /\ mp' = mp
  BY DEF CreateShmem, NoRegion
<1>3. /\ TypeOK /\ OneOwner /\ Families /\ RegionCounted /\ ReadOnlyFromParent
      /\ shmem'.page = g /\ shmem'.nRefCount = 0
      /\ live \subseteq spaces /\ spaces \subseteq Procs
  BY <1>1 DEF IInv, Families, TypeOK
<1>4. /\ bPhysRefTbl[g] = 0
      /\ bPhysRefTbl'[g] = 1
      /\ \A h \in Pages : h # g => bPhysRefTbl'[h] = bPhysRefTbl[h]
  BY <1>1, <1>3 DEF FirstFree, TypeOK
<1>5. \A a \in spaces : \A u \in Addrs : Owns(a, u) =>
            pPD[a][u].page # g /\ pPD[a][u].page \in Pages
  BY <1>3, <1>4, FreePageUnowned, EntryType DEF Owns, Frees
<1>6. \A a : \A u : Owns(a, u)' <=> Owns(a, u)
  BY <1>2 DEF Owns, Frees, Present
<1>7. OneOwner'
  <2>1. \A h \in Pages : bPhysRefTbl'[h] \in {0, 1}
    BY <1>3, <1>4 DEF OneOwner
  <2>2. ASSUME NEW a \in spaces', NEW u \in Addrs, Owns(a, u)'
        PROVE  /\ bPhysRefTbl'[pPD'[a][u].page] = 1
               /\ pPD'[a][u].page # shmem'.page
               /\ \A b \in spaces' : \A v \in Addrs :
                    Owns(b, v)' /\ pPD'[a][u].page = pPD'[b][v].page => a = b /\ u = v
    <3>1. a \in spaces /\ Owns(a, u)
      BY <2>2, <1>2, <1>6
    <3>2. bPhysRefTbl'[pPD[a][u].page] = 1 /\ pPD[a][u].page # g
      BY <3>1, <1>3, <1>4, <1>5 DEF OneOwner
    <3>3. \A b \in spaces : \A v \in Addrs :
            Owns(b, v) /\ pPD[a][u].page = pPD[b][v].page => a = b /\ u = v
      BY <3>1, <1>3 DEF OneOwner
    <3> QED
      BY <3>2, <3>3, <1>2, <1>3, <1>6
  <2> QED
    BY <2>1, <2>2, <1>3, <1>4 DEF OneOwner
<1>8. Attached = {}
  BY <1>2, <1>3, AttachedFinite DEF RegionCounted, Families
<1>9. \A a \in spaces : ~Present(a, Window)
  BY <1>3, <1>8 DEF RegionCounted, Attached
<1>10. RegionCounted'
  <2>1. Attached' = Attached
    BY <1>2 DEF Attached, Present
  <2> QED
    BY <2>1, <1>2, <1>3, <1>8, <1>9, FS_EmptySet DEF RegionCounted, Present
<1>11. ReadOnlyFromParent'
  BY <1>2, <1>3 DEF ReadOnlyFromParent, Present
<1>12. Families'
  BY <1>2, <1>3, SameFamilies
<1>13. bPhysRefTbl' \in [Pages -> 0..255]
  BY <1>1, <1>3, <1>7, TypesFollow
<1>14. TypeOK'
  BY <1>1, <1>2, <1>3, <1>13 DEF TypeOK
<1> QED
  BY <1>7, <1>10, <1>11, <1>12, <1>14 DEF IInv

(* The entry of the region of one process changes. *)
LEMMA WindowChange ==
  ASSUME IInv, NEW p \in live, NEW e \in Entries,
         e.page # NoPage => e.w,
         pPD' = [pPD EXCEPT ![p][Window] = e],
         UNCHANGED <<bPhysRefTbl, live, spaces, nForkRefCounter, pForkRef, mp>>,
         shmem'.page = shmem.page
  PROVE  Families' /\ OneOwner' /\ ReadOnlyFromParent'
<1> USE AddrFacts
<1>1. /\ spaces \subseteq Procs /\ live \subseteq spaces /\ p \in Procs
      /\ TypeOK /\ OneOwner /\ Families /\ RegionCounted /\ ReadOnlyFromParent
  BY DEF IInv, TypeOK, Families
<1>2. /\ pPD'[p][Window] = e
      /\ \A a \in Procs : \A u \in Addrs : <<a, u>> # <<p, Window>> => pPD'[a][u] = pPD[a][u]
  BY <1>1 DEF TypeOK
<1>3. Families'
  BY <1>1, SameFamilies
<1>4. GainsNothing
  <2> SUFFICES ASSUME NEW b \in spaces', NEW u \in Addrs, Owns(b, u)'
               PROVE  b \in spaces /\ Owns(b, u) /\ pPD'[b][u].page = pPD[b][u].page
    BY DEF GainsNothing
  <2>1. u # Window /\ b \in spaces
    BY DEF Owns
  <2>2. pPD'[b][u] = pPD[b][u]
    BY <2>1, <1>1, <1>2
  <2> QED
    BY <2>1, <2>2 DEF Owns, Frees, Present
<1>5. OneOwner'
  BY <1>1, <1>4, SameOwners
<1>6. ReadOnlyFromParent'
  <2> SUFFICES ASSUME NEW a \in spaces', NEW u \in Addrs, Present(a, u)', ~pPD'[a][u].w
               PROVE  /\ a \in live' /\ pForkRef'[a] # NoProc /\ u # Window
                      /\ pPD'[pForkRef'[a]][u] = [page |-> pPD'[a][u].page, w |-> TRUE]
    BY DEF ReadOnlyFromParent
  <2>1. <<a, u>> # <<p, Window>>
    BY <1>2 DEF Present
  <2>2. a \in spaces /\ a \in Procs /\ pPD'[a][u] = pPD[a][u]
    BY <2>1, <1>1, <1>2
  <2>3. Present(a, u) /\ ~pPD[a][u].w
    BY <2>2 DEF Present
  <2>4. /\ a \in live /\ pForkRef[a] # NoProc /\ u # Window
        /\ pPD[pForkRef[a]][u] = [page |-> pPD[a][u].page, w |-> TRUE]
    BY <1>1, <2>2, <2>3 DEF ReadOnlyFromParent
  <2>5. pForkRef[a] \in Procs
    BY <1>1, <2>2, <2>4 DEF Families
  <2>6. pPD'[pForkRef[a]][u] = pPD[pForkRef[a]][u]
    BY <2>4, <2>5, <1>2
  <2> QED
    BY <2>2, <2>4, <2>6
<1> QED
  BY <1>3, <1>5, <1>6

(* attach_shmem. *)
LEMMA AttachInv ==
  ASSUME IInv, NEW p \in Procs, AttachShmem(p)
  PROVE  IInv'
<1> USE AddrFacts
<1> DEFINE e == [page |-> shmem.page, w |-> TRUE]
<1>1. /\ p \in live /\ shmem # NoRegion /\ ~Present(p, Window)
      /\ pPD' = [pPD EXCEPT ![p][Window] = e]
      /\ shmem' = [shmem EXCEPT !.nRefCount = @ + 1]
      /\ bPhysRefTbl' = bPhysRefTbl
      /\ live' = live /\ spaces' = spaces /\ nForkRefCounter' = nForkRefCounter
      /\ pForkRef' = pForkRef /\ mp' = mp
  BY DEF AttachShmem
<1>2. /\ TypeOK /\ OneOwner /\ Families /\ RegionCounted /\ ReadOnlyFromParent
      /\ live \subseteq spaces /\ spaces \subseteq Procs
      /\ IsFiniteSet(live)
  BY DEF IInv, Families, TypeOK
<1>3. shmem \in [page : Pages \cup {NoPage}, nRefCount : Nat]
  BY <1>2 DEF TypeOK
<1>4. shmem.page # NoPage
  BY <1>1, <1>2, <1>3 DEF RegionCounted, NoRegion
<1>5. e \in Entries /\ e.page = shmem.page /\ e.w = TRUE
  BY <1>3, <1>4
<1>6. shmem'.page = shmem.page /\ shmem'.nRefCount = shmem.nRefCount + 1
  BY <1>1, <1>3
<1>7. /\ pPD'[p][Window] = e
      /\ \A a \in Procs : a # p => pPD'[a] = pPD[a]
      /\ pPD' \in [Procs -> [Addrs -> Entries]]
  BY <1>1, <1>2, <1>5 DEF TypeOK
<1> HIDE DEF e
<1>8. Families' /\ OneOwner' /\ ReadOnlyFromParent'
  BY <1>1, <1>5, <1>6, WindowChange
<1>9. Attached' = Attached \cup {p} /\ p \notin Attached
  BY <1>1, <1>2, <1>4, <1>5, <1>7 DEF Attached, Present
<1>10. Cardinality(Attached') = Cardinality(Attached) + 1
  <2>1. IsFiniteSet(Attached)
    BY <1>2, AttachedFinite
  <2>2. Cardinality(Attached \cup {p}) = Cardinality(Attached) + 1
    BY <2>1, <1>9, FS_AddElement
  <2> QED
    BY <2>2, <1>9
<1>11. ASSUME NEW a \in spaces', Present(a, Window)'
       PROVE  a \in live' /\ pPD'[a][Window] = [page |-> shmem'.page, w |-> TRUE]
  <2>1. CASE a = p
    BY <2>1, <1>1, <1>6, <1>7 DEF e
  <2>2. CASE a # p
    <3>1. a \in spaces /\ pPD'[a] = pPD[a]
      BY <2>2, <1>1, <1>2, <1>7
    <3>2. Present(a, Window)
      BY <3>1, <1>11 DEF Present
    <3> QED
      BY <3>1, <3>2, <1>1, <1>2, <1>6 DEF RegionCounted
  <2> QED
    BY <2>1, <2>2
<1>12. RegionCounted'
  BY <1>2, <1>4, <1>6, <1>10, <1>11 DEF RegionCounted
<1>13. TypeOK'
  BY <1>1, <1>2, <1>3, <1>7 DEF TypeOK
<1> QED
  BY <1>8, <1>12, <1>13 DEF IInv

(* detach_shmem. *)
LEMMA DetachInv ==
  ASSUME Tidy, IInv, NEW p \in Procs, DetachShmem(p)
  PROVE  IInv'
<1> USE AddrFacts
<1>1. /\ p \in live /\ shmem # NoRegion /\ Present(p, Window)
      /\ pPD' = [pPD EXCEPT ![p][Window] = NotPresent]
      /\ shmem' = [shmem EXCEPT !.nRefCount = @ - 1]
      /\ bPhysRefTbl' = bPhysRefTbl
      /\ live' = live /\ spaces' = spaces /\ nForkRefCounter' = nForkRefCounter
      /\ pForkRef' = pForkRef /\ mp' = mp
  BY DEF DetachShmem, Detached, Tidy
<1>2. /\ TypeOK /\ OneOwner /\ Families /\ RegionCounted /\ ReadOnlyFromParent
      /\ live \subseteq spaces /\ spaces \subseteq Procs
      /\ IsFiniteSet(live)
  BY DEF IInv, Families, TypeOK
<1>3. shmem \in [page : Pages \cup {NoPage}, nRefCount : Nat]
  BY <1>2 DEF TypeOK
<1>4. NotPresent \in Entries /\ NotPresent.page = NoPage
  BY DEF NotPresent
<1>5. shmem'.page = shmem.page /\ shmem'.nRefCount = shmem.nRefCount - 1
  BY <1>1, <1>3
<1>6. /\ pPD'[p][Window] = NotPresent
      /\ \A a \in Procs : a # p => pPD'[a] = pPD[a]
      /\ pPD' \in [Procs -> [Addrs -> Entries]]
  BY <1>1, <1>2, <1>4 DEF TypeOK
<1>7. Families' /\ OneOwner' /\ ReadOnlyFromParent'
  BY <1>1, <1>4, <1>5, WindowChange
<1>8. Attached' = Attached \ {p} /\ p \in Attached
  BY <1>1, <1>2, <1>4, <1>6 DEF Attached, Present
<1>9. /\ Cardinality(Attached') = Cardinality(Attached) - 1
      /\ Cardinality(Attached') \in Nat
  <2>1. IsFiniteSet(Attached)
    BY <1>2, AttachedFinite
  <2>2. /\ IsFiniteSet(Attached \ {p})
        /\ Cardinality(Attached \ {p}) = Cardinality(Attached) - 1
    BY <2>1, <1>8, FS_RemoveElement
  <2>3. Cardinality(Attached \ {p}) \in Nat
    BY <2>2, FS_CardinalityType
  <2> QED
    BY <2>2, <2>3, <1>8
<1>10. shmem.page # NoPage
  <2>1. Cardinality(Attached) # 0
    BY <1>2, <1>8, AttachedFinite
  <2> QED
    BY <2>1, <1>2 DEF RegionCounted
<1>11. ASSUME NEW a \in spaces', Present(a, Window)'
       PROVE  a \in live' /\ pPD'[a][Window] = [page |-> shmem'.page, w |-> TRUE]
  <2>1. a # p
    BY <1>11, <1>4, <1>6 DEF Present
  <2>2. a \in spaces /\ pPD'[a] = pPD[a]
    BY <2>1, <1>1, <1>2, <1>6
  <2>3. Present(a, Window)
    BY <2>2, <1>11 DEF Present
  <2> QED
    BY <2>2, <2>3, <1>1, <1>2, <1>5 DEF RegionCounted
<1>12. RegionCounted'
  BY <1>2, <1>5, <1>9, <1>10, <1>11 DEF RegionCounted
<1>13. shmem'.nRefCount \in Nat
  BY <1>2, <1>5, <1>9 DEF RegionCounted
<1>14. TypeOK'
  BY <1>1, <1>2, <1>3, <1>6, <1>13 DEF TypeOK
<1> QED
  BY <1>7, <1>12, <1>14 DEF IInv

(* close_shmem: nobody has the region any more. *)
LEMMA CloseShmemInv ==
  ASSUME IInv, CloseShmem
  PROVE  IInv'
<1> USE AddrFacts
<1>1. /\ shmem # NoRegion /\ shmem.nRefCount <= 0
      /\ bPhysRefTbl' = [bPhysRefTbl EXCEPT ![shmem.page] = DecRef(@, 1)]
      /\ shmem' = NoRegion
      /\ live' = live /\ spaces' = spaces /\ nForkRefCounter' = nForkRefCounter
      /\ pForkRef' = pForkRef /\ pPD' = pPD /\ mp' = mp
  BY DEF CloseShmem, MayClose
<1>2. /\ TypeOK /\ OneOwner /\ Families /\ RegionCounted /\ ReadOnlyFromParent
      /\ live \subseteq spaces /\ spaces \subseteq Procs
      /\ IsFiniteSet(live)
  BY DEF IInv, Families, TypeOK
<1>3. shmem \in [page : Pages \cup {NoPage}, nRefCount : Nat]
  BY <1>2 DEF TypeOK
<1>4. shmem.nRefCount = 0 /\ shmem.page \in Pages
  BY <1>1, <1>2, <1>3 DEF RegionCounted, NoRegion
<1>5. Attached = {}
  BY <1>2, <1>4, AttachedFinite DEF RegionCounted
<1>6. /\ bPhysRefTbl'[shmem.page] = 0
      /\ \A h \in Pages : h # shmem.page => bPhysRefTbl'[h] = bPhysRefTbl[h]
      /\ shmem'.page = NoPage /\ shmem'.nRefCount = 0
  BY <1>1, <1>2, <1>4 DEF TypeOK, OneOwner, DecRef, NoRegion
<1>7. \A a \in spaces : \A u \in Addrs : Owns(a, u) =>
            pPD[a][u].page # shmem.page /\ pPD[a][u].page \in Pages
  BY <1>2, EntryType DEF Owns, Frees, OneOwner
<1>8. \A a : \A u : Owns(a, u)' <=> Owns(a, u)
  BY <1>1 DEF Owns, Frees, Present
<1>9. OneOwner'
  <2>1. \A h \in Pages : bPhysRefTbl'[h] \in {0, 1}
    BY <1>2, <1>6 DEF OneOwner
  <2>2. ASSUME NEW a \in spaces', NEW u \in Addrs, Owns(a, u)'
        PROVE  /\ bPhysRefTbl'[pPD'[a][u].page] = 1
               /\ pPD'[a][u].page # shmem'.page
               /\ \A b \in spaces' : \A v \in Addrs :
                    Owns(b, v)' /\ pPD'[a][u].page = pPD'[b][v].page => a = b /\ u = v
    <3>1. a \in spaces /\ Owns(a, u)
      BY <2>2, <1>1, <1>8
    <3>2. bPhysRefTbl'[pPD[a][u].page] = 1 /\ pPD[a][u].page # NoPage
      BY <3>1, <1>2, <1>6, <1>7 DEF OneOwner
    <3>3. \A b \in spaces : \A v \in Addrs :
            Owns(b, v) /\ pPD[a][u].page = pPD[b][v].page => a = b /\ u = v
      BY <3>1, <1>2 DEF OneOwner
    <3> QED
      BY <3>2, <3>3, <1>1, <1>6, <1>8
  <2> QED
    BY <2>1, <2>2, <1>6 DEF OneOwner
<1>10. RegionCounted'
  <2>1. Attached' = Attached
    BY <1>1 DEF Attached, Present
  <2>2. \A a \in spaces : ~Present(a, Window)
    BY <1>2, <1>5 DEF RegionCounted, Attached
  <2> QED
    BY <2>1, <2>2, <1>1, <1>5, <1>6, FS_EmptySet DEF RegionCounted, Present
<1>11. ReadOnlyFromParent'
  BY <1>1, <1>2 DEF ReadOnlyFromParent, Present
<1>12. Families'
  BY <1>1, <1>2, SameFamilies
<1>13. TypeOK'
  <2>1. bPhysRefTbl' \in [Pages -> 0..255]
    <3>1. DecRef(bPhysRefTbl[shmem.page], 1) \in 0..255
      BY <1>2, <1>4 DEF TypeOK, DecRef
    <3> QED
      BY <3>1, <1>1, <1>2 DEF TypeOK
  <2>2. shmem' \in [page : Pages \cup {NoPage}, nRefCount : Nat]
    BY <1>1 DEF NoRegion
  <2> QED
    BY <2>1, <2>2, <1>1, <1>2 DEF TypeOK
<1> QED
  BY <1>9, <1>10, <1>11, <1>12, <1>13 DEF IInv

(* kfork. *)
LEMMA ForkInv ==
  ASSUME Tidy, IInv, NEW p \in Procs, NEW c \in Procs, Fork(p, c)
  PROVE  IInv'
<1> USE AddrFacts
<1> DEFINE dup == [v \in Addrs |-> DupEntry(pPD[p][v])]
           stack(g) == [dup EXCEPT ![Stack] = [page |-> g, w |-> TRUE]]
<1>1. /\ p \in live /\ Fresh(c) /\ c # p /\ pForkRef[p] = NoProc /\ ~Present(p, Window)
      /\ live' = live \cup {c} /\ spaces' = spaces \cup {c}
      /\ nForkRefCounter' = [nForkRefCounter EXCEPT ![c] = 1, ![p] = @ + 1]
      /\ pForkRef' = [pForkRef EXCEPT ![c] = p]
      /\ mp' = [mp EXCEPT ![c] = 0]
      /\ shmem' = shmem
  BY DEF Fork, Tidy, CountFork
<1>2. /\ TypeOK /\ OneOwner /\ Families /\ RegionCounted /\ ReadOnlyFromParent
      /\ live \subseteq spaces /\ spaces \subseteq Procs /\ NoProc \notin Procs
      /\ IsFiniteSet(live)
  BY ConstantsAssumption DEF IInv, Families, TypeOK
<1>3. \/ \E g \in Pages :
            /\ FirstFree(g)
            /\ bPhysRefTbl' = [bPhysRefTbl EXCEPT ![g] = @ + 1]
            /\ pPD' = [pPD EXCEPT ![c] = stack(g)]
      \/ /\ pPD' = [pPD EXCEPT ![c] = dup]
         /\ bPhysRefTbl' = bPhysRefTbl
  BY DEF Fork
<1>4. c \notin spaces /\ c \notin live /\ Kids(c) = {} /\ (\A a \in spaces : pForkRef[a] # c)
  BY <1>1, <1>2, FreshName
<1>5. \A v \in Addrs : /\ pPD[p][v] \in Entries
                        /\ DupEntry(pPD[p][v]) = [page |-> pPD[p][v].page, w |-> FALSE]
                        /\ DupEntry(pPD[p][v]) \in Entries
  <2> SUFFICES ASSUME NEW v \in Addrs
               PROVE  /\ pPD[p][v] \in Entries
                      /\ DupEntry(pPD[p][v]) = [page |-> pPD[p][v].page, w |-> FALSE]
                      /\ DupEntry(pPD[p][v]) \in Entries
    OBVIOUS
  <2>1. /\ pPD[p][v] \in Entries
        /\ pPD[p][v].page \in Pages \cup {NoPage}
        /\ pPD[p][v] = [page |-> pPD[p][v].page, w |-> pPD[p][v].w]
    BY <1>2, EntryType
  <2>2. DupEntry(pPD[p][v]) = [page |-> pPD[p][v].page, w |-> FALSE]
    BY DEF DupEntry
  <2>3. [page |-> pPD[p][v].page, w |-> FALSE] \in Entries
    BY <2>1
  <2> QED
    BY <2>1, <2>2, <2>3
<1>6. /\ dup \in [Addrs -> Entries]
      /\ \A v \in Addrs : dup[v] = [page |-> pPD[p][v].page, w |-> FALSE]
  BY <1>5
<1> HIDE DEF dup
<1>7. \A g \in Pages : /\ stack(g) \in [Addrs -> Entries]
                       /\ stack(g)[Stack].page = g
                       /\ stack(g)[Stack].w = TRUE
                       /\ \A v \in Addrs : v # Stack => stack(g)[v] = dup[v]
  BY <1>6
<1> HIDE DEF stack
<1>8. /\ pPD' \in [Procs -> [Addrs -> Entries]]
      /\ \A a \in Procs : a # c => /\ pPD'[a] = pPD[a]
                                   /\ pForkRef'[a] = pForkRef[a]
      /\ \A a \in Procs : a # c /\ a # p => nForkRefCounter'[a] = nForkRefCounter[a]
      /\ nForkRefCounter'[p] = nForkRefCounter[p] + 1
      /\ nForkRefCounter'[c] = 1
      /\ pForkRef'[c] = p
      /\ \A v \in Addrs : pPD'[c][v].w \/ pPD'[c][v] = dup[v]
      /\ \A v \in Addrs : v # Stack => pPD'[c][v] = dup[v]
  <2>1. \E t \in [Addrs -> Entries] :
            /\ pPD' = [pPD EXCEPT ![c] = t]
            /\ \A v \in Addrs : t[v].w \/ t[v] = dup[v]
            /\ \A v \in Addrs : v # Stack => t[v] = dup[v]
    BY <1>3, <1>6, <1>7
  <2>2. PICK t \in [Addrs -> Entries] :
            /\ pPD' = [pPD EXCEPT ![c] = t]
            /\ \A v \in Addrs : t[v].w \/ t[v] = dup[v]
            /\ \A v \in Addrs : v # Stack => t[v] = dup[v]
    BY <2>1
  <2>3. /\ pPD' \in [Procs -> [Addrs -> Entries]]
        /\ pPD'[c] = t
        /\ \A a \in Procs : a # c => pPD'[a] = pPD[a]
    BY <2>2, <1>2 DEF TypeOK
  <2>4. pForkRef'[c] = p /\ \A a \in Procs : a # c => pForkRef'[a] = pForkRef[a]
    BY <1>1, <1>2 DEF TypeOK
  <2>5. nForkRefCounter \in [Procs -> Int]
    BY <1>2 DEF TypeOK
  <2>6. /\ \A a \in Procs : a # c /\ a # p => nForkRefCounter'[a] = nForkRefCounter[a]
        /\ nForkRefCounter'[p] = nForkRefCounter[p] + 1
        /\ nForkRefCounter'[c] = 1
    BY <2>5, <1>1
  <2> QED
    BY <2>2, <2>3, <2>4, <2>6
<1>9. Families'
  <2>1. Kids(c)' = {}
    BY <1>1, <1>2, <1>4, <1>8 DEF Kids, Families
  <2>2. \A a \in spaces : a # p => Kids(a)' = Kids(a)
    BY <1>1, <1>2, <1>4, <1>8 DEF Kids
  <2>3. Kids(p)' = Kids(p) \cup {c} /\ c \notin Kids(p)
    BY <1>1, <1>2, <1>4, <1>8 DEF Kids
  <2>4. Cardinality(Kids(p)') = Cardinality(Kids(p)) + 1
    <3>1. IsFiniteSet(Kids(p))
      BY <1>2, KidsFinite
    <3>2. Cardinality(Kids(p) \cup {c}) = Cardinality(Kids(p)) + 1
      BY <3>1, <2>3, FS_AddElement
    <3> QED
      BY <3>2, <2>3
  <2>5. IsFiniteSet(live') /\ live' \subseteq spaces'
    BY <1>1, <1>2, FS_AddElement
  <2>6. ASSUME NEW a \in live', pForkRef'[a] # NoProc
        PROVE  pForkRef'[a] \in spaces' /\ pForkRef'[pForkRef'[a]] = NoProc
    <3>1. CASE a = c
      BY <3>1, <1>1, <1>2, <1>8
    <3>2. CASE a # c
      <4>1. a \in live /\ a \in spaces /\ pForkRef'[a] = pForkRef[a]
        BY <3>2, <1>1, <1>2, <1>8
      <4>2. pForkRef[a] \in spaces /\ pForkRef[pForkRef[a]] = NoProc /\ pForkRef[a] # c
        BY <4>1, <2>6, <1>2, <1>4 DEF Families
      <4> QED
        BY <4>1, <4>2, <1>1, <1>2, <1>8
    <3> QED
      BY <3>1, <3>2
  <2>7. \A a \in spaces' : a \notin live' => pForkRef'[a] = NoProc
    BY <1>1, <1>2, <1>8 DEF Families
  <2>8. ASSUME NEW a \in spaces'
        PROVE  /\ nForkRefCounter'[a] = (IF a \in live' THEN 1 ELSE 0) + Cardinality(Kids(a)')
               /\ nForkRefCounter'[a] >= 1
    <3>1. CASE a = c
      BY <3>1, <2>1, <1>1, <1>8, FS_EmptySet
    <3>2. CASE a = p
      <4>1. /\ nForkRefCounter[p] = 1 + Cardinality(Kids(p))
            /\ Cardinality(Kids(p)) \in Nat
        BY <1>1, <1>2, KidsFinite DEF Families
      <4>2. p \in live' /\ nForkRefCounter'[p] = nForkRefCounter[p] + 1
        BY <1>1, <1>8
      <4> QED
        BY <3>2, <4>1, <4>2, <2>4
    <3>3. CASE a # c /\ a # p
      <4>1. a \in spaces /\ (a \in live' <=> a \in live)
        BY <3>3, <1>1
      <4>2. nForkRefCounter'[a] = nForkRefCounter[a] /\ Kids(a)' = Kids(a)
        BY <3>3, <4>1, <2>2, <1>2, <1>8
      <4> QED
        BY <4>1, <4>2, <1>2 DEF Families
    <3> QED
      BY <3>1, <3>2, <3>3
  <2> QED
    BY <2>5, <2>6, <2>7, <2>8 DEF Families
<1>10. \A a \in spaces : \A v \in Addrs : Owns(a, v)' => Owns(a, v) /\ pPD'[a][v].page = pPD[a][v].page
  BY <1>2, <1>4, <1>8 DEF Owns, Frees, Present
<1>11. \A v \in Addrs : Owns(c, v)' => v = Stack /\ pPD'[c][v].w
  BY <1>2, <1>6, <1>8 DEF Owns, Frees, Present
<1>12. OneOwner'
  <2>1. ASSUME NEW g \in Pages, FirstFree(g),
               bPhysRefTbl' = [bPhysRefTbl EXCEPT ![g] = @ + 1],
               pPD' = [pPD EXCEPT ![c] = stack(g)]
        PROVE  OneOwner'
    <3>1. pPD'[c][Stack].page = g
      BY <2>1, <1>2, <1>7 DEF TypeOK
    <3>2. Gains(c, Stack, g)
      BY <3>1, <1>1, <1>10, <1>11 DEF Gains
    <3> QED
      BY <3>2, <2>1, <1>1, <1>2, NewOwner
  <2>2. ASSUME bPhysRefTbl' = bPhysRefTbl, pPD' = [pPD EXCEPT ![c] = dup]
        PROVE  OneOwner'
    <3>1. \A v \in Addrs : ~pPD'[c][v].w
      BY <2>2, <1>2, <1>6 DEF TypeOK
    <3>2. GainsNothing
      BY <3>1, <1>1, <1>10, <1>11 DEF GainsNothing
    <3> QED
      BY <3>2, <2>2, <1>1, <1>2, SameOwners
  <2> QED
    BY <1>3, <2>1, <2>2
<1>13. ReadOnlyFromParent'
  <2> SUFFICES ASSUME NEW a \in spaces', NEW v \in Addrs, Present(a, v)', ~pPD'[a][v].w
               PROVE  /\ a \in live' /\ pForkRef'[a] # NoProc /\ v # Window
                      /\ pPD'[pForkRef'[a]][v] = [page |-> pPD'[a][v].page, w |-> TRUE]
    BY DEF ReadOnlyFromParent
  <2>1. CASE a = c
    <3>1. pPD'[c][v] = [page |-> pPD[p][v].page, w |-> FALSE]
      BY <2>1, <1>6, <1>8
    <3>2. Present(p, v)
      BY <2>1, <3>1 DEF Present
    <3>3. pPD[p][v].w
      BY <3>2, <1>1, <1>2 DEF ReadOnlyFromParent
    <3>4. pPD[p][v] = [page |-> pPD[p][v].page, w |-> TRUE]
      <4>1. pPD[p][v].w \in BOOLEAN /\ pPD[p][v] = [page |-> pPD[p][v].page, w |-> pPD[p][v].w]
        BY <1>2, EntryType
      <4> QED
        BY <4>1, <3>3
    <3>5. pPD'[p] = pPD[p] /\ pForkRef'[c] = p /\ p # NoProc
      BY <1>1, <1>2, <1>8
    <3> QED
      BY <2>1, <3>1, <3>2, <3>4, <3>5, <1>1
  <2>2. CASE a # c
    <3>1. a \in spaces /\ a \in Procs /\ pPD'[a] = pPD[a] /\ pForkRef'[a] = pForkRef[a]
      BY <2>2, <1>1, <1>2, <1>8
    <3>2. Present(a, v) /\ ~pPD[a][v].w
      BY <3>1 DEF Present
    <3>3. /\ a \in live /\ pForkRef[a] # NoProc /\ v # Window
          /\ pPD[pForkRef[a]][v] = [page |-> pPD[a][v].page, w |-> TRUE]
      BY <3>1, <3>2, <1>2 DEF ReadOnlyFromParent
    <3>4. pForkRef[a] \in spaces /\ pForkRef[a] # c
      BY <3>1, <3>3, <1>2, <1>4 DEF Families
    <3>5. pPD'[pForkRef[a]] = pPD[pForkRef[a]]
      BY <3>4, <1>2, <1>8
    <3> QED
      BY <3>1, <3>3, <3>5, <1>1
  <2> QED
    BY <2>1, <2>2
<1>14. RegionCounted'
  <2>1. pPD'[c][Window].page = NoPage
    BY <1>1, <1>6, <1>8 DEF Present
  <2>2. Attached' = Attached
    BY <2>1, <1>1, <1>2, <1>4, <1>8 DEF Attached, Present
  <2>3. ASSUME NEW a \in spaces', Present(a, Window)'
        PROVE  a \in live' /\ pPD'[a][Window] = [page |-> shmem'.page, w |-> TRUE]
    <3>1. a # c
      BY <2>1, <2>3 DEF Present
    <3>2. a \in spaces /\ pPD'[a] = pPD[a]
      BY <3>1, <1>1, <1>2, <1>8
    <3>3. Present(a, Window)
      BY <3>2, <2>3 DEF Present
    <3> QED
      BY <3>2, <3>3, <1>1, <1>2 DEF RegionCounted
  <2> QED
    BY <2>2, <2>3, <1>1, <1>2 DEF RegionCounted
<1>15. TypeOK'
  <2>1. bPhysRefTbl' \in [Pages -> 0..255]
    BY <1>2, <1>3, <1>12, TypesFollow DEF TypeOK
  <2> QED
    BY <2>1, <1>1, <1>2, <1>8 DEF TypeOK
<1> QED
  BY <1>9, <1>12, <1>13, <1>14, <1>15 DEF IInv

(* A space is released with the last process that uses it. *)
LEMMA GoneSpaces ==
  ASSUME Tidy, IInv, NEW p \in live
  PROVE  /\ ReleasedBy(p) \subseteq spaces
         /\ \A a \in ReleasedBy(p) : (a = p \/ a \notin live) /\ Kids(a) \subseteq {p}
         /\ pForkRef[p] # NoProc => p \in ReleasedBy(p)
         /\ \A a \in Chain(p) : a = p \/ p \in Kids(a)
         /\ \A a \in spaces : a \in Chain(p) <=> a = p \/ p \in Kids(a)
<1>1. /\ Families /\ p \in spaces /\ p \in Procs /\ spaces \subseteq Procs
      /\ NoProc \notin Procs /\ IsFiniteSet(live)
  BY ConstantsAssumption DEF IInv, TypeOK, Families
<1>2. CASE pForkRef[p] = NoProc
  <2>1. Chain(p) = {p}
    BY <1>1, <1>2, RootChain
  <2>2. \A a \in spaces : p \notin Kids(a)
    BY <1>1, <1>2 DEF Kids
  <2>3. p \in ReleasedBy(p) => Kids(p) = {}
    <3>1. nForkRefCounter[p] = 1 + Cardinality(Kids(p))
      BY <1>1 DEF Families
    <3>2. Cardinality(Kids(p)) \in Nat /\ (Cardinality(Kids(p)) = 0 <=> Kids(p) = {})
      BY <1>1, KidsFinite
    <3> QED
      BY <3>1, <3>2 DEF ReleasedBy
  <2>4. \A a \in ReleasedBy(p) : a = p
    BY <2>1 DEF ReleasedBy
  <2> QED
    BY <2>1, <2>2, <2>3, <2>4, <1>1, <1>2
<1>3. CASE pForkRef[p] # NoProc
  <2> DEFINE q == pForkRef[p]
  <2>1. q \in spaces /\ pForkRef[q] = NoProc /\ q \in Procs /\ q # p
    BY <1>1, <1>3 DEF Families
  <2>2. Chain(p) = {p, q}
    BY <1>1, <2>1, ForkedChain
  <2>3. p \in Kids(q)
    BY DEF Kids
  <2>4. Kids(p) = {}
    BY <1>1, <1>3 DEF Families, Kids
  <2>5. nForkRefCounter[p] = 1
    <3>1. Cardinality(Kids(p)) = 0
      BY <1>1, <2>4, KidsFinite
    <3>2. nForkRefCounter[p] = 1 + Cardinality(Kids(p))
      BY <1>1 DEF Families
    <3> QED
      BY <3>1, <3>2
  <2>6. \A a \in spaces : p \in Kids(a) <=> a = q
    BY DEF Kids
  <2>7. ASSUME q \in ReleasedBy(p) PROVE q \notin live /\ Kids(q) \subseteq {p}
    <3> DEFINE n == Cardinality(Kids(q))
    <3>1. IsFiniteSet(Kids(q)) /\ n \in Nat /\ n # 0
      BY <1>1, <2>3, KidsFinite
    <3>2. nForkRefCounter[q] <= 1
      BY <2>7 DEF ReleasedBy
    <3>3. nForkRefCounter[q] = (IF q \in live THEN 1 ELSE 0) + n
      BY <1>1, <2>1 DEF Families
    <3> HIDE DEF n
    <3>4. q \notin live /\ n = 1
      BY <3>1, <3>2, <3>3
    <3>5. \E x : Kids(q) = {x}
      BY <3>1, <3>4, FS_Singleton DEF n
    <3> QED
      BY <3>4, <3>5, <2>3
  <2>8. p \in ReleasedBy(p)
    BY <2>2, <2>5 DEF ReleasedBy
  <2>9. \A a \in ReleasedBy(p) : a = p \/ a = q
    BY <2>2 DEF ReleasedBy
  <2> QED
    BY <2>1, <2>2, <2>4, <2>6, <2>7, <2>8, <2>9, <1>1, <1>3
<1> QED
  BY <1>2, <1>3

(* What the release does to a page. *)
LEMMA ReleasedPages ==
  ASSUME OneOwner, NEW S \in SUBSET spaces, NEW g \in Pages,
         \A a \in S : ~Present(a, Window)
  PROVE  LET freed == {av \in S \X Addrs : Frees(av[1], av[2]) /\ pPD[av[1]][av[2]].page = g}
             n == DecRef(bPhysRefTbl[g], Cardinality(freed))
         IN  /\ n \in {0, 1}
             /\ (\A a \in S : \A v \in Addrs : Owns(a, v) => pPD[a][v].page # g)
                    => n = bPhysRefTbl[g]
<1> DEFINE freed == {av \in S \X Addrs : Frees(av[1], av[2]) /\ pPD[av[1]][av[2]].page = g}
           n == DecRef(bPhysRefTbl[g], Cardinality(freed))
<1>1. \A a \in S : \A v \in Addrs : Frees(a, v) <=> Owns(a, v)
  BY DEF Owns, Frees
<1>2. \A av \in freed : /\ av[1] \in S /\ av[2] \in Addrs /\ av = <<av[1], av[2]>>
                       /\ Owns(av[1], av[2]) /\ pPD[av[1]][av[2]].page = g
  BY <1>1
<1>3. \A x, y \in freed : x = y
  <2> SUFFICES ASSUME NEW x \in freed, NEW y \in freed PROVE x = y
    OBVIOUS
  <2> HIDE DEF freed
  <2>1. x[1] = y[1] /\ x[2] = y[2]
    BY <1>2 DEF OneOwner
  <2> QED
    BY <2>1, <1>2
<1>4. bPhysRefTbl[g] \in {0, 1}
  BY DEF OneOwner
<1>5. CASE freed = {}
  <2>1. Cardinality(freed) = 0
    BY <1>5, FS_EmptySet
  <2>2. n = bPhysRefTbl[g]
    BY <2>1, <1>4 DEF DecRef
  <2> QED
    BY <2>2, <1>4
<1>6. CASE freed # {}
  <2>1. PICK x : x \in freed
    BY <1>6
  <2> HIDE DEF freed
  <2>2. freed = {x}
    BY <2>1, <1>3
  <2>3. Cardinality(freed) = 1
    BY <2>2, FS_Singleton
  <2>4. n \in {0, 1}
    BY <2>3, <1>4 DEF DecRef
  <2>5. \E a \in S : \E v \in Addrs : Owns(a, v) /\ pPD[a][v].page = g
    BY <2>1, <1>2
  <2> QED
    BY <2>4, <2>5 DEF freed
<1> QED
  BY <1>5, <1>6

(* The end of a process. *)
LEMMA ExitInv ==
  ASSUME Tidy, IInv, NEW p \in Procs, Exit(p)
  PROVE  IInv'
<1> USE AddrFacts
<1> DEFINE gone == ReleasedBy(p)
<1>1. /\ p \in live /\ ~Present(p, Window)
      /\ spaces' = spaces \ gone /\ live' = live \ {p}
      /\ pForkRef' = pForkRef /\ mp' = mp /\ shmem' = shmem
      /\ pPD' = [a \in Procs |-> IF a \in gone THEN Empty ELSE pPD[a]]
      /\ nForkRefCounter' =
            [a \in Procs |-> nForkRefCounter[a] - IF a \in Chain(p) THEN 1 ELSE 0]
  BY DEF Exit, Tidy
<1>2. bPhysRefTbl' = [g \in Pages |->
                DecRef(bPhysRefTbl[g],
                       Cardinality({av \in gone \X Addrs :
                           Frees(av[1], av[2]) /\ pPD[av[1]][av[2]].page = g}))]
  BY DEF Exit
<1>3. /\ TypeOK /\ OneOwner /\ Families /\ RegionCounted /\ ReadOnlyFromParent
      /\ live \subseteq spaces /\ spaces \subseteq Procs /\ NoProc \notin Procs
      /\ IsFiniteSet(live)
  BY ConstantsAssumption DEF IInv, Families, TypeOK
<1>4. /\ gone \subseteq spaces
      /\ \A a \in gone : (a = p \/ a \notin live) /\ Kids(a) \subseteq {p}
      /\ pForkRef[p] # NoProc => p \in gone
      /\ \A a \in spaces : a \in Chain(p) <=> a = p \/ p \in Kids(a)
  BY <1>1, GoneSpaces
<1>5. \A a \in Chain(p) : nForkRefCounter[a] <= 1 => a \in gone
  BY DEF ReleasedBy
<1>6. \A a \in gone : ~Present(a, Window)
  BY <1>1, <1>3, <1>4 DEF RegionCounted
<1> HIDE DEF gone
<1>7. /\ \A a \in spaces' : a \in spaces /\ a \notin gone /\ a \in Procs
      /\ \A a \in spaces' : pPD'[a] = pPD[a]
      /\ pPD' \in [Procs -> [Addrs -> Entries]]
  BY <1>1, <1>3 DEF TypeOK, Empty, NotPresent
<1>8. \A c \in live' : pForkRef[c] # NoProc => pForkRef[c] \in spaces'
  <2> SUFFICES ASSUME NEW c \in live', pForkRef[c] # NoProc
               PROVE  pForkRef[c] \in spaces /\ pForkRef[c] \notin gone
    BY <1>1
  <2>1. c \in live /\ c # p
    BY <1>1
  <2>2. pForkRef[c] \in spaces /\ c \in Kids(pForkRef[c])
    BY <2>1, <1>3 DEF Families, Kids
  <2> QED
    BY <2>1, <2>2, <1>4
<1>9. \A a \in spaces' : \A v \in Addrs :
            /\ Owns(a, v)' <=> Owns(a, v)
            /\ Present(a, v)' <=> Present(a, v)
  BY <1>1, <1>7 DEF Owns, Frees, Present
<1>10. ASSUME NEW g \in Pages
       PROVE  /\ bPhysRefTbl'[g] \in {0, 1}
              /\ (\A a \in gone : \A v \in Addrs : Owns(a, v) => pPD[a][v].page # g)
                    => bPhysRefTbl'[g] = bPhysRefTbl[g]
  BY <1>2, <1>3, <1>4, <1>6, ReleasedPages
<1>11. \A a \in spaces : \A v \in Addrs : Owns(a, v) => pPD[a][v].page \in Pages
  BY <1>3, EntryType DEF Owns, Frees
<1>12. OneOwner'
  <2>1. ASSUME NEW a \in spaces', NEW u \in Addrs, Owns(a, u)'
        PROVE  /\ bPhysRefTbl'[pPD'[a][u].page] = 1
               /\ pPD'[a][u].page # shmem'.page
               /\ \A b \in spaces' : \A v \in Addrs :
                    Owns(b, v)' /\ pPD'[a][u].page = pPD'[b][v].page => a = b /\ u = v
    <3>1. a \in spaces /\ a \notin gone /\ Owns(a, u) /\ pPD'[a] = pPD[a]
      BY <2>1, <1>7, <1>9
    <3>2. /\ bPhysRefTbl[pPD[a][u].page] = 1 /\ pPD[a][u].page # shmem.page
          /\ pPD[a][u].page \in Pages
          /\ \A b \in spaces : \A v \in Addrs :
                    Owns(b, v) /\ pPD[a][u].page = pPD[b][v].page => a = b /\ u = v
      BY <3>1, <1>3, <1>11 DEF OneOwner
    <3>3. \A b \in gone : \A v \in Addrs : Owns(b, v) => pPD[b][v].page # pPD[a][u].page
      BY <3>1, <3>2, <1>4
    <3>4. bPhysRefTbl'[pPD[a][u].page] = 1
      BY <3>2, <3>3, <1>10
    <3> QED
      BY <3>1, <3>2, <3>4, <1>1, <1>7, <1>9
  <2>2. shmem'.page # NoPage => bPhysRefTbl'[shmem'.page] = 1
    <3> SUFFICES ASSUME shmem.page # NoPage PROVE bPhysRefTbl'[shmem.page] = 1
      BY <1>1
    <3>1. shmem.page \in Pages
      BY <1>3 DEF TypeOK
    <3>2. \A b \in gone : \A v \in Addrs : Owns(b, v) => pPD[b][v].page # shmem.page
      BY <1>3, <1>4 DEF OneOwner
    <3> QED
      BY <3>1, <3>2, <1>3, <1>10 DEF OneOwner
  <2> QED
    BY <2>1, <2>2, <1>10 DEF OneOwner
<1>13. ReadOnlyFromParent'
  <2> SUFFICES ASSUME NEW a \in spaces', NEW v \in Addrs, Present(a, v)', ~pPD'[a][v].w
               PROVE  /\ a \in live' /\ pForkRef'[a] # NoProc /\ v # Window
                      /\ pPD'[pForkRef'[a]][v] = [page |-> pPD'[a][v].page, w |-> TRUE]
    BY DEF ReadOnlyFromParent
  <2>1. a \in spaces /\ a \notin gone /\ pPD'[a] = pPD[a] /\ Present(a, v)
    BY <1>7, <1>9
  <2>2. /\ a \in live /\ pForkRef[a] # NoProc /\ v # Window
        /\ pPD[pForkRef[a]][v] = [page |-> pPD[a][v].page, w |-> TRUE]
    BY <2>1, <1>3 DEF ReadOnlyFromParent
  <2>3. a # p
    BY <2>1, <2>2, <1>4
  <2>4. a \in live' /\ pForkRef[a] \in spaces'
    BY <2>2, <2>3, <1>1, <1>8
  <2>5. pPD'[pForkRef[a]] = pPD[pForkRef[a]]
    BY <2>4, <1>7
  <2> QED
    BY <2>1, <2>2, <2>4, <2>5, <1>1
<1>14. RegionCounted'
  <2>1. Attached' = Attached
    <3>1. \A a \in live : a # p => a \in spaces'
      BY <1>1, <1>3, <1>4
    <3> QED
      BY <3>1, <1>1, <1>9 DEF Attached
  <2>2. ASSUME NEW a \in spaces', Present(a, Window)'
        PROVE  a \in live' /\ pPD'[a][Window] = [page |-> shmem'.page, w |-> TRUE]
    <3>1. a \in spaces /\ pPD'[a] = pPD[a] /\ Present(a, Window)
      BY <2>2, <1>7, <1>9
    <3> QED
      BY <3>1, <1>1, <1>3 DEF RegionCounted
  <2> QED
    BY <2>1, <2>2, <1>1, <1>3 DEF RegionCounted
<1>15. Families'
  <2>1. live' \subseteq spaces' /\ IsFiniteSet(live')
    BY <1>1, <1>3, <1>4, FS_RemoveElement
  <2>2. \A c \in live' : pForkRef'[c] # NoProc =>
            pForkRef'[c] \in spaces' /\ pForkRef'[pForkRef'[c]] = NoProc
    BY <1>1, <1>3, <1>8 DEF Families
  <2>3. \A a \in spaces' : a \notin live' => pForkRef'[a] = NoProc
    BY <1>1, <1>3, <1>4, <1>7 DEF Families
  <2>4. ASSUME NEW a \in spaces'
        PROVE  /\ nForkRefCounter'[a] = (IF a \in live' THEN 1 ELSE 0) + Cardinality(Kids(a)')
               /\ nForkRefCounter'[a] >= 1
    <3> DEFINE n == Cardinality(Kids(a))
    <3>1. /\ a \in spaces /\ a \notin gone /\ a \in Procs
          /\ IsFiniteSet(Kids(a)) /\ n \in Nat
          /\ nForkRefCounter[a] = (IF a \in live THEN 1 ELSE 0) + n
          /\ nForkRefCounter[a] >= 1
          /\ nForkRefCounter[a] \in Int
      BY <1>3, <1>7, KidsFinite DEF Families, TypeOK
    <3>2. Kids(a)' = Kids(a) \ {p}
      BY <1>1 DEF Kids
    <3>3. p \notin Kids(p)
      BY <1>1, <1>3 DEF Families, Kids
    <3>4. CASE a = p
      <4>1. Kids(a)' = Kids(a)
        BY <3>2, <3>3, <3>4
      <4>2. nForkRefCounter'[a] = nForkRefCounter[a] - 1 /\ nForkRefCounter[a] > 1
        BY <3>1, <3>4, <1>1, <1>4, <1>5
      <4> QED
        BY <3>1, <3>4, <4>1, <4>2, <1>1
    <3>5. CASE a # p /\ p \in Kids(a)
      <4>1. Cardinality(Kids(a) \ {p}) = n - 1
        BY <3>1, <3>5, FS_RemoveElement
      <4>2. nForkRefCounter'[a] = nForkRefCounter[a] - 1 /\ nForkRefCounter[a] > 1
        BY <3>1, <3>5, <1>1, <1>4, <1>5
      <4>3. a \in live' <=> a \in live
        BY <3>5, <1>1
      <4> QED
        BY <3>1, <3>2, <4>1, <4>2, <4>3
    <3>6. CASE a # p /\ p \notin Kids(a)
      <4>1. Kids(a)' = Kids(a)
        BY <3>2, <3>6
      <4>2. nForkRefCounter'[a] = nForkRefCounter[a]
        BY <3>1, <3>6, <1>1, <1>4
      <4>3. a \in live' <=> a \in live
        BY <3>6, <1>1
      <4> QED
        BY <3>1, <4>1, <4>2, <4>3
    <3> QED
      BY <3>4, <3>5, <3>6
  <2> QED
    BY <2>1, <2>2, <2>3, <2>4 DEF Families
<1>16. TypeOK'
  <2>1. bPhysRefTbl' \in [Pages -> 0..255]
    <3>1. \A g \in Pages : bPhysRefTbl'[g] \in 0..255
      BY <1>10
    <3> QED
      BY <3>1, <1>2
  <2>2. nForkRefCounter' \in [Procs -> Int]
    BY <1>1, <1>3 DEF TypeOK
  <2> QED
    BY <2>1, <2>2, <1>1, <1>3, <1>7 DEF TypeOK
<1> QED
  BY <1>12, <1>13, <1>14, <1>15, <1>16 DEF IInv

-----------------------------------------------------------------------------
(* The theorems.                                                           *)

(* The invariant holds at first. *)
LEMMA InitInv == Init => IInv
<1> SUFFICES ASSUME Init PROVE IInv
  OBVIOUS
<1> USE AddrFacts DEF Init
<1>1. TypeOK
  BY DEF TypeOK, Empty, NotPresent, NoRegion
<1>2. Families
  BY FS_EmptySet DEF Families
<1>3. OneOwner /\ ReadOnlyFromParent
  BY DEF OneOwner, ReadOnlyFromParent, NoRegion
<1>4. Attached = {}
  BY DEF Attached
<1>5. RegionCounted
  BY <1>4, FS_EmptySet DEF RegionCounted, NoRegion
<1> QED
  BY <1>1, <1>2, <1>3, <1>5 DEF IInv

(* Every step keeps the invariant. *)
LEMMA NextInv ==
  ASSUME Tidy, IInv, [Next]_vars
  PROVE  IInv'
<1>1. CASE Next
  <2>1. ASSUME NEW p \in Procs, CreateProcess(p) PROVE IInv'
    BY <2>1, CreateInv
  <2>2. ASSUME NEW p \in Procs, Enlarge(p) PROVE IInv'
    BY <2>2, EnlargeInv
  <2>3. ASSUME NEW p \in Procs, Exit(p) PROVE IInv'
    BY <2>3, ExitInv
  <2>4. ASSUME NEW p \in Procs, AttachShmem(p) PROVE IInv'
    BY <2>4, AttachInv
  <2>5. ASSUME NEW p \in Procs, DetachShmem(p) PROVE IInv'
    BY <2>5, DetachInv
  <2>6. ASSUME NEW p \in Procs, NEW c \in Procs, Fork(p, c) PROVE IInv'
    BY <2>6, ForkInv
  <2>7. ASSUME NEW p \in Procs, NEW v \in Addrs, CopyOnWrite(p, v) PROVE IInv'
    BY <2>7, CopyOnWriteInv
  <2>8. ASSUME CreateShmem PROVE IInv'
    BY <2>8, CreateShmemInv
  <2>9. ASSUME CloseShmem PROVE IInv'
    BY <2>9, CloseShmemInv
  <2> QED
    BY <1>1, <2>1, <2>2, <2>3, <2>4, <2>5, <2>6, <2>7, <2>8, <2>9 DEF Next
<1>2. CASE UNCHANGED vars
  <2>1. \A a : Kids(a)' = Kids(a)
    BY <1>2 DEF vars, Kids
  <2>2. Attached' = Attached
    BY <1>2 DEF vars, Attached, Present
  <2>3. \A a, v : Owns(a, v)' <=> Owns(a, v)
    BY <1>2 DEF vars, Owns, Frees, Present
  <2>4. TypeOK'
    BY <1>2 DEF vars, IInv, TypeOK
  <2>5. Families'
    BY <1>2, <2>1 DEF vars, IInv, Families
  <2>6. OneOwner'
    BY <1>2, <2>3 DEF vars, IInv, OneOwner
  <2>7. ReadOnlyFromParent'
    BY <1>2 DEF vars, IInv, ReadOnlyFromParent, Present
  <2>8. RegionCounted'
    BY <1>2, <2>2 DEF vars, IInv, RegionCounted, Present
  <2> QED
    BY <2>4, <2>5, <2>6, <2>7, <2>8 DEF IInv
<1> QED
  BY <1>1, <1>2

(* The inductive invariant is one. *)
THEOREM InductiveInvariant == ASSUME Tidy PROVE Spec => []IInv
<1>1. ASSUME IInv, [Next]_vars PROVE IInv'
  BY <1>1, NextInv
<1> QED
  BY <1>1, InitInv, PTL DEF Spec

(* The invariant gives what the run checks. *)
LEMMA InvLive == IInv => LiveMemoryIsAllocated
<1> SUFFICES ASSUME IInv, NEW p \in live
             PROVE  /\ p \in spaces
                    /\ pForkRef[p] # NoProc => pForkRef[p] \in spaces
                    /\ \A v \in Addrs : Present(p, v) => bPhysRefTbl[pPD[p][v].page] > 0
  BY DEF LiveMemoryIsAllocated
<1>1. /\ TypeOK /\ OneOwner /\ Families /\ RegionCounted /\ ReadOnlyFromParent
      /\ p \in spaces /\ p \in Procs
      /\ pForkRef[p] # NoProc => pForkRef[p] \in spaces
  BY DEF IInv, Families, TypeOK
<1>2. ASSUME NEW v \in Addrs, Present(p, v)
      PROVE  bPhysRefTbl[pPD[p][v].page] > 0
  <2>1. CASE v = Window
    <3>1. pPD[p][v].page = shmem.page /\ shmem.page # NoPage
      BY <2>1, <1>1, <1>2 DEF RegionCounted, Present
    <3> QED
      BY <3>1, <1>1 DEF OneOwner
  <2>2. CASE v # Window /\ Owns(p, v)
    BY <2>2, <1>1 DEF OneOwner
  <2>3. CASE v # Window /\ ~Owns(p, v)
    <3>1. pForkRef[p] # NoProc /\ ~pPD[p][v].w
      BY <2>3, <1>2 DEF Owns, Frees
    <3> DEFINE q == pForkRef[p]
    <3>2. q \in spaces /\ pForkRef[q] = NoProc /\ pPD[q][v] = [page |-> pPD[p][v].page, w |-> TRUE]
      BY <3>1, <1>1, <1>2 DEF ReadOnlyFromParent, Families
    <3>3. pPD[q][v].page = pPD[p][v].page
      BY <3>2
    <3>4. Owns(q, v)
      BY <3>2, <3>3, <2>3, <1>2 DEF Owns, Frees, Present
    <3>5. bPhysRefTbl[pPD[q][v].page] = 1
      BY <3>2, <3>4, <1>1 DEF OneOwner
    <3> QED
      BY <3>3, <3>5
  <2> QED
    BY <2>1, <2>2, <2>3
<1> QED
  BY <1>1, <1>2

(* The owners of pages and the entries of a family give who writes. *)
LEMMA InvFamily == IInv => OnlyFamilyWrites
<1> SUFFICES ASSUME IInv, NEW p \in live, NEW q \in live, NEW u \in Addrs, NEW v \in Addrs,
                    p # q, Present(p, u), Present(q, v),
                    pPD[p][u].page = pPD[q][v].page, pPD[q][v].w
             PROVE  \/ u = v /\ pForkRef[p] = q /\ ~pPD[p][u].w
                    \/ u = Window /\ v = Window /\ pPD[q][v].page = shmem.page
  BY DEF OnlyFamilyWrites
<1>1. /\ TypeOK /\ OneOwner /\ Families /\ RegionCounted /\ ReadOnlyFromParent
      /\ p \in spaces /\ q \in spaces
  BY DEF IInv, Families
<1>2. CASE v = Window
  <2>1. pPD[q][v].page = shmem.page
    BY <1>1, <1>2 DEF RegionCounted
  <2>2. ASSUME u # Window PROVE FALSE
    <3>1. ~Owns(p, u)
      BY <2>1, <1>1 DEF OneOwner
    <3>2. pForkRef[p] # NoProc /\ ~pPD[p][u].w
      BY <3>1, <2>2 DEF Owns, Frees
    <3> DEFINE r == pForkRef[p]
    <3>3. r \in spaces /\ pForkRef[r] = NoProc /\ pPD[r][u] = [page |-> pPD[p][u].page, w |-> TRUE]
      BY <3>2, <1>1 DEF ReadOnlyFromParent, Families
    <3>4. pPD[r][u].page = pPD[p][u].page
      BY <3>3
    <3>5. Owns(r, u)
      BY <3>3, <3>4, <2>2 DEF Owns, Frees, Present
    <3> QED
      BY <3>3, <3>4, <3>5, <2>1, <1>1 DEF OneOwner
  <2> QED
    BY <2>1, <2>2, <1>2
<1>3. CASE v # Window
  <2>1. Owns(q, v)
    BY <1>3 DEF Owns, Frees
  <2>2. u # Window
    <3>1. pPD[q][v].page # shmem.page
      BY <2>1, <1>1 DEF OneOwner
    <3>2. u = Window => pPD[p][u].page = shmem.page
      BY <1>1 DEF RegionCounted
    <3> QED
      BY <3>1, <3>2
  <2>3. ~Owns(p, u)
    BY <2>1, <1>1 DEF OneOwner
  <2>4. pForkRef[p] # NoProc /\ ~pPD[p][u].w
    BY <2>2, <2>3 DEF Owns, Frees
  <2> DEFINE r == pForkRef[p]
  <2>5. r \in spaces /\ pForkRef[r] = NoProc /\ pPD[r][u] = [page |-> pPD[p][u].page, w |-> TRUE]
    BY <2>4, <1>1 DEF ReadOnlyFromParent, Families
  <2>6. pPD[r][u].page = pPD[q][v].page
    BY <2>5
  <2>7. Owns(r, u)
    BY <2>2, <2>5, <2>6 DEF Owns, Frees, Present
  <2>8. r = q /\ u = v
    BY <2>1, <2>5, <2>6, <2>7, <1>1 DEF OneOwner
  <2> QED
    BY <2>4, <2>8
<1> QED
  BY <1>2, <1>3

(* The variables keep their types; no reference counter exceeds one and none *)
(* of the counters of spaces and of the region goes below what it counts.    *)
(* Only tidy processes are meant, here and below.                            *)
THEOREM SpecTypeOK == ASSUME Tidy PROVE Spec => []TypeOK
<1>1. IInv => TypeOK
  BY DEF IInv
<1> QED
  BY <1>1, InductiveInvariant, PTL

(* For any number of tidy processes and any number of pages, whoever exits   *)
(* first, what a live process maps is allocated and the space it was forked  *)
(* from is there (kprocess.c:1041-1081, paging.c:493-531).                   *)
THEOREM SpecLiveMemoryIsAllocated == ASSUME Tidy PROVE Spec => []LiveMemoryIsAllocated
  BY InvLive, InductiveInvariant, PTL

(* For any number of tidy processes and any number of pages, a page is       *)
(* written by the process that has it, by the parent of that process or      *)
(* through the region (paging.c:765-908).                                    *)
THEOREM SpecOnlyFamilyWrites == ASSUME Tidy PROVE Spec => []OnlyFamilyWrites
  BY InvFamily, InductiveInvariant, PTL

-----------------------------------------------------------------------------
(***************************************************************************)
(* Proofs about MemPool.  Blocks are ordered by address and do not reach   *)
(* into the next one, the size lists hold just the free blocks, and        *)
(* between two free blocks there is a third one.  While a block is merged  *)
(* or split it is in no list and may be next to a free one (Ready).        *)
(***************************************************************************)
SizeOf(h, b) == h.blk[b].dwSize
ClassOf(h, b) == get_mfl_index(SizeOf(h, b))
Between(h, c, d) == \E e \in DOMAIN h.blk : c < e /\ e < d
UsedIn(h) == {b \in DOMAIN h.blk : ~ IsFree(h, b)}

Typed(h) ==
    /\ h = [pos |-> h.pos, blk |-> h.blk, mfl |-> h.mfl]
    /\ h.pos \in Seq(BlockAddrs)
    /\ DOMAIN h.blk \subseteq BlockAddrs
    /\ h.blk \in [DOMAIN h.blk -> Header]
    /\ h.mfl \in [Classes -> Seq(BlockAddrs)]

Ordered(h) == Increasing(h.pos) /\ ToSet(h.pos) = DOMAIN h.blk

\* A block ends before the next one begins and inside the memory below top.
Apart(h, top) ==
    \A b \in DOMAIN h.blk :
        /\ b + H + SizeOf(h, b) <= top
        /\ \A c \in DOMAIN h.blk : b < c => b + H + SizeOf(h, b) <= c

\* The size lists hold the free blocks, without those in X.
Indexed(h, X) ==
    \A i \in Classes :
        /\ IsInjective(h.mfl[i])
        /\ ToSet(h.mfl[i]) =
               {b \in DOMAIN h.blk \ X : IsFree(h, b) /\ ClassOf(h, b) = i}

\* Between two free blocks there is a third one, except next to those in X.
Parted(h, X) ==
    \A c, d \in DOMAIN h.blk \ X :
        c < d /\ IsFree(h, c) /\ IsFree(h, d) => Between(h, c, d)

Shaped(h, top) == top \in 0..MaxSize /\ Typed(h) /\ Ordered(h) /\ Apart(h, top)

Good(h, top) == Shaped(h, top) /\ Indexed(h, {}) /\ Parted(h, {})

\* While b is merged or split it is in no size list.
Ready(h, top, b) ==
    Shaped(h, top) /\ b \in DOMAIN h.blk /\ Indexed(h, {b}) /\ Parted(h, {b})

ClosedBelow(h, b) == \A c \in DOMAIN h.blk : c < b /\ IsFree(h, c) => Between(h, c, b)
ClosedAbove(h, b) == \A c \in DOMAIN h.blk : b < c /\ IsFree(h, c) => Between(h, b, c)

\* From h to g only the block b, which became a, and free blocks changed.
Kept(h, b, g, a) ==
    /\ UsedIn(g) \ {a} = UsedIn(h) \ {b}
    /\ \A c \in UsedIn(h) \ {b} : g.blk[c] = h.blk[c]

WithUsage(h, b, use) == [h EXCEPT !.blk[b].byUsage = use]

(* What the sizes of an instance are.                                      *)
LEMMA PoolConstants ==
    /\ MinSize \in Nat /\ MinSize > 0 /\ Page \in Nat /\ Page > 0
    /\ MinGrow \in Nat /\ MaxSize \in Nat
    /\ \A s \in Sizes : s \in Nat /\ s > 0
    /\ H = 1 /\ BlockAddrs \subseteq Nat /\ BlockAddrs \in SUBSET Int
BY PoolAssumption DEF H, BlockAddrs

(* Every size has a class, a larger one the same or a later one            *)
(* (get_mfl_index).                                                        *)
LEMMA ClassesOfSizes ==
    /\ \A n \in Nat : get_mfl_index(n) \in Classes
    /\ \A n, m \in Nat : n <= m => get_mfl_index(n) <= get_mfl_index(m)
<1> DEFINE D == DOMAIN Bounds
           C(n) == {k \in D : n >= Bounds[k]}
<1>1. D = 1..Len(Bounds) /\ Len(Bounds) \in Nat /\ \A k \in D : Bounds[k] \in Nat
  BY PoolAssumption, LenProperties, ElementOfSeq
<1>2. IsFiniteSet(D) /\ Cardinality(D) = Len(Bounds)
  <2> DEFINE L == Len(Bounds)
  <2>1. L \in Nat /\ D = 1..L
    BY <1>1
  <2> HIDE DEF L, D
  <2>2. IsFiniteSet(1..L) /\ Cardinality(1..L) = L
    BY <2>1, FS_Interval
  <2> QED
    BY <2>1, <2>2 DEF L
<1> HIDE DEF D
<1>3. \A n \in Nat : IsFiniteSet(C(n)) /\ Cardinality(C(n)) \in Nat
                     /\ Cardinality(C(n)) <= Len(Bounds)
  <2> SUFFICES ASSUME NEW n \in Nat
               PROVE  IsFiniteSet(C(n)) /\ Cardinality(C(n)) \in Nat
                      /\ Cardinality(C(n)) <= Len(Bounds)
    OBVIOUS
  <2>1. C(n) \in SUBSET D
    OBVIOUS
  <2> HIDE DEF C
  <2>2. IsFiniteSet(C(n)) /\ Cardinality(C(n)) <= Cardinality(D)
    BY <1>2, <2>1, FS_Subset
  <2>3. QED
    BY <1>2, <2>2, FS_CardinalityType
<1>4. \A n, m \in Nat : n <= m => Cardinality(C(n)) <= Cardinality(C(m))
  <2> SUFFICES ASSUME NEW n \in Nat, NEW m \in Nat, n <= m
               PROVE  Cardinality(C(n)) <= Cardinality(C(m))
    OBVIOUS
  <2>1. C(n) \in SUBSET C(m)
    BY <1>1
  <2> HIDE DEF C
  <2>2. QED
    BY <1>3, <2>1, FS_Subset
<1>5. \A n : get_mfl_index(n) = Cardinality(C(n))
  BY DEF get_mfl_index, D
<1> HIDE DEF C
<1>6. ASSUME NEW n \in Nat PROVE get_mfl_index(n) \in Classes
  <2>1. get_mfl_index(n) = Cardinality(C(n))
    BY <1>5
  <2>2. QED
    BY <1>1, <1>3, <2>1 DEF Classes
<1>7. ASSUME NEW n \in Nat, NEW m \in Nat, n <= m
      PROVE  get_mfl_index(n) <= get_mfl_index(m)
  <2>1. get_mfl_index(n) = Cardinality(C(n)) /\ get_mfl_index(m) = Cardinality(C(m))
    BY <1>5
  <2>2. QED
    BY <1>4, <1>7, <2>1
<1>8. QED
  BY <1>6, <1>7

(* What a typed pool is made of.                                           *)
LEMMA TypedParts ==
    ASSUME NEW h, Typed(h), NEW b \in DOMAIN h.blk
    PROVE  /\ b \in Nat /\ b \in BlockAddrs
           /\ SizeOf(h, b) \in Nat /\ SizeOf(h, b) <= MaxSize
           /\ ClassOf(h, b) \in Classes
           /\ h.blk[b] = [byUsage |-> h.blk[b].byUsage, dwSize |-> SizeOf(h, b)]
           /\ h.blk[b].byUsage \in {"MBT_USED", "MBT_FREE"}
<1>1. h.blk[b] \in Header /\ b \in BlockAddrs
  BY DEF Typed
<1>2. SizeOf(h, b) \in Nat /\ SizeOf(h, b) <= MaxSize
  BY <1>1, PoolConstants DEF SizeOf, Header
<1>3. QED
  BY <1>1, <1>2, PoolConstants, ClassesOfSizes DEF ClassOf, SizeOf, Header

(* A block is linked in the list of its size                               *)
(* (append_memblk_to_size_link).                                           *)
LEMMA AppendIndexes ==
    ASSUME NEW h, NEW top, Shaped(h, top), NEW X, NEW b \in DOMAIN h.blk,
           Indexed(h, X), b \in X, IsFree(h, b)
    PROVE  /\ append_memblk_to_size_link(h, b).pos = h.pos
           /\ append_memblk_to_size_link(h, b).blk = h.blk
           /\ Shaped(append_memblk_to_size_link(h, b), top)
           /\ Indexed(append_memblk_to_size_link(h, b), X \ {b})
<1> DEFINE i == ClassOf(h, b)
           l == [h.mfl EXCEPT ![i] = Append(h.mfl[i], b)]
           g == append_memblk_to_size_link(h, b)
<1>1. Typed(h) /\ i \in Classes /\ b \in BlockAddrs
  BY TypedParts DEF Shaped
<1>2. g = [h EXCEPT !.mfl = l]
  BY <1>1 DEF append_memblk_to_size_link, ClassOf, SizeOf, Typed
<1>3. g = [pos |-> h.pos, blk |-> h.blk, mfl |-> l]
  BY <1>1, <1>2 DEF Typed
<1>4. \A j \in Classes :
        IsInjective(h.mfl[j]) /\ h.mfl[j] \in Seq(BlockAddrs) /\ b \notin ToSet(h.mfl[j])
  BY <1>1 DEF Typed, Indexed
<1>5. /\ l[i] \in Seq(BlockAddrs) /\ IsInjective(l[i])
      /\ ToSet(l[i]) = ToSet(h.mfl[i]) \cup {b}
  <2>1. l[i] = Append(h.mfl[i], b)
    BY <1>1 DEF Typed
  <2>2. QED
    BY <1>1, <1>4, <2>1, AppendLink
<1>6. l \in [Classes -> Seq(BlockAddrs)] /\ \A j \in Classes : j # i => l[j] = h.mfl[j]
  BY <1>1, <1>5 DEF Typed
<1> HIDE DEF l, g
<1>7. g.pos = h.pos /\ g.blk = h.blk /\ g.mfl = l
  BY <1>3
<1>8. Shaped(g, top)
  BY <1>1, <1>3, <1>6, <1>7 DEF Shaped, Typed, Ordered, Apart, SizeOf
<1>9. Indexed(g, X \ {b})
  <2>1. ASSUME NEW j \in Classes
        PROVE  IsInjective(l[j]) /\ ToSet(l[j]) = {c \in DOMAIN h.blk \ (X \ {b}) :
                                                    IsFree(h, c) /\ ClassOf(h, c) = j}
    BY <1>4, <1>5, <1>6 DEF Indexed
  <2>2. QED
    BY <1>7, <2>1 DEF Indexed, IsFree, ClassOf, SizeOf
<1>10. QED
  BY <1>7, <1>8, <1>9 DEF g

(* A free block leaves the list of its size                                *)
(* (delete_memblk_from_size_link).                                         *)
LEMMA DeleteIndexes ==
    ASSUME NEW h, NEW top, Shaped(h, top), NEW X, NEW b \in DOMAIN h.blk, Indexed(h, X)
    PROVE  /\ delete_memblk_from_size_link(h, b).pos = h.pos
           /\ delete_memblk_from_size_link(h, b).blk = h.blk
           /\ Shaped(delete_memblk_from_size_link(h, b), top)
           /\ Indexed(delete_memblk_from_size_link(h, b), X \cup {b})
<1> DEFINE i == ClassOf(h, b)
           l == [h.mfl EXCEPT ![i] = RemoveFirst(h.mfl[i], b)]
           g == delete_memblk_from_size_link(h, b)
<1>1. Typed(h) /\ i \in Classes /\ b \in BlockAddrs
  BY TypedParts DEF Shaped
<1>2. g = [h EXCEPT !.mfl = l]
  BY <1>1 DEF delete_memblk_from_size_link, ClassOf, SizeOf, Typed
<1>3. g = [pos |-> h.pos, blk |-> h.blk, mfl |-> l]
  BY <1>1, <1>2 DEF Typed
<1>4. \A j \in Classes : IsInjective(h.mfl[j]) /\ h.mfl[j] \in Seq(BlockAddrs)
  BY <1>1 DEF Typed, Indexed
<1>5. /\ l[i] \in Seq(BlockAddrs) /\ IsInjective(l[i])
      /\ ToSet(l[i]) = ToSet(h.mfl[i]) \ {b}
  <2>1. l[i] = RemoveFirst(h.mfl[i], b)
    BY <1>1 DEF Typed
  <2>2. QED
    BY <1>1, <1>4, <2>1, RemoveLink
<1>6. l \in [Classes -> Seq(BlockAddrs)] /\ \A j \in Classes : j # i => l[j] = h.mfl[j]
  BY <1>1, <1>5 DEF Typed
<1> HIDE DEF l, g
<1>7. g.pos = h.pos /\ g.blk = h.blk /\ g.mfl = l
  BY <1>3
<1>8. Shaped(g, top)
  BY <1>1, <1>3, <1>6, <1>7 DEF Shaped, Typed, Ordered, Apart, SizeOf
<1>9. Indexed(g, X \cup {b})
  <2>1. ASSUME NEW j \in Classes
        PROVE  IsInjective(l[j]) /\ ToSet(l[j]) = {c \in DOMAIN h.blk \ (X \cup {b}) :
                                                    IsFree(h, c) /\ ClassOf(h, c) = j}
    BY <1>4, <1>5, <1>6 DEF Indexed
  <2>2. QED
    BY <1>7, <2>1 DEF Indexed, IsFree, ClassOf, SizeOf
<1>10. QED
  BY <1>7, <1>8, <1>9 DEF g

(* Two blocks that are next to each other, b and a free one, become one    *)
(* (merge_this_memblk).                                                    *)
LEMMA MergeKeeps ==
    ASSUME NEW h, NEW top, NEW b, Ready(h, top, b),
           NEW p \in DOMAIN h.blk, p # b, IsFree(h, p),
           NEW lo, NEW hi, lo < hi, ~ Between(h, lo, hi),
           (p = lo /\ b = hi) \/ (p = hi /\ b = lo),
           NEW m, m = merge_this_memblk(delete_memblk_from_size_link(h, p), p, b)
    PROVE  /\ m.at = lo
           /\ Ready(m.heap, top, lo) /\ IsFree(m.heap, lo)
           /\ SizeOf(m.heap, lo) >= SizeOf(h, b)
           /\ Kept(h, b, m.heap, lo)
           /\ p = lo \/ ClosedBelow(h, b) => ClosedBelow(m.heap, lo)
           /\ p = hi \/ ClosedAbove(h, b) => ClosedAbove(m.heap, lo)
<1> DEFINE u == delete_memblk_from_size_link(h, p)
           D == DOMAIN h.blk
           new == [byUsage |-> "MBT_FREE", dwSize |-> SizeOf(h, lo) + SizeOf(h, hi) + H]
           B == [c \in D \ {hi} |-> IF c = lo THEN new ELSE h.blk[c]]
           P == RemoveFirst(h.pos, hi)
           g == m.heap
<1>1. /\ Typed(h) /\ Ordered(h) /\ Apart(h, top) /\ top \in Nat /\ top <= MaxSize
      /\ b \in D /\ lo \in D /\ hi \in D /\ D \subseteq Nat
      /\ Indexed(h, {b}) /\ Parted(h, {b})
  BY PoolConstants DEF Ready, Shaped, Typed
<1>2. /\ \A c \in D : SizeOf(h, c) \in Nat /\ ClassOf(h, c) \in Classes
      /\ \A c \in D : c + 1 + SizeOf(h, c) <= top
      /\ \A c, d \in D : c < d => c + 1 + SizeOf(h, c) <= d
  BY <1>1, TypedParts DEF Apart, H
<1>3. /\ u.pos = h.pos /\ u.blk = h.blk
      /\ Typed(u) /\ Indexed(u, {p, b})
  <2>1. u.pos = h.pos /\ u.blk = h.blk /\ Shaped(u, top) /\ Indexed(u, {b} \cup {p})
    BY <1>1, DeleteIndexes DEF Ready
  <2>2. {b} \cup {p} = {p, b}
    OBVIOUS
  <2>3. QED
    BY <2>1, <2>2 DEF Shaped
<1> HIDE DEF u
<1>4. (IF p < b THEN p ELSE b) = lo /\ (IF p < b THEN b ELSE p) = hi
  BY <1>1
<1>5. m = [at |-> lo, heap |-> [pos |-> P, blk |-> B, mfl |-> u.mfl]]
  <2>1. P = RemoveFirst(u.pos, hi)
        /\ B = [c \in DOMAIN u.blk \ {hi} |->
                  IF c = lo THEN [byUsage |-> "MBT_FREE",
                                  dwSize  |-> u.blk[lo].dwSize + u.blk[hi].dwSize + H]
                  ELSE u.blk[c]]
    BY <1>3 DEF SizeOf
  <2> HIDE DEF B, P
  <2>2. merge_this_memblk(u, p, b) = [at |-> lo, heap |-> [pos |-> P, blk |-> B, mfl |-> u.mfl]]
    BY <1>4, <2>1 DEF merge_this_memblk
  <2>3. QED
    BY <2>2 DEF u
<1>6. m.at = lo /\ g = [pos |-> P, blk |-> B, mfl |-> u.mfl]
  BY <1>5
<1> HIDE DEF g, B, P
<1>7. g.pos = P /\ g.blk = B /\ g.mfl = u.mfl
  BY <1>6
<1>8. /\ DOMAIN B = D \ {hi}
      /\ \A c \in D \ {hi} : B[c] = IF c = lo THEN new ELSE h.blk[c]
      /\ lo \in D \ {hi}
  BY <1>1 DEF B
<1>9. new \in Header /\ new.byUsage = "MBT_FREE" /\ new.dwSize = SizeOf(h, lo) + SizeOf(h, hi) + 1
  <2>1. new.dwSize = SizeOf(h, lo) + SizeOf(h, hi) + 1
    BY DEF H
  <2>2. new.dwSize \in 0..MaxSize
    BY <1>1, <1>2, <2>1, PoolConstants
  <2>3. QED
    BY <2>1, <2>2 DEF Header
<1> HIDE DEF new
<1>10. Increasing(P) /\ P \in Seq(BlockAddrs) /\ ToSet(P) = D \ {hi}
  BY <1>1, PoolConstants, RemoveIncreasing DEF P, Typed, Ordered
<1>11. Typed(g)
  <2>1. B \in [D \ {hi} -> Header]
    BY <1>1, <1>8, <1>9 DEF B, Typed
  <2>2. QED
    BY <1>1, <1>3, <1>6, <1>7, <1>8, <1>10, <2>1 DEF Typed
<1>12. /\ \A c \in D \ {hi} : IsFree(g, c) <=> IsFree(h, c) \/ c = lo
       /\ \A c \in D \ {hi, lo} : SizeOf(g, c) = SizeOf(h, c) /\ ClassOf(g, c) = ClassOf(h, c)
       /\ SizeOf(g, lo) = SizeOf(h, lo) + SizeOf(h, hi) + 1
  BY <1>7, <1>8, <1>9 DEF IsFree, SizeOf, ClassOf
<1>13. \A c \in D : c # lo /\ c # hi => c < lo \/ hi < c
  BY <1>1 DEF Between
<1>14. Apart(g, top)
  <2>1. ASSUME NEW c \in D \ {hi}
        PROVE  /\ c + 1 + SizeOf(g, c) <= top
               /\ \A d \in D \ {hi} : c < d => c + 1 + SizeOf(g, c) <= d
    <3>1. CASE c = lo
      <4>1. lo + 1 + SizeOf(g, lo) <= hi + 1 + SizeOf(h, hi)
        BY <1>1, <1>2, <1>12
      <4>2. \A d \in D \ {hi} : c < d => hi < d
        BY <1>1, <1>13, <3>1
      <4>3. hi \in Nat /\ lo \in Nat /\ SizeOf(h, hi) \in Nat /\ SizeOf(g, lo) \in Nat
        BY <1>1, <1>2, <1>12
      <4>4. QED
        BY <1>1, <1>2, <3>1, <4>1, <4>2, <4>3
    <3>2. CASE c # lo
      BY <1>2, <1>12, <3>2
    <3>3. QED
      BY <3>1, <3>2
  <2>2. QED
    BY <1>7, <1>8, <2>1 DEF Apart, H
<1>15. Indexed(g, {lo})
  <2>1. ASSUME NEW i \in Classes
        PROVE  {c \in D \ {p, b} : IsFree(h, c) /\ ClassOf(h, c) = i}
                 = {c \in (D \ {hi}) \ {lo} : IsFree(g, c) /\ ClassOf(g, c) = i}
    BY <1>12
  <2>2. \A c : (IsFree(u, c) <=> IsFree(h, c)) /\ ClassOf(u, c) = ClassOf(h, c)
    BY <1>3 DEF IsFree, ClassOf, SizeOf
  <2>3. QED
    BY <1>3, <1>7, <1>8, <2>1, <2>2 DEF Indexed
<1>16. ASSUME NEW c \in D \ {hi, lo}, NEW d \in D \ {hi, lo}, c < d, IsFree(h, c), IsFree(h, d)
       PROVE  \E e \in D \ {hi} : c < e /\ e < d
  <2>1. PICK e \in D : c < e /\ e < d
    BY <1>1, <1>16 DEF Parted, Between
  <2>2. CASE e # hi
    BY <2>1, <2>2
  <2>3. CASE e = hi
    BY <1>1, <1>13, <2>1, <2>3
  <2>4. QED
    BY <2>2, <2>3
<1>17. Parted(g, {lo})
  BY <1>7, <1>8, <1>12, <1>16 DEF Parted, Between
<1>18. Ready(g, top, lo) /\ IsFree(g, lo)
  BY <1>1, <1>7, <1>8, <1>10, <1>11, <1>12, <1>14, <1>15, <1>17 DEF Ready, Shaped, Ordered
<1>19. SizeOf(g, lo) >= SizeOf(h, b)
  BY <1>1, <1>2, <1>12
<1>20. Kept(h, b, g, lo)
  <2>1. UsedIn(g) \ {lo} = UsedIn(h) \ {b}
    BY <1>7, <1>8, <1>12 DEF UsedIn
  <2>2. \A c \in UsedIn(h) \ {b} : B[c] = h.blk[c]
    BY <1>8 DEF UsedIn
  <2>3. QED
    BY <1>7, <2>1, <2>2 DEF Kept
<1>21. ASSUME p = lo \/ ClosedBelow(h, b) PROVE ClosedBelow(g, lo)
  <2>1. SUFFICES ASSUME NEW c \in D \ {hi}, c < lo, IsFree(h, c)
                 PROVE  \E e \in D \ {hi} : c < e /\ e < lo
    BY <1>1, <1>7, <1>8, <1>12 DEF ClosedBelow, Between
  <2>2. \E e \in D : c < e /\ e < lo
    <3>1. CASE p = lo
      BY <1>1, <2>1, <3>1 DEF Parted, Between
    <3>2. CASE p = hi /\ b = lo
      BY <1>1, <1>21, <2>1, <3>2 DEF ClosedBelow, Between
    <3>3. QED
      BY <3>1, <3>2
  <2>3. QED
    BY <1>1, <2>2
<1>22. ASSUME p = hi \/ ClosedAbove(h, b) PROVE ClosedAbove(g, lo)
  <2>1. SUFFICES ASSUME NEW c \in D \ {hi}, lo < c, IsFree(h, c)
                 PROVE  \E e \in D \ {hi} : lo < e /\ e < c
    BY <1>1, <1>7, <1>8, <1>12 DEF ClosedAbove, Between
  <2>2. hi < c
    BY <1>1, <1>13, <2>1
  <2>3. \E e \in D : hi < e /\ e < c
    <3>1. CASE p = hi
      BY <1>1, <2>1, <2>2, <3>1 DEF Parted, Between
    <3>2. CASE p = lo /\ b = hi
      BY <1>1, <1>22, <2>1, <2>2, <3>2 DEF ClosedAbove, Between
    <3>3. QED
      BY <3>1, <3>2
  <2>4. QED
    BY <1>1, <2>3
<1>23. QED
  BY <1>6, <1>18, <1>19, <1>20, <1>21, <1>22 DEF g

(* Where a block is linked, and what is next to it.                        *)
LEMMA Places ==
    ASSUME NEW h, NEW top, Shaped(h, top), NEW b \in DOMAIN h.blk
    PROVE  /\ Len(h.pos) \in Nat /\ DOMAIN h.pos = 1..Len(h.pos)
           /\ PlaceOf(h, b) \in 1..Len(h.pos) /\ h.pos[PlaceOf(h, b)] = b
           /\ \A i \in 1..Len(h.pos) : h.pos[i] \in DOMAIN h.blk
           /\ \A i \in 1..Len(h.pos) :
                i + 1 \in 1..Len(h.pos) =>
                    h.pos[i] < h.pos[i + 1] /\ ~ Between(h, h.pos[i], h.pos[i + 1])
           /\ 1 = PlaceOf(h, b) => \A c \in DOMAIN h.blk : ~ (c < b)
           /\ Len(h.pos) = PlaceOf(h, b) => \A c \in DOMAIN h.blk : ~ (b < c)
<1> DEFINE s == h.pos
           i == PlaceOf(h, b)
<1>1. s \in Seq(BlockAddrs) /\ Increasing(s) /\ ToSet(s) = DOMAIN h.blk /\ BlockAddrs \in SUBSET Int
  BY PoolConstants DEF Shaped, Typed, Ordered
<1>2. Len(s) \in Nat /\ DOMAIN s = 1..Len(s)
  BY <1>1, LenProperties
<1>3. i \in 1..Len(s) /\ s[i] = b
  <2>1. \E j \in DOMAIN s : s[j] = b
    BY <1>1 DEF ToSet
  <2>2. QED
    BY <1>2, <2>1 DEF PlaceOf
<1>4. \A j \in 1..Len(s) : s[j] \in DOMAIN h.blk
  BY <1>1, <1>2 DEF ToSet
<1> HIDE DEF s, i
<1>5. \A j \in 1..Len(s) :
        /\ j + 1 \in 1..Len(s) =>
               s[j] < s[j + 1] /\ \A e \in ToSet(s) : ~ (s[j] < e /\ e < s[j + 1])
        /\ j = 1 => \A e \in ToSet(s) : ~ (e < s[j])
        /\ j = Len(s) => \A e \in ToSet(s) : ~ (s[j] < e)
  BY <1>1, NothingBetween
<1>6. QED
  BY <1>1, <1>2, <1>3, <1>4, <1>5 DEF Between, s, i

(* At most one block is free next to a block that is merged, on each side. *)
LEMMA RunIsShort ==
    ASSUME NEW h, NEW top, NEW b, Ready(h, top, b), NEW d \in {-1, 1}
    PROVE  \/ /\ FreeRun(h, b, d) = {}
              /\ IF d = -1 THEN ClosedBelow(h, b) ELSE ClosedAbove(h, b)
           \/ /\ FreeRun(h, b, d) = {1}
              /\ LET p  == h.pos[PlaceOf(h, b) + d]
                     lo == IF d = -1 THEN p ELSE b
                     hi == IF d = -1 THEN b ELSE p
                 IN  p \in DOMAIN h.blk /\ p # b /\ IsFree(h, p) /\ lo < hi /\ ~ Between(h, lo, hi)
<1> DEFINE s == h.pos
           i == PlaceOf(h, b)
           n == Len(s)
           Links(k) == \A j \in 1..k : i + d * j \in 1..n /\ IsFree(h, s[i + d * j])
<1>1. Shaped(h, top) /\ b \in DOMAIN h.blk /\ Parted(h, {b}) /\ DOMAIN h.blk \subseteq Int
  BY PoolConstants DEF Ready, Shaped, Typed
<1>2. /\ n \in Nat /\ DOMAIN s = 1..n /\ i \in 1..n /\ s[i] = b
      /\ \A j \in 1..n : s[j] \in DOMAIN h.blk
      /\ \A j \in 1..n : j + 1 \in 1..n => s[j] < s[j + 1] /\ ~ Between(h, s[j], s[j + 1])
      /\ 1 = i => \A c \in DOMAIN h.blk : ~ (c < b)
      /\ n = i => \A c \in DOMAIN h.blk : ~ (b < c)
  BY <1>1, Places
<1>3. FreeRun(h, b, d) = {k \in 1..n : Links(k)}
  BY <1>2 DEF FreeRun
<1> HIDE DEF i, s, n
<1>4. d * 1 = d /\ d * 2 = d + d
  OBVIOUS
<1>5. ASSUME i + d \in 1..n
      PROVE  LET p == s[i + d]
             IN  /\ p \in DOMAIN h.blk /\ p # b
                 /\ IF d = -1 THEN p < b /\ ~ Between(h, p, b) ELSE b < p /\ ~ Between(h, b, p)
  <2>1. CASE d = -1
    <3>1. i - 1 \in 1..n /\ (i - 1) + 1 = i /\ i + d = i - 1
      BY <1>2, <1>5, <2>1
    <3>2. s[i - 1] \in DOMAIN h.blk /\ s[i - 1] < b /\ ~ Between(h, s[i - 1], b)
      BY <1>2, <3>1
    <3>3. s[i - 1] # b
      BY <1>1, <3>2
    <3>4. QED
      BY <2>1, <3>1, <3>2, <3>3
  <2>2. CASE d = 1
    BY <1>1, <1>2, <1>5, <2>2
  <2>3. QED
    BY <2>1, <2>2
<1>6. CASE ~ (i + d \in 1..n /\ IsFree(h, s[i + d]))
  <2>1. ASSUME NEW k \in 1..n PROVE ~ Links(k)
    BY <1>2, <1>4, <1>6
  <2>2. FreeRun(h, b, d) = {}
    BY <1>3, <2>1
  <2>3. CASE d = -1
    <3>1. SUFFICES ASSUME NEW c \in DOMAIN h.blk, c < b, IsFree(h, c)
                   PROVE  Between(h, c, b)
      BY <2>2, <2>3 DEF ClosedBelow
    <3>2. i # 1
      BY <1>2, <3>1
    <3>3. i + d \in 1..n
      BY <1>2, <2>3, <3>2
    <3>4. c # s[i + d] /\ s[i + d] < b /\ s[i + d] \in DOMAIN h.blk /\ ~ Between(h, s[i + d], b)
      BY <1>5, <1>6, <2>3, <3>1, <3>3
    <3>5. QED
      BY <1>1, <3>1, <3>4 DEF Between
  <2>4. CASE d = 1
    <3>1. SUFFICES ASSUME NEW c \in DOMAIN h.blk, b < c, IsFree(h, c)
                   PROVE  Between(h, b, c)
      BY <2>2, <2>4 DEF ClosedAbove
    <3>2. i # n
      BY <1>2, <3>1
    <3>3. i + d \in 1..n
      BY <1>2, <2>4, <3>2
    <3>4. c # s[i + d] /\ b < s[i + d] /\ s[i + d] \in DOMAIN h.blk /\ ~ Between(h, b, s[i + d])
      BY <1>5, <1>6, <2>4, <3>1, <3>3
    <3>5. QED
      BY <1>1, <3>1, <3>4 DEF Between
  <2>5. QED
    BY <2>3, <2>4
<1>7. CASE i + d \in 1..n /\ IsFree(h, s[i + d])
  <2> DEFINE p == s[i + d]
             q == s[i + d + d]
  <2>1. p \in DOMAIN h.blk /\ p # b /\ IsFree(h, p)
        /\ IF d = -1 THEN p < b /\ ~ Between(h, p, b) ELSE b < p /\ ~ Between(h, b, p)
    BY <1>5, <1>7
  <2>2. ~ (i + d + d \in 1..n /\ IsFree(h, q))
    <3>1. SUFFICES ASSUME i + d + d \in 1..n, IsFree(h, q) PROVE FALSE
      OBVIOUS
    <3>2. CASE d = -1
      <4>1. (i - 2) \in 1..n /\ (i - 2) + 1 = i + d /\ i + d + d = i - 2 /\ i + d \in 1..n
        BY <1>2, <1>7, <3>1, <3>2
      <4>2. q \in DOMAIN h.blk /\ q < p /\ ~ Between(h, q, p)
        BY <1>2, <4>1
      <4>3. q # b
        BY <1>1, <2>1, <3>2, <4>2
      <4>4. QED
        BY <1>1, <2>1, <3>1, <4>2, <4>3 DEF Parted
    <3>3. CASE d = 1
      <4>1. (i + d) + 1 = i + d + d /\ i + d \in 1..n
        BY <1>2, <1>7, <3>1, <3>3
      <4>2. q \in DOMAIN h.blk /\ p < q /\ ~ Between(h, p, q)
        BY <1>2, <3>1, <4>1
      <4>3. q # b
        BY <1>1, <2>1, <3>3, <4>2
      <4>4. QED
        BY <1>1, <2>1, <3>1, <4>2, <4>3 DEF Parted
    <3>4. QED
      BY <3>2, <3>3
  <2>3. Links(1) /\ 1 \in 1..n
    BY <1>2, <1>4, <1>7
  <2>4. ASSUME NEW k \in 1..n, Links(k) PROVE k = 1
    <3>1. SUFFICES ASSUME 2 \in 1..k PROVE FALSE
      BY <1>2
    <3>2. i + d * 2 \in 1..n /\ IsFree(h, s[i + d * 2])
      BY <2>4, <3>1
    <3>3. i + d * 2 = i + d + d
      BY <1>2, <1>4
    <3>4. QED
      BY <2>2, <3>2, <3>3
  <2>5. FreeRun(h, b, d) = {1}
    BY <1>3, <2>3, <2>4
  <2>6. QED
    BY <2>1, <2>5 DEF s, i
<1>8. QED
  BY <1>6, <1>7

(* A merge goes on along the run of free blocks: the recursive function    *)
(* exists, and of a run of one block it makes one step.                    *)
LEMMA MergedSteps ==
    ASSUME NEW m, NEW d
    PROVE  /\ FreeRun(m.heap, m.at, d) = {} => Merged(m, d) = m
           /\ FreeRun(m.heap, m.at, d) = {1} => Merged(m, d) = MergeStep(m, d)
<1> DEFINE Upto(g, n) ==
               g = [k \in 0..n |-> IF k = 0 THEN m ELSE MergeStep(g[k - 1], d)]
           Rec(f) == f = [n \in Nat |-> IF n = 0 THEN m ELSE MergeStep(f[n - 1], d)]
           T == {n \in Nat : ~ \E g : Upto(g, n)}
<1>1. ASSUME NEW n \in Nat, NEW g, Upto(g, n)
      PROVE  /\ g[0] = m
             /\ \A k \in 1..n : k \in 0..n /\ k - 1 \in 0..n /\ g[k] = MergeStep(g[k - 1], d)
  <2>1. \A k \in 0..n : g[k] = IF k = 0 THEN m ELSE MergeStep(g[k - 1], d)
    BY <1>1
  <2>2. QED
    BY <2>1
<1>2. T = {}
  <2>1. SUFFICES ASSUME T # {} PROVE FALSE
    OBVIOUS
  <2> DEFINE n == Min(T)
  <2>2. n \in Nat /\ (~ \E g : Upto(g, n)) /\ \A k \in Nat : k < n => \E g : Upto(g, k)
    <3>1. T \subseteq Nat
      OBVIOUS
    <3> HIDE DEF T
    <3>2. n \in T /\ \A k \in T : n <= k
      BY <2>1, <3>1, MinIsMember
    <3> HIDE DEF n
    <3>3. \A k \in Nat : k < n => k \notin T
      BY <3>1, <3>2
    <3> HIDE DEF Upto
    <3>4. QED
      BY <3>2, <3>3 DEF T
  <2> HIDE DEF T, n
  <2>3. n # 0
    <3>1. Upto([k \in 0..0 |-> m], 0)
      OBVIOUS
    <3> HIDE DEF Upto
    <3>2. QED
      BY <2>2, <3>1
  <2>4. n - 1 \in Nat /\ n - 1 < n
    BY <2>2, <2>3
  <2>5. PICK g : Upto(g, n - 1)
    BY <2>2, <2>4
  <2>6. g[0] = m /\ \A k \in 1..(n - 1) : g[k] = MergeStep(g[k - 1], d)
    BY <1>1, <2>4, <2>5
  <2> DEFINE e == [k \in 0..n |-> IF k = 0 THEN m ELSE MergeStep(g[k - 1], d)]
  <2>7. ASSUME NEW k \in 0..n, k # 0 PROVE e[k - 1] = g[k - 1]
    <3>1. k - 1 \in 0..n /\ (k - 1 # 0 => k - 1 \in 1..(n - 1))
      BY <2>2, <2>7
    <3>2. e[k - 1] = IF k - 1 = 0 THEN m ELSE MergeStep(g[k - 1 - 1], d)
      BY <3>1
    <3> HIDE DEF e
    <3>3. QED
      BY <2>6, <3>1, <3>2
  <2>8. Upto(e, n)
    <3>1. e = [k \in 0..n |-> IF k = 0 THEN m ELSE MergeStep(g[k - 1], d)]
      OBVIOUS
    <3> HIDE DEF e
    <3>2. [k \in 0..n |-> IF k = 0 THEN m ELSE MergeStep(g[k - 1], d)]
            = [k \in 0..n |-> IF k = 0 THEN m ELSE MergeStep(e[k - 1], d)]
      BY <2>7
    <3>3. QED
      BY <3>1, <3>2
  <2> HIDE DEF Upto, e
  <2>9. QED
    BY <2>2, <2>8
<1> DEFINE G(n) == CHOOSE g : Upto(g, n)
<1> HIDE DEF T
<1>3. ASSUME NEW n \in Nat PROVE Upto(G(n), n)
  <2>1. \E g : Upto(g, n)
    BY <1>2 DEF T
  <2> HIDE DEF Upto
  <2>2. QED
    BY <2>1
<1> HIDE DEF G, Upto
<1>4. ASSUME NEW n \in Nat, NEW k \in 0..n PROVE G(n)[k] = G(k)[k]
  <2> DEFINE U == {j \in 0..n : j <= k /\ G(n)[j] # G(k)[j]}
  <2>1. SUFFICES ASSUME U # {} PROVE FALSE
    OBVIOUS
  <2>2. U \subseteq Nat
    OBVIOUS
  <2> DEFINE j == Min(U)
  <2>3. j \in U /\ \A i \in U : j <= i
    <3> HIDE DEF U
    <3>1. QED
      BY <2>1, <2>2, MinIsMember
  <2> HIDE DEF j
  <2>4. j # 0
    BY <1>1, <1>3, <2>3
  <2>5. j - 1 \in 0..n /\ j - 1 <= k /\ j \in 1..n /\ j \in 1..k /\ j - 1 < j
    BY <2>3, <2>4
  <2>6. G(n)[j - 1] = G(k)[j - 1]
    BY <2>3, <2>5
  <2>7. G(n)[j] = MergeStep(G(n)[j - 1], d) /\ G(k)[j] = MergeStep(G(k)[j - 1], d)
    BY <1>1, <1>3, <2>5
  <2>8. QED
    BY <2>3, <2>6, <2>7
<1> DEFINE f == [n \in Nat |-> G(n)[n]]
<1>5. Rec(f)
  <2>1. ASSUME NEW n \in Nat PROVE f[n] = IF n = 0 THEN m ELSE MergeStep(f[n - 1], d)
    <3>1. CASE n = 0
      BY <1>1, <1>3, <3>1
    <3>2. CASE n # 0
      <4>1. n \in 1..n /\ n - 1 \in 0..n /\ n - 1 \in Nat
        BY <3>2
      <4>2. G(n)[n] = MergeStep(G(n)[n - 1], d)
        BY <1>1, <1>3, <4>1
      <4>3. G(n)[n - 1] = G(n - 1)[n - 1]
        BY <1>4, <4>1
      <4>4. QED
        BY <3>2, <4>1, <4>2, <4>3
    <3>3. QED
      BY <3>1, <3>2
  <2>2. f = [n \in Nat |-> f[n]]
    OBVIOUS
  <2> HIDE DEF f
  <2>3. [n \in Nat |-> f[n]] = [n \in Nat |-> IF n = 0 THEN m ELSE MergeStep(f[n - 1], d)]
    BY <2>1
  <2>4. QED
    BY <2>2, <2>3
<1> DEFINE F == CHOOSE g : Rec(g)
<1> HIDE DEF f
<1>6. F = [n \in Nat |-> IF n = 0 THEN m ELSE MergeStep(F[n - 1], d)]
  <2> HIDE DEF Rec
  <2>1. Rec(F)
    BY <1>5
  <2>2. QED
    BY <2>1 DEF Rec
<1>7. Merged(m, d) = F[Cardinality(FreeRun(m.heap, m.at, d))]
  BY DEF Merged
<1> HIDE DEF F
<1>8. F[0] = m /\ F[1] = MergeStep(m, d)
  <2>1. F[0] = m
    BY <1>6
  <2>2. F[1] = MergeStep(F[1 - 1], d)
    BY <1>6
  <2>3. QED
    BY <2>1, <2>2
<1>9. Cardinality({}) = 0 /\ Cardinality({1}) = 1
  BY FS_EmptySet, FS_Singleton
<1>10. QED
  BY <1>7, <1>8, <1>9

(* Merging on one side leaves no free block there and none on the other    *)
(* side that was not there before.                                         *)
LEMMA MergedKeeps ==
    ASSUME NEW m, NEW top, Ready(m.heap, top, m.at), NEW d \in {-1, 1},
           NEW r, r = Merged(m, d)
    PROVE  /\ Ready(r.heap, top, r.at)
           /\ IsFree(m.heap, m.at) => IsFree(r.heap, r.at)
           /\ SizeOf(r.heap, r.at) >= SizeOf(m.heap, m.at)
           /\ Kept(m.heap, m.at, r.heap, r.at)
           /\ d = -1 \/ ClosedBelow(m.heap, m.at) => ClosedBelow(r.heap, r.at)
           /\ d = 1 \/ ClosedAbove(m.heap, m.at) => ClosedAbove(r.heap, r.at)
<1> DEFINE h == m.heap
           b == m.at
           p == h.pos[PlaceOf(h, b) + d]
           lo == IF d = -1 THEN p ELSE b
           hi == IF d = -1 THEN b ELSE p
<1>1. \/ /\ FreeRun(h, b, d) = {}
         /\ IF d = -1 THEN ClosedBelow(h, b) ELSE ClosedAbove(h, b)
      \/ /\ FreeRun(h, b, d) = {1}
         /\ p \in DOMAIN h.blk /\ p # b /\ IsFree(h, p) /\ lo < hi /\ ~ Between(h, lo, hi)
  BY RunIsShort
<1>2. CASE FreeRun(h, b, d) = {} /\ IF d = -1 THEN ClosedBelow(h, b) ELSE ClosedAbove(h, b)
  <2>1. r = m
    BY <1>2, MergedSteps
  <2>2. SizeOf(h, b) \in Nat
    BY TypedParts DEF Ready, Shaped
  <2>3. QED
    BY <1>2, <2>1, <2>2 DEF Kept
<1>3. CASE FreeRun(h, b, d) = {1} /\ p \in DOMAIN h.blk /\ p # b /\ IsFree(h, p)
           /\ lo < hi /\ ~ Between(h, lo, hi)
  <2>1. r = merge_this_memblk(delete_memblk_from_size_link(h, p), p, b)
    BY <1>3, MergedSteps DEF MergeStep
  <2>2. (p = lo /\ b = hi) \/ (p = hi /\ b = lo)
    OBVIOUS
  <2>3. (d = -1 => p = lo) /\ (d = 1 => p = hi)
    OBVIOUS
  <2> HIDE DEF p, lo, hi
  <2>4. /\ r.at = lo
        /\ Ready(r.heap, top, lo) /\ IsFree(r.heap, lo)
        /\ SizeOf(r.heap, lo) >= SizeOf(h, b)
        /\ Kept(h, b, r.heap, lo)
        /\ p = lo \/ ClosedBelow(h, b) => ClosedBelow(r.heap, lo)
        /\ p = hi \/ ClosedAbove(h, b) => ClosedAbove(r.heap, lo)
    BY <1>3, <2>1, <2>2, MergeKeeps
  <2>5. QED
    BY <2>3, <2>4
<1>4. QED
  BY <1>1, <1>2, <1>3

(* What merge_memblk leaves: b has grown over the free blocks around it,   *)
(* and no free block is next to it any more.                               *)
LEMMA MergeLeaves ==
    ASSUME NEW h, NEW top, NEW b, Ready(h, top, b), NEW r, r = merge_memblk(h, b)
    PROVE  /\ Ready(r.heap, top, r.at)
           /\ IsFree(h, b) => IsFree(r.heap, r.at)
           /\ SizeOf(r.heap, r.at) >= SizeOf(h, b)
           /\ Kept(h, b, r.heap, r.at)
           /\ ClosedBelow(r.heap, r.at) /\ ClosedAbove(r.heap, r.at)
<1> DEFINE m == [heap |-> h, at |-> b]
           l == Merged(m, -1)
<1>1. m.heap = h /\ m.at = b /\ r = Merged(l, 1)
  BY DEF merge_memblk
<1> HIDE DEF m
<1>2. /\ Ready(l.heap, top, l.at)
      /\ IsFree(h, b) => IsFree(l.heap, l.at)
      /\ SizeOf(l.heap, l.at) >= SizeOf(h, b)
      /\ Kept(h, b, l.heap, l.at)
      /\ ClosedBelow(l.heap, l.at)
  BY <1>1, MergedKeeps
<1> HIDE DEF l
<1>3. /\ Ready(r.heap, top, r.at)
      /\ IsFree(l.heap, l.at) => IsFree(r.heap, r.at)
      /\ SizeOf(r.heap, r.at) >= SizeOf(l.heap, l.at)
      /\ Kept(l.heap, l.at, r.heap, r.at)
      /\ ClosedBelow(r.heap, r.at)
      /\ ClosedAbove(r.heap, r.at)
  BY <1>1, <1>2, MergedKeeps
<1>4. Kept(h, b, r.heap, r.at)
  BY <1>2, <1>3 DEF Kept
<1>5. SizeOf(r.heap, r.at) >= SizeOf(h, b)
  <2>1. SizeOf(h, b) \in Nat /\ SizeOf(l.heap, l.at) \in Nat /\ SizeOf(r.heap, r.at) \in Nat
    BY <1>2, <1>3, TypedParts DEF Ready, Shaped
  <2>2. QED
    BY <1>2, <1>3, <2>1
<1>6. QED
  BY <1>2, <1>3, <1>4, <1>5

(* Setting the usage of a block.                                           *)
LEMMA UsageSet ==
    ASSUME NEW h, NEW top, Shaped(h, top), NEW b \in DOMAIN h.blk,
           NEW use \in {"MBT_USED", "MBT_FREE"},
           NEW g, g = WithUsage(h, b, use)
    PROVE  /\ Shaped(g, top)
           /\ g.pos = h.pos /\ g.mfl = h.mfl /\ DOMAIN g.blk = DOMAIN h.blk
           /\ IsFree(g, b) <=> use = "MBT_FREE"
           /\ \A c \in DOMAIN h.blk :
                SizeOf(g, c) = SizeOf(h, c) /\ ClassOf(g, c) = ClassOf(h, c)
           /\ \A c \in DOMAIN h.blk : c # b =>
                g.blk[c] = h.blk[c] /\ (IsFree(g, c) <=> IsFree(h, c))
<1> DEFINE e == [byUsage |-> use, dwSize |-> SizeOf(h, b)]
           B == [h.blk EXCEPT ![b] = e]
<1>1. Typed(h) /\ h.blk[b] \in Header
      /\ h.blk[b] = [byUsage |-> h.blk[b].byUsage, dwSize |-> SizeOf(h, b)]
  BY TypedParts DEF Shaped, Typed
<1>2. e \in Header /\ e.dwSize = SizeOf(h, b) /\ e.byUsage = use
  BY <1>1 DEF Header, SizeOf
<1>3. [h.blk[b] EXCEPT !.byUsage = use] = e
  BY <1>1
<1> HIDE DEF e
<1>4. g = [pos |-> h.pos, blk |-> B, mfl |-> h.mfl]
  <2>1. g = [h EXCEPT !.blk = [h.blk EXCEPT ![b] = [h.blk[b] EXCEPT !.byUsage = use]]]
    BY <1>1 DEF Typed, WithUsage
  <2>2. g = [h EXCEPT !.blk = B]
    BY <1>3, <2>1
  <2> HIDE DEF B
  <2>3. QED
    BY <1>1, <2>2 DEF Typed
<1>5. /\ B \in [DOMAIN h.blk -> Header] /\ DOMAIN B = DOMAIN h.blk
      /\ B[b] = e /\ \A c \in DOMAIN h.blk : c # b => B[c] = h.blk[c]
  BY <1>1, <1>2 DEF Typed
<1> HIDE DEF B
<1>6. g.pos = h.pos /\ g.mfl = h.mfl /\ g.blk = B
  BY <1>4
<1>7. \A c \in DOMAIN h.blk : SizeOf(g, c) = SizeOf(h, c) /\ ClassOf(g, c) = ClassOf(h, c)
  BY <1>2, <1>5, <1>6 DEF SizeOf, ClassOf
<1>8. \A c \in DOMAIN h.blk : c # b => g.blk[c] = h.blk[c] /\ (IsFree(g, c) <=> IsFree(h, c))
  BY <1>5, <1>6 DEF IsFree
<1>9. IsFree(g, b) <=> use = "MBT_FREE"
  BY <1>2, <1>5, <1>6 DEF IsFree
<1>10. Shaped(g, top)
  <2>1. Typed(g)
    BY <1>1, <1>4, <1>5, <1>6 DEF Typed
  <2>2. Ordered(g) /\ Apart(g, top)
    BY <1>5, <1>6, <1>7 DEF Shaped, Ordered, Apart
  <2>3. QED
    BY <2>1, <2>2 DEF Shaped
<1>11. QED
  BY <1>5, <1>6, <1>7, <1>8, <1>9, <1>10

(* A block is given back: merge_memblk, then it is free and indexed.       *)
LEMMA FreeKeeps ==
    ASSUME NEW h, NEW top, Good(h, top), NEW b \in UsedIn(h),
           NEW m, m = merge_memblk(h, b),
           NEW f, f = WithUsage(m.heap, m.at, "MBT_FREE"),
           NEW g, g = append_memblk_to_size_link(f, m.at)
    PROVE  /\ Good(g, top)
           /\ UsedIn(g) = UsedIn(h) \ {b}
           /\ \A c \in UsedIn(g) : g.blk[c] = h.blk[c]
<1>1. Ready(h, top, b)
  <2>1. Indexed(h, {b})
    BY DEF Good, Indexed, UsedIn
  <2>2. Parted(h, {b})
    BY DEF Good, Parted
  <2>3. QED
    BY <2>1, <2>2 DEF Good, Ready, UsedIn
<1>2. /\ Ready(m.heap, top, m.at)
      /\ Kept(h, b, m.heap, m.at)
      /\ ClosedBelow(m.heap, m.at) /\ ClosedAbove(m.heap, m.at)
  BY <1>1, MergeLeaves
<1> DEFINE k == m.heap
           a == m.at
<1>3. Shaped(k, top) /\ a \in DOMAIN k.blk /\ Indexed(k, {a}) /\ Parted(k, {a})
  BY <1>2 DEF Ready
<1> HIDE DEF k, a
<1>4. /\ Shaped(f, top)
      /\ f.pos = k.pos /\ f.mfl = k.mfl /\ DOMAIN f.blk = DOMAIN k.blk
      /\ IsFree(f, a)
      /\ \A c \in DOMAIN k.blk : SizeOf(f, c) = SizeOf(k, c) /\ ClassOf(f, c) = ClassOf(k, c)
      /\ \A c \in DOMAIN k.blk : c # a =>
           f.blk[c] = k.blk[c] /\ (IsFree(f, c) <=> IsFree(k, c))
  <2>1. f = WithUsage(k, a, "MBT_FREE")
    BY DEF k, a
  <2>2. QED
    BY <1>3, <2>1, UsageSet
<1>5. Indexed(f, {a}) /\ Parted(f, {})
  <2>1. Indexed(f, {a})
    BY <1>3, <1>4 DEF Indexed
  <2>2. ASSUME NEW c \in DOMAIN k.blk, NEW d \in DOMAIN k.blk, c < d, IsFree(f, c), IsFree(f, d)
        PROVE  Between(k, c, d)
    <3>1. CASE c # a /\ d # a
      BY <1>3, <1>4, <2>2, <3>1 DEF Parted
    <3>2. CASE c = a /\ d # a
      BY <1>2, <1>4, <2>2, <3>2 DEF ClosedAbove, k, a
    <3>3. CASE d = a /\ c # a
      BY <1>2, <1>4, <2>2, <3>3 DEF ClosedBelow, k, a
    <3>4. c # d
      BY <1>3, <2>2, PoolConstants DEF Shaped, Typed
    <3>5. QED
      BY <3>1, <3>2, <3>3, <3>4
  <2>3. QED
    BY <1>4, <2>1, <2>2 DEF Parted, Between
<1>6. /\ g.pos = f.pos /\ g.blk = f.blk
      /\ Shaped(g, top) /\ Indexed(g, {a} \ {a})
  <2>1. g = append_memblk_to_size_link(f, a)
    BY DEF a
  <2>2. a \in DOMAIN f.blk /\ a \in {a}
    BY <1>3, <1>4
  <2>3. QED
    BY <1>4, <1>5, <2>1, <2>2, AppendIndexes
<1>7. Good(g, top)
  <2>1. {a} \ {a} = {}
    OBVIOUS
  <2>2. Parted(g, {})
    BY <1>5, <1>6 DEF Parted, Between, IsFree
  <2>3. QED
    BY <1>6, <2>1, <2>2 DEF Good
<1>8. UsedIn(g) = UsedIn(k) \ {a}
  BY <1>3, <1>4, <1>6 DEF UsedIn, IsFree
<1>9. \A c \in UsedIn(k) \ {a} : g.blk[c] = k.blk[c]
  BY <1>4, <1>6 DEF UsedIn
<1>10. UsedIn(k) \ {a} = UsedIn(h) \ {b} /\ \A c \in UsedIn(h) \ {b} : k.blk[c] = h.blk[c]
  BY <1>2 DEF Kept, k, a
<1>11. QED
  BY <1>7, <1>8, <1>9, <1>10

(* The memory behind the pool becomes a block, merged with a free one      *)
(* before it (enlarge_memory_pool).                                        *)
LEMMA EnlargedKeeps ==
    ASSUME NEW h, Good(h, dwSize), NEW n \in Nat, n > 0, NEW g \in Nat, g * Page >= n + H,
           dwSize + g * Page <= MaxSize,
           NEW e, e = Enlarged(h, g)
    PROVE  /\ Good(e, dwSize + g * Page)
           /\ UsedIn(e) = UsedIn(h)
           /\ \A c \in UsedIn(h) : e.blk[c] = h.blk[c]
           /\ \E b \in DOMAIN e.blk : IsFree(e, b) /\ SizeOf(e, b) >= n
<1> DEFINE z == dwSize
           top == dwSize + g * Page
           D == DOMAIN h.blk
           last == [byUsage |-> "MBT_FREE", dwSize |-> g * Page - H]
           B == [b \in D \cup {z} |-> IF b = z THEN last ELSE h.blk[b]]
           P == Append(h.pos, z)
           k == [pos |-> P, blk |-> B, mfl |-> h.mfl]
           m == merge_memblk(k, z)
<1>1. /\ Typed(h) /\ Ordered(h) /\ Apart(h, z) /\ Indexed(h, {}) /\ Parted(h, {})
      /\ z \in Nat /\ z <= MaxSize /\ D \subseteq BlockAddrs /\ D \subseteq Nat
  BY PoolConstants DEF Good, Shaped, Typed
<1>2. e = append_memblk_to_size_link(m.heap, m.at)
  BY DEF Enlarged
<1> DEFINE gp == g * Page
<1>3. gp \in Nat
  BY PoolConstants
<1>4. gp >= n + 1 /\ z + gp <= MaxSize /\ MaxSize \in Nat
  BY PoolConstants DEF H
<1>5. top = z + gp /\ last = [byUsage |-> "MBT_FREE", dwSize |-> gp - 1]
  BY DEF H
<1> HIDE DEF gp, top, z
<1>6. z \in BlockAddrs /\ top \in Nat /\ top <= MaxSize /\ z <= top
  BY <1>1, <1>3, <1>4, <1>5 DEF BlockAddrs
<1>7. last \in Header /\ last.byUsage = "MBT_FREE" /\ last.dwSize = gp - 1
  BY <1>3, <1>4, <1>5, <1>1 DEF Header
<1> HIDE DEF last
<1>8. \A c \in D : c < z /\ c + 1 + SizeOf(h, c) <= z /\ SizeOf(h, c) \in Nat
  <2>1. \A c \in D : c + 1 + SizeOf(h, c) <= z /\ SizeOf(h, c) \in Nat
    BY <1>1, TypedParts DEF Apart, H
  <2>2. QED
    BY <1>1, <2>1
<1>9. z \notin D
  BY <1>1, <1>8
<1>10. P \in Seq(BlockAddrs) /\ Increasing(P) /\ ToSet(P) = D \cup {z}
  <2> DEFINE s == h.pos
  <2>1. /\ BlockAddrs \in SUBSET Int /\ s \in Seq(BlockAddrs) /\ Increasing(s)
        /\ z \in BlockAddrs /\ ToSet(s) = D
    BY <1>1, <1>6, PoolConstants DEF Typed, Ordered
  <2>2. \A c \in ToSet(s) : c < z
    BY <1>8, <2>1
  <2> HIDE DEF s
  <2>3. /\ Append(s, z) \in Seq(BlockAddrs) /\ Increasing(Append(s, z))
        /\ ToSet(Append(s, z)) = ToSet(s) \cup {z}
    BY <2>1, <2>2, AppendIncreasing
  <2>4. QED
    BY <2>1, <2>3 DEF s
<1>11. /\ B \in [D \cup {z} -> Header] /\ DOMAIN B = D \cup {z}
       /\ B[z] = last /\ \A c \in D : B[c] = h.blk[c]
  BY <1>1, <1>7, <1>9 DEF Typed
<1> HIDE DEF B, P
<1>12. k.pos = P /\ k.blk = B /\ k.mfl = h.mfl
  OBVIOUS
<1>13. Typed(k)
  BY <1>1, <1>6, <1>10, <1>11 DEF Typed
<1> HIDE DEF k
<1>14. /\ \A c \in D : SizeOf(k, c) = SizeOf(h, c) /\ ClassOf(k, c) = ClassOf(h, c)
                       /\ (IsFree(k, c) <=> IsFree(h, c))
       /\ SizeOf(k, z) = gp - 1 /\ IsFree(k, z)
  BY <1>7, <1>11, <1>12 DEF SizeOf, ClassOf, IsFree
<1>15. Apart(k, top)
  <2>1. ASSUME NEW c \in D \cup {z}
        PROVE  /\ c + 1 + SizeOf(k, c) <= top
               /\ \A d \in D \cup {z} : c < d => c + 1 + SizeOf(k, c) <= d
    <3>1. CASE c = z
      BY <1>1, <1>3, <1>5, <1>8, <1>14, <3>1
    <3>2. CASE c \in D
      <4>1. c + 1 + SizeOf(k, c) <= z /\ SizeOf(k, c) \in Nat /\ c \in Nat
        BY <1>1, <1>8, <1>14, <3>2
      <4>2. \A d \in D : c < d => c + 1 + SizeOf(k, c) <= d
        BY <1>1, <1>14, <3>2 DEF Apart, H
      <4>3. QED
        BY <1>1, <1>6, <4>1, <4>2
    <3>3. QED
      BY <3>1, <3>2
  <2>2. QED
    BY <1>11, <1>12, <2>1 DEF Apart, H
<1>16. Indexed(k, {z})
  <2>1. \A i \in Classes : {c \in D \ {} : IsFree(h, c) /\ ClassOf(h, c) = i}
          = {c \in (D \cup {z}) \ {z} : IsFree(k, c) /\ ClassOf(k, c) = i}
    BY <1>9, <1>14
  <2>2. QED
    BY <1>1, <1>11, <1>12, <2>1 DEF Indexed
<1>17. Parted(k, {z})
  BY <1>1, <1>9, <1>11, <1>12, <1>14 DEF Parted, Between
<1>18. Ready(k, top, z)
  BY <1>6, <1>10, <1>11, <1>12, <1>13, <1>15, <1>16, <1>17 DEF Ready, Shaped, Ordered
<1>19. /\ Ready(m.heap, top, m.at)
       /\ IsFree(m.heap, m.at)
       /\ SizeOf(m.heap, m.at) >= gp - 1
       /\ Kept(k, z, m.heap, m.at)
       /\ ClosedBelow(m.heap, m.at) /\ ClosedAbove(m.heap, m.at)
  BY <1>14, <1>18, MergeLeaves
<1> HIDE DEF m
<1> DEFINE q == m.heap
           a == m.at
<1>20. Shaped(q, top) /\ a \in DOMAIN q.blk /\ Indexed(q, {a}) /\ Parted(q, {a}) /\ IsFree(q, a)
       /\ ClosedBelow(q, a) /\ ClosedAbove(q, a)
  BY <1>19 DEF Ready
<1> HIDE DEF q, a
<1>21. e.pos = q.pos /\ e.blk = q.blk /\ Shaped(e, top) /\ Indexed(e, {a} \ {a})
  <2>1. e = append_memblk_to_size_link(q, a)
    BY <1>2 DEF q, a
  <2>2. a \in {a}
    OBVIOUS
  <2>3. QED
    BY <1>20, <2>1, <2>2, AppendIndexes
<1>22. Good(e, top)
  <2>1. {a} \ {a} = {}
    OBVIOUS
  <2>2. Parted(q, {})
    BY <1>20 DEF Parted, ClosedBelow, ClosedAbove
  <2>3. Parted(e, {})
    BY <1>21, <2>2 DEF Parted, Between, IsFree
  <2>4. QED
    BY <1>21, <2>1, <2>3 DEF Good
<1>23. UsedIn(e) = UsedIn(h) /\ \A c \in UsedIn(h) : e.blk[c] = h.blk[c]
  <2>1. UsedIn(q) \ {a} = UsedIn(k) \ {z} /\ \A c \in UsedIn(k) \ {z} : q.blk[c] = k.blk[c]
    BY <1>19 DEF Kept, q, a
  <2>2. UsedIn(k) \ {z} = UsedIn(h) /\ \A c \in UsedIn(h) : k.blk[c] = h.blk[c]
    BY <1>9, <1>11, <1>12, <1>14 DEF UsedIn
  <2>3. UsedIn(q) \ {a} = UsedIn(q) /\ UsedIn(e) = UsedIn(q)
    BY <1>20, <1>21 DEF UsedIn, IsFree
  <2>4. QED
    BY <1>21, <2>1, <2>2, <2>3
<1>24. a \in DOMAIN e.blk /\ IsFree(e, a) /\ SizeOf(e, a) >= n
  <2>1. SizeOf(q, a) \in Nat /\ SizeOf(q, a) >= gp - 1
    BY <1>19, <1>20, TypedParts DEF Shaped, q, a
  <2>2. a \in DOMAIN e.blk /\ IsFree(e, a) /\ SizeOf(e, a) = SizeOf(q, a)
    BY <1>20, <1>21 DEF IsFree, SizeOf
  <2>3. QED
    BY <1>3, <1>4, <2>1, <2>2
<1>25. QED
  BY <1>22, <1>23, <1>24 DEF top

(* A block that is in no list keeps n, and the rest of it becomes a free   *)
(* block (split_memblk).                                                   *)
LEMMA SplitKeeps ==
    ASSUME NEW h, NEW top, NEW b, Ready(h, top, b), IsFree(h, b), Parted(h, {}),
           NEW n \in Nat, SizeOf(h, b) >= n + H + MinSize,
           NEW g, g = split_memblk(h, b, n)
    PROVE  /\ Shaped(g, top) /\ b \in DOMAIN g.blk /\ Indexed(g, {b}) /\ Parted(g, {b})
           /\ SizeOf(g, b) = n
           /\ UsedIn(g) = UsedIn(h) /\ \A c \in UsedIn(h) : g.blk[c] = h.blk[c]
<1> DEFINE D == DOMAIN h.blk
           z == b + H + n
           rest == [byUsage |-> "MBT_FREE", dwSize |-> Rest(h, b, n)]
           low == [h.blk[b] EXCEPT !.dwSize = n]
           B == [c \in D \cup {z} |-> CASE c = z -> rest
                                        [] c = b -> low
                                        [] OTHER -> h.blk[c]]
           P == InsertAt(h.pos, PlaceOf(h, b) + 1, z)
           k == [pos |-> P, blk |-> B, mfl |-> h.mfl]
           sz == SizeOf(h, b)
<1>0. b \in D
  BY DEF Ready
<1> USE <1>0
<1>1. /\ Typed(h) /\ Ordered(h) /\ Apart(h, top) /\ top \in Nat /\ top <= MaxSize
      /\ D \subseteq BlockAddrs /\ D \subseteq Nat /\ b \in Nat
      /\ MinSize \in Nat /\ MinSize > 0 /\ Shaped(h, top) /\ Indexed(h, {b})
  BY PoolConstants DEF Ready, Shaped, Typed
<1>2. /\ \A c \in D : SizeOf(h, c) \in Nat /\ c + 1 + SizeOf(h, c) <= top
      /\ \A c, d \in D : c < d => c + 1 + SizeOf(h, c) <= d
  BY <1>1, TypedParts DEF Apart, H
<1>3. sz \in Nat /\ sz >= n + 1 + MinSize /\ sz <= MaxSize /\ MaxSize \in Nat
  BY <1>1, TypedParts, PoolConstants DEF H
<1>4. z = b + 1 + n /\ rest = [byUsage |-> "MBT_FREE", dwSize |-> sz - n - 1]
  BY DEF Rest, SizeOf, H
<1>5. g = append_memblk_to_size_link(k, z)
  BY DEF split_memblk
<1> HIDE DEF sz, z
<1>6. z \in Nat /\ z \in BlockAddrs /\ b < z /\ z + 1 + (sz - n - 1) = b + 1 + sz
      /\ sz - n - 1 \in Nat /\ z + 1 <= b + 1 + sz /\ sz - n - 1 <= MaxSize
  <2>1. z \in Nat /\ b < z /\ z + 1 + (sz - n - 1) = b + 1 + sz /\ sz - n - 1 \in Nat
        /\ z + 1 <= b + 1 + sz /\ sz - n - 1 <= MaxSize
    BY <1>1, <1>3, <1>4
  <2>2. b + 1 + sz <= top
    BY <1>2 DEF sz
  <2>3. QED
    BY <1>1, <1>3, <2>1, <2>2 DEF BlockAddrs
<1>7. rest \in Header /\ rest.byUsage = "MBT_FREE" /\ rest.dwSize = sz - n - 1
  BY <1>4, <1>6, <1>3 DEF Header
<1>8. low = [byUsage |-> "MBT_FREE", dwSize |-> n] /\ n \in 0..MaxSize
  <2>1. h.blk[b] = [byUsage |-> h.blk[b].byUsage, dwSize |-> SizeOf(h, b)]
    BY <1>1, TypedParts
  <2>2. QED
    BY <1>1, <1>3, <2>1 DEF IsFree
<1>9. low \in Header /\ low.byUsage = "MBT_FREE" /\ low.dwSize = n
  BY <1>8 DEF Header
<1> HIDE DEF rest, low
<1>10. \A c \in D : b < c => z < c
  <2>1. ASSUME NEW c \in D, b < c PROVE z < c
    <3>1. b + 1 + sz <= c /\ c \in Nat
      BY <1>1, <1>2, <2>1 DEF sz
    <3>2. QED
      BY <1>1, <1>3, <1>6, <3>1
  <2>2. QED
    BY <2>1
<1>11. z \notin D
  BY <1>1, <1>6, <1>10
<1>12. P \in Seq(BlockAddrs) /\ Increasing(P) /\ ToSet(P) = D \cup {z}
  <2> DEFINE i == PlaceOf(h, b)
  <2>1. i \in 1..Len(h.pos) /\ h.pos[i] = b
        /\ (i + 1 \in 1..Len(h.pos) => h.pos[i] < h.pos[i + 1] /\ h.pos[i + 1] \in D)
    BY <1>1, Places
  <2> HIDE DEF i
  <2>2. h.pos[i] < z /\ (i + 1 \in 1..Len(h.pos) => z < h.pos[i + 1])
    BY <1>6, <1>10, <2>1
  <2>3. h.pos \in Seq(BlockAddrs) /\ Increasing(h.pos) /\ ToSet(h.pos) = D
    BY <1>1 DEF Typed, Ordered
  <2>4. P = InsertAt(h.pos, i + 1, z)
    BY DEF i
  <2> HIDE DEF P
  <2> DEFINE s == h.pos
  <2>5. /\ BlockAddrs \in SUBSET Int /\ s \in Seq(BlockAddrs) /\ Increasing(s)
        /\ z \in BlockAddrs /\ i \in 1..Len(s) /\ s[i] < z
        /\ i + 1 \in 1..Len(s) => z < s[i + 1]
    BY <1>6, <2>1, <2>2, <2>3, PoolConstants
  <2> HIDE DEF s
  <2>6. /\ InsertAt(s, i + 1, z) \in Seq(BlockAddrs) /\ Increasing(InsertAt(s, i + 1, z))
        /\ ToSet(InsertAt(s, i + 1, z)) = ToSet(s) \cup {z}
    BY <2>5, InsertIncreasing
  <2>7. QED
    BY <2>3, <2>4, <2>6 DEF s
<1>13. /\ B \in [D \cup {z} -> Header] /\ DOMAIN B = D \cup {z}
       /\ B[z] = rest /\ B[b] = low /\ \A c \in D : c # b => B[c] = h.blk[c]
  <2>1. /\ DOMAIN B = D \cup {z}
        /\ B[z] = rest /\ B[b] = low /\ \A c \in D : c # b => B[c] = h.blk[c]
    BY <1>11
  <2>2. \A c \in D : h.blk[c] \in Header
    BY <1>1 DEF Typed
  <2>3. B \in [D \cup {z} -> Header]
    BY <1>7, <1>9, <2>2
  <2>4. QED
    BY <2>1, <2>3
<1> HIDE DEF B, P
<1>14. k.pos = P /\ k.blk = B /\ k.mfl = h.mfl
  OBVIOUS
<1>15. Typed(k)
  BY <1>1, <1>6, <1>12, <1>13 DEF Typed
<1> HIDE DEF k
<1>16. /\ \A c \in D : IsFree(k, c) <=> IsFree(h, c)
       /\ IsFree(k, z)
       /\ \A c \in D : c # b => SizeOf(k, c) = SizeOf(h, c) /\ ClassOf(k, c) = ClassOf(h, c)
       /\ SizeOf(k, z) = sz - n - 1 /\ SizeOf(k, b) = n
  BY <1>7, <1>9, <1>13, <1>14 DEF SizeOf, ClassOf, IsFree
<1>17. Apart(k, top)
  <2>0. \A c \in D : c + 1 + SizeOf(h, c) <= top /\ c \in Nat /\ SizeOf(h, c) \in Nat
    BY <1>1, <1>2
  <2>1. b + 1 + sz <= top /\ \A c \in D : b < c => b + 1 + sz <= c
    BY <1>2 DEF sz
  <2>2. ASSUME NEW c \in D \cup {z}
        PROVE  /\ c + 1 + SizeOf(k, c) <= top
               /\ \A d \in D \cup {z} : c < d => c + 1 + SizeOf(k, c) <= d
    <3>1. CASE c = z
      <4>1. \A d \in D : z < d => b < d
        BY <1>1, <1>6, <2>0
      <4>2. QED
        BY <1>6, <1>16, <2>1, <3>1, <4>1
    <3>2. CASE c = b
      <4>1. b + 1 + n = z /\ z <= b + 1 + sz
        BY <1>1, <1>3, <1>4, <1>6
      <4>2. \A d \in D : b < d => z <= d
        BY <1>6, <1>10, <2>0
      <4>3. QED
        BY <1>1, <1>6, <1>16, <2>1, <3>2, <4>1, <4>2
    <3>3. CASE c \in D /\ c # b
      <4>1. c + 1 + SizeOf(k, c) <= top /\ \A d \in D : c < d => c + 1 + SizeOf(k, c) <= d
        BY <1>2, <1>16, <3>3
      <4>2. c < z => c < b
        BY <1>1, <1>6, <1>10, <2>0, <3>3
      <4>3. c < z => c + 1 + SizeOf(k, c) <= b
        BY <4>1, <4>2
      <4>4. c + 1 + SizeOf(k, c) \in Nat
        BY <1>16, <2>0, <3>3
      <4>5. c < z => c + 1 + SizeOf(k, c) <= z
        BY <1>1, <1>6, <4>3, <4>4
      <4>6. QED
        BY <4>1, <4>5
    <3>4. QED
      BY <3>1, <3>2, <3>3
  <2>3. QED
    BY <1>13, <1>14, <2>2 DEF Apart, H
<1>18. Indexed(k, {b, z})
  <2>1. \A i \in Classes : {c \in D \ {b} : IsFree(h, c) /\ ClassOf(h, c) = i}
          = {c \in (D \cup {z}) \ {b, z} : IsFree(k, c) /\ ClassOf(k, c) = i}
    BY <1>11, <1>16
  <2>2. QED
    BY <1>1, <1>13, <1>14, <2>1 DEF Indexed
<1>19. Shaped(k, top)
  BY <1>1, <1>12, <1>13, <1>14, <1>15, <1>17 DEF Shaped, Ordered
<1>20. g.pos = k.pos /\ g.blk = k.blk /\ Shaped(g, top) /\ Indexed(g, {b, z} \ {z})
  <2>1. z \in DOMAIN k.blk /\ z \in {b, z}
    BY <1>13, <1>14
  <2>2. QED
    BY <1>5, <1>16, <1>18, <1>19, <2>1, AppendIndexes
<1>21. Parted(g, {b})
  <2>1. ASSUME NEW c \in (D \cup {z}) \ {b}, NEW d \in (D \cup {z}) \ {b}, c < d,
               IsFree(k, c), IsFree(k, d)
        PROVE  \E e \in D \cup {z} : c < e /\ e < d
    <3>1. CASE c \in D /\ d \in D
      <4>1. IsFree(h, c) /\ IsFree(h, d)
        BY <1>16, <2>1, <3>1
      <4>2. QED
        BY <2>1, <3>1, <4>1 DEF Parted, Between
    <3>2. CASE c = z /\ d \in D
      <4>0. d \in Nat /\ z < d
        BY <1>1, <2>1, <3>2
      <4>1. IsFree(h, d) /\ b < d
        BY <1>1, <1>6, <1>16, <2>1, <3>2, <4>0
      <4>2. PICK e \in D : b < e /\ e < d
        BY <3>2, <4>1 DEF Parted, Between
      <4>3. QED
        BY <1>10, <3>2, <4>2
    <3>3. CASE c \in D /\ d = z
      BY <1>1, <1>6, <1>10, <2>1, <3>3
    <3>4. c # d
      BY <1>1, <1>6, <2>1
    <3>5. QED
      BY <3>1, <3>2, <3>3, <3>4
  <2>2. QED
    BY <1>13, <1>14, <1>20, <2>1 DEF Parted, Between, IsFree
<1>22. UsedIn(g) = UsedIn(h) /\ \A c \in UsedIn(h) : g.blk[c] = h.blk[c]
  <2>1. UsedIn(k) = UsedIn(h) /\ \A c \in UsedIn(h) : k.blk[c] = h.blk[c]
    BY <1>11, <1>13, <1>14, <1>16 DEF UsedIn
  <2>2. UsedIn(g) = UsedIn(k)
    BY <1>20 DEF UsedIn, IsFree
  <2>3. QED
    BY <1>20, <2>1, <2>2
<1>23. b \in DOMAIN g.blk /\ SizeOf(g, b) = n
  BY <1>13, <1>14, <1>16, <1>20 DEF SizeOf
<1>24. Indexed(g, {b})
  <2>1. {b, z} \ {z} = {b}
    BY <1>11
  <2>2. QED
    BY <1>20, <2>1
<1>25. QED
  BY <1>20, <1>21, <1>22, <1>23, <1>24

(* The lists are searched for a block that is large enough: when there is  *)
(* one, one is found.                                                      *)
LEMMA FitFound ==
    ASSUME NEW h, NEW top, Good(h, top), NEW n \in Nat
    PROVE  /\ Fits(h, n) # {} =>
                /\ FirstFit(h, n) \in DOMAIN h.blk
                /\ IsFree(h, FirstFit(h, n))
                /\ SizeOf(h, FirstFit(h, n)) >= n
           /\ (\E b \in DOMAIN h.blk : IsFree(h, b) /\ SizeOf(h, b) >= n) => Fits(h, n) # {}
<1>1. Typed(h) /\ Indexed(h, {})
  BY DEF Good, Shaped
<1>2. \A i \in Classes :
        /\ DOMAIN h.mfl[i] = 1..Len(h.mfl[i]) /\ Len(h.mfl[i]) \in Nat
        /\ \A j \in DOMAIN h.mfl[i] : h.mfl[i][j] \in ToSet(h.mfl[i])
        /\ \A c \in ToSet(h.mfl[i]) : \E j \in DOMAIN h.mfl[i] : h.mfl[i][j] = c
  <2>1. ASSUME NEW i \in Classes
        PROVE  DOMAIN h.mfl[i] = 1..Len(h.mfl[i]) /\ Len(h.mfl[i]) \in Nat
    <3>1. h.mfl[i] \in Seq(BlockAddrs)
      BY <1>1 DEF Typed
    <3>2. QED
      BY <3>1, LenProperties
  <2>2. QED
    BY <2>1 DEF ToSet
<1>3. Classes \subseteq Nat
  BY PoolAssumption, LenProperties DEF Classes
<1>4. ASSUME Fits(h, n) # {}
      PROVE  /\ FirstFit(h, n) \in DOMAIN h.blk
             /\ IsFree(h, FirstFit(h, n))
             /\ SizeOf(h, FirstFit(h, n)) >= n
  <2> DEFINE i == Min(Fits(h, n))
             T == FitsIn(h, i, n)
             j == Min(T)
  <2>1. Fits(h, n) \subseteq Nat
    BY <1>3 DEF Fits
  <2>2. i \in Fits(h, n)
    BY <1>4, <2>1, MinIsMember
  <2>3. i \in Classes /\ T # {}
    BY <2>2 DEF Fits
  <2>4. T \subseteq Nat
    BY <1>2, <2>3 DEF FitsIn
  <2> HIDE DEF T
  <2>5. j \in T
    BY <2>3, <2>4, MinIsMember
  <2>6. FirstFit(h, n) = h.mfl[i][j]
    BY DEF FirstFit, T
  <2> HIDE DEF i, j
  <2>7. j \in DOMAIN h.mfl[i] /\ h.blk[h.mfl[i][j]].dwSize >= n
    BY <2>5 DEF T, FitsIn
  <2>8. h.mfl[i][j] \in ToSet(h.mfl[i])
    BY <1>2, <2>3, <2>7
  <2>9. h.mfl[i][j] \in DOMAIN h.blk /\ IsFree(h, h.mfl[i][j])
    BY <1>1, <2>3, <2>8 DEF Indexed
  <2>10. QED
    BY <2>6, <2>7, <2>9 DEF SizeOf
<1>5. ASSUME NEW b \in DOMAIN h.blk, IsFree(h, b), SizeOf(h, b) >= n
      PROVE  Fits(h, n) # {}
  <2> DEFINE i == ClassOf(h, b)
  <2>1. i \in Classes /\ SizeOf(h, b) \in Nat
    BY <1>1, TypedParts
  <2>2. get_mfl_index(n) <= i
    BY <1>5, <2>1, ClassesOfSizes DEF ClassOf
  <2>3. get_mfl_index(n) \in Nat /\ i \in Nat
    BY <1>3, <2>1, ClassesOfSizes
  <2>4. b \in ToSet(h.mfl[i])
    BY <1>1, <1>5, <2>1 DEF Indexed
  <2>5. PICK j \in DOMAIN h.mfl[i] : h.mfl[i][j] = b
    BY <1>2, <2>1, <2>4
  <2>6. j \in FitsIn(h, i, n)
    BY <1>5, <2>5 DEF FitsIn, SizeOf
  <2>7. i >= get_mfl_index(n)
    BY <2>2, <2>3
  <2> HIDE DEF i
  <2>8. i \in Fits(h, n)
    BY <2>1, <2>6, <2>7 DEF Fits
  <2>9. QED
    BY <2>8
<1>6. QED
  BY <1>4, <1>5

(* A request is met: one block more is in use, it is large enough, and the *)
(* others in use stay as they are.                                         *)
LEMMA AllocateKeeps ==
    ASSUME NEW h, NEW top, Good(h, top), NEW n \in Nat, Fits(h, n) # {},
           NEW g, g = Allocate(h, n)
    PROVE  /\ Good(g, top)
           /\ \E b \in DOMAIN g.blk \ UsedIn(h) :
                UsedIn(g) = UsedIn(h) \cup {b} /\ SizeOf(g, b) >= n
           /\ \A c \in UsedIn(h) : g.blk[c] = h.blk[c]
<1> DEFINE b == FirstFit(h, n)
           d == delete_memblk_from_size_link(h, b)
           s == IF WorthSplitting(d, b, n) THEN split_memblk(d, b, n) ELSE d
<1>1. b \in DOMAIN h.blk /\ IsFree(h, b) /\ SizeOf(h, b) >= n
  BY FitFound
<1>2. g = WithUsage(s, b, "MBT_USED")
  BY DEF Allocate, WithUsage
<1> HIDE DEF b
<1>3. d.pos = h.pos /\ d.blk = h.blk /\ Shaped(d, top) /\ Indexed(d, {b})
  <2>1. d.pos = h.pos /\ d.blk = h.blk /\ Shaped(d, top) /\ Indexed(d, {} \cup {b})
    BY <1>1, DeleteIndexes DEF Good
  <2>2. {} \cup {b} = {b}
    OBVIOUS
  <2>3. QED
    BY <2>1, <2>2
<1> HIDE DEF d
<1>4. /\ b \in DOMAIN d.blk /\ IsFree(d, b) /\ SizeOf(d, b) >= n
      /\ Parted(d, {}) /\ UsedIn(d) = UsedIn(h)
  BY <1>1, <1>3 DEF Good, Parted, Between, IsFree, SizeOf, UsedIn
<1>5. /\ Shaped(s, top) /\ b \in DOMAIN s.blk /\ Indexed(s, {b}) /\ Parted(s, {b})
      /\ SizeOf(s, b) >= n
      /\ UsedIn(s) = UsedIn(h) /\ \A c \in UsedIn(h) : s.blk[c] = h.blk[c]
  <2>1. CASE WorthSplitting(d, b, n)
    <3>1. SizeOf(d, b) >= n + H + MinSize
      BY <2>1 DEF WorthSplitting, SizeOf
    <3>2. s = split_memblk(d, b, n)
      BY <2>1
    <3> HIDE DEF s
    <3>3. /\ Shaped(s, top) /\ b \in DOMAIN s.blk /\ Indexed(s, {b}) /\ Parted(s, {b})
          /\ SizeOf(s, b) = n
          /\ UsedIn(s) = UsedIn(d) /\ \A c \in UsedIn(d) : s.blk[c] = d.blk[c]
      <4>1. Ready(d, top, b) /\ IsFree(d, b) /\ Parted(d, {})
        BY <1>3, <1>4 DEF Ready, Parted
      <4>2. QED
        BY <3>1, <3>2, <4>1, SplitKeeps
    <3>4. QED
      BY <1>3, <1>4, <3>3
  <2>2. CASE ~ WorthSplitting(d, b, n)
    <3>1. s = d
      BY <2>2
    <3>2. Parted(d, {b})
      BY <1>4 DEF Parted
    <3> HIDE DEF s
    <3>3. QED
      BY <1>3, <1>4, <3>1, <3>2
  <2>3. QED
    BY <2>1, <2>2
<1> HIDE DEF s
<1>6. /\ Shaped(g, top)
      /\ g.pos = s.pos /\ g.mfl = s.mfl /\ DOMAIN g.blk = DOMAIN s.blk
      /\ ~ IsFree(g, b)
      /\ \A c \in DOMAIN s.blk : SizeOf(g, c) = SizeOf(s, c) /\ ClassOf(g, c) = ClassOf(s, c)
      /\ \A c \in DOMAIN s.blk : c # b =>
           g.blk[c] = s.blk[c] /\ (IsFree(g, c) <=> IsFree(s, c))
  BY <1>2, <1>5, UsageSet
<1>7. Good(g, top)
  <2>1. Indexed(g, {})
    <3>1. \A i \in Classes : {c \in DOMAIN s.blk \ {b} : IsFree(s, c) /\ ClassOf(s, c) = i}
            = {c \in DOMAIN g.blk \ {} : IsFree(g, c) /\ ClassOf(g, c) = i}
      BY <1>6
    <3>2. QED
      BY <1>5, <1>6, <3>1 DEF Indexed
  <2>2. Parted(g, {})
    BY <1>5, <1>6 DEF Parted, Between
  <2>3. QED
    BY <1>6, <2>1, <2>2 DEF Good
<1>8. b \in DOMAIN g.blk \ UsedIn(h) /\ SizeOf(g, b) >= n
  BY <1>1, <1>5, <1>6 DEF UsedIn
<1>9. UsedIn(g) = UsedIn(h) \cup {b}
  <2>1. UsedIn(g) = UsedIn(s) \cup {b}
    BY <1>5, <1>6 DEF UsedIn
  <2>2. QED
    BY <1>5, <2>1
<1>10. \A c \in UsedIn(h) : g.blk[c] = h.blk[c]
  <2>1. \A c \in UsedIn(h) : c # b /\ c \in DOMAIN s.blk
    BY <1>5, <1>8 DEF UsedIn
  <2>2. QED
    BY <1>5, <1>6, <2>1
<1>11. QED
  BY <1>7, <1>8, <1>9, <1>10

(* What enlarge_memory_pool takes is enough for the request it is for.     *)
LEMMA PagesAreEnough ==
    ASSUME NEW n \in Nat, n > 0
    PROVE  /\ PagesFor(n) \in Nat /\ PagesFor(n) * Page \in Nat
           /\ PagesFor(n) * Page >= n + H
<1> DEFINE m == IF n + Page < MinGrow THEN MinGrow ELSE n + Page
           x == m + Page - 1
           q == x \div Page
<1>1. m \in Nat /\ m >= n + Page /\ x \in Nat /\ x = m + Page - 1 /\ Page \in Nat /\ Page > 0
  BY PoolConstants
<1>2. PagesFor(n) = q
  BY DEF PagesFor
<1> HIDE DEF m, x
<1>3. q \in Nat /\ x = Page * q + (x % Page) /\ x % Page \in 0..(Page - 1)
  BY <1>1
<1> HIDE DEF q
<1>4. q * Page \in Nat /\ q * Page = Page * q
  BY <1>1, <1>3
<1>5. q * Page >= m
  BY <1>1, <1>3, <1>4
<1>6. QED
  BY <1>1, <1>2, <1>3, <1>4, <1>5 DEF H

-----------------------------------------------------------------------------
PoolInv ==
    /\ asked \in Sizes \cup {0}
    /\ Good(Pool, dwSize)

LEMMA RoundUpSize ==
    ASSUME NEW s \in Sizes
    PROVE  RoundUp(s) \in Nat /\ RoundUp(s) > 0 /\ RoundUp(s) >= s /\ s \in Nat
BY PoolConstants DEF RoundUp

LEMMA PoolInitInv == PoolInit => PoolInv
<1> SUFFICES ASSUME PoolInit PROVE PoolInv
  OBVIOUS
<1> DEFINE none == [b \in {} |-> 0]
<1>1. /\ Pool.pos = <<>> /\ Pool.blk = none /\ Pool.mfl = [i \in Classes |-> <<>>]
      /\ Pool = [pos |-> Pool.pos, blk |-> Pool.blk, mfl |-> Pool.mfl]
      /\ dwSize = 0
  BY DEF PoolInit, Pool
<1>2. DOMAIN none = {} /\ none \in [{} -> Header]
  OBVIOUS
<1>3. <<>> \in Seq(BlockAddrs) /\ IsInjective(<<>>) /\ ToSet(<<>>) = {} /\ Len(<<>>) = 0
  BY EmptySeq DEF IsInjective, ToSet
<1> HIDE DEF none
<1>4. Typed(Pool)
  BY <1>1, <1>2, <1>3 DEF Typed
<1>5. Ordered(Pool) /\ Apart(Pool, 0) /\ Indexed(Pool, {}) /\ Parted(Pool, {})
  BY <1>1, <1>2, <1>3 DEF Ordered, Increasing, Apart, Indexed, Parted
<1>6. QED
  BY <1>1, <1>4, <1>5, PoolConstants DEF PoolInv, Good, Shaped, PoolInit

\* What a request that is met, or a block that is given back, does to Pool.
Served(s) ==
    /\ Good(Pool', dwSize') /\ dwSize' >= dwSize /\ asked' = s
    /\ \E b \in DOMAIN blk' \ UsedIn(Pool) :
         UsedIn(Pool') = UsedIn(Pool) \cup {b} /\ blk'[b].dwSize >= s
    /\ \A c \in UsedIn(Pool) : blk'[c] = blk[c]

TakenBack(b) ==
    /\ Good(Pool', dwSize') /\ UNCHANGED <<dwSize, asked>>
    /\ UsedIn(Pool') = UsedIn(Pool) \ {b}
    /\ \A c \in UsedIn(Pool') : blk'[c] = blk[c]

LEMMA PoolPrime ==
    ASSUME NEW h, SetPool(h), Typed(h)
    PROVE  Pool' = h /\ blk' = h.blk
BY DEF SetPool, Pool, Typed

LEMMA MallocStep ==
    ASSUME PoolInv, NEW s \in Sizes, Malloc(s)
    PROVE  Served(s)
<1> DEFINE n == RoundUp(s)
           g == PagesFor(n)
           e == Enlarged(Pool, g)
<1>1. n \in Nat /\ n > 0 /\ n >= s /\ s \in Nat
  BY RoundUpSize
<1> HIDE DEF n
<1>2. Good(Pool, dwSize) /\ dwSize \in Nat
  BY PoolConstants DEF PoolInv, Good, Shaped
<1>3. Pool.blk = blk
  BY DEF Pool
<1>4. ASSUME NEW h, NEW top, Good(h, top), top = dwSize', top >= dwSize, asked' = s,
             UsedIn(h) = UsedIn(Pool), \A c \in UsedIn(Pool) : h.blk[c] = blk[c],
             Fits(h, n) # {}, SetPool(Allocate(h, n))
      PROVE  Served(s)
  <2> DEFINE a == Allocate(h, n)
  <2>1. /\ Good(a, top)
        /\ \E b \in DOMAIN a.blk \ UsedIn(h) :
             UsedIn(a) = UsedIn(h) \cup {b} /\ SizeOf(a, b) >= n
        /\ \A c \in UsedIn(h) : a.blk[c] = h.blk[c]
    BY <1>1, <1>4, AllocateKeeps
  <2> HIDE DEF a
  <2>2. Typed(a) /\ SetPool(a)
    BY <1>4, <2>1 DEF Good, Shaped, a
  <2>3. Pool' = a /\ blk' = a.blk
    BY <2>2, PoolPrime
  <2>4. PICK b \in DOMAIN a.blk \ UsedIn(h) : UsedIn(a) = UsedIn(h) \cup {b} /\ SizeOf(a, b) >= n
    BY <2>1
  <2>5. a.blk[b].dwSize >= s
    <3>1. SizeOf(a, b) \in Nat
      BY <2>2, TypedParts
    <3>2. QED
      BY <1>1, <2>4, <3>1 DEF SizeOf
  <2>6. \E c \in DOMAIN a.blk \ UsedIn(Pool) :
          UsedIn(a) = UsedIn(Pool) \cup {c} /\ a.blk[c].dwSize >= s
    BY <1>4, <2>4, <2>5
  <2>7. QED
    BY <1>4, <2>1, <2>3, <2>6 DEF Served
<1>5. CASE Fits(Pool, n) # {} /\ SetPool(Allocate(Pool, n)) /\ asked' = s /\ UNCHANGED dwSize
  <2>1. dwSize = dwSize' /\ dwSize >= dwSize
    BY <1>2, <1>5
  <2>2. QED
    BY <1>2, <1>3, <1>4, <1>5, <2>1
<1>6. CASE /\ Fits(Pool, n) = {}
           /\ dwSize + g * Page <= MaxSize
           /\ dwSize' = dwSize + g * Page
           /\ SetPool(Allocate(e, n))
           /\ asked' = s
  <2>1. g \in Nat /\ g * Page \in Nat /\ g * Page >= n + H
    BY <1>1, PagesAreEnough
  <2> HIDE DEF g
  <2>2. /\ Good(e, dwSize + g * Page)
        /\ UsedIn(e) = UsedIn(Pool)
        /\ \A c \in UsedIn(Pool) : e.blk[c] = Pool.blk[c]
        /\ \E b \in DOMAIN e.blk : IsFree(e, b) /\ SizeOf(e, b) >= n
    BY <1>1, <1>2, <1>6, <2>1, EnlargedKeeps
  <2> HIDE DEF e
  <2>3. Fits(e, n) # {}
    BY <1>1, <2>2, FitFound
  <2> DEFINE gp == g * Page
  <2>4. gp \in Nat
    BY <2>1
  <2> DEFINE top == dwSize + gp
  <2>5. top = dwSize' /\ Good(e, top)
    BY <1>6, <2>2
  <2> HIDE DEF gp
  <2>6. top >= dwSize
    BY <1>2, <2>4
  <2> HIDE DEF top
  <2>7. QED
    BY <1>3, <1>4, <1>6, <2>2, <2>3, <2>5, <2>6
<1>7. QED
  BY <1>5, <1>6 DEF Malloc, n, g, e

LEMMA FreeStep ==
    ASSUME PoolInv, NEW b \in BlockAddrs, Free(b)
    PROVE  b \in UsedIn(Pool) /\ TakenBack(b)
<1> DEFINE m == merge_memblk(Pool, b)
           f == WithUsage(m.heap, m.at, "MBT_FREE")
           g == append_memblk_to_size_link(f, m.at)
<1>1. Pool.blk = blk
  BY DEF Pool
<1>2. b \in UsedIn(Pool)
  BY <1>1 DEF Free, UsedIn
<1>3. SetPool(g) /\ UNCHANGED <<dwSize, asked>>
  BY DEF Free, WithUsage
<1>4. Good(Pool, dwSize)
  BY DEF PoolInv
<1>5. /\ Good(g, dwSize)
      /\ UsedIn(g) = UsedIn(Pool) \ {b}
      /\ \A c \in UsedIn(g) : g.blk[c] = Pool.blk[c]
  <2> HIDE DEF g, f, m
  <2>1. m = merge_memblk(Pool, b) /\ f = WithUsage(m.heap, m.at, "MBT_FREE")
        /\ g = append_memblk_to_size_link(f, m.at)
    BY DEF m, f, g
  <2>2. QED
    BY <1>2, <1>4, <2>1, FreeKeeps
<1> HIDE DEF g
<1>6. Pool' = g /\ blk' = g.blk
  BY <1>3, <1>5, PoolPrime DEF Good, Shaped
<1>7. QED
  BY <1>1, <1>2, <1>3, <1>5, <1>6 DEF TakenBack

LEMMA GrowFailsStep ==
    ASSUME PoolInv, NEW s \in Sizes, GrowFails(s)
    PROVE  Good(Pool', dwSize') /\ dwSize' >= dwSize /\ UNCHANGED <<Pool, blk, asked>>
<1> DEFINE n == RoundUp(s)
<1>1. n \in Nat /\ n > 0
  BY RoundUpSize
<1>2. PICK k \in 0..PagesFor(n) - 1 : dwSize + k * Page <= MaxSize /\ dwSize' = dwSize + k * Page
  BY DEF GrowFails
<1>3. UNCHANGED <<Pool, blk, asked>>
  BY DEF GrowFails, Pool
<1> HIDE DEF n
<1>4. k \in Nat /\ Page \in Nat
  BY <1>1, PagesAreEnough, PoolConstants
<1> DEFINE kp == k * Page
<1>5. kp \in Nat
  BY <1>4
<1>6. dwSize + kp <= MaxSize /\ dwSize' = dwSize + kp
  BY <1>2
<1> HIDE DEF kp
<1>7. Good(Pool, dwSize) /\ dwSize \in Nat /\ MaxSize \in Nat
  BY PoolConstants DEF PoolInv, Good, Shaped
<1>8. dwSize' \in 0..MaxSize /\ dwSize' >= dwSize
  BY <1>5, <1>6, <1>7
<1>9. Apart(Pool, dwSize')
  <2>1. Typed(Pool) /\ Apart(Pool, dwSize)
    BY <1>7 DEF Good, Shaped
  <2>2. ASSUME NEW b \in DOMAIN Pool.blk PROVE b + H + SizeOf(Pool, b) <= dwSize'
    <3>1. b \in Nat /\ SizeOf(Pool, b) \in Nat /\ b + 1 + SizeOf(Pool, b) <= dwSize
      BY <2>1, TypedParts DEF Apart, H
    <3>2. QED
      BY <1>7, <1>8, <3>1 DEF H
  <2>3. QED
    BY <2>1, <2>2 DEF Apart
<1>10. Good(Pool, dwSize')
  BY <1>7, <1>8, <1>9 DEF Good, Shaped
<1>11. QED
  BY <1>3, <1>8, <1>10

LEMMA PoolNextInv == PoolInv /\ [PoolNext]_poolVars => PoolInv'
<1> SUFFICES ASSUME PoolInv, [PoolNext]_poolVars PROVE PoolInv'
  OBVIOUS
<1>1. ASSUME NEW s \in Sizes, Malloc(s) PROVE PoolInv'
  <2>1. Served(s)
    BY <1>1, MallocStep
  <2>2. QED
    BY <2>1 DEF Served, PoolInv
<1>2. ASSUME NEW s \in Sizes, GrowFails(s) PROVE PoolInv'
  <2>1. Good(Pool', dwSize') /\ asked' = asked
    BY <1>2, GrowFailsStep
  <2>2. QED
    BY <2>1 DEF PoolInv
<1>3. ASSUME NEW b \in BlockAddrs, Free(b) PROVE PoolInv'
  <2>1. TakenBack(b)
    BY <1>3, FreeStep
  <2>2. QED
    BY <2>1 DEF TakenBack, PoolInv
<1>4. CASE UNCHANGED poolVars
  <2>1. Pool' = Pool /\ dwSize' = dwSize /\ asked' = asked
    BY <1>4 DEF poolVars, Pool
  <2>2. QED
    BY <2>1 DEF PoolInv
<1>5. QED
  BY <1>1, <1>2, <1>3, <1>4 DEF PoolNext

LEMMA PoolSpecInv == PoolSpec => []PoolInv
BY PoolInitInv, PoolNextInv, PTL DEF PoolSpec

LEMMA PoolInvIndexed == PoolInv => FreeSpaceIndexed
<1> SUFFICES ASSUME PoolInv PROVE FreeSpaceIndexed
  OBVIOUS
<1>1. /\ Typed(Pool) /\ Ordered(Pool) /\ Indexed(Pool, {}) /\ Parted(Pool, {})
      /\ Shaped(Pool, dwSize)
      /\ dwSize \in 0..MaxSize /\ asked \in Sizes \cup {0}
      /\ Pool.pos = pos /\ Pool.blk = blk /\ Pool.mfl = mfl
  BY DEF PoolInv, Good, Shaped, Pool
<1>2. PoolTypeOK
  BY <1>1 DEF PoolTypeOK, Typed
<1>3. IsInjective(pos) /\ ToSet(pos) = DOMAIN blk
  BY <1>1, PoolConstants, IncreasingPlaces DEF Ordered, Typed
<1>4. \A i \in Classes :
        /\ IsInjective(mfl[i])
        /\ ToSet(mfl[i]) = {b \in DOMAIN blk :
                              IsFree(Pool, b) /\ get_mfl_index(blk[b].dwSize) = i}
  BY <1>1 DEF Indexed, ClassOf, SizeOf
<1>5. ASSUME NEW k \in 1..Len(pos) - 1, IsFree(Pool, pos[k]), IsFree(Pool, pos[k + 1])
      PROVE  FALSE
  <2>1. /\ Increasing(pos) /\ pos \in Seq(BlockAddrs) /\ ToSet(pos) = DOMAIN blk
        /\ BlockAddrs \in SUBSET Int
    BY <1>1, PoolConstants DEF Ordered, Typed
  <2>2. Len(pos) \in Nat /\ DOMAIN pos = 1..Len(pos)
    BY <2>1, LenProperties
  <2>3. k \in 1..Len(pos) /\ k + 1 \in 1..Len(pos)
    BY <2>2
  <2>4. /\ pos[k] \in DOMAIN blk /\ pos[k + 1] \in DOMAIN blk
    BY <2>1, <2>2, <2>3 DEF ToSet
  <2>5. pos[k] < pos[k + 1] /\ \A e \in DOMAIN blk : ~ (pos[k] < e /\ e < pos[k + 1])
    BY <2>1, <2>3, NothingBetween
  <2>6. QED
    BY <1>1, <1>5, <2>4, <2>5 DEF Parted, Between
<1>6. QED
  BY <1>2, <1>3, <1>4, <1>5 DEF FreeSpaceIndexed

(* For any size classes and sizes of pool, page and request, every free      *)
(* block can be found in the one list of its size, no block that is in use   *)
(* can, and free space is in one piece: no two neighbours are free           *)
(* (malloc.c:58-129, 204-332, 396-417, 466-498).                             *)
THEOREM SpecFreeSpaceIndexed == PoolSpec => []FreeSpaceIndexed
BY PoolSpecInv, PoolInvIndexed, PTL

(* What callers have of a pool.                                            *)
Region(b) == [addr |-> b + H, size |-> blk[b].dwSize]
Regions == {Region(b) : b \in Given}

LEMMA RegionsAre ==
    ASSUME NEW h, NEW top, Good(h, top)
    PROVE  \A b \in DOMAIN h.blk :
             /\ b \in Nat /\ h.blk[b].dwSize \in Nat
             /\ b + 1 + h.blk[b].dwSize <= top
             /\ \A c \in DOMAIN h.blk : b < c => b + 1 + h.blk[b].dwSize <= c
<1>1. Typed(h) /\ Apart(h, top)
  BY DEF Good, Shaped
<1>2. \A b \in DOMAIN h.blk : b \in Nat /\ SizeOf(h, b) \in Nat
  BY <1>1, TypedParts
<1>3. QED
  BY <1>1, <1>2 DEF Apart, H, SizeOf

LEMMA GiveStep ==
    ASSUME NEW s \in Sizes, Served(s)
    PROVE  Promise!Give(s)
<1>1. PICK b \in DOMAIN blk' \ UsedIn(Pool) :
         UsedIn(Pool') = UsedIn(Pool) \cup {b} /\ blk'[b].dwSize >= s
  BY DEF Served
<1>2. /\ Given = UsedIn(Pool)
      /\ \A c \in Given : blk'[c] = blk[c]
      /\ dwSize' >= dwSize /\ asked' = s
  BY DEF Served, Given, UsedIn, Pool
<1>3. /\ Given' = UsedIn(Pool') /\ Given' \subseteq DOMAIN blk'
      /\ \A c \in DOMAIN blk' : /\ c \in Nat /\ blk'[c].dwSize \in Nat
                                /\ c + 1 + blk'[c].dwSize <= dwSize'
      /\ \A c, d \in DOMAIN blk' : c < d => c + 1 + blk'[c].dwSize <= d
  <2>1. Pool'.blk = blk'
    BY DEF Pool
  <2>2. Given' = UsedIn(Pool') /\ Given' \subseteq DOMAIN blk'
    BY <2>1 DEF Given, UsedIn
  <2>3. Good(Pool', dwSize')
    BY DEF Served
  <2>4. QED
    BY <2>1, <2>2, <2>3, RegionsAre
<1>4. Given' = Given \cup {b} /\ b \in Given' /\ b \notin Given
  BY <1>1, <1>2, <1>3
<1> DEFINE New(c) == [addr |-> c + H, size |-> blk'[c].dwSize]
           r == New(b)
<1>5. Regions' = {New(c) : c \in Given'}
  BY DEF Regions, Region
<1>6. Regions = {New(c) : c \in Given}
  BY <1>2 DEF Regions, Region
<1>7. \A c \in DOMAIN blk' : New(c).addr = c + 1 /\ New(c).size = blk'[c].dwSize
  BY DEF H
<1> HIDE DEF New
<1>8. Regions' = Regions \cup {r} /\ r \in Regions'
  BY <1>4, <1>5, <1>6
<1>9. r \notin Regions
  <2>1. SUFFICES ASSUME NEW c \in Given, r = New(c) PROVE FALSE
    BY <1>6
  <2>2. b + 1 = c + 1 /\ c \in Nat /\ b \in Nat
    BY <1>3, <1>4, <1>7, <2>1
  <2>3. QED
    BY <1>4, <2>1, <2>2
<1>10. r.size >= s /\ r.addr >= 0 /\ r.addr + r.size <= dwSize'
  BY <1>1, <1>3, <1>7
<1>11. \A q \in Regions : Promise!Disjoint(r, q)
  <2>1. SUFFICES ASSUME NEW c \in Given PROVE Promise!Disjoint(r, New(c))
    BY <1>6
  <2>2. c \in DOMAIN blk' /\ b \in DOMAIN blk' /\ c # b /\ c \in Nat /\ b \in Nat
    BY <1>3, <1>4
  <2>3. (c < b => c + 1 + blk'[c].dwSize <= b) /\ (b < c => b + 1 + blk'[b].dwSize <= c)
        /\ blk'[c].dwSize \in Nat /\ blk'[b].dwSize \in Nat
    BY <1>3, <2>2
  <2>4. r.addr + r.size <= New(c).addr \/ New(c).addr + New(c).size <= r.addr
    BY <1>7, <2>2, <2>3
  <2>5. QED
    BY <2>4 DEF Promise!Disjoint
<1> HIDE DEF r
<1>12. QED
  BY <1>2, <1>8, <1>9, <1>10, <1>11 DEF Promise!Give, Promise!Grow, Regions, Region

LEMMA TakeBackStep ==
    ASSUME PoolInv, NEW b \in UsedIn(Pool), TakenBack(b)
    PROVE  \E r \in Regions : Promise!TakeBack(r)
<1>1. /\ Given = UsedIn(Pool) /\ Given \subseteq DOMAIN blk
      /\ \A c \in DOMAIN blk : c \in Nat
  <2>1. Good(Pool, dwSize) /\ Pool.blk = blk
    BY DEF PoolInv, Pool
  <2>2. QED
    BY <2>1, RegionsAre DEF Given, UsedIn
<1>2. Given' = UsedIn(Pool')
  <2>1. Pool'.blk = blk'
    BY DEF Pool
  <2>2. QED
    BY <2>1 DEF Given, UsedIn
<1>3. Given' = Given \ {b} /\ \A c \in Given' : blk'[c] = blk[c]
  BY <1>1, <1>2 DEF TakenBack
<1>4. Regions' = {Region(c) : c \in Given'}
  BY <1>3 DEF Regions, Region
<1>5. \A c \in Given : Region(c) = Region(b) => c = b
  <2>1. SUFFICES ASSUME NEW c \in Given, Region(c) = Region(b) PROVE c = b
    OBVIOUS
  <2>2. Region(c).addr = c + 1 /\ Region(b).addr = b + 1
    BY DEF Region, H
  <2>3. c + 1 = b + 1 /\ c \in Nat /\ b \in Nat
    BY <1>1, <2>1, <2>2
  <2>4. QED
    BY <2>3
<1> DEFINE r == Region(b)
<1>6. Regions' = Regions \ {r} /\ r \in Regions
  BY <1>1, <1>3, <1>4, <1>5 DEF Regions
<1> HIDE DEF r
<1>7. UNCHANGED <<dwSize, asked>>
  BY DEF TakenBack
<1>8. QED
  BY <1>6, <1>7 DEF Promise!TakeBack, Regions, Region

LEMMA PromiseStep ==
    PoolInv /\ [PoolNext]_poolVars => [Promise!HeapNext]_(Promise!heapVars)
<1> SUFFICES ASSUME PoolInv, [PoolNext]_poolVars
             PROVE  [Promise!HeapNext]_(Promise!heapVars)
  OBVIOUS
<1>1. ASSUME NEW s \in Sizes, Malloc(s) PROVE Promise!HeapNext
  BY <1>1, MallocStep, GiveStep DEF Promise!HeapNext
<1>2. ASSUME NEW s \in Sizes, GrowFails(s) PROVE Promise!HeapNext
  <2>1. dwSize' >= dwSize /\ UNCHANGED <<Pool, blk, asked>>
    BY <1>2, GrowFailsStep
  <2>2. Regions' = Regions /\ asked' = asked
    BY <2>1 DEF Regions, Region, Given
  <2>3. QED
    BY <2>1, <2>2 DEF Promise!HeapNext, Promise!Grow, Regions, Region
<1>3. ASSUME NEW b \in BlockAddrs, Free(b) PROVE Promise!HeapNext
  <2>1. \E r \in Regions : Promise!TakeBack(r)
    BY <1>3, FreeStep, TakeBackStep
  <2>2. QED
    BY <2>1 DEF Promise!HeapNext, Regions, Region
<1>4. CASE UNCHANGED poolVars
  <2>1. Regions' = Regions /\ dwSize' = dwSize /\ asked' = asked
    BY <1>4 DEF poolVars, Pool, Regions, Region, Given
  <2>2. QED
    BY <2>1 DEF Promise!heapVars, Regions, Region
<1>5. QED
  BY <1>1, <1>2, <1>3, <1>4 DEF PoolNext

(* A pool implements AbstractHeap: every step gives out a region that is     *)
(* large enough and that nobody has any of, takes one back, gets more        *)
(* memory, or changes nothing a caller can see, whatever is split, merged    *)
(* and enlarged meanwhile (malloc.c:132-201, 335-417, 466-498).              *)
THEOREM SpecHeapPromise == PoolSpec => HeapPromise
<1>1. PoolInit => Promise!HeapInit
  <2>1. PoolInit => Given = {} /\ dwSize = 0 /\ asked = 0
    BY DEF PoolInit, Given
  <2>2. QED
    BY <2>1 DEF Promise!HeapInit
<1>2. QED
  BY <1>1, PoolSpecInv, PromiseStep, PTL DEF PoolSpec, HeapPromise, Promise!HeapSpec

=============================================================================
