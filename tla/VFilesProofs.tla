----------------------------- MODULE VFilesProofs -----------------------------
(***************************************************************************)
(* Proofs about VFiles: for any names, spellings, hash and sizes the       *)
(* counts of the vnodes are right and a name has one entry; where the hash *)
(* takes the spellings of a name to one place, what is open keeps its      *)
(* directory entry and a file has one vnode.                               *)
(*                                                                         *)
(* In the middle of a call there are more references than descriptors: the *)
(* directory a path was walked to is open too.  A handle is a descriptor   *)
(* or such a reference, g the vnode of each handle, and Good what holds    *)
(* before and after each vnode_open and vnode_close, with the handles that *)
(* there are then.                                                         *)
(***************************************************************************)
EXTENDS VFiles, LinkLemmas, FiniteSetTheorems

(* The handles that a vnode counts.                                        *)
Holds(s, g, v) == {d \in DOMAIN g : v \in {g[d], s.vnode[g[d]].pParent}}

Extra(v) == IF v = Root THEN 1 ELSE 0

(* One handle more, one less.                                              *)
With(g, d, v) == [x \in DOMAIN g \cup {d} |-> IF x = d THEN v ELSE g[x]]
Without(g, d) == [x \in DOMAIN g \ {d} |-> g[x]]

States == [vnode : [Slots -> VNodes], hash : [Buckets -> Seq(Slots)]]

Typed(s, g) ==
    /\ s \in States
    /\ IsFiniteSet(DOMAIN g)
    /\ g \in [DOMAIN g -> Slots]

(* Every handle is on a vnode in use, and the vnodes in use are counted.   *)
HandlesUsed(s, g) == \A d \in DOMAIN g : s.vnode[g[d]].used

CountsRight(s, g) ==
    \A v \in Slots :
        /\ s.vnode[v].nRefCount = Cardinality(Holds(s, g, v)) + Extra(v)
        /\ s.vnode[v].used <=> s.vnode[v].nRefCount > 0

(* A vnode in use is the root or below it or two below it.                 *)
NearRoot(s, p) == p = Root \/ s.vnode[p].pParent = Root

TreeRight(s) ==
    /\ s.vnode[Root].pParent = NoVNode
    /\ s.vnode[Root].file = RootDir
    /\ \A v \in Slots \ {Root} : s.vnode[v].used =>
          /\ s.vnode[v].szName \in Names
          /\ s.vnode[v].pParent \in Slots
          /\ s.vnode[s.vnode[v].pParent].used
          /\ NearRoot(s, s.vnode[v].pParent)

(* The vnodes in use are linked once, at the place of their name.          *)
PlacedAt(s, b) == {v \in Slots \ {Root} : s.vnode[v].used /\ Bucket[s.vnode[v].szName] = b}

ChainsRight(s) ==
    \A b \in Buckets : IsInjective(s.hash[b]) /\ ToSet(s.hash[b]) = PlacedAt(s, b)

(* A file has one entry, and the root directory none; a name has one.      *)
DiskRight(dk) ==
    /\ dk \subseteq Entries
    /\ \A e \in dk : e.file # RootDir
    /\ \A e, f \in dk : e.file = f.file => e = f
    /\ \A e, f \in dk : e.dir = f.dir /\ Fold[e.name] = Fold[f.name] => e = f

(* Entry e is what vnode v was opened from.                                *)
IsEntryOf(s, v, e) ==
    /\ e.file = s.vnode[v].file
    /\ e.dir = s.vnode[s.vnode[v].pParent].file
    /\ Fold[e.name] = Fold[s.vnode[v].szName]

(* What is in use is on the disk, and has one vnode: where spellings meet. *)
OnDisk(s, dk) ==
    SpellingsMeet =>
        \A v \in Slots \ {Root} : s.vnode[v].used => \E e \in dk : IsEntryOf(s, v, e)

OnePerFile(s) ==
    SpellingsMeet =>
        \A v, w \in Slots :
            /\ s.vnode[v].used /\ s.vnode[w].used
            /\ s.vnode[v].file = s.vnode[w].file
            => v = w

Good(s, g, dk) ==
    /\ Typed(s, g)
    /\ HandlesUsed(s, g)
    /\ CountsRight(s, g)
    /\ TreeRight(s)
    /\ ChainsRight(s)
    /\ DiskRight(dk)
    /\ OnDisk(s, dk)
    /\ OnePerFile(s)

(* The inductive invariant: the handles between two calls are the open     *)
(* descriptors.                                                            *)
OpenFDs == [i \in {j \in FDs : fd[j] # NoVNode} |-> fd[i]]

IInv ==
    /\ fd \in [FDs -> Slots \cup {NoVNode}]
    /\ Good(Now, OpenFDs, disk)

-----------------------------------------------------------------------------
(* Slots, least members, handles and entries.                              *)

(* NoVNode is not a slot.                                                  *)
LEMMA SlotsAre ==
    /\ Root \in Slots
    /\ NoVNode \notin Slots
    /\ RootDir \in Files
    /\ Slots \subseteq Nat /\ FDs \subseteq Nat /\ Files \subseteq Nat
BY BoundAssumption DEF Slots, FDs, Files, Root, RootDir, NoVNode

(* new_vnode finds an empty slot, alloc_sys_fd a free descriptor and       *)
(* get_free_cluster a free cluster, when there is one.                     *)
LEMMA FirstOnes ==
    /\ \A s : EmptySlots(s) # {} =>
          FirstEmpty(s) \in Slots /\ ~ s.vnode[FirstEmpty(s)].used
    /\ FreeFDs # {} => FirstFD \in FDs /\ fd[FirstFD] = NoVNode
    /\ FreeFiles # {} => FirstFree \in FreeFiles
<1>1. ASSUME NEW s, EmptySlots(s) # {}
      PROVE  FirstEmpty(s) \in EmptySlots(s)
  BY <1>1, SlotsAre, MinIsMember DEF EmptySlots, FirstEmpty
<1>2. ASSUME FreeFDs # {} PROVE FirstFD \in FreeFDs
  BY <1>2, SlotsAre, MinIsMember DEF FreeFDs, FirstFD
<1>3. ASSUME FreeFiles # {} PROVE FirstFree \in FreeFiles
  BY <1>3, SlotsAre, MinIsMember DEF FreeFiles, FirstFree
<1>4. QED
  BY <1>1, <1>2, <1>3 DEF EmptySlots, FreeFDs

(* find_vnode finds a vnode of the directory that is linked at the place   *)
(* of the name, when there is one.                                         *)
LEMMA FindFinds ==
    ASSUME NEW s, NEW g, NEW dk, Good(s, g, dk), NEW p, NEW n \in Names
    PROVE  /\ find_vnode(s, p, n) # NoVNode =>
                 /\ find_vnode(s, p, n) \in Slots \ {Root}
                 /\ s.vnode[find_vnode(s, p, n)].used
                 /\ s.vnode[find_vnode(s, p, n)].pParent = p
           /\ find_vnode(s, p, n) = NoVNode =>
                 \A v \in Slots \ {Root} :
                    s.vnode[v].used /\ Bucket[s.vnode[v].szName] = Bucket[n]
                        => s.vnode[v].pParent # p
<1> DEFINE c == s.hash[Bucket[n]]
           H == Hits(s, p, n)
<1>1. Bucket[n] \in Buckets /\ c \in Seq(Slots) /\ ToSet(c) = PlacedAt(s, Bucket[n])
  BY BucketAssumption DEF Good, Typed, States, ChainsRight
<1>2. DOMAIN c = 1 .. Len(c) /\ Len(c) \in Nat
  BY <1>1, LenProperties
<1>3. \A k \in DOMAIN c : c[k] \in PlacedAt(s, Bucket[n])
  BY <1>1 DEF ToSet
<1>4. H = {k \in DOMAIN c : s.vnode[c[k]].used /\ s.vnode[c[k]].pParent = p}
  BY DEF Hits
<1>5. CASE H # {}
  <2>1. Min(H) \in H
    <3>1. H \subseteq Nat
      BY <1>2, <1>4
    <3> HIDE DEF H
    <3>2. QED
      BY <1>5, <3>1, MinIsMember
  <2>2. find_vnode(s, p, n) = c[Min(H)]
    BY <1>5 DEF find_vnode
  <2>3. PICK k \in DOMAIN c : /\ find_vnode(s, p, n) = c[k]
                             /\ s.vnode[c[k]].used
                             /\ s.vnode[c[k]].pParent = p
    BY <1>4, <2>1, <2>2
  <2>4. c[k] \in Slots \ {Root}
    BY <1>3 DEF PlacedAt
  <2>5. QED
    BY <2>3, <2>4, SlotsAre
<1>6. CASE H = {}
  <2>1. find_vnode(s, p, n) = NoVNode
    BY <1>6 DEF find_vnode
  <2>2. ASSUME NEW v \in Slots \ {Root}, s.vnode[v].used,
               Bucket[s.vnode[v].szName] = Bucket[n]
        PROVE  s.vnode[v].pParent # p
    <3>1. PICK k \in DOMAIN c : c[k] = v
      BY <1>1, <2>2 DEF ToSet, PlacedAt
    <3>2. QED
      BY <1>4, <1>6, <2>2, <3>1
  <2>3. QED
    BY <2>1, <2>2
<1>7. QED
  BY <1>5, <1>6

(* A vnode is not its own directory.                                       *)
LEMMA ParentIsOther ==
    ASSUME NEW s, TreeRight(s), NEW v \in Slots \ {Root}, s.vnode[v].used
    PROVE  s.vnode[v].pParent # v
BY DEF TreeRight, NearRoot

-----------------------------------------------------------------------------
(* A handle more.                                                          *)

(* inc_vnode_ref_count changes one count.                                  *)
LEMMA CountedIs ==
    ASSUME NEW s \in States, NEW v \in Slots
    PROVE  /\ Counted(s, v) \in States
           /\ Counted(s, v).hash = s.hash
           /\ Counted(s, v).vnode[v] = [s.vnode[v] EXCEPT !.nRefCount = @ + 1]
           /\ \A x \in Slots : x # v => Counted(s, v).vnode[x] = s.vnode[x]
<1> DEFINE r == [s.vnode[v] EXCEPT !.nRefCount = @ + 1]
           f == [s.vnode EXCEPT ![v] = r]
<1>1. s.vnode[v] \in VNodes
  BY DEF States
<1>2. r \in VNodes
  BY <1>1 DEF VNodes
<1> HIDE DEF r
<1>3. /\ f \in [Slots -> VNodes]
      /\ f[v] = r
      /\ \A x \in Slots : x # v => f[x] = s.vnode[x]
  BY <1>2 DEF States
<1>4. Counted(s, v) = [s EXCEPT !.vnode = f]
  BY DEF Counted, r
<1> HIDE DEF f
<1>5. Counted(s, v) = [vnode |-> f, hash |-> s.hash]
  BY <1>4 DEF States
<1>6. QED
  BY <1>3, <1>5 DEF States, r

(* The fields of a counted vnode that are not its count stay.              *)
Alike(r, q) ==
    q.used = r.used /\ q.pParent = r.pParent /\ q.szName = r.szName /\ q.file = r.file

LEMMA CountedFields ==
    ASSUME NEW s \in States, NEW v \in Slots
    PROVE  /\ \A x \in Slots : Alike(s.vnode[x], Counted(s, v).vnode[x])
           /\ Counted(s, v).vnode[v].nRefCount = s.vnode[v].nRefCount + 1
           /\ \A x \in Slots : x # v =>
                 Counted(s, v).vnode[x].nRefCount = s.vnode[x].nRefCount
<1>1. \A x \in Slots : s.vnode[x] \in VNodes
  BY DEF States
<1>2. /\ Counted(s, v).vnode[v] = [s.vnode[v] EXCEPT !.nRefCount = @ + 1]
      /\ \A x \in Slots : x # v => Counted(s, v).vnode[x] = s.vnode[x]
  BY CountedIs
<1> DEFINE t == Counted(s, v)
<1> HIDE DEF t
<1>3. Alike(s.vnode[v], t.vnode[v]) /\ t.vnode[v].nRefCount = s.vnode[v].nRefCount + 1
  BY <1>1, <1>2 DEF Alike, VNodes, t
<1>4. \A x \in Slots : x # v =>
         Alike(s.vnode[x], t.vnode[x]) /\ t.vnode[x].nRefCount = s.vnode[x].nRefCount
  BY <1>2 DEF Alike, t
<1>5. QED
  BY <1>3, <1>4 DEF t

(* The holders of a vnode are finitely many handles.                       *)
LEMMA HoldsFinite ==
    ASSUME NEW s, NEW g, Typed(s, g), NEW x
    PROVE  /\ IsFiniteSet(Holds(s, g, x))
           /\ Cardinality(Holds(s, g, x)) \in Nat
<1>1. IsFiniteSet(DOMAIN g) /\ Holds(s, g, x) \subseteq DOMAIN g
  BY DEF Typed, Holds
<1>2. QED
  BY <1>1, FS_Subset, FS_CardinalityType

(* A new handle is held by its vnode and by the directory, and what was in *)
(* use keeps its directory: then the counts are right when both have       *)
(* counted it.                                                             *)
LEMMA CountsWith ==
    ASSUME NEW s, NEW t, NEW g, NEW d, d \notin DOMAIN g, NEW v \in Slots,
           Typed(s, g), HandlesUsed(s, g), CountsRight(s, g), t \in States,
           \A x \in Slots : s.vnode[x].used => t.vnode[x].pParent = s.vnode[x].pParent,
           \A x \in Slots : t.vnode[x].nRefCount =
               s.vnode[x].nRefCount + (IF x \in {v, t.vnode[v].pParent} THEN 1 ELSE 0),
           \A x \in Slots : t.vnode[x].used <=>
               s.vnode[x].used \/ x \in {v, t.vnode[v].pParent}
    PROVE  /\ Typed(t, With(g, d, v))
           /\ HandlesUsed(t, With(g, d, v))
           /\ CountsRight(t, With(g, d, v))
<1> DEFINE h == With(g, d, v)
           p == t.vnode[v].pParent
<1>1. /\ DOMAIN h = DOMAIN g \cup {d}
      /\ h[d] = v
      /\ \A x \in DOMAIN g : h[x] = g[x]
      /\ h \in [DOMAIN h -> Slots]
  BY DEF With, Typed
<1>2. IsFiniteSet(DOMAIN h)
  BY <1>1, FS_AddElement DEF Typed
<1> HIDE DEF h
<1>3. Typed(t, h)
  BY <1>1, <1>2 DEF Typed
<1>4. HandlesUsed(t, h)
  BY <1>1 DEF HandlesUsed, Typed
<1>5. ASSUME NEW x \in Slots
      PROVE  Holds(t, h, x) = IF x \in {v, p} THEN Holds(s, g, x) \cup {d} ELSE Holds(s, g, x)
  <2>1. \A y \in DOMAIN g : t.vnode[h[y]].pParent = s.vnode[g[y]].pParent
    BY <1>1 DEF HandlesUsed, Typed
  <2>2. QED
    BY <1>1, <2>1 DEF Holds
<1>6. ASSUME NEW x \in Slots
      PROVE  /\ t.vnode[x].nRefCount = Cardinality(Holds(t, h, x)) + Extra(x)
             /\ t.vnode[x].used <=> t.vnode[x].nRefCount > 0
  <2>1. IsFiniteSet(Holds(s, g, x)) /\ Cardinality(Holds(s, g, x)) \in Nat /\ Extra(x) \in Nat
    BY HoldsFinite DEF Extra
  <2>2. /\ s.vnode[x].nRefCount = Cardinality(Holds(s, g, x)) + Extra(x)
        /\ s.vnode[x].used <=> s.vnode[x].nRefCount > 0
    BY DEF CountsRight
  <2>3. CASE x \in {v, p}
    <3>1. d \notin Holds(s, g, x)
      BY DEF Holds
    <3>2. Cardinality(Holds(t, h, x)) = Cardinality(Holds(s, g, x)) + 1
      <4>1. Holds(t, h, x) = Holds(s, g, x) \cup {d}
        BY <1>5, <2>3
      <4>2. QED
        BY <2>1, <3>1, <4>1, FS_AddElement
    <3>3. t.vnode[x].nRefCount = s.vnode[x].nRefCount + 1 /\ t.vnode[x].used
      BY <2>3
    <3>4. t.vnode[x].nRefCount = Cardinality(Holds(t, h, x)) + Extra(x)
      BY <2>1, <2>2, <3>2, <3>3
    <3>5. t.vnode[x].nRefCount > 0
      BY <2>1, <2>2, <3>3
    <3>6. QED
      BY <3>3, <3>4, <3>5
  <2>4. CASE x \notin {v, p}
    <3>1. t.vnode[x].nRefCount = s.vnode[x].nRefCount + 0
      BY <2>4
    <3>2. t.vnode[x].nRefCount = s.vnode[x].nRefCount
      BY <2>1, <2>2, <3>1
    <3>3. t.vnode[x].used <=> s.vnode[x].used
      BY <2>4
    <3>4. Holds(t, h, x) = Holds(s, g, x)
      BY <1>5, <2>4
    <3>5. QED
      BY <2>2, <3>2, <3>3, <3>4
  <2>5. QED
    BY <2>3, <2>4
<1>7. CountsRight(t, h)
  BY <1>6 DEF CountsRight
<1>8. QED
  BY <1>3, <1>4, <1>7 DEF h

(* Counting alone changes nothing else.                                    *)
LEMMA AlikeKeeps ==
    ASSUME NEW s, NEW t, NEW dk, s \in States, t \in States, t.hash = s.hash,
           \A x \in Slots : Alike(s.vnode[x], t.vnode[x]),
           TreeRight(s), ChainsRight(s), OnDisk(s, dk), OnePerFile(s)
    PROVE  TreeRight(t) /\ ChainsRight(t) /\ OnDisk(t, dk) /\ OnePerFile(t)
<1>1. TreeRight(t)
  <2>1. t.vnode[Root].pParent = NoVNode /\ t.vnode[Root].file = RootDir
    BY SlotsAre DEF TreeRight, Alike
  <2>2. ASSUME NEW v \in Slots \ {Root}, t.vnode[v].used
        PROVE  /\ t.vnode[v].szName \in Names
               /\ t.vnode[v].pParent \in Slots
               /\ t.vnode[t.vnode[v].pParent].used
               /\ NearRoot(t, t.vnode[v].pParent)
    <3> DEFINE p == s.vnode[v].pParent
    <3>1. s.vnode[v].used /\ t.vnode[v].pParent = p /\ t.vnode[v].szName = s.vnode[v].szName
      BY <2>2 DEF Alike
    <3>2. /\ p \in Slots /\ s.vnode[v].szName \in Names
          /\ s.vnode[p].used /\ NearRoot(s, p)
      BY <3>1 DEF TreeRight
    <3> HIDE DEF p
    <3>3. t.vnode[p].used /\ NearRoot(t, p)
      BY <3>2 DEF Alike, NearRoot
    <3>4. QED
      BY <3>1, <3>2, <3>3
  <2>3. QED
    BY <2>1, <2>2 DEF TreeRight
<1>2. ChainsRight(t)
  <2>1. \A b : PlacedAt(t, b) = PlacedAt(s, b)
    BY DEF PlacedAt, Alike
  <2>2. QED
    BY <2>1 DEF ChainsRight
<1>3. OnDisk(t, dk)
  <2>1. ASSUME NEW v \in Slots \ {Root}, t.vnode[v].used
        PROVE  s.vnode[v].used /\ \A e : IsEntryOf(s, v, e) => IsEntryOf(t, v, e)
    <3>1. s.vnode[v].used /\ s.vnode[v].pParent \in Slots
      BY <2>1 DEF Alike, TreeRight
    <3>2. QED
      BY <3>1 DEF IsEntryOf, Alike
  <2>2. QED
    BY <2>1 DEF OnDisk
<1>4. OnePerFile(t)
  BY DEF OnePerFile, Alike
<1>5. QED
  BY <1>1, <1>2, <1>3, <1>4

(* A reference to the root.                                                *)
LEMMA RootOpened ==
    ASSUME NEW s, NEW g, NEW dk, Good(s, g, dk), NEW d, d \notin DOMAIN g
    PROVE  Good(Counted(s, Root), With(g, d, Root), dk)
<1> DEFINE t == Counted(s, Root)
<1>1. s \in States /\ Root \in Slots /\ NoVNode \notin Slots
  BY SlotsAre DEF Good, Typed
<1>2. /\ t \in States /\ t.hash = s.hash
      /\ \A x \in Slots : Alike(s.vnode[x], t.vnode[x])
      /\ t.vnode[Root].nRefCount = s.vnode[Root].nRefCount + 1
      /\ \A x \in Slots : x # Root => t.vnode[x].nRefCount = s.vnode[x].nRefCount
  BY <1>1, CountedIs, CountedFields
<1> HIDE DEF t
<1>3. s.vnode[Root].used /\ t.vnode[Root].pParent = NoVNode
  <2>1. Cardinality(Holds(s, g, Root)) \in Nat
    BY HoldsFinite DEF Good
  <2>2. s.vnode[Root].nRefCount = Cardinality(Holds(s, g, Root)) + 1
    BY <1>1 DEF Good, CountsRight, Extra
  <2>3. s.vnode[Root].used
    BY <1>1, <2>1, <2>2 DEF Good, CountsRight
  <2>4. QED
    BY <1>1, <1>2, <2>3 DEF Good, TreeRight, Alike
<1>4. \A x \in Slots : s.vnode[x].nRefCount \in Nat
  BY <1>1 DEF States, VNodes
<1>5. /\ Typed(t, With(g, d, Root))
      /\ HandlesUsed(t, With(g, d, Root))
      /\ CountsRight(t, With(g, d, Root))
  <2>1. \A x \in Slots : t.vnode[x].nRefCount =
           s.vnode[x].nRefCount + (IF x \in {Root, t.vnode[Root].pParent} THEN 1 ELSE 0)
    BY <1>1, <1>2, <1>3, <1>4
  <2>2. \A x \in Slots : t.vnode[x].used <=>
           s.vnode[x].used \/ x \in {Root, t.vnode[Root].pParent}
    BY <1>1, <1>2, <1>3 DEF Alike
  <2>3. \A x \in Slots : s.vnode[x].used => t.vnode[x].pParent = s.vnode[x].pParent
    BY <1>2 DEF Alike
  <2>4. QED
    BY <1>1, <1>2, <2>1, <2>2, <2>3, CountsWith DEF Good
<1>6. TreeRight(t) /\ ChainsRight(t) /\ OnDisk(t, dk) /\ OnePerFile(t)
  BY <1>1, <1>2, AlikeKeeps DEF Good
<1>7. QED
  BY <1>5, <1>6 DEF Good, t


(* A vnode and its directory counted: nothing else changes.                *)
LEMMA BothCounted ==
    ASSUME NEW s \in States, NEW v \in Slots, NEW p \in Slots, p # v
    PROVE  /\ CountedBoth(s, p, v) \in States
           /\ CountedBoth(s, p, v).hash = s.hash
           /\ \A x \in Slots : Alike(s.vnode[x], CountedBoth(s, p, v).vnode[x])
           /\ \A x \in Slots : CountedBoth(s, p, v).vnode[x].nRefCount =
                 s.vnode[x].nRefCount + (IF x \in {v, p} THEN 1 ELSE 0)
<1> DEFINE r == Counted(s, v)
           t == Counted(r, p)
<1>1. /\ r \in States /\ r.hash = s.hash
      /\ \A x \in Slots : Alike(s.vnode[x], r.vnode[x])
      /\ r.vnode[v].nRefCount = s.vnode[v].nRefCount + 1
      /\ \A x \in Slots : x # v => r.vnode[x].nRefCount = s.vnode[x].nRefCount
  BY CountedIs, CountedFields
<1> HIDE DEF r
<1>2. /\ t \in States /\ t.hash = r.hash
      /\ \A x \in Slots : Alike(r.vnode[x], t.vnode[x])
      /\ t.vnode[p].nRefCount = r.vnode[p].nRefCount + 1
      /\ \A x \in Slots : x # p => t.vnode[x].nRefCount = r.vnode[x].nRefCount
  BY <1>1, CountedIs, CountedFields
<1> HIDE DEF t
<1>3. \A x \in Slots : s.vnode[x].nRefCount \in Nat
  BY DEF States, VNodes
<1>4. \A x \in Slots : Alike(s.vnode[x], t.vnode[x])
  BY <1>1, <1>2 DEF Alike
<1>5. ASSUME NEW x \in Slots
      PROVE  t.vnode[x].nRefCount = s.vnode[x].nRefCount + (IF x \in {v, p} THEN 1 ELSE 0)
  <2>1. CASE x = v
    BY <1>1, <1>2, <2>1
  <2>2. CASE x = p
    BY <1>1, <1>2, <2>2
  <2>3. CASE x # v /\ x # p
    BY <1>1, <1>2, <1>3, <2>3
  <2>4. QED
    BY <2>1, <2>2, <2>3
<1>6. QED
  BY <1>1, <1>2, <1>4, <1>5 DEF CountedBoth, r, t

(* vnode_open of a vnode that is open.                                     *)
LEMMA OpenedGood ==
    ASSUME NEW s, NEW g, NEW dk, Good(s, g, dk), NEW d, d \notin DOMAIN g,
           NEW v \in Slots \ {Root}, s.vnode[v].used
    PROVE  Good(CountedBoth(s, s.vnode[v].pParent, v), With(g, d, v), dk)
<1> DEFINE p == s.vnode[v].pParent
           t == CountedBoth(s, p, v)
<1>1. s \in States /\ p \in Slots /\ v \in Slots /\ p # v /\ s.vnode[p].used
  BY ParentIsOther DEF Good, Typed, TreeRight
<1> HIDE DEF p
<1>2. /\ t \in States /\ t.hash = s.hash
      /\ \A x \in Slots : Alike(s.vnode[x], t.vnode[x])
      /\ \A x \in Slots : t.vnode[x].nRefCount =
            s.vnode[x].nRefCount + (IF x \in {v, p} THEN 1 ELSE 0)
  BY <1>1, BothCounted
<1> HIDE DEF t
<1>3. p = t.vnode[v].pParent
  BY <1>1, <1>2 DEF Alike, p
<1>4. \A x \in Slots : t.vnode[x].used <=> s.vnode[x].used \/ x \in {v, p}
  BY <1>1, <1>2 DEF Alike
<1>5. \A x \in Slots : s.vnode[x].used => t.vnode[x].pParent = s.vnode[x].pParent
  BY <1>2 DEF Alike
<1>6. /\ Typed(t, With(g, d, v))
      /\ HandlesUsed(t, With(g, d, v))
      /\ CountsRight(t, With(g, d, v))
  BY <1>2, <1>3, <1>4, <1>5, CountsWith DEF Good
<1>7. TreeRight(t) /\ ChainsRight(t) /\ OnDisk(t, dk) /\ OnePerFile(t)
  BY <1>1, <1>2, AlikeKeeps DEF Good
<1>8. QED
  BY <1>6, <1>7 DEF Good, t, p

(* new_vnode and register_vnode_hash fill an empty slot and link it.       *)
LEMMA RegisteredIs ==
    ASSUME NEW s \in States, EmptySlots(s) # {}, NEW p \in Slots, NEW n \in Names,
           NEW f \in Files
    PROVE  /\ Registered(s, p, n, f).vnode \in [Slots -> VNodes]
           /\ Registered(s, p, n, f).vnode[FirstEmpty(s)] =
                 [used |-> TRUE, nRefCount |-> 0, pParent |-> p, szName |-> n, file |-> f]
           /\ \A x \in Slots : x # FirstEmpty(s) =>
                 Registered(s, p, n, f).vnode[x] = s.vnode[x]
           /\ Registered(s, p, n, f).hash \in [Buckets -> Seq(Slots)]
           /\ Registered(s, p, n, f).hash[Bucket[n]] =
                 Append(s.hash[Bucket[n]], FirstEmpty(s))
           /\ \A b \in Buckets : b # Bucket[n] => Registered(s, p, n, f).hash[b] = s.hash[b]
           /\ Registered(s, p, n, f) \in States
<1> DEFINE v == FirstEmpty(s)
           r == [used |-> TRUE, nRefCount |-> 0, pParent |-> p, szName |-> n, file |-> f]
           a == Append(s.hash[Bucket[n]], v)
           vs == [s.vnode EXCEPT ![v] = r]
           hs == [s.hash EXCEPT ![Bucket[n]] = a]
<1>1. v \in Slots /\ Bucket[n] \in Buckets
  BY FirstOnes, BucketAssumption
<1> HIDE DEF v
<1>2. r \in VNodes
  BY DEF VNodes
<1>3. s.vnode \in [Slots -> VNodes] /\ s.hash \in [Buckets -> Seq(Slots)]
  BY DEF States
<1>4. a \in Seq(Slots)
  BY <1>1, <1>3, AppendProperties
<1>5. Registered(s, p, n, f) = [vnode |-> vs, hash |-> hs]
  BY DEF Registered, v
<1> HIDE DEF r, a
<1>6. /\ vs \in [Slots -> VNodes]
      /\ vs[v] = r
      /\ \A x \in Slots : x # v => vs[x] = s.vnode[x]
  BY <1>1, <1>2, <1>3
<1>7. /\ hs \in [Buckets -> Seq(Slots)]
      /\ hs[Bucket[n]] = a
      /\ \A b \in Buckets : b # Bucket[n] => hs[b] = s.hash[b]
  BY <1>1, <1>3, <1>4
<1> HIDE DEF vs, hs
<1>8. [vnode |-> vs, hash |-> hs] \in States
  BY <1>6, <1>7 DEF States
<1>9. QED
  BY <1>5, <1>6, <1>7, <1>8 DEF r, a, v

(* A vnode made for a name that no vnode is linked for.                    *)
LEMMA RegisteredKeeps ==
    ASSUME NEW s, NEW g, NEW dk, Good(s, g, dk), EmptySlots(s) # {},
           NEW p \in Slots, s.vnode[p].used, NearRoot(s, p),
           NEW n \in Names, NEW f \in Files, NEW e,
           e.dir = s.vnode[p].file, Fold[e.name] = Fold[n], e.file = f,
           find_vnode(s, p, n) = NoVNode, DiskRight(dk \cup {e}),
           NEW r, r = Registered(s, p, n, f)
    PROVE  TreeRight(r) /\ ChainsRight(r) /\ OnDisk(r, dk \cup {e}) /\ OnePerFile(r)
<1> DEFINE v == FirstEmpty(s)
<1>1. s \in States /\ v \in Slots /\ ~ s.vnode[v].used /\ Root \in Slots
  BY FirstOnes, SlotsAre DEF Good, Typed
<1>2. s.vnode[Root].used
  <2>1. Cardinality(Holds(s, g, Root)) \in Nat
    BY HoldsFinite DEF Good
  <2>2. s.vnode[Root].nRefCount = Cardinality(Holds(s, g, Root)) + 1
    BY <1>1 DEF Good, CountsRight, Extra
  <2>3. QED
    BY <1>1, <2>1, <2>2 DEF Good, CountsRight
<1>3. /\ r.vnode[v] = [used |-> TRUE, nRefCount |-> 0, pParent |-> p, szName |-> n, file |-> f]
      /\ \A x \in Slots : x # v => r.vnode[x] = s.vnode[x]
      /\ r.hash[Bucket[n]] = Append(s.hash[Bucket[n]], v)
      /\ \A b \in Buckets : b # Bucket[n] => r.hash[b] = s.hash[b]
  BY <1>1, RegisteredIs
<1>4. v # Root /\ v # p
  BY <1>1, <1>2
<1> HIDE DEF v
<1>5. ASSUME NEW x \in Slots \ {Root}, r.vnode[x].used, x # v
      PROVE  /\ s.vnode[x].used
             /\ s.vnode[x].pParent \in Slots
             /\ s.vnode[s.vnode[x].pParent].used
             /\ s.vnode[x].pParent # v
             /\ s.vnode[x].szName \in Names
             /\ NearRoot(s, s.vnode[x].pParent)
             /\ r.vnode[x] = s.vnode[x]
             /\ r.vnode[s.vnode[x].pParent] = s.vnode[s.vnode[x].pParent]
  <2>1. s.vnode[x].used /\ r.vnode[x] = s.vnode[x]
    BY <1>3, <1>5
  <2>2. /\ s.vnode[x].pParent \in Slots /\ s.vnode[s.vnode[x].pParent].used
        /\ s.vnode[x].szName \in Names /\ NearRoot(s, s.vnode[x].pParent)
    BY <2>1 DEF Good, TreeRight
  <2>3. s.vnode[x].pParent # v
    BY <1>1, <2>2
  <2>4. QED
    BY <1>3, <2>1, <2>2, <2>3
<1>6. TreeRight(r)
  <2>1. r.vnode[Root].pParent = NoVNode /\ r.vnode[Root].file = RootDir
    BY <1>1, <1>3, <1>4 DEF Good, TreeRight
  <2>2. ASSUME NEW x \in Slots \ {Root}, r.vnode[x].used
        PROVE  /\ r.vnode[x].szName \in Names
               /\ r.vnode[x].pParent \in Slots
               /\ r.vnode[r.vnode[x].pParent].used
               /\ NearRoot(r, r.vnode[x].pParent)
    <3>1. CASE x = v
      BY <1>3, <1>4, <3>1 DEF NearRoot
    <3>2. CASE x # v
      BY <1>5, <2>2, <3>2 DEF NearRoot
    <3>3. QED
      BY <3>1, <3>2
  <2>3. QED
    BY <2>1, <2>2 DEF TreeRight
<1>7. ChainsRight(r)
  <2>1. ASSUME NEW b \in Buckets
        PROVE  PlacedAt(r, b) = PlacedAt(s, b) \cup (IF b = Bucket[n] THEN {v} ELSE {})
    <3>1. ASSUME NEW x \in Slots \ {Root}
          PROVE  x \in PlacedAt(r, b) <=>
                     x \in PlacedAt(s, b) \/ (b = Bucket[n] /\ x = v)
      <4>1. CASE x = v
        BY <1>1, <1>3, <4>1 DEF PlacedAt
      <4>2. CASE x # v
        BY <1>3, <4>2 DEF PlacedAt
      <4>3. QED
        BY <4>1, <4>2
    <3>2. QED
      BY <1>1, <1>4, <3>1 DEF PlacedAt
  <2>2. ASSUME NEW b \in Buckets
        PROVE  s.hash[b] \in Seq(Slots) /\ IsInjective(s.hash[b])
               /\ ToSet(s.hash[b]) = PlacedAt(s, b) /\ v \notin PlacedAt(s, b)
    BY <1>1 DEF Good, ChainsRight, States, PlacedAt
  <2>3. ASSUME NEW b \in Buckets
        PROVE  IsInjective(r.hash[b]) /\ ToSet(r.hash[b]) = PlacedAt(r, b)
    <3>1. CASE b = Bucket[n]
      <4>1. r.hash[b] = Append(s.hash[b], v)
        BY <1>3, <3>1
      <4>2. IsInjective(r.hash[b]) /\ ToSet(r.hash[b]) = ToSet(s.hash[b]) \cup {v}
        BY <1>1, <2>2, <4>1, AppendLink
      <4>3. QED
        BY <2>1, <2>2, <3>1, <4>2
    <3>2. CASE b # Bucket[n]
      <4>1. r.hash[b] = s.hash[b]
        BY <1>3, <3>2
      <4>2. PlacedAt(r, b) = PlacedAt(s, b)
        BY <2>1, <3>2
      <4>3. QED
        BY <2>2, <4>1, <4>2
    <3>3. QED
      BY <3>1, <3>2
  <2>4. QED
    BY <2>3 DEF ChainsRight
<1>8. IsEntryOf(r, v, e)
  BY <1>3, <1>4 DEF IsEntryOf
<1>9. ASSUME SpellingsMeet, NEW x \in Slots \ {Root}, r.vnode[x].used, x # v
      PROVE  \E g1 \in dk : IsEntryOf(s, x, g1) /\ IsEntryOf(r, x, g1)
  <2>1. PICK g1 \in dk : IsEntryOf(s, x, g1)
    BY <1>5, <1>9 DEF Good, OnDisk
  <2>2. IsEntryOf(r, x, g1)
    BY <1>5, <1>9, <2>1 DEF IsEntryOf
  <2>3. QED
    BY <2>1, <2>2
<1>10. OnDisk(r, dk \cup {e})
  BY <1>8, <1>9 DEF OnDisk
<1>11. ASSUME SpellingsMeet, NEW x \in Slots, r.vnode[x].used, x # v
       PROVE  r.vnode[x].file # f
  <2>1. CASE x = Root
    <3>1. r.vnode[x].file = RootDir
      BY <1>6, <2>1 DEF TreeRight
    <3>2. e.file # RootDir /\ e.file = f
      BY DEF DiskRight
    <3>3. QED
      BY <3>1, <3>2
  <2>2. CASE x # Root
    <3>1. SUFFICES ASSUME r.vnode[x].file = f PROVE FALSE
      OBVIOUS
    <3>2. PICK g1 \in dk : IsEntryOf(s, x, g1) /\ IsEntryOf(r, x, g1)
      BY <1>9, <1>11, <2>2
    <3>3. g1 = e
      BY <3>1, <3>2 DEF DiskRight, IsEntryOf
    <3>4. s.vnode[s.vnode[x].pParent].file = s.vnode[p].file
          /\ Fold[s.vnode[x].szName] = Fold[n]
      BY <3>2, <3>3 DEF IsEntryOf
    <3>5. /\ s.vnode[x].used
          /\ s.vnode[x].szName \in Names
          /\ s.vnode[x].pParent \in Slots
          /\ s.vnode[s.vnode[x].pParent].used
      BY <1>5, <1>11, <2>2
    <3>6. s.vnode[x].pParent = p
      BY <1>11, <3>4, <3>5 DEF Good, OnePerFile
    <3>7. Bucket[s.vnode[x].szName] = Bucket[n]
      BY <1>11, <3>4, <3>5 DEF SpellingsMeet
    <3>8. QED
      BY <2>2, <3>5, <3>6, <3>7, FindFinds
  <2>3. QED
    BY <2>1, <2>2
<1>12. OnePerFile(r)
  <2>1. SUFFICES ASSUME SpellingsMeet,
                        NEW x \in Slots, NEW y \in Slots, r.vnode[x].used, r.vnode[y].used,
                        r.vnode[x].file = r.vnode[y].file
                 PROVE  x = y
    BY DEF OnePerFile
  <2>2. r.vnode[v].file = f
    BY <1>3
  <2>3. CASE x = v \/ y = v
    BY <1>11, <2>1, <2>2, <2>3
  <2>4. CASE x # v /\ y # v
    BY <1>3, <2>1, <2>4 DEF Good, OnePerFile
  <2>5. QED
    BY <2>3, <2>4
<1>13. QED
  BY <1>6, <1>7, <1>10, <1>12

(* vnode_open and kcreate_vnode of a name that has no vnode: the vnode     *)
(* made and its directory are counted.                                     *)
LEMMA NewGood ==
    ASSUME NEW s, NEW g, NEW dk, Good(s, g, dk), EmptySlots(s) # {},
           NEW d, d \notin DOMAIN g,
           NEW p \in Slots, s.vnode[p].used, NearRoot(s, p),
           NEW n \in Names, NEW f \in Files, NEW e,
           e.dir = s.vnode[p].file, Fold[e.name] = Fold[n], e.file = f,
           find_vnode(s, p, n) = NoVNode, DiskRight(dk \cup {e})
    PROVE  Good(CountedBoth(Registered(s, p, n, f), p, FirstEmpty(s)),
                With(g, d, FirstEmpty(s)), dk \cup {e})
<1> DEFINE v == FirstEmpty(s)
           r == Registered(s, p, n, f)
           t == CountedBoth(r, p, v)
<1>1. s \in States /\ v \in Slots /\ ~ s.vnode[v].used /\ v # p
  BY FirstOnes DEF Good, Typed
<1>2. TreeRight(r) /\ ChainsRight(r) /\ OnDisk(r, dk \cup {e}) /\ OnePerFile(r)
  BY RegisteredKeeps
<1>3. /\ r \in States
      /\ r.vnode[v] = [used |-> TRUE, nRefCount |-> 0, pParent |-> p, szName |-> n, file |-> f]
      /\ \A x \in Slots : x # v => r.vnode[x] = s.vnode[x]
  BY <1>1, RegisteredIs
<1> HIDE DEF v, r
<1>4. /\ t \in States /\ t.hash = r.hash
      /\ \A x \in Slots : Alike(r.vnode[x], t.vnode[x])
      /\ \A x \in Slots : t.vnode[x].nRefCount =
            r.vnode[x].nRefCount + (IF x \in {v, p} THEN 1 ELSE 0)
  BY <1>1, <1>3, BothCounted
<1> HIDE DEF t
<1>5. TreeRight(t) /\ ChainsRight(t) /\ OnDisk(t, dk \cup {e}) /\ OnePerFile(t)
  BY <1>2, <1>3, <1>4, AlikeKeeps
<1>6. p = t.vnode[v].pParent
  BY <1>1, <1>3, <1>4 DEF Alike
<1>7. \A x \in Slots : s.vnode[x].used => t.vnode[x].pParent = s.vnode[x].pParent
  BY <1>1, <1>3, <1>4 DEF Alike
<1>8. \A x \in Slots : t.vnode[x].used <=> s.vnode[x].used \/ x \in {v, p}
  BY <1>1, <1>3, <1>4 DEF Alike
<1>9. s.vnode[v].nRefCount = 0
  <2>1. s.vnode[v].nRefCount \in Nat /\ ~ (s.vnode[v].nRefCount > 0)
    BY <1>1 DEF Good, CountsRight, States, VNodes
  <2>2. QED
    BY <2>1
<1>10. \A x \in Slots : r.vnode[x].nRefCount = s.vnode[x].nRefCount
  BY <1>1, <1>3, <1>9
<1>11. \A x \in Slots : t.vnode[x].nRefCount =
          s.vnode[x].nRefCount + (IF x \in {v, p} THEN 1 ELSE 0)
  BY <1>4, <1>10
<1>12. /\ Typed(t, With(g, d, v))
       /\ HandlesUsed(t, With(g, d, v))
       /\ CountsRight(t, With(g, d, v))
  BY <1>1, <1>4, <1>6, <1>7, <1>8, <1>11, CountsWith DEF Good
<1>13. QED
  BY <1>5, <1>12 DEF Good, t, v, r

-----------------------------------------------------------------------------
(* A handle less.                                                          *)

(* t is s with the vnodes of X counted down, those with the count 1 gone.  *)
Gone(s, X) == {x \in X : s.vnode[x].nRefCount = 1}

Closes(s, t, X) ==
    /\ t \in States
    /\ \A x \in Slots \ X : t.vnode[x] = s.vnode[x]
    /\ \A x \in X : s.vnode[x].nRefCount > 1 =>
          /\ Alike(s.vnode[x], t.vnode[x])
          /\ t.vnode[x].nRefCount = s.vnode[x].nRefCount - 1
    /\ \A x \in Gone(s, X) : t.vnode[x] = Free
    /\ \A b \in Buckets :
          IsInjective(t.hash[b]) /\ ToSet(t.hash[b]) = ToSet(s.hash[b]) \ Gone(s, X)

(* inner_vnode_close_file counts one vnode down, and frees it and takes it *)
(* out of its chain when that was the last reference.                      *)
LEMMA InnerCloses ==
    ASSUME NEW s \in States, NEW v \in Slots, s.vnode[v].nRefCount > 0,
           \A b \in Buckets : IsInjective(s.hash[b])
    PROVE  Closes(s, inner_vnode_close_file(s, v), {v})
<1> DEFINE t == inner_vnode_close_file(s, v)
<1>1. /\ s.vnode \in [Slots -> VNodes] /\ s.hash \in [Buckets -> Seq(Slots)]
      /\ s.vnode[v] \in VNodes /\ s.vnode[v].nRefCount \in Nat
      /\ s = [vnode |-> s.vnode, hash |-> s.hash]
  BY DEF States, VNodes
<1>2. CASE s.vnode[v].nRefCount > 1
  <2> DEFINE r == [s.vnode[v] EXCEPT !.nRefCount = @ - 1]
             f == [s.vnode EXCEPT ![v] = r]
  <2>1. r \in VNodes /\ Alike(s.vnode[v], r) /\ r.nRefCount = s.vnode[v].nRefCount - 1
    <3> DEFINE m == s.vnode[v].nRefCount - 1
    <3>1. m \in Nat
      BY <1>1, <1>2
    <3> HIDE DEF m
    <3>2. r = [s.vnode[v] EXCEPT !.nRefCount = m]
      BY DEF m
    <3>3. r \in VNodes /\ Alike(s.vnode[v], r) /\ r.nRefCount = m
      BY <1>1, <3>1, <3>2 DEF VNodes, Alike
    <3>4. QED
      BY <3>3 DEF m
  <2>2. t = [s EXCEPT !.vnode = f]
    BY <1>2 DEF inner_vnode_close_file
  <2> HIDE DEF r
  <2>3. f \in [Slots -> VNodes] /\ f[v] = r /\ \A x \in Slots \ {v} : f[x] = s.vnode[x]
    BY <1>1, <2>1
  <2> HIDE DEF f
  <2>4. t = [vnode |-> f, hash |-> s.hash]
    BY <1>1, <2>2
  <2> HIDE DEF t
  <2>5. t \in States /\ t.vnode = f /\ t.hash = s.hash
    BY <1>1, <2>3, <2>4 DEF States
  <2>6. Gone(s, {v}) = {}
    BY <1>1, <1>2 DEF Gone
  <2>7. QED
    BY <2>1, <2>3, <2>5, <2>6 DEF Closes, t
<1>3. CASE s.vnode[v].nRefCount = 1
  <2> DEFINE f == [s.vnode EXCEPT ![v] = Free]
             c == [b \in Buckets |-> RemoveFirst(s.hash[b], v)]
  <2>1. t = [vnode |-> f, hash |-> c]
    BY <1>3 DEF inner_vnode_close_file, Unregistered
  <2>2. Free \in VNodes
    BY SlotsAre DEF VNodes, Free
  <2>3. f \in [Slots -> VNodes] /\ f[v] = Free /\ \A x \in Slots \ {v} : f[x] = s.vnode[x]
    BY <1>1, <2>2
  <2>4. ASSUME NEW b \in Buckets
        PROVE  /\ c[b] \in Seq(Slots) /\ IsInjective(c[b])
               /\ ToSet(c[b]) = ToSet(s.hash[b]) \ {v}
    <3>1. s.hash[b] \in Seq(Slots) /\ c[b] = RemoveFirst(s.hash[b], v)
      BY <1>1
    <3> HIDE DEF c
    <3>2. QED
      BY <3>1, RemoveLink
  <2>5. c \in [Buckets -> Seq(Slots)]
    BY <2>4
  <2> HIDE DEF f, c, t
  <2>6. t \in States /\ t.vnode = f /\ t.hash = c
    BY <2>1, <2>3, <2>5 DEF States
  <2>7. Gone(s, {v}) = {v}
    BY <1>3 DEF Gone
  <2>8. ~ (s.vnode[v].nRefCount > 1)
    BY <1>3
  <2>9. \A b \in Buckets : IsInjective(t.hash[b]) /\ ToSet(t.hash[b]) = ToSet(s.hash[b]) \ {v}
    BY <2>4, <2>6
  <2>10. (\A x \in Slots \ {v} : t.vnode[x] = s.vnode[x]) /\ t.vnode[v] = Free
    BY <2>3, <2>6
  <2>11. Closes(s, t, {v})
    BY <2>6, <2>7, <2>8, <2>9, <2>10 DEF Closes
  <2>12. QED
    BY <2>11 DEF t
<1>4. QED
  BY <1>1, <1>2, <1>3

(* vnode_close of a vnode that is open counts it and its directory down.   *)
LEMMA VnodeCloses ==
    ASSUME NEW s, NEW g, NEW dk, Good(s, g, dk), NEW d \in DOMAIN g
    PROVE  Closes(s, vnode_close(s, g[d]), {x \in Slots : d \in Holds(s, g, x)})
<1> DEFINE v == g[d]
           p == s.vnode[v].pParent
           t == inner_vnode_close_file(s, v)
           X == {x \in Slots : d \in Holds(s, g, x)}
<1>1. s \in States /\ v \in Slots /\ s.vnode[v].used
  BY DEF Good, Typed, HandlesUsed
<1>2. \A b \in Buckets : IsInjective(s.hash[b])
  BY DEF Good, ChainsRight
<1>3. s.vnode[v].nRefCount > 0 /\ s.vnode[v].nRefCount # 0
  BY <1>1 DEF Good, CountsRight
<1>4. X = {x \in Slots : x = v \/ x = p}
  BY DEF Holds
<1>5. Closes(s, t, {v})
  BY <1>1, <1>2, <1>3, InnerCloses
<1>6. vnode_close(s, v) = IF p = NoVNode THEN t ELSE inner_vnode_close_file(t, p)
  BY <1>3 DEF vnode_close
<1> HIDE DEF v, p, t, X
<1>7. CASE v = Root
  <2>1. p = NoVNode /\ NoVNode \notin Slots
    BY <1>7, SlotsAre DEF Good, TreeRight, p
  <2>2. X = {v}
    BY <1>1, <1>4, <2>1
  <2>3. vnode_close(s, v) = t
    BY <1>6, <2>1
  <2>4. QED
    BY <1>5, <2>2, <2>3 DEF v, X
<1>8. CASE v # Root
  <2>1. p \in Slots /\ p # v /\ s.vnode[p].used /\ p # NoVNode
    BY <1>1, <1>8, ParentIsOther, SlotsAre DEF Good, TreeRight, p
  <2>2. X = {v, p}
    BY <1>1, <1>4, <2>1
  <2> DEFINE u == inner_vnode_close_file(t, p)
  <2>3. vnode_close(s, v) = u
    BY <1>6, <2>1
  <2>4. /\ t \in States /\ t.vnode[p] = s.vnode[p]
        /\ \A b \in Buckets : IsInjective(t.hash[b])
    BY <1>5, <2>1 DEF Closes
  <2>5. t.vnode[p].nRefCount > 0
    BY <2>1, <2>4 DEF Good, CountsRight
  <2>6. Closes(t, u, {p})
    BY <2>1, <2>4, <2>5, InnerCloses
  <2> HIDE DEF u
  <2>7. Gone(s, X) = Gone(s, {v}) \cup Gone(t, {p})
    BY <2>2, <2>4 DEF Gone
  <2>8. \A b \in Buckets : IsInjective(u.hash[b])
                           /\ ToSet(u.hash[b]) = ToSet(s.hash[b]) \ Gone(s, X)
    BY <1>5, <2>6, <2>7 DEF Closes
  <2>9. \A x \in Slots \ X : u.vnode[x] = s.vnode[x]
    BY <1>5, <2>2, <2>6 DEF Closes
  <2>10. u.vnode[v] = t.vnode[v] /\ u \in States
    BY <1>1, <2>1, <2>6 DEF Closes
  <2>11. ASSUME NEW x \in X, s.vnode[x].nRefCount > 1
         PROVE  /\ Alike(s.vnode[x], u.vnode[x])
                /\ u.vnode[x].nRefCount = s.vnode[x].nRefCount - 1
    <3>1. CASE x = v
      BY <1>5, <2>10, <2>11, <3>1 DEF Closes
    <3>2. CASE x = p
      BY <2>4, <2>6, <2>11, <3>2 DEF Closes
    <3>3. QED
      BY <2>2, <3>1, <3>2
  <2>12. \A x \in Gone(s, X) : u.vnode[x] = Free
    BY <1>5, <2>6, <2>7, <2>10 DEF Closes, Gone
  <2>13. QED
    BY <2>3, <2>8, <2>9, <2>10, <2>11, <2>12 DEF Closes, v, X
<1>9. QED
  BY <1>7, <1>8

(* A handle is closed: its vnode and its directory go only when no other   *)
(* handle holds them, and what is still in use keeps its directory.        *)
LEMMA CloseGood ==
    ASSUME NEW s, NEW g, NEW dk, Good(s, g, dk), NEW d \in DOMAIN g
    PROVE  /\ Good(vnode_close(s, g[d]), Without(g, d), dk)
           /\ \A x \in Slots : vnode_close(s, g[d]).vnode[x].used =>
                 Alike(s.vnode[x], vnode_close(s, g[d]).vnode[x])
<1> DEFINE t == vnode_close(s, g[d])
           X == {x \in Slots : d \in Holds(s, g, x)}
           h == Without(g, d)
           G == Gone(s, X)
<1>1. Closes(s, t, X)
  BY VnodeCloses
<1> HIDE DEF t
<1>2. /\ s \in States /\ IsFiniteSet(DOMAIN g) /\ g \in [DOMAIN g -> Slots] /\ Root \in Slots
      /\ \A x \in Slots : s.vnode[x] \in VNodes /\ s.vnode[x].nRefCount \in Nat
  BY SlotsAre DEF Good, Typed, States, VNodes
<1>3. /\ DOMAIN h = DOMAIN g \ {d}
      /\ \A x \in DOMAIN h : h[x] = g[x]
      /\ h \in [DOMAIN h -> Slots]
  BY <1>2 DEF Without
<1>4. Typed(t, h)
  <2>1. IsFiniteSet(DOMAIN h)
    BY <1>2, <1>3, FS_Subset
  <2>2. QED
    BY <1>1, <1>3, <2>1 DEF Typed, Closes
<1> HIDE DEF h
<1>5. ASSUME NEW x \in Slots
      PROVE  /\ IsFiniteSet(Holds(s, g, x)) /\ Cardinality(Holds(s, g, x)) \in Nat
             /\ s.vnode[x].nRefCount = Cardinality(Holds(s, g, x)) + Extra(x)
             /\ s.vnode[x].used <=> s.vnode[x].nRefCount > 0
  BY HoldsFinite DEF Good, CountsRight
<1>6. ASSUME NEW x \in X
      PROVE  /\ s.vnode[x].nRefCount > 0
             /\ s.vnode[x].used
             /\ Cardinality(Holds(s, g, x) \ {d}) = Cardinality(Holds(s, g, x)) - 1
             /\ Cardinality(Holds(s, g, x) \ {d}) \in Nat
             /\ IsFiniteSet(Holds(s, g, x) \ {d})
  <2>1. d \in Holds(s, g, x) /\ x \in Slots
    OBVIOUS
  <2>2. /\ IsFiniteSet(Holds(s, g, x) \ {d})
        /\ Cardinality(Holds(s, g, x) \ {d}) = Cardinality(Holds(s, g, x)) - 1
    BY <1>5, <2>1, FS_RemoveElement
  <2>3. Cardinality(Holds(s, g, x) \ {d}) \in Nat
    BY <2>2, FS_CardinalityType
  <2>4. s.vnode[x].nRefCount > 0
    BY <1>5, <2>1, <2>2, <2>3 DEF Extra
  <2>5. s.vnode[x].used
    BY <1>5, <2>1, <2>4
  <2>6. QED
    BY <2>2, <2>3, <2>4, <2>5
<1>7. ASSUME NEW x \in G
      PROVE  /\ x \in X
             /\ s.vnode[x].nRefCount = 1
             /\ x # Root
             /\ Holds(s, g, x) \ {d} = {}
             /\ t.vnode[x] = Free
  <2>1. x \in X /\ s.vnode[x].nRefCount = 1 /\ x \in Slots
    BY DEF Gone
  <2>2. Cardinality(Holds(s, g, x)) + Extra(x) = 1
    BY <1>5, <2>1
  <2>3. Cardinality(Holds(s, g, x) \ {d}) = Cardinality(Holds(s, g, x)) - 1
        /\ Cardinality(Holds(s, g, x) \ {d}) \in Nat
    BY <1>6, <2>1
  <2>4. Extra(x) = 0 /\ Cardinality(Holds(s, g, x) \ {d}) = 0
    BY <1>5, <2>1, <2>2, <2>3 DEF Extra
  <2>5. Holds(s, g, x) \ {d} = {}
    BY <1>6, <2>1, <2>4, FS_EmptySet
  <2>6. x # Root
    BY <2>4 DEF Extra
  <2>7. t.vnode[x] = Free
    BY <1>1 DEF Closes
  <2>8. QED
    BY <2>1, <2>5, <2>6, <2>7
<1>8. ASSUME NEW x \in Slots, x \notin G
      PROVE  /\ Alike(s.vnode[x], t.vnode[x])
             /\ t.vnode[x].nRefCount =
                   IF x \in X THEN s.vnode[x].nRefCount - 1 ELSE s.vnode[x].nRefCount
             /\ x \in X => s.vnode[x].nRefCount > 1
  <2>1. CASE x \notin X
    <3>1. t.vnode[x] = s.vnode[x]
      BY <1>1, <2>1 DEF Closes
    <3> HIDE DEF X
    <3>2. QED
      BY <2>1, <3>1 DEF Alike
  <2>2. CASE x \in X
    <3>1. s.vnode[x].nRefCount > 0 /\ s.vnode[x].nRefCount # 1 /\ s.vnode[x].nRefCount \in Nat
      BY <1>2, <1>6, <1>8, <2>2 DEF Gone
    <3>2. s.vnode[x].nRefCount > 1
      BY <3>1
    <3> HIDE DEF X
    <3>3. Alike(s.vnode[x], t.vnode[x]) /\ t.vnode[x].nRefCount = s.vnode[x].nRefCount - 1
      BY <1>1, <2>2, <3>2 DEF Closes
    <3>4. QED
      BY <2>2, <3>2, <3>3
  <2>3. QED
    BY <2>1, <2>2
<1>9. \A y \in DOMAIN h : g[y] \in Slots \ G /\ s.vnode[g[y]].pParent \notin G
  BY <1>2, <1>3, <1>7 DEF Holds
<1>10. \A y \in DOMAIN h : t.vnode[h[y]].pParent = s.vnode[g[y]].pParent
  BY <1>3, <1>8, <1>9 DEF Alike
<1>11. ASSUME NEW x \in Slots
       PROVE  Holds(t, h, x) = Holds(s, g, x) \ {d}
  BY <1>3, <1>10 DEF Holds
<1>12. HandlesUsed(t, h)
  BY <1>3, <1>8, <1>9 DEF HandlesUsed, Good, Alike
<1> HIDE DEF G
<1>13. ASSUME NEW x \in Slots
       PROVE  /\ t.vnode[x].nRefCount = Cardinality(Holds(t, h, x)) + Extra(x)
              /\ t.vnode[x].used <=> t.vnode[x].nRefCount > 0
  <2>1. CASE x \in G
    <3>1. t.vnode[x].nRefCount = 0 /\ ~ t.vnode[x].used
      BY <1>7, <2>1 DEF Free
    <3>2. Holds(t, h, x) = {} /\ Extra(x) = 0
      BY <1>7, <1>11, <2>1 DEF Extra
    <3>3. Cardinality(Holds(t, h, x)) = 0
      BY <3>2, FS_EmptySet
    <3>4. QED
      BY <3>1, <3>2, <3>3
  <2>2. CASE x \notin G /\ x \in X
    <3>1. /\ t.vnode[x].nRefCount = s.vnode[x].nRefCount - 1
          /\ s.vnode[x].nRefCount > 1
          /\ t.vnode[x].used = s.vnode[x].used
      BY <1>8, <2>2 DEF Alike
    <3>2. Cardinality(Holds(t, h, x)) = Cardinality(Holds(s, g, x)) - 1
      BY <1>6, <1>11, <2>2
    <3>3. t.vnode[x].nRefCount > 0
      BY <1>2, <3>1
    <3>4. t.vnode[x].used
      BY <1>6, <2>2, <3>1
    <3>5. t.vnode[x].nRefCount = Cardinality(Holds(t, h, x)) + Extra(x)
      BY <1>5, <3>1, <3>2 DEF Extra
    <3>6. QED
      BY <3>3, <3>4, <3>5
  <2>3. CASE x \notin X
    <3>1. x \notin G
      BY <2>3 DEF G, Gone
    <3>2. /\ t.vnode[x].nRefCount = s.vnode[x].nRefCount
          /\ t.vnode[x].used = s.vnode[x].used
      BY <1>8, <2>3, <3>1 DEF Alike
    <3>3. d \notin Holds(s, g, x)
      BY <2>3
    <3>4. Holds(t, h, x) = Holds(s, g, x)
      BY <1>11, <3>3
    <3>5. QED
      BY <1>5, <3>2, <3>4
  <2>4. QED
    BY <2>1, <2>2, <2>3
<1>14. CountsRight(t, h)
  BY <1>13 DEF CountsRight
<1>15. ASSUME NEW x \in Slots \ {Root}, t.vnode[x].used
       PROVE  /\ x \notin G
              /\ s.vnode[x].used
              /\ s.vnode[x].pParent \in Slots \ G
              /\ Alike(s.vnode[x], t.vnode[x])
              /\ Alike(s.vnode[s.vnode[x].pParent], t.vnode[s.vnode[x].pParent])
  <2> DEFINE q == s.vnode[x].pParent
  <2>1. x \notin G
    BY <1>7, <1>15 DEF Free
  <2>2. s.vnode[x].used /\ Alike(s.vnode[x], t.vnode[x])
    BY <1>8, <1>15, <2>1 DEF Alike
  <2>3. q \in Slots
    BY <2>2 DEF Good, TreeRight
  <2>4. q \notin G
    <3>1. Cardinality(Holds(t, h, x)) # 0
      <4>1. t.vnode[x].nRefCount > 0 /\ Extra(x) = 0
        BY <1>13, <1>15 DEF Extra
      <4>2. t.vnode[x].nRefCount = Cardinality(Holds(t, h, x)) + 0
        BY <1>13, <4>1
      <4>3. QED
        BY <4>1, <4>2
    <3>2. Holds(t, h, x) # {}
      BY <3>1, FS_EmptySet
    <3>3. PICK y \in DOMAIN g : y # d /\ y \in Holds(s, g, x)
      BY <1>3, <1>11, <3>2 DEF Holds
    <3>4. x = g[y] \/ x = s.vnode[g[y]].pParent
      BY <3>3 DEF Holds
    <3>5. CASE x = g[y]
      BY <1>3, <1>9, <3>3, <3>5
    <3>6. CASE x = s.vnode[g[y]].pParent
      <4>1. g[y] \in Slots /\ s.vnode[g[y]].used
        BY <1>2 DEF Good, HandlesUsed
      <4>2. g[y] # Root
        BY <3>6, SlotsAre DEF Good, TreeRight
      <4>3. NearRoot(s, x)
        BY <3>6, <4>1, <4>2 DEF Good, TreeRight
      <4>4. q = Root
        BY <4>3 DEF NearRoot
      <4>5. QED
        BY <1>7, <4>4
    <3>7. QED
      BY <3>4, <3>5, <3>6
  <2>5. QED
    BY <1>8, <2>1, <2>2, <2>3, <2>4
<1>16. Root \notin G /\ Alike(s.vnode[Root], t.vnode[Root])
  BY <1>2, <1>7, <1>8
<1>17. TreeRight(t)
  <2>1. t.vnode[Root].pParent = NoVNode /\ t.vnode[Root].file = RootDir
    BY <1>16 DEF Good, TreeRight, Alike
  <2>2. ASSUME NEW x \in Slots \ {Root}, t.vnode[x].used
        PROVE  /\ t.vnode[x].szName \in Names
               /\ t.vnode[x].pParent \in Slots
               /\ t.vnode[t.vnode[x].pParent].used
               /\ NearRoot(t, t.vnode[x].pParent)
    <3> DEFINE q == s.vnode[x].pParent
    <3>1. s.vnode[x].used /\ q \in Slots /\ t.vnode[x].pParent = q
          /\ t.vnode[x].szName = s.vnode[x].szName /\ Alike(s.vnode[q], t.vnode[q])
      BY <1>15, <2>2 DEF Alike
    <3>2. s.vnode[x].szName \in Names /\ s.vnode[q].used /\ NearRoot(s, q)
      BY <3>1 DEF Good, TreeRight
    <3> HIDE DEF q
    <3>3. QED
      BY <3>1, <3>2 DEF Alike, NearRoot
  <2>3. QED
    BY <2>1, <2>2 DEF TreeRight
<1>18. ChainsRight(t)
  <2>1. ASSUME NEW b \in Buckets
        PROVE  PlacedAt(t, b) = PlacedAt(s, b) \ G
    <3>1. ASSUME NEW x \in Slots \ {Root}
          PROVE  x \in PlacedAt(t, b) <=> x \in PlacedAt(s, b) /\ x \notin G
      <4>1. CASE x \in G
        BY <1>7, <4>1 DEF PlacedAt, Free
      <4>2. CASE x \notin G
        BY <1>8, <4>2 DEF PlacedAt, Alike
      <4>3. QED
        BY <4>1, <4>2
    <3>2. QED
      BY <3>1 DEF PlacedAt
  <2>2. QED
    BY <1>1, <2>1 DEF ChainsRight, Closes, Good, G
<1>19. OnDisk(t, dk)
  <2>1. ASSUME NEW x \in Slots \ {Root}, t.vnode[x].used
        PROVE  s.vnode[x].used /\ \A e : IsEntryOf(s, x, e) => IsEntryOf(t, x, e)
    BY <1>15, <2>1 DEF IsEntryOf, Alike
  <2>2. QED
    BY <2>1 DEF OnDisk, Good
<1>20. ASSUME NEW x \in Slots, t.vnode[x].used
       PROVE  Alike(s.vnode[x], t.vnode[x])
  <2>1. x \notin G
    BY <1>7, <1>20 DEF Free
  <2>2. QED
    BY <1>8, <2>1
<1>21. OnePerFile(t)
  BY <1>20 DEF OnePerFile, Good, Alike
<1>22. QED
  BY <1>4, <1>12, <1>14, <1>17, <1>18, <1>19, <1>20, <1>21 DEF Good, t, h

-----------------------------------------------------------------------------
(* Paths.                                                                  *)

(* A handle that is closed leaves the others.                              *)
LEMMA HandlesAre ==
    ASSUME NEW s, NEW g, Typed(s, g), NEW d, d \notin DOMAIN g, NEW v
    PROVE  /\ d \in DOMAIN With(g, d, v) /\ With(g, d, v)[d] = v
           /\ Without(With(g, d, v), d) = g
           /\ \A c, w : c \notin DOMAIN g /\ c # d =>
                 /\ c \notin DOMAIN With(g, d, v)
                 /\ d \in DOMAIN With(With(g, d, v), c, w)
                 /\ With(With(g, d, v), c, w)[d] = v
                 /\ Without(With(With(g, d, v), c, w), d) = With(g, c, w)
<1>1. g = [x \in DOMAIN g |-> g[x]]
  BY DEF Typed
<1>2. Without(With(g, d, v), d) = g
  <2>1. DOMAIN With(g, d, v) \ {d} = DOMAIN g
    BY DEF With
  <2>2. \A x \in DOMAIN g : With(g, d, v)[x] = g[x]
    BY DEF With
  <2>3. QED
    BY <1>1, <2>1, <2>2 DEF Without
<1>3. d \in DOMAIN With(g, d, v) /\ With(g, d, v)[d] = v
  BY DEF With
<1>4. ASSUME NEW c, NEW w, c \notin DOMAIN g, c # d
      PROVE  /\ c \notin DOMAIN With(g, d, v)
             /\ d \in DOMAIN With(With(g, d, v), c, w)
             /\ With(With(g, d, v), c, w)[d] = v
             /\ Without(With(With(g, d, v), c, w), d) = With(g, c, w)
  <2> DEFINE h == With(g, d, v)
             k == With(h, c, w)
  <2>1. DOMAIN h = DOMAIN g \cup {d} /\ h[d] = v /\ \A x \in DOMAIN g : h[x] = g[x]
    BY DEF With
  <2> HIDE DEF h
  <2>2. /\ DOMAIN k = DOMAIN g \cup {c, d}
        /\ k[c] = w /\ k[d] = v /\ \A x \in DOMAIN g : k[x] = g[x]
    BY <1>4, <2>1 DEF With
  <2> HIDE DEF k
  <2>3. DOMAIN k \ {d} = DOMAIN g \cup {c}
    BY <1>4, <2>2
  <2>4. \A x \in DOMAIN g \cup {c} : k[x] = IF x = c THEN w ELSE g[x]
    BY <1>4, <2>2
  <2>5. Without(k, d) = With(g, c, w)
    BY <2>3, <2>4 DEF Without, With
  <2>6. QED
    BY <1>4, <2>1, <2>2, <2>5 DEF h, k
<1>5. QED
  BY <1>2, <1>3, <1>4

(* vnode_open below a vnode in use that is the root or just below it: it   *)
(* gives one reference more, or nothing changes.                           *)
LEMMA OpenGood ==
    ASSUME NEW s, NEW g, Good(s, g, disk), NEW d, d \notin DOMAIN g,
           NEW p \in Slots, s.vnode[p].used, NearRoot(s, p), NEW n \in Names,
           NEW o, o = vnode_open(s, p, n)
    PROVE  /\ o.v = NoVNode => o.s = s /\ find_vnode(s, p, n) = NoVNode
           /\ o.v # NoVNode => /\ o.v \in Slots
                               /\ Good(o.s, With(g, d, o.v), disk)
                               /\ o.s.vnode[o.v].pParent = p
           /\ o.v = NoVNode /\ EmptySlots(s) # {} => EntriesOf(s, p, n) = {}
<1> DEFINE v == find_vnode(s, p, n)
           e == CHOOSE x \in EntriesOf(s, p, n) : TRUE
           w == FirstEmpty(s)
<1>1. s \in States
  BY DEF Good, Typed
<1>2. CASE v # NoVNode
  <2>1. v \in Slots \ {Root} /\ s.vnode[v].used /\ s.vnode[v].pParent = p
    BY <1>2, FindFinds
  <2>2. o = [s |-> CountedBoth(s, p, v), v |-> v]
    BY <1>2 DEF vnode_open
  <2> HIDE DEF v
  <2>3. Good(CountedBoth(s, p, v), With(g, d, v), disk)
    BY <2>1, OpenedGood
  <2>4. CountedBoth(s, p, v).vnode[v].pParent = p
    <3>1. p # v
      BY <2>1, ParentIsOther DEF Good
    <3>2. QED
      BY <1>1, <2>1, <3>1, BothCounted DEF Alike
  <2>5. QED
    BY <1>2, <2>1, <2>2, <2>3, <2>4, SlotsAre
<1>3. CASE v = NoVNode /\ ~ CanOpenNew(s, p, n)
  BY <1>3 DEF vnode_open, CanOpenNew
<1>4. CASE v = NoVNode /\ CanOpenNew(s, p, n)
  <2>1. EmptySlots(s) # {} /\ e \in EntriesOf(s, p, n)
    BY <1>4 DEF CanOpenNew
  <2>2. o = [s |-> CountedBoth(Registered(s, p, n, e.file), p, w), v |-> w]
    BY <1>4 DEF vnode_open
  <2>3. v = NoVNode
    BY <1>4
  <2> HIDE DEF e, v
  <2>4. e \in disk /\ e.dir = s.vnode[p].file /\ Fold[e.name] = Fold[n] /\ disk \subseteq Entries
    BY <2>1 DEF EntriesOf, Good, DiskRight
  <2>5. e.dir = s.vnode[p].file /\ Fold[e.name] = Fold[n] /\ e.file \in Files
    BY <2>4 DEF Entries
  <2>6. disk \cup {e} = disk
    BY <2>4
  <2>7. DiskRight(disk \cup {e})
    BY <2>6 DEF Good
  <2>8. Good(CountedBoth(Registered(s, p, n, e.file), p, w), With(g, d, w), disk \cup {e})
    BY <2>1, <2>3, <2>5, <2>7, NewGood DEF v
  <2>9. w \in Slots /\ w # p /\ w # NoVNode
    BY <2>1, FirstOnes, SlotsAre
  <2>10. CountedBoth(Registered(s, p, n, e.file), p, w).vnode[w].pParent = p
    <3> DEFINE r == Registered(s, p, n, e.file)
    <3>1. r \in States /\ r.vnode[w] =
             [used |-> TRUE, nRefCount |-> 0, pParent |-> p, szName |-> n, file |-> e.file]
      BY <1>1, <2>1, <2>5, RegisteredIs
    <3> HIDE DEF r, w
    <3>2. Alike(r.vnode[w], CountedBoth(r, p, w).vnode[w])
      BY <2>9, <3>1, BothCounted
    <3>3. QED
      BY <3>1, <3>2 DEF Alike, r
  <2>11. QED
    BY <2>2, <2>6, <2>8, <2>9, <2>10
<1>5. QED
  BY <1>2, <1>3, <1>4

(* tunnel_path: a handle d on the directory of the path, or nothing.       *)
LEMMA TunnelGood ==
    ASSUME NEW s, NEW g, Good(s, g, disk), NEW dir \in Dirs,
           NEW c, NEW d, c # d, c \notin DOMAIN g, d \notin DOMAIN g,
           NEW t, t = tunnel_path(s, dir)
    PROVE  /\ t.v = NoVNode => Good(t.s, g, disk)
           /\ t.v # NoVNode => /\ t.v \in Slots
                               /\ Good(t.s, With(g, d, t.v), disk)
                               /\ NearRoot(t.s, t.v)
                               /\ t.s.vnode[t.v].used
<1> DEFINE r == Counted(s, Root)
           o == vnode_open(r, Root, dir[1])
           u == vnode_close(o.s, Root)
<1>1. Typed(s, g) /\ Root \in Slots /\ NoVNode \notin Slots
  BY SlotsAre DEF Good
<1>2. CASE dir = <<>>
  <2>1. t = [s |-> r, v |-> Root]
    BY <1>2 DEF tunnel_path
  <2>2. Good(r, With(g, d, Root), disk)
    BY RootOpened
  <2> HIDE DEF r
  <2>3. r.vnode[Root].used
    BY <1>1, <2>2, HandlesAre DEF Good, HandlesUsed
  <2>4. QED
    BY <1>1, <2>1, <2>2, <2>3 DEF NearRoot
<1>3. CASE dir # <<>>
  <2> DEFINE h == With(g, c, Root)
  <2>1. t = [s |-> u, v |-> o.v] /\ dir[1] \in Names
    BY <1>3, DirsAssumption DEF tunnel_path
  <2>2. Good(r, h, disk)
    BY RootOpened
  <2>3. c \in DOMAIN h /\ h[c] = Root /\ d \notin DOMAIN h /\ Without(h, c) = g
    BY <1>1, HandlesAre
  <2> HIDE DEF r, h
  <2>4. r.vnode[Root].used
    BY <2>2, <2>3 DEF Good, HandlesUsed
  <2>5. /\ o.v = NoVNode => o.s = r
        /\ o.v # NoVNode => /\ o.v \in Slots
                            /\ Good(o.s, With(h, d, o.v), disk)
                            /\ o.s.vnode[o.v].pParent = Root
    BY <1>1, <2>1, <2>2, <2>3, <2>4, OpenGood DEF NearRoot
  <2> HIDE DEF o
  <2>6. CASE o.v = NoVNode
    <3>1. Good(u, g, disk)
      BY <2>2, <2>3, <2>5, <2>6, CloseGood
    <3>2. QED
      BY <2>1, <2>6, <3>1
  <2>7. CASE o.v # NoVNode
    <3> DEFINE k == With(h, d, o.v)
    <3>1. /\ c \in DOMAIN k /\ k[c] = Root
          /\ Without(k, c) = With(g, d, o.v)
      BY <1>1, HandlesAre DEF h
    <3>2. Good(o.s, k, disk)
      BY <2>5, <2>7
    <3> HIDE DEF k
    <3>3. /\ Good(u, With(g, d, o.v), disk)
          /\ \A x \in Slots : u.vnode[x].used => Alike(o.s.vnode[x], u.vnode[x])
      BY <3>1, <3>2, CloseGood
    <3> HIDE DEF u
    <3>4. u.vnode[o.v].used
      BY <1>1, <3>3, HandlesAre DEF Good, HandlesUsed
    <3>5. u.vnode[o.v].pParent = Root
      BY <2>5, <2>7, <3>3, <3>4 DEF Alike
    <3>6. QED
      BY <2>1, <2>5, <2>7, <3>3, <3>4, <3>5 DEF NearRoot
  <2>8. QED
    BY <2>6, <2>7
<1>4. QED
  BY <1>2, <1>3

-----------------------------------------------------------------------------
(* Entries of the disk.                                                    *)

(* Where spellings meet, a name that find_vnode does not find is not that  *)
(* of a vnode in use.                                                      *)
LEMMA NotNamed ==
    ASSUME NEW s, NEW g, Good(s, g, disk), NEW p \in Slots, s.vnode[p].used, NEW n \in Names,
           find_vnode(s, p, n) = NoVNode, SpellingsMeet,
           NEW x \in Slots \ {Root}, s.vnode[x].used
    PROVE  \E e \in disk \ EntriesOf(s, p, n) : IsEntryOf(s, x, e)
<1>1. PICK e \in disk : IsEntryOf(s, x, e)
  BY DEF Good, OnDisk
<1>2. SUFFICES ASSUME e \in EntriesOf(s, p, n) PROVE FALSE
  BY <1>1
<1>3. s.vnode[s.vnode[x].pParent].file = s.vnode[p].file
      /\ Fold[s.vnode[x].szName] = Fold[n]
  BY <1>1, <1>2 DEF EntriesOf, IsEntryOf
<1>4. /\ s.vnode[x].szName \in Names
      /\ s.vnode[x].pParent \in Slots
      /\ s.vnode[s.vnode[x].pParent].used
  BY DEF Good, TreeRight
<1>5. s.vnode[x].pParent = p
  BY <1>3, <1>4 DEF Good, OnePerFile
<1>6. Bucket[s.vnode[x].szName] = Bucket[n]
  BY <1>3, <1>4 DEF SpellingsMeet
<1>7. QED
  BY <1>5, <1>6, FindFinds

(* kremove of a name that is not open.                                     *)
LEMMA RemovedGood ==
    ASSUME NEW s, NEW g, Good(s, g, disk), NEW p \in Slots, s.vnode[p].used, NEW n \in Names,
           find_vnode(s, p, n) = NoVNode
    PROVE  Good(s, g, disk \ EntriesOf(s, p, n))
<1>1. DiskRight(disk \ EntriesOf(s, p, n))
  BY DEF Good, DiskRight
<1>2. OnDisk(s, disk \ EntriesOf(s, p, n))
  BY NotNamed DEF OnDisk
<1>3. QED
  BY <1>1, <1>2 DEF Good

(* krename of a name that is not open.                                     *)
LEMMA RenamedGood ==
    ASSUME NEW s, NEW g, Good(s, g, disk), NEW p \in Slots, s.vnode[p].used, NEW q \in Slots,
           NEW n \in Names, NEW m \in Names, find_vnode(s, p, n) = NoVNode,
           EntriesOf(s, q, m) = {}
    PROVE  Good(s, g, Renamed(s, p, n, q, m))
<1> DEFINE E == EntriesOf(s, p, n)
           New(e) == [dir |-> s.vnode[q].file, name |-> m, file |-> e.file]
           R == Renamed(s, p, n, q, m)
<1>1. DiskRight(disk) /\ E \subseteq disk
  BY DEF Good, EntriesOf
<1>2. R = (disk \ E) \cup {New(e) : e \in E}
  BY DEF Renamed
<1>3. s.vnode[q].file \in Files
  BY DEF Good, Typed, States, VNodes
<1> HIDE DEF E, R
<1>4. \A x \in R : \E e \in disk :
         /\ x.file = e.file
         /\ e \notin E => x = e
         /\ e \in E => x = New(e)
         /\ x \in Entries
  <2>1. ASSUME NEW e \in E
        PROVE  New(e) \in Entries /\ New(e).file = e.file
    BY <1>1, <1>3 DEF DiskRight, Entries
  <2>2. QED
    BY <1>1, <1>2, <2>1 DEF DiskRight
<1>5. DiskRight(R)
  <2>1. R \subseteq Entries /\ \A x \in R : x.file # RootDir
    BY <1>1, <1>4 DEF DiskRight
  <2>2. ASSUME NEW x \in R, NEW y \in R, x.file = y.file
        PROVE  x = y
    <3>1. PICK e \in disk : x.file = e.file /\ (e \notin E => x = e) /\ (e \in E => x = New(e))
      BY <1>4
    <3>2. PICK f \in disk : y.file = f.file /\ (f \notin E => y = f) /\ (f \in E => y = New(f))
      BY <1>4
    <3>3. e = f
      BY <1>1, <2>2, <3>1, <3>2 DEF DiskRight
    <3>4. QED
      BY <3>1, <3>2, <3>3
  <2>3. ASSUME NEW x \in R, NEW y \in R, x.dir = y.dir, Fold[x.name] = Fold[y.name]
        PROVE  x = y
    <3>1. PICK e \in disk : x.file = e.file /\ (e \notin E => x = e) /\ (e \in E => x = New(e))
      BY <1>4
    <3>2. PICK f \in disk : y.file = f.file /\ (f \notin E => y = f) /\ (f \in E => y = New(f))
      BY <1>4
    <3>3. \A z \in disk : ~ (z.dir = s.vnode[q].file /\ Fold[z.name] = Fold[m])
      BY DEF EntriesOf
    <3>4. CASE e \in E /\ f \in E
      <4>1. e.dir = f.dir /\ Fold[e.name] = Fold[f.name]
        BY <3>4 DEF EntriesOf, E
      <4>2. e = f
        BY <1>1, <4>1 DEF DiskRight
      <4>3. QED
        BY <3>1, <3>2, <3>4, <4>2
    <3>5. CASE e \notin E /\ f \notin E
      BY <1>1, <2>3, <3>1, <3>2, <3>5 DEF DiskRight
    <3>6. CASE e \in E /\ f \notin E
      <4>1. x = New(e) /\ y = f
        BY <3>1, <3>2, <3>6
      <4>2. f.dir = s.vnode[q].file /\ Fold[f.name] = Fold[m]
        BY <2>3, <4>1
      <4>3. QED
        BY <3>3, <4>2
    <3>7. CASE e \notin E /\ f \in E
      <4>1. x = e /\ y = New(f)
        BY <3>1, <3>2, <3>7
      <4>2. e.dir = s.vnode[q].file /\ Fold[e.name] = Fold[m]
        BY <2>3, <4>1
      <4>3. QED
        BY <3>3, <4>2
    <3>8. QED
      BY <3>4, <3>5, <3>6, <3>7
  <2>4. QED
    BY <2>1, <2>2, <2>3 DEF DiskRight
<1>6. OnDisk(s, R)
  <2>1. disk \ E \subseteq R
    BY <1>2
  <2>2. QED
    BY <2>1, NotNamed DEF OnDisk, E
<1>7. QED
  BY <1>5, <1>6 DEF Good, R

-----------------------------------------------------------------------------
(* The calls.                                                              *)

(* The references of a call that are not descriptors: those of krename to  *)
(* the two directories, or that of another call to one, and one that lasts *)
(* for a step of the walk or of a failing call.                            *)
Dir1 == MaxFD
Dir2 == MaxFD + 1
Step == MaxFD + 2

LEMMA OpenFDsAre ==
    ASSUME fd \in [FDs -> Slots \cup {NoVNode}]
    PROVE  /\ Dir1 \notin DOMAIN OpenFDs /\ Dir2 \notin DOMAIN OpenFDs
           /\ Step \notin DOMAIN OpenFDs
           /\ Dir1 # Dir2 /\ Dir1 # Step /\ Dir2 # Step
           /\ FreeFDs # {} => /\ FirstFD \in FDs /\ FirstFD \notin DOMAIN OpenFDs
                              /\ FirstFD # Dir1
           /\ \A i \in FDs : fd[i] # NoVNode => i \in DOMAIN OpenFDs /\ OpenFDs[i] = fd[i]
<1>1. DOMAIN OpenFDs = {j \in FDs : fd[j] # NoVNode} /\ MaxFD \in Nat
  BY BoundAssumption DEF OpenFDs
<1>2. \A i \in FDs : i # Dir1 /\ i # Dir2 /\ i # Step
  BY <1>1 DEF FDs, Dir1, Dir2, Step
<1>3. Dir1 # Dir2 /\ Dir1 # Step /\ Dir2 # Step
  BY <1>1 DEF Dir1, Dir2, Step
<1>4. QED
  BY <1>1, <1>2, <1>3, FirstOnes DEF OpenFDs

(* The state a call leaves.                                                *)
LEMMA BecomesNow ==
    ASSUME NEW s, NEW g, NEW dk, Good(s, g, dk), Becomes(s)
    PROVE  Now' = s
<1>1. s \in States
  BY DEF Good, Typed
<1>2. QED
  BY <1>1 DEF Becomes, Now, States

(* A call without a new descriptor.                                        *)
LEMMA NoneGiven ==
    ASSUME IInv, NEW s, Becomes(s), UNCHANGED fd, Good(s, OpenFDs, disk')
    PROVE  IInv'
<1>1. Now' = s
  BY BecomesNow
<1>2. OpenFDs' = OpenFDs
  BY DEF OpenFDs
<1>3. QED
  BY <1>1, <1>2 DEF IInv

(* A call that gives a descriptor.                                         *)
LEMMA OneGiven ==
    ASSUME IInv, FreeFDs # {}, NEW s, NEW v \in Slots, Gives(s, v),
           Good(s, With(OpenFDs, FirstFD, v), disk')
    PROVE  IInv'
<1> DEFINE i == FirstFD
<1>1. Now' = s
  BY BecomesNow DEF Gives
<1>2. i \in FDs /\ fd' = [fd EXCEPT ![i] = v] /\ fd \in [FDs -> Slots \cup {NoVNode}] /\ v # NoVNode
  BY FirstOnes, SlotsAre DEF Gives, IInv
<1> HIDE DEF i
<1>3. fd' \in [FDs -> Slots \cup {NoVNode}]
  BY <1>2
<1>4. OpenFDs' = With(OpenFDs, i, v)
  <2>1. {j \in FDs : fd'[j] # NoVNode} = {j \in FDs : fd[j] # NoVNode} \cup {i}
    BY <1>2
  <2>2. \A j \in {k \in FDs : fd[k] # NoVNode} \cup {i} :
           fd'[j] = IF j = i THEN v ELSE OpenFDs[j]
    BY <1>2 DEF OpenFDs
  <2>3. DOMAIN OpenFDs = {j \in FDs : fd[j] # NoVNode}
    BY DEF OpenFDs
  <2>4. OpenFDs' = [j \in {k \in FDs : fd'[k] # NoVNode} |-> fd'[j]]
    BY DEF OpenFDs
  <2>5. QED
    BY <2>1, <2>2, <2>3, <2>4 DEF With
<1>5. QED
  BY <1>1, <1>3, <1>4 DEF IInv, i

(* kopen of the root.                                                      *)
LEMMA OpenRootStep ==
    ASSUME IInv, OpenRoot
    PROVE  IInv'
<1>1. Good(Now, OpenFDs, disk) /\ FreeFDs # {} /\ FirstFD \notin DOMAIN OpenFDs /\ Root \in Slots
  BY OpenFDsAre, SlotsAre DEF IInv, OpenRoot
<1>2. Good(Counted(Now, Root), With(OpenFDs, FirstFD, Root), disk)
  BY <1>1, RootOpened
<1>3. QED
  BY <1>1, <1>2, OneGiven DEF OpenRoot

(* kclose.                                                                 *)
LEMMA CloseStep ==
    ASSUME IInv, NEW i \in FDs, Close(i)
    PROVE  IInv'
<1> DEFINE s == vnode_close(Now, fd[i])
<1>1. /\ fd \in [FDs -> Slots \cup {NoVNode}] /\ Good(Now, OpenFDs, disk)
      /\ i \in DOMAIN OpenFDs /\ OpenFDs[i] = fd[i]
      /\ Becomes(s) /\ fd' = [fd EXCEPT ![i] = NoVNode] /\ disk' = disk
  BY OpenFDsAre DEF IInv, Close
<1>2. Good(s, Without(OpenFDs, i), disk)
  BY <1>1, CloseGood
<1> HIDE DEF s
<1>3. Now' = s
  BY <1>1, <1>2, BecomesNow
<1>4. OpenFDs' = Without(OpenFDs, i)
  <2>1. {j \in FDs : fd'[j] # NoVNode} = {j \in FDs : fd[j] # NoVNode} \ {i}
    BY <1>1
  <2>2. \A j \in {k \in FDs : fd[k] # NoVNode} \ {i} : fd'[j] = OpenFDs[j]
    BY <1>1 DEF OpenFDs
  <2>3. DOMAIN OpenFDs = {j \in FDs : fd[j] # NoVNode}
    BY DEF OpenFDs
  <2>4. OpenFDs' = [j \in {k \in FDs : fd'[k] # NoVNode} |-> fd'[j]]
    BY DEF OpenFDs
  <2>5. QED
    BY <2>1, <2>2, <2>3, <2>4 DEF Without
<1>5. fd' \in [FDs -> Slots \cup {NoVNode}]
  BY <1>1
<1>6. QED
  BY <1>1, <1>2, <1>3, <1>4, <1>5 DEF IInv

(* The first step of a call with a path: the directory is open at Dir1.    *)
LEMMA DirOpened ==
    ASSUME IInv, NEW dir \in Dirs, NEW t, t = tunnel_path(Now, dir)
    PROVE  /\ t.v = NoVNode => Good(t.s, OpenFDs, disk)
           /\ t.v # NoVNode => /\ t.v \in Slots
                               /\ Good(t.s, With(OpenFDs, Dir1, t.v), disk)
                               /\ NearRoot(t.s, t.v)
                               /\ t.s.vnode[t.v].used
BY OpenFDsAre, TunnelGood DEF IInv

(* The last step of such a call: the directory is closed.                  *)
LEMMA DirClosed ==
    ASSUME NEW s, NEW v, NEW g, NEW d, NEW dk, Typed(s, g),
           NEW z, d \notin DOMAIN g, Good(z, With(g, d, v), dk)
    PROVE  Good(vnode_close(z, v), g, dk)
<1>1. d \in DOMAIN With(g, d, v) /\ With(g, d, v)[d] = v /\ Without(With(g, d, v), d) = g
  BY HandlesAre
<1>2. QED
  BY <1>1, CloseGood

(* The same when the call has made a reference since.                      *)
LEMMA DirClosedUnder ==
    ASSUME NEW s, NEW v, NEW g, NEW d, NEW dk, Typed(s, g), NEW c, NEW w, NEW z,
           d \notin DOMAIN g, c \notin DOMAIN g, c # d,
           Good(z, With(With(g, d, v), c, w), dk)
    PROVE  Good(vnode_close(z, v), With(g, c, w), dk)
<1> DEFINE k == With(With(g, d, v), c, w)
<1>1. d \in DOMAIN k /\ k[d] = v /\ Without(k, d) = With(g, c, w)
  BY HandlesAre
<1> HIDE DEF k
<1>2. QED
  BY <1>1, CloseGood DEF k

(* kopen and kopendir.                                                     *)
LEMMA OpenStep ==
    ASSUME IInv, NEW dir \in Dirs, NEW n \in Names, Open(dir, n)
    PROVE  IInv'
<1> DEFINE t == tunnel_path(Now, dir)
           o == vnode_open(t.s, t.v, n)
           g == OpenFDs
           h == With(g, Dir1, t.v)
<1>1. /\ FreeFDs # {} /\ FirstFD \notin DOMAIN g /\ Dir1 \notin DOMAIN g /\ FirstFD # Dir1
      /\ Typed(Now, g)
  BY OpenFDsAre DEF IInv, Open, Good
<1>2. \/ t.v = NoVNode /\ Fails(t.s)
      \/ t.v # NoVNode /\ o.v = NoVNode /\ Fails(vnode_close(t.s, t.v))
      \/ t.v # NoVNode /\ o.v # NoVNode /\ Gives(vnode_close(o.s, t.v), o.v) /\ disk' = disk
  BY DEF Open
<1> HIDE DEF t
<1>3. /\ t.v = NoVNode => Good(t.s, g, disk)
      /\ t.v # NoVNode => /\ t.v \in Slots
                          /\ Good(t.s, h, disk)
                          /\ NearRoot(t.s, t.v)
                          /\ t.s.vnode[t.v].used
  BY DirOpened DEF t
<1> HIDE DEF o
<1>4. CASE t.v = NoVNode /\ Fails(t.s)
  BY <1>3, <1>4, NoneGiven DEF Fails
<1>5. CASE t.v # NoVNode /\ o.v = NoVNode /\ Fails(vnode_close(t.s, t.v))
  <2>1. Good(vnode_close(t.s, t.v), g, disk)
    BY <1>1, <1>3, <1>5, DirClosed
  <2>2. QED
    BY <1>5, <2>1, NoneGiven DEF Fails
<1>6. CASE /\ t.v # NoVNode /\ o.v # NoVNode /\ Gives(vnode_close(o.s, t.v), o.v)
           /\ disk' = disk
  <2>1. FirstFD \notin DOMAIN h
    BY <1>1, HandlesAre
  <2>2. o.v \in Slots /\ Good(o.s, With(h, FirstFD, o.v), disk)
    BY <1>3, <1>6, <2>1, OpenGood DEF o
  <2>3. Good(vnode_close(o.s, t.v), With(g, FirstFD, o.v), disk)
    BY <1>1, <2>2, DirClosedUnder
  <2>4. QED
    BY <1>1, <1>6, <2>2, <2>3, OneGiven
<1>7. QED
  BY <1>2, <1>4, <1>5, <1>6

(* kcreate and kmkdir.                                                     *)
LEMMA CreateStep ==
    ASSUME IInv, NEW dir \in Dirs, NEW n \in Names, Create(dir, n)
    PROVE  IInv'
<1> DEFINE t == tunnel_path(Now, dir)
           o == vnode_open(t.s, t.v, n)
           v == FirstEmpty(t.s)
           f == FirstFree
           e == [dir |-> t.s.vnode[t.v].file, name |-> n, file |-> f]
           new == CountedBoth(Registered(t.s, t.v, n, f), t.v, v)
           g == OpenFDs
           h == With(g, Dir1, t.v)
<1>1. /\ FreeFDs # {} /\ FirstFD \notin DOMAIN g /\ Dir1 \notin DOMAIN g /\ FirstFD # Dir1
      /\ Step \notin DOMAIN g /\ Dir1 # Step /\ Typed(Now, g)
  BY OpenFDsAre DEF IInv, Create, Good
<1>2. \/ t.v = NoVNode /\ Fails(t.s)
      \/ t.v # NoVNode /\ o.v # NoVNode /\ Fails(vnode_close(vnode_close(o.s, o.v), t.v))
      \/ t.v # NoVNode /\ o.v = NoVNode /\ Fails(vnode_close(t.s, t.v))
      \/ /\ t.v # NoVNode /\ o.v = NoVNode
         /\ EmptySlots(t.s) # {} /\ FreeFiles # {}
         /\ Gives(vnode_close(new, t.v), v)
         /\ disk' = disk \cup {e}
  BY DEF Create
<1> HIDE DEF t
<1>3. /\ t.v = NoVNode => Good(t.s, g, disk)
      /\ t.v # NoVNode => /\ t.v \in Slots
                          /\ Good(t.s, h, disk)
                          /\ NearRoot(t.s, t.v)
                          /\ t.s.vnode[t.v].used
  BY DirOpened DEF t
<1>4. FirstFD \notin DOMAIN h /\ Step \notin DOMAIN h
  BY <1>1, HandlesAre
<1>5. t.v # NoVNode =>
         /\ o.v = NoVNode => find_vnode(t.s, t.v, n) = NoVNode
         /\ o.v = NoVNode /\ EmptySlots(t.s) # {} => EntriesOf(t.s, t.v, n) = {}
         /\ o.v # NoVNode => o.v \in Slots /\ Good(o.s, With(h, Step, o.v), disk)
  BY <1>3, <1>4, OpenGood
<1> HIDE DEF o, new, v, e
<1>6. CASE t.v = NoVNode /\ Fails(t.s)
  BY <1>3, <1>6, NoneGiven DEF Fails
<1>7. CASE /\ t.v # NoVNode /\ o.v # NoVNode
           /\ Fails(vnode_close(vnode_close(o.s, o.v), t.v))
  <2>1. Typed(t.s, h)
    BY <1>3, <1>7 DEF Good
  <2>2. Good(vnode_close(o.s, o.v), h, disk)
    <3> HIDE DEF h
    <3>1. QED
      BY <1>4, <1>5, <1>7, <2>1, DirClosed
  <2>3. Good(vnode_close(vnode_close(o.s, o.v), t.v), g, disk)
    BY <1>1, <2>2, DirClosed
  <2>4. QED
    BY <1>7, <2>3, NoneGiven DEF Fails
<1>8. CASE t.v # NoVNode /\ o.v = NoVNode /\ Fails(vnode_close(t.s, t.v))
  <2>1. Good(vnode_close(t.s, t.v), g, disk)
    BY <1>1, <1>3, <1>8, DirClosed
  <2>2. QED
    BY <1>8, <2>1, NoneGiven DEF Fails
<1>9. CASE /\ t.v # NoVNode /\ o.v = NoVNode
           /\ EmptySlots(t.s) # {} /\ FreeFiles # {}
           /\ Gives(vnode_close(new, t.v), v)
           /\ disk' = disk \cup {e}
  <2>1. /\ f \in Files /\ f # RootDir
        /\ \A x \in disk : x.file # f
    BY <1>9, FirstOnes DEF FreeFiles
  <2>2. v \in Slots
    BY <1>9, FirstOnes DEF v
  <2>3. DiskRight(disk)
    BY DEF IInv, Good
  <2>4. t.s.vnode[t.v].file \in Files
    BY <1>3, <1>9 DEF Good, Typed, States, VNodes
  <2> HIDE DEF f
  <2>5. e \in Entries /\ e.file = f /\ e.dir = t.s.vnode[t.v].file /\ e.name = n
    BY <2>1, <2>4 DEF Entries, e
  <2>6. DiskRight(disk \cup {e})
    <3>1. \A x \in disk : ~ (x.dir = e.dir /\ Fold[x.name] = Fold[e.name])
      BY <1>5, <1>9, <2>5 DEF EntriesOf
    <3>2. QED
      BY <2>1, <2>3, <2>5, <3>1 DEF DiskRight
  <2>7. Good(new, With(h, FirstFD, v), disk \cup {e})
    <3> HIDE DEF h
    <3>1. QED
      BY <1>3, <1>4, <1>5, <1>9, <2>1, <2>5, <2>6, NewGood DEF new, v
  <2>8. Good(vnode_close(new, t.v), With(g, FirstFD, v), disk \cup {e})
    BY <1>1, <2>7, DirClosedUnder
  <2>9. QED
    BY <1>1, <1>9, <2>2, <2>8, OneGiven
<1>10. QED
  BY <1>2, <1>6, <1>7, <1>8, <1>9

(* kremove.                                                                *)
LEMMA RemoveStep ==
    ASSUME IInv, NEW dir \in Dirs, NEW n \in Names, RemoveFile(dir, n)
    PROVE  IInv'
<1> DEFINE t == tunnel_path(Now, dir)
           g == OpenFDs
           h == With(g, Dir1, t.v)
<1>1. Dir1 \notin DOMAIN g /\ Typed(Now, g)
  BY OpenFDsAre DEF IInv, Good
<1>2. /\ t.v = NoVNode => Fails(t.s)
      /\ t.v # NoVNode =>
            /\ Becomes(vnode_close(t.s, t.v))
            /\ disk' = IF MayRemove(t.s, t.v, n) THEN disk \ EntriesOf(t.s, t.v, n) ELSE disk
            /\ UNCHANGED fd
  BY DEF RemoveFile
<1> HIDE DEF t
<1>3. /\ t.v = NoVNode => Good(t.s, g, disk)
      /\ t.v # NoVNode => /\ t.v \in Slots
                          /\ Good(t.s, h, disk)
                          /\ t.s.vnode[t.v].used
  BY DirOpened DEF t
<1>4. CASE t.v = NoVNode
  BY <1>2, <1>3, <1>4, NoneGiven DEF Fails
<1>5. CASE t.v # NoVNode
  <2>1. Good(t.s, h, disk')
    <3>1. CASE MayRemove(t.s, t.v, n)
      BY <1>2, <1>3, <1>5, <3>1, RemovedGood DEF MayRemove
    <3>2. CASE ~ MayRemove(t.s, t.v, n)
      BY <1>2, <1>3, <1>5, <3>2
    <3>3. QED
      BY <3>1, <3>2
  <2>2. Good(vnode_close(t.s, t.v), g, disk')
    BY <1>1, <2>1, DirClosed
  <2>3. QED
    BY <1>2, <1>5, <2>2, NoneGiven
<1>6. QED
  BY <1>4, <1>5

(* krename.                                                                *)
LEMMA RenameStep ==
    ASSUME IInv, NEW old \in Dirs, NEW new \in Dirs, Rename(old, new)
    PROVE  IInv'
<1> DEFINE t == tunnel_path(Now, old)
           u == tunnel_path(t.s, new)
           p == t.v
           q == u.v
           s == u.s
           g == OpenFDs
           h == With(g, Dir1, p)
           k == With(h, Dir2, q)
<1>1. /\ Dir1 \notin DOMAIN g /\ Dir2 \notin DOMAIN g /\ Step \notin DOMAIN g
      /\ Dir1 # Dir2 /\ Dir1 # Step /\ Dir2 # Step /\ Typed(Now, g)
  BY OpenFDsAre DEF IInv, Good
<1>2. \/ p = NoVNode /\ Fails(t.s)
      \/ p # NoVNode /\ q = NoVNode /\ Fails(vnode_close(s, p))
      \/ p # NoVNode /\ q # NoVNode /\ \E m \in Names : RenameTo(s, p, q, m)
  BY DEF Rename
<1> HIDE DEF t
<1>3. /\ p = NoVNode => Good(t.s, g, disk)
      /\ p # NoVNode => p \in Slots /\ Good(t.s, h, disk)
  BY DirOpened DEF t
<1>4. Dir2 \notin DOMAIN h /\ Step \notin DOMAIN h
  BY <1>1, HandlesAre
<1>5. p # NoVNode =>
         /\ q = NoVNode => Good(s, h, disk)
         /\ q # NoVNode => /\ q \in Slots
                           /\ Good(s, k, disk)
                           /\ NearRoot(s, q)
                           /\ s.vnode[q].used
  <2> HIDE DEF h
  <2>1. QED
    BY <1>1, <1>3, <1>4, TunnelGood
<1> HIDE DEF u
<1>6. CASE p = NoVNode /\ Fails(t.s)
  BY <1>3, <1>6, NoneGiven DEF Fails
<1>7. CASE p # NoVNode /\ q = NoVNode /\ Fails(vnode_close(s, p))
  <2>1. Good(vnode_close(s, p), g, disk)
    BY <1>1, <1>5, <1>7, DirClosed
  <2>2. QED
    BY <1>7, <2>1, NoneGiven DEF Fails
<1>8. ASSUME p # NoVNode, q # NoVNode, NEW m \in Names, RenameTo(s, p, q, m)
      PROVE  IInv'
  <2> DEFINE o == vnode_open(s, q, m)
             Closed(x) == vnode_close(vnode_close(x, p), q)
  <2>1. p \in Slots /\ q \in Slots /\ Good(s, k, disk) /\ NearRoot(s, q) /\ s.vnode[q].used
    BY <1>3, <1>5, <1>8
  <2>2. Step \notin DOMAIN k
    <3>1. Typed(t.s, h)
      BY <1>3, <1>8 DEF Good
    <3> HIDE DEF h
    <3>2. QED
      BY <1>1, <1>4, <3>1, HandlesAre
  <2>3. s.vnode[p].used
    <3>1. Dir1 \in DOMAIN k /\ k[Dir1] = p
      BY <1>1, HandlesAre
    <3>2. QED
      BY <2>1, <3>1 DEF Good, HandlesUsed
  <2>4. ASSUME NEW x, NEW dk, Good(x, k, dk)
        PROVE  Good(Closed(x), g, dk)
    <3>1. Good(vnode_close(x, p), With(g, Dir2, q), dk)
      BY <1>1, <2>4, DirClosedUnder
    <3>2. QED
      BY <1>1, <3>1, DirClosed
  <2> HIDE DEF k
  <2>5. CASE o.v # NoVNode
    <3>1. Fails(Closed(vnode_close(o.s, o.v)))
      BY <1>8, <2>5 DEF RenameTo
    <3>2. Good(o.s, With(k, Step, o.v), disk)
      BY <2>1, <2>2, <2>5, OpenGood
    <3> HIDE DEF o
    <3>3. Typed(s, k)
      BY <2>1 DEF Good
    <3>4. Good(vnode_close(o.s, o.v), k, disk)
      BY <2>2, <3>2, <3>3, DirClosed
    <3>5. Good(Closed(vnode_close(o.s, o.v)), g, disk)
      BY <2>4, <3>4
    <3> HIDE DEF Closed
    <3>6. QED
      BY <3>1, <3>5, NoneGiven DEF Fails
  <2>6. CASE o.v = NoVNode
    <3>1. /\ Becomes(Closed(s)) /\ UNCHANGED fd
          /\ \E n \in Names :
                disk' = IF MayRename(s, p, n, q, m) THEN Renamed(s, p, n, q, m) ELSE disk
      BY <1>8, <2>6 DEF RenameTo
    <3>2. PICK n \in Names :
             disk' = IF MayRename(s, p, n, q, m) THEN Renamed(s, p, n, q, m) ELSE disk
      BY <3>1
    <3>3. Good(s, k, disk')
      <4>1. CASE MayRename(s, p, n, q, m)
        <5>1. EntriesOf(s, q, m) = {}
          <6>1. EmptySlots(s) # {}
            BY <4>1, FS_EmptySet DEF MayRename
          <6>2. QED
            BY <2>1, <2>2, <2>6, <6>1, OpenGood
        <5>2. QED
          BY <2>1, <2>3, <3>2, <4>1, <5>1, RenamedGood DEF MayRename
      <4>2. CASE ~ MayRename(s, p, n, q, m)
        BY <2>1, <3>2, <4>2
      <4>3. QED
        BY <4>1, <4>2
    <3>4. Good(Closed(s), g, disk')
      BY <2>4, <3>3
    <3> HIDE DEF Closed
    <3>5. QED
      BY <3>1, <3>4, NoneGiven
  <2>7. QED
    BY <2>5, <2>6
<1>9. QED
  BY <1>2, <1>6, <1>7, <1>8

-----------------------------------------------------------------------------
(* Every reachable state.                                                  *)

(* The root file system is mounted and nothing is open.                    *)
LEMMA InitIInv == Init => IInv
<1> SUFFICES ASSUME Init PROVE IInv
  OBVIOUS
<1>1. /\ vnode = [v \in Slots |-> IF v = Root THEN RootVNode ELSE Free]
      /\ hash = [b \in Buckets |-> <<>>]
      /\ fd = [i \in FDs |-> NoVNode]
      /\ disk = {}
  BY DEF Init
<1>2. RootVNode = [used |-> TRUE, nRefCount |-> 1, pParent |-> NoVNode,
                   szName |-> "/", file |-> RootDir]
  BY DEF RootVNode
<1>3. RootVNode \in VNodes /\ Free \in VNodes
  BY <1>2, SlotsAre DEF VNodes, Free
<1>4. fd \in [FDs -> Slots \cup {NoVNode}]
  BY <1>1
<1>5. DOMAIN OpenFDs = {} /\ OpenFDs \in [DOMAIN OpenFDs -> Slots]
  BY <1>1 DEF OpenFDs
<1>6. /\ \A v \in Slots \ {Root} : ~ vnode[v].used /\ vnode[v].nRefCount = 0
      /\ vnode[Root] = RootVNode
      /\ vnode \in [Slots -> VNodes]
  BY <1>1, <1>3, SlotsAre DEF Free
<1>7. \A b \in Buckets : hash[b] = <<>>
  BY <1>1
<1>8. hash \in [Buckets -> Seq(Slots)]
  BY <1>1
<1>9. Typed(Now, OpenFDs)
  BY <1>5, <1>6, <1>8, FS_EmptySet DEF Typed, States, Now
<1>10. HandlesUsed(Now, OpenFDs)
  BY <1>5 DEF HandlesUsed
<1>11. CountsRight(Now, OpenFDs)
  <2>1. \A v : Cardinality(Holds(Now, OpenFDs, v)) = 0
    <3>1. \A v : Holds(Now, OpenFDs, v) = {}
      BY <1>5 DEF Holds
    <3>2. QED
      BY <3>1, FS_EmptySet
  <2>2. ASSUME NEW v \in Slots
        PROVE  /\ vnode[v].nRefCount = Cardinality(Holds(Now, OpenFDs, v)) + Extra(v)
               /\ vnode[v].used <=> vnode[v].nRefCount > 0
    <3>1. CASE v = Root
      <4>1. vnode[v].nRefCount = 1 /\ vnode[v].used
        BY <1>2, <1>6, <3>1
      <4>2. QED
        BY <2>1, <3>1, <4>1 DEF Extra
    <3>2. CASE v # Root
      <4>1. vnode[v].nRefCount = 0 /\ ~ vnode[v].used
        BY <1>6, <3>2
      <4>2. QED
        BY <2>1, <3>2, <4>1 DEF Extra
    <3>3. QED
      BY <3>1, <3>2
  <2>3. QED
    BY <2>2 DEF CountsRight, Now
<1>12. TreeRight(Now)
  BY <1>2, <1>6 DEF TreeRight, Now
<1>13. ChainsRight(Now)
  <2>1. \A b \in Buckets : PlacedAt(Now, b) = {}
    BY <1>6 DEF PlacedAt, Now
  <2>2. \A b \in Buckets : IsInjective(hash[b]) /\ ToSet(hash[b]) = {}
    BY <1>7 DEF IsInjective, ToSet
  <2>3. QED
    BY <2>1, <2>2 DEF ChainsRight, Now
<1>14. DiskRight(disk)
  BY <1>1 DEF DiskRight
<1>15. OnDisk(Now, disk) /\ OnePerFile(Now)
  BY <1>6 DEF OnDisk, OnePerFile, Now
<1>16. QED
  BY <1>4, <1>9, <1>10, <1>11, <1>12, <1>13, <1>14, <1>15 DEF IInv, Good

(* Every call keeps the invariant.                                         *)
LEMMA NextIInv == IInv /\ [Next]_vars => IInv'
<1> SUFFICES ASSUME IInv, [Next]_vars PROVE IInv'
  OBVIOUS
<1>1. CASE OpenRoot
  BY <1>1, OpenRootStep
<1>2. ASSUME NEW i \in FDs, Close(i) PROVE IInv'
  BY <1>2, CloseStep
<1>3. ASSUME NEW dir \in Dirs, NEW n \in Names, Open(dir, n) PROVE IInv'
  BY <1>3, OpenStep
<1>4. ASSUME NEW dir \in Dirs, NEW n \in Names, Create(dir, n) PROVE IInv'
  BY <1>4, CreateStep
<1>5. ASSUME NEW dir \in Dirs, NEW n \in Names, RemoveFile(dir, n) PROVE IInv'
  BY <1>5, RemoveStep
<1>6. ASSUME NEW old \in Dirs, NEW new \in Dirs, Rename(old, new) PROVE IInv'
  BY <1>6, RenameStep
<1>7. CASE UNCHANGED vars
  <2>1. Now' = Now /\ OpenFDs' = OpenFDs /\ fd' = fd /\ disk' = disk
    BY <1>7 DEF vars, Now, OpenFDs
  <2>2. QED
    BY <2>1 DEF IInv
<1>8. QED
  BY <1>1, <1>2, <1>3, <1>4, <1>5, <1>6, <1>7 DEF Next

LEMMA SpecIInv == Spec => []IInv
BY InitIInv, NextIInv, PTL DEF Spec

(* The handles between calls are the descriptors that VFiles counts.       *)
LEMMA HoldersAre == ASSUME IInv, NEW v PROVE Holds(Now, OpenFDs, v) = Holders(v)
<1>1. DOMAIN OpenFDs = {i \in FDs : fd[i] # NoVNode}
      /\ \A i \in DOMAIN OpenFDs : OpenFDs[i] = fd[i]
  BY DEF OpenFDs
<1>2. QED
  BY <1>1 DEF Holds, Holders, Now

(* The state has its type, and no vnode is left in the hash when it is     *)
(* freed, for any sizes, names, spellings and hash function.               *)
THEOREM SpecTypeOK == Spec => []TypeOK
<1>1. IInv => TypeOK
  <2> SUFFICES ASSUME IInv PROVE TypeOK
    OBVIOUS
  <2>1. /\ vnode \in [Slots -> VNodes] /\ hash \in [Buckets -> Seq(Slots)]
        /\ fd \in [FDs -> Slots \cup {NoVNode}] /\ disk \subseteq Entries
    BY DEF IInv, Good, Typed, States, Now, DiskRight
  <2>2. ASSUME NEW b \in Buckets, NEW j \in 1 .. Len(hash[b])
        PROVE  vnode[hash[b][j]].used
    <3>1. hash[b][j] \in ToSet(hash[b])
      BY <2>1, LenProperties DEF ToSet
    <3>2. hash[b][j] \in PlacedAt(Now, b)
      BY <3>1 DEF IInv, Good, ChainsRight, Now
    <3>3. QED
      BY <3>2 DEF PlacedAt, Now
  <2>3. QED
    BY <2>1, <2>2 DEF TypeOK
<1>2. QED
  BY <1>1, SpecIInv, PTL

(* Whatever succeeded or failed before, the count of a vnode is that of    *)
(* the descriptors on it and directly below it.                            *)
THEOREM SpecVNodesCounted == Spec => []VNodesCounted
<1>1. IInv => VNodesCounted
  BY HoldersAre DEF IInv, Good, CountsRight, VNodesCounted, Now, Extra
<1>2. QED
  BY <1>1, SpecIInv, PTL

(* A name stands for one entry of its directory in every spelling.         *)
THEOREM SpecOneEntryPerName == Spec => []OneEntryPerName
<1>1. IInv => OneEntryPerName
  BY DEF IInv, Good, DiskRight, OneEntryPerName
<1>2. QED
  BY <1>1, SpecIInv, PTL

(* What is open has its entry in the directory it was opened in, where the *)
(* spellings of a name have one place in the hash.                         *)
THEOREM SpecOpenIsOnDisk == ASSUME SpellingsMeet PROVE Spec => []OpenIsOnDisk
<1>1. IInv => OpenIsOnDisk
  BY SpellingsMeet DEF IInv, Good, OnDisk, IsEntryOf, OpenIsOnDisk, Used, Now
<1>2. QED
  BY <1>1, SpecIInv, PTL

(* No file has two vnodes, where the spellings of a name have one place in *)
(* the hash.                                                               *)
THEOREM SpecOneVNodePerFile == ASSUME SpellingsMeet PROVE Spec => []OneVNodePerFile
<1>1. IInv => OneVNodePerFile
  BY SpellingsMeet DEF IInv, Good, OnePerFile, OneVNodePerFile, Used, Now
<1>2. QED
  BY <1>1, SpecIInv, PTL
=============================================================================
