----------------------------- MODULE BCacheProofs -----------------------------
(***************************************************************************)
(* Proofs about the two layers of a mounted disk.  BCache: a block is      *)
(* cached once, the counters agree with the chains, what is cached is what *)
(* was read or written last, and crossed requests harm the blocks they     *)
(* bring and no others.  FatFile, below: the chains of the files are       *)
(* apart, the vnodes remember where they are, and the calls do to the      *)
(* files what AbstractFile says.                                           *)
(***************************************************************************)
EXTENDS BCache, FatFile, FiniteSetTheorems, SequenceTheorems,
        WellFoundedInduction, TLAPS

(* What the hash chains hold, wherever it is linked. *)
Held(c) == UNION {{c.chain[i][k] : k \in 1..Len(c.chain[i])} : i \in Index}

(* A cache the operations may be applied to. *)
Good(c) ==
    /\ c \in Caches
    /\ NoDouble(c)
    /\ Counted(c)
    /\ IsFiniteSet(Slots(c.chain))

(* A block that is not cached is as it is on the disk. *)
UncachedIsOnDisk == \A b \in Keys : ~Cached(cache, b) => content[b] = OnDisk(b)

IInv == TypeOK /\ Good(cache)

Latest == CachedIsLatest /\ UncachedIsOnDisk

(* Data that may be found under the number of a block without a doubt. *)
OwnData(b, d) == d # Junk /\ d.blk = b

(* Cache c holds what is its own, but for the blocks of D. *)
OwnBlocks(c, D) ==
    \A e \in Held(c) : e.dwBlockNo \notin D => OwnData(e.dwBlockNo, e.pBuff)

-----------------------------------------------------------------------------
(* The chains and their slots.                                             *)

(* A hash is the index of a chain. *)
LEMMA HashInIndex == \A b \in Keys : bhash(b) \in Index
  BY ConstantsAssumption DEF bhash, Index, Keys

(* What it means to be a slot. *)
LEMMA SlotsDef ==
  ASSUME NEW chain
  PROVE  /\ \A i, k : <<i, k>> \in Slots(chain) <=> i \in Index /\ k \in 1..Len(chain[i])
         /\ \A p \in Slots(chain) : \E i \in Index : \E k \in 1..Len(chain[i]) : p = <<i, k>>
  BY DEF Slots

(* Held, chain by chain. *)
LEMMA HeldDef ==
  ASSUME NEW c, NEW e
  PROVE  e \in Held(c) <=> \E i \in Index : \E k \in 1..Len(c.chain[i]) : e = c.chain[i][k]
  BY DEF Held

(* A block is cached when an entry with its number is held. *)
LEMMA CachedIsHeld ==
  ASSUME NEW c, Good(c), NEW b \in Keys
  PROVE  Cached(c, b) <=> \E e \in Held(c) : e.dwBlockNo = b
<1>1. ASSUME Cached(c, b) PROVE \E e \in Held(c) : e.dwBlockNo = b
  BY <1>1, HeldDef, HashInIndex DEF Cached, Places
<1>2. ASSUME NEW e \in Held(c), e.dwBlockNo = b PROVE Cached(c, b)
  <2>1. PICK i \in Index : \E k \in 1..Len(c.chain[i]) : e = c.chain[i][k]
    BY HeldDef
  <2>2. PICK k \in 1..Len(c.chain[i]) : e = c.chain[i][k]
    BY <2>1
  <2>3. bhash(b) = i
    BY <2>2, <1>2 DEF Good, NoDouble
  <2> QED
    BY <2>2, <2>3, <1>2 DEF Cached, Places
<1> QED
  BY <1>1, <1>2

(* A set of natural numbers that is not empty has a least element. *)
LEMMA LeastExists ==
  ASSUME NEW T, T \subseteq Nat, T # {}
  PROVE  \E x \in T : \A y \in T : x <= y
<1>1. PICK x \in T : \A y \in T : ~ (<<y, x>> \in OpToRel(<, Nat))
  BY NatLessThanWellFounded, WFMin
<1>2. \A y \in T : ~ (y < x)
  BY <1>1 DEF OpToRel
<1> QED
  BY <1>2

(* find_hash_ent finds an entry when there is one. *)
LEMMA PlaceFound ==
  ASSUME NEW c, NEW b, Cached(c, b)
  PROVE  Place(c, b) \in Places(c, b)
<1>1. Places(c, b) \subseteq Nat /\ Places(c, b) # {}
  BY DEF Places, Cached
<1>2. \E j \in Places(c, b) : \A k \in Places(c, b) : j <= k
  BY <1>1, LeastExists
<1> QED
  BY <1>2 DEF Place

-----------------------------------------------------------------------------
(* The operations on a cache.                                              *)

(* A block that is not cached is appended to its chain. *)
LEMMA AppendGood ==
  ASSUME NEW c, Good(c), NEW e \in Entries, ~Cached(c, e.dwBlockNo)
  PROVE  /\ Good(AppendEnt(c, e))
         /\ Held(AppendEnt(c, e)) = Held(c) \cup {e}
<1> DEFINE h == bhash(e.dwBlockNo)
           n == AppendEnt(c, e)
<1>1. e.dwBlockNo \in Keys /\ h \in Index
  BY HashInIndex DEF Entries
<1>2. /\ c.chain \in [Index -> Seq(Entries)]
      /\ c.nTotal \in [Index -> Nat]
      /\ c.nTotalEntry \in Nat
      /\ \A i \in Index : Len(c.chain[i]) \in Nat
  BY LenProperties DEF Good, Caches
<1>3. /\ n.chain = [c.chain EXCEPT ![h] = Append(@, e)]
      /\ n.nTotal = [c.nTotal EXCEPT ![h] = @ + 1]
      /\ n.nTotalEntry = c.nTotalEntry + 1
  BY DEF AppendEnt
<1>4. /\ n.chain[h] \in Seq(Entries)
      /\ Len(n.chain[h]) = Len(c.chain[h]) + 1
      /\ \A k \in 1..Len(c.chain[h]) : n.chain[h][k] = c.chain[h][k]
      /\ n.chain[h][Len(c.chain[h]) + 1] = e
      /\ \A i \in Index : i # h => n.chain[i] = c.chain[i]
  BY <1>1, <1>2, <1>3, AppendProperties
<1>5. n \in Caches
  BY <1>1, <1>2, <1>3, <1>4 DEF Caches, AppendEnt
<1>6. \A k \in 1..Len(c.chain[h]) : c.chain[h][k].dwBlockNo # e.dwBlockNo
  BY DEF Cached, Places
<1> HIDE DEF h, n
<1>7. ASSUME NEW i \in Index, NEW l \in 1..Len(n.chain[i])
      PROVE  \/ l \in 1..Len(c.chain[i]) /\ n.chain[i][l] = c.chain[i][l]
             \/ i = h /\ l = Len(c.chain[h]) + 1 /\ n.chain[i][l] = e
  <2>1. CASE i # h
    BY <2>1, <1>4
  <2>2. CASE i = h
    BY <2>2, <1>1, <1>2, <1>4
  <2> QED
    BY <2>1, <2>2
<1>8. ASSUME NEW i \in Index, NEW l \in 1..Len(c.chain[i])
      PROVE  l \in 1..Len(n.chain[i]) /\ n.chain[i][l] = c.chain[i][l]
  <2>1. CASE i # h
    BY <2>1, <1>4
  <2>2. CASE i = h
    BY <2>2, <1>1, <1>2, <1>4
  <2> QED
    BY <2>1, <2>2
<1>9. h \in Index /\ Len(c.chain[h]) + 1 \in 1..Len(n.chain[h])
  BY <1>1, <1>2, <1>4
<1>10. NoDouble(n)
  <2> SUFFICES ASSUME NEW i \in Index, NEW j \in 1..Len(n.chain[i]), NEW k \in 1..Len(n.chain[i])
               PROVE  /\ bhash(n.chain[i][j].dwBlockNo) = i
                      /\ n.chain[i][j].dwBlockNo = n.chain[i][k].dwBlockNo => j = k
    BY DEF NoDouble
  <2>1. bhash(e.dwBlockNo) = h
    BY DEF h
  <2>2. \/ j \in 1..Len(c.chain[i]) /\ n.chain[i][j] = c.chain[i][j]
        \/ i = h /\ j = Len(c.chain[h]) + 1 /\ n.chain[i][j] = e
    BY <1>7
  <2>3. \/ k \in 1..Len(c.chain[i]) /\ n.chain[i][k] = c.chain[i][k]
        \/ i = h /\ k = Len(c.chain[h]) + 1 /\ n.chain[i][k] = e
    BY <1>7
  <2>4. NoDouble(c)
    BY DEF Good
  <2> QED
    BY <2>1, <2>2, <2>3, <2>4, <1>6 DEF NoDouble
<1>11. Slots(n.chain) = Slots(c.chain) \cup {<<h, Len(c.chain[h]) + 1>>}
  <2>1. ASSUME NEW p \in Slots(n.chain)
        PROVE  p \in Slots(c.chain) \cup {<<h, Len(c.chain[h]) + 1>>}
    <3>1. PICK i \in Index : \E k \in 1..Len(n.chain[i]) : p = <<i, k>>
      BY <2>1, SlotsDef
    <3>2. PICK k \in 1..Len(n.chain[i]) : p = <<i, k>>
      BY <3>1
    <3>3. k \in 1..Len(c.chain[i]) \/ (i = h /\ k = Len(c.chain[h]) + 1)
      BY <1>7
    <3> QED
      BY <3>2, <3>3, SlotsDef
  <2>2. ASSUME NEW p \in Slots(c.chain) PROVE p \in Slots(n.chain)
    <3>1. PICK i \in Index : \E k \in 1..Len(c.chain[i]) : p = <<i, k>>
      BY <2>2, SlotsDef
    <3>2. PICK k \in 1..Len(c.chain[i]) : p = <<i, k>>
      BY <3>1
    <3> QED
      BY <3>2, <1>8, SlotsDef
  <2>3. <<h, Len(c.chain[h]) + 1>> \in Slots(n.chain)
    BY <1>9, SlotsDef
  <2> QED
    BY <2>1, <2>2, <2>3
<1>12. <<h, Len(c.chain[h]) + 1>> \notin Slots(c.chain)
  BY <1>1, <1>2, SlotsDef
<1>13. Counted(n) /\ IsFiniteSet(Slots(n.chain))
  <2>1. IsFiniteSet(Slots(c.chain))
    BY DEF Good
  <2>2. /\ IsFiniteSet(Slots(n.chain))
        /\ Cardinality(Slots(n.chain)) = Cardinality(Slots(c.chain)) + 1
    BY <2>1, <1>11, <1>12, FS_AddElement
  <2>3. \A i \in Index : n.nTotal[i] = Len(n.chain[i])
    BY <1>1, <1>2, <1>3, <1>4 DEF Good, Counted
  <2> QED
    BY <2>2, <2>3, <1>3 DEF Good, Counted
<1>14. Held(n) = Held(c) \cup {e}
  <2>1. ASSUME NEW d \in Held(n) PROVE d \in Held(c) \cup {e}
    BY <2>1, <1>7, HeldDef
  <2>2. ASSUME NEW d \in Held(c) PROVE d \in Held(n)
    BY <2>2, <1>8, HeldDef
  <2>3. e \in Held(n)
    BY <1>4, <1>9, HeldDef
  <2> QED
    BY <2>1, <2>2, <2>3
<1> QED
  BY <1>5, <1>10, <1>13, <1>14 DEF Good, n

(* There is a chain to evict from, and it holds an entry. *)
LEMMA VictimFound ==
  ASSUME NEW c, Good(c), c.nTotalEntry >= nMaxEntry
  PROVE  Victim(c) \in Index /\ c.nTotal[Victim(c)] >= 1
<1>1. /\ c.nTotal \in [Index -> Nat]
      /\ c.nTotalEntry \in Nat /\ c.nTotalEntry > 0
      /\ \A i \in Index : c.nTotal[i] = Len(c.chain[i])
      /\ c.nTotalEntry = Cardinality(Slots(c.chain))
      /\ IsFiniteSet(Slots(c.chain))
  BY ConstantsAssumption DEF Good, Caches, Counted
<1>2. \E p : p \in Slots(c.chain)
  BY <1>1, FS_EmptySet
<1>3. PICK f \in Index : c.nTotal[f] >= 1
  BY <1>1, <1>2 DEF Slots
<1> DEFINE Bounds == {m \in Nat : \A i \in Index : c.nTotal[i] <= m}
<1>4. c.nTotalEntry \in Bounds
  <2> SUFFICES ASSUME NEW i \in Index PROVE c.nTotal[i] <= c.nTotalEntry
    BY <1>1
  <2> DEFINE Row == {i} \X (1..c.nTotal[i])
             g == [k \in 1..c.nTotal[i] |-> <<i, k>>]
  <2>1. g \in Injection(1..c.nTotal[i], Slots(c.chain))
    BY <1>1, SlotsDef DEF Injection, IsInjective
  <2>2. Cardinality(1..c.nTotal[i]) <= Cardinality(Slots(c.chain))
    BY <2>1, <1>1, FS_Injection
  <2>3. c.nTotal[i] \in Nat
    BY <1>1
  <2>4. Cardinality(1..c.nTotal[i]) = c.nTotal[i]
    BY <2>3, FS_Interval
  <2> QED
    BY <2>2, <2>4, <1>1
<1>5. PICK m \in Bounds : \A x \in Bounds : m <= x
  BY <1>4, LeastExists
<1>6. \E i \in Index : c.nTotal[i] = m
  <2> SUFFICES ASSUME \A i \in Index : c.nTotal[i] # m PROVE FALSE
    OBVIOUS
  <2>1. \A i \in Index : c.nTotal[i] <= m - 1
    BY <1>1, <1>5
  <2>2. m - 1 \in Nat
    BY <2>1, <1>3, <1>1
  <2> QED
    BY <2>1, <2>2, <1>5
<1> DEFINE Full == {i \in Index : c.nTotal[i] = m}
<1>7. PICK v \in Full : \A x \in Full : v <= x
  <2>1. Full \subseteq Nat /\ Full # {}
    BY <1>6, ConstantsAssumption DEF Index
  <2> QED
    BY <2>1, LeastExists
<1>8. \A j \in Index : c.nTotal[j] <= c.nTotal[v] /\ (c.nTotal[j] = c.nTotal[v] => v <= j)
  BY <1>5, <1>7
<1>9. /\ Victim(c) \in Index
      /\ \A j \in Index : c.nTotal[j] <= c.nTotal[Victim(c)]
  BY <1>7, <1>8 DEF Victim
<1> QED
  BY <1>1, <1>3, <1>9

(* Eviction takes one entry off and keeps the rest. *)
LEMMA RemoveGood ==
  ASSUME NEW c, Good(c), c.nTotalEntry >= nMaxEntry
  PROVE  /\ Good(get_removable_cache_ent(c))
         /\ Held(get_removable_cache_ent(c)) \subseteq Held(c)
<1> DEFINE h == Victim(c)
           n == get_removable_cache_ent(c)
<1>1. h \in Index /\ c.nTotal[h] >= 1
  BY VictimFound
<1>2. /\ c.chain \in [Index -> Seq(Entries)]
      /\ c.nTotal \in [Index -> Nat]
      /\ c.nTotalEntry \in Nat
      /\ \A i \in Index : Len(c.chain[i]) \in Nat
      /\ Len(c.chain[h]) >= 1
      /\ \A i \in Index : c.nTotal[i] = Len(c.chain[i])
      /\ c.nTotalEntry = Cardinality(Slots(c.chain))
      /\ IsFiniteSet(Slots(c.chain))
  BY <1>1, LenProperties DEF Good, Caches, Counted
<1>3. /\ n.chain = [c.chain EXCEPT ![h] = Tail(@)]
      /\ n.nTotal = [c.nTotal EXCEPT ![h] = @ - 1]
      /\ n.nTotalEntry = c.nTotalEntry - 1
  BY DEF get_removable_cache_ent
<1> HIDE DEF h
<1>4. /\ n.chain[h] \in Seq(Entries)
      /\ Len(n.chain[h]) = Len(c.chain[h]) - 1
      /\ \A k \in 1..Len(n.chain[h]) : n.chain[h][k] = c.chain[h][k + 1]
      /\ \A i \in Index : i # h => n.chain[i] = c.chain[i]
  <2>1. c.chain[h] \in Seq(Entries) /\ c.chain[h] # <<>>
    BY <1>1, <1>2
  <2> QED
    BY <2>1, <1>1, <1>2, <1>3, HeadTailProperties
<1>5. <<h, Len(c.chain[h])>> \in Slots(c.chain)
  BY <1>1, <1>2, SlotsDef
<1>6. c.nTotalEntry >= 1
  BY <1>2, <1>5, FS_EmptySet
<1>7. n \in Caches
  <2>1. n.nTotal \in [Index -> Nat]
    BY <1>1, <1>2, <1>3
  <2>2. n.chain \in [Index -> Seq(Entries)]
    BY <1>1, <1>2, <1>3, <1>4
  <2>3. n = [chain |-> n.chain, nTotal |-> n.nTotal, nTotalEntry |-> n.nTotalEntry]
    BY DEF get_removable_cache_ent
  <2>4. n.nTotalEntry \in Nat
    BY <1>2, <1>3, <1>6
  <2> HIDE DEF n
  <2> QED
    BY <2>1, <2>2, <2>3, <2>4 DEF Caches
<1> HIDE DEF n
<1>8. ASSUME NEW i \in Index, NEW l \in 1..Len(n.chain[i])
      PROVE  /\ l \in 1..Len(c.chain[i])
             /\ i # h => n.chain[i][l] = c.chain[i][l]
             /\ i = h => l + 1 \in 1..Len(c.chain[i]) /\ n.chain[i][l] = c.chain[i][l + 1]
  <2>1. CASE i # h
    BY <2>1, <1>4
  <2>2. CASE i = h
    BY <2>2, <1>1, <1>2, <1>4
  <2> QED
    BY <2>1, <2>2
<1>9. NoDouble(n)
  <2> SUFFICES ASSUME NEW i \in Index, NEW j \in 1..Len(n.chain[i]), NEW k \in 1..Len(n.chain[i])
               PROVE  /\ bhash(n.chain[i][j].dwBlockNo) = i
                      /\ n.chain[i][j].dwBlockNo = n.chain[i][k].dwBlockNo => j = k
    BY DEF NoDouble
  <2>1. NoDouble(c)
    BY DEF Good
  <2>2. CASE i # h
    <3>1. /\ j \in 1..Len(c.chain[i]) /\ n.chain[i][j] = c.chain[i][j]
          /\ k \in 1..Len(c.chain[i]) /\ n.chain[i][k] = c.chain[i][k]
      BY <2>2, <1>8
    <3>2. /\ bhash(c.chain[i][j].dwBlockNo) = i
          /\ c.chain[i][j].dwBlockNo = c.chain[i][k].dwBlockNo => j = k
      BY <3>1, <2>1 DEF NoDouble
    <3> QED
      BY <3>1, <3>2
  <2>3. CASE i = h
    <3>1. /\ j + 1 \in 1..Len(c.chain[i]) /\ n.chain[i][j] = c.chain[i][j + 1]
          /\ k + 1 \in 1..Len(c.chain[i]) /\ n.chain[i][k] = c.chain[i][k + 1]
      BY <2>3, <1>8
    <3>2. /\ bhash(n.chain[i][j].dwBlockNo) = i
          /\ n.chain[i][j].dwBlockNo = n.chain[i][k].dwBlockNo => j + 1 = k + 1
      BY <3>1, <2>1 DEF NoDouble
    <3>3. j \in Nat /\ k \in Nat
      BY <1>2, <1>4, <2>3
    <3> QED
      BY <3>2, <3>3
  <2> QED
    BY <2>2, <2>3
<1>10. Slots(n.chain) = Slots(c.chain) \ {<<h, Len(c.chain[h])>>}
  <2>1. ASSUME NEW p \in Slots(n.chain)
        PROVE  p \in Slots(c.chain) \ {<<h, Len(c.chain[h])>>}
    <3>1. PICK i \in Index : \E k \in 1..Len(n.chain[i]) : p = <<i, k>>
      BY <2>1, SlotsDef
    <3>2. PICK k \in 1..Len(n.chain[i]) : p = <<i, k>>
      BY <3>1
    <3>3. k \in 1..Len(c.chain[i]) /\ (i = h => k # Len(c.chain[h]))
      BY <3>2, <1>1, <1>2, <1>4
    <3> QED
      BY <3>2, <3>3, SlotsDef
  <2>2. ASSUME NEW p \in Slots(c.chain), p # <<h, Len(c.chain[h])>> PROVE p \in Slots(n.chain)
    <3>1. PICK i \in Index : \E k \in 1..Len(c.chain[i]) : p = <<i, k>>
      BY <2>2, SlotsDef
    <3>2. PICK k \in 1..Len(c.chain[i]) : p = <<i, k>>
      BY <3>1
    <3>3. i = h => k # Len(c.chain[h])
      BY <3>2, <2>2
    <3>4. k \in 1..Len(n.chain[i])
      BY <3>2, <3>3, <1>1, <1>2, <1>4
    <3> QED
      BY <3>2, <3>4, SlotsDef
  <2> QED
    BY <2>1, <2>2
<1>11. Counted(n) /\ IsFiniteSet(Slots(n.chain))
  <2>1. /\ IsFiniteSet(Slots(n.chain))
        /\ Cardinality(Slots(n.chain)) = Cardinality(Slots(c.chain)) - 1
    <3> DEFINE S == Slots(c.chain)
               s == <<h, Len(c.chain[h])>>
    <3>1. IsFiniteSet(S) /\ s \in S /\ Slots(n.chain) = S \ {s}
      BY <1>2, <1>5, <1>10
    <3> HIDE DEF S, s
    <3>2. IsFiniteSet(S \ {s}) /\ Cardinality(S \ {s}) = Cardinality(S) - 1
      BY <3>1, FS_RemoveElement
    <3> QED
      BY <3>1, <3>2 DEF S
  <2>2. \A i \in Index : n.nTotal[i] = Len(n.chain[i])
    BY <1>1, <1>2, <1>3, <1>4
  <2> QED
    BY <2>1, <2>2, <1>2, <1>3 DEF Counted
<1>12. Held(n) \subseteq Held(c)
  <2> SUFFICES ASSUME NEW d \in Held(n) PROVE d \in Held(c)
    OBVIOUS
  <2>1. PICK i \in Index : \E k \in 1..Len(n.chain[i]) : d = n.chain[i][k]
    BY HeldDef
  <2>2. PICK k \in 1..Len(n.chain[i]) : d = n.chain[i][k]
    BY <2>1
  <2> QED
    BY <2>2, <1>8, HeldDef
<1> QED
  BY <1>7, <1>9, <1>11, <1>12 DEF Good, n

(* Room is made for one more block; the blocks left were there before. *)
LEMMA RoomGood ==
  ASSUME NEW c, Good(c)
  PROVE  Good(Room(c)) /\ Held(Room(c)) \subseteq Held(c)
<1>1. c.nTotalEntry \in Nat
  BY DEF Good, Caches
<1> QED
  BY <1>1, RemoveGood, ConstantsAssumption DEF Room

(* Cache n is cache c in which block b is cached, with data d when it was   *)
(* not before.                                                             *)
PutIn(c, n, b, d) ==
    /\ Good(n)
    /\ Cached(n, b)
    /\ Cached(c, b) => n = c
    /\ ~Cached(c, b) => Held(n) \subseteq Held(c) \cup {[dwBlockNo |-> b, pBuff |-> d]}

(* insert_blk_cache leaves a block that is cached alone, and enters one    *)
(* that is not.                                                            *)
LEMMA InsertGood ==
  ASSUME NEW c, Good(c), NEW b \in Keys, NEW d \in Contents
  PROVE  PutIn(c, insert_blk_cache(c, b, d), b, d)
<1> DEFINE e == [dwBlockNo |-> b, pBuff |-> d]
<1>1. CASE Cached(c, b)
  BY <1>1 DEF insert_blk_cache, PutIn
<1>2. CASE ~Cached(c, b)
  <2>1. Good(Room(c)) /\ Held(Room(c)) \subseteq Held(c)
    BY RoomGood
  <2>2. ~Cached(Room(c), b)
    BY <2>1, <1>2, CachedIsHeld
  <2>3. e \in Entries /\ e.dwBlockNo = b
    BY DEF Entries
  <2>4. insert_blk_cache(c, b, d) = AppendEnt(Room(c), e)
    BY <1>2 DEF insert_blk_cache
  <2>5. /\ Good(AppendEnt(Room(c), e))
        /\ Held(AppendEnt(Room(c), e)) = Held(Room(c)) \cup {e}
    BY <2>1, <2>2, <2>3, AppendGood
  <2>6. Cached(AppendEnt(Room(c), e), b)
    BY <2>3, <2>5, CachedIsHeld
  <2> QED
    BY <1>2, <2>1, <2>4, <2>5, <2>6 DEF PutIn
<1> QED
  BY <1>1, <1>2

(* insert_blk_cache_ex does the same and evicts nothing. *)
LEMMA InsertExGood ==
  ASSUME NEW c, Good(c), NEW b \in Keys, NEW d \in Contents
  PROVE  PutIn(c, insert_blk_cache_ex(c, b, d), b, d)
<1> DEFINE e == [dwBlockNo |-> b, pBuff |-> d]
<1>1. CASE Cached(c, b)
  BY <1>1 DEF insert_blk_cache_ex, PutIn
<1>2. CASE ~Cached(c, b)
  <2>1. e \in Entries /\ e.dwBlockNo = b
    BY DEF Entries
  <2>2. insert_blk_cache_ex(c, b, d) = AppendEnt(c, e)
    BY <1>2 DEF insert_blk_cache_ex
  <2>3. Good(AppendEnt(c, e)) /\ Held(AppendEnt(c, e)) = Held(c) \cup {e}
    BY <2>1, <1>2, AppendGood
  <2>4. Cached(AppendEnt(c, e), b)
    BY <2>1, <2>3, CachedIsHeld
  <2> QED
    BY <1>2, <2>2, <2>3, <2>4 DEF PutIn
<1> QED
  BY <1>1, <1>2

(* A write changes the one buffer of its block. *)
LEMMA WriteGood ==
  ASSUME NEW c, Good(c), NEW b \in Keys, Cached(c, b)
  PROVE  LET n == WriteBuff(c, b)
         IN  /\ Good(n)
             /\ \A x \in Keys : Cached(c, x) => Cached(n, x)
             /\ \A d \in Held(n) :
                  \/ d \in Held(c) /\ d.dwBlockNo # b
                  \/ /\ d.dwBlockNo = b
                     /\ \E e \in Held(c) : e.dwBlockNo = b /\ d.pBuff = Bump(e.pBuff)
<1> DEFINE h == bhash(b)
           p == Place(c, b)
           n == WriteBuff(c, b)
<1>1. /\ h \in Index
      /\ p \in 1..Len(c.chain[h])
      /\ c.chain[h][p].dwBlockNo = b
  BY HashInIndex, PlaceFound DEF Places
<1>2. /\ c.chain \in [Index -> Seq(Entries)]
      /\ c.nTotal \in [Index -> Nat]
      /\ c.nTotalEntry \in Nat
      /\ c.chain[h] \in Seq(Entries)
      /\ c.chain[h][p] \in Entries
  BY <1>1, ElementOfSeq DEF Good, Caches
<1> DEFINE e == [c.chain[h][p] EXCEPT !.pBuff = Bump(@)]
<1>3. e \in Entries /\ e.dwBlockNo = b /\ e.pBuff = Bump(c.chain[h][p].pBuff)
  <2>1. \A d \in Contents : Bump(d) \in Contents
    BY ConstantsAssumption DEF Bump, Contents
  <2> QED
    BY <1>1, <1>2, <2>1 DEF Entries
<1>4. /\ n.chain = [c.chain EXCEPT ![h] = [@ EXCEPT ![p] = e]]
      /\ n.nTotal = c.nTotal
      /\ n.nTotalEntry = c.nTotalEntry
      /\ n = [c EXCEPT !.chain = n.chain]
  BY <1>1, <1>2 DEF WriteBuff, Good, Caches
<1> HIDE DEF h, p, e, n
<1>5. /\ n.chain[h] = [c.chain[h] EXCEPT ![p] = e]
      /\ \A i \in Index : i # h => n.chain[i] = c.chain[i]
  BY <1>1, <1>2, <1>4
<1>6. /\ n.chain[h] \in Seq(Entries)
      /\ Len(n.chain[h]) = Len(c.chain[h])
      /\ n.chain[h][p] = e
      /\ \A k \in 1..Len(c.chain[h]) : k # p => n.chain[h][k] = c.chain[h][k]
  BY <1>1, <1>2, <1>3, <1>5, ExceptSeq
<1>7. n \in Caches
  <2>1. n.chain \in [Index -> Seq(Entries)]
    BY <1>1, <1>2, <1>4, <1>6
  <2> QED
    BY <2>1, <1>2, <1>4 DEF Caches, Good
<1>8. ASSUME NEW i \in Index, NEW l
      PROVE  /\ Len(n.chain[i]) = Len(c.chain[i])
             /\ l \in 1..Len(c.chain[i]) =>
                   IF i = h /\ l = p THEN n.chain[i][l] = e ELSE n.chain[i][l] = c.chain[i][l]
  BY <1>5, <1>6
<1>9. ASSUME NEW i \in Index, NEW l \in 1..Len(c.chain[i])
      PROVE  n.chain[i][l].dwBlockNo = c.chain[i][l].dwBlockNo
  BY <1>1, <1>3, <1>8
<1>10. NoDouble(n)
  <2>1. NoDouble(c)
    BY DEF Good
  <2> QED
    BY <2>1, <1>8, <1>9 DEF NoDouble
<1>11. Slots(n.chain) = Slots(c.chain)
  BY <1>8 DEF Slots
<1>12. Good(n)
  BY <1>4, <1>7, <1>8, <1>10, <1>11 DEF Good, Counted
<1>13. ASSUME NEW x \in Keys, Cached(c, x) PROVE Cached(n, x)
  <2>1. PICK l \in 1..Len(c.chain[bhash(x)]) : c.chain[bhash(x)][l].dwBlockNo = x
    BY <1>13 DEF Cached, Places
  <2> QED
    BY <2>1, <1>8, <1>9, HashInIndex DEF Cached, Places
<1>14. ASSUME NEW d \in Held(n)
       PROVE  \/ d \in Held(c) /\ d.dwBlockNo # b
              \/ /\ d.dwBlockNo = b
                 /\ \E f \in Held(c) : f.dwBlockNo = b /\ d.pBuff = Bump(f.pBuff)
  <2>1. PICK i \in Index : \E k \in 1..Len(n.chain[i]) : d = n.chain[i][k]
    BY <1>14, HeldDef
  <2>2. PICK k \in 1..Len(c.chain[i]) : d = n.chain[i][k]
    BY <2>1, <1>8
  <2>3. CASE i = h /\ k = p
    <3>1. d = e /\ c.chain[h][p] \in Held(c)
      BY <2>2, <2>3, <1>1, <1>8, HeldDef
    <3> QED
      BY <3>1, <1>1, <1>3
  <2>4. CASE ~(i = h /\ k = p)
    <3>1. d = c.chain[i][k] /\ d \in Held(c)
      BY <2>2, <2>4, <1>8, HeldDef
    <3>2. d.dwBlockNo # b
      <4>1. NoDouble(c)
        BY DEF Good
      <4>2. bhash(d.dwBlockNo) = i
        BY <4>1, <3>1, <2>2 DEF NoDouble
      <4>3. d.dwBlockNo = b => i = h
        BY <4>2 DEF h
      <4> QED
        BY <4>1, <4>3, <3>1, <2>2, <2>4, <1>1 DEF NoDouble
    <3> QED
      BY <3>1, <3>2
  <2> QED
    BY <2>3, <2>4
<1> QED
  BY <1>12, <1>13, <1>14 DEF n

-----------------------------------------------------------------------------
(* Types, and the shape of the cache.                                      *)

(* What the program counters carry. *)
LEMMA PcFields ==
  ASSUME NEW s \in PcStates
  PROVE  /\ s.op = "getting" => s.blk \in Blocks /\ s.wr \in BOOLEAN
         /\ s.op \in {"reading", "readsleep"} =>
               s.first \in Blocks /\ s.n \in 1..MaxRead /\ s.i \in 0..MaxRead
         /\ s.op \in {"scattering", "filling"} => s.first \in Clusters /\ s.blk \in Blocks
         /\ s.op = "filling" => s.i \in 0..ClusterSize /\ s.ok \in BOOLEAN
         /\ s.op = "filling" => s = Filling(s.first, s.blk, s.i, s.ok)
  BY DEF PcStates, Idle, Filling

(* The program counters of the actions. *)
LEMMA PcMade ==
  /\ Idle \in PcStates
  /\ \A b \in Blocks, wr \in BOOLEAN : Getting(b, wr) \in PcStates
  /\ \A f \in Blocks, n \in 1..MaxRead, i \in 0..MaxRead :
        Reading(f, n, i) \in PcStates /\ ReadSleep(f, n, i) \in PcStates
  /\ \A f \in Clusters, b \in Blocks : Scattering(f, b) \in PcStates
  /\ \A f \in Clusters, b \in Blocks, i \in 0..ClusterSize, ok \in BOOLEAN :
        Filling(f, b, i, ok) \in PcStates
  BY DEF PcStates, Idle, Getting, Reading, ReadSleep, Scattering, Filling

(* Numbers of blocks and of keys. *)
LEMMA BlocksAndKeys ==
  /\ Blocks \subseteq Keys
  /\ \A b \in Keys : OnDisk(b) \in Contents
  /\ Junk \in Contents
  /\ \A d \in Contents : Bump(d) \in Contents
  /\ \A f \in Clusters, i \in 0..ClusterSize - 1 : f + i \in Blocks
  /\ \A f \in Blocks, n \in 1..MaxRead, i \in 0..MaxRead :
        f + n - 1 <= MaxBlock /\ i < n => f + i \in Blocks /\ EnteredKey(f, i) \in Keys
  BY ConstantsAssumption
     DEF Blocks, Keys, OnDisk, Content, Contents, Junk, Bump, Clusters, EnteredKey

(* What the disk delivers. *)
LEMMA DeliveredData ==
  ASSUME NEW t, NEW b \in Blocks
  PROVE  /\ Delivered(t, b) \subseteq Contents
         /\ t \notin crossed => Delivered(t, b) = {OnDisk(b)}
  BY BlocksAndKeys DEF Delivered

(* The block that a thread fills in, and its data. *)
LEMMA FilledBlock ==
  ASSUME TypeOK, NEW t \in Threads, FillNext(t)
  PROVE  /\ pc[t].first + pc[t].i \in Blocks
         /\ pc[t].ok \in BOOLEAN
         /\ pc[t].first + pc[t].i \in Keys
         /\ OnDisk(pc[t].first + pc[t].i) \in Contents /\ Junk \in Contents
<1>1. pc[t] \in PcStates
  BY DEF TypeOK
<1>2. pc[t].first \in Clusters /\ pc[t].i \in 0..ClusterSize - 1 /\ pc[t].ok \in BOOLEAN
  BY <1>1, PcFields, ConstantsAssumption DEF FillNext
<1> QED
  BY <1>2, BlocksAndKeys

(* The key that a thread enters, and the block it read. *)
LEMMA ReadKey ==
  ASSUME TypeOK, NEW t \in Threads, ReadEnds(t)
  PROVE  /\ EnteredKey(pc[t].first, pc[t].i) \in Keys
         /\ pc[t].first + pc[t].i \in Blocks
         /\ MaxRead = 1 => EnteredKey(pc[t].first, pc[t].i) = pc[t].first + pc[t].i
<1>1. pc[t] \in PcStates
  BY DEF TypeOK
<1>2. /\ pc[t].first \in Blocks /\ pc[t].n \in 1..MaxRead /\ pc[t].i \in 0..MaxRead
      /\ pc[t].first + pc[t].n - 1 <= MaxBlock /\ pc[t].i < pc[t].n
  BY <1>1, PcFields DEF ReadEnds, TypeOK
<1>3. EnteredKey(pc[t].first, pc[t].i) \in Keys /\ pc[t].first + pc[t].i \in Blocks
  BY <1>2, BlocksAndKeys
<1>4. ASSUME MaxRead = 1 PROVE EnteredKey(pc[t].first, pc[t].i) = pc[t].first + pc[t].i
  <2>1. pc[t].i = 0
    BY <1>2, <1>4
  <2> QED
    BY <2>1, <1>3 DEF EnteredKey, Blocks
<1> QED
  BY <1>3, <1>4

(* The cache is empty at first. *)
LEMMA InitIInv == Init => IInv /\ Latest /\ OwnBlocks(cache, doubtful)
<1> SUFFICES ASSUME Init PROVE IInv /\ Latest /\ OwnBlocks(cache, doubtful)
  OBVIOUS
<1>1. /\ cache.chain = [i \in Index |-> <<>>]
      /\ cache.nTotal = [i \in Index |-> 0]
      /\ cache.nTotalEntry = 0
      /\ \A i \in Index : cache.chain[i] = <<>> /\ Len(cache.chain[i]) = 0
  BY EmptySeq DEF Init
<1>2. Slots(cache.chain) = {}
  BY <1>1 DEF Slots
<1>3. cache \in Caches
  BY <1>1, EmptySeq DEF Init, Caches
<1>4. Good(cache)
  BY <1>1, <1>2, <1>3, FS_EmptySet DEF Good, NoDouble, Counted
<1>5. TypeOK
  <2>1. content \in [Keys -> Contents]
    BY BlocksAndKeys DEF Init
  <2>2. pc \in [Threads -> PcStates]
    BY PcMade DEF Init
  <2> QED
    BY <2>1, <2>2, <1>3, ConstantsAssumption DEF Init, TypeOK, Idle
<1>6. Latest
  BY <1>1 DEF Init, Latest, CachedIsLatest, UncachedIsOnDisk
<1>7. OwnBlocks(cache, doubtful)
  BY <1>1 DEF OwnBlocks, Held
<1> QED
  BY <1>4, <1>5, <1>6, <1>7 DEF IInv

(* Every step leaves the cache in shape. *)
LEMMA NextGood == IInv /\ [Next]_vars => Good(cache')
<1> SUFFICES ASSUME IInv, [Next]_vars PROVE Good(cache')
  OBVIOUS
<1> USE DEF IInv
<1>1. ASSUME cache' = cache PROVE Good(cache')
  BY <1>1
<1>2. ASSUME NEW t \in Threads, NEW b \in Blocks, GetHit(t, b) PROVE Good(cache')
  BY <1>2, WriteGood, BlocksAndKeys DEF GetHit
<1>3. ASSUME NEW t \in Threads, GetEnds(t) PROVE Good(cache')
  <2>1. PICK d \in Delivered(t, pc[t].blk) :
          LET c == insert_blk_cache(cache, pc[t].blk, d)
          IN  cache' = IF pc[t].wr THEN WriteBuff(c, pc[t].blk) ELSE c
    BY <1>3 DEF GetEnds
  <2>2. pc[t].blk \in Keys /\ d \in Contents
    BY <1>3, PcFields, BlocksAndKeys, DeliveredData DEF GetEnds, TypeOK
  <2> DEFINE c == insert_blk_cache(cache, pc[t].blk, d)
  <2>3. Good(c) /\ Cached(c, pc[t].blk)
    BY <2>2, InsertGood DEF PutIn
  <2>4. Good(WriteBuff(c, pc[t].blk))
    BY <2>2, <2>3, WriteGood
  <2> QED
    BY <2>1, <2>3, <2>4
<1>4. ASSUME NEW t \in Threads, ReadEnds(t) PROVE Good(cache')
  <2>1. PICK d \in Delivered(t, pc[t].first + pc[t].i) :
          cache' = insert_blk_cache(cache, EnteredKey(pc[t].first, pc[t].i), d)
    BY <1>4 DEF ReadEnds
  <2>2. EnteredKey(pc[t].first, pc[t].i) \in Keys /\ d \in Contents
    BY <1>4, ReadKey, DeliveredData
  <2> QED
    BY <2>1, <2>2, InsertGood DEF PutIn
<1>5. ASSUME NEW t \in Threads, FillNext(t) PROVE Good(cache')
  <2>1. PICK d \in {OnDisk(pc[t].first + pc[t].i), Junk} :
          cache' = insert_blk_cache_ex(cache, pc[t].first + pc[t].i, d)
    BY <1>5 DEF FillNext, FillOne
  <2>2. pc[t].first + pc[t].i \in Keys /\ d \in Contents
    BY <1>5, FilledBlock
  <2> QED
    BY <2>1, <2>2, InsertExGood DEF PutIn
<1> QED
  BY <1>1, <1>2, <1>3, <1>4, <1>5
     DEF Next, vars, LateAnswer, GetMiss, DiskFails, ReadBlock, ReadNext, ClusterRead,
         ScatterEnds, FillEnds

(* The contents keep their type. *)
LEMMA NextContent == IInv /\ [Next]_vars => content' \in [Keys -> Contents]
<1> SUFFICES ASSUME IInv, [Next]_vars PROVE content' \in [Keys -> Contents]
  OBVIOUS
<1>1. content \in [Keys -> Contents] /\ pc \in [Threads -> PcStates] /\ TypeOK
  BY DEF IInv, TypeOK
<1>2. \A c, k : \A d \in Contents : Holds(c, k, d) \in [Keys -> Contents]
  BY <1>1, BlocksAndKeys DEF Holds
<1>3. ASSUME NEW t \in Threads, NEW b \in Blocks, GetHit(t, b) PROVE content' \in [Keys -> Contents]
  BY <1>1, <1>3, BlocksAndKeys DEF GetHit
<1>4. ASSUME NEW t \in Threads, GetEnds(t) PROVE content' \in [Keys -> Contents]
  <2> DEFINE b == pc[t].blk
  <2>1. PICK d \in Delivered(t, b) :
          \E c, h : /\ c = insert_blk_cache(cache, b, d)
                   /\ h = Holds(c, b, d)
                   /\ \/ content' = h
                      \/ content' = [h EXCEPT ![b] = Bump(h[b])]
    BY <1>4 DEF GetEnds
  <2>2. b \in Keys /\ d \in Contents
    BY <1>1, <1>4, PcFields, BlocksAndKeys, DeliveredData DEF GetEnds
  <2>3. PICK c, h : /\ c = insert_blk_cache(cache, b, d)
                    /\ h = Holds(c, b, d)
                    /\ \/ content' = h
                       \/ content' = [h EXCEPT ![b] = Bump(h[b])]
    BY <2>1
  <2> HIDE DEF b
  <2>4. h \in [Keys -> Contents]
    BY <1>2, <2>2, <2>3
  <2> QED
    BY <2>2, <2>3, <2>4, BlocksAndKeys
<1>5. ASSUME NEW t \in Threads, ReadEnds(t) PROVE content' \in [Keys -> Contents]
  <2>1. PICK d \in Delivered(t, pc[t].first + pc[t].i) : \E c, k : content' = Holds(c, k, d)
    BY <1>5 DEF ReadEnds
  <2> QED
    BY <1>1, <1>2, <1>5, <2>1, ReadKey, DeliveredData
<1>6. ASSUME NEW t \in Threads, FillNext(t) PROVE content' \in [Keys -> Contents]
  <2>1. PICK d \in {OnDisk(pc[t].first + pc[t].i), Junk} : \E c, k : content' = Holds(c, k, d)
    BY <1>6 DEF FillNext, FillOne
  <2> QED
    BY <1>1, <1>2, <1>6, <2>1, FilledBlock
<1> QED
  BY <1>1, <1>2, <1>3, <1>4, <1>5, <1>6
     DEF Next, vars, LateAnswer, GetMiss, DiskFails, ReadBlock, ReadNext, ClusterRead,
         ScatterEnds, FillEnds

(* What is known of the disk keeps its type. *)
DiskTyped == crossed \subseteq Threads /\ owes \in BOOLEAN /\ doubtful \subseteq Keys

LEMMA NextDisk == IInv /\ [Next]_vars => DiskTyped'
<1> SUFFICES ASSUME IInv, [Next]_vars PROVE DiskTyped'
  OBVIOUS
<1>1. DiskTyped /\ TypeOK
  BY DEF IInv, TypeOK, DiskTyped
<1>2. \A t \in Threads : (Asks(t) \/ Answered(t)) => crossed' \subseteq Threads
  BY <1>1 DEF Asks, Answered, Asking, DiskTyped
<1>3. \A c, sure : \A k \in Keys : Doubts(c, k, sure) \subseteq Keys
  BY <1>1 DEF Doubts, DiskTyped
<1>4. ASSUME NEW t \in Threads, GetEnds(t) PROVE DiskTyped'
  <2>1. pc[t].blk \in Keys /\ (\E c : doubtful' = Doubts(c, pc[t].blk, t \notin crossed))
    BY <1>1, <1>4, PcFields, BlocksAndKeys DEF GetEnds, TypeOK
  <2> QED
    BY <1>1, <1>2, <1>3, <1>4, <2>1 DEF GetEnds, DiskTyped
<1>5. ASSUME NEW t \in Threads, ReadEnds(t) PROVE DiskTyped'
  <2>1. \E c : doubtful' = Doubts(c, EnteredKey(pc[t].first, pc[t].i), t \notin crossed)
    BY <1>5 DEF ReadEnds
  <2> QED
    BY <1>1, <1>2, <1>3, <1>5, <2>1, ReadKey DEF ReadEnds, DiskTyped
<1>6. ASSUME NEW t \in Threads, FillNext(t) PROVE DiskTyped'
  <2>1. \E c : doubtful' = Doubts(c, pc[t].first + pc[t].i, pc[t].ok)
    BY <1>6 DEF FillNext, FillOne
  <2> QED
    BY <1>1, <1>3, <1>6, <2>1, FilledBlock DEF FillNext, FillOne, DiskTyped
<1>7. ASSUME NEW t \in Threads, NEW ok \in BOOLEAN, ScatterEnds(t, ok) PROVE DiskTyped'
  BY <1>1, <1>2, <1>7 DEF ScatterEnds, DiskTyped
<1>8. ASSUME NEW t \in Threads, ReadNext(t) \/ FillEnds(t) PROVE DiskTyped'
  BY <1>1, <1>2, <1>8 DEF ReadNext, FillEnds, DiskTyped
<1> QED
  BY <1>1, <1>2, <1>4, <1>5, <1>6, <1>7, <1>8
     DEF Next, vars, LateAnswer, GetHit, GetMiss, DiskFails, ReadBlock, ClusterRead, DiskTyped

(* A program counter that moves keeps the conditions of TypeOK. *)
PcTyped ==
    /\ pc \in [Threads -> PcStates]
    /\ inKernel \in Threads \cup {NoThread}
    /\ \A t \in Threads :
        /\ pc[t].op \in {"reading", "filling"} <=> inKernel = t
        /\ pc[t].op \in {"reading", "readsleep"} =>
              pc[t].first + pc[t].n - 1 <= MaxBlock /\ pc[t].i <= pc[t].n
        /\ pc[t].op = "readsleep" => pc[t].i < pc[t].n

(* Every step does. *)
LEMMA NextPc == PcTyped /\ [Next]_vars => PcTyped'
<1> SUFFICES ASSUME PcTyped, [Next]_vars PROVE PcTyped'
  OBVIOUS
<1> USE DEF PcTyped
<1>1. ASSUME pc' = pc, inKernel' = inKernel PROVE PcTyped'
  BY <1>1
<1>2. ASSUME NEW t \in Threads, NEW b \in Blocks, NEW wr \in BOOLEAN, GetMiss(t, b, wr)
      PROVE  PcTyped'
  BY <1>2, PcMade, ConstantsAssumption DEF GetMiss, Getting, Idle
<1>3. ASSUME NEW t \in Threads, GetEnds(t) \/ DiskFails(t) PROVE PcTyped'
  BY <1>3, PcMade, ConstantsAssumption DEF GetEnds, DiskFails, Idle
<1>4. ASSUME NEW t \in Threads, NEW f \in Blocks, NEW n \in 1..MaxRead, ReadBlock(t, f, n)
      PROVE  PcTyped'
  <2>1. Reading(f, n, 0) \in PcStates
    BY PcMade, ConstantsAssumption
  <2> QED
    BY <1>4, <2>1, ConstantsAssumption DEF ReadBlock, Reading
<1>5. ASSUME NEW t \in Threads, ReadNext(t) PROVE PcTyped'
  <2> DEFINE f == pc[t].first  n == pc[t].n  i == pc[t].i
  <2>1. f \in Blocks /\ n \in 1..MaxRead /\ i \in 0..MaxRead /\ f + n - 1 <= MaxBlock
    BY <1>5, PcFields DEF ReadNext
  <2> HIDE DEF f, n, i
  <2>2. CASE pc' = [pc EXCEPT ![t] = Idle] /\ inKernel' = NoThread
    BY <2>2, <1>5, PcMade, ConstantsAssumption DEF Idle, ReadNext
  <2>3. CASE i < n /\ pc' = [pc EXCEPT ![t] = Reading(f, n, i + 1)] /\ inKernel' = inKernel
    <3>1. Reading(f, n, i + 1) \in PcStates
      BY <2>1, <2>3, PcMade, ConstantsAssumption
    <3> QED
      BY <2>1, <2>3, <3>1, <1>5, ConstantsAssumption DEF Reading, ReadNext
  <2>4. CASE i < n /\ pc' = [pc EXCEPT ![t] = ReadSleep(f, n, i)] /\ inKernel' = NoThread
    <3>1. ReadSleep(f, n, i) \in PcStates
      BY <2>1, PcMade
    <3> QED
      BY <2>1, <2>4, <3>1, <1>5, ConstantsAssumption DEF ReadSleep, ReadNext
  <2> QED
    BY <1>5, <2>2, <2>3, <2>4 DEF ReadNext, f, n, i
<1>6. ASSUME NEW t \in Threads, ReadEnds(t) PROVE PcTyped'
  <2> DEFINE f == pc[t].first  n == pc[t].n  i == pc[t].i
  <2>1. f \in Blocks /\ n \in 1..MaxRead /\ i \in 0..MaxRead /\ f + n - 1 <= MaxBlock /\ i < n
    BY <1>6, PcFields DEF ReadEnds
  <2>2. pc' = [pc EXCEPT ![t] = Reading(f, n, i + 1)] /\ inKernel' = t /\ inKernel = NoThread
    BY <1>6 DEF ReadEnds
  <2> HIDE DEF f, n, i
  <2>3. Reading(f, n, i + 1) \in PcStates
    BY <2>1, PcMade, ConstantsAssumption
  <2> QED
    BY <2>1, <2>2, <2>3, ConstantsAssumption DEF Reading
<1>7. ASSUME NEW t \in Threads, NEW f \in Clusters, NEW b \in f..f + ClusterSize - 1,
             ClusterRead(t, f, b)
      PROVE  PcTyped'
  <2>1. b \in Blocks
    BY ConstantsAssumption DEF Clusters, Blocks
  <2> QED
    BY <2>1, <1>7, PcMade, ConstantsAssumption DEF ClusterRead, Scattering, Idle
<1>8. ASSUME NEW t \in Threads, NEW ok \in BOOLEAN, ScatterEnds(t, ok) PROVE PcTyped'
  <2>1. Filling(pc[t].first, pc[t].blk, 0, ok) \in PcStates
    BY <1>8, PcFields, PcMade, ConstantsAssumption DEF ScatterEnds
  <2> QED
    BY <2>1, <1>8, ConstantsAssumption DEF ScatterEnds, Filling
<1>9. ASSUME NEW t \in Threads, FillNext(t) PROVE PcTyped'
  <2> DEFINE s == pc[t]
  <2>1. /\ s = Filling(s.first, s.blk, s.i, s.ok)
        /\ s.first \in Clusters /\ s.blk \in Blocks
        /\ s.i \in 0..ClusterSize - 1 /\ s.ok \in BOOLEAN
    BY <1>9, PcFields, ConstantsAssumption DEF FillNext
  <2>2. [s EXCEPT !.i = @ + 1] = Filling(s.first, s.blk, s.i + 1, s.ok)
    BY <2>1 DEF Filling
  <2>3. Filling(s.first, s.blk, s.i + 1, s.ok) \in PcStates
    BY <2>1, PcMade, ConstantsAssumption
  <2>4. pc' = [pc EXCEPT ![t] = Filling(s.first, s.blk, s.i + 1, s.ok)]
    BY <1>9, <2>2 DEF FillNext, FillOne
  <2> HIDE DEF s
  <2> QED
    BY <1>9, <2>3, <2>4, ConstantsAssumption DEF FillNext, FillOne, Filling
<1>10. ASSUME NEW t \in Threads, FillEnds(t) PROVE PcTyped'
  <2> DEFINE s == IF Cached(cache, pc[t].blk) THEN Idle ELSE Getting(pc[t].blk, FALSE)
  <2>1. s \in PcStates /\ s.op \in {"idle", "getting"}
    BY <1>10, PcFields, PcMade DEF FillEnds, Idle, Getting
  <2>2. pc' = [pc EXCEPT ![t] = s] /\ inKernel' = NoThread /\ inKernel = t
    BY <1>10 DEF FillEnds
  <2> HIDE DEF s
  <2> QED
    BY <2>1, <2>2, ConstantsAssumption
<1> QED
  BY <1>1, <1>2, <1>3, <1>4, <1>5, <1>6, <1>7, <1>8, <1>9, <1>10
     DEF Next, vars, LateAnswer, GetHit

(* The inductive invariant of every run of the cache. *)
LEMMA SpecIInv == Spec => []IInv
<1>1. IInv /\ [Next]_vars => IInv'
  BY NextGood, NextContent, NextPc, NextDisk
     DEF IInv, TypeOK, PcTyped, DiskTyped, Good, Caches
<1> QED
  BY <1>1, InitIInv, PTL DEF Spec

-----------------------------------------------------------------------------
(* What the cached buffers hold.                                           *)

(* Held speaks of all entries at once. *)
LEMMA LatestHeld ==
  CachedIsLatest <=> \A e \in Held(cache) : e.pBuff = content[e.dwBlockNo]
<1>1. ASSUME CachedIsLatest, NEW e \in Held(cache) PROVE e.pBuff = content[e.dwBlockNo]
  BY <1>1, HeldDef DEF CachedIsLatest
<1>2. ASSUME \A e \in Held(cache) : e.pBuff = content[e.dwBlockNo] PROVE CachedIsLatest
  BY <1>2, HeldDef DEF CachedIsLatest
<1> QED
  BY <1>1, <1>2

(* What a cache holds are entries, and their blocks are cached. *)
LEMMA HeldEntries ==
  ASSUME NEW c, Good(c), NEW e \in Held(c)
  PROVE  e \in Entries /\ e.dwBlockNo \in Keys /\ Cached(c, e.dwBlockNo)
<1>1. PICK i \in Index : \E k \in 1..Len(c.chain[i]) : e = c.chain[i][k]
  BY HeldDef
<1>2. c.chain[i] \in Seq(Entries)
  BY DEF Good, Caches
<1>3. e \in Entries
  BY <1>1, <1>2, ElementOfSeq
<1>4. e.dwBlockNo \in Keys
  BY <1>3 DEF Entries
<1> QED
  BY <1>3, <1>4, CachedIsHeld

(* Cache c holds what f says, and f is the disk for what c does not hold. *)
Agree(c, f) ==
    /\ \A e \in Held(c) : e.pBuff = f[e.dwBlockNo]
    /\ \A x \in Keys : ~Cached(c, x) => f[x] = OnDisk(x)

(* The two ways to say that what is cached is up to date. *)
LEMMA LatestAgrees == Latest <=> Agree(cache, content)
  BY LatestHeld DEF Latest, Agree, UncachedIsOnDisk

(* A block that is entered: what is evicted for it falls back to the disk, *)
(* and if somebody entered it meanwhile that entry stays.                  *)
LEMMA EnterAgrees ==
  ASSUME IInv, Agree(cache, content), NEW b \in Keys, NEW d \in Contents,
         NEW n, PutIn(cache, n, b, d)
  PROVE  Agree(n, Holds(n, b, d))
<1> DEFINE h == Holds(n, b, d)
<1>1. /\ Good(cache) /\ Good(n) /\ Cached(n, b)
      /\ Cached(cache, b) => n = cache
      /\ ~Cached(cache, b) => Held(n) \subseteq Held(cache) \cup {[dwBlockNo |-> b, pBuff |-> d]}
  BY DEF IInv, PutIn
<1>2. \A x \in Keys : h[x] = IF Cached(cache, x) = Cached(n, x) THEN content[x]
                             ELSE IF x = b THEN d ELSE OnDisk(x)
  BY DEF Holds
<1> HIDE DEF h
<1>3. ASSUME NEW e \in Held(n) PROVE e.pBuff = h[e.dwBlockNo]
  <2>1. e.dwBlockNo \in Keys /\ Cached(n, e.dwBlockNo)
    BY <1>1, HeldEntries
  <2>2. CASE e \in Held(cache)
    <3>1. Cached(cache, e.dwBlockNo)
      BY <2>2, <1>1, HeldEntries
    <3> QED
      BY <2>1, <2>2, <3>1, <1>2 DEF Agree
  <2>3. CASE e \notin Held(cache)
    <3>1. ~Cached(cache, b) /\ e.dwBlockNo = b /\ e.pBuff = d
      BY <1>1, <2>3
    <3> QED
      BY <3>1, <1>1, <1>2
  <2> QED
    BY <2>2, <2>3
<1>4. ASSUME NEW x \in Keys, ~Cached(n, x) PROVE h[x] = OnDisk(x)
  <2>1. x # b
    BY <1>1, <1>4
  <2> QED
    BY <2>1, <1>2, <1>4 DEF Agree
<1> QED
  BY <1>3, <1>4 DEF Agree, h

(* What is entered without a doubt is its own, and what is evicted is no   *)
(* longer in doubt.                                                        *)
LEMMA EnterOwn ==
  ASSUME IInv, OwnBlocks(cache, doubtful), NEW b \in Keys, NEW d \in Contents,
         NEW n, PutIn(cache, n, b, d), NEW sure \in BOOLEAN, sure => OwnData(b, d)
  PROVE  OwnBlocks(n, Doubts(n, b, sure))
<1>1. /\ Good(cache) /\ Good(n) /\ Cached(n, b)
      /\ Cached(cache, b) => n = cache
      /\ ~Cached(cache, b) => Held(n) \subseteq Held(cache) \cup {[dwBlockNo |-> b, pBuff |-> d]}
  BY DEF IInv, PutIn
<1> SUFFICES ASSUME NEW e \in Held(n), e.dwBlockNo \notin Doubts(n, b, sure)
             PROVE  OwnData(e.dwBlockNo, e.pBuff)
  BY DEF OwnBlocks
<1>2. e.dwBlockNo \in Keys /\ Cached(n, e.dwBlockNo)
  BY <1>1, HeldEntries
<1>3. CASE e \in Held(cache)
  <2>1. e.dwBlockNo \notin doubtful
    BY <1>2 DEF Doubts
  <2> QED
    BY <2>1, <1>3 DEF OwnBlocks
<1>4. CASE e \notin Held(cache)
  <2>1. ~Cached(cache, b) /\ e.dwBlockNo = b /\ e.pBuff = d
    BY <1>1, <1>4
  <2>2. sure
    BY <2>1 DEF Doubts
  <2> QED
    BY <2>1, <2>2
<1> QED
  BY <1>3, <1>4

(* A write leaves own data what it is. *)
LEMMA BumpOwn ==
  ASSUME NEW b \in Keys, NEW d \in Contents, OwnData(b, d)
  PROVE  OwnData(b, Bump(d))
<1>1. d # Junk /\ d.blk = b /\ d.ver \in Int /\ (b = 0 => d.ver # -1)
  BY DEF OwnData, Junk, Contents
<1>2. d.ver \in Nat \cup {-1}
  BY DEF Contents
<1>3. Bump(d).blk = b /\ Bump(d).ver = d.ver + 1
  BY <1>1 DEF Bump, Contents
<1>4. Bump(d).ver # -1
  BY <1>2, <1>3
<1> QED
  BY <1>3, <1>4 DEF OwnData, Junk

(* So does WriteBuff. *)
LEMMA WriteOwn ==
  ASSUME NEW c, Good(c), NEW D, OwnBlocks(c, D), NEW b \in Keys, Cached(c, b)
  PROVE  OwnBlocks(WriteBuff(c, b), D)
<1> DEFINE n == WriteBuff(c, b)
<1>1. \A d \in Held(n) :
            \/ d \in Held(c) /\ d.dwBlockNo # b
            \/ /\ d.dwBlockNo = b
               /\ \E e \in Held(c) : e.dwBlockNo = b /\ d.pBuff = Bump(e.pBuff)
  BY WriteGood
<1> HIDE DEF n
<1> SUFFICES ASSUME NEW d \in Held(n), d.dwBlockNo \notin D
             PROVE  OwnData(d.dwBlockNo, d.pBuff)
  BY DEF OwnBlocks, n
<1>2. CASE d \in Held(c) /\ d.dwBlockNo # b
  BY <1>2 DEF OwnBlocks
<1>3. CASE d.dwBlockNo = b /\ \E e \in Held(c) : e.dwBlockNo = b /\ d.pBuff = Bump(e.pBuff)
  <2>1. PICK e \in Held(c) : e.dwBlockNo = b /\ d.pBuff = Bump(e.pBuff)
    BY <1>3
  <2>2. e.pBuff \in Contents
    BY <2>1, HeldEntries DEF Entries
  <2>3. OwnData(b, e.pBuff)
    BY <2>1, <1>3 DEF OwnBlocks
  <2> QED
    BY <2>1, <2>2, <2>3, <1>3, BumpOwn
<1> QED
  BY <1>1, <1>2, <1>3

(* A write changes the buffer and what the block holds in the same way. *)
LEMMA WriteAgrees ==
  ASSUME NEW c, Good(c), NEW f, f = [x \in Keys |-> f[x]], Agree(c, f),
         NEW b \in Keys, Cached(c, b)
  PROVE  Agree(WriteBuff(c, b), [f EXCEPT ![b] = Bump(@)])
<1> DEFINE n == WriteBuff(c, b)
           g == [f EXCEPT ![b] = Bump(@)]
<1>1. /\ Good(n)
      /\ \A x \in Keys : Cached(c, x) => Cached(n, x)
      /\ \A d \in Held(n) :
            \/ d \in Held(c) /\ d.dwBlockNo # b
            \/ /\ d.dwBlockNo = b
               /\ \E e \in Held(c) : e.dwBlockNo = b /\ d.pBuff = Bump(e.pBuff)
  BY WriteGood
<1>2. g[b] = Bump(f[b]) /\ \A x \in Keys : x # b => g[x] = f[x]
  OBVIOUS
<1> HIDE DEF n, g
<1>3. ASSUME NEW d \in Held(n) PROVE d.pBuff = g[d.dwBlockNo]
  <2>1. d.dwBlockNo \in Keys
    BY <1>1, HeldEntries
  <2>2. CASE d \in Held(c) /\ d.dwBlockNo # b
    BY <2>1, <2>2, <1>2 DEF Agree
  <2>3. CASE d.dwBlockNo = b /\ \E e \in Held(c) : e.dwBlockNo = b /\ d.pBuff = Bump(e.pBuff)
    BY <2>3, <1>2 DEF Agree
  <2> QED
    BY <1>1, <2>2, <2>3
<1>4. ASSUME NEW x \in Keys, ~Cached(n, x) PROVE g[x] = OnDisk(x)
  BY <1>1, <1>2, <1>4 DEF Agree
<1> QED
  BY <1>3, <1>4 DEF Agree, n, g

(* Every step keeps what is cached up to date, whatever the disk delivers. *)
LEMMA NextLatest ==
  IInv /\ Agree(cache, content) /\ [Next]_vars => Agree(cache, content)'
<1> SUFFICES ASSUME IInv, Agree(cache, content), [Next]_vars PROVE Agree(cache', content')
  OBVIOUS
<1> USE DEF IInv
<1>1. ASSUME cache' = cache, content' = content PROVE Agree(cache', content')
  BY <1>1
<1>2. ASSUME NEW t \in Threads, NEW b \in Blocks, GetHit(t, b) PROVE Agree(cache', content')
  <2>1. content = [x \in Keys |-> content[x]] /\ b \in Keys
    BY BlocksAndKeys DEF TypeOK
  <2> QED
    BY <1>2, <2>1, WriteAgrees DEF GetHit
<1>3. ASSUME NEW t \in Threads, GetEnds(t) PROVE Agree(cache', content')
  <2> DEFINE b == pc[t].blk
  <2>1. PICK d \in Delivered(t, b) :
          \E c, h : /\ c = insert_blk_cache(cache, b, d)
                   /\ h = Holds(c, b, d)
                   /\ \/ cache' = c /\ content' = h
                      \/ cache' = WriteBuff(c, b) /\ content' = [h EXCEPT ![b] = Bump(@)]
    BY <1>3 DEF GetEnds
  <2>2. b \in Keys /\ d \in Contents
    BY <1>3, PcFields, BlocksAndKeys, DeliveredData DEF GetEnds, TypeOK
  <2>3. PICK c, h : /\ c = insert_blk_cache(cache, b, d)
                    /\ h = Holds(c, b, d)
                    /\ \/ cache' = c /\ content' = h
                       \/ cache' = WriteBuff(c, b) /\ content' = [h EXCEPT ![b] = Bump(@)]
    BY <2>1
  <2>4. PutIn(cache, c, b, d)
    BY <2>2, <2>3, InsertGood
  <2>5. Agree(c, h)
    BY <2>2, <2>3, <2>4, EnterAgrees
  <2>6. h = [x \in Keys |-> h[x]]
    BY <2>3 DEF Holds
  <2>7. Agree(WriteBuff(c, b), [h EXCEPT ![b] = Bump(@)])
    BY <2>2, <2>4, <2>5, <2>6, WriteAgrees DEF PutIn
  <2> QED
    BY <2>3, <2>5, <2>7
<1>4. ASSUME NEW t \in Threads, ReadEnds(t) PROVE Agree(cache', content')
  <2> DEFINE k == EnteredKey(pc[t].first, pc[t].i)
  <2>1. PICK d \in Delivered(t, pc[t].first + pc[t].i) :
          cache' = insert_blk_cache(cache, k, d) /\ content' = Holds(cache', k, d)
    BY <1>4 DEF ReadEnds
  <2>2. k \in Keys /\ d \in Contents
    BY <1>4, ReadKey, DeliveredData
  <2> HIDE DEF k
  <2>3. PutIn(cache, cache', k, d)
    BY <2>1, <2>2, InsertGood
  <2> QED
    BY <2>1, <2>2, <2>3, EnterAgrees
<1>5. ASSUME NEW t \in Threads, FillNext(t) PROVE Agree(cache', content')
  <2> DEFINE b == pc[t].first + pc[t].i
  <2>1. PICK d \in {OnDisk(b), Junk} :
          cache' = insert_blk_cache_ex(cache, b, d) /\ content' = Holds(cache', b, d)
    BY <1>5 DEF FillNext, FillOne
  <2>2. b \in Keys /\ d \in Contents
    BY <1>5, FilledBlock
  <2> HIDE DEF b
  <2>3. PutIn(cache, cache', b, d)
    BY <2>1, <2>2, InsertExGood
  <2> QED
    BY <2>1, <2>2, <2>3, EnterAgrees
<1> QED
  BY <1>1, <1>2, <1>3, <1>4, <1>5
     DEF Next, vars, LateAnswer, GetMiss, DiskFails, ReadBlock, ReadNext, ClusterRead,
         ScatterEnds, FillEnds

(* With reads of one block, what is not in doubt is its own. *)
LEMMA NextOwn ==
  ASSUME MaxRead = 1
  PROVE  IInv /\ OwnBlocks(cache, doubtful) /\ [Next]_vars => OwnBlocks(cache, doubtful)'
<1> SUFFICES ASSUME IInv, OwnBlocks(cache, doubtful), [Next]_vars
             PROVE  OwnBlocks(cache', doubtful')
  BY DEF OwnBlocks, Held
<1> USE DEF IInv
<1>0. \A b \in Keys : OwnData(b, OnDisk(b))
  BY DEF OwnData, OnDisk, Content, Junk
<1>1. ASSUME cache' = cache, doubtful' = doubtful PROVE OwnBlocks(cache', doubtful')
  BY <1>1
<1>2. ASSUME NEW t \in Threads, NEW b \in Blocks, GetHit(t, b) PROVE OwnBlocks(cache', doubtful')
  <2>1. b \in Keys /\ Cached(cache, b) /\ cache' = WriteBuff(cache, b) /\ doubtful' = doubtful
    BY <1>2, BlocksAndKeys DEF GetHit
  <2> QED
    BY <2>1, WriteOwn
<1>3. ASSUME NEW t \in Threads, GetEnds(t) PROVE OwnBlocks(cache', doubtful')
  <2> DEFINE b == pc[t].blk
             sure == t \notin crossed
  <2>1. PICK d \in Delivered(t, b) :
          LET c == insert_blk_cache(cache, b, d)
          IN  (cache' = c \/ cache' = WriteBuff(c, b)) /\ doubtful' = Doubts(c, b, sure)
    BY <1>3 DEF GetEnds
  <2>2. b \in Blocks /\ b \in Keys /\ d \in Contents /\ (sure => d = OnDisk(b)) /\ sure \in BOOLEAN
    BY <1>3, PcFields, BlocksAndKeys, DeliveredData DEF GetEnds, TypeOK
  <2> DEFINE c == insert_blk_cache(cache, b, d)
  <2>3. PutIn(cache, c, b, d)
    BY <2>2, InsertGood
  <2>4. (cache' = c \/ cache' = WriteBuff(c, b)) /\ doubtful' = Doubts(c, b, sure)
    BY <2>1
  <2>5. Good(c) /\ Cached(c, b)
    BY <2>3 DEF PutIn
  <2> HIDE DEF c, sure
  <2>6. OwnBlocks(c, Doubts(c, b, sure))
    BY <2>2, <2>3, <1>0, EnterOwn
  <2>7. OwnBlocks(WriteBuff(c, b), Doubts(c, b, sure))
    BY <2>2, <2>5, <2>6, WriteOwn
  <2> QED
    BY <2>4, <2>6, <2>7
<1>4. ASSUME NEW t \in Threads, ReadEnds(t) PROVE OwnBlocks(cache', doubtful')
  <2> DEFINE k == EnteredKey(pc[t].first, pc[t].i)
             sure == t \notin crossed
  <2>1. PICK d \in Delivered(t, pc[t].first + pc[t].i) :
          cache' = insert_blk_cache(cache, k, d) /\ doubtful' = Doubts(cache', k, sure)
    BY <1>4 DEF ReadEnds
  <2>2. k \in Keys /\ d \in Contents /\ (sure => d = OnDisk(k)) /\ sure \in BOOLEAN
    BY <1>4, ReadKey, DeliveredData
  <2> HIDE DEF k, sure
  <2>3. PutIn(cache, cache', k, d)
    BY <2>1, <2>2, InsertGood
  <2> QED
    BY <2>1, <2>2, <2>3, <1>0, EnterOwn
<1>5. ASSUME NEW t \in Threads, FillNext(t) PROVE OwnBlocks(cache', doubtful')
  <2> DEFINE b == pc[t].first + pc[t].i
             sure == pc[t].ok
  <2>1. PICK d \in {OnDisk(b)} \cup (IF sure THEN {} ELSE {Junk}) :
          cache' = insert_blk_cache_ex(cache, b, d) /\ doubtful' = Doubts(cache', b, sure)
    BY <1>5 DEF FillNext, FillOne
  <2>2. b \in Keys /\ d \in Contents /\ (sure => d = OnDisk(b)) /\ sure \in BOOLEAN
    BY <1>5, FilledBlock
  <2> HIDE DEF b, sure
  <2>3. PutIn(cache, cache', b, d)
    BY <2>1, <2>2, InsertExGood
  <2> QED
    BY <2>1, <2>2, <2>3, <1>0, EnterOwn
<1> QED
  BY <1>1, <1>2, <1>3, <1>4, <1>5
     DEF Next, vars, LateAnswer, GetMiss, DiskFails, ReadBlock, ReadNext, ClusterRead,
         ScatterEnds, FillEnds

-----------------------------------------------------------------------------
(* The types hold for any number of threads, blocks, chains and entries.   *)
THEOREM SpecTypeOK == Spec => []TypeOK
  BY SpecIInv, PTL DEF IInv

(* However reads of one block and loads of its cluster overlap, it is      *)
(* entered once (bcache.c:395, 477).                                       *)
THEOREM SpecOneEntryPerBlock == Spec => []OneEntryPerBlock
<1>1. IInv => OneEntryPerBlock
  BY DEF IInv, Good, OneEntryPerBlock
<1> QED
  BY <1>1, SpecIInv, PTL

(* The counters by which eviction picks its chain agree with the chains    *)
(* (bcache.c:319-330, 412).                                                *)
THEOREM SpecCountersMatch == Spec => []CountersMatch
<1>1. IInv => CountersMatch
  BY DEF IInv, Good, CountersMatch
<1> QED
  BY <1>1, SpecIInv, PTL

(* Whatever the disk delivers to requests that meet, a cached buffer holds *)
(* what was read into it or written last: a late read replaces nothing     *)
(* (bcache.c:239-247, 395, 477).                                           *)
THEOREM SpecCachedIsLatest == Spec => []CachedIsLatest
<1>1. Init => Agree(cache, content)
  BY InitIInv, LatestAgrees
<1>2. IInv /\ Agree(cache, content) /\ [Next]_vars => Agree(cache, content)'
  BY NextLatest
<1>3. Agree(cache, content) => CachedIsLatest
  BY LatestAgrees DEF Latest
<1> QED
  BY <1>1, <1>2, <1>3, SpecIInv, PTL DEF Spec

(* With reads of one block, a cached buffer is of its own block, unless a  *)
(* request that met another one, or a cluster that could not be read,      *)
(* brought it (hdd.c:190-321, bcache.c:547-558).                           *)
THEOREM SpecCachedIsOwn ==
  ASSUME MaxRead = 1
  PROVE  Spec => []CachedIsOwn
<1>1. Init => OwnBlocks(cache, doubtful)
  BY InitIInv
<1>2. IInv /\ OwnBlocks(cache, doubtful) /\ [Next]_vars => OwnBlocks(cache, doubtful)'
  BY NextOwn
<1>3. OwnBlocks(cache, doubtful) => CachedIsOwn
  BY HeldDef DEF OwnBlocks, OwnData, CachedIsOwn
<1> QED
  BY <1>1, <1>2, <1>3, SpecIInv, PTL DEF Spec

------------------------------------------------------------------------------
(* FatFile: routine by routine, what is left of a state that is sound is    *)
(* sound and differs from it as the call asked for.  Loops of the code are  *)
(* functions on their turns; what is so before a turn is so after it.       *)

(* A set of natural numbers that is not empty has a least member.          *)
LEMMA LeastIsMember ==
    ASSUME NEW T, T \subseteq Nat, T # {}
    PROVE  Least(T) \in T /\ \A x \in T : Least(T) <= x
<1>1. PICK x \in T : \A y \in T : ~ (<<y, x>> \in OpToRel(<, Nat))
  BY NatLessThanWellFounded, WFMin
<1>2. \A y \in T : ~ (y < x)
  BY <1>1 DEF OpToRel
<1>3. \E z \in T : \A y \in T : z <= y
  BY <1>2
<1>4. QED
  BY <1>3 DEF Least

(* What holds before the first turn of a loop and after every turn if it   *)
(* held before.                                                            *)
LEMMA LoopInduction ==
    ASSUME NEW P, NEW k \in Nat, 0 \in P, \A i \in 0..(k - 1) : i \in P => i + 1 \in P
    PROVE  0..k \subseteq P
<1> DEFINE T == {i \in 0..k : i \notin P}
<1>1. SUFFICES ASSUME T # {} PROVE FALSE
  OBVIOUS
<1>2. T \subseteq Nat
  OBVIOUS
<1> DEFINE n == Least(T)
<1>3. n \in T /\ \A x \in T : n <= x
  <2> HIDE DEF T
  <2>1. QED
    BY <1>1, <1>2, LeastIsMember
<1> HIDE DEF n
<1>4. n # 0 /\ n \in 0..k
  BY <1>3
<1>5. n - 1 \in 0..(k - 1) /\ n - 1 \in 0..k /\ n - 1 < n
  BY <1>4
<1>6. n - 1 \in P
  BY <1>3, <1>5
<1>7. n \in P
  BY <1>4, <1>5, <1>6
<1>8. QED
  BY <1>3, <1>7

(* The turns of a loop from x on, k of them.                               *)
Loop(F, x, k, g) == g = [i \in 0..k |-> IF i = 0 THEN x ELSE F[g[i - 1]]]

(* Its equations.                                                          *)
LEMMA LoopTurns ==
    ASSUME NEW F, NEW x, NEW k \in Nat, NEW g, Loop(F, x, k, g)
    PROVE  g[0] = x /\ \A i \in 1..k : g[i] = F[g[i - 1]]
<1>1. \A i \in 0..k : g[i] = IF i = 0 THEN x ELSE F[g[i - 1]]
  BY DEF Loop
<1>2. QED
  BY <1>1

(* One more turn.                                                          *)
LEMMA LoopGoesOn ==
    ASSUME NEW F, NEW x, NEW j \in Nat, NEW g, Loop(F, x, j, g)
    PROVE  \E e : Loop(F, x, j + 1, e)
<1>1. g[0] = x /\ \A i \in 1..j : g[i] = F[g[i - 1]]
  BY LoopTurns
<1> DEFINE e == [i \in 0..(j + 1) |-> IF i = 0 THEN x ELSE F[g[i - 1]]]
<1>2. ASSUME NEW i \in 0..(j + 1), i # 0 PROVE e[i - 1] = g[i - 1]
  <2>1. i - 1 \in 0..(j + 1) /\ (i - 1 # 0 => i - 1 \in 1..j)
    BY <1>2
  <2>2. e[i - 1] = IF i - 1 = 0 THEN x ELSE F[g[(i - 1) - 1]]
    BY <2>1
  <2> HIDE DEF e
  <2>3. QED
    BY <1>1, <2>1, <2>2
<1>3. Loop(F, x, j + 1, e)
  <2>1. e = [i \in 0..(j + 1) |-> IF i = 0 THEN x ELSE F[g[i - 1]]]
    OBVIOUS
  <2> HIDE DEF e
  <2>2. [i \in 0..(j + 1) |-> IF i = 0 THEN x ELSE F[g[i - 1]]]
          = [i \in 0..(j + 1) |-> IF i = 0 THEN x ELSE F[e[i - 1]]]
    BY <1>2
  <2>3. QED
    BY <2>1, <2>2 DEF Loop
<1> HIDE DEF e
<1>4. QED
  BY <1>3

(* A loop runs for as many turns as are asked for.                         *)
LEMMA LoopRuns ==
    ASSUME NEW F, NEW x, NEW k \in Nat
    PROVE  \E g : Loop(F, x, k, g)
<1> DEFINE P == {j \in 0..k : \E g : Loop(F, x, j, g)}
<1>1. 0 \in P
  <2>1. Loop(F, x, 0, [i \in 0..0 |-> x])
    BY DEF Loop
  <2>2. 0 \in 0..k
    OBVIOUS
  <2>3. QED
    BY <2>1, <2>2
<1>2. ASSUME NEW j \in 0..(k - 1), j \in P PROVE j + 1 \in P
  <2>1. PICK g : Loop(F, x, j, g)
    BY <1>2
  <2>2. j \in Nat /\ j + 1 \in 0..k
    OBVIOUS
  <2>3. \E e : Loop(F, x, j + 1, e)
    BY <2>1, <2>2, LoopGoesOn
  <2>4. QED
    BY <2>2, <2>3
<1> HIDE DEF P
<1>3. 0..k \subseteq P
  BY <1>1, <1>2, LoopInduction
<1>4. QED
  BY <1>3 DEF P

------------------------------------------------------------------------------
(* Chains.                                                                  *)

FatOK(ft) == ft \in [0..LastChain -> 0..LastChain] /\ ft[LastChain] = LastChain

IsChain(ft, c, n) ==
    /\ n \in 1..LastCluster
    /\ \A k \in 0..(n - 1) : After(ft, c, k) \in 1..LastCluster
    /\ After(ft, c, n) = LastChain

(* The clusters after c, one by one.                                       *)
LEMMA AfterSteps ==
    ASSUME NEW ft, FatOK(ft), NEW c \in 0..LastChain, NEW k \in Nat
    PROVE  /\ After(ft, c, 0) = c
           /\ After(ft, c, k) \in 0..LastChain
           /\ After(ft, c, k + 1) = ft[After(ft, c, k)]
<1> DEFINE G(j) == CHOOSE g : Loop(ft, c, j, g)
           S == 0..LastChain
<1>1. ASSUME NEW j \in Nat
      PROVE  G(j)[0] = c /\ \A i \in 1..j : G(j)[i] = ft[G(j)[i - 1]]
  <2>1. \E g : Loop(ft, c, j, g)
    BY LoopRuns
  <2>2. Loop(ft, c, j, G(j))
    BY <2>1
  <2>3. PICK g : g = G(j)
    OBVIOUS
  <2> HIDE DEF G
  <2>4. Loop(ft, c, j, g)
    BY <2>2, <2>3
  <2>5. g[0] = c /\ \A i \in 1..j : g[i] = ft[g[i - 1]]
    BY <2>4, LoopTurns
  <2>6. QED
    BY <2>3, <2>5
<1>2. \A j : After(ft, c, j) = G(j)[j]
  BY DEF After, Loop
<1> HIDE DEF G
<1>3. ASSUME NEW j \in Nat PROVE \A i \in 0..j : G(j)[i] \in S
  <2> DEFINE P == {i \in 0..j : G(j)[i] \in S}
  <2>1. 0 \in P
    BY <1>1
  <2>2. ASSUME NEW i \in 0..(j - 1), i \in P PROVE i + 1 \in P
    <3>1. i + 1 \in 1..j /\ i + 1 - 1 = i /\ i + 1 \in 0..j
      OBVIOUS
    <3>2. G(j)[i + 1] = ft[G(j)[i]]
      BY <1>1, <3>1
    <3>3. QED
      BY <2>2, <3>1, <3>2 DEF FatOK
  <2> HIDE DEF P
  <2>3. 0..j \subseteq P
    BY <2>1, <2>2, LoopInduction
  <2>4. QED
    BY <2>3 DEF P
<1>4. G(k + 1)[k] = G(k)[k]
  <2> DEFINE P == {i \in 0..k : G(k + 1)[i] = G(k)[i]}
  <2>1. 0 \in P
    BY <1>1
  <2>2. ASSUME NEW i \in 0..(k - 1), i \in P PROVE i + 1 \in P
    <3>1. i + 1 \in 1..k /\ i + 1 \in 1..(k + 1) /\ i + 1 - 1 = i /\ i + 1 \in 0..k
      OBVIOUS
    <3>2. G(k)[i + 1] = ft[G(k)[i]] /\ G(k + 1)[i + 1] = ft[G(k + 1)[i]]
      BY <1>1, <3>1
    <3>3. QED
      BY <2>2, <3>1, <3>2
  <2> HIDE DEF P
  <2>3. 0..k \subseteq P
    BY <2>1, <2>2, LoopInduction
  <2>4. QED
    BY <2>3 DEF P
<1>5. G(k + 1)[k + 1] = ft[G(k + 1)[k]]
  <2>1. k + 1 \in 1..(k + 1) /\ k + 1 - 1 = k /\ k + 1 \in Nat
    OBVIOUS
  <2>2. QED
    BY <1>1, <2>1
<1>6. QED
  BY <1>1, <1>2, <1>3, <1>4, <1>5

(* One step along a chain.                                                 *)
LEMMA AfterOne ==
    ASSUME NEW ft, FatOK(ft), NEW c \in 0..LastChain
    PROVE  After(ft, c, 1) = ft[c]
<1>1. After(ft, c, 0) = c /\ After(ft, c, 0 + 1) = ft[After(ft, c, 0)]
  BY AfterSteps
<1>2. QED
  BY <1>1

(* A chain never comes back to one of its clusters.                        *)
LEMMA ChainInjective ==
    ASSUME NEW ft, FatOK(ft), NEW c \in 0..LastChain, NEW n, IsChain(ft, c, n)
    PROVE  /\ \A i, j \in 0..(n - 1) : After(ft, c, i) = After(ft, c, j) => i = j
           /\ \A i \in 0..(n - 1) : ft[After(ft, c, i)] \in 1..LastChain
<1>1. n \in Nat /\ n >= 1 /\ LastCluster \in Nat /\ LastChain = LastCluster + 1
  BY DiskAssumption DEF IsChain, LastChain
<1>2. ASSUME NEW i \in 0..(n - 1), NEW j \in 0..(n - 1),
             i < j, After(ft, c, i) = After(ft, c, j)
      PROVE FALSE
  <2> DEFINE m == n - j
             P == {l \in 0..m : After(ft, c, i + l) = After(ft, c, j + l)}
  <2>1. m \in Nat /\ j + m = n /\ i + m \in 0..(n - 1)
    BY <1>1, <1>2
  <2>2. 0 \in P
    BY <1>2, <2>1
  <2>3. ASSUME NEW l \in 0..(m - 1), l \in P PROVE l + 1 \in P
    <3>1. i + l \in Nat /\ j + l \in Nat /\ i + (l + 1) = (i + l) + 1 /\ j + (l + 1) = (j + l) + 1
      BY <1>1
    <3>2. After(ft, c, (i + l) + 1) = ft[After(ft, c, i + l)]
      BY <3>1, AfterSteps
    <3>3. After(ft, c, (j + l) + 1) = ft[After(ft, c, j + l)]
      BY <3>1, AfterSteps
    <3>4. l + 1 \in 0..m
      BY <2>1
    <3>5. QED
      BY <2>3, <3>1, <3>2, <3>3, <3>4
  <2> HIDE DEF P, m
  <2>4. 0..m \subseteq P
    BY <2>1, <2>2, <2>3, LoopInduction
  <2>5. m \in P
    BY <2>1, <2>4
  <2>6. After(ft, c, i + m) = After(ft, c, j + m)
    BY <2>5 DEF P
  <2>7. After(ft, c, i + m) \in 1..LastCluster /\ After(ft, c, j + m) = LastChain
    BY <2>1 DEF IsChain
  <2>8. QED
    BY <1>1, <2>6, <2>7
<1>3. ASSUME NEW i \in 0..(n - 1) PROVE ft[After(ft, c, i)] \in 1..LastChain
  <2>1. After(ft, c, i + 1) = ft[After(ft, c, i)]
    BY <1>1, AfterSteps
  <2>2. i + 1 = n \/ i + 1 \in 0..(n - 1)
    BY <1>1
  <2>3. QED
    BY <1>1, <2>1, <2>2 DEF IsChain
<1>4. ASSUME NEW i \in 0..(n - 1), NEW j \in 0..(n - 1), After(ft, c, i) = After(ft, c, j)
      PROVE i = j
  <2>1. i < j \/ j < i \/ i = j
    BY <1>1
  <2>2. QED
    BY <1>2, <1>4, <2>1
<1>5. QED
  BY <1>3, <1>4

(* ChainLength and Chain of what is a chain.                               *)
LEMMA ChainMeasured ==
    ASSUME NEW ft, FatOK(ft), NEW c \in 0..LastChain, NEW n, IsChain(ft, c, n)
    PROVE  /\ ChainLength(ft, c) = n
           /\ EndsWell(ft, c)
           /\ Chain(ft, c) = {After(ft, c, k) : k \in 0..(n - 1)}
<1> DEFINE T == {k \in 1..LastCluster : AtEnd(After(ft, c, k))} \cup {LastChain}
<1>1. n \in 1..LastCluster /\ LastCluster \in Nat /\ LastChain = LastCluster + 1
  BY DiskAssumption DEF IsChain, LastChain
<1>2. T \subseteq Nat /\ n \in T
  BY <1>1 DEF IsChain, AtEnd
<1>3. Least(T) \in T /\ \A x \in T : Least(T) <= x
  <2> HIDE DEF T
  <2>1. QED
    BY <1>2, LeastIsMember
<1>4. \A k \in 1..(n - 1) : k \notin T
  <2>1. SUFFICES ASSUME NEW k \in 1..(n - 1) PROVE k \notin T
    OBVIOUS
  <2>2. After(ft, c, k) \in 1..LastCluster /\ k <= LastCluster
    BY <1>1 DEF IsChain
  <2>3. QED
    BY <1>1, <2>2 DEF AtEnd, FreeEntry
<1>5. Least(T) = n
  <2> HIDE DEF T
  <2> DEFINE m == Least(T)
  <2>1. m \in Nat /\ m <= n /\ m \in T
    BY <1>2, <1>3
  <2>2. m # 0
    BY <1>1, <2>1 DEF T
  <2> HIDE DEF m
  <2>3. m \notin 1..(n - 1)
    BY <1>4, <2>1
  <2>4. m = n
    BY <1>1, <2>1, <2>2, <2>3
  <2>5. QED
    BY <2>4 DEF m
<1>6. ChainLength(ft, c) = n
  BY <1>5 DEF ChainLength
<1>7. c \in FatIndex \ {0}
  <2>1. After(ft, c, 0) = c /\ 0 \in 0..(n - 1)
    BY <1>1, AfterSteps
  <2>2. c \in 1..LastCluster
    BY <2>1 DEF IsChain
  <2>3. QED
    BY <2>2 DEF FatIndex
<1>8. QED
  BY <1>1, <1>6, <1>7 DEF Chain, EndsWell, IsChain

(* What ends well is a chain.                                              *)
LEMMA EndsWellIsChain ==
    ASSUME NEW ft, FatOK(ft), NEW c, EndsWell(ft, c)
    PROVE  c \in 0..LastChain /\ c \in 1..LastCluster /\ IsChain(ft, c, ChainLength(ft, c))
<1> DEFINE T == {k \in 1..LastCluster : AtEnd(After(ft, c, k))} \cup {LastChain}
           n == ChainLength(ft, c)
<1>1. LastCluster \in Nat /\ LastChain = LastCluster + 1
  BY DiskAssumption DEF LastChain
<1>2. c \in 1..LastCluster /\ c \in 0..LastChain
  BY <1>1 DEF EndsWell, FatIndex
<1>3. T \subseteq Nat /\ T # {}
  BY <1>1
<1>4. n \in T /\ \A x \in T : n <= x
  <2>1. n = Least(T)
    BY DEF ChainLength
  <2> HIDE DEF T, n
  <2>2. QED
    BY <1>3, <2>1, LeastIsMember
<1> HIDE DEF n
<1>5. n \in 1..LastCluster /\ After(ft, c, n) = LastChain
  <2>1. n <= LastCluster /\ After(ft, c, n) = LastChain
    BY DEF EndsWell, n
  <2>2. QED
    BY <1>1, <1>4, <2>1
<1>6. ASSUME NEW k \in 0..(n - 1) PROVE After(ft, c, k) \in 1..LastCluster
  <2>1. CASE k = 0
    BY <1>2, <2>1, AfterSteps
  <2>2. CASE k # 0
    <3>1. k \in 1..LastCluster /\ k < n
      BY <1>1, <1>5, <2>2
    <3>2. ~ AtEnd(After(ft, c, k))
      BY <1>1, <1>4, <1>5, <3>1
    <3>3. After(ft, c, k) \in 0..LastChain
      BY <1>2, <3>1, AfterSteps
    <3>4. QED
      BY <1>1, <3>2, <3>3 DEF AtEnd, FreeEntry
  <2>3. QED
    BY <2>1, <2>2
<1>7. QED
  BY <1>2, <1>5, <1>6 DEF IsChain, n

(* A chain whose clusters keep their entries stays as it is.               *)
LEMMA ChainSame ==
    ASSUME NEW ft, FatOK(ft), NEW fu, FatOK(fu), NEW c \in 0..LastChain, NEW n \in Nat,
           \A k \in 0..(n - 1) : fu[After(ft, c, k)] = ft[After(ft, c, k)]
    PROVE  \A k \in 0..n : After(fu, c, k) = After(ft, c, k)
<1> DEFINE P == {k \in 0..n : After(fu, c, k) = After(ft, c, k)}
<1>1. 0 \in P
  BY AfterSteps
<1>2. ASSUME NEW k \in 0..(n - 1), k \in P PROVE k + 1 \in P
  <2>1. k \in Nat
    OBVIOUS
  <2>4. After(fu, c, k + 1) = fu[After(fu, c, k)] /\ After(ft, c, k + 1) = ft[After(ft, c, k)]
    BY <2>1, AfterSteps
  <2>2. k + 1 \in 0..n
    OBVIOUS
  <2>3. QED
    BY <1>2, <2>4, <2>2
<1> HIDE DEF P
<1>3. 0..n \subseteq P
  BY <1>1, <1>2, LoopInduction
<1>4. QED
  BY <1>3 DEF P

(* A chain has no more clusters than there are.                            *)
LEMMA ChainFits ==
    ASSUME NEW m \in Nat, NEW f \in [0..(m - 1) -> 1..LastCluster],
           \A i, j \in 0..(m - 1) : f[i] = f[j] => i = j
    PROVE  m <= LastCluster
<1>1. LastCluster \in Nat
  BY DiskAssumption
<1>2. IsFiniteSet(1..LastCluster) /\ Cardinality(1..LastCluster) = LastCluster
  BY <1>1, FS_Interval
<1>3. Cardinality(0..(m - 1)) = m
  <2>1. 0 \in Int /\ m - 1 \in Int /\ (0 > m - 1 => m = 0) /\ (m - 1) - 0 + 1 = m
    OBVIOUS
  <2>2. Cardinality(0..(m - 1)) = IF 0 > m - 1 THEN 0 ELSE (m - 1) - 0 + 1
    BY <2>1, FS_Interval
  <2>3. QED
    BY <2>1, <2>2
<1>4. f \in Injection(0..(m - 1), 1..LastCluster)
  BY DEF Injection, IsInjective
<1>5. Cardinality(0..(m - 1)) <= Cardinality(1..LastCluster)
  BY <1>2, <1>4, FS_Injection
<1>6. QED
  BY <1>2, <1>3, <1>5

(* A free cluster is linked to the end of a chain.                         *)
LEMMA ChainGrows ==
    ASSUME NEW ft, FatOK(ft), NEW c \in 0..LastChain, NEW n, IsChain(ft, c, n),
           NEW e \in 1..LastCluster, ft[e] = FreeEntry,
           NEW fu, fu = Linked(ft, After(ft, c, n - 1), e)
    PROVE  /\ FatOK(fu)
           /\ IsChain(fu, c, n + 1)
           /\ \A k \in 0..(n - 1) : After(fu, c, k) = After(ft, c, k)
           /\ After(fu, c, n) = e
           /\ \A d \in 0..LastChain : d # e /\ d # After(ft, c, n - 1) => fu[d] = ft[d]
           /\ \A k \in 0..(n - 1) : After(ft, c, k) # e
<1> DEFINE last == After(ft, c, n - 1)
<1>1. n \in Nat /\ n >= 1 /\ n - 1 \in Nat /\ n - 1 \in 0..(n - 1)
      /\ LastCluster \in Nat /\ LastChain = LastCluster + 1
  BY DiskAssumption DEF IsChain, LastChain
<1>2. \A i, j \in 0..(n - 1) : After(ft, c, i) = After(ft, c, j) => i = j
  BY ChainInjective
<1>3. ASSUME NEW k \in 0..(n - 1) PROVE After(ft, c, k) # e /\ After(ft, c, k) \in 1..LastCluster
  <2>1. ft[After(ft, c, k)] \in 1..LastChain
    BY ChainInjective
  <2>2. QED
    BY <1>1, <2>1 DEF FreeEntry, IsChain
<1>4. last \in 1..LastCluster /\ last # e
  BY <1>1, <1>3
<1> HIDE DEF last
<1>5. /\ FatOK(fu) /\ fu[last] = e /\ fu[e] = LastChain
      /\ \A d \in 0..LastChain : d # e /\ d # last => fu[d] = ft[d]
  <2>1. fu = [ft EXCEPT ![last] = e, ![e] = LastChain]
    BY DEF Linked, last
  <2>2. last \in 0..LastChain /\ e \in 0..LastChain /\ LastChain \in 0..LastChain
        /\ e # LastChain /\ last # LastChain
    BY <1>1, <1>4
  <2>3. ft \in [0..LastChain -> 0..LastChain] /\ ft[LastChain] = LastChain
    BY DEF FatOK
  <2>4. fu \in [0..LastChain -> 0..LastChain]
    BY <2>1, <2>2, <2>3
  <2>5. fu[last] = e /\ fu[e] = LastChain /\ fu[LastChain] = LastChain
    BY <1>4, <2>1, <2>2, <2>3
  <2>6. \A d \in 0..LastChain : d # e /\ d # last => fu[d] = ft[d]
    BY <2>1, <2>3
  <2>7. QED
    BY <2>4, <2>5, <2>6 DEF FatOK
<1>6. \A k \in 0..(n - 1) : After(fu, c, k) = After(ft, c, k)
  <2>1. ASSUME NEW k \in 0..((n - 1) - 1) PROVE fu[After(ft, c, k)] = ft[After(ft, c, k)]
    <3>1. k \in 0..(n - 1) /\ k # n - 1
      BY <1>1
    <3>2. After(ft, c, k) # last
      BY <1>1, <1>2, <3>1 DEF last
    <3>3. QED
      BY <1>1, <1>3, <1>5, <3>1, <3>2
  <2>2. QED
    BY <1>1, <1>5, <2>1, ChainSame
<1>7. After(fu, c, n) = e
  <2>1. After(fu, c, (n - 1) + 1) = fu[After(fu, c, n - 1)]
    BY <1>1, <1>5, AfterSteps
  <2>2. (n - 1) + 1 = n
    BY <1>1
  <2>3. QED
    BY <1>1, <1>5, <1>6, <2>1, <2>2 DEF last
<1>8. After(fu, c, n + 1) = LastChain
  <2>1. After(fu, c, n + 1) = fu[After(fu, c, n)]
    BY <1>1, <1>5, AfterSteps
  <2>2. QED
    BY <1>5, <1>7, <2>1
<1>9. ASSUME NEW k \in 0..n PROVE After(fu, c, k) \in 1..LastCluster
  <2>1. k = n \/ k \in 0..(n - 1)
    BY <1>1
  <2>2. QED
    BY <1>3, <1>6, <1>7, <2>1
<1>10. n + 1 <= LastCluster
  <2> DEFINE f == [k \in 0..((n + 1) - 1) |-> After(fu, c, k)]
  <2>1. \A k \in 0..n : f[k] = After(fu, c, k) /\ k \in 0..((n + 1) - 1)
    BY <1>1
  <2>2. f \in [0..((n + 1) - 1) -> 1..LastCluster]
    BY <1>1, <1>9
  <2> HIDE DEF f
  <2>3. ASSUME NEW i \in 0..n, NEW j \in 0..n, f[i] = f[j] PROVE i = j
    <3>1. (i = n \/ i \in 0..(n - 1)) /\ (j = n \/ j \in 0..(n - 1))
      BY <1>1
    <3>2. After(fu, c, i) = After(fu, c, j)
      BY <2>1, <2>3
    <3>3. QED
      BY <1>2, <1>3, <1>6, <1>7, <3>1, <3>2
  <2>4. \A i, j \in 0..((n + 1) - 1) : f[i] = f[j] => i = j
    BY <1>1, <2>3
  <2>5. n + 1 \in Nat
    BY <1>1
  <2>6. QED
    BY <2>2, <2>4, <2>5, ChainFits
<1>11. IsChain(fu, c, n + 1)
  <2>1. n + 1 \in 1..LastCluster /\ \A k : k \in 0..((n + 1) - 1) => k \in 0..n
    BY <1>1, <1>10
  <2>2. QED
    BY <1>8, <1>9, <2>1 DEF IsChain
<1>12. QED
  BY <1>3, <1>5, <1>6, <1>7, <1>11 DEF last

------------------------------------------------------------------------------
(* Units and clusters.                                                      *)

(* Multiples of the size of a cluster.                                     *)
LEMMA ClusterMultiples ==
    /\ ClusterUnits \in Nat /\ ClusterUnits >= 1
    /\ \A k \in Nat : k * ClusterUnits \in Nat /\ (k + 1) * ClusterUnits = k * ClusterUnits + ClusterUnits
    /\ \A k, n \in Nat : k <= n => k * ClusterUnits <= n * ClusterUnits
    /\ \A k, n \in Nat : k < n => k * ClusterUnits + ClusterUnits <= n * ClusterUnits
    /\ 0 * ClusterUnits = 0
    /\ \A k \in Nat : ClusterUnits * k = k * ClusterUnits
<1>1. ClusterUnits \in Nat /\ ClusterUnits >= 1
  BY DiskAssumption
<1>2. ASSUME NEW k \in Nat, NEW n \in Nat, k <= n PROVE k * ClusterUnits <= n * ClusterUnits
  <2>1. PICK m \in Nat : n = k + m
    <3>1. n = k + (n - k) /\ n - k \in Nat
      BY <1>2
    <3>2. QED
      BY <3>1
  <2>2. m * ClusterUnits \in Nat /\ k * ClusterUnits \in Nat
    BY <1>1
  <2>3. n * ClusterUnits = k * ClusterUnits + m * ClusterUnits
    BY <1>1, <2>1
  <2>4. QED
    BY <2>2, <2>3
<1>3. \A k \in Nat : k * ClusterUnits \in Nat /\ (k + 1) * ClusterUnits = k * ClusterUnits + ClusterUnits
  BY <1>1
<1>4. ASSUME NEW k \in Nat, NEW n \in Nat, k < n
      PROVE  k * ClusterUnits + ClusterUnits <= n * ClusterUnits
  <2>1. k + 1 \in Nat /\ k + 1 <= n
    BY <1>4
  <2>2. (k + 1) * ClusterUnits <= n * ClusterUnits
    BY <1>2, <2>1
  <2>3. QED
    BY <1>3, <2>2
<1>5. 0 * ClusterUnits = 0 /\ \A k \in Nat : ClusterUnits * k = k * ClusterUnits
  BY <1>1
<1>6. QED
  BY <1>1, <1>2, <1>3, <1>4, <1>5

(* The cluster of a chain and the place in it where unit i is.             *)
LEMMA PlaceOfUnit ==
    ASSUME NEW i \in Nat
    PROVE  /\ i \div ClusterUnits \in Nat /\ i % ClusterUnits \in 0..(ClusterUnits - 1)
           /\ i = (i \div ClusterUnits) * ClusterUnits + (i % ClusterUnits)
           /\ \A n \in Nat : i < n * ClusterUnits => i \div ClusterUnits < n
           /\ \A n \in Nat : i <= n * ClusterUnits /\ ~ i \div ClusterUnits < n
                => i = n * ClusterUnits /\ i \div ClusterUnits = n /\ i % ClusterUnits = 0
<1> DEFINE q == i \div ClusterUnits
           r == i % ClusterUnits
<1>1. ClusterUnits \in Nat /\ ClusterUnits >= 1
  BY DiskAssumption
<1>2. q \in Int /\ r \in 0..(ClusterUnits - 1)
  BY <1>1
<1>3. i = ClusterUnits * q + r
  BY <1>1
<1> HIDE DEF q, r
<1>4. q \in Nat
  <2>1. SUFFICES ASSUME q <= -1 PROVE FALSE
    BY <1>2
  <2>2. PICK m \in Nat : q = -1 - m
    <3>1. -1 - q \in Nat /\ q = -1 - (-1 - q)
      BY <1>2, <2>1
    <3>2. QED
      BY <3>1
  <2>3. ClusterUnits * q = -ClusterUnits - ClusterUnits * m
    BY <1>1, <2>2
  <2>4. ClusterUnits * m \in Nat
    BY <1>1
  <2>5. QED
    BY <1>1, <1>2, <1>3, <2>3, <2>4
<1>5. i = q * ClusterUnits + r /\ q * ClusterUnits \in Nat
  BY <1>3, <1>4, ClusterMultiples
<1>6. ASSUME NEW n \in Nat, n <= q PROVE n * ClusterUnits <= i
  <2>1. n * ClusterUnits <= q * ClusterUnits /\ n * ClusterUnits \in Nat
    BY <1>4, <1>6, ClusterMultiples
  <2>2. QED
    BY <1>1, <1>2, <1>5, <2>1
<1>7. ASSUME NEW n \in Nat, i < n * ClusterUnits PROVE q < n
  <2>1. n * ClusterUnits \in Nat
    BY ClusterMultiples
  <2>2. QED
    BY <1>4, <1>6, <1>7, <2>1
<1>8. ASSUME NEW n \in Nat, i <= n * ClusterUnits, ~ q < n
      PROVE  i = n * ClusterUnits /\ q = n /\ r = 0
  <2>1. n <= q /\ n * ClusterUnits \in Nat
    BY <1>4, <1>8, ClusterMultiples
  <2>2. i = n * ClusterUnits
    BY <1>6, <1>8, <2>1
  <2>3. ~ n < q
    <3>1. n < q => n * ClusterUnits + ClusterUnits <= q * ClusterUnits
      BY <1>4, ClusterMultiples
    <3>2. QED
      BY <1>1, <1>2, <1>5, <2>1, <2>2, <3>1
  <2>4. q = n
    BY <1>4, <2>1, <2>3
  <2>5. QED
    BY <1>2, <1>5, <2>1, <2>2, <2>4
<1>9. QED
  BY <1>2, <1>4, <1>5, <1>7, <1>8 DEF q, r

(* Place o of cluster k is a unit of its own.                              *)
LEMMA UnitOfPlace ==
    ASSUME NEW k \in Nat, NEW o \in 0..(ClusterUnits - 1)
    PROVE  /\ k * ClusterUnits + o \in Nat
           /\ (k * ClusterUnits + o) \div ClusterUnits = k
           /\ (k * ClusterUnits + o) % ClusterUnits = o
<1> DEFINE i == k * ClusterUnits + o
           q == i \div ClusterUnits
           r == i % ClusterUnits
<1>1. ClusterUnits \in Nat /\ ClusterUnits >= 1 /\ k * ClusterUnits \in Nat /\ o \in Nat
      /\ o < ClusterUnits
  BY ClusterMultiples
<1>2. i \in Nat /\ i = k * ClusterUnits + o
  BY <1>1
<1> HIDE DEF i
<1>3. q \in Nat /\ r \in 0..(ClusterUnits - 1) /\ i = q * ClusterUnits + r
  BY <1>2, PlaceOfUnit
<1> HIDE DEF q, r
<1>4. q * ClusterUnits \in Nat
      /\ (k < q => k * ClusterUnits + ClusterUnits <= q * ClusterUnits)
      /\ (q < k => q * ClusterUnits + ClusterUnits <= k * ClusterUnits)
  BY <1>3, ClusterMultiples
<1>5. q = k
  BY <1>1, <1>2, <1>3, <1>4
<1>6. r = o
  BY <1>1, <1>2, <1>3, <1>5
<1>7. QED
  BY <1>2, <1>5, <1>6 DEF i, q, r

------------------------------------------------------------------------------
(* States.                                                                  *)

DiskUnits == {d.data[c][i] : d \in Disks, c \in FatIndex, i \in 1..ClusterUnits}

AllUnits ==
    DiskUnits \cup {Zero, Written, Dots}
    \cup {LongEnt(n) : n \in NewDirs}
    \cup {ShortEnt(n, c, z) : n \in Files \cup NewDirs, c \in 0..LastChain, z \in Nat}

VNode == [open : BOOLEAN, start : 0..LastChain, slot : Nat, cur : 0..LastChain, off : Nat,
          last : 0..LastChain, avail : Nat, total : Nat, size : Nat, pos : Nat]

States == [fat : [0..LastChain -> 0..LastChain],
           data : [FatIndex -> [1..ClusterUnits -> AllUnits]],
           vn : [Nodes -> VNode]]

(* A state whose FAT is one.                                               *)
IsState(s) == s \in States /\ s.fat[LastChain] = LastChain

(* The parts of a state.                                                   *)
LEMMA StateParts ==
    ASSUME NEW s
    PROVE  IsState(s) =>
           /\ FatOK(s.fat)
           /\ s.data \in [FatIndex -> [1..ClusterUnits -> AllUnits]]
           /\ s.vn \in [Nodes -> VNode]
           /\ s = [fat |-> s.fat, data |-> s.data, vn |-> s.vn]
BY DEF IsState, States, FatOK

(* A state from its parts.                                                 *)
LEMMA StateMade ==
    ASSUME NEW ft, FatOK(ft), NEW d \in [FatIndex -> [1..ClusterUnits -> AllUnits]],
           NEW m \in [Nodes -> VNode]
    PROVE  IsState([fat |-> ft, data |-> d, vn |-> m])
BY DEF IsState, States, FatOK

(* The fields of a vnode.                                                  *)
LEMMA NodeFields ==
    ASSUME NEW s, IsState(s), NEW v \in Nodes
    PROVE  /\ s.vn[v] \in VNode
           /\ s.vn[v].open \in BOOLEAN /\ s.vn[v].start \in 0..LastChain
           /\ s.vn[v].slot \in Nat /\ s.vn[v].cur \in 0..LastChain /\ s.vn[v].off \in Nat
           /\ s.vn[v].last \in 0..LastChain /\ s.vn[v].avail \in Nat /\ s.vn[v].total \in Nat
           /\ s.vn[v].size \in Nat /\ s.vn[v].pos \in Nat
<1>1. s.vn[v] \in VNode
  BY StateParts
<1>2. QED
  BY <1>1 DEF VNode

(* What a change of one vnode leaves.                                      *)
WithNode(s, v, n) == [s EXCEPT !.vn[v] = n]

(* Only that vnode changes.                                                *)
LEMMA NodeChanged ==
    ASSUME NEW s, IsState(s), NEW v \in Nodes, NEW n \in VNode,
           NEW t, t = WithNode(s, v, n)
    PROVE  /\ IsState(t) /\ t.fat = s.fat /\ t.data = s.data
           /\ t.vn[v] = n
           /\ \A w \in Nodes : w # v => t.vn[w] = s.vn[w]
<1> DEFINE m == [s.vn EXCEPT ![v] = n]
<1>1. /\ FatOK(s.fat) /\ s.data \in [FatIndex -> [1..ClusterUnits -> AllUnits]]
      /\ s.vn \in [Nodes -> VNode] /\ s = [fat |-> s.fat, data |-> s.data, vn |-> s.vn]
  BY StateParts
<1>2. m \in [Nodes -> VNode] /\ m[v] = n /\ \A w \in Nodes : w # v => m[w] = s.vn[w]
  BY <1>1
<1>3. t = [fat |-> s.fat, data |-> s.data, vn |-> m]
  BY <1>1 DEF WithNode
<1> HIDE DEF m
<1>4. IsState(t)
  BY <1>1, <1>2, <1>3, StateMade
<1>5. t.fat = s.fat /\ t.data = s.data /\ t.vn = m
  BY <1>3
<1>6. QED
  BY <1>2, <1>4, <1>5

(* What is known of a file but the place of its cursor.                    *)
SameFile(n, m) ==
    /\ n.open = m.open /\ n.start = m.start /\ n.slot = m.slot
    /\ n.last = m.last /\ n.total = m.total /\ n.size = m.size /\ n.avail = m.avail

(* A step that changes nothing but the cursor of v.                        *)
OnlyCursor(s, t, v) ==
    /\ IsState(t) /\ t.fat = s.fat /\ t.data = s.data
    /\ SameFile(t.vn[v], s.vn[v])
    /\ \A w \in Nodes : w # v => t.vn[w] = s.vn[w]

(* A moved cursor is all that changes.                                     *)
LEMMA MovedChanges ==
    ASSUME NEW s, IsState(s), NEW v \in Nodes,
           NEW cur \in 0..LastChain, NEW off \in Nat, NEW pos \in Nat,
           NEW t, t = Moved(s, v, cur, off, pos)
    PROVE  /\ OnlyCursor(s, t, v)
           /\ t.vn[v].cur = cur /\ t.vn[v].off = off /\ t.vn[v].pos = pos
<1> DEFINE n == [s.vn[v] EXCEPT !.cur = cur, !.off = off, !.pos = pos]
<1>1. s.vn[v] \in VNode
  BY NodeFields
<1>2. n \in VNode /\ SameFile(n, s.vn[v]) /\ n.cur = cur /\ n.off = off /\ n.pos = pos
  BY <1>1 DEF VNode, SameFile
<1>3. t = WithNode(s, v, n)
  <2>1. s.vn \in [Nodes -> VNode] /\ s = [fat |-> s.fat, data |-> s.data, vn |-> s.vn]
    BY StateParts
  <2>2. QED
    BY <2>1 DEF Moved, WithNode
<1> HIDE DEF n
<1>4. /\ IsState(t) /\ t.fat = s.fat /\ t.data = s.data
      /\ t.vn[v] = n
      /\ \A w \in Nodes : w # v => t.vn[w] = s.vn[w]
  <2>1. n \in VNode
    BY <1>2
  <2>2. QED
    BY ONLY <1>3, <2>1, v \in Nodes, IsState(s), NodeChanged
<1>5. QED
  BY <1>2, <1>4 DEF OnlyCursor

(* t is s but that v ends there.                                           *)
SizedTo(s, t, v, last, total, size, avail) ==
    /\ IsState(t) /\ t.fat = s.fat /\ t.data = s.data
    /\ \A w \in Nodes : w # v => t.vn[w] = s.vn[w]
    /\ t.vn[v].last = last /\ t.vn[v].total = total
    /\ t.vn[v].size = size /\ t.vn[v].avail = avail
    /\ t.vn[v].open = s.vn[v].open /\ t.vn[v].start = s.vn[v].start
    /\ t.vn[v].slot = s.vn[v].slot /\ t.vn[v].cur = s.vn[v].cur
    /\ t.vn[v].off = s.vn[v].off /\ t.vn[v].pos = s.vn[v].pos

(* A new end of the file is all that changes.                              *)
LEMMA SizedChanges ==
    ASSUME NEW s, IsState(s), NEW v \in Nodes,
           NEW last \in 0..LastChain, NEW total \in Nat, NEW size \in Nat, NEW avail \in Nat,
           NEW t, t = Sized(s, v, last, total, size, avail)
    PROVE  SizedTo(s, t, v, last, total, size, avail)
<1> DEFINE n == [s.vn[v] EXCEPT !.last = last, !.total = total, !.size = size, !.avail = avail]
<1>1. s.vn[v] \in VNode
  BY NodeFields
<1>2. /\ n \in VNode
      /\ n.last = last /\ n.total = total /\ n.size = size /\ n.avail = avail
      /\ n.open = s.vn[v].open /\ n.start = s.vn[v].start /\ n.slot = s.vn[v].slot
      /\ n.cur = s.vn[v].cur /\ n.off = s.vn[v].off /\ n.pos = s.vn[v].pos
  BY <1>1 DEF VNode
<1>3. t = WithNode(s, v, n)
  <2>1. s.vn \in [Nodes -> VNode] /\ s = [fat |-> s.fat, data |-> s.data, vn |-> s.vn]
    BY StateParts
  <2>2. QED
    BY <2>1 DEF Sized, WithNode
<1> HIDE DEF n
<1>4. /\ IsState(t) /\ t.fat = s.fat /\ t.data = s.data
      /\ t.vn[v] = n
      /\ \A w \in Nodes : w # v => t.vn[w] = s.vn[w]
  <2>1. n \in VNode
    BY <1>2
  <2>2. QED
    BY ONLY <1>3, <2>1, v \in Nodes, IsState(s), NodeChanged
<1>5. QED
  BY <1>2, <1>4 DEF SizedTo

------------------------------------------------------------------------------
(* Cursors.                                                                 *)

(* A cursor of a file with vnode u: at unit pos of its chain.              *)
CursorAt(ft, u, cur, off, pos) ==
    IF cur = LastChain THEN pos = u.size /\ pos = u.total * ClusterUnits /\ off = 0
    ELSE \E k \in 0..(u.total - 1) : /\ cur = After(ft, u.start, k)
                                     /\ off \in 0..ClusterUnits
                                     /\ pos = k * ClusterUnits + off

(* What v remembers of its file is so.                                     *)
Settled(s, v) ==
    /\ IsState(s) /\ v \in Nodes
    /\ IsChain(s.fat, s.vn[v].start, s.vn[v].total)
    /\ s.vn[v].last = After(s.fat, s.vn[v].start, s.vn[v].total - 1)
    /\ s.vn[v].size + s.vn[v].avail = s.vn[v].total * ClusterUnits
    /\ s.vn[v].avail <= ClusterUnits
    /\ s.vn[v].pos <= s.vn[v].size
    /\ CursorAt(s.fat, s.vn[v], s.vn[v].cur, s.vn[v].off, s.vn[v].pos)

(* The cursor moves to another unit of its file.                           *)
LEMMA MovedSettled ==
    ASSUME NEW s, NEW v, Settled(s, v),
           NEW cur \in 0..LastChain, NEW off \in Nat, NEW pos \in Nat,
           CursorAt(s.fat, s.vn[v], cur, off, pos), pos <= s.vn[v].size,
           NEW t, t = Moved(s, v, cur, off, pos)
    PROVE  /\ Settled(t, v) /\ OnlyCursor(s, t, v)
           /\ t.vn[v].cur = cur /\ t.vn[v].off = off /\ t.vn[v].pos = pos
<1>1. IsState(s) /\ v \in Nodes
  BY DEF Settled
<1>2. OnlyCursor(s, t, v) /\ t.vn[v].cur = cur /\ t.vn[v].off = off /\ t.vn[v].pos = pos
  BY <1>1, MovedChanges
<1>3. t.fat = s.fat /\ SameFile(t.vn[v], s.vn[v]) /\ IsState(t)
  BY <1>2 DEF OnlyCursor
<1>4. CursorAt(t.fat, t.vn[v], cur, off, pos)
  BY <1>3 DEF CursorAt, SameFile
<1>5. Settled(t, v)
  BY <1>1, <1>2, <1>3, <1>4 DEF Settled, SameFile
<1>6. QED
  BY <1>2, <1>5

(* Steps of the cursor in a row.                                           *)
LEMMA OnlyCursorTwice ==
    ASSUME NEW s, NEW t, NEW u, NEW v, OnlyCursor(s, t, v), OnlyCursor(t, u, v)
    PROVE  OnlyCursor(s, u, v)
BY DEF OnlyCursor, SameFile

(* Nothing at all may move.                                                *)
LEMMA OnlyCursorNone ==
    ASSUME NEW s, NEW v, IsState(s)
    PROVE  OnlyCursor(s, s, v)
BY DEF OnlyCursor, SameFile

(* Where a unit of a file is, or the end behind its last cluster.          *)
LEMMA UnitFound ==
    ASSUME NEW s, NEW v, Settled(s, v), NEW u, u = s.vn[v], NEW l \in 0..u.size,
           NEW q, q = l \div ClusterUnits, NEW r, r = l % ClusterUnits,
           NEW c, c = After(s.fat, u.start, q)
    PROVE  /\ q \in Nat /\ r \in 0..(ClusterUnits - 1) /\ l = q * ClusterUnits + r
           /\ q > 0 => After(s.fat, u.start, q - 1) \in 1..LastCluster
           /\ \/ q < u.total /\ c \in 1..LastCluster
              \/ /\ c = LastChain /\ l = u.size /\ l = u.total * ClusterUnits
                 /\ r = 0 /\ l >= ClusterUnits
<1>1. /\ u.total \in Nat /\ u.size \in Nat /\ u.avail \in Nat
      /\ u.size + u.avail = u.total * ClusterUnits
      /\ IsChain(s.fat, u.start, u.total)
  BY NodeFields DEF Settled
<1>2. l \in Nat /\ u.total * ClusterUnits \in Nat /\ ClusterUnits \in Nat /\ ClusterUnits >= 1
      /\ l <= u.size
  <2>1. u.total * ClusterUnits \in Nat /\ ClusterUnits \in Nat /\ ClusterUnits >= 1
    BY <1>1, ClusterMultiples
  <2>2. l \in Nat /\ l <= u.size
    BY <1>1
  <2>3. QED
    BY <2>1, <2>2
<1>3. l <= u.total * ClusterUnits
  BY <1>1, <1>2
<1>4. /\ q \in Nat /\ r \in 0..(ClusterUnits - 1) /\ l = q * ClusterUnits + r
      /\ ~ q < u.total => l = u.total * ClusterUnits /\ q = u.total /\ r = 0
  BY <1>1, <1>2, <1>3, PlaceOfUnit
<1>5. u.total >= 1 /\ \A k \in 0..(u.total - 1) : After(s.fat, u.start, k) \in 1..LastCluster
  BY <1>1 DEF IsChain
<1>6. q > 0 => After(s.fat, u.start, q - 1) \in 1..LastCluster
  <2>1. ASSUME q > 0 PROVE q - 1 \in 0..(u.total - 1)
    BY <1>1, <1>4, <2>1
  <2>2. QED
    BY <1>5, <2>1
<1>7. CASE q < u.total
  <2>1. q \in 0..(u.total - 1)
    BY <1>1, <1>4, <1>7
  <2>2. c \in 1..LastCluster
    BY <1>5, <2>1
  <2>3. QED
    BY <1>4, <1>6, <1>7, <2>2
<1>8. CASE ~ q < u.total
  <2>1. l = u.total * ClusterUnits /\ q = u.total /\ r = 0
    BY <1>4, <1>8
  <2>2. l = u.size
    BY <1>1, <1>2, <2>1
  <2>3. c = LastChain
    BY <1>1, <2>1 DEF IsChain
  <2>4. l >= ClusterUnits
    <3>1. 1 * ClusterUnits <= u.total * ClusterUnits
      BY <1>1, <1>5, ClusterMultiples
    <3>2. QED
      BY <1>2, <2>1, <3>1
  <2>5. QED
    BY <1>4, <1>6, <2>1, <2>2, <2>3, <2>4
<1>9. QED
  BY <1>7, <1>8

(* fat32_cluster_tracking goes to every unit of the file and to its end.   *)
LEMMA TrackedSettled ==
    ASSUME NEW s, NEW v, Settled(s, v), NEW l \in 0..s.vn[v].size
    PROVE  /\ CanTrack(s, v, l)
           /\ Settled(Tracked(s, v, l), v)
           /\ OnlyCursor(s, Tracked(s, v, l), v)
           /\ Tracked(s, v, l).vn[v].pos = l
<1> DEFINE u == s.vn[v]
           q == l \div ClusterUnits
           r == l % ClusterUnits
           c == After(s.fat, u.start, q)
<1>1. /\ q \in Nat /\ r \in 0..(ClusterUnits - 1) /\ l = q * ClusterUnits + r
      /\ q > 0 => After(s.fat, u.start, q - 1) \in 1..LastCluster
      /\ \/ q < u.total /\ c \in 1..LastCluster
         \/ /\ c = LastChain /\ l = u.size /\ l = u.total * ClusterUnits
            /\ r = 0 /\ l >= ClusterUnits
  BY UnitFound
<1>2. u.total \in Nat /\ u.size \in Nat /\ LastCluster \in Nat /\ LastChain = LastCluster + 1
      /\ ClusterUnits \in Nat /\ ClusterUnits >= 1
  BY NodeFields, DiskAssumption DEF Settled, LastChain
<1>3. CanTrack(s, v, l)
  <2>1. q > 0 => ~ AtEnd(After(s.fat, u.start, q - 1))
    BY <1>1, <1>2 DEF AtEnd, FreeEntry
  <2>2. AtEnd(c) => r = 0
    BY <1>1, <1>2 DEF AtEnd, FreeEntry
  <2>3. QED
    BY <2>1, <2>2 DEF CanTrack
<1> DEFINE cur == IF l >= ClusterUnits /\ AtEnd(c) THEN LastChain ELSE c
<1>4. Tracked(s, v, l) = Moved(s, v, cur, r, l)
  BY DEF Tracked
<1> HIDE DEF q, r
<1>5. (cur = c /\ q < u.total /\ c \in 1..LastCluster) \/
      (cur = LastChain /\ l = u.size /\ l = u.total * ClusterUnits /\ r = 0)
  BY <1>1, <1>2 DEF AtEnd, FreeEntry
<1>6. cur \in 0..LastChain /\ r \in Nat /\ l \in Nat /\ l <= u.size
  <2>1. l \in Nat /\ l <= u.size
    BY <1>2
  <2> HIDE DEF u, c, cur
  <2>2. QED
    BY <1>1, <1>2, <1>5, <2>1
<1> HIDE DEF cur
<1>7. CursorAt(s.fat, u, cur, r, l)
  <2>1. CASE cur = c /\ q < u.total /\ c \in 1..LastCluster
    <3>1. q \in 0..(u.total - 1) /\ r \in 0..ClusterUnits
      <4> HIDE DEF u
      <4>1. QED
        BY <1>1, <1>2, <2>1
    <3>2. cur # LastChain
      BY <1>2, <2>1
    <3>3. cur = After(s.fat, u.start, q) /\ l = q * ClusterUnits + r
      BY <1>1, <2>1
    <3> HIDE DEF u
    <3>4. QED
      BY <3>1, <3>2, <3>3 DEF CursorAt
  <2>2. CASE cur = LastChain /\ l = u.size /\ l = u.total * ClusterUnits /\ r = 0
    BY <2>2 DEF CursorAt
  <2>3. QED
    BY <1>5, <2>1, <2>2
<1>8. /\ Settled(Tracked(s, v, l), v) /\ OnlyCursor(s, Tracked(s, v, l), v)
      /\ Tracked(s, v, l).vn[v].pos = l
  BY <1>4, <1>6, <1>7, MovedSettled
<1>9. QED
  BY <1>3, <1>8

(* fat32_vnode_lseek never fails on such a file and stays in it.           *)
SoughtTo(s, v, l, r) ==
    /\ r.n = Clipped(s, v, l) /\ r.n \in 0..s.vn[v].size
    /\ l \in 0..s.vn[v].size => r.n = l
    /\ Settled(r.s, v) /\ OnlyCursor(s, r.s, v) /\ r.s.vn[v].pos = r.n

(* fat32_vnode_lseek leaves the vnode settled and arrives.                 *)
LEMMA LseekSettled ==
    ASSUME NEW s, NEW v, Settled(s, v), NEW l \in Int,
           NEW r, r = Lseek(s, v, l)
    PROVE  SoughtTo(s, v, l, r)
<1> DEFINE new == Clipped(s, v, l)
<1>1. s.vn[v].size \in Nat /\ IsState(s)
  BY NodeFields DEF Settled
<1>2. new \in 0..s.vn[v].size /\ (l \in 0..s.vn[v].size => new = l)
  BY <1>1 DEF Clipped
<1> HIDE DEF new
<1>3. /\ CanTrack(s, v, new) /\ Settled(Tracked(s, v, new), v)
      /\ OnlyCursor(s, Tracked(s, v, new), v) /\ Tracked(s, v, new).vn[v].pos = new
  BY <1>2, TrackedSettled
<1>4. r = IF new = s.vn[v].pos THEN [s |-> s, n |-> new] ELSE [s |-> Tracked(s, v, new), n |-> new]
  BY <1>3 DEF Lseek, new
<1>5. OnlyCursor(s, s, v)
  BY <1>1, OnlyCursorNone
<1>6. QED
  BY <1>2, <1>3, <1>4, <1>5 DEF new, SoughtTo

(* generalize_cluster_offset: the cursor before a unit of the file goes    *)
(* into the cluster where that unit is.                                    *)
LEMMA GeneralizedSettled ==
    ASSUME NEW s, NEW v, Settled(s, v), CanGeneralize(s, v),
           NEW t, t = Generalized(s, v)
    PROVE  /\ Settled(t, v) /\ OnlyCursor(s, t, v) /\ t.vn[v].pos = s.vn[v].pos
           /\ t.vn[v].off < ClusterUnits
<1> DEFINE u == s.vn[v]
           c == After(s.fat, u.cur, 1)
<1>0. /\ IsState(s) /\ v \in Nodes /\ IsChain(s.fat, u.start, u.total)
      /\ u.pos <= u.size /\ CursorAt(s.fat, u, u.cur, u.off, u.pos)
  BY DEF Settled
<1>1. /\ u.start \in 0..LastChain /\ u.cur \in 0..LastChain /\ u.off \in Nat
      /\ u.pos \in Nat /\ u.total \in Nat /\ u.size \in Nat
      /\ FatOK(s.fat) /\ ClusterUnits \in Nat /\ ClusterUnits >= 1
      /\ LastCluster \in Nat /\ LastChain = LastCluster + 1
  BY <1>0, NodeFields, StateParts, DiskAssumption DEF LastChain
<1>2. CASE u.off < ClusterUnits
  <2>1. t = s
    BY <1>2 DEF Generalized
  <2>2. QED
    BY <1>0, <1>2, <2>1, OnlyCursorNone
<1>3. CASE ~ u.off < ClusterUnits
  <2>1. ~ AtEnd(c) /\ t = Moved(s, v, c, u.off - ClusterUnits, u.pos)
    BY <1>3 DEF CanGeneralize, Generalized
  <2>2. u.cur # LastChain
    <3>1. u.cur = LastChain => u.off = 0
      BY <1>0 DEF CursorAt
    <3> HIDE DEF u
    <3>2. QED
      BY <1>1, <1>3, <3>1
  <2>3. PICK k \in 0..(u.total - 1) : /\ u.cur = After(s.fat, u.start, k)
                                      /\ u.off \in 0..ClusterUnits
                                      /\ u.pos = k * ClusterUnits + u.off
    BY <1>0, <2>2 DEF CursorAt
  <2> HIDE DEF u
  <2>4. k \in Nat /\ k + 1 \in Nat /\ u.off = ClusterUnits
    BY <1>1, <1>3, <2>3
  <2>5. c = After(s.fat, u.start, k + 1)
    <3>1. c = s.fat[u.cur]
      BY <1>1, AfterOne
    <3>2. After(s.fat, u.start, k + 1) = s.fat[After(s.fat, u.start, k)]
      BY <1>1, <2>4, AfterSteps
    <3>3. QED
      BY <2>3, <3>1, <3>2
  <2>6. k + 1 \in 0..(u.total - 1)
    <3>1. After(s.fat, u.start, u.total) = LastChain
      BY <1>0 DEF IsChain
    <3>2. k + 1 # u.total
      BY <2>1, <2>5, <3>1 DEF AtEnd
    <3>3. QED
      BY <1>1, <2>3, <2>4, <3>2
  <2>7. c \in 1..LastCluster
    BY <1>0, <2>5, <2>6 DEF IsChain
  <2>8. u.pos = (k + 1) * ClusterUnits + 0 /\ u.off - ClusterUnits = 0
    <3>1. (k + 1) * ClusterUnits = k * ClusterUnits + ClusterUnits /\ k * ClusterUnits \in Nat
      BY <2>4, ClusterMultiples
    <3>2. QED
      BY <1>1, <2>3, <2>4, <3>1
  <2>9. CursorAt(s.fat, u, c, 0, u.pos)
    <3>1. c # LastChain /\ 0 \in 0..ClusterUnits
      BY <1>1, <2>7
    <3> HIDE DEF c
    <3>2. QED
      BY <2>5, <2>6, <2>8, <3>1 DEF CursorAt
  <2>10. c \in 0..LastChain /\ 0 \in Nat
    BY <1>1, <2>7
  <2> HIDE DEF c
  <2>11. t = Moved(s, v, c, 0, u.pos)
    BY <2>1, <2>8
  <2>12. Settled(t, v) /\ OnlyCursor(s, t, v) /\ t.vn[v].off = 0 /\ t.vn[v].pos = u.pos
    BY <1>0, <1>1, <2>9, <2>10, <2>11, MovedSettled DEF u
  <2>13. QED
    BY <1>1, <2>12 DEF u
<1>4. QED
  BY <1>2, <1>3

(* Before a unit of the file it can.                                       *)
LEMMA InsideGeneralizes ==
    ASSUME NEW s, NEW v, Settled(s, v), s.vn[v].pos < s.vn[v].total * ClusterUnits
    PROVE  CanGeneralize(s, v) /\ s.vn[v].cur # LastChain
<1> DEFINE u == s.vn[v]
           c == After(s.fat, u.cur, 1)
<1>0. /\ IsState(s) /\ v \in Nodes /\ IsChain(s.fat, u.start, u.total)
      /\ CursorAt(s.fat, u, u.cur, u.off, u.pos)
  BY DEF Settled
<1>1. /\ u.start \in 0..LastChain /\ u.cur \in 0..LastChain /\ u.off \in Nat
      /\ u.pos \in Nat /\ u.total \in Nat
      /\ FatOK(s.fat) /\ ClusterUnits \in Nat /\ ClusterUnits >= 1
      /\ LastCluster \in Nat /\ LastChain = LastCluster + 1
  BY <1>0, NodeFields, StateParts, DiskAssumption DEF LastChain
<1>2. u.cur # LastChain
  <2>1. u.cur = LastChain => u.pos = u.total * ClusterUnits
    BY <1>0 DEF CursorAt
  <2>2. u.total * ClusterUnits \in Nat /\ u.pos < u.total * ClusterUnits
    BY <1>1, ClusterMultiples
  <2> HIDE DEF u
  <2>3. QED
    BY <1>1, <2>1, <2>2
<1>3. PICK k \in 0..(u.total - 1) : /\ u.cur = After(s.fat, u.start, k)
                                    /\ u.off \in 0..ClusterUnits
                                    /\ u.pos = k * ClusterUnits + u.off
  BY <1>0, <1>2 DEF CursorAt
<1>4. u.pos < u.total * ClusterUnits
  OBVIOUS
<1>5. ASSUME ~ u.off < ClusterUnits PROVE ~ AtEnd(c)
  <2> HIDE DEF u
  <2>1. k \in Nat /\ k + 1 \in Nat /\ u.off = ClusterUnits
    BY <1>1, <1>3, <1>5
  <2>2. c = After(s.fat, u.start, k + 1)
    <3>1. c = s.fat[u.cur]
      BY <1>1, AfterOne
    <3>2. After(s.fat, u.start, k + 1) = s.fat[After(s.fat, u.start, k)]
      BY <1>1, <2>1, AfterSteps
    <3>3. QED
      BY <1>3, <3>1, <3>2
  <2>3. k + 1 # u.total
    <3>1. (k + 1) * ClusterUnits = k * ClusterUnits + ClusterUnits /\ k * ClusterUnits \in Nat
          /\ u.total * ClusterUnits \in Nat
      BY <1>1, <2>1, ClusterMultiples
    <3>2. (k + 1) * ClusterUnits # u.total * ClusterUnits
      BY <1>1, <1>3, <1>4, <2>1, <3>1
    <3>3. QED
      BY <3>2
  <2>4. k + 1 \in 0..(u.total - 1)
    BY ONLY k \in 0..(u.total - 1), <1>1, <2>1, <2>3
  <2>5. c \in 1..LastCluster
    BY <1>0, <2>2, <2>4 DEF IsChain
  <2> HIDE DEF c
  <2>6. QED
    BY <1>1, <2>5 DEF AtEnd, FreeEntry
<1>6. QED
  BY <1>2, <1>5 DEF CanGeneralize

------------------------------------------------------------------------------
(* Growing.                                                                 *)

(* The clusters of v.                                                      *)
Own(s, v) == {After(s.fat, s.vn[v].start, k) : k \in 0..(s.vn[v].total - 1)}

(* A step that changes nothing but v, and makes the chain of v longer by   *)
(* free clusters if it changes the FAT.                                    *)
Grows(s, t, v) ==
    /\ IsState(t)
    /\ \A w \in Nodes : w # v => t.vn[w] = s.vn[w]
    /\ t.vn[v].open = s.vn[v].open /\ t.vn[v].start = s.vn[v].start
    /\ t.vn[v].slot = s.vn[v].slot
    /\ t.vn[v].total >= s.vn[v].total /\ t.vn[v].size >= s.vn[v].size
    /\ \A k \in 0..(s.vn[v].total - 1) :
            After(t.fat, s.vn[v].start, k) = After(s.fat, s.vn[v].start, k)
    /\ \A k \in s.vn[v].total..(t.vn[v].total - 1) :
            s.fat[After(t.fat, s.vn[v].start, k)] = FreeEntry
    /\ \A c \in 0..LastChain : c \notin Own(t, v) => t.fat[c] = s.fat[c]

(* The cursor's steps are such steps.                                      *)
LEMMA CursorGrows ==
    ASSUME NEW s, NEW t, NEW v, IsState(s), v \in Nodes, OnlyCursor(s, t, v)
    PROVE  Grows(s, t, v)
<1>1. s.vn[v].total \in Nat /\ s.vn[v].size \in Nat
  BY NodeFields
<1>2. IsState(t) /\ t.fat = s.fat /\ SameFile(t.vn[v], s.vn[v])
      /\ \A w \in Nodes : w # v => t.vn[w] = s.vn[w]
  BY DEF OnlyCursor
<1>3. /\ t.vn[v].open = s.vn[v].open /\ t.vn[v].start = s.vn[v].start
      /\ t.vn[v].slot = s.vn[v].slot /\ t.vn[v].total = s.vn[v].total
      /\ t.vn[v].size = s.vn[v].size
  BY <1>2 DEF SameFile
<1>4. \A k : k \notin s.vn[v].total..(t.vn[v].total - 1)
  BY <1>1, <1>3
<1>5. QED
  BY <1>1, <1>2, <1>3, <1>4 DEF Grows

(* Clusters of a chain are not free.                                       *)
LEMMA OwnNotFree ==
    ASSUME NEW s, NEW v, Settled(s, v), NEW c \in Own(s, v)
    PROVE  c \in 1..LastCluster /\ s.fat[c] # FreeEntry
<1>1. IsState(s) /\ v \in Nodes /\ IsChain(s.fat, s.vn[v].start, s.vn[v].total)
  BY DEF Settled
<1>2. FatOK(s.fat) /\ s.vn[v].start \in 0..LastChain
  BY <1>1, StateParts, NodeFields
<1>3. PICK k \in 0..(s.vn[v].total - 1) : c = After(s.fat, s.vn[v].start, k)
  BY DEF Own
<1>4. s.fat[c] \in 1..LastChain
  BY <1>1, <1>2, <1>3, ChainInjective
<1>5. QED
  BY <1>1, <1>3, <1>4 DEF IsChain, FreeEntry

(* A file grows in two steps.                                              *)
LEMMA GrowsTwice ==
    ASSUME NEW s, NEW t, NEW u, NEW v, Settled(s, v), Settled(t, v), Settled(u, v),
           Grows(s, t, v), Grows(t, u, v)
    PROVE  Grows(s, u, v)
<1> DEFINE a == s.vn[v].total
           b == t.vn[v].total
           d == u.vn[v].total
           at == s.vn[v].start
<1>1. /\ a \in Nat /\ b \in Nat /\ d \in Nat /\ a <= b /\ b <= d
      /\ t.vn[v].start = at /\ u.vn[v].start = at
      /\ s.vn[v].size \in Nat /\ t.vn[v].size \in Nat /\ u.vn[v].size \in Nat
  BY NodeFields DEF Settled, Grows
<1>2. /\ \A k \in 0..(a - 1) : After(t.fat, at, k) = After(s.fat, at, k)
      /\ \A k \in 0..(b - 1) : After(u.fat, at, k) = After(t.fat, at, k)
      /\ \A k \in a..(b - 1) : s.fat[After(t.fat, at, k)] = FreeEntry
      /\ \A k \in b..(d - 1) : t.fat[After(u.fat, at, k)] = FreeEntry
      /\ \A c \in 0..LastChain : c \notin Own(t, v) => t.fat[c] = s.fat[c]
      /\ \A c \in 0..LastChain : c \notin Own(u, v) => u.fat[c] = t.fat[c]
  BY <1>1 DEF Grows
<1>3. Own(t, v) \subseteq Own(u, v)
  <2>1. Own(t, v) = {After(t.fat, at, k) : k \in 0..(b - 1)}
        /\ Own(u, v) = {After(u.fat, at, k) : k \in 0..(d - 1)}
    BY <1>1 DEF Own
  <2>2. \A k \in 0..(b - 1) : k \in 0..(d - 1)
    BY <1>1
  <2> HIDE DEF at, b, d
  <2>3. QED
    BY <1>2, <2>1, <2>2
<1>4. ASSUME NEW k \in b..(d - 1) PROVE s.fat[After(u.fat, at, k)] = FreeEntry
  <2> DEFINE x == After(u.fat, at, k)
  <2>1. t.fat[x] = FreeEntry
    BY <1>2
  <2>2. x \in 0..LastChain
    <3>1. FatOK(u.fat) /\ at \in 0..LastChain /\ k \in Nat
      BY <1>1, StateParts, NodeFields DEF Settled
    <3>2. QED
      BY <3>1, AfterSteps
  <2> HIDE DEF x
  <2>3. x \notin Own(t, v)
    BY <2>1, OwnNotFree
  <2>4. QED
    BY <1>2, <2>1, <2>2, <2>3 DEF x
<1>5. ASSUME NEW k \in a..(d - 1) PROVE s.fat[After(u.fat, at, k)] = FreeEntry
  <2>1. k \in b..(d - 1) \/ (k \in a..(b - 1) /\ k \in 0..(b - 1))
    BY <1>1
  <2>2. QED
    BY <1>2, <1>4, <2>1
<1>6. ASSUME NEW k \in 0..(a - 1) PROVE After(u.fat, at, k) = After(s.fat, at, k)
  <2>1. k \in 0..(b - 1)
    BY <1>1
  <2>2. QED
    BY <1>2, <2>1
<1>7. ASSUME NEW c \in 0..LastChain, c \notin Own(u, v) PROVE u.fat[c] = s.fat[c]
  BY <1>2, <1>3, <1>7
<1>8. a <= d /\ s.vn[v].size <= u.vn[v].size
  BY <1>1 DEF Grows
<1>9. /\ IsState(u) /\ \A w \in Nodes : w # v => u.vn[w] = s.vn[w]
      /\ u.vn[v].open = s.vn[v].open /\ u.vn[v].slot = s.vn[v].slot
  BY DEF Grows
<1>10. QED
  BY <1>1, <1>5, <1>6, <1>7, <1>8, <1>9 DEF Grows

(* get_free_cluster finds a cluster that is free.                          *)
LEMMA FreeClusterFound ==
    ASSUME NEW ft, FatOK(ft), get_free_cluster(ft) # 0
    PROVE  get_free_cluster(ft) \in 1..LastCluster /\ ft[get_free_cluster(ft)] = FreeEntry
<1> DEFINE T == {c \in FatIndex : ft[c] = FreeEntry}
<1>1. LastCluster \in Nat
  BY DiskAssumption
<1>2. T # {} /\ get_free_cluster(ft) = Least(T)
  BY DEF get_free_cluster
<1>3. T \subseteq Nat
  BY <1>1 DEF FatIndex
<1>4. Least(T) \in T
  <2> HIDE DEF T
  <2>1. QED
    BY <1>2, <1>3, LeastIsMember
<1>5. QED
  BY <1>1, <1>2, <1>4 DEF FatIndex

(* The file takes k units of the room in its last cluster.                 *)
LEMMA SizedSettled ==
    ASSUME NEW s, NEW v, Settled(s, v), NEW k \in 0..s.vn[v].avail,
           NEW t, t = Sized(s, v, s.vn[v].last, s.vn[v].total, s.vn[v].size + k, s.vn[v].avail - k)
    PROVE  /\ Settled(t, v) /\ Grows(s, t, v) /\ t.data = s.data /\ t.fat = s.fat
           /\ t.vn[v].size = s.vn[v].size + k /\ t.vn[v].avail = s.vn[v].avail - k
           /\ t.vn[v].pos = s.vn[v].pos
<1> DEFINE n == s.vn[v]
           m == t.vn[v]
<1>1. /\ IsState(s) /\ v \in Nodes /\ IsChain(s.fat, n.start, n.total)
      /\ n.last = After(s.fat, n.start, n.total - 1) /\ n.size + n.avail = n.total * ClusterUnits
      /\ n.avail <= ClusterUnits
      /\ n.pos <= n.size /\ CursorAt(s.fat, n, n.cur, n.off, n.pos)
  BY DEF Settled
<1>2. /\ n.size \in Nat /\ n.avail \in Nat /\ n.total \in Nat /\ n.last \in 0..LastChain
      /\ n.pos \in Nat
  BY <1>1, NodeFields
<1>3. n.size + k \in Nat /\ n.avail - k \in Nat /\ k \in Nat
  BY <1>2
<1>4. /\ IsState(t) /\ t.fat = s.fat /\ t.data = s.data
      /\ \A w \in Nodes : w # v => t.vn[w] = s.vn[w]
      /\ m.last = n.last /\ m.total = n.total
      /\ m.size = n.size + k /\ m.avail = n.avail - k
      /\ m.open = n.open /\ m.start = n.start
      /\ m.slot = n.slot /\ m.cur = n.cur
      /\ m.off = n.off /\ m.pos = n.pos
  <2>1. PICK z \in Nat : z = n.size + k
    BY <1>3
  <2>2. PICK a \in Nat : a = n.avail - k
    BY <1>3
  <2>3. PICK e \in 0..LastChain : e = n.last
    BY <1>2
  <2>4. PICK c \in Nat : c = n.total
    BY <1>2
  <2>5. t = Sized(s, v, e, c, z, a) /\ IsState(s) /\ v \in Nodes
    BY <1>1, <2>1, <2>2, <2>3, <2>4
  <2>6. SizedTo(s, t, v, e, c, z, a)
    BY <2>5, SizedChanges
  <2>7. QED
    BY <2>1, <2>2, <2>3, <2>4, <2>6 DEF SizedTo
<1> HIDE DEF n, m
<1>5. CursorAt(t.fat, m, m.cur, m.off, m.pos)
  <2>1. CASE n.cur = LastChain
    <3>1. n.pos = n.size /\ n.pos = n.total * ClusterUnits /\ n.off = 0
      BY <1>1, <2>1 DEF CursorAt
    <3>2. k = 0 /\ n.size + k = n.size
      <4>1. n.avail = 0
        BY <1>1, <1>2, <3>1
      <4>2. QED
        BY <1>2, <4>1 DEF n
    <3>3. QED
      BY <1>4, <2>1, <3>1, <3>2 DEF CursorAt
  <2>2. CASE n.cur # LastChain
    BY <1>1, <1>4, <2>2 DEF CursorAt
  <2>3. QED
    BY <2>1, <2>2
<1>6. m.size + m.avail = m.total * ClusterUnits /\ m.pos <= m.size
  BY <1>1, <1>2, <1>3, <1>4
<1>10. m.avail <= ClusterUnits
  BY <1>1, <1>2, <1>3, <1>4, DiskAssumption
<1>7. Settled(t, v)
  BY <1>1, <1>4, <1>5, <1>6, <1>10 DEF Settled, m
<1>8. Grows(s, t, v)
  <2>1. \A j : j \notin n.total..(m.total - 1)
    BY <1>2, <1>4
  <2>2. m.total >= n.total /\ m.size >= n.size
    BY <1>2, <1>3, <1>4
  <2>3. QED
    BY <1>4, <2>1, <2>2 DEF Grows, n, m
<1>9. QED
  BY <1>4, <1>7, <1>8 DEF n, m


(* The file v of s became longer by k units of nothing written.            *)
Grown(s, v, t, k) ==
    /\ Settled(t, v) /\ Grows(s, t, v) /\ t.data = s.data
    /\ t.vn[v].pos = s.vn[v].pos /\ t.vn[v].size = s.vn[v].size + k

(* Growing by j and then by k.                                             *)
LEMMA GrownTwice ==
    ASSUME NEW s, NEW t, NEW u, NEW v, Settled(s, v), NEW j \in Int, NEW k \in Int,
           Grown(s, v, t, j), Grown(t, v, u, k)
    PROVE  Grown(s, v, u, j + k)
<1>1. s.vn[v].size \in Nat
  BY NodeFields DEF Settled
<1>2. Grows(s, u, v)
  BY GrowsTwice DEF Grown
<1>3. u.vn[v].size = (s.vn[v].size + j) + k
  BY DEF Grown
<1>4. u.vn[v].size = s.vn[v].size + (j + k)
  BY <1>1, <1>3
<1>5. QED
  BY <1>2, <1>4 DEF Grown

(* What is taken of a cluster fits into it.                                *)
LEMMA PartFits == ASSUME NEW left \in Int, left > 0 PROVE Part(left) \in 1..ClusterUnits
BY DiskAssumption DEF Part

(* What OneMore makes of a state and a vnode.                              *)
LEMMA OneMoreMade ==
    ASSUME NEW s, NEW v, IsState(s), v \in Nodes, NEW left \in Int, left > 0,
           NEW e, e = get_free_cluster(s.fat), e \in 1..LastCluster,
           NEW n, n = s.vn[v], NEW fu, fu = Linked(s.fat, n.last, e), FatOK(fu),
           NEW t, t = OneMore(s, v, left)
    PROVE  /\ IsState(t) /\ t.fat = fu /\ t.data = s.data
           /\ \A w \in Nodes : w # v => t.vn[w] = s.vn[w]
           /\ t.vn[v].last = e /\ t.vn[v].total = n.total + 1
           /\ t.vn[v].size = n.size + Part(left)
           /\ t.vn[v].avail = ClusterUnits - Part(left)
           /\ t.vn[v].open = n.open /\ t.vn[v].start = n.start /\ t.vn[v].slot = n.slot
           /\ t.vn[v].cur = (IF n.cur = LastChain THEN e ELSE n.cur)
           /\ t.vn[v].off = n.off /\ t.vn[v].pos = n.pos
<1>1. /\ n.size \in Nat /\ n.total \in Nat /\ n.cur \in 0..LastChain /\ n.off \in Nat
      /\ n.pos \in Nat /\ LastCluster \in Nat /\ LastChain = LastCluster + 1
      /\ ClusterUnits \in Nat /\ ClusterUnits >= 1
  BY NodeFields, DiskAssumption DEF LastChain
<1>2. PICK cur \in 0..LastChain : cur = IF n.cur = LastChain THEN e ELSE n.cur
  BY <1>1
<1>3. PICK m : m = Moved(s, v, cur, n.off, n.pos)
  OBVIOUS
<1>4. /\ OnlyCursor(s, m, v)
      /\ m.vn[v].cur = cur /\ m.vn[v].off = n.off /\ m.vn[v].pos = n.pos
  <2>1. PICK o \in Nat : o = n.off
    BY <1>1
  <2>2. PICK p \in Nat : p = n.pos
    BY <1>1
  <2>3. m = Moved(s, v, cur, o, p) /\ IsState(s) /\ v \in Nodes
    BY <1>3, <2>1, <2>2
  <2>4. OnlyCursor(s, m, v) /\ m.vn[v].cur = cur /\ m.vn[v].off = o /\ m.vn[v].pos = p
    BY ONLY <2>3, cur \in 0..LastChain, o \in Nat, p \in Nat, MovedChanges
  <2>5. QED
    BY <2>1, <2>2, <2>4
<1>5. /\ IsState(m) /\ m.fat = s.fat /\ m.data = s.data
      /\ \A w \in Nodes : w # v => m.vn[w] = s.vn[w]
      /\ m.vn[v].open = n.open /\ m.vn[v].start = n.start /\ m.vn[v].slot = n.slot
  BY <1>4 DEF OnlyCursor, SameFile
<1>6. PICK c \in Nat : c = n.total + 1
  BY <1>1
<1>7. PICK z \in Nat : z = n.size + Part(left)
  <2>1. n.size + Part(left) \in Nat
    BY <1>1, PartFits
  <2>2. QED
    BY <2>1
<1>8. PICK a \in Nat : a = ClusterUnits - Part(left)
  <2>1. ClusterUnits - Part(left) \in Nat
    BY <1>1, PartFits
  <2>2. QED
    BY <2>1
<1>9. PICK x : x = Sized(m, v, e, c, z, a)
  OBVIOUS
<1>10. SizedTo(m, x, v, e, c, z, a)
  <2>1. e \in 0..LastChain
    BY <1>1
  <2>2. QED
    BY ONLY <1>5, <1>9, <2>1, c \in Nat, z \in Nat, a \in Nat, v \in Nodes, SizedChanges
<1>11. t = [x EXCEPT !.fat = Linked(@, n.last, e)]
  BY <1>2, <1>3, <1>6, <1>7, <1>8, <1>9 DEF OneMore
<1>12. IsState(x) /\ x.fat = s.fat /\ x.data = s.data
  BY <1>5, <1>10 DEF SizedTo
<1>13. t = [fat |-> fu, data |-> x.data, vn |-> x.vn]
  <2>1. x = [fat |-> x.fat, data |-> x.data, vn |-> x.vn]
    BY <1>12, StateParts
  <2>2. QED
    BY <1>11, <1>12, <2>1
<1>14. t.fat = fu /\ t.data = x.data /\ t.vn = x.vn
  BY <1>13
<1>15. IsState(t)
  <2>1. x.data \in [FatIndex -> [1..ClusterUnits -> AllUnits]] /\ x.vn \in [Nodes -> VNode]
    BY <1>12, StateParts
  <2>2. QED
    BY <1>13, <2>1, StateMade
<1>16. QED
  BY <1>2, <1>4, <1>5, <1>6, <1>7, <1>8, <1>10, <1>12, <1>14, <1>15 DEF SizedTo

(* The file takes one cluster more.                                        *)
LEMMA OneMoreSettled ==
    ASSUME NEW s, NEW v, Settled(s, v), s.vn[v].avail = 0, NEW left \in Int, left > 0,
           get_free_cluster(s.fat) # 0,
           NEW t, t = OneMore(s, v, left)
    PROVE  Grown(s, v, t, Part(left)) /\ t.vn[v].avail = ClusterUnits - Part(left)
<1>1. PICK n : n = s.vn[v]
  OBVIOUS
<1>2. PICK e : e = get_free_cluster(s.fat)
  OBVIOUS
<1>3. /\ IsState(s) /\ v \in Nodes /\ IsChain(s.fat, n.start, n.total)
      /\ n.last = After(s.fat, n.start, n.total - 1) /\ n.size = n.total * ClusterUnits
      /\ n.pos <= n.size /\ CursorAt(s.fat, n, n.cur, n.off, n.pos)
      /\ n.size \in Nat /\ n.total \in Nat /\ n.pos \in Nat /\ n.start \in 0..LastChain
      /\ n.off \in Nat
      /\ FatOK(s.fat) /\ LastCluster \in Nat /\ LastChain = LastCluster + 1
      /\ ClusterUnits \in Nat /\ ClusterUnits >= 1
  BY <1>1, NodeFields, StateParts, DiskAssumption DEF Settled, LastChain
<1>4. e \in 1..LastCluster /\ s.fat[e] = FreeEntry
  BY <1>2, <1>3, FreeClusterFound
<1>5. PICK fu : fu = Linked(s.fat, n.last, e)
  OBVIOUS
<1>6. PICK l : l = n.total
  OBVIOUS
<1>7. PICK b : b = n.start
  OBVIOUS
<1>8. /\ FatOK(fu)
      /\ IsChain(fu, b, l + 1)
      /\ \A k \in 0..(l - 1) : After(fu, b, k) = After(s.fat, b, k)
      /\ After(fu, b, l) = e
      /\ \A d \in 0..LastChain : d # e /\ d # After(s.fat, b, l - 1) => fu[d] = s.fat[d]
      /\ \A k \in 0..(l - 1) : After(s.fat, b, k) # e
  <2>1. PICK ft : ft = s.fat
    OBVIOUS
  <2>2. FatOK(ft) /\ IsChain(ft, b, l) /\ ft[e] = FreeEntry /\ fu = Linked(ft, After(ft, b, l - 1), e)
        /\ b \in 0..LastChain
    BY <1>3, <1>4, <1>5, <1>6, <1>7, <2>1
  <2>3. /\ FatOK(fu)
        /\ IsChain(fu, b, l + 1)
        /\ \A k \in 0..(l - 1) : After(fu, b, k) = After(ft, b, k)
        /\ After(fu, b, l) = e
        /\ \A d \in 0..LastChain : d # e /\ d # After(ft, b, l - 1) => fu[d] = ft[d]
        /\ \A k \in 0..(l - 1) : After(ft, b, k) # e
    BY ONLY <1>4, <2>2, ChainGrows
  <2>4. QED
    BY <2>1, <2>3
<1>9. PICK m : m = t.vn[v]
  OBVIOUS
<1>10. /\ IsState(t) /\ t.fat = fu /\ t.data = s.data
       /\ \A w \in Nodes : w # v => t.vn[w] = s.vn[w]
       /\ m.last = e /\ m.total = l + 1
       /\ m.size = n.size + Part(left)
       /\ m.avail = ClusterUnits - Part(left)
       /\ m.open = n.open /\ m.start = b /\ m.slot = n.slot
       /\ m.cur = (IF n.cur = LastChain THEN e ELSE n.cur)
       /\ m.off = n.off /\ m.pos = n.pos
  BY <1>1, <1>2, <1>3, <1>4, <1>5, <1>6, <1>7, <1>8, <1>9, OneMoreMade
<1>11. Part(left) \in 1..ClusterUnits
  BY PartFits
<1>12. l \in Nat /\ l >= 1 /\ l \in 0..((l + 1) - 1) /\ (l + 1) - 1 = l
  BY <1>3, <1>6 DEF IsChain
<1>13. CursorAt(t.fat, m, m.cur, m.off, m.pos)
  <2>1. CASE n.cur = LastChain
    <3>1. n.pos = n.size /\ n.pos = l * ClusterUnits /\ n.off = 0
      BY <1>3, <1>6, <2>1 DEF CursorAt
    <3>2. m.cur = After(t.fat, m.start, l) /\ m.cur # LastChain
      BY <1>3, <1>4, <1>8, <1>10, <2>1
    <3>3. m.off \in 0..ClusterUnits /\ m.pos = l * ClusterUnits + m.off
      BY <1>3, <1>10, <3>1
    <3>4. l \in 0..(m.total - 1)
      BY <1>10, <1>12
    <3>5. QED
      BY <3>2, <3>3, <3>4 DEF CursorAt
  <2>2. CASE n.cur # LastChain
    <3>1. PICK k \in 0..(l - 1) : /\ n.cur = After(s.fat, b, k)
                                  /\ n.off \in 0..ClusterUnits
                                  /\ n.pos = k * ClusterUnits + n.off
      BY <1>3, <1>6, <1>7, <2>2 DEF CursorAt
    <3>2. m.cur = After(t.fat, m.start, k) /\ m.cur # LastChain
      BY <1>8, <1>10, <2>2, <3>1
    <3>3. k \in 0..(m.total - 1)
      BY <1>10, <1>12
    <3>4. QED
      BY <1>10, <3>1, <3>2, <3>3 DEF CursorAt
  <2>3. QED
    BY <2>1, <2>2
<1>14. /\ m.size + m.avail = m.total * ClusterUnits /\ m.avail <= ClusterUnits
       /\ m.pos <= m.size /\ m.size >= n.size
  <2>1. (l + 1) * ClusterUnits = l * ClusterUnits + ClusterUnits /\ l * ClusterUnits \in Nat
    BY <1>12, ClusterMultiples
  <2>2. QED
    BY <1>3, <1>6, <1>10, <1>11, <2>1
<1>15. Settled(t, v)
  <2>1. m.last = After(t.fat, m.start, m.total - 1) /\ IsChain(t.fat, m.start, m.total)
    BY <1>8, <1>10, <1>12
  <2>2. QED
    BY <1>3, <1>9, <1>10, <1>13, <1>14, <2>1 DEF Settled
<1>16. ASSUME NEW k \in n.total..(m.total - 1) PROVE s.fat[After(t.fat, b, k)] = FreeEntry
  <2>1. k = l
    BY <1>6, <1>10, <1>12
  <2>2. QED
    BY <1>4, <1>8, <1>10, <2>1
<1>17. ASSUME NEW c \in 0..LastChain, c \notin Own(t, v) PROVE t.fat[c] = s.fat[c]
  <2>1. c # e
    BY <1>8, <1>9, <1>10, <1>12, <1>17 DEF Own
  <2>2. l - 1 \in 0..(l - 1) /\ l - 1 \in 0..((l + 1) - 1)
    BY <1>12
  <2>3. c # After(s.fat, b, l - 1)
    <3>1. After(t.fat, m.start, l - 1) = After(s.fat, b, l - 1)
      BY <1>8, <1>10, <2>2
    <3>2. After(t.fat, m.start, l - 1) \in Own(t, v)
      BY <1>9, <1>10, <2>2 DEF Own
    <3>3. QED
      BY <1>17, <3>1, <3>2
  <2>4. QED
    BY <1>8, <1>10, <2>1, <2>3
<1>18. Grows(s, t, v)
  <2>1. m.total >= n.total
    BY <1>6, <1>10, <1>12
  <2>2. \A k \in 0..(n.total - 1) : After(t.fat, b, k) = After(s.fat, b, k)
    BY <1>6, <1>8, <1>10
  <2>3. QED
    BY <1>1, <1>7, <1>9, <1>10, <1>14, <1>16, <1>17, <2>1, <2>2 DEF Grows
<1>19. QED
  BY <1>1, <1>9, <1>10, <1>15, <1>18 DEF Grown

(* What is so of a loop's state before turn i, for every i.                *)
LEMMA LoopKeeps ==
    ASSUME NEW F, NEW x, NEW k \in Nat, NEW P, NEW g, Loop(F, x, k, g), x \in P[0],
           \A i \in 0..(k - 1) : \A r \in P[i] : F[r] \in P[i + 1]
    PROVE  \A i \in 0..k : g[i] \in P[i]
<1> DEFINE Q == {i \in 0..k : g[i] \in P[i]}
<1>1. g[0] = x /\ \A i \in 1..k : g[i] = F[g[i - 1]]
  BY ONLY k \in Nat, Loop(F, x, k, g), LoopTurns
<1>2. 0 \in Q
  BY <1>1
<1>3. ASSUME NEW i \in 0..(k - 1), i \in Q PROVE i + 1 \in Q
  <2>1. i + 1 \in 1..k /\ i + 1 \in 0..k /\ (i + 1) - 1 = i
    OBVIOUS
  <2>2. g[i + 1] = F[g[i]]
    BY <1>1, <2>1
  <2>3. QED
    BY <1>3, <2>1, <2>2
<1> HIDE DEF Q
<1>4. 0..k \subseteq Q
  BY <1>2, <1>3, LoopInduction
<1>5. QED
  BY <1>4 DEF Q

(* fat32_vnode_increase of v by k units after some turns, at most i of     *)
(* them still to do if r goes on.                                          *)
Growing(s, v, k, i, r) ==
    /\ r \in [s : States, left : Int, n : {0, -1}]
    /\ Settled(r.s, v) /\ Grows(s, r.s, v) /\ r.s.data = s.data
    /\ r.s.vn[v].pos = s.vn[v].pos
    /\ r.left > 0 => r.s.vn[v].avail = 0 /\ r.s.vn[v].size = s.vn[v].size + (k - r.left)
    /\ r.left <= 0 => r.s.vn[v].size = s.vn[v].size + k
    /\ r.n < 0 \/ r.left <= 0 \/ r.left <= k - i

(* A turn of fat32_vnode_increase's loop.                                  *)
LEMMA GrowTurnKeeps ==
    ASSUME NEW s, NEW v, Settled(s, v), NEW k \in Nat, NEW i \in Nat, NEW r,
           Growing(s, v, k, i, r)
    PROVE  Growing(s, v, k, i + 1, GrowTurn(r, v))
<1> DEFINE w == GrowTurn(r, v)
<1>1. PICK a : a = r.s
  OBVIOUS
<1>2. PICK left \in Int : left = r.left
  BY DEF Growing
<1>3. r.n \in {0, -1} /\ r = [s |-> a, left |-> left, n |-> r.n]
  BY <1>1, <1>2 DEF Growing
<1>4. CASE left <= 0 \/ r.n < 0
  <2>1. w = r
    BY <1>2, <1>4 DEF GrowTurn
  <2> HIDE DEF w
  <2>2. QED
    BY <1>2, <1>3, <1>4, <2>1 DEF Growing, w
<1>5. CASE left > 0 /\ r.n = 0
  <2>1. CASE get_free_cluster(a.fat) = 0
    <3>1. w = [s |-> a, left |-> left, n |-> -1]
      BY <1>1, <1>2, <1>5, <2>1 DEF GrowTurn
    <3> HIDE DEF w
    <3>2. w.s = a /\ w.left = left /\ w.n = -1
      BY <3>1
    <3>3. w \in [s : States, left : Int, n : {0, -1}]
      BY <1>1, <1>2, <3>1 DEF Growing
    <3>4. QED
      BY <1>1, <1>2, <3>2, <3>3 DEF Growing, w
  <2>2. CASE get_free_cluster(a.fat) # 0
    <3>1. PICK t : t = OneMore(a, v, left)
      OBVIOUS
    <3>2. w = [s |-> t, left |-> left - ClusterUnits, n |-> 0]
      BY <1>1, <1>2, <1>5, <2>2, <3>1 DEF GrowTurn
    <3> HIDE DEF w
    <3>3. w.s = t /\ w.left = left - ClusterUnits /\ w.n = 0
      BY <3>2
    <3>4. Settled(a, v) /\ a.vn[v].avail = 0
      BY <1>1, <1>2, <1>5 DEF Growing
    <3>5. Grown(a, v, t, Part(left)) /\ t.vn[v].avail = ClusterUnits - Part(left)
      BY <1>5, <2>2, <3>1, <3>4, OneMoreSettled
    <3>6. a.vn[v].size \in Nat /\ s.vn[v].size \in Nat /\ ClusterUnits \in Nat /\ ClusterUnits >= 1
      BY <3>4, NodeFields, DiskAssumption DEF Settled
    <3>7. a.vn[v].size = s.vn[v].size + (k - left)
      BY <1>1, <1>2, <1>5 DEF Growing
    <3>8. t.vn[v].size = a.vn[v].size + Part(left)
      BY <3>5 DEF Grown
    <3>9. left <= k - i
      BY <1>2, <1>5 DEF Growing
    <3>10. Part(left) = IF left <= ClusterUnits THEN left ELSE ClusterUnits
      BY DEF Part
    <3>11. PICK p \in Nat : p = Part(left)
      BY <1>5, PartFits, <3>6
    <3>12. w.left \in Int /\ (w.left <= 0 \/ w.left <= k - (i + 1))
      BY <3>3, <3>6, <3>9
    <3>13. w.left > 0 => p = ClusterUnits
      BY <1>5, <3>3, <3>6, <3>10, <3>11
    <3>14. w.left <= 0 => p = left
      BY <1>5, <3>3, <3>6, <3>10, <3>11
    <3>15. PICK x \in Nat : x = s.vn[v].size
      BY <3>6
    <3>16. PICK y \in Nat : y = t.vn[v].size
      BY <3>5, NodeFields DEF Settled, Grown
    <3>17. y = (x + (k - left)) + p
      BY <3>7, <3>8, <3>11, <3>15, <3>16
    <3>18. w.left > 0 => y = x + (k - w.left)
      BY ONLY <1>2, <3>3, <3>6, <3>13, <3>17, k \in Nat, left \in Int, x \in Nat, y \in Nat
    <3>19. w.left > 0 => t.vn[v].avail = 0
      BY <3>5, <3>6, <3>11, <3>13
    <3>20. w.left <= 0 => y = x + k
      BY ONLY <3>14, <3>17, k \in Nat, left \in Int, x \in Nat, y \in Nat
    <3>21. t \in States
      BY <3>5 DEF Grown, Settled, IsState
    <3>22. Grows(s, t, v) /\ Settled(t, v) /\ t.data = s.data /\ t.vn[v].pos = s.vn[v].pos
      <4>1. Grows(s, a, v) /\ a.data = s.data /\ a.vn[v].pos = s.vn[v].pos
        BY <1>1 DEF Growing
      <4>2. Grows(a, t, v) /\ Settled(t, v) /\ t.data = a.data /\ t.vn[v].pos = a.vn[v].pos
        BY <3>5 DEF Grown
      <4>3. QED
        BY <3>4, <4>1, <4>2, GrowsTwice
    <3>23. w \in [s : States, left : Int, n : {0, -1}]
      BY <3>2, <3>3, <3>12, <3>21
    <3>24. QED
      BY <3>3, <3>12, <3>15, <3>16, <3>18, <3>19, <3>20, <3>22, <3>23 DEF Growing, w
  <2>3. QED
    BY <2>1, <2>2
<1>6. QED
  BY <1>3, <1>4, <1>5

(* The turns of fat32_vnode_increase.                                      *)
GrowTurns(v, k, x, g) == g = [i \in 0..k |-> IF i = 0 THEN x ELSE GrowTurn(g[i - 1], v)]

(* All of its turns.                                                       *)
LEMMA GrowTurnsKeep ==
    ASSUME NEW s, NEW v, Settled(s, v), NEW k \in Nat, NEW x, Growing(s, v, k, 0, x)
    PROVE  /\ \E g : GrowTurns(v, k, x, g)
           /\ \A g : GrowTurns(v, k, x, g) => Growing(s, v, k, k, g[k])
<1> DEFINE S == [s : States, left : Int, n : {0, -1}]
           F == [r \in S |-> GrowTurn(r, v)]
           P == [i \in 0..k |-> {r \in S : Growing(s, v, k, i, r)}]
<1>1. \A i \in 0..k : \A r : r \in P[i] <=> Growing(s, v, k, i, r)
  BY DEF Growing
<1>2. \E g : GrowTurns(v, k, x, g)
  <2>1. PICK g : Loop(F, x, k, g)
    BY LoopRuns
  <2>2. x \in P[0]
    BY <1>1
  <2>3. ASSUME NEW i \in 0..(k - 1), NEW r \in P[i] PROVE F[r] \in P[i + 1]
    <3>1. i \in Nat /\ i \in 0..k /\ i + 1 \in 0..k
      OBVIOUS
    <3>2. Growing(s, v, k, i, r)
      BY <1>1, <2>3, <3>1
    <3>3. F[r] = GrowTurn(r, v)
      BY <3>2 DEF Growing
    <3> HIDE DEF F, P
    <3>4. Growing(s, v, k, i + 1, GrowTurn(r, v))
      BY <3>1, <3>2, GrowTurnKeeps
    <3>5. QED
      BY <1>1, <3>1, <3>3, <3>4
  <2>4. \A i \in 0..k : g[i] \in P[i]
    <3> HIDE DEF F, P
    <3>1. QED
      BY <2>1, <2>2, <2>3, LoopKeeps
  <2>5. \A i \in 1..k : F[g[i - 1]] = GrowTurn(g[i - 1], v)
    <3>1. SUFFICES ASSUME NEW i \in 1..k PROVE F[g[i - 1]] = GrowTurn(g[i - 1], v)
      OBVIOUS
    <3>2. i - 1 \in 0..k
      OBVIOUS
    <3>3. g[i - 1] \in S
      BY <2>4, <3>2
    <3>4. QED
      BY <3>3
  <2>6. g = [i \in 0..k |-> IF i = 0 THEN x ELSE F[g[i - 1]]]
    BY <2>1 DEF Loop
  <2> HIDE DEF F
  <2>7. [i \in 0..k |-> IF i = 0 THEN x ELSE F[g[i - 1]]]
          = [i \in 0..k |-> IF i = 0 THEN x ELSE GrowTurn(g[i - 1], v)]
    BY <2>5
  <2>8. QED
    BY <2>6, <2>7 DEF GrowTurns
<1>3. ASSUME NEW g, GrowTurns(v, k, x, g) PROVE Growing(s, v, k, k, g[k])
  <2> HIDE DEF F, P
  <2> DEFINE Q == {i \in 0..k : Growing(s, v, k, i, g[i])}
  <2>1. \A i \in 0..k : g[i] = IF i = 0 THEN x ELSE GrowTurn(g[i - 1], v)
    BY <1>3 DEF GrowTurns
  <2>2. 0 \in Q
    BY <2>1
  <2>3. ASSUME NEW i \in 0..(k - 1), i \in Q PROVE i + 1 \in Q
    <3>1. i + 1 \in 0..k /\ (i + 1) - 1 = i /\ i + 1 # 0 /\ i \in Nat
      OBVIOUS
    <3>2. g[i + 1] = GrowTurn(g[i], v)
      BY <2>1, <3>1
    <3>3. Growing(s, v, k, i + 1, GrowTurn(g[i], v))
      BY <2>3, <3>1, GrowTurnKeeps
    <3>4. QED
      BY <3>1, <3>2, <3>3
  <2> HIDE DEF Q
  <2>4. 0..k \subseteq Q
    BY <2>2, <2>3, LoopInduction
  <2>5. k \in Q
    BY <2>4
  <2>6. QED
    BY <2>5 DEF Q
<1>4. QED
  BY <1>2, <1>3

(* fat32_vnode_increase: the file is longer by k units or, when the disk   *)
(* is full, by fewer, and nothing else has changed.                        *)
IncreasedTo(s, v, k, r) ==
    /\ Settled(r.s, v) /\ Grows(s, r.s, v) /\ r.s.data = s.data
    /\ r.s.vn[v].pos = s.vn[v].pos
    /\ r.n \in {0, -1}
    /\ r.n = 0 => r.s.vn[v].size = s.vn[v].size + k

(* fat32_vnode_increase, with or without enough clusters on the disk.      *)
LEMMA IncreasedSettled ==
    ASSUME NEW s, NEW v, Settled(s, v), NEW k \in Nat, NEW r, r = Increased(s, v, k)
    PROVE  IncreasedTo(s, v, k, r)
<1>1. PICK u : u = s.vn[v]
  OBVIOUS
<1>2. u.avail \in Nat /\ u.size \in Nat /\ IsState(s)
  BY <1>1, NodeFields DEF Settled
<1>3. CASE k <= u.avail
  <2>1. PICK t : t = Sized(s, v, u.last, u.total, u.size + k, u.avail - k)
    OBVIOUS
  <2>2. r = [s |-> t, n |-> 0]
    BY <1>1, <1>3, <2>1 DEF Increased
  <2>3. k \in 0..s.vn[v].avail
    BY <1>1, <1>2, <1>3
  <2>4. /\ Settled(t, v) /\ Grows(s, t, v) /\ t.data = s.data
        /\ t.vn[v].size = s.vn[v].size + k /\ t.vn[v].pos = s.vn[v].pos
    BY <1>1, <2>1, <2>3, SizedSettled
  <2>5. QED
    BY <2>2, <2>4 DEF IncreasedTo
<1>4. CASE ~ k <= u.avail
  <2>1. PICK t : t = Sized(s, v, u.last, u.total, u.size + u.avail, 0)
    OBVIOUS
  <2>2. PICK x : x = [s |-> t, left |-> k - u.avail, n |-> 0]
    OBVIOUS
  <2> DEFINE G == CHOOSE g : GrowTurns(v, k, x, g)
  <2>3. r = [s |-> G[k].s, n |-> G[k].n]
    BY <1>1, <1>4, <2>1, <2>2 DEF Increased, GrowTurns
  <2>4. PICK a \in Nat : a = u.avail
    BY <1>2
  <2>5. /\ Settled(t, v) /\ Grows(s, t, v) /\ t.data = s.data
        /\ t.vn[v].size = s.vn[v].size + a /\ t.vn[v].pos = s.vn[v].pos
        /\ t.vn[v].avail = 0
    <3>1. a \in 0..s.vn[v].avail /\ s.vn[v].avail - a = 0
      BY <1>1, <2>4
    <3>2. t = Sized(s, v, s.vn[v].last, s.vn[v].total, s.vn[v].size + a, s.vn[v].avail - a)
      BY <1>1, <2>1, <2>4, <3>1
    <3>3. /\ Settled(t, v) /\ Grows(s, t, v) /\ t.data = s.data
          /\ t.vn[v].size = s.vn[v].size + a /\ t.vn[v].pos = s.vn[v].pos
          /\ t.vn[v].avail = s.vn[v].avail - a
      BY <3>1, <3>2, SizedSettled
    <3>4. QED
      BY <3>1, <3>3
  <2>6. Growing(s, v, k, 0, x)
    <3>1. x.s = t /\ x.left = k - a /\ x.n = 0 /\ k - a \in Int /\ k - a > 0
      BY <1>4, <2>2, <2>4
    <3>2. t \in States
      BY <2>5 DEF Settled, IsState
    <3>3. x \in [s : States, left : Int, n : {0, -1}]
      BY <2>2, <2>4, <3>1, <3>2
    <3>4. a = k - (k - a) /\ k - a <= k - 0 /\ ~ k - a <= 0
      BY <3>1
    <3>5. QED
      BY <2>5, <3>1, <3>3, <3>4 DEF Growing
  <2>7. (\E g : GrowTurns(v, k, x, g)) /\ \A g : GrowTurns(v, k, x, g) => Growing(s, v, k, k, g[k])
    BY <2>6, GrowTurnsKeep
  <2>8. GrowTurns(v, k, x, G)
    BY <2>7
  <2>9. PICK w : w = G[k]
    OBVIOUS
  <2> HIDE DEF G
  <2>10. Growing(s, v, k, k, w) /\ r = [s |-> w.s, n |-> w.n]
    BY <2>3, <2>7, <2>8, <2>9
  <2>11. w.left \in Int /\ w.n \in {0, -1} /\ (w.n = 0 => w.left <= 0)
    BY <2>10 DEF Growing
  <2>12. QED
    BY <2>10, <2>11 DEF Growing, IncreasedTo
<1>5. QED
  BY <1>3, <1>4

(* Contents of a disk.                                                     *)
Data == [FatIndex -> [1..ClusterUnits -> AllUnits]]

(* The first n units of buf are in the chain of v from unit p on, and the  *)
(* rest of the disk is as in s.                                            *)
Stored(s, v, d, p, n, buf) ==
    /\ d \in Data
    /\ \A k \in 0..(s.vn[v].total - 1), o \in 0..(ClusterUnits - 1) :
            d[After(s.fat, s.vn[v].start, k)][o + 1] =
                IF k * ClusterUnits + o \in p..(p + n - 1) THEN buf[(k * ClusterUnits + o - p) + 1]
                ELSE s.data[After(s.fat, s.vn[v].start, k)][o + 1]
    /\ \A c \in FatIndex : c \notin Own(s, v) => d[c] = s.data[c]

(* What ClusterTurn puts into a cluster.                                   *)
PutInto(d, cur, off, n, b) ==
    [d EXCEPT ![cur] = [i \in 1..ClusterUnits |->
                           IF i \in off + 1..off + n THEN b[i - off] ELSE @[i]]]

IsPut(d, e, cur, off, n, b) ==
    /\ e \in Data
    /\ \A c \in FatIndex : c # cur => e[c] = d[c]
    /\ \A i \in 1..ClusterUnits :
            e[cur][i] = IF i \in off + 1..off + n THEN b[i - off] ELSE d[cur][i]

(* Only the units written to change.                                       *)
LEMMA PutChanges ==
    ASSUME NEW d \in Data, NEW cur \in FatIndex, NEW off \in Nat, NEW n \in Nat,
           NEW b \in Seq(AllUnits), n <= Len(b), NEW e, e = PutInto(d, cur, off, n, b)
    PROVE  IsPut(d, e, cur, off, n, b)
<1> DEFINE row == [i \in 1..ClusterUnits |->
                      IF i \in off + 1..off + n THEN b[i - off] ELSE d[cur][i]]
<1>1. ClusterUnits \in Nat
  BY DiskAssumption
<1>2. ASSUME NEW i \in 1..ClusterUnits
      PROVE  (IF i \in off + 1..off + n THEN b[i - off] ELSE d[cur][i]) \in AllUnits
  <2>1. CASE i \in off + 1..off + n
    <3>1. i - off \in 1..Len(b)
      BY <1>1, <2>1
    <3>2. b[i - off] \in AllUnits
      BY <3>1
    <3>3. QED
      BY <2>1, <3>2
  <2>2. CASE i \notin off + 1..off + n
    <3>1. d[cur][i] \in AllUnits
      BY DEF Data
    <3>2. QED
      BY <2>2, <3>1
  <2>3. QED
    BY <2>1, <2>2
<1>3. row \in [1..ClusterUnits -> AllUnits]
  BY <1>2
<1>4. \A i \in 1..ClusterUnits : row[i] = IF i \in off + 1..off + n THEN b[i - off] ELSE d[cur][i]
  OBVIOUS
<1>5. e = [d EXCEPT ![cur] = row]
  BY DEF PutInto
<1> HIDE DEF row
<1>6. e \in Data /\ e[cur] = row /\ \A c \in FatIndex : c # cur => e[c] = d[c]
  BY <1>3, <1>5 DEF Data
<1>7. QED
  BY <1>4, <1>6 DEF IsPut

(* One more part of buf is put behind the first n units.                   *)
LEMMA StoredMore ==
    ASSUME NEW s, NEW v, Settled(s, v), NEW p \in Nat, NEW n \in Nat, NEW buf, NEW d,
           Stored(s, v, d, p, n, buf),
           NEW k0 \in 0..(s.vn[v].total - 1), NEW off \in Nat, p + n = k0 * ClusterUnits + off,
           NEW m \in Nat, off + m <= ClusterUnits,
           NEW b \in Seq(AllUnits), m <= Len(b), \A j \in 1..Len(b) : b[j] = buf[n + j],
           NEW cur, cur = After(s.fat, s.vn[v].start, k0)
    PROVE  Stored(s, v, PutInto(d, cur, off, m, b), p, n + m, buf)
<1>1. PICK e : e = PutInto(d, cur, off, m, b)
  OBVIOUS
<1>2. PICK a : a = s.vn[v].start
  OBVIOUS
<1>3. PICK l : l = s.vn[v].total
  OBVIOUS
<1>4. /\ l \in Nat /\ IsChain(s.fat, a, l) /\ a \in 0..LastChain /\ FatOK(s.fat)
      /\ LastCluster \in Nat /\ ClusterUnits \in Nat
  BY <1>2, <1>3, NodeFields, StateParts, DiskAssumption DEF Settled
<1>5. cur \in FatIndex /\ cur \in Own(s, v)
  <2>1. cur \in 1..LastCluster
    BY <1>2, <1>3, <1>4 DEF IsChain
  <2>2. QED
    BY <1>4, <2>1 DEF FatIndex, Own
<1>6. /\ d \in Data
      /\ \A k \in 0..(l - 1), o \in 0..(ClusterUnits - 1) :
            d[After(s.fat, a, k)][o + 1] =
                IF k * ClusterUnits + o \in p..(p + n - 1) THEN buf[(k * ClusterUnits + o - p) + 1]
                ELSE s.data[After(s.fat, a, k)][o + 1]
      /\ \A c \in FatIndex : c \notin Own(s, v) => d[c] = s.data[c]
  BY <1>2, <1>3 DEF Stored
<1>7. /\ e \in Data
      /\ \A c \in FatIndex : c # cur => e[c] = d[c]
      /\ \A i \in 1..ClusterUnits :
                e[cur][i] = IF i \in off + 1..off + m THEN b[i - off] ELSE d[cur][i]
  <2>1. d \in Data /\ cur \in FatIndex
    BY <1>5, <1>6
  <2>2. IsPut(d, e, cur, off, m, b)
    BY ONLY <1>1, <2>1, off \in Nat, m \in Nat, b \in Seq(AllUnits), m <= Len(b), PutChanges
  <2>3. QED
    BY <2>2 DEF IsPut
<1>8. ASSUME NEW k \in 0..(l - 1), NEW o \in 0..(ClusterUnits - 1)
      PROVE  e[After(s.fat, a, k)][o + 1] =
                IF k * ClusterUnits + o \in p..(p + (n + m) - 1)
                THEN buf[(k * ClusterUnits + o - p) + 1]
                ELSE s.data[After(s.fat, a, k)][o + 1]
  <2>1. PICK i \in Nat : i = k * ClusterUnits
    BY <1>4
  <2>2. PICK z \in Nat : z = k0 * ClusterUnits
    BY <1>4
  <2>3. /\ k < k0 => i + ClusterUnits <= z
        /\ k0 < k => z + ClusterUnits <= i
    BY <1>3, <1>4, <2>1, <2>2, ClusterMultiples
  <2>4. d[After(s.fat, a, k)][o + 1] =
                IF i + o \in p..(p + n - 1) THEN buf[(i + o - p) + 1]
                ELSE s.data[After(s.fat, a, k)][o + 1]
    BY <1>6, <2>1
  <2>5. p + n = z + off /\ o \in Nat /\ o < ClusterUnits
    BY <1>4, <2>2
  <2>6. CASE k # k0
    <3>1. After(s.fat, a, k) # cur
      BY <1>2, <1>3, <1>4, <2>6, ChainInjective
    <3>2. After(s.fat, a, k) \in FatIndex
      BY <1>4 DEF IsChain, FatIndex
    <3>3. e[After(s.fat, a, k)] = d[After(s.fat, a, k)]
      BY <1>7, <3>1, <3>2
    <3>4. k \in Int /\ k0 \in Int
      OBVIOUS
    <3>5. i + o \in p..(p + n - 1) <=> i + o \in p..(p + (n + m) - 1)
      BY ONLY <1>4, <2>3, <2>5, <2>6, <3>4, p \in Nat, n \in Nat, m \in Nat, i \in Nat, z \in Nat,
              off \in Nat, off + m <= ClusterUnits
    <3>6. QED
      BY <2>1, <2>4, <3>3, <3>5
  <2>7. CASE k = k0
    <3>1. After(s.fat, a, k) = cur /\ i = z /\ o + 1 \in 1..ClusterUnits
      <4>1. i = z
        BY ONLY <2>1, <2>2, <2>7
      <4>2. After(s.fat, a, k) = cur
        BY <1>2, <2>7
      <4>3. o + 1 \in 1..ClusterUnits
        BY <1>4, <2>5
      <4>4. QED
        BY <4>1, <4>2, <4>3
    <3>2. e[cur][o + 1] = IF o + 1 \in off + 1..off + m THEN b[(o + 1) - off] ELSE d[cur][o + 1]
      BY <1>7, <3>1
    <3>3. CASE o + 1 \in off + 1..off + m
      <4>1. (o + 1) - off \in 1..Len(b)
        BY <2>5, <3>3
      <4>2. PICK j \in 1..Len(b) : j = (o + 1) - off
        BY <4>1
      <4>3. b[j] = buf[n + j]
        OBVIOUS
      <4>4. n + j = (i + o - p) + 1 /\ i + o \in p..(p + (n + m) - 1)
        BY <2>5, <3>1, <3>3, <4>2
      <4>5. QED
        BY <2>1, <3>1, <3>2, <3>3, <4>2, <4>3, <4>4
    <3>4. CASE o + 1 \notin off + 1..off + m
      <4>1. i + o \in p..(p + n - 1) <=> i + o \in p..(p + (n + m) - 1)
        <5>1. i = z /\ o \in Nat
          BY <2>5, <3>1
        <5>2. o < off \/ o >= off + m
          BY ONLY <3>4, <5>1, m \in Nat, off \in Nat
        <5>3. QED
          BY ONLY <2>5, <5>1, <5>2, p \in Nat, n \in Nat, m \in Nat, i \in Nat, z \in Nat,
                  off \in Nat
      <4>2. QED
        BY <2>1, <2>4, <3>1, <3>2, <3>4, <4>1
    <3>5. QED
      BY <3>3, <3>4
  <2>8. QED
    BY <2>6, <2>7
<1>9. ASSUME NEW c \in FatIndex, c \notin Own(s, v) PROVE e[c] = s.data[c]
  BY <1>5, <1>6, <1>7, <1>9
<1>10. Stored(s, v, e, p, n + m, buf)
  <2>1. n + m \in Nat
    OBVIOUS
  <2>2. QED
    BY <1>2, <1>3, <1>7, <1>8, <1>9 DEF Stored
<1>11. QED
  BY <1>1, <1>10

WriteStates == [data : Data, buf : Seq(AllUnits), total : Nat, done : BOOLEAN,
                cur : 0..LastChain, off : Nat]

(* The loop of fat32_vnode_raw_write after i turns: it has written total   *)
(* units of buf at the cursor of v and stands behind them.                 *)
Writing(s, v, buf, i, r) ==
    /\ r \in WriteStates
    /\ r.total <= Len(buf) /\ Len(r.buf) = Len(buf) - r.total
    /\ \A j \in 1..Len(r.buf) : r.buf[j] = buf[r.total + j]
    /\ \E k \in 0..(s.vn[v].total - 1) :
            /\ r.cur = After(s.fat, s.vn[v].start, k)
            /\ r.off \in 0..ClusterUnits
            /\ s.vn[v].pos + r.total = k * ClusterUnits + r.off
    /\ ~ r.done => r.off < ClusterUnits /\ r.total < Len(buf)
    /\ i >= 1 \/ r.done => r.total >= 1
    /\ Stored(s, v, r.data, s.vn[v].pos, r.total, buf)

(* A turn of the loop, which may have ended.                               *)
WriteTurn(ft, r) == IF r.done THEN r ELSE ClusterTurn(ft, r)

(* What is left of buf.                                                    *)
LEMMA RestOf ==
    ASSUME NEW b \in Seq(AllUnits), NEW n \in 0..Len(b), NEW c, c = SubSeq(b, n + 1, Len(b))
    PROVE  /\ c \in Seq(AllUnits) /\ Len(c) = Len(b) - n
           /\ \A j \in 1..Len(c) : c[j] = b[n + j]
<1>1. n + 1 \in Int /\ Len(b) \in Nat /\ \A i \in n + 1..Len(b) : b[i] \in AllUnits
  OBVIOUS
<1>2. PICK m \in Int : m = n + 1
  BY <1>1
<1>3. PICK l \in Nat : l = Len(b)
  BY <1>1
<1>4. /\ SubSeq(b, m, l) \in Seq(AllUnits)
      /\ Len(SubSeq(b, m, l)) = IF m <= l THEN l - m + 1 ELSE 0
      /\ \A i \in 1 .. l - m + 1 : SubSeq(b, m, l)[i] = b[m + i - 1]
  BY <1>1, <1>2, <1>3, SubSeqProperties
<1>5. c = SubSeq(b, m, l)
  BY <1>2, <1>3
<1>6. Len(c) = Len(b) - n
  BY <1>2, <1>3, <1>4, <1>5
<1>7. ASSUME NEW j \in 1..Len(c) PROVE c[j] = b[n + j]
  <2>1. j \in 1..(l - m + 1) /\ m + j - 1 = n + j
    BY <1>2, <1>3, <1>6
  <2>2. QED
    BY <1>4, <1>5, <2>1
<1>8. QED
  BY <1>4, <1>5, <1>6, <1>7

(* One turn in one cluster.                                                *)
LEMMA ClusterTurnKeeps ==
    ASSUME NEW s, NEW v, Settled(s, v), NEW buf \in Seq(AllUnits),
           s.vn[v].pos + Len(buf) <= s.vn[v].size,
           NEW i \in Nat, NEW r, Writing(s, v, buf, i, r), ~ r.done
    PROVE  Writing(s, v, buf, i + 1, ClusterTurn(s.fat, r))
<1>1. PICK a : a = s.vn[v].start
  OBVIOUS
<1>2. PICK l : l = s.vn[v].total
  OBVIOUS
<1>3. PICK p : p = s.vn[v].pos
  OBVIOUS
<1>4. /\ l \in Nat /\ p \in Nat /\ IsChain(s.fat, a, l) /\ a \in 0..LastChain /\ FatOK(s.fat)
      /\ LastCluster \in Nat /\ LastChain = LastCluster + 1
      /\ ClusterUnits \in Nat /\ ClusterUnits >= 1
  BY <1>1, <1>2, <1>3, NodeFields, StateParts, DiskAssumption DEF Settled, LastChain
<1>31. PICK end \in Nat : end = l * ClusterUnits
  BY <1>4
<1>5. p + Len(buf) <= end /\ Len(buf) \in Nat
  <2>1. PICK x \in Nat : x = s.vn[v].size
    BY NodeFields DEF Settled
  <2>2. PICK y \in Nat : y = s.vn[v].avail
    BY NodeFields DEF Settled
  <2>3. x + y = end
    BY <1>2, <1>31, <2>1, <2>2 DEF Settled
  <2>4. PICK m \in Nat : m = Len(buf)
    OBVIOUS
  <2>5. p + m <= x
    BY <1>3, <2>1, <2>4
  <2>6. p + m <= end
    BY ONLY <1>4, <2>3, <2>5, m \in Nat, x \in Nat, y \in Nat, end \in Nat
  <2>7. QED
    BY <2>4, <2>6
<1>6. PICK t \in Nat : t = r.total
  BY DEF Writing, WriteStates
<1>7. PICK off \in Nat : off = r.off
  BY DEF Writing, WriteStates
<1>8. PICK b \in Seq(AllUnits) : b = r.buf
  BY DEF Writing, WriteStates
<1>9. PICK d \in Data : d = r.data
  BY DEF Writing, WriteStates
<1>10. PICK cur \in 0..LastChain : cur = r.cur
  BY DEF Writing, WriteStates
<1>11. /\ t < Len(buf) /\ Len(b) = Len(buf) - t /\ off < ClusterUnits
       /\ \A j \in 1..Len(b) : b[j] = buf[t + j]
       /\ Stored(s, v, d, p, t, buf)
  BY <1>3, <1>6, <1>7, <1>8, <1>9 DEF Writing
<1>12. PICK k \in 0..(l - 1) : cur = After(s.fat, a, k) /\ p + t = k * ClusterUnits + off
  BY <1>1, <1>2, <1>3, <1>6, <1>7, <1>10 DEF Writing
<1>13. Len(buf) \in Nat /\ Len(b) \in Nat /\ Len(b) >= 1 /\ k \in Nat
  BY <1>4, <1>11
<1>14. PICK n \in Nat : n = IF ClusterUnits - off < Len(b) THEN ClusterUnits - off ELSE Len(b)
  <2>1. ClusterUnits - off \in Nat
    BY <1>4, <1>11
  <2>2. QED
    BY <1>13, <2>1
<1>15. n >= 1 /\ n <= Len(b) /\ off + n <= ClusterUnits
       /\ (n < Len(b) => off + n = ClusterUnits)
  BY <1>4, <1>11, <1>13, <1>14
<1>16. PICK rest : rest = SubSeq(b, n + 1, Len(b))
  OBVIOUS
<1>17. /\ rest \in Seq(AllUnits) /\ Len(rest) = Len(b) - n
       /\ \A j \in 1..Len(rest) : rest[j] = b[n + j]
  BY <1>13, <1>15, <1>16, RestOf
<1>18. PICK put : put = PutInto(d, cur, off, n, b)
  OBVIOUS
<1>19. Stored(s, v, put, p, t + n, buf)
  BY <1>1, <1>2, <1>4, <1>11, <1>12, <1>15, <1>18, StoredMore
<1>20. PICK total \in Nat : total = t + n
  OBVIOUS
<1> DEFINE done == total >= Len(rest)
           none == AtEnd(After(s.fat, cur, 1))
<1>23. PICK w : w = ClusterTurn(s.fat, r)
  OBVIOUS
<1>24. w = [data |-> put, buf |-> rest, total |-> total, done |-> done \/ none,
            cur |-> IF done \/ none THEN cur ELSE After(s.fat, cur, 1),
            off |-> IF done THEN off + n ELSE IF none THEN n ELSE 0]
  BY <1>6, <1>7, <1>8, <1>9, <1>10, <1>14, <1>16, <1>18, <1>20, <1>23
     DEF ClusterTurn, PutInto
<1>25. /\ w.data = put /\ w.buf = rest /\ w.total = total /\ w.done = (done \/ none)
       /\ w.cur = (IF done \/ none THEN cur ELSE After(s.fat, cur, 1))
       /\ w.off = (IF done THEN off + n ELSE IF none THEN n ELSE 0)
  BY <1>24
<1>21. done <=> total >= Len(rest)
  OBVIOUS
<1>22. none <=> AtEnd(After(s.fat, cur, 1))
  OBVIOUS
<1> HIDE DEF done, none
<1>26. total <= Len(buf) /\ Len(rest) = Len(buf) - total /\ total >= 1
  <2>1. PICK x \in Nat : x = Len(buf)
    BY <1>13
  <2>2. PICK y \in Nat : y = Len(b)
    BY <1>13
  <2>3. y = x - t /\ t < x /\ n >= 1 /\ n <= y /\ Len(rest) = y - n
    BY <1>11, <1>15, <1>17, <2>1, <2>2
  <2>4. total <= x /\ y - n = x - total /\ total >= 1
    BY ONLY <1>20, <2>3, x \in Nat, y \in Nat, t \in Nat, n \in Nat
  <2>5. QED
    BY <2>1, <2>3, <2>4
<1>27. \A j \in 1..Len(rest) : rest[j] = buf[total + j]
  <2>1. SUFFICES ASSUME NEW j \in 1..Len(rest) PROVE rest[j] = buf[total + j]
    OBVIOUS
  <2>2. n + j \in 1..Len(b) /\ t + (n + j) = total + j
    BY <1>13, <1>15, <1>17, <1>20
  <2>3. PICK m \in 1..Len(b) : m = n + j
    BY <2>2
  <2>4. rest[j] = b[m] /\ b[m] = buf[t + m]
    BY <1>11, <1>17, <2>3
  <2>5. QED
    BY <2>2, <2>3, <2>4
<1>28. CASE done
  <2>1. w.done = TRUE /\ w.cur = cur /\ w.off = off + n
    BY <1>25, <1>28
  <2>2. w \in WriteStates
    <3>1. off + n \in Nat /\ put \in Data
      BY <1>19 DEF Stored
    <3>2. w = [data |-> put, buf |-> rest, total |-> total, done |-> TRUE,
               cur |-> cur, off |-> off + n]
      BY <1>24, <1>28
    <3>3. QED
      BY <1>17, <3>1, <3>2 DEF WriteStates
  <2>3. p + total = k * ClusterUnits + (off + n) /\ off + n \in 0..ClusterUnits
    <3>1. PICK z \in Nat : z = k * ClusterUnits
      BY <1>4, <1>13
    <3>2. p + t = z + off
      BY <1>12, <3>1
    <3>3. p + total = z + (off + n) /\ off + n \in 0..ClusterUnits
      BY ONLY <1>4, <1>15, <1>20, <3>2, z \in Nat, off \in Nat, n \in Nat, t \in Nat
    <3>4. QED
      BY <3>1, <3>3
  <2>4. QED
    BY <1>1, <1>2, <1>3, <1>12, <1>19, <1>20, <1>23, <1>25, <1>26, <1>27, <2>1, <2>2, <2>3
       DEF Writing
<1>29. CASE ~ done
  <2>1. total < Len(rest) /\ n < Len(b) /\ off + n = ClusterUnits
    <3>1. PICK x \in Nat : x = Len(b)
      BY <1>13
    <3>2. n <= x /\ Len(rest) = x - n /\ total = t + n /\ ~ total >= x - n
          /\ (n < x => off + n = ClusterUnits)
      BY <1>15, <1>17, <1>20, <1>21, <1>29, <3>1
    <3>3. total < x - n /\ n < x
      BY ONLY <3>2, x \in Nat, n \in Nat, t \in Nat
    <3>4. QED
      BY <3>1, <3>2, <3>3
  <2>2. PICK z \in Nat : z = k * ClusterUnits
    BY <1>4, <1>13
  <2>3. (k + 1) * ClusterUnits = z + ClusterUnits /\ k + 1 \in Nat
    BY <1>13, <2>2, ClusterMultiples
  <2>4. p + total = z + ClusterUnits
    <3>1. p + t = z + off
      BY <1>12, <2>2
    <3>2. total = t + n /\ off + n = ClusterUnits
      BY <1>20, <2>1
    <3>3. QED
      BY ONLY <1>4, <3>1, <3>2, z \in Nat, off \in Nat, n \in Nat, t \in Nat
  <2>5. total < Len(buf)
    BY <1>13, <1>17, <1>26, <2>1
  <2>6. k + 1 # l
    <3>1. PICK x \in Nat : x = Len(buf)
      BY <1>13
    <3>2. p + x <= end /\ total < x /\ p + total = z + ClusterUnits
      BY <1>5, <2>4, <2>5, <3>1
    <3>3. z + ClusterUnits # end
      BY ONLY <1>4, <3>2, x \in Nat, z \in Nat, end \in Nat, total \in Nat
    <3>4. (k + 1) * ClusterUnits # l * ClusterUnits
      BY ONLY <1>31, <2>3, <3>3
    <3>5. QED
      BY ONLY <3>4
  <2>7. k + 1 \in 0..(l - 1)
    BY ONLY k \in 0..(l - 1), <1>4, <1>13, <2>6
  <2>8. After(s.fat, cur, 1) = After(s.fat, a, k + 1)
    <3>1. After(s.fat, cur, 1) = s.fat[cur]
      BY <1>4, AfterOne
    <3>2. After(s.fat, a, k + 1) = s.fat[After(s.fat, a, k)]
      <4>1. k \in Nat /\ FatOK(s.fat) /\ a \in 0..LastChain
        BY <1>4, <1>13
      <4>2. QED
        BY ONLY <4>1, AfterSteps
    <3>3. QED
      BY <1>12, <3>1, <3>2
  <2>9. After(s.fat, cur, 1) \in 1..LastCluster
    BY <1>4, <2>7, <2>8 DEF IsChain
  <2>10. PICK e \in 1..LastCluster : e = After(s.fat, cur, 1)
    BY <2>9
  <2>11. ~ none
    <3>1. e # 0 /\ e # LastChain
      BY <1>4
    <3>2. QED
      BY <1>22, <2>10, <3>1 DEF AtEnd, FreeEntry
  <2>12. w = [data |-> put, buf |-> rest, total |-> total, done |-> FALSE,
              cur |-> e, off |-> 0]
    BY <1>24, <1>29, <2>10, <2>11
  <2>13. w \in WriteStates
    <3>1. put \in Data /\ e \in 0..LastChain
      BY <1>4, <1>19 DEF Stored
    <3>2. QED
      BY <1>17, <2>12, <3>1 DEF WriteStates
  <2>14. w.done = FALSE /\ w.cur = e /\ w.off = 0
    BY <2>12
  <2>15. p + total = (k + 1) * ClusterUnits + 0 /\ 0 \in 0..ClusterUnits /\ 0 < ClusterUnits
    <3>1. p + total = (k + 1) * ClusterUnits
      BY <2>3, <2>4
    <3>2. (k + 1) * ClusterUnits \in Nat
      BY <2>3, <1>4
    <3>3. PICK y \in Nat : y = (k + 1) * ClusterUnits
      BY <3>2
    <3>4. p + total = y + 0 /\ 0 \in 0..ClusterUnits /\ 0 < ClusterUnits
      BY ONLY <1>4, <3>1, <3>3, y \in Nat
    <3>5. QED
      BY ONLY <3>3, <3>4
  <2>16. QED
    BY <1>1, <1>2, <1>3, <1>19, <1>20, <1>23, <1>25, <1>26, <1>27, <2>5, <2>7, <2>8, <2>10,
       <2>13, <2>14, <2>15 DEF Writing
<1>30. QED
  BY <1>28, <1>29

(* The turn, or the end of the loop.                                       *)
LEMMA WriteTurnKeeps ==
    ASSUME NEW s, NEW v, Settled(s, v), NEW buf \in Seq(AllUnits),
           s.vn[v].pos + Len(buf) <= s.vn[v].size,
           NEW i \in Nat, NEW r, Writing(s, v, buf, i, r)
    PROVE  Writing(s, v, buf, i + 1, WriteTurn(s.fat, r))
<1>1. CASE r.done
  <2>1. r.total >= 1
    BY <1>1 DEF Writing
  <2>2. WriteTurn(s.fat, r) = r
    BY <1>1 DEF WriteTurn
  <2>3. Writing(s, v, buf, i + 1, r)
    BY <2>1 DEF Writing
  <2>4. QED
    BY <2>2, <2>3
<1>2. CASE ~ r.done
  BY <1>2, ClusterTurnKeeps DEF WriteTurn
<1>3. QED
  BY <1>1, <1>2

(* The turns of fat32_vnode_raw_write's loop.                              *)
WriteTurns(ft, k, x, g) ==
    g = [i \in 0..k |-> IF i = 0 THEN x
                        ELSE IF g[i - 1].done THEN g[i - 1] ELSE ClusterTurn(ft, g[i - 1])]

(* All of the turns.                                                       *)
LEMMA WriteTurnsKeep ==
    ASSUME NEW s, NEW v, Settled(s, v), NEW buf \in Seq(AllUnits),
           s.vn[v].pos + Len(buf) <= s.vn[v].size,
           NEW k \in Nat, NEW x, Writing(s, v, buf, 0, x)
    PROVE  /\ \E g : WriteTurns(s.fat, k, x, g)
           /\ \A g : WriteTurns(s.fat, k, x, g) => Writing(s, v, buf, k, g[k])
<1> DEFINE F == [r \in WriteStates |-> WriteTurn(s.fat, r)]
           P == [i \in 0..k |-> {r \in WriteStates : Writing(s, v, buf, i, r)}]
<1>1. \A i \in 0..k : \A r : r \in P[i] <=> Writing(s, v, buf, i, r)
  BY DEF Writing
<1>2. \E g : WriteTurns(s.fat, k, x, g)
  <2>1. PICK g : Loop(F, x, k, g)
    BY LoopRuns
  <2>2. x \in P[0]
    BY <1>1
  <2>3. ASSUME NEW i \in 0..(k - 1), NEW r \in P[i] PROVE F[r] \in P[i + 1]
    <3>1. i \in Nat /\ i \in 0..k /\ i + 1 \in 0..k
      OBVIOUS
    <3>2. Writing(s, v, buf, i, r)
      BY <1>1, <2>3, <3>1
    <3>3. F[r] = WriteTurn(s.fat, r)
      BY <3>2 DEF Writing
    <3> HIDE DEF F, P
    <3>4. Writing(s, v, buf, i + 1, WriteTurn(s.fat, r))
      BY <3>1, <3>2, WriteTurnKeeps
    <3>5. QED
      BY <1>1, <3>1, <3>3, <3>4
  <2>4. \A i \in 0..k : g[i] \in P[i]
    <3> HIDE DEF F, P
    <3>1. QED
      BY <2>1, <2>2, <2>3, LoopKeeps
  <2>5. \A i \in 1..k : F[g[i - 1]] = WriteTurn(s.fat, g[i - 1])
    <3>1. SUFFICES ASSUME NEW i \in 1..k PROVE F[g[i - 1]] = WriteTurn(s.fat, g[i - 1])
      OBVIOUS
    <3>2. i - 1 \in 0..k
      OBVIOUS
    <3>3. g[i - 1] \in WriteStates
      BY <2>4, <3>2
    <3>4. QED
      BY <3>3
  <2>6. g = [i \in 0..k |-> IF i = 0 THEN x ELSE F[g[i - 1]]]
    BY <2>1 DEF Loop
  <2> HIDE DEF F
  <2>7. [i \in 0..k |-> IF i = 0 THEN x ELSE F[g[i - 1]]]
          = [i \in 0..k |-> IF i = 0 THEN x ELSE WriteTurn(s.fat, g[i - 1])]
    BY <2>5
  <2>8. QED
    BY <2>6, <2>7 DEF WriteTurns, WriteTurn
<1>3. ASSUME NEW g, WriteTurns(s.fat, k, x, g) PROVE Writing(s, v, buf, k, g[k])
  <2> HIDE DEF F, P
  <2> DEFINE Q == {i \in 0..k : Writing(s, v, buf, i, g[i])}
  <2>1. \A i \in 0..k : g[i] = IF i = 0 THEN x ELSE WriteTurn(s.fat, g[i - 1])
    BY <1>3 DEF WriteTurns, WriteTurn
  <2>2. 0 \in Q
    BY <2>1
  <2>3. ASSUME NEW i \in 0..(k - 1), i \in Q PROVE i + 1 \in Q
    <3>1. i + 1 \in 0..k /\ (i + 1) - 1 = i /\ i + 1 # 0 /\ i \in Nat
      OBVIOUS
    <3>2. g[i + 1] = WriteTurn(s.fat, g[i])
      BY <2>1, <3>1
    <3>3. Writing(s, v, buf, i + 1, WriteTurn(s.fat, g[i]))
      BY <2>3, <3>1, WriteTurnKeeps
    <3>4. QED
      BY <3>1, <3>2, <3>3
  <2> HIDE DEF Q
  <2>4. 0..k \subseteq Q
    BY <2>2, <2>3, LoopInduction
  <2>5. k \in Q
    BY <2>4
  <2>6. QED
    BY <2>5 DEF Q
<1>4. QED
  BY <1>2, <1>3

(* Nothing is written yet.                                                 *)
LEMMA StoredNone ==
    ASSUME NEW s, NEW v, Settled(s, v), NEW p \in Nat, NEW buf
    PROVE  Stored(s, v, s.data, p, 0, buf)
<1>1. s.data \in Data
  BY StateParts DEF Settled, Data
<1>2. \A i : i \notin p..(p + 0 - 1)
  OBVIOUS
<1>3. QED
  BY <1>1, <1>2 DEF Stored

(* A change of the data.                                                   *)
LEMMA DataChanged ==
    ASSUME NEW s, IsState(s), NEW d \in Data, NEW t, t = [s EXCEPT !.data = d]
    PROVE  IsState(t) /\ t.fat = s.fat /\ t.data = d /\ t.vn = s.vn
<1>1. /\ FatOK(s.fat) /\ s.vn \in [Nodes -> VNode]
      /\ s = [fat |-> s.fat, data |-> s.data, vn |-> s.vn]
  BY StateParts
<1>2. t = [fat |-> s.fat, data |-> d, vn |-> s.vn]
  BY <1>1
<1>3. IsState(t)
  BY <1>1, <1>2, StateMade DEF Data
<1>4. QED
  BY <1>2, <1>3

(* t is s but that n units of buf are written at the cursor of v, which is *)
(* behind them.                                                            *)
WrittenTo(s, t, v, n, buf) ==
    /\ Settled(t, v) /\ t.fat = s.fat
    /\ SameFile(t.vn[v], s.vn[v]) /\ \A w \in Nodes : w # v => t.vn[w] = s.vn[w]
    /\ t.vn[v].pos = s.vn[v].pos + n
    /\ Stored(s, v, t.data, s.vn[v].pos, n, buf)

(* The loop of fat32_vnode_raw_write writes a prefix of buf at the cursor. *)
LEMMA WrittenSettled ==
    ASSUME NEW s, NEW v, Settled(s, v), NEW buf \in Seq(AllUnits), Len(buf) >= 1,
           s.vn[v].pos + Len(buf) <= s.vn[v].size,
           s.vn[v].off < ClusterUnits, s.vn[v].cur # LastChain,
           NEW r, r = WrittenAt(s, v, buf)
    PROVE  r.n \in 1..Len(buf) /\ WrittenTo(s, r.s, v, r.n, buf)
<1>1. PICK u : u = s.vn[v]
  OBVIOUS
<1>2. /\ u.pos \in Nat /\ u.size \in Nat /\ u.off \in Nat /\ u.cur \in 0..LastChain
      /\ u.total \in Nat /\ IsState(s) /\ v \in Nodes /\ ClusterUnits \in Nat
      /\ u.pos + Len(buf) <= u.size /\ u.off < ClusterUnits /\ u.cur # LastChain
      /\ CursorAt(s.fat, u, u.cur, u.off, u.pos)
  BY <1>1, NodeFields, DiskAssumption DEF Settled
<1>3. PICK x : x = [data |-> s.data, buf |-> buf, total |-> 0, done |-> FALSE,
                    cur |-> u.cur, off |-> u.off]
  OBVIOUS
<1>4. /\ x.data = s.data /\ x.buf = buf /\ x.total = 0 /\ x.done = FALSE
      /\ x.cur = u.cur /\ x.off = u.off
  BY <1>3
<1>5. PICK l \in Nat : l = Len(buf)
  OBVIOUS
<1>6. Writing(s, v, buf, 0, x)
  <2>1. Stored(s, v, s.data, u.pos, 0, buf)
    BY <1>2, StoredNone
  <2>2. x \in WriteStates
    <3>1. s.data \in Data
      BY <2>1 DEF Stored
    <3>2. QED
      BY <1>2, <1>3, <3>1 DEF WriteStates
  <2>3. \E k \in 0..(u.total - 1) : /\ x.cur = After(s.fat, u.start, k)
                                    /\ x.off \in 0..ClusterUnits
                                    /\ u.pos + x.total = k * ClusterUnits + x.off
    <3>1. u.pos + x.total = u.pos
      BY <1>2, <1>4
    <3>2. QED
      BY <1>2, <1>4, <3>1 DEF CursorAt
  <2>4. x.total <= l /\ l = l - x.total /\ x.total < l /\ ~(0 >= 1)
    BY <1>4, <1>5
  <2>5. \A j \in 1..Len(x.buf) : x.buf[j] = buf[x.total + j]
    BY <1>4
  <2>6. QED
    BY <1>1, <1>2, <1>4, <1>5, <2>1, <2>2, <2>3, <2>4, <2>5 DEF Writing
<1>7. (\E g : WriteTurns(s.fat, l, x, g))
      /\ \A g : WriteTurns(s.fat, l, x, g) => Writing(s, v, buf, l, g[l])
  BY <1>6, WriteTurnsKeep
<1> DEFINE G == CHOOSE g : WriteTurns(s.fat, l, x, g)
<1>8. r = [s |-> [Moved(s, v, G[l].cur, G[l].off, u.pos + G[l].total) EXCEPT !.data = G[l].data],
           n |-> G[l].total]
  BY <1>1, <1>3, <1>5 DEF WrittenAt, WriteTurns
<1>9. WriteTurns(s.fat, l, x, G)
  BY <1>7
<1>10. PICK w : w = G[l]
  OBVIOUS
<1> HIDE DEF G
<1>11. Writing(s, v, buf, l, w)
  BY <1>7, <1>9, <1>10
<1>12. PICK n \in Nat : n = w.total
  BY <1>11 DEF Writing, WriteStates
<1>13. n >= 1 /\ n <= l
  BY <1>5, <1>11, <1>12 DEF Writing
<1>14. PICK d \in Data : d = w.data
  BY <1>11 DEF Writing, WriteStates
<1>15. PICK cur \in 0..LastChain : cur = w.cur
  BY <1>11 DEF Writing, WriteStates
<1>16. PICK off \in Nat : off = w.off
  BY <1>11 DEF Writing, WriteStates
<1>17. PICK pos \in Nat : pos = u.pos + n
  BY <1>2
<1>18. CursorAt(s.fat, u, cur, off, pos) /\ pos <= u.size
  <2>1. PICK k \in 0..(u.total - 1) : /\ cur = After(s.fat, u.start, k)
                                     /\ off \in 0..ClusterUnits
                                     /\ pos = k * ClusterUnits + off
    BY <1>1, <1>11, <1>12, <1>15, <1>16, <1>17 DEF Writing
  <2>2. cur \in 1..LastCluster
    BY <1>1, <2>1 DEF Settled, IsChain
  <2>3. cur # LastChain
    BY <2>2, DiskAssumption DEF LastChain
  <2>4. pos <= u.size
    BY <1>2, <1>5, <1>13, <1>17
  <2>5. QED
    BY <2>1, <2>3, <2>4 DEF CursorAt
<1>19. PICK m : m = Moved(s, v, cur, off, pos)
  OBVIOUS
<1>20. Settled(m, v) /\ OnlyCursor(s, m, v) /\ m.vn[v].pos = pos
  BY <1>1, <1>18, <1>19, MovedSettled
<1>21. PICK t : t = [m EXCEPT !.data = d]
  OBVIOUS
<1>22. r.s = t /\ r.n = n
  BY <1>8, <1>10, <1>12, <1>14, <1>15, <1>16, <1>17, <1>19, <1>21
<1>23. IsState(m)
  BY <1>20 DEF Settled
<1>24. IsState(t) /\ t.fat = m.fat /\ t.data = d /\ t.vn = m.vn
  BY <1>21, <1>23, DataChanged
<1>25. Settled(t, v)
  BY <1>20, <1>24 DEF Settled
<1>26. Stored(s, v, d, u.pos, n, buf)
  BY <1>1, <1>11, <1>12, <1>14 DEF Writing
<1>27. WrittenTo(s, t, v, n, buf)
  BY <1>1, <1>17, <1>20, <1>24, <1>25, <1>26 DEF WrittenTo, OnlyCursor
<1>28. QED
  BY <1>5, <1>13, <1>22, <1>27

(* A step that leaves the FAT alone makes no chain longer.                 *)
LEMMA SameGrows ==
    ASSUME NEW s, NEW t, NEW v, IsState(s), v \in Nodes, IsState(t), t.fat = s.fat,
           SameFile(t.vn[v], s.vn[v]), \A w \in Nodes : w # v => t.vn[w] = s.vn[w]
    PROVE  Grows(s, t, v) /\ Own(t, v) = Own(s, v)
<1>1. s.vn[v].total \in Nat /\ s.vn[v].size \in Nat
  BY NodeFields
<1>2. /\ t.vn[v].open = s.vn[v].open /\ t.vn[v].start = s.vn[v].start
      /\ t.vn[v].slot = s.vn[v].slot /\ t.vn[v].total = s.vn[v].total
      /\ t.vn[v].size = s.vn[v].size
  BY DEF SameFile
<1>3. \A k : k \notin s.vn[v].total..(t.vn[v].total - 1)
  BY <1>1, <1>2
<1>4. Own(t, v) = Own(s, v)
  BY <1>2 DEF Own
<1>5. QED
  BY <1>1, <1>2, <1>3, <1>4 DEF Grows

(* t is s but that the file v may be longer, and n units of buf are in it  *)
(* from unit p on.                                                         *)
Put(s, t, v, p, n, buf) ==
    /\ Settled(t, v) /\ Grows(s, t, v)
    /\ \A i \in 0..(t.vn[v].total * ClusterUnits - 1) :
            /\ i \in p..(p + n - 1) => UnitAt(t, t.vn[v].start, i) = buf[(i - p) + 1]
            /\ i \notin p..(p + n - 1) /\ i < s.vn[v].total * ClusterUnits
                 => UnitAt(t, t.vn[v].start, i) = UnitAt(s, s.vn[v].start, i)
    /\ \A c \in FatIndex : c \notin Own(t, v) => t.data[c] = s.data[c]

(* Where unit i of a file of l clusters is.                                *)
LEMMA UnitInside ==
    ASSUME NEW l \in Nat, NEW i \in 0..(l * ClusterUnits - 1)
    PROVE  \E k \in 0..(l - 1), o \in 0..(ClusterUnits - 1) :
                i = k * ClusterUnits + o /\ k = i \div ClusterUnits /\ o = i % ClusterUnits
<1>1. PICK m \in Nat : m = l * ClusterUnits
  BY DiskAssumption
<1>2. i \in Nat /\ i < m
  BY <1>1
<1>3. /\ i \div ClusterUnits \in Nat /\ i % ClusterUnits \in 0..(ClusterUnits - 1)
      /\ i = (i \div ClusterUnits) * ClusterUnits + (i % ClusterUnits)
      /\ \A n \in Nat : i < n * ClusterUnits => i \div ClusterUnits < n
  BY <1>2, PlaceOfUnit
<1>4. PICK k \in Nat : k = i \div ClusterUnits
  BY <1>3
<1>5. k < l
  BY <1>1, <1>2, <1>3, <1>4
<1>6. k \in 0..(l - 1)
  BY <1>5
<1>7. QED
  BY <1>3, <1>4, <1>6

(* The file grew and nothing is written.                                   *)
LEMMA GrownIsPut ==
    ASSUME NEW s, NEW t, NEW v, Settled(s, v), Settled(t, v), Grows(s, t, v),
           t.data = s.data, NEW p \in Nat, NEW buf
    PROVE  Put(s, t, v, p, 0, buf)
<1>1. PICK a : a = s.vn[v].start
  OBVIOUS
<1>2. PICK l \in Nat : l = s.vn[v].total
  BY NodeFields DEF Settled
<1>3. PICK m \in Nat : m = t.vn[v].total
  BY NodeFields DEF Settled
<1>4. t.vn[v].start = a /\ \A k \in 0..(l - 1) : After(t.fat, a, k) = After(s.fat, a, k)
  BY <1>1, <1>2 DEF Grows
<1>5. \A i : i \notin p..(p + 0 - 1)
  OBVIOUS
<1>6. ASSUME NEW i \in 0..(m * ClusterUnits - 1), i < l * ClusterUnits
      PROVE  UnitAt(t, a, i) = UnitAt(s, a, i)
  <2>1. i \in 0..(l * ClusterUnits - 1)
    <3>1. PICK x \in Nat : x = m * ClusterUnits
      BY DiskAssumption
    <3>2. PICK y \in Nat : y = l * ClusterUnits
      BY DiskAssumption
    <3>3. i \in 0..(x - 1) /\ i < y
      BY <1>6, <3>1, <3>2
    <3>4. i \in 0..(y - 1)
      BY ONLY <3>3, x \in Nat, y \in Nat
    <3>5. QED
      BY <3>2, <3>4
  <2>2. i \div ClusterUnits \in 0..(l - 1)
    BY <2>1, UnitInside
  <2>3. QED
    BY <1>4, <2>2 DEF UnitAt
<1>7. QED
  BY <1>1, <1>2, <1>3, <1>4, <1>5, <1>6 DEF Put

(* The file grew and was written to.                                       *)
LEMMA WrittenIsPut ==
    ASSUME NEW s, NEW g, NEW t, NEW v, Settled(s, v), Settled(g, v), Grows(s, g, v),
           g.data = s.data, NEW n \in Nat, NEW buf, WrittenTo(g, t, v, n, buf),
           NEW p \in Nat, p = g.vn[v].pos
    PROVE  Put(s, t, v, p, n, buf)
<1>1. PICK a : a = s.vn[v].start
  OBVIOUS
<1>2. PICK l \in Nat : l = s.vn[v].total
  BY NodeFields DEF Settled
<1>3. PICK m \in Nat : m = g.vn[v].total
  BY NodeFields DEF Settled
<1>4. g.vn[v].start = a /\ \A k \in 0..(l - 1) : After(g.fat, a, k) = After(s.fat, a, k)
  BY <1>1, <1>2 DEF Grows
<1>5. /\ Settled(t, v) /\ t.fat = g.fat /\ t.vn[v].start = a /\ t.vn[v].total = m
      /\ SameFile(t.vn[v], g.vn[v]) /\ \A w \in Nodes : w # v => t.vn[w] = g.vn[w]
  BY <1>3, <1>4 DEF WrittenTo, SameFile
<1>6. Grows(g, t, v) /\ Own(t, v) = Own(g, v)
  <2>1. IsState(g) /\ IsState(t) /\ v \in Nodes
    BY <1>5 DEF Settled
  <2>2. QED
    BY <1>5, <2>1, SameGrows
<1>7. Grows(s, t, v)
  BY <1>5, <1>6, GrowsTwice
<1>8. Stored(g, v, t.data, p, n, buf)
  BY DEF WrittenTo
<1>9. ASSUME NEW c \in FatIndex, c \notin Own(t, v) PROVE t.data[c] = s.data[c]
  BY <1>6, <1>8, <1>9 DEF Stored
<1>10. ASSUME NEW i \in 0..(m * ClusterUnits - 1)
       PROVE  /\ i \in p..(p + n - 1) => UnitAt(t, a, i) = buf[(i - p) + 1]
              /\ i \notin p..(p + n - 1) /\ i < l * ClusterUnits
                   => UnitAt(t, a, i) = UnitAt(s, a, i)
  <2>1. PICK k \in 0..(m - 1), o \in 0..(ClusterUnits - 1) :
                i = k * ClusterUnits + o /\ k = i \div ClusterUnits /\ o = i % ClusterUnits
    BY UnitInside
  <2>2. PICK z \in Nat : z = k * ClusterUnits
    BY DiskAssumption
  <2>3. t.data[After(g.fat, a, k)][o + 1] =
                IF z + o \in p..(p + n - 1) THEN buf[(z + o - p) + 1]
                ELSE s.data[After(g.fat, a, k)][o + 1]
    BY <1>3, <1>4, <1>8, <2>2 DEF Stored
  <2>4. UnitAt(t, a, i) = t.data[After(g.fat, a, k)][o + 1] /\ z + o = i
    BY <1>5, <2>1, <2>2 DEF UnitAt
  <2>5. ASSUME i < l * ClusterUnits PROVE UnitAt(s, a, i) = s.data[After(g.fat, a, k)][o + 1]
    <3>1. i \in 0..(l * ClusterUnits - 1)
      <4>1. PICK x \in Nat : x = m * ClusterUnits
        BY DiskAssumption
      <4>2. PICK y \in Nat : y = l * ClusterUnits
        BY DiskAssumption
      <4>3. i \in 0..(x - 1) /\ i < y
        BY <2>5, <4>1, <4>2
      <4>4. i \in 0..(y - 1)
        BY ONLY <4>3, x \in Nat, y \in Nat
      <4>5. QED
        BY <4>2, <4>4
    <3>2. k \in 0..(l - 1)
      BY <2>1, <3>1, UnitInside
    <3>3. QED
      BY <1>4, <2>1, <3>2 DEF UnitAt
  <2>6. i \in p..(p + n - 1) => UnitAt(t, a, i) = buf[(i - p) + 1]
    BY <2>3, <2>4
  <2>7. i \notin p..(p + n - 1) => UnitAt(t, a, i) = s.data[After(g.fat, a, k)][o + 1]
    BY <2>3, <2>4
  <2>8. QED
    BY ONLY <2>5, <2>6, <2>7
<1>11. QED
  BY <1>1, <1>2, <1>5, <1>7, <1>9, <1>10 DEF Put

(* A move of the cursor before it.                                         *)
LEMMA PutFromCursor ==
    ASSUME NEW s, NEW a, NEW t, NEW v, Settled(s, v), Settled(a, v), OnlyCursor(s, a, v),
           NEW p, NEW n, NEW buf, Put(a, t, v, p, n, buf)
    PROVE  Put(s, t, v, p, n, buf)
<1>1. /\ a.fat = s.fat /\ a.data = s.data /\ a.vn[v].start = s.vn[v].start
      /\ a.vn[v].total = s.vn[v].total
  BY DEF OnlyCursor, SameFile
<1>2. Grows(s, a, v)
  BY CursorGrows DEF Settled
<1>3. Grows(s, t, v)
  BY <1>2, GrowsTwice DEF Put
<1>4. \A i : UnitAt(a, s.vn[v].start, i) = UnitAt(s, s.vn[v].start, i)
  BY <1>1 DEF UnitAt
<1>5. QED
  BY <1>1, <1>3, <1>4 DEF Put

(* What fat32_vnode_raw_write of buf does.                                 *)
WrittenResult(s, r, v, p, buf) ==
    /\ r.n \in {-1} \cup 1..Len(buf)
    /\ Put(s, r.s, v, p, IF r.n < 0 THEN 0 ELSE r.n, buf)
    /\ r.s.vn[v].pos = p + (IF r.n < 0 THEN 0 ELSE r.n)
    /\ r.n >= 0 => p + Len(buf) <= r.s.vn[v].size
    /\ p + Len(buf) <= s.vn[v].size
         => r.n >= 1 /\ r.s.fat = s.fat /\ SameFile(r.s.vn[v], s.vn[v])

(* fat32_vnode_raw_write, whether or not the file can grow.                *)
LEMMA RawWriteSettled ==
    ASSUME NEW s, NEW v, Settled(s, v), NEW buf \in Seq(AllUnits), Len(buf) >= 1,
           NEW p, p = s.vn[v].pos, NEW r, r = RawWrite(s, v, buf)
    PROVE  WrittenResult(s, r, v, p, buf)
<1>1. PICK l \in Nat : l = Len(buf)
  OBVIOUS
<1>2. PICK size \in Nat : size = s.vn[v].size
  BY NodeFields DEF Settled
<1>3. p \in Nat /\ p <= size /\ l >= 1
  BY <1>1, <1>2, NodeFields DEF Settled
<1>4. PICK more \in Int : more = l - (size - p)
  BY <1>3
<1>5. PICK grown : grown = IF more > 0 THEN Increased(s, v, more) ELSE [s |-> s, n |-> 0]
  OBVIOUS
<1>6. PICK g : g = grown.s
  OBVIOUS
<1>7. r = IF grown.n < 0 \/ ~ CanGeneralize(g, v) THEN [s |-> g, n |-> -1]
          ELSE WrittenAt(Generalized(g, v), v, buf)
  BY <1>1, <1>2, <1>4, <1>5, <1>6 DEF RawWrite
<1>8. /\ Settled(g, v) /\ Grows(s, g, v) /\ g.data = s.data /\ g.vn[v].pos = p
      /\ grown.n \in {0, -1}
      /\ grown.n = 0 => p + l <= g.vn[v].size
      /\ p + l <= size => g = s /\ grown.n = 0
  <2>1. CASE more > 0
    <3>1. PICK k \in Nat : k = more
      BY <2>1
    <3>6. grown = Increased(s, v, k)
      BY <1>5, <2>1, <3>1
    <3>7. IncreasedTo(s, v, k, grown)
      BY <3>6, IncreasedSettled
    <3>2. /\ Settled(g, v) /\ Grows(s, g, v) /\ g.data = s.data
          /\ g.vn[v].pos = p /\ grown.n \in {0, -1}
          /\ grown.n = 0 => g.vn[v].size = size + more
      BY <1>2, <1>6, <3>1, <3>7 DEF IncreasedTo
    <3>3. size + more = p + l /\ ~ p + l <= size
      BY ONLY <1>3, <1>4, <2>1, l \in Nat, size \in Nat
    <3>4. p + l <= p + l
      BY <1>3
    <3>5. QED
      BY <3>2, <3>3, <3>4
  <2>2. CASE ~ more > 0
    <3>1. g = s /\ grown.n = 0
      BY <1>5, <1>6, <2>2
    <3>2. p + l <= size
      BY <1>3, <1>4, <2>2
    <3>3. Grows(s, s, v)
      BY OnlyCursorNone, CursorGrows DEF Settled
    <3>4. QED
      BY <1>2, <3>1, <3>2, <3>3
  <2>3. QED
    BY <2>1, <2>2
<1>9. CASE grown.n = -1
  <2>1. r.s = g /\ r.n = -1
    BY <1>7, <1>9
  <2>2. Put(s, g, v, p, 0, buf)
    BY <1>3, <1>8, GrownIsPut
  <2>3. p + 0 = p /\ ~ p + l <= size
    BY <1>3, <1>8, <1>9
  <2>4. QED
    BY <1>1, <1>2, <1>8, <2>1, <2>2, <2>3 DEF WrittenResult
<1>10. CASE grown.n = 0
  <2>1. PICK size2 \in Nat : size2 = g.vn[v].size
    BY <1>8, NodeFields DEF Settled
  <2>2. p + l <= size2
    BY <1>8, <1>10, <2>1
  <2>3. PICK end \in Nat : end = g.vn[v].total * ClusterUnits
    BY <1>8, NodeFields, DiskAssumption DEF Settled
  <2>4. p < end
    <3>1. PICK av \in Nat : av = g.vn[v].avail
      BY <1>8, NodeFields DEF Settled
    <3>2. size2 + av = end
      BY <1>8, <2>1, <2>3, <3>1 DEF Settled
    <3>3. QED
      BY <1>3, <2>2, <3>2
  <2>5. CanGeneralize(g, v)
    BY <1>8, <2>3, <2>4, InsideGeneralizes
  <2>6. PICK a : a = Generalized(g, v)
    OBVIOUS
  <2>7. /\ Settled(a, v) /\ OnlyCursor(g, a, v) /\ a.vn[v].pos = p
        /\ a.vn[v].off < ClusterUnits
    BY <1>8, <2>5, <2>6, GeneralizedSettled
  <2>8. /\ a.fat = g.fat /\ a.data = g.data /\ a.vn[v].total = g.vn[v].total
        /\ a.vn[v].size = size2
    BY <2>1, <2>7 DEF OnlyCursor, SameFile
  <2>9. a.vn[v].cur # LastChain
    BY <2>3, <2>4, <2>7, <2>8, InsideGeneralizes
  <2>10. r = WrittenAt(a, v, buf)
    BY <1>7, <1>10, <2>5, <2>6
  <2>11. r.n \in 1..Len(buf) /\ WrittenTo(a, r.s, v, r.n, buf)
    BY <1>1, <1>3, <2>2, <2>7, <2>8, <2>9, <2>10, WrittenSettled
  <2>12. PICK n \in Nat : n = r.n
    BY <2>11
  <2>13. n \in 1..Len(buf) /\ ~ n < 0 /\ n >= 1
    BY <2>11, <2>12
  <2>14. Grows(s, a, v) /\ a.data = s.data
    <3>1. Grows(g, a, v)
      BY <1>8, <2>7, CursorGrows DEF Settled
    <3>2. QED
      BY <1>8, <2>7, <2>8, <3>1, GrowsTwice
  <2>15. PICK t : t = r.s
    OBVIOUS
  <2>16. WrittenTo(a, t, v, n, buf)
    BY <2>11, <2>12, <2>15
  <2>17. Put(s, t, v, p, n, buf)
    BY <1>3, <2>7, <2>14, <2>16, WrittenIsPut
  <2>18. t.vn[v].pos = p + n /\ t.fat = a.fat /\ SameFile(t.vn[v], a.vn[v])
         /\ t.vn[v].size = size2
    BY <2>7, <2>8, <2>16 DEF WrittenTo, SameFile
  <2>19. p + l <= size => t.fat = s.fat /\ SameFile(t.vn[v], s.vn[v])
    BY <1>8, <2>7, <2>18 DEF OnlyCursor, SameFile
  <2>20. QED
    BY <1>1, <1>2, <2>2, <2>12, <2>13, <2>15, <2>17, <2>18, <2>19 DEF WrittenResult
<1>11. QED
  BY <1>8, <1>9, <1>10

(* fat32_vnode_write at a place of the file.                               *)
LEMMA WriteAtSettled ==
    ASSUME NEW s, NEW v, Settled(s, v), NEW buf \in Seq(AllUnits), Len(buf) >= 1,
           NEW p \in 0..s.vn[v].size, NEW r, r = WriteAt(s, v, p, buf)
    PROVE  WrittenResult(s, r, v, p, buf)
<1>1. PICK q : q = Lseek(s, v, p)
  OBVIOUS
<1>2. /\ q.n = p /\ Settled(q.s, v) /\ OnlyCursor(s, q.s, v) /\ q.s.vn[v].pos = p
  <2>1. p \in Int
    OBVIOUS
  <2>2. /\ p \in 0..s.vn[v].size => q.n = p
        /\ Settled(q.s, v) /\ OnlyCursor(s, q.s, v) /\ q.s.vn[v].pos = q.n
    BY ONLY Settled(s, v), <1>1, <2>1, LseekSettled DEF SoughtTo
  <2>3. QED
    BY <2>2
<1>3. PICK a : a = q.s
  OBVIOUS
<1>4. r = RawWrite(a, v, buf)
  <2>1. q.n # -1
    <3>1. p # -1
      OBVIOUS
    <3>2. QED
      BY <1>2, <3>1
  <2>2. QED
    BY <1>1, <1>3, <2>1 DEF WriteAt
<1>5. Settled(a, v) /\ OnlyCursor(s, a, v) /\ p = a.vn[v].pos
  BY <1>2, <1>3
<1>6. WrittenResult(a, r, v, p, buf)
  BY <1>4, <1>5, RawWriteSettled
<1>7. PICK n : n = IF r.n < 0 THEN 0 ELSE r.n
  OBVIOUS
<1>8. PICK t : t = r.s
  OBVIOUS
<1>9. Put(s, t, v, p, n, buf)
  <2>1. Put(a, t, v, p, n, buf)
    BY <1>6, <1>7, <1>8 DEF WrittenResult
  <2>2. QED
    BY <1>5, <2>1, PutFromCursor
<1>10. a.fat = s.fat /\ SameFile(a.vn[v], s.vn[v]) /\ a.vn[v].size = s.vn[v].size
  BY <1>5 DEF OnlyCursor, SameFile
<1>11. SameFile(t.vn[v], a.vn[v]) => SameFile(t.vn[v], s.vn[v])
  BY <1>10 DEF SameFile
<1>12. QED
  BY <1>6, <1>7, <1>8, <1>9, <1>10, <1>11 DEF WrittenResult

------------------------------------------------------------------------------
(* Chains that a step leaves alone.                                         *)

(* The chain from c and its clusters are in t as they are in s.            *)
Kept(s, t, c) ==
    /\ EndsWell(t.fat, c) /\ ChainLength(t.fat, c) = ChainLength(s.fat, c)
    /\ \A k \in 0..ChainLength(s.fat, c) : After(t.fat, c, k) = After(s.fat, c, k)
    /\ Chain(t.fat, c) = Chain(s.fat, c)
    /\ \A x \in Chain(s.fat, c) : t.data[x] = s.data[x]

(* What is known of a chain that ends well.                                *)
LEMMA ChainFacts ==
    ASSUME NEW ft, FatOK(ft), NEW c, EndsWell(ft, c), NEW n, n = ChainLength(ft, c)
    PROVE  /\ c \in 0..LastChain /\ n \in 1..LastCluster /\ n \in Nat /\ n >= 1
           /\ IsChain(ft, c, n)
           /\ Chain(ft, c) = {After(ft, c, k) : k \in 0..(n - 1)}
           /\ \A x \in Chain(ft, c) : x \in 1..LastCluster /\ x \in FatIndex /\ ft[x] # FreeEntry
<1>1. c \in 0..LastChain /\ IsChain(ft, c, n)
  BY EndsWellIsChain
<1>2. Chain(ft, c) = {After(ft, c, k) : k \in 0..(n - 1)}
  BY <1>1, ChainMeasured
<1>3. n \in 1..LastCluster /\ LastCluster \in Nat
  BY <1>1, DiskAssumption DEF IsChain
<1>4. ASSUME NEW k \in 0..(n - 1)
      PROVE  After(ft, c, k) \in 1..LastCluster /\ ft[After(ft, c, k)] # FreeEntry
  <2>1. ft[After(ft, c, k)] \in 1..LastChain
    BY <1>1, ChainInjective
  <2>2. QED
    BY <1>1, <2>1 DEF IsChain, FreeEntry
<1>5. QED
  BY <1>1, <1>2, <1>3, <1>4 DEF FatIndex

(* The clusters of a file are those of its chain.                          *)
LEMMA OwnIsChain ==
    ASSUME NEW s, NEW v, Settled(s, v)
    PROVE  /\ EndsWell(s.fat, s.vn[v].start)
           /\ ChainLength(s.fat, s.vn[v].start) = s.vn[v].total
           /\ Own(s, v) = Chain(s.fat, s.vn[v].start)
<1>1. FatOK(s.fat) /\ s.vn[v].start \in 0..LastChain /\ IsChain(s.fat, s.vn[v].start, s.vn[v].total)
  BY StateParts, NodeFields DEF Settled
<1>2. QED
  BY <1>1, ChainMeasured DEF Own

(* What a growing file takes was free.                                     *)
LEMMA OwnGrown ==
    ASSUME NEW s, NEW t, NEW v, Settled(s, v), Settled(t, v), Grows(s, t, v), NEW x \in Own(t, v)
    PROVE  x \in Own(s, v) \/ s.fat[x] = FreeEntry
<1>1. PICK a : a = s.vn[v].start
  OBVIOUS
<1>2. PICK l \in Nat : l = s.vn[v].total
  BY NodeFields DEF Settled
<1>3. PICK m \in Nat : m = t.vn[v].total
  BY NodeFields DEF Settled
<1>4. PICK k \in 0..(m - 1) : x = After(t.fat, a, k)
  BY <1>1, <1>3 DEF Own, Grows
<1>5. CASE k \in 0..(l - 1)
  BY <1>1, <1>2, <1>4, <1>5 DEF Own, Grows
<1>6. CASE k \in l..(m - 1)
  BY <1>1, <1>2, <1>3, <1>4, <1>6 DEF Grows
<1>7. k \in 0..(l - 1) \/ k \in l..(m - 1)
  OBVIOUS
<1>8. QED
  BY <1>5, <1>6, <1>7

(* A chain that keeps its entries and its clusters.                        *)
LEMMA KeptChain ==
    ASSUME NEW s, IsState(s), NEW t, IsState(t), NEW c, EndsWell(s.fat, c),
           \A x \in Chain(s.fat, c) : t.fat[x] = s.fat[x] /\ t.data[x] = s.data[x]
    PROVE  Kept(s, t, c)
<1>1. PICK n : n = ChainLength(s.fat, c)
  OBVIOUS
<1>2. FatOK(s.fat) /\ FatOK(t.fat)
  BY StateParts
<1>3. /\ c \in 0..LastChain /\ n \in Nat /\ n >= 1 /\ IsChain(s.fat, c, n)
      /\ Chain(s.fat, c) = {After(s.fat, c, k) : k \in 0..(n - 1)}
  BY <1>1, <1>2, ChainFacts
<1>4. \A k \in 0..n : After(t.fat, c, k) = After(s.fat, c, k)
  <2>1. PICK ft : ft = s.fat
    OBVIOUS
  <2>2. PICK fu : fu = t.fat
    OBVIOUS
  <2>3. \A k \in 0..(n - 1) : fu[After(ft, c, k)] = ft[After(ft, c, k)]
    BY <1>3, <2>1, <2>2
  <2>4. FatOK(ft) /\ FatOK(fu)
    BY <1>2, <2>1, <2>2
  <2>5. \A k \in 0..n : After(fu, c, k) = After(ft, c, k)
    BY ONLY <1>3, <2>3, <2>4, ChainSame
  <2>6. QED
    BY <2>1, <2>2, <2>5
<1>5. IsChain(t.fat, c, n)
  BY <1>3, <1>4 DEF IsChain
<1>6. /\ ChainLength(t.fat, c) = n /\ EndsWell(t.fat, c)
      /\ Chain(t.fat, c) = {After(t.fat, c, k) : k \in 0..(n - 1)}
  BY <1>2, <1>3, <1>5, ChainMeasured
<1>7. \A k \in 0..(n - 1) : k \in 0..n
  BY <1>3
<1>8. Chain(t.fat, c) = Chain(s.fat, c)
  BY <1>3, <1>4, <1>6, <1>7
<1>9. QED
  BY <1>1, <1>4, <1>6, <1>8 DEF Kept

(* Writing to v leaves the chains alone that have no cluster of v.         *)
LEMMA PutKeeps ==
    ASSUME NEW s, NEW t, NEW v, NEW p, NEW n, NEW buf, Settled(s, v), Put(s, t, v, p, n, buf),
           NEW c, EndsWell(s.fat, c), Chain(s.fat, c) \cap Own(s, v) = {}
    PROVE  Kept(s, t, c) /\ Chain(s.fat, c) \cap Own(t, v) = {}
<1>1. IsState(s) /\ FatOK(s.fat) /\ Settled(t, v) /\ IsState(t) /\ Grows(s, t, v)
  BY StateParts DEF Settled, Put
<1>2. ASSUME NEW x \in Chain(s.fat, c)
      PROVE  x \notin Own(t, v) /\ x \in FatIndex /\ x \in 0..LastChain
  <2>1. s.fat[x] # FreeEntry /\ x \in FatIndex /\ x \in 1..LastCluster
    BY <1>1, ChainFacts
  <2>2. x \notin Own(t, v)
    BY <1>1, <2>1, OwnGrown
  <2>3. QED
    BY <2>1, <2>2, DiskAssumption DEF LastChain
<1>3. ASSUME NEW x \in Chain(s.fat, c) PROVE t.fat[x] = s.fat[x] /\ t.data[x] = s.data[x]
  BY <1>1, <1>2 DEF Grows, Put
<1>4. Kept(s, t, c)
  BY <1>1, <1>3, KeptChain
<1>5. QED
  BY <1>2, <1>4

(* The units of a chain that is left alone.                                *)
LEMMA KeptUnits ==
    ASSUME NEW s, NEW t, IsState(s), NEW c, EndsWell(s.fat, c), Kept(s, t, c)
    PROVE  /\ \A i \in 0..(ChainLength(s.fat, c) * ClusterUnits - 1) : UnitAt(t, c, i) = UnitAt(s, c, i)
           /\ \A z \in 0..(ChainLength(s.fat, c) * ClusterUnits) : Units(t, c, z) = Units(s, c, z)
<1>1. PICK n : n = ChainLength(s.fat, c)
  OBVIOUS
<1>2. n \in Nat /\ Chain(s.fat, c) = {After(s.fat, c, k) : k \in 0..(n - 1)}
  BY <1>1, StateParts, ChainFacts
<1>3. ASSUME NEW i \in 0..(n * ClusterUnits - 1) PROVE UnitAt(t, c, i) = UnitAt(s, c, i)
  <2>1. PICK k \in 0..(n - 1) : k = i \div ClusterUnits
    BY <1>2, UnitInside
  <2>2. k \in 0..n
    BY <1>2
  <2>3. After(t.fat, c, k) = After(s.fat, c, k) /\ After(s.fat, c, k) \in Chain(s.fat, c)
    BY <1>1, <1>2, <2>2 DEF Kept
  <2>4. t.data[After(s.fat, c, k)] = s.data[After(s.fat, c, k)]
    BY <2>3 DEF Kept
  <2>5. QED
    BY <2>1, <2>3, <2>4 DEF UnitAt
<1>4. PICK e \in Nat : e = n * ClusterUnits
  BY <1>2, DiskAssumption
<1>5. ASSUME NEW z \in 0..e PROVE Units(t, c, z) = Units(s, c, z)
  <2>1. \A i \in 1..z : i - 1 \in 0..(e - 1)
    BY <1>4
  <2>2. \A i \in 1..z : UnitAt(t, c, i - 1) = UnitAt(s, c, i - 1)
    BY <1>3, <1>4, <2>1
  <2>3. QED
    BY <2>2 DEF Units
<1>6. QED
  BY <1>1, <1>3, <1>4, <1>5

(* A file whose chain and vnode are left alone.                            *)
LEMMA KeptSettled ==
    ASSUME NEW s, NEW t, NEW v, Settled(s, v), IsState(t), Kept(s, t, s.vn[v].start),
           t.vn[v] = s.vn[v]
    PROVE  Settled(t, v)
<1>1. PICK a : a = s.vn[v].start
  OBVIOUS
<1>2. PICK l : l = s.vn[v].total
  OBVIOUS
<1>3. ChainLength(s.fat, a) = l /\ IsChain(s.fat, a, l) /\ l \in Nat
  BY <1>1, <1>2, OwnIsChain, NodeFields DEF Settled
<1>4. \A k \in 0..l : After(t.fat, a, k) = After(s.fat, a, k)
  BY <1>1, <1>3 DEF Kept
<1>5. \A k \in 0..(l - 1) : k \in 0..l
  BY <1>3
<1>6. IsChain(t.fat, a, l)
  BY <1>3, <1>4, <1>5 DEF IsChain
<1>7. l - 1 \in 0..l
  BY <1>3 DEF IsChain
<1>8. t.vn[v].last = After(t.fat, a, l - 1)
  BY <1>1, <1>2, <1>4, <1>7 DEF Settled
<1>9. CursorAt(t.fat, t.vn[v], t.vn[v].cur, t.vn[v].off, t.vn[v].pos)
  <2>1. CursorAt(s.fat, s.vn[v], s.vn[v].cur, s.vn[v].off, s.vn[v].pos)
    BY DEF Settled
  <2>2. \A k \in 0..(l - 1) : After(t.fat, a, k) = After(s.fat, a, k)
    BY <1>4, <1>5
  <2>3. QED
    BY <1>1, <1>2, <2>1, <2>2 DEF CursorAt
<1>10. QED
  BY <1>1, <1>2, <1>6, <1>8, <1>9 DEF Settled

------------------------------------------------------------------------------
(* The directory.                                                           *)

DirSize(s) == s.vn[Dir].size

(* The entries of a directory whose size is a number.                      *)
LEMMA SlotsFound ==
    ASSUME NEW s, DirSize(s) \in Nat
    PROVE  /\ FirstUnused(s) \in 0..DirSize(s)
           /\ \A i \in 0..(FirstUnused(s) - 1) : Slot(s, i) # Zero
           /\ FirstUnused(s) < DirSize(s) => Slot(s, FirstUnused(s)) = Zero
<1> DEFINE T == {i \in 0..(DirSize(s) - 1) : Slot(s, i) = Zero} \cup {DirSize(s)}
<1>1. T \subseteq Nat /\ T # {}
  OBVIOUS
<1>2. FirstUnused(s) = Least(T)
  BY DEF FirstUnused, DirSize
<1>3. FirstUnused(s) \in T /\ \A i \in T : FirstUnused(s) <= i
  <2> HIDE DEF T
  <2>1. QED
    BY <1>1, <1>2, LeastIsMember
<1>4. FirstUnused(s) \in Nat /\ FirstUnused(s) <= DirSize(s)
  BY <1>3
<1>5. PICK u \in Nat : u = FirstUnused(s)
  BY <1>4
<1>6. ASSUME NEW i \in 0..(u - 1) PROVE Slot(s, i) # Zero
  <2>1. i \in 0..(DirSize(s) - 1) /\ ~ u <= i
    BY <1>4, <1>5
  <2>2. QED
    BY <1>3, <1>5, <2>1
<1>7. QED
  BY <1>3, <1>4, <1>5, <1>6

(* The first unused slot, from what is before it.                          *)
LEMMA FirstUnusedIs ==
    ASSUME NEW s, DirSize(s) \in Nat, NEW u \in 0..DirSize(s),
           \A i \in 0..(u - 1) : Slot(s, i) # Zero,
           u < DirSize(s) => Slot(s, u) = Zero
    PROVE  FirstUnused(s) = u
<1>1. /\ FirstUnused(s) \in 0..DirSize(s)
      /\ \A i \in 0..(FirstUnused(s) - 1) : Slot(s, i) # Zero
      /\ FirstUnused(s) < DirSize(s) => Slot(s, FirstUnused(s)) = Zero
  BY SlotsFound
<1>2. PICK x \in Nat : x = FirstUnused(s)
  BY <1>1
<1>3. ~ x < u
  <2>1. x < u => x \in 0..(u - 1) /\ x < DirSize(s)
    OBVIOUS
  <2>2. QED
    BY <1>1, <1>2, <2>1
<1>4. ~ u < x
  <2>1. u < x => u \in 0..(x - 1) /\ u < DirSize(s)
    BY <1>1, <1>2
  <2>2. QED
    BY <1>1, <1>2, <2>1
<1>5. QED
  BY <1>2, <1>3, <1>4

(* The directory of t has the slots of that of s.                          *)
SameSlots(s, t) ==
    /\ DirSize(t) = DirSize(s)
    /\ \A i \in 0..(DirSize(s) - 1) : Slot(t, i) = Slot(s, i)

(* With the same slots a directory has the same entries.                   *)
LEMMA SameEntries ==
    ASSUME NEW s, NEW t, DirSize(s) \in Nat, SameSlots(s, t)
    PROVE  /\ FirstUnused(t) = FirstUnused(s) /\ Entered(t) = Entered(s)
           /\ \A n : SlotsOf(t, n) = SlotsOf(s, n)
<1>1. FirstUnused(s) \in 0..DirSize(s)
  BY SlotsFound
<1>2. FirstUnused(t) = FirstUnused(s)
  <2>1. {i \in 0..(DirSize(t) - 1) : Slot(t, i) = Zero} = {i \in 0..(DirSize(s) - 1) : Slot(s, i) = Zero}
    BY DEF SameSlots
  <2>2. QED
    BY <2>1 DEF FirstUnused, SameSlots, DirSize
<1>3. PICK u \in 0..DirSize(s) : u = FirstUnused(s)
  BY <1>1
<1>4. \A i \in 0..(u - 1) : Slot(t, i) = Slot(s, i)
  <2>1. \A i \in 0..(u - 1) : i \in 0..(DirSize(s) - 1)
    OBVIOUS
  <2>2. QED
    BY <2>1 DEF SameSlots
<1>5. Entered(t) = Entered(s)
  BY <1>2, <1>3, <1>4 DEF Entered
<1>6. ASSUME NEW n PROVE SlotsOf(t, n) = SlotsOf(s, n)
  BY <1>2, <1>3, <1>4 DEF SlotsOf
<1>7. QED
  BY <1>2, <1>5, <1>6

(* The directory and the files that are open.                              *)
DirRight(s) == s.vn[Dir].open /\ Settled(s, Dir) /\ s.vn[Dir].avail = 0

(* A vnode of a file agrees with its entry.                                *)
OpenRight(s, f) ==
    /\ Settled(s, f)
    /\ SlotsOf(s, f) # {} /\ s.vn[f].slot = Least(SlotsOf(s, f))
    /\ Slot(s, s.vn[f].slot)[3] = s.vn[f].start

(* The entry in slot i has no cluster its size does not need.              *)
TightSlot(s, i) ==
    Slot(s, i)[4] + ClusterUnits >= ClusterUnits * ChainLength(s.fat, Slot(s, i)[3])

(* Nor has that of a file that is closed; an open one may have grown.      *)
ClosedTight(s) ==
    \A f \in Files : ~ s.vn[f].open /\ SlotsOf(s, f) # {} => TightSlot(s, Least(SlotsOf(s, f)))

(* The directory, the files that are open and all entries are right.       *)
Sound(s) ==
    /\ IsState(s) /\ DirRight(s) /\ EntriesApart(s) /\ ClosedTight(s)
    /\ \A f \in Files : s.vn[f].open => OpenRight(s, f)

LEMMA FilesAreNodes == Dir \in Nodes /\ \A f \in Files : f \in Nodes /\ f # Dir
BY DiskAssumption DEF Nodes

(* The size of the directory is that of its clusters.                      *)
LEMMA DirFacts ==
    ASSUME NEW s, DirRight(s)
    PROVE  /\ DirSize(s) \in Nat
           /\ DirSize(s) = ChainLength(s.fat, s.vn[Dir].start) * ClusterUnits
           /\ EndsWell(s.fat, s.vn[Dir].start)
           /\ Own(s, Dir) = Chain(s.fat, s.vn[Dir].start)
<1>1. Settled(s, Dir) /\ s.vn[Dir].avail = 0 /\ s.vn[Dir].size \in Nat
  BY NodeFields DEF DirRight, Settled
<1>2. s.vn[Dir].size + 0 = s.vn[Dir].total * ClusterUnits
  BY <1>1 DEF Settled
<1>3. s.vn[Dir].size = s.vn[Dir].total * ClusterUnits
  BY <1>1, <1>2
<1>4. QED
  BY <1>1, <1>3, OwnIsChain DEF DirSize

(* What is known of an entry.                                              *)
LEMMA EntryFacts ==
    ASSUME NEW s, EntriesApart(s), NEW i \in Entered(s)
    PROVE  /\ EndsWell(s.fat, Slot(s, i)[3])
           /\ Slot(s, i)[4] \in 0..(ChainLength(s.fat, Slot(s, i)[3]) * ClusterUnits)
           /\ Chain(s.fat, Slot(s, i)[3]) \cap Chain(s.fat, s.vn[Dir].start) = {}
           /\ \A j \in Entered(s) : j # i =>
                Chain(s.fat, Slot(s, i)[3]) \cap Chain(s.fat, Slot(s, j)[3]) = {}
<1>1. /\ EndsWell(s.fat, Slot(s, i)[3])
      /\ Slot(s, i)[4] \in 0..(ClusterUnits * ChainLength(s.fat, Slot(s, i)[3]))
      /\ Chain(s.fat, Slot(s, i)[3]) \cap Chain(s.fat, s.vn[Dir].start) = {}
      /\ \A j \in Entered(s) : j # i =>
            Chain(s.fat, Slot(s, i)[3]) \cap Chain(s.fat, Slot(s, j)[3]) = {}
  BY DEF EntriesApart
<1>2. PICK n : n = ChainLength(s.fat, Slot(s, i)[3])
  OBVIOUS
<1>3. n \in Int
  <2>1. n \in {k \in 1..LastCluster : AtEnd(After(s.fat, Slot(s, i)[3], k))} \cup {LastChain}
    <3> DEFINE T == {k \in 1..LastCluster : AtEnd(After(s.fat, Slot(s, i)[3], k))} \cup {LastChain}
    <3>1. T \subseteq Nat /\ T # {} /\ n = Least(T)
      BY <1>2, DiskAssumption DEF ChainLength, LastChain
    <3> HIDE DEF T
    <3>2. n \in T
      BY <3>1, LeastIsMember
    <3>3. QED
      BY <3>2 DEF T
  <2>2. QED
    BY <2>1, DiskAssumption DEF LastChain
<1>4. ClusterUnits * n = n * ClusterUnits
  BY <1>3, DiskAssumption
<1>5. QED
  BY <1>1, <1>2, <1>4

(* The first entry of a name.                                              *)
LEMMA NamedSlot ==
    ASSUME NEW s, DirSize(s) \in Nat, NEW n, SlotsOf(s, n) # {},
           NEW e, e = Least(SlotsOf(s, n))
    PROVE  /\ e \in SlotsOf(s, n) /\ e \in Entered(s) /\ e \in Nat
           /\ e \in 0..(FirstUnused(s) - 1) /\ e \in 0..(DirSize(s) - 1)
           /\ Len(Slot(s, e)) = 4 /\ Slot(s, e)[2] = n
           /\ \A x \in SlotsOf(s, n) : e <= x
<1>1. PICK u \in 0..DirSize(s) : u = FirstUnused(s)
  BY SlotsFound
<1>2. SlotsOf(s, n) \subseteq Nat
  BY <1>1 DEF SlotsOf
<1>3. e \in SlotsOf(s, n) /\ \A x \in SlotsOf(s, n) : e <= x
  BY <1>2, LeastIsMember
<1>4. e \in 0..(u - 1) /\ Len(Slot(s, e)) = 4 /\ Slot(s, e)[2] = n
  BY <1>1, <1>3 DEF SlotsOf, IsShortOf
<1>5. QED
  BY <1>1, <1>3, <1>4 DEF Entered

(* The entry of an open file.                                              *)
LEMMA OpenFacts ==
    ASSUME NEW s, Sound(s), NEW f \in Files, s.vn[f].open, NEW e, e = s.vn[f].slot
    PROVE  /\ Settled(s, f) /\ e \in Entered(s) /\ e \in 0..(DirSize(s) - 1)
           /\ e \in 0..(FirstUnused(s) - 1)
           /\ Len(Slot(s, e)) = 4 /\ Slot(s, e)[2] = f /\ Slot(s, e)[3] = s.vn[f].start
           /\ Own(s, f) = Chain(s.fat, s.vn[f].start)
           /\ Own(s, f) \cap Own(s, Dir) = {}
           /\ \A i \in Entered(s) : i # e => Chain(s.fat, Slot(s, i)[3]) \cap Own(s, f) = {}
<1>1. OpenRight(s, f) /\ DirRight(s) /\ EntriesApart(s)
  BY DEF Sound
<1>2. /\ DirSize(s) \in Nat /\ Own(s, Dir) = Chain(s.fat, s.vn[Dir].start)
  BY <1>1, DirFacts
<1>3. /\ e \in Entered(s) /\ e \in 0..(DirSize(s) - 1) /\ e \in 0..(FirstUnused(s) - 1)
      /\ Len(Slot(s, e)) = 4 /\ Slot(s, e)[2] = f
  BY <1>1, <1>2, NamedSlot DEF OpenRight
<1>4. Settled(s, f) /\ Slot(s, e)[3] = s.vn[f].start
  BY <1>1 DEF OpenRight
<1>5. Own(s, f) = Chain(s.fat, s.vn[f].start)
  BY <1>4, OwnIsChain
<1>6. /\ Chain(s.fat, Slot(s, e)[3]) \cap Chain(s.fat, s.vn[Dir].start) = {}
      /\ \A j \in Entered(s) : j # e =>
            Chain(s.fat, Slot(s, e)[3]) \cap Chain(s.fat, Slot(s, j)[3]) = {}
  BY <1>1, <1>3, EntryFacts
<1>7. QED
  BY <1>2, <1>3, <1>4, <1>5, <1>6

(* What a file holds does not change with its vnode, its entry and the     *)
(* chain of the entry.                                                     *)
LEMMA ContentKept ==
    ASSUME NEW s, NEW t, Sound(s), NEW g \in Files, t.vn[g] = s.vn[g],
           SlotsOf(t, g) = SlotsOf(s, g),
           SlotsOf(s, g) # {} =>
                /\ Slot(t, Least(SlotsOf(s, g))) = Slot(s, Least(SlotsOf(s, g)))
                /\ Kept(s, t, Slot(s, Least(SlotsOf(s, g)))[3])
    PROVE  ContentOf(t, g) = ContentOf(s, g)
<1>1. IsState(s) /\ DirRight(s) /\ EntriesApart(s) /\ DirSize(s) \in Nat
  BY DirFacts DEF Sound
<1>2. SlotsOf(t, g) = SlotsOf(s, g)
  OBVIOUS
<1>3. CASE SlotsOf(s, g) = {}
  <2>1. ~ s.vn[g].open
    BY <1>3 DEF Sound, OpenRight
  <2>2. QED
    BY <1>2, <1>3, <2>1 DEF ContentOf
<1>4. CASE SlotsOf(s, g) # {}
  <2>1. PICK e : e = Least(SlotsOf(s, g))
    OBVIOUS
  <2>2. e \in Entered(s) /\ e \in 0..(DirSize(s) - 1)
    BY <1>1, <1>4, <2>1, NamedSlot
  <2>3. PICK c : c = Slot(s, e)[3]
    OBVIOUS
  <2>4. EndsWell(s.fat, c) /\ Slot(s, e)[4] \in 0..(ChainLength(s.fat, c) * ClusterUnits)
    BY <1>1, <2>2, <2>3, EntryFacts
  <2>5. Kept(s, t, c) /\ Slot(t, e) = Slot(s, e)
    BY <1>4, <2>1, <2>3
  <2>6. \A z \in 0..(ChainLength(s.fat, c) * ClusterUnits) : Units(t, c, z) = Units(s, c, z)
    <3>1. IsState(s) /\ EndsWell(s.fat, c) /\ Kept(s, t, c)
      BY <1>1, <2>4, <2>5
    <3>2. QED
      BY ONLY <3>1, KeptUnits
  <2>7. CASE s.vn[g].open
    <3>1. Settled(s, g) /\ s.vn[g].start = c
      BY <2>1, <2>3, <2>7 DEF Sound, OpenRight
    <3>2. s.vn[g].size \in 0..(ChainLength(s.fat, c) * ClusterUnits)
      <4>1. PICK x \in Nat : x = s.vn[g].size
        BY <3>1, NodeFields DEF Settled
      <4>2. PICK y \in Nat : y = s.vn[g].avail
        BY <3>1, NodeFields DEF Settled
      <4>3. ChainLength(s.fat, c) = s.vn[g].total
        BY <3>1, OwnIsChain
      <4>4. x + y = ChainLength(s.fat, c) * ClusterUnits
        BY <3>1, <4>1, <4>2, <4>3 DEF Settled
      <4>5. QED
        BY <4>1, <4>4
    <3>3. QED
      BY <2>6, <2>7, <3>1, <3>2 DEF ContentOf
  <2>8. CASE ~ s.vn[g].open
    BY <1>2, <1>4, <2>1, <2>3, <2>4, <2>5, <2>6, <2>8 DEF ContentOf
  <2>9. QED
    BY <2>7, <2>8
<1>5. QED
  BY <1>3, <1>4

(* Two names have two entries.                                             *)
LEMMA OtherName ==
    ASSUME NEW s, Sound(s), NEW f \in Files, s.vn[f].open, NEW g, g # f, SlotsOf(s, g) # {},
           NEW e, e = Least(SlotsOf(s, g))
    PROVE  e \in Entered(s) /\ e # s.vn[f].slot
<1>1. DirSize(s) \in Nat
  BY DirFacts DEF Sound
<1>2. e \in Entered(s) /\ Slot(s, e)[2] = g
  BY <1>1, NamedSlot
<1>3. Slot(s, s.vn[f].slot)[2] = f
  BY OpenFacts
<1>4. QED
  BY <1>2, <1>3

(* A closed file has no spare cluster as long as its entry and its chain   *)
(* are left alone.                                                         *)
LEMMA TightKept ==
    ASSUME NEW s, Sound(s), NEW t, NEW f \in Files, ~ s.vn[f].open, SlotsOf(s, f) # {},
           SlotsOf(t, f) = SlotsOf(s, f), NEW e, e = Least(SlotsOf(s, f)),
           Slot(t, e) = Slot(s, e),
           ChainLength(t.fat, Slot(s, e)[3]) = ChainLength(s.fat, Slot(s, e)[3])
    PROVE  TightSlot(t, Least(SlotsOf(t, f)))
<1>1. TightSlot(s, e)
  BY DEF Sound, ClosedTight
<1>2. QED
  BY <1>1 DEF TightSlot

(* Writing to an open file.                                                *)
LEMMA WriteSound ==
    ASSUME NEW s, NEW t, Sound(s), NEW f \in Files, s.vn[f].open,
           NEW p, NEW n, NEW buf, Put(s, t, f, p, n, buf)
    PROVE  /\ Sound(t) /\ SameSlots(s, t)
           /\ \A g \in Files : g # f => t.vn[g] = s.vn[g] /\ ContentOf(t, g) = ContentOf(s, g)
<1>1. IsState(s) /\ DirRight(s) /\ EntriesApart(s) /\ DirSize(s) \in Nat
  BY DirFacts DEF Sound
<1>2. PICK e : e = s.vn[f].slot
  OBVIOUS
<1>3. /\ Settled(s, f) /\ e \in Entered(s) /\ e \in 0..(DirSize(s) - 1)
      /\ Slot(s, e)[3] = s.vn[f].start
      /\ Own(s, f) = Chain(s.fat, s.vn[f].start)
      /\ Own(s, f) \cap Own(s, Dir) = {}
      /\ \A i \in Entered(s) : i # e => Chain(s.fat, Slot(s, i)[3]) \cap Own(s, f) = {}
  BY <1>2, OpenFacts
<1>4. /\ Settled(t, f) /\ Grows(s, t, f) /\ IsState(t) /\ t.vn[f].start = s.vn[f].start
      /\ t.vn[f].slot = e /\ t.vn[f].open
      /\ \A w \in Nodes : w # f => t.vn[w] = s.vn[w]
  BY <1>2 DEF Put, Grows
<1>5. PICK c : c = s.vn[Dir].start
  OBVIOUS
<1>6. /\ Own(s, Dir) = Chain(s.fat, c) /\ EndsWell(s.fat, c)
      /\ DirSize(s) = ChainLength(s.fat, c) * ClusterUnits
      /\ t.vn[Dir] = s.vn[Dir]
  BY <1>1, <1>4, <1>5, DirFacts, FilesAreNodes
<1>7. Kept(s, t, c) /\ Chain(s.fat, c) \cap Own(t, f) = {}
  <2>1. Chain(s.fat, c) \cap Own(s, f) = {}
    BY <1>3, <1>6
  <2>2. QED
    BY <1>3, <1>6, <2>1, PutKeeps
<1>8. SameSlots(s, t)
  <2>1. \A i \in 0..(ChainLength(s.fat, c) * ClusterUnits - 1) : UnitAt(t, c, i) = UnitAt(s, c, i)
    <3>1. IsState(s) /\ EndsWell(s.fat, c) /\ Kept(s, t, c)
      BY <1>1, <1>6, <1>7
    <3>2. QED
      BY ONLY <3>1, KeptUnits
  <2>2. QED
    BY <1>5, <1>6, <2>1 DEF SameSlots, Slot, DirSize
<1>9. /\ Entered(t) = Entered(s) /\ FirstUnused(t) = FirstUnused(s)
      /\ \A g : SlotsOf(t, g) = SlotsOf(s, g)
  BY <1>1, <1>8, SameEntries
<1>10. DirRight(t)
  <2>1. Settled(s, Dir) /\ s.vn[Dir].open /\ s.vn[Dir].avail = 0
    BY <1>1 DEF DirRight
  <2>2. Settled(t, Dir)
    BY <1>4, <1>5, <1>6, <1>7, <2>1, KeptSettled
  <2>3. QED
    BY <1>6, <2>1, <2>2 DEF DirRight
<1>11. ASSUME NEW i \in Entered(s), i # e
       PROVE  /\ Kept(s, t, Slot(s, i)[3]) /\ Chain(s.fat, Slot(s, i)[3]) \cap Own(t, f) = {}
              /\ Chain(t.fat, Slot(s, i)[3]) = Chain(s.fat, Slot(s, i)[3])
  <2>1. EndsWell(s.fat, Slot(s, i)[3])
    BY <1>1, EntryFacts
  <2>2. Chain(s.fat, Slot(s, i)[3]) \cap Own(s, f) = {}
    BY <1>3, <1>11
  <2>3. PICK d : d = Slot(s, i)[3]
    OBVIOUS
  <2>4. Kept(s, t, d) /\ Chain(s.fat, d) \cap Own(t, f) = {}
    BY <1>3, <2>1, <2>2, <2>3, PutKeeps
  <2>5. QED
    BY <2>3, <2>4 DEF Kept
<1>12. /\ EndsWell(t.fat, s.vn[f].start) /\ Own(t, f) = Chain(t.fat, s.vn[f].start)
       /\ ChainLength(t.fat, s.vn[f].start) = t.vn[f].total
  BY <1>4, OwnIsChain
<1>13. \A i \in Entered(s) : Slot(t, i) = Slot(s, i)
  <2>1. FirstUnused(s) \in 0..DirSize(s)
    BY <1>1, SlotsFound
  <2>2. \A i \in Entered(s) : i \in 0..(DirSize(s) - 1)
    BY <1>1, <2>1 DEF Entered
  <2>3. QED
    BY <1>8, <2>2 DEF SameSlots
<1>14. EntriesApart(t)
  <2>1. ASSUME NEW i \in Entered(s)
        PROVE  /\ EndsWell(t.fat, Slot(s, i)[3])
               /\ Slot(s, i)[4] \in 0..(ClusterUnits * ChainLength(t.fat, Slot(s, i)[3]))
               /\ Chain(t.fat, Slot(s, i)[3]) \cap Chain(t.fat, c) = {}
               /\ \A j \in Entered(s) : j # i =>
                    Chain(t.fat, Slot(s, i)[3]) \cap Chain(t.fat, Slot(s, j)[3]) = {}
    <3>1. /\ EndsWell(s.fat, Slot(s, i)[3])
          /\ Slot(s, i)[4] \in 0..(ClusterUnits * ChainLength(s.fat, Slot(s, i)[3]))
          /\ Chain(s.fat, Slot(s, i)[3]) \cap Chain(s.fat, c) = {}
          /\ \A j \in Entered(s) : j # i =>
                Chain(s.fat, Slot(s, i)[3]) \cap Chain(s.fat, Slot(s, j)[3]) = {}
      BY <1>1, <1>5 DEF EntriesApart
    <3>2. Chain(t.fat, c) = Chain(s.fat, c)
      BY <1>7 DEF Kept
    <3>3. CASE i # e
      <4>1. EndsWell(t.fat, Slot(s, i)[3])
            /\ ChainLength(t.fat, Slot(s, i)[3]) = ChainLength(s.fat, Slot(s, i)[3])
        BY <1>11, <3>3 DEF Kept
      <4>2. ASSUME NEW j \in Entered(s), j # i
            PROVE  Chain(t.fat, Slot(s, i)[3]) \cap Chain(t.fat, Slot(s, j)[3]) = {}
        <5>1. CASE j = e
          BY <1>3, <1>11, <1>12, <3>3, <5>1
        <5>2. CASE j # e
          BY <1>11, <3>1, <3>3, <4>2, <5>2
        <5>3. QED
          BY <5>1, <5>2
      <4>3. QED
        BY <1>11, <3>1, <3>2, <3>3, <4>1, <4>2
    <3>4. CASE i = e
      <4>1. Slot(s, i)[3] = s.vn[f].start
        BY <1>3, <3>4
      <4>2. PICK x \in Nat : x = s.vn[f].total
        BY <1>3, NodeFields DEF Settled
      <4>3. PICK y \in Nat : y = t.vn[f].total
        BY <1>4, NodeFields DEF Settled
      <4>4. x <= y
        BY <1>4, <4>2, <4>3 DEF Grows
      <4>5. ClusterUnits * x <= ClusterUnits * y /\ ClusterUnits * x \in Nat /\ ClusterUnits * y \in Nat
        BY <4>4, ClusterMultiples
      <4>6. ChainLength(s.fat, s.vn[f].start) = x
        BY <1>3, <4>2, OwnIsChain
      <4>7. Slot(s, i)[4] \in 0..(ClusterUnits * x)
        BY <3>1, <4>1, <4>6
      <4>8. Slot(s, i)[4] \in 0..(ClusterUnits * y)
        BY <4>5, <4>7
      <4>9. ASSUME NEW j \in Entered(s), j # i
            PROVE  Chain(t.fat, Slot(s, i)[3]) \cap Chain(t.fat, Slot(s, j)[3]) = {}
        BY <1>11, <1>12, <3>4, <4>1, <4>9
      <4>10. Chain(t.fat, Slot(s, i)[3]) \cap Chain(t.fat, c) = {}
        BY <1>7, <1>12, <3>2, <4>1
      <4>11. QED
        BY <1>12, <4>1, <4>3, <4>8, <4>9, <4>10
    <3>5. QED
      BY <3>3, <3>4
  <2>2. t.vn[Dir].start = c
    BY <1>5, <1>6
  <2>3. QED
    BY <1>9, <1>13, <2>1, <2>2 DEF EntriesApart
<1>15. ASSUME NEW g \in Files, t.vn[g].open PROVE OpenRight(t, g)
  <2>1. CASE g = f
    <3>1. OpenRight(s, f)
      BY DEF Sound
    <3>2. QED
      BY <1>2, <1>3, <1>4, <1>9, <1>13, <2>1, <3>1 DEF OpenRight
  <2>2. CASE g # f
    <3>1. t.vn[g] = s.vn[g] /\ g \in Nodes
      BY <1>4, <2>2, FilesAreNodes
    <3>2. OpenRight(s, g)
      BY <1>15, <3>1 DEF Sound
    <3>3. s.vn[g].slot \in Entered(s) /\ s.vn[g].slot # e
      BY <1>2, <2>2, <3>2, OtherName DEF OpenRight
    <3>4. Kept(s, t, s.vn[g].start)
      BY <1>11, <3>2, <3>3 DEF OpenRight
    <3>5. Settled(t, g)
      BY <1>4, <3>1, <3>2, <3>4, KeptSettled DEF OpenRight
    <3>6. QED
      BY <1>9, <1>13, <3>1, <3>2, <3>3, <3>5 DEF OpenRight
  <2>3. QED
    BY <2>1, <2>2
<1>16. ASSUME NEW g \in Files, g # f
       PROVE  t.vn[g] = s.vn[g] /\ ContentOf(t, g) = ContentOf(s, g)
  <2>1. t.vn[g] = s.vn[g]
    BY <1>4, <1>16, FilesAreNodes
  <2>2. SlotsOf(s, g) # {} =>
            /\ Slot(t, Least(SlotsOf(s, g))) = Slot(s, Least(SlotsOf(s, g)))
            /\ Kept(s, t, Slot(s, Least(SlotsOf(s, g)))[3])
    BY <1>2, <1>11, <1>13, <1>16, OtherName
  <2>3. QED
    BY <1>9, <2>1, <2>2, ContentKept
<1>17. ClosedTight(t)
  <2>1. ASSUME NEW g \in Files, ~ t.vn[g].open, SlotsOf(t, g) # {}
        PROVE  TightSlot(t, Least(SlotsOf(t, g)))
    <3>1. g # f
      BY <1>4, <2>1 DEF Grows
    <3>2. ~ s.vn[g].open /\ SlotsOf(s, g) # {} /\ SlotsOf(t, g) = SlotsOf(s, g)
      BY <1>9, <1>16, <2>1, <3>1
    <3>3. PICK x : x = Least(SlotsOf(s, g))
      OBVIOUS
    <3>4. x \in Entered(s) /\ x # e
      BY <1>2, <3>1, <3>2, <3>3, OtherName
    <3>5. /\ Slot(t, x) = Slot(s, x)
          /\ ChainLength(t.fat, Slot(s, x)[3]) = ChainLength(s.fat, Slot(s, x)[3])
      BY <1>11, <1>13, <3>4 DEF Kept
    <3>6. QED
      BY <3>2, <3>3, <3>5, TightKept
  <2>2. QED
    BY <2>1 DEF ClosedTight
<1>18. QED
  BY <1>4, <1>8, <1>10, <1>14, <1>15, <1>16, <1>17 DEF Sound

(* The disk and the directory are as they were.                            *)
LEMMA SameDisk ==
    ASSUME NEW s, NEW t, t.fat = s.fat, t.data = s.data,
           t.vn[Dir].start = s.vn[Dir].start, t.vn[Dir].size = s.vn[Dir].size
    PROVE  /\ \A i : Slot(t, i) = Slot(s, i)
           /\ DirSize(t) = DirSize(s)
           /\ FirstUnused(t) = FirstUnused(s) /\ Entered(t) = Entered(s)
           /\ \A n : SlotsOf(t, n) = SlotsOf(s, n)
           /\ \A c, z : Units(t, c, z) = Units(s, c, z)
           /\ EntriesApart(s) => EntriesApart(t)
<1>1. \A c, i : UnitAt(t, c, i) = UnitAt(s, c, i)
  BY DEF UnitAt
<1>2. \A i : Slot(t, i) = Slot(s, i)
  BY <1>1 DEF Slot
<1>3. FirstUnused(t) = FirstUnused(s)
  BY <1>2 DEF FirstUnused
<1>4. Entered(t) = Entered(s)
  BY <1>2, <1>3 DEF Entered
<1>5. \A n : SlotsOf(t, n) = SlotsOf(s, n)
  BY <1>2, <1>3 DEF SlotsOf
<1>6. \A c, z : Units(t, c, z) = Units(s, c, z)
  BY <1>1 DEF Units
<1>7. ASSUME EntriesApart(s) PROVE EntriesApart(t)
  BY <1>2, <1>4, <1>7 DEF EntriesApart
<1>8. QED
  BY <1>2, <1>3, <1>4, <1>5, <1>6, <1>7 DEF DirSize

(* Files that are open stay open and get no shorter.                       *)
Serves(s, t) ==
    \A f \in Files : s.vn[f].open => t.vn[f].open /\ t.vn[f].size >= s.vn[f].size

(* A cursor moves.                                                         *)
LEMMA CursorSound ==
    ASSUME NEW s, NEW t, Sound(s), NEW v \in Nodes, OnlyCursor(s, t, v), Settled(t, v)
    PROVE  /\ Sound(t) /\ Serves(s, t)
           /\ \A i : Slot(t, i) = Slot(s, i)
           /\ DirSize(t) = DirSize(s) /\ FirstUnused(t) = FirstUnused(s)
           /\ \A n : SlotsOf(t, n) = SlotsOf(s, n)
           /\ \A f \in Files : ContentOf(t, f) = ContentOf(s, f)
<1>1. IsState(s) /\ IsState(t) /\ t.fat = s.fat /\ t.data = s.data
  BY DEF Sound, OnlyCursor
<1>2. \A w \in Nodes : SameFile(t.vn[w], s.vn[w])
  BY DEF OnlyCursor, SameFile
<1>3. t.vn[Dir].start = s.vn[Dir].start /\ t.vn[Dir].size = s.vn[Dir].size
  BY <1>2, FilesAreNodes DEF SameFile
<1>4. /\ \A i : Slot(t, i) = Slot(s, i)
      /\ DirSize(t) = DirSize(s)
      /\ FirstUnused(t) = FirstUnused(s) /\ Entered(t) = Entered(s)
      /\ \A n : SlotsOf(t, n) = SlotsOf(s, n)
      /\ \A c, z : Units(t, c, z) = Units(s, c, z)
      /\ EntriesApart(s) => EntriesApart(t)
  BY <1>1, <1>3, SameDisk
<1>5. ASSUME NEW w \in Nodes, Settled(s, w) PROVE Settled(t, w)
  <2>1. CASE w = v
    BY <2>1
  <2>2. CASE w # v
    <3>1. t.vn[w] = s.vn[w]
      BY <2>2 DEF OnlyCursor
    <3>2. QED
      BY <1>1, <1>5, <3>1 DEF Settled
  <2>3. QED
    BY <2>1, <2>2
<1>6. DirRight(t)
  BY <1>2, <1>5, FilesAreNodes DEF Sound, DirRight, SameFile
<1>7. ASSUME NEW f \in Files, t.vn[f].open PROVE OpenRight(t, f)
  <2>1. SameFile(t.vn[f], s.vn[f]) /\ f \in Nodes
    BY <1>2, FilesAreNodes
  <2>2. OpenRight(s, f)
    BY <1>7, <2>1 DEF Sound, SameFile
  <2>3. Settled(t, f)
    BY <1>5, <2>1, <2>2 DEF OpenRight
  <2>4. QED
    BY <1>4, <2>1, <2>2, <2>3 DEF OpenRight, SameFile
<1>12. ClosedTight(t)
  <2>1. ASSUME NEW f \in Files, ~ t.vn[f].open, SlotsOf(t, f) # {}
        PROVE  TightSlot(t, Least(SlotsOf(t, f)))
    <3>1. ~ s.vn[f].open /\ SlotsOf(s, f) # {} /\ SlotsOf(t, f) = SlotsOf(s, f)
      BY <1>2, <1>4, <2>1, FilesAreNodes DEF SameFile
    <3>2. QED
      BY <1>1, <1>4, <3>1, TightKept
  <2>2. QED
    BY <2>1 DEF ClosedTight
<1>8. Sound(t)
  BY <1>1, <1>4, <1>6, <1>7, <1>12 DEF Sound
<1>9. ASSUME NEW f \in Files PROVE ContentOf(t, f) = ContentOf(s, f)
  <2>1. SameFile(t.vn[f], s.vn[f])
    BY <1>2, FilesAreNodes
  <2>2. QED
    BY <1>4, <2>1 DEF ContentOf, SameFile
<1>10. Serves(s, t)
  <2>1. ASSUME NEW f \in Files, s.vn[f].open PROVE t.vn[f].open /\ t.vn[f].size >= s.vn[f].size
    <3>1. SameFile(t.vn[f], s.vn[f]) /\ s.vn[f].size \in Nat
      BY <1>1, <1>2, FilesAreNodes, NodeFields
    <3>2. QED
      BY <2>1, <3>1 DEF SameFile
  <2>2. QED
    BY <2>1 DEF Serves
<1>11. QED
  BY <1>4, <1>8, <1>9, <1>10

------------------------------------------------------------------------------
(* Reading the directory.                                                   *)

(* The cursor of the directory went on by one, or stands at the end.       *)
LEMMA SlotReadSettled ==
    ASSUME NEW s, DirRight(s), NEW t, t = SlotRead(s)
    PROVE  /\ DirRight(t) /\ OnlyCursor(s, t, Dir)
           /\ t.vn[Dir].pos = IF s.vn[Dir].pos < DirSize(s) THEN s.vn[Dir].pos + 1
                              ELSE s.vn[Dir].pos
<1>1. Settled(s, Dir) /\ IsState(s) /\ Dir \in Nodes /\ s.vn[Dir].avail = 0 /\ s.vn[Dir].open
  BY DEF DirRight, Settled
<1>2. PICK p \in Nat : p = s.vn[Dir].pos
  BY <1>1, NodeFields
<1>3. PICK z \in Nat : z = s.vn[Dir].size
  BY <1>1, NodeFields
<1>4. z = s.vn[Dir].total * ClusterUnits
  <2>1. z + 0 = s.vn[Dir].total * ClusterUnits
    BY <1>1, <1>3 DEF Settled
  <2>2. QED
    BY <2>1
<1>5. CASE p >= z
  <2>1. t = s
    BY <1>2, <1>3, <1>5 DEF SlotRead
  <2>2. OnlyCursor(s, s, Dir)
    BY <1>1, OnlyCursorNone
  <2>3. ~ p < z
    BY <1>5
  <2>4. QED
    BY <1>2, <1>3, <2>1, <2>2, <2>3 DEF DirSize
<1>6. CASE p < z
  <2>1. CanGeneralize(s, Dir)
    BY <1>1, <1>2, <1>4, <1>6, InsideGeneralizes
  <2>2. PICK g : g = Generalized(s, Dir)
    OBVIOUS
  <2>3. /\ Settled(g, Dir) /\ OnlyCursor(s, g, Dir) /\ g.vn[Dir].pos = p
        /\ g.vn[Dir].off < ClusterUnits
    BY <1>1, <1>2, <2>1, <2>2, GeneralizedSettled
  <2>4. PICK u : u = g.vn[Dir]
    OBVIOUS
  <2>5. /\ u.size = z /\ u.total = s.vn[Dir].total /\ u.start \in 0..LastChain
        /\ u.cur \in 0..LastChain /\ u.off \in Nat /\ u.pos = p /\ u.off < ClusterUnits
        /\ CursorAt(g.fat, u, u.cur, u.off, u.pos)
    BY <1>3, <2>3, <2>4, NodeFields DEF OnlyCursor, SameFile, Settled
  <2>6. u.cur # LastChain
    BY <1>4, <1>6, <2>3, <2>4, <2>5, InsideGeneralizes
  <2>7. PICK k \in 0..(u.total - 1) : /\ u.cur = After(g.fat, u.start, k)
                                      /\ u.pos = k * ClusterUnits + u.off
    BY <2>5, <2>6 DEF CursorAt
  <2>8. PICK o \in Nat : o = u.off + 1
    BY <2>5
  <2>9. PICK q \in Nat : q = p + 1
    OBVIOUS
  <2>10. CursorAt(g.fat, u, u.cur, o, q) /\ q <= u.size
    <3>1. PICK x \in Nat : x = k * ClusterUnits
      BY <1>1, NodeFields, <2>5, DiskAssumption
    <3>2. q = x + o /\ o \in 0..ClusterUnits
      <4>1. p = x + u.off /\ u.off \in Nat /\ u.off < ClusterUnits /\ ClusterUnits \in Nat
        BY <2>5, <2>7, <3>1, DiskAssumption
      <4>2. QED
        BY ONLY <2>8, <2>9, <4>1, x \in Nat, p \in Nat
    <3>3. q <= u.size
      BY <1>6, <2>5, <2>9
    <3>4. q = k * ClusterUnits + o
      BY <3>1, <3>2
    <3>5. QED
      BY <2>6, <2>7, <3>2, <3>3, <3>4 DEF CursorAt
  <2>11. PICK cur \in 0..LastChain : cur = u.cur
    BY <2>5
  <2>12. t = Moved(g, Dir, cur, o, q)
    BY <1>2, <1>3, <1>6, <2>1, <2>2, <2>4, <2>5, <2>8, <2>9, <2>11 DEF SlotRead
  <2>13. Settled(t, Dir) /\ OnlyCursor(g, t, Dir) /\ t.vn[Dir].pos = q
    BY <2>3, <2>4, <2>10, <2>11, <2>12, MovedSettled
  <2>14. OnlyCursor(s, t, Dir)
    BY <2>3, <2>13, OnlyCursorTwice
  <2>15. DirRight(t)
    BY <1>1, <2>13, <2>14 DEF DirRight, OnlyCursor, SameFile
  <2>16. QED
    BY <1>2, <1>3, <1>6, <2>9, <2>13, <2>14, <2>15 DEF DirSize
<1>7. QED
  BY <1>5, <1>6

(* After i slots.                                                          *)
DirReading(s, i, r) ==
    /\ r \in States /\ DirRight(r) /\ OnlyCursor(s, r, Dir)
    /\ r.vn[Dir].pos = IF i < DirSize(s) THEN i ELSE DirSize(s)

(* The slots a search reads.                                               *)
ReadTurns(k, x, g) == g = [i \in 0..k |-> IF i = 0 THEN x ELSE SlotRead(g[i - 1])]

(* A slot more is read.                                                    *)
LEMMA SlotReadKeeps ==
    ASSUME NEW s, DirRight(s), NEW i \in Nat, NEW r, DirReading(s, i, r)
    PROVE  DirReading(s, i + 1, SlotRead(r))
<1>1. PICK t : t = SlotRead(r)
  OBVIOUS
<1>2. PICK z \in Nat : z = DirSize(s)
  BY DirFacts
<1>3. DirSize(r) = z /\ DirRight(r)
  BY <1>2 DEF DirReading, OnlyCursor, SameFile, DirSize
<1>4. /\ DirRight(t) /\ OnlyCursor(r, t, Dir)
      /\ t.vn[Dir].pos = IF r.vn[Dir].pos < z THEN r.vn[Dir].pos + 1 ELSE r.vn[Dir].pos
  BY <1>1, <1>3, SlotReadSettled
<1>5. OnlyCursor(s, t, Dir)
  BY <1>4, OnlyCursorTwice DEF DirReading
<1>6. r.vn[Dir].pos = IF i < z THEN i ELSE z
  BY <1>2 DEF DirReading
<1>7. t.vn[Dir].pos = IF i + 1 < z THEN i + 1 ELSE z
  BY <1>4, <1>6
<1>8. t \in States
  BY <1>4 DEF DirRight, Settled, IsState
<1>9. QED
  BY <1>1, <1>2, <1>4, <1>5, <1>7, <1>8 DEF DirReading

(* All slots are read.                                                     *)
LEMMA ReadTurnsKeep ==
    ASSUME NEW s, DirRight(s), NEW k \in Nat, NEW x, DirReading(s, 0, x)
    PROVE  /\ \E g : ReadTurns(k, x, g)
           /\ \A g : ReadTurns(k, x, g) => DirReading(s, k, g[k])
<1> DEFINE F == [r \in States |-> SlotRead(r)]
           P == [i \in 0..k |-> {r \in States : DirReading(s, i, r)}]
<1>1. \A i \in 0..k : \A r : r \in P[i] <=> DirReading(s, i, r)
  BY DEF DirReading
<1>2. \E g : ReadTurns(k, x, g)
  <2>1. PICK g : Loop(F, x, k, g)
    BY LoopRuns
  <2>2. x \in P[0]
    BY <1>1
  <2>3. ASSUME NEW i \in 0..(k - 1), NEW r \in P[i] PROVE F[r] \in P[i + 1]
    <3>1. i \in Nat /\ i \in 0..k /\ i + 1 \in 0..k
      OBVIOUS
    <3>2. DirReading(s, i, r)
      BY <1>1, <2>3, <3>1
    <3>3. F[r] = SlotRead(r)
      BY <3>2 DEF DirReading
    <3> HIDE DEF F, P
    <3>4. DirReading(s, i + 1, SlotRead(r))
      BY <3>1, <3>2, SlotReadKeeps
    <3>5. QED
      BY <1>1, <3>1, <3>3, <3>4
  <2>4. \A i \in 0..k : g[i] \in P[i]
    <3> HIDE DEF F, P
    <3>1. QED
      BY <2>1, <2>2, <2>3, LoopKeeps
  <2>5. \A i \in 1..k : F[g[i - 1]] = SlotRead(g[i - 1])
    <3>1. SUFFICES ASSUME NEW i \in 1..k PROVE F[g[i - 1]] = SlotRead(g[i - 1])
      OBVIOUS
    <3>2. i - 1 \in 0..k
      OBVIOUS
    <3>3. g[i - 1] \in States
      BY <2>4, <3>2
    <3>4. QED
      BY <3>3
  <2>6. g = [i \in 0..k |-> IF i = 0 THEN x ELSE F[g[i - 1]]]
    BY <2>1 DEF Loop
  <2> HIDE DEF F
  <2>7. [i \in 0..k |-> IF i = 0 THEN x ELSE F[g[i - 1]]]
          = [i \in 0..k |-> IF i = 0 THEN x ELSE SlotRead(g[i - 1])]
    BY <2>5
  <2>8. QED
    BY <2>6, <2>7 DEF ReadTurns
<1>3. ASSUME NEW g, ReadTurns(k, x, g) PROVE DirReading(s, k, g[k])
  <2> HIDE DEF F, P
  <2> DEFINE Q == {i \in 0..k : DirReading(s, i, g[i])}
  <2>1. \A i \in 0..k : g[i] = IF i = 0 THEN x ELSE SlotRead(g[i - 1])
    BY <1>3 DEF ReadTurns
  <2>2. 0 \in Q
    BY <2>1
  <2>3. ASSUME NEW i \in 0..(k - 1), i \in Q PROVE i + 1 \in Q
    <3>1. i + 1 \in 0..k /\ (i + 1) - 1 = i /\ i + 1 # 0 /\ i \in Nat
      OBVIOUS
    <3>2. g[i + 1] = SlotRead(g[i])
      BY <2>1, <3>1
    <3>3. DirReading(s, i + 1, SlotRead(g[i]))
      BY <2>3, <3>1, SlotReadKeeps
    <3>4. QED
      BY <3>1, <3>2, <3>3
  <2> HIDE DEF Q
  <2>4. 0..k \subseteq Q
    BY <2>2, <2>3, LoopInduction
  <2>5. k \in Q
    BY <2>4
  <2>6. QED
    BY <2>5 DEF Q
<1>4. QED
  BY <1>2, <1>3

(* Reading the first k slots moves the directory's cursor and nothing      *)
(* else.                                                                   *)
LEMMA SlotsReadSettled ==
    ASSUME NEW s, DirRight(s), NEW k \in Nat, NEW t, t = SlotsRead(s, k)
    PROVE  DirReading(s, k, t)
<1>1. PICK x : x = Lseek(s, Dir, 0).s
  OBVIOUS
<1>2. PICK z \in Nat : z = DirSize(s)
  BY DirFacts
<1>3. DirReading(s, 0, x)
  <2>1. PICK r : r = Lseek(s, Dir, 0)
    OBVIOUS
  <2>2. Settled(s, Dir) /\ 0 \in Int /\ 0 \in 0..s.vn[Dir].size
    BY <1>2 DEF DirRight, DirSize
  <2>3. r.n = 0 /\ Settled(r.s, Dir) /\ OnlyCursor(s, r.s, Dir) /\ r.s.vn[Dir].pos = r.n
    BY <2>1, <2>2, LseekSettled DEF SoughtTo
  <2>4. x = r.s
    BY <1>1, <2>1
  <2>5. DirRight(x) /\ x \in States
    BY <2>3, <2>4 DEF DirRight, OnlyCursor, SameFile, IsState
  <2>6. 0 = IF 0 < z THEN 0 ELSE z
    OBVIOUS
  <2>7. QED
    BY <1>2, <2>3, <2>4, <2>5, <2>6 DEF DirReading
<1>4. (\E g : ReadTurns(k, x, g)) /\ \A g : ReadTurns(k, x, g) => DirReading(s, k, g[k])
  BY <1>3, ReadTurnsKeep
<1> DEFINE G == CHOOSE g : ReadTurns(k, x, g)
<1>5. t = G[k]
  BY <1>1 DEF SlotsRead, ReadTurns
<1>6. ReadTurns(k, x, G)
  BY <1>4
<1> HIDE DEF G
<1>7. QED
  BY <1>4, <1>5, <1>6

(* fat32_fssd_find_dirent moves the directory's cursor.                    *)
LEMMA EntryFoundSettled ==
    ASSUME NEW s, DirRight(s), NEW n, NEW t, t = EntryFound(s, n)
    PROVE  OnlyCursor(s, t, Dir) /\ DirRight(t)
<1>1. DirSize(s) \in Nat
  BY DirFacts
<1>2. PICK k \in Nat :
        k = IF SlotsOf(s, n) # {} THEN Least(SlotsOf(s, n)) + 1 ELSE FirstUnused(s) + 1
  <2>1. FirstUnused(s) + 1 \in Nat
    BY <1>1, SlotsFound
  <2>2. SlotsOf(s, n) # {} => Least(SlotsOf(s, n)) + 1 \in Nat
    BY <1>1, NamedSlot
  <2>3. QED
    BY <2>1, <2>2
<1>3. t = SlotsRead(s, k)
  BY <1>2 DEF EntryFound
<1>4. DirReading(s, k, t)
  BY <1>3, SlotsReadSettled
<1>5. QED
  BY <1>4 DEF DirReading

------------------------------------------------------------------------------
(* Opening a file.                                                          *)

(* fat32_calc_filesize of a file that is open finds what is known.         *)
LEMMA CalculatedAgain ==
    ASSUME NEW s, NEW f, Settled(s, f), NEW t, t = Calculated(s, f)
    PROVE  OnlyCursor(s, t, f) /\ Settled(t, f)
<1>1. PICK u : u = s.vn[f]
  OBVIOUS
<1>2. /\ IsState(s) /\ f \in Nodes /\ u.last \in 0..LastChain /\ u.total \in Nat
      /\ u.size \in Nat /\ u.avail \in Nat
      /\ u.last = After(s.fat, u.start, u.total - 1) /\ u.size + u.avail = u.total * ClusterUnits
      /\ u.avail <= ClusterUnits
      /\ IsChain(s.fat, u.start, u.total) /\ u.pos <= u.size
      /\ CursorAt(s.fat, u, u.cur, u.off, u.pos)
  BY <1>1, NodeFields DEF Settled
<1>3. ChainLength(s.fat, u.start) = u.total
  BY <1>1, OwnIsChain
<1>4. PICK m \in Nat : m = u.total * ClusterUnits
  BY <1>2, DiskAssumption
<1>5. m - u.size = u.avail
  BY <1>2, <1>4
<1>6. PICK l \in 0..LastChain : l = u.last
  BY <1>2
<1>7. PICK n \in Nat : n = u.total
  BY <1>2
<1>8. PICK z \in Nat : z = u.size
  BY <1>2
<1>9. PICK a \in Nat : a = u.avail
  BY <1>2
<1>10. t = Sized(s, f, l, n, z, a)
  BY <1>1, <1>2, <1>3, <1>4, <1>5, <1>6, <1>7, <1>8, <1>9 DEF Calculated
<1>11. SizedTo(s, t, f, l, n, z, a)
  BY <1>2, <1>10, SizedChanges
<1>12. OnlyCursor(s, t, f)
  BY <1>1, <1>6, <1>7, <1>8, <1>9, <1>11 DEF SizedTo, OnlyCursor, SameFile
<1>13. Settled(t, f)
  BY <1>1, <1>2, <1>6, <1>7, <1>8, <1>9, <1>11 DEF SizedTo, Settled, CursorAt
<1>14. QED
  BY <1>12, <1>13

(* The vnode of a file that is opened.                                     *)
LEMMA NewVNodeMade ==
    ASSUME NEW s, Sound(s), NEW f \in Files, SlotsOf(s, f) # {},
           NEW e, e = Least(SlotsOf(s, f)), NEW y, y = NewVNode(s, f)
    PROVE  /\ IsState(y) /\ y.fat = s.fat /\ y.data = s.data
           /\ \E x : /\ OnlyCursor(s, x, Dir) /\ DirRight(x)
                     /\ \A w \in Nodes : w # f => y.vn[w] = x.vn[w]
           /\ y.vn[f].open /\ y.vn[f].start = Slot(s, e)[3] /\ y.vn[f].cur = Slot(s, e)[3]
           /\ y.vn[f].size = Slot(s, e)[4] /\ y.vn[f].slot = e
           /\ y.vn[f].off = 0 /\ y.vn[f].pos = 0
<1>1. IsState(s) /\ DirRight(s) /\ EntriesApart(s) /\ DirSize(s) \in Nat
  BY DirFacts DEF Sound
<1>2. PICK x : x = EntryFound(s, f)
  OBVIOUS
<1>3. OnlyCursor(s, x, Dir) /\ DirRight(x)
  BY <1>1, <1>2, EntryFoundSettled
<1>4. PICK c : c = Slot(s, e)[3]
  OBVIOUS
<1>5. PICK z : z = Slot(s, e)[4]
  OBVIOUS
<1>6. e \in Nat /\ e \in Entered(s)
  BY <1>1, NamedSlot
<1>7. c \in 0..LastChain /\ z \in Nat
  <2>1. EndsWell(s.fat, c) /\ z \in 0..(ChainLength(s.fat, c) * ClusterUnits)
    BY <1>1, <1>4, <1>5, <1>6, EntryFacts
  <2>2. c \in 0..LastChain
    BY <1>1, <2>1, StateParts, ChainFacts
  <2>3. QED
    BY <2>1, <2>2
<1>8. PICK n : n = [Closed EXCEPT !.open = TRUE, !.start = c, !.cur = c, !.size = z, !.slot = e]
  OBVIOUS
<1>9. /\ n \in VNode /\ n.open /\ n.start = c /\ n.cur = c /\ n.size = z /\ n.slot = e
      /\ n.off = 0 /\ n.pos = 0
  <2>1. 0 \in 0..LastChain
    BY DiskAssumption DEF LastChain
  <2>2. QED
    BY <1>6, <1>7, <1>8, <2>1 DEF Closed, VNode
<1>10. y = WithNode(x, f, n)
  BY <1>2, <1>4, <1>5, <1>8 DEF NewVNode, WithNode
<1>11. IsState(x) /\ x.fat = s.fat /\ x.data = s.data /\ f \in Nodes
  BY <1>3, FilesAreNodes DEF OnlyCursor
<1>12. /\ IsState(y) /\ y.fat = x.fat /\ y.data = x.data /\ y.vn[f] = n
       /\ \A w \in Nodes : w # f => y.vn[w] = x.vn[w]
  <2>1. n \in VNode
    BY <1>9
  <2>2. QED
    BY ONLY <1>10, <1>11, <2>1, NodeChanged
<1>13. QED
  BY <1>3, <1>4, <1>5, <1>9, <1>11, <1>12

(* fat32_vnode_open and fat32_calc_filesize.                               *)
LEMMA NewVNodeSettled ==
    ASSUME NEW s, Sound(s), NEW f \in Files, SlotsOf(s, f) # {}, ~ s.vn[f].open,
           NEW e, e = Least(SlotsOf(s, f)), NEW t, t = Calculated(NewVNode(s, f), f)
    PROVE  /\ Settled(t, f) /\ t.fat = s.fat /\ t.data = s.data
           /\ t.vn[f].open /\ t.vn[f].slot = e
           /\ t.vn[f].start = Slot(s, e)[3] /\ t.vn[f].size = Slot(s, e)[4]
           /\ \E x : /\ OnlyCursor(s, x, Dir) /\ DirRight(x)
                     /\ \A w \in Nodes : w # f => t.vn[w] = x.vn[w]
<1>1. IsState(s) /\ EntriesApart(s) /\ DirSize(s) \in Nat /\ FatOK(s.fat) /\ f \in Nodes
  BY DirFacts, StateParts, FilesAreNodes DEF Sound
<1>2. PICK y : y = NewVNode(s, f)
  OBVIOUS
<1>3. PICK c : c = Slot(s, e)[3]
  OBVIOUS
<1>4. PICK z : z = Slot(s, e)[4]
  OBVIOUS
<1>5. /\ IsState(y) /\ y.fat = s.fat /\ y.data = s.data
      /\ y.vn[f].open /\ y.vn[f].start = c /\ y.vn[f].cur = c
      /\ y.vn[f].size = z /\ y.vn[f].slot = e
      /\ y.vn[f].off = 0 /\ y.vn[f].pos = 0
  BY <1>2, <1>3, <1>4, NewVNodeMade
<1>6. \E x : /\ OnlyCursor(s, x, Dir) /\ DirRight(x)
             /\ \A w \in Nodes : w # f => y.vn[w] = x.vn[w]
  BY <1>2, NewVNodeMade
<1>7. EndsWell(s.fat, c) /\ z \in 0..(ChainLength(s.fat, c) * ClusterUnits)
  BY <1>1, <1>3, <1>4, NamedSlot, EntryFacts
<1>8. PICK n : n = ChainLength(s.fat, c)
  OBVIOUS
<1>9. c \in 0..LastChain /\ n \in Nat /\ n >= 1 /\ IsChain(s.fat, c, n)
  BY <1>1, <1>7, <1>8, ChainFacts
<1>10. PICK m \in Nat : m = n * ClusterUnits
  BY <1>9, DiskAssumption
<1>11. z \in Nat /\ z <= m /\ m - z \in Nat
  <2>1. z \in 0..m
    BY <1>7, <1>8, <1>10
  <2>2. QED
    BY <2>1
<1>12. PICK a \in Nat : a = m - z
  BY <1>11
<1>13. PICK l \in 0..LastChain : l = After(s.fat, c, n - 1)
  <2>1. n - 1 \in Nat
    BY <1>9
  <2>2. QED
    BY <1>1, <1>9, <2>1, AfterSteps
<1>14. t = Sized(y, f, l, n, z, a)
  BY <1>2, <1>5, <1>8, <1>10, <1>12, <1>13 DEF Calculated
<1>15. SizedTo(y, t, f, l, n, z, a)
  BY <1>1, <1>5, <1>9, <1>11, <1>14, SizedChanges
<1>16. CursorAt(t.fat, t.vn[f], t.vn[f].cur, t.vn[f].off, t.vn[f].pos)
  <2>1. /\ t.vn[f].cur = c /\ t.vn[f].off = 0 /\ t.vn[f].pos = 0 /\ t.vn[f].start = c
        /\ t.vn[f].total = n /\ t.fat = s.fat
    BY <1>5, <1>15 DEF SizedTo
  <2>2. c = After(s.fat, c, 0)
    BY <1>1, <1>9, AfterSteps
  <2>3. 0 \in 0..(n - 1) /\ 0 \in 0..ClusterUnits /\ 0 = 0 * ClusterUnits + 0
    BY <1>9, DiskAssumption
  <2>4. c # LastChain
    BY <1>9, <2>2, <2>3, DiskAssumption DEF IsChain, LastChain
  <2>5. QED
    BY <2>1, <2>2, <2>3, <2>4 DEF CursorAt
<1>17. z + a = m /\ 0 <= z /\ a <= ClusterUnits
  <2>1. TightSlot(s, e)
    BY DEF Sound, ClosedTight
  <2>2. z + ClusterUnits >= m
    <3>1. z + ClusterUnits >= ClusterUnits * n
      BY <1>3, <1>4, <1>8, <2>1 DEF TightSlot
    <3>2. ClusterUnits * n = m
      BY <1>9, <1>10, DiskAssumption
    <3>3. QED
      BY <3>1, <3>2
  <2>3. QED
    BY <1>11, <1>12, <2>2, DiskAssumption
<1>18. Settled(t, f)
  BY <1>1, <1>5, <1>9, <1>10, <1>13, <1>15, <1>16, <1>17 DEF SizedTo, Settled
<1>19. QED
  BY <1>3, <1>4, <1>5, <1>6, <1>15, <1>18 DEF SizedTo

(* Opening changes no file.                                                *)
LEMMA OpenedSound ==
    ASSUME NEW s, Sound(s), NEW f \in Files, SlotsOf(s, f) # {},
           NEW t, t = Calculated(IF s.vn[f].open THEN s ELSE NewVNode(s, f), f)
    PROVE  /\ Sound(t) /\ Serves(s, t) /\ t.vn[f].open
           /\ \A g \in Files : ContentOf(t, g) = ContentOf(s, g)
<1>1. CASE s.vn[f].open
  <2>1. t = Calculated(s, f) /\ Settled(s, f) /\ f \in Nodes
    BY <1>1, FilesAreNodes DEF Sound, OpenRight
  <2>2. OnlyCursor(s, t, f) /\ Settled(t, f)
    BY <2>1, CalculatedAgain
  <2>3. Sound(t) /\ Serves(s, t) /\ \A g \in Files : ContentOf(t, g) = ContentOf(s, g)
    BY <2>1, <2>2, CursorSound
  <2>4. QED
    BY <1>1, <2>3 DEF Serves
<1>2. CASE ~ s.vn[f].open
  <2>1. PICK e : e = Least(SlotsOf(s, f))
    OBVIOUS
  <2>2. t = Calculated(NewVNode(s, f), f)
    BY <1>2
  <2>3. /\ Settled(t, f) /\ t.fat = s.fat /\ t.data = s.data
        /\ t.vn[f].open /\ t.vn[f].slot = e
        /\ t.vn[f].start = Slot(s, e)[3] /\ t.vn[f].size = Slot(s, e)[4]
    BY <1>2, <2>1, <2>2, NewVNodeSettled
  <2>4. PICK x : /\ OnlyCursor(s, x, Dir) /\ DirRight(x)
                 /\ \A w \in Nodes : w # f => t.vn[w] = x.vn[w]
    BY <1>2, <2>2, NewVNodeSettled
  <2>5. Dir \in Nodes /\ f \in Nodes /\ Dir # f /\ Settled(x, Dir) /\ IsState(t)
    BY <2>3, <2>4, FilesAreNodes DEF DirRight, Settled
  <2>6. Sound(x) /\ Serves(s, x) /\ x.fat = s.fat /\ x.data = s.data
    BY <2>4, <2>5, CursorSound DEF OnlyCursor
  <2>7. /\ t.vn[Dir] = x.vn[Dir] /\ t.vn[Dir].start = s.vn[Dir].start
        /\ t.vn[Dir].size = s.vn[Dir].size
    BY <2>4, <2>5 DEF OnlyCursor, SameFile
  <2>8. /\ \A i : Slot(t, i) = Slot(s, i)
        /\ \A n : SlotsOf(t, n) = SlotsOf(s, n)
        /\ \A c, z : Units(t, c, z) = Units(s, c, z)
        /\ EntriesApart(t)
    BY <2>3, <2>7, SameDisk DEF Sound
  <2>9. ASSUME NEW g \in Files, g # f PROVE t.vn[g] = s.vn[g] /\ g \in Nodes
    BY <2>4, <2>9, FilesAreNodes DEF OnlyCursor
  <2>10. DirRight(t)
    BY <2>3, <2>4, <2>5, <2>6, <2>7 DEF DirRight, Settled
  <2>11. ASSUME NEW g \in Files, t.vn[g].open PROVE OpenRight(t, g)
    <3>1. CASE g = f
      BY <2>1, <2>3, <2>8, <3>1 DEF OpenRight
    <3>2. CASE g # f
      <4>1. OpenRight(s, g) /\ t.vn[g] = s.vn[g] /\ g \in Nodes
        BY <2>9, <2>11, <3>2 DEF Sound
      <4>2. Settled(t, g)
        BY <2>3, <2>5, <4>1 DEF OpenRight, Settled
      <4>3. QED
        BY <2>8, <4>1, <4>2 DEF OpenRight
    <3>3. QED
      BY <3>1, <3>2
  <2>16. ClosedTight(t)
    <3>1. ASSUME NEW g \in Files, ~ t.vn[g].open, SlotsOf(t, g) # {}
          PROVE  TightSlot(t, Least(SlotsOf(t, g)))
      <4>1. g # f
        BY <2>3, <3>1
      <4>2. ~ s.vn[g].open /\ SlotsOf(s, g) # {} /\ SlotsOf(t, g) = SlotsOf(s, g)
        BY <2>8, <2>9, <3>1, <4>1
      <4>3. QED
        BY <2>3, <2>8, <4>2, TightKept
    <3>2. QED
      BY <3>1 DEF ClosedTight
  <2>12. Sound(t)
    BY <2>5, <2>8, <2>10, <2>11, <2>16 DEF Sound
  <2>13. ASSUME NEW g \in Files PROVE ContentOf(t, g) = ContentOf(s, g)
    <3>1. CASE g = f
      BY <1>2, <2>1, <2>3, <2>8, <3>1 DEF ContentOf
    <3>2. CASE g # f
      BY <2>8, <2>9, <3>2 DEF ContentOf
    <3>3. QED
      BY <3>1, <3>2
  <2>14. Serves(s, t)
    <3>1. ASSUME NEW g \in Files, s.vn[g].open PROVE t.vn[g].open /\ t.vn[g].size >= s.vn[g].size
      <4>1. g # f
        BY <1>2, <3>1
      <4>2. t.vn[g] = s.vn[g] /\ s.vn[g].size \in Nat
        BY <2>9, <4>1, NodeFields DEF Sound
      <4>3. QED
        BY <3>1, <4>2
    <3>2. QED
      BY <3>1 DEF Serves
  <2>15. QED
    BY <2>3, <2>12, <2>13, <2>14
<1>3. QED
  BY <1>1, <1>2

------------------------------------------------------------------------------
(* Writing to the directory.                                                *)

(* t is s but for the cursor of the directory and what its clusters hold;  *)
(* of the other vnodes nothing is said.                                    *)
DirStep(s, t) ==
    /\ IsState(t) /\ DirRight(t) /\ t.fat = s.fat
    /\ t.vn[Dir].start = s.vn[Dir].start /\ DirSize(t) = DirSize(s)
    /\ Own(t, Dir) = Own(s, Dir)
    /\ \A x \in FatIndex : x \notin Own(s, Dir) => t.data[x] = s.data[x]

OthersStay(s, t) == \A w \in Nodes : w # Dir => t.vn[w] = s.vn[w]

(* The n slots from p on are those of buf, the others are as they were.    *)
SlotsPut(s, t, p, n, buf) ==
    \A i \in 0..(DirSize(s) - 1) :
        /\ i \in p..(p + n - 1) => Slot(t, i) = buf[(i - p) + 1]
        /\ i \notin p..(p + n - 1) => Slot(t, i) = Slot(s, i)

(* Two such steps in a row.                                                *)
LEMMA DirStepTwice ==
    ASSUME NEW s, NEW t, NEW u, DirStep(s, t), DirStep(t, u), OthersStay(s, t), OthersStay(t, u)
    PROVE  DirStep(s, u) /\ OthersStay(s, u)
BY DEF DirStep, OthersStay

(* A move of the directory's cursor is such a step.                        *)
LEMMA CursorDirStep ==
    ASSUME NEW s, NEW t, OnlyCursor(s, t, Dir), DirRight(t)
    PROVE  /\ DirStep(s, t) /\ OthersStay(s, t)
           /\ \A i : Slot(t, i) = Slot(s, i)
<1>1. /\ IsState(t) /\ t.fat = s.fat /\ t.data = s.data /\ SameFile(t.vn[Dir], s.vn[Dir])
      /\ \A w \in Nodes : w # Dir => t.vn[w] = s.vn[w]
  BY DEF OnlyCursor
<1>2. Own(t, Dir) = Own(s, Dir) /\ DirSize(t) = DirSize(s) /\ t.vn[Dir].start = s.vn[Dir].start
  BY <1>1 DEF SameFile, Own, DirSize
<1>3. \A i : Slot(t, i) = Slot(s, i)
  BY <1>1, <1>2 DEF Slot, UnitAt
<1>4. QED
  BY <1>1, <1>2, <1>3 DEF DirStep, OthersStay

(* n slots of buf are written from slot p on, and the cursor is after them. *)
DirPut(s, t, p, n, buf) ==
    /\ DirStep(s, t) /\ OthersStay(s, t)
    /\ n \in 1..Len(buf) /\ SlotsPut(s, t, p, n, buf)
    /\ t.vn[Dir].pos = p + n

(* The cursor of the directory is moved to a slot.                         *)
DirSoughtTo(s, r, l) ==
    /\ r.n = l /\ OnlyCursor(s, r.s, Dir) /\ DirRight(r.s) /\ r.s.vn[Dir].pos = l

(* fat32_vnode_lseek in the directory.                                     *)
LEMMA DirSought ==
    ASSUME NEW s, DirRight(s), NEW l \in 0..DirSize(s), NEW r, r = Lseek(s, Dir, l)
    PROVE  DirSoughtTo(s, r, l)
<1>1. Settled(s, Dir) /\ l \in Int
  BY DirFacts DEF DirRight
<1>2. SoughtTo(s, Dir, l, r)
  BY <1>1, LseekSettled
<1>3. r.n = l
  BY <1>2 DEF SoughtTo, DirSize
<1>4. DirRight(r.s)
  BY <1>2 DEF SoughtTo, DirRight, OnlyCursor, SameFile
<1>5. QED
  BY <1>2, <1>3, <1>4 DEF SoughtTo, DirSoughtTo

(* fat32_vnode_raw_write where the directory has slots.                    *)
LEMMA DirWritten ==
    ASSUME NEW s, DirRight(s), NEW p \in Nat, NEW buf, Len(buf) \in Nat,
           p + Len(buf) <= DirSize(s),
           NEW r, WrittenResult(s, r, Dir, p, buf), NEW t, t = r.s
    PROVE  DirPut(s, t, p, r.n, buf)
<1>1. r.n \in 1..Len(buf) /\ t.fat = s.fat /\ SameFile(t.vn[Dir], s.vn[Dir])
  BY DEF WrittenResult, DirSize
<1>2. PICK n \in Nat : n = r.n
  BY <1>1
<1>3. ~ n < 0
  OBVIOUS
<1>4. Put(s, t, Dir, p, n, buf) /\ t.vn[Dir].pos = p + n
  BY <1>2, <1>3 DEF WrittenResult
<1>5. /\ Settled(s, Dir) /\ IsState(s) /\ Dir \in Nodes /\ s.vn[Dir].avail = 0 /\ s.vn[Dir].open
      /\ Settled(t, Dir) /\ IsState(t)
      /\ \A w \in Nodes : w # Dir => t.vn[w] = s.vn[w]
  BY <1>4 DEF DirRight, Settled, Put, Grows
<1>6. Own(t, Dir) = Own(s, Dir)
  BY <1>1, <1>5, SameGrows
<1>7. DirRight(t) /\ t.vn[Dir].start = s.vn[Dir].start /\ DirSize(t) = DirSize(s)
  BY <1>1, <1>5 DEF DirRight, SameFile, DirSize
<1>8. DirStep(s, t) /\ OthersStay(s, t)
  BY <1>1, <1>4, <1>5, <1>6, <1>7 DEF DirStep, OthersStay, Put
<1>9. SlotsPut(s, t, p, n, buf)
  <2>1. PICK m \in Nat : m = DirSize(s)
    BY DirFacts
  <2>2. /\ s.vn[Dir].total * ClusterUnits = m /\ t.vn[Dir].total * ClusterUnits = m
    <3>1. ChainLength(s.fat, s.vn[Dir].start) = s.vn[Dir].total
      BY <1>5, OwnIsChain
    <3>2. s.vn[Dir].total * ClusterUnits = m
      BY <2>1, <3>1, DirFacts
    <3>3. QED
      BY <1>1, <3>2 DEF SameFile
  <2>3. ASSUME NEW i \in 0..(m - 1)
        PROVE  /\ i \in p..(p + n - 1) => Slot(t, i) = buf[(i - p) + 1]
               /\ i \notin p..(p + n - 1) => Slot(t, i) = Slot(s, i)
    <3>1. i < m /\ i \in 0..(m - 1)
      OBVIOUS
    <3>2. /\ i \in p..(p + n - 1) => UnitAt(t, t.vn[Dir].start, i) = buf[(i - p) + 1]
          /\ i \notin p..(p + n - 1) =>
                UnitAt(t, t.vn[Dir].start, i) = UnitAt(s, s.vn[Dir].start, i)
      BY <1>4, <2>2, <3>1 DEF Put
    <3>3. QED
      BY <3>2 DEF Slot
  <2>4. QED
    BY <2>1, <2>3 DEF SlotsPut
<1>10. QED
  BY <1>1, <1>2, <1>4, <1>8, <1>9 DEF DirPut

(* The chains of the entries are left alone.                               *)
LEMMA DirStepKeeps ==
    ASSUME NEW s, Sound(s), NEW t, DirStep(s, t), NEW i \in Entered(s),
           NEW c, c = Slot(s, i)[3]
    PROVE  EndsWell(s.fat, c) /\ Kept(s, t, c)
<1>1. IsState(s) /\ DirRight(s) /\ EntriesApart(s) /\ FatOK(s.fat) /\ IsState(t)
  BY StateParts DEF Sound, DirStep
<1>2. EndsWell(s.fat, c) /\ Chain(s.fat, c) \cap Chain(s.fat, s.vn[Dir].start) = {}
  BY <1>1, EntryFacts
<1>3. Own(s, Dir) = Chain(s.fat, s.vn[Dir].start)
  BY <1>1, DirFacts
<1>4. \A x \in Chain(s.fat, c) : x \in FatIndex /\ x \notin Own(s, Dir)
  <2>1. PICK n : n = ChainLength(s.fat, c)
    OBVIOUS
  <2>2. QED
    BY <1>1, <1>2, <1>3, <2>1, ChainFacts
<1>5. \A x \in Chain(s.fat, c) : t.fat[x] = s.fat[x] /\ t.data[x] = s.data[x]
  BY <1>4 DEF DirStep
<1>6. QED
  BY <1>1, <1>2, <1>5, KeptChain

(* So are the vnodes of other files.                                       *)
LEMMA DirStepSettled ==
    ASSUME NEW s, NEW t, DirStep(s, t), NEW g, Settled(s, g), t.vn[g] = s.vn[g]
    PROVE  Settled(t, g)
BY DEF Settled, DirStep

(* The fields of a short entry.                                            *)
LEMMA ShortFacts ==
    ASSUME NEW n, NEW c, NEW z, NEW e, e = ShortEnt(n, c, z)
    PROVE  Len(e) = 4 /\ e[2] = n /\ e[3] = c /\ e[4] = z /\ e # Zero /\ IsShortOf(e, n)
<1>1. Len(e) = 4 /\ e[2] = n /\ e[3] = c /\ e[4] = z
  BY DEF ShortEnt
<1>2. Len(Zero) = 0
  BY DEF Zero
<1>3. QED
  BY <1>1, <1>2 DEF IsShortOf

------------------------------------------------------------------------------
(* Closing a file.                                                          *)

(* fat32_vnode_close writes the entry with the size and frees the vnode.   *)
LEMMA ClosedMade ==
    ASSUME NEW s, Sound(s), NEW f \in Files, s.vn[f].open, NEW e, e = s.vn[f].slot,
           NEW b, b = ShortEnt(f, s.vn[f].start, s.vn[f].size), NEW t, t = VNodeClosed(s, f)
    PROVE  /\ DirStep(s, t) /\ t.vn[f] = Closed
           /\ \A w \in Nodes : w # Dir /\ w # f => t.vn[w] = s.vn[w]
           /\ \A i \in 0..(DirSize(s) - 1) : Slot(t, i) = IF i = e THEN b ELSE Slot(s, i)
<1>1. /\ IsState(s) /\ DirRight(s) /\ Settled(s, Dir) /\ f \in Nodes /\ f # Dir /\ Dir \in Nodes
  BY FilesAreNodes DEF Sound, DirRight
<1>2. PICK m \in Nat : m = DirSize(s)
  BY <1>1, DirFacts
<1>3. e \in 0..(m - 1)
  BY <1>2, OpenFacts
<1>4. PICK q : q = Lseek(s, Dir, e)
  OBVIOUS
<1>5. PICK x : x = q.s
  OBVIOUS
<1>6. /\ q.n = e /\ OnlyCursor(s, x, Dir) /\ Settled(x, Dir)
  <2>1. e \in 0..DirSize(s)
    BY <1>2, <1>3
  <2>2. DirSoughtTo(s, q, e)
    BY ONLY <1>1, <1>4, <2>1, DirSought
  <2>3. QED
    BY <1>5, <2>2 DEF DirSoughtTo, DirRight
<1>7. DirRight(x) /\ DirSize(x) = m
  BY <1>1, <1>2, <1>6 DEF DirRight, OnlyCursor, SameFile, DirSize
<1>8. DirStep(s, x) /\ OthersStay(s, x) /\ \A i : Slot(x, i) = Slot(s, i)
  BY <1>6, <1>7, CursorDirStep
<1>9. PICK buf : buf = <<b>>
  OBVIOUS
<1>10. buf \in Seq(AllUnits) /\ Len(buf) = 1 /\ buf[1] = b
  <2>1. s.vn[f].start \in 0..LastChain /\ s.vn[f].size \in Nat
    BY <1>1, NodeFields
  <2>2. b \in AllUnits
    BY <2>1 DEF AllUnits
  <2>3. QED
    BY <1>9, <2>2
<1>11. PICK r : r = WriteAt(x, Dir, e, buf)
  OBVIOUS
<1>12. WrittenResult(x, r, Dir, e, buf)
  <2>1. e \in 0..x.vn[Dir].size
    BY <1>3, <1>7 DEF DirSize
  <2>2. Settled(x, Dir) /\ buf \in Seq(AllUnits) /\ Len(buf) >= 1
    BY <1>6, <1>10
  <2>3. QED
    BY ONLY <1>11, <2>1, <2>2, WriteAtSettled
<1>13. PICK u : u = r.s
  OBVIOUS
<1>14. /\ DirStep(x, u) /\ OthersStay(x, u) /\ r.n \in 1..Len(buf)
       /\ SlotsPut(x, u, e, r.n, buf)
  <2>1. e \in Nat /\ Len(buf) \in Nat /\ e + Len(buf) <= DirSize(x)
    BY <1>3, <1>7, <1>10
  <2>2. DirPut(x, u, e, r.n, buf)
    BY ONLY <1>7, <1>12, <1>13, <2>1, DirWritten
  <2>3. QED
    BY <2>2 DEF DirPut
<1>15. DirStep(s, u) /\ OthersStay(s, u)
  BY <1>8, <1>14, DirStepTwice
<1>16. \A i \in 0..(m - 1) : Slot(u, i) = IF i = e THEN b ELSE Slot(s, i)
  <2>1. r.n = 1
    BY <1>10, <1>14
  <2>2. ASSUME NEW i \in 0..(m - 1) PROVE Slot(u, i) = IF i = e THEN b ELSE Slot(s, i)
    <3>1. i = e <=> i \in e..(e + 1 - 1)
      BY <1>3
    <3>2. i = e => (i - e) + 1 = 1
      BY <1>3
    <3>3. QED
      BY <1>7, <1>8, <1>10, <1>14, <2>1, <3>1, <3>2 DEF SlotsPut
  <2>3. QED
    BY <2>2
<1>17. t = WithNode(u, f, Closed)
  <2>1. t = [r.s EXCEPT !.vn[f] = Closed]
    <3>1. WriteAt(Lseek(s, Dir, s.vn[f].slot).s, Dir, s.vn[f].slot, <<short_entry(s, f)>>) = r
      BY <1>4, <1>5, <1>9, <1>11 DEF short_entry
    <3>2. Lseek(s, Dir, s.vn[f].slot).n = s.vn[f].slot
      BY <1>4, <1>6
    <3>3. QED
      BY <3>1, <3>2 DEF VNodeClosed
  <2>2. QED
    BY <1>13, <2>1 DEF WithNode
<1>18. Closed \in VNode
  BY DiskAssumption DEF Closed, VNode, LastChain
<1>19. IsState(u)
  BY <1>15 DEF DirStep
<1>20. /\ IsState(t) /\ t.fat = u.fat /\ t.data = u.data /\ t.vn[f] = Closed
       /\ \A w \in Nodes : w # f => t.vn[w] = u.vn[w]
  BY ONLY <1>1, <1>17, <1>18, <1>19, NodeChanged
<1>21. t.vn[Dir] = u.vn[Dir]
  BY <1>1, <1>20
<1>22. DirStep(s, t)
  <2>1. DirRight(t)
    BY <1>15, <1>20, <1>21 DEF DirStep, DirRight, Settled
  <2>2. Own(t, Dir) = Own(u, Dir)
    BY <1>20, <1>21 DEF Own
  <2>3. QED
    BY <1>15, <1>20, <1>21, <2>1, <2>2 DEF DirStep, DirSize
<1>23. \A i : Slot(t, i) = Slot(u, i)
  BY <1>20, <1>21 DEF Slot, UnitAt
<1>24. \A w \in Nodes : w # Dir /\ w # f => t.vn[w] = s.vn[w]
  BY <1>15, <1>20 DEF OthersStay
<1>25. QED
  BY <1>2, <1>16, <1>20, <1>22, <1>23, <1>24

(* Closing keeps the disk sound.                                           *)
LEMMA ClosedSound ==
    ASSUME NEW s, Sound(s), NEW f \in Files, s.vn[f].open, NEW t, t = VNodeClosed(s, f)
    PROVE  /\ Sound(t)
           /\ \A g \in Files : g # f => t.vn[g] = s.vn[g]
           /\ \A g \in Files : ContentOf(t, g) = ContentOf(s, g)
<1>1. PICK e : e = s.vn[f].slot
  OBVIOUS
<1>2. PICK b : b = ShortEnt(f, s.vn[f].start, s.vn[f].size)
  OBVIOUS
<1>3. /\ DirStep(s, t) /\ t.vn[f] = Closed
      /\ \A w \in Nodes : w # Dir /\ w # f => t.vn[w] = s.vn[w]
      /\ \A i \in 0..(DirSize(s) - 1) : Slot(t, i) = IF i = e THEN b ELSE Slot(s, i)
  BY <1>1, <1>2, ClosedMade
<1>4. Len(b) = 4 /\ b[2] = f /\ b[3] = s.vn[f].start /\ b[4] = s.vn[f].size /\ b # Zero
  BY <1>2, ShortFacts
<1>5. /\ Settled(s, f) /\ e \in Entered(s) /\ e \in 0..(DirSize(s) - 1)
      /\ e \in 0..(FirstUnused(s) - 1)
      /\ Len(Slot(s, e)) = 4 /\ Slot(s, e)[2] = f /\ Slot(s, e)[3] = s.vn[f].start
      /\ SlotsOf(s, f) # {} /\ e = Least(SlotsOf(s, f))
  <2>1. Sound(s) /\ f \in Files /\ s.vn[f].open
    OBVIOUS
  <2>2. SlotsOf(s, f) # {} /\ s.vn[f].slot = Least(SlotsOf(s, f))
    BY ONLY <2>1 DEF Sound, OpenRight
  <2>3. /\ Settled(s, f) /\ e \in Entered(s) /\ e \in 0..(DirSize(s) - 1)
        /\ e \in 0..(FirstUnused(s) - 1)
        /\ Len(Slot(s, e)) = 4 /\ Slot(s, e)[2] = f /\ Slot(s, e)[3] = s.vn[f].start
    BY ONLY <1>1, <2>1, OpenFacts
  <2>4. QED
    BY ONLY <1>1, <2>2, <2>3
<1>6. PICK m \in Nat : m = DirSize(s)
  BY DirFacts DEF Sound
<1>7. PICK u \in 0..m : u = FirstUnused(s)
  BY <1>6, SlotsFound
<1>8. \A i \in 0..(u - 1) : i \in 0..(m - 1)
  OBVIOUS
<1>9. FirstUnused(t) = u
  <2>1. DirSize(t) = m
    BY <1>3, <1>6 DEF DirStep
  <2>2. \A i \in 0..(u - 1) : Slot(t, i) # Zero
    BY <1>3, <1>4, <1>6, <1>7, <1>8, SlotsFound
  <2>3. u < m => Slot(t, u) = Zero
    <3>1. u < m => u \in 0..(m - 1) /\ u # e
      BY <1>5, <1>7
    <3>2. u < m => Slot(s, u) = Zero
      BY <1>6, <1>7, SlotsFound
    <3>3. QED
      BY <1>3, <1>6, <3>1, <3>2
  <2>4. QED
    BY <2>1, <2>2, <2>3, FirstUnusedIs
<1>10. \A i \in 0..(u - 1) : Slot(t, i) = IF i = e THEN b ELSE Slot(s, i)
  BY <1>3, <1>6, <1>8
<1>11. Entered(t) = Entered(s)
  <2>1. \A i \in 0..(u - 1) : Len(Slot(t, i)) = 4 <=> Len(Slot(s, i)) = 4
    BY <1>4, <1>5, <1>10
  <2>2. QED
    BY <1>7, <1>9, <2>1 DEF Entered
<1>12. ASSUME NEW n PROVE SlotsOf(t, n) = SlotsOf(s, n)
  <2>1. \A i \in 0..(u - 1) : IsShortOf(Slot(t, i), n) <=> IsShortOf(Slot(s, i), n)
    BY <1>4, <1>5, <1>10 DEF IsShortOf
  <2>2. QED
    BY <1>7, <1>9, <2>1 DEF SlotsOf
<1>13. ASSUME NEW i \in Entered(s)
       PROVE  /\ Slot(t, i)[3] = Slot(s, i)[3]
              /\ i # e => Slot(t, i) = Slot(s, i)
  <2>1. i \in 0..(u - 1)
    BY <1>7 DEF Entered
  <2>2. QED
    BY <1>4, <1>5, <1>10, <2>1
<1>14. \A i \in Entered(s) : Kept(s, t, Slot(s, i)[3]) /\ EndsWell(s.fat, Slot(s, i)[3])
  BY <1>3, DirStepKeeps
<1>15. PICK x : x = ChainLength(s.fat, s.vn[f].start)
  OBVIOUS
<1>16. s.vn[f].size \in 0..(x * ClusterUnits) /\ s.vn[f].size \in 0..(ClusterUnits * x)
  <2>1. x = s.vn[f].total /\ x \in Nat /\ s.vn[f].size \in Nat /\ s.vn[f].avail \in Nat
    BY <1>5, <1>15, OwnIsChain, NodeFields DEF Settled
  <2>2. PICK y \in Nat : y = x * ClusterUnits
    BY <2>1, DiskAssumption
  <2>6. y = ClusterUnits * x
    BY <2>1, <2>2, DiskAssumption
  <2>3. s.vn[f].size + s.vn[f].avail = y
    BY <1>5, <2>1, <2>2 DEF Settled
  <2>4. s.vn[f].size \in 0..y
    BY ONLY <2>1, <2>3, y \in Nat
  <2>5. QED
    BY <2>2, <2>4, <2>6
<1>17. t.vn[Dir].start = s.vn[Dir].start /\ t.fat = s.fat
  BY <1>3 DEF DirStep
<1>18. EntriesApart(t)
  <2>1. ASSUME NEW i \in Entered(s)
        PROVE  /\ EndsWell(t.fat, Slot(t, i)[3])
               /\ Slot(t, i)[4] \in 0..(ClusterUnits * ChainLength(t.fat, Slot(t, i)[3]))
               /\ Chain(t.fat, Slot(t, i)[3]) \cap Chain(t.fat, t.vn[Dir].start) = {}
               /\ \A j \in Entered(s) : j # i =>
                    Chain(t.fat, Slot(t, i)[3]) \cap Chain(t.fat, Slot(t, j)[3]) = {}
    <3>1. /\ EndsWell(s.fat, Slot(s, i)[3])
          /\ Slot(s, i)[4] \in 0..(ClusterUnits * ChainLength(s.fat, Slot(s, i)[3]))
          /\ Chain(s.fat, Slot(s, i)[3]) \cap Chain(s.fat, s.vn[Dir].start) = {}
          /\ \A j \in Entered(s) : j # i =>
                Chain(s.fat, Slot(s, i)[3]) \cap Chain(s.fat, Slot(s, j)[3]) = {}
      BY DEF Sound, EntriesApart
    <3>2. Slot(t, i)[4] \in 0..(ClusterUnits * ChainLength(s.fat, Slot(s, i)[3]))
      <4>1. CASE i = e
        <5>1. Slot(t, i) = b
          BY <1>3, <1>5, <4>1
        <5>2. QED
          BY <1>4, <1>5, <1>15, <1>16, <4>1, <5>1
      <4>2. CASE i # e
        BY <1>13, <3>1, <4>2
      <4>3. QED
        BY <4>1, <4>2
    <3>3. QED
      BY <1>13, <1>17, <3>1, <3>2
  <2>2. QED
    BY <1>11, <2>1 DEF EntriesApart
<1>19. ASSUME NEW g \in Files, g # f PROVE t.vn[g] = s.vn[g]
  BY <1>3, <1>19, FilesAreNodes
<1>20. ASSUME NEW g \in Files, g # f, SlotsOf(s, g) # {}
       PROVE  Slot(t, Least(SlotsOf(s, g))) = Slot(s, Least(SlotsOf(s, g)))
  <2>0. PICK i : i = Least(SlotsOf(s, g))
    OBVIOUS
  <2>1. i \in Entered(s) /\ i # e
    BY <1>1, <1>20, <2>0, OtherName
  <2>2. Slot(t, i) = Slot(s, i)
    BY <1>13, <2>1
  <2>3. QED
    BY <2>0, <2>2
<1>21. ASSUME NEW g \in Files, t.vn[g].open PROVE OpenRight(t, g)
  <2>1. g # f
    BY <1>3, <1>21 DEF Closed
  <2>2. t.vn[g] = s.vn[g]
    BY <1>19, <2>1
  <2>3. OpenRight(s, g)
    BY <1>21, <2>2 DEF Sound
  <2>4. Settled(t, g)
    BY <1>3, <2>2, <2>3, DirStepSettled DEF OpenRight
  <2>5. QED
    BY <1>12, <1>20, <2>1, <2>2, <2>3, <2>4 DEF OpenRight
<1>25. ClosedTight(t)
  <2>1. ASSUME NEW g \in Files, g # f, ~ t.vn[g].open, SlotsOf(t, g) # {}
        PROVE  TightSlot(t, Least(SlotsOf(t, g)))
    <3>1. ~ s.vn[g].open /\ SlotsOf(s, g) # {} /\ SlotsOf(t, g) = SlotsOf(s, g)
      BY <1>12, <1>19, <2>1
    <3>2. QED
      BY <1>17, <1>20, <2>1, <3>1, TightKept
  <2>2. TightSlot(t, Least(SlotsOf(t, f)))
    <3>1. Least(SlotsOf(t, f)) = e /\ Slot(t, e) = b
      BY <1>3, <1>5, <1>12
    <3>2. /\ x = s.vn[f].total /\ x \in Nat /\ s.vn[f].size \in Nat /\ s.vn[f].avail \in Nat
          /\ s.vn[f].avail <= ClusterUnits
      BY <1>5, <1>15, OwnIsChain, NodeFields DEF Settled
    <3>3. PICK y \in Nat : y = x * ClusterUnits
      BY <3>2, DiskAssumption
    <3>4. y = ClusterUnits * x
      BY <3>2, <3>3, DiskAssumption
    <3>5. s.vn[f].size + s.vn[f].avail = y
      BY <1>5, <3>2, <3>3 DEF Settled
    <3>6. s.vn[f].size + ClusterUnits >= y
      BY ONLY <3>2, <3>5, y \in Nat, DiskAssumption
    <3>7. ChainLength(t.fat, b[3]) = x
      BY <1>4, <1>15, <1>17
    <3>8. QED
      BY <1>4, <3>1, <3>4, <3>6, <3>7 DEF TightSlot
  <2>3. QED
    BY <2>1, <2>2 DEF ClosedTight
<1>22. Sound(t)
  BY <1>3, <1>18, <1>21, <1>25 DEF Sound, DirStep
<1>23. ASSUME NEW g \in Files PROVE ContentOf(t, g) = ContentOf(s, g)
  <2>1. CASE g = f
    <3>1. ContentOf(t, f) = Units(t, s.vn[f].start, s.vn[f].size)
      <4>1. Slot(t, e) = b /\ ~ t.vn[f].open
        BY <1>3, <1>5 DEF Closed
      <4>2. QED
        BY <1>4, <1>5, <1>12, <4>1 DEF ContentOf
    <3>2. PICK c : c = s.vn[f].start
      OBVIOUS
    <3>3. IsState(s) /\ EndsWell(s.fat, c) /\ Kept(s, t, c)
      BY <1>5, <1>14, <3>2 DEF Sound
    <3>4. \A z \in 0..(ChainLength(s.fat, c) * ClusterUnits) : Units(t, c, z) = Units(s, c, z)
      BY ONLY <3>3, KeptUnits
    <3>5. QED
      BY <1>15, <1>16, <2>1, <3>1, <3>2, <3>4 DEF ContentOf
  <2>2. CASE g # f
    <3>1. SlotsOf(s, g) # {} => Least(SlotsOf(s, g)) \in Entered(s)
      BY <2>2, OtherName
    <3>2. SlotsOf(s, g) # {} =>
            /\ Slot(t, Least(SlotsOf(s, g))) = Slot(s, Least(SlotsOf(s, g)))
            /\ Kept(s, t, Slot(s, Least(SlotsOf(s, g)))[3])
      BY <1>14, <1>20, <2>2, <3>1
    <3>3. QED
      BY <1>12, <1>19, <2>2, <3>2, ContentKept
  <2>3. QED
    BY <2>1, <2>2
<1>24. QED
  BY <1>19, <1>22, <1>23

------------------------------------------------------------------------------
(* Making a directory.                                                      *)

(* The slot k of t, which was the first unused of s, is the long entry of  *)
(* n; the next is its short entry when q is 2.                             *)
Added(s, t, k, n, c, q) ==
    /\ IsState(t) /\ DirRight(t)
    /\ t.vn[Dir].start = s.vn[Dir].start
    /\ Chain(t.fat, s.vn[Dir].start) = Chain(s.fat, s.vn[Dir].start)
    /\ \A f \in Files : t.vn[f] = s.vn[f] /\ (s.vn[f].open => Settled(t, f))
    /\ \A i \in Entered(s) : Kept(s, t, Slot(s, i)[3])
    /\ FirstUnused(t) = k + q
    /\ \A i \in 0..(k - 1) : Slot(t, i) = Slot(s, i)
    /\ Slot(t, k) = LongEnt(n)
    /\ q = 2 => /\ Slot(t, k + 1) = ShortEnt(n, c, 0)
                /\ EndsWell(t.fat, c) /\ Chain(t.fat, c) = {c}
                /\ ChainLength(t.fat, c) = 1
                /\ c \notin Chain(s.fat, s.vn[Dir].start)
                /\ \A i \in Entered(s) : c \notin Chain(s.fat, Slot(s, i)[3])

(* One more directory has an entry, if both slots were written.            *)
LEMMA AddedSlots ==
    ASSUME NEW s, NEW t, NEW k \in Nat, k = FirstUnused(s), NEW n, NEW c, NEW q \in {1, 2},
           Added(s, t, k, n, c, q)
    PROVE  /\ Entered(t) = Entered(s) \cup (IF q = 2 THEN {k + 1} ELSE {})
           /\ \A g : SlotsOf(t, g) = SlotsOf(s, g) \cup (IF q = 2 /\ g = n THEN {k + 1} ELSE {})
           /\ k + 1 \notin Entered(s)
<1>1. /\ FirstUnused(t) = k + q /\ Slot(t, k) = LongEnt(n)
      /\ \A i \in 0..(k - 1) : Slot(t, i) = Slot(s, i)
      /\ q = 2 => Slot(t, k + 1) = ShortEnt(n, c, 0)
  BY DEF Added
<1>2. Len(LongEnt(n)) = 2
  BY DEF LongEnt
<1>3. Len(ShortEnt(n, c, 0)) = 4 /\ ShortEnt(n, c, 0)[2] = n
  BY ShortFacts
<1>4. ASSUME q = 1
      PROVE  Entered(t) = Entered(s) /\ \A g : SlotsOf(t, g) = SlotsOf(s, g)
  <2>1. 0..(k + q - 1) = 0..(k - 1) \cup {k} /\ k \notin 0..(k - 1)
    BY <1>4
  <2>2. Len(Slot(t, k)) # 4
    BY <1>1, <1>2
  <2>3. Entered(t) = Entered(s)
    BY <1>1, <2>1, <2>2 DEF Entered
  <2>4. ASSUME NEW g PROVE SlotsOf(t, g) = SlotsOf(s, g)
    BY <1>1, <2>1, <2>2 DEF SlotsOf, IsShortOf
  <2>5. QED
    BY <2>3, <2>4
<1>5. ASSUME q = 2
      PROVE  /\ Entered(t) = Entered(s) \cup {k + 1}
             /\ \A g : SlotsOf(t, g) = SlotsOf(s, g) \cup (IF g = n THEN {k + 1} ELSE {})
  <2>1. 0..(k + q - 1) = 0..(k - 1) \cup {k} \cup {k + 1}
    BY <1>5
  <2>2. Len(Slot(t, k)) # 4 /\ Len(Slot(t, k + 1)) = 4 /\ Slot(t, k + 1)[2] = n
    BY <1>1, <1>2, <1>3, <1>5
  <2>3. Entered(t) = Entered(s) \cup {k + 1}
    BY <1>1, <2>1, <2>2 DEF Entered
  <2>4. ASSUME NEW g
        PROVE  SlotsOf(t, g) = SlotsOf(s, g) \cup (IF g = n THEN {k + 1} ELSE {})
    BY <1>1, <2>1, <2>2 DEF SlotsOf, IsShortOf
  <2>5. QED
    BY <2>3, <2>4
<1>6. k + 1 \notin 0..(k - 1)
  OBVIOUS
<1>7. QED
  BY <1>4, <1>5, <1>6 DEF Entered

(* The entries stay apart when c belongs to none of them.                  *)
LEMMA AddedSound ==
    ASSUME NEW s, Sound(s), NEW t, NEW k \in Nat, k = FirstUnused(s), NEW n, SlotsOf(s, n) = {},
           NEW c, NEW q \in {1, 2}, Added(s, t, k, n, c, q)
    PROVE  /\ Sound(t)
           /\ \A g \in Files : t.vn[g] = s.vn[g] /\ ContentOf(t, g) = ContentOf(s, g)
<1>1. /\ Entered(t) = Entered(s) \cup (IF q = 2 THEN {k + 1} ELSE {})
      /\ \A g : SlotsOf(t, g) = SlotsOf(s, g) \cup (IF q = 2 /\ g = n THEN {k + 1} ELSE {})
      /\ k + 1 \notin Entered(s)
  BY AddedSlots
<1>2. PICK a : a = s.vn[Dir].start
  OBVIOUS
<1>3. /\ IsState(t) /\ DirRight(t) /\ t.vn[Dir].start = a
      /\ Chain(t.fat, a) = Chain(s.fat, a)
      /\ \A f \in Files : t.vn[f] = s.vn[f] /\ (s.vn[f].open => Settled(t, f))
      /\ \A i \in Entered(s) : Kept(s, t, Slot(s, i)[3])
      /\ \A i \in 0..(k - 1) : Slot(t, i) = Slot(s, i)
  BY <1>2 DEF Added
<1>4. q = 2 => /\ Slot(t, k + 1)[2] = n /\ Slot(t, k + 1)[3] = c /\ Slot(t, k + 1)[4] = 0
               /\ EndsWell(t.fat, c) /\ Chain(t.fat, c) = {c} /\ c \notin Chain(s.fat, a)
               /\ ChainLength(t.fat, c) = 1
               /\ \A i \in Entered(s) : c \notin Chain(s.fat, Slot(s, i)[3])
  BY <1>2, ShortFacts DEF Added
<1>5. \A i \in Entered(s) : Slot(t, i) = Slot(s, i)
  BY <1>3 DEF Entered
<1>6. EntriesApart(t)
  <2>1. ASSUME NEW i \in Entered(s)
        PROVE  /\ EndsWell(t.fat, Slot(t, i)[3])
               /\ Slot(t, i)[4] \in 0..(ClusterUnits * ChainLength(t.fat, Slot(t, i)[3]))
               /\ Chain(t.fat, Slot(t, i)[3]) \cap Chain(t.fat, a) = {}
               /\ Chain(t.fat, Slot(t, i)[3]) = Chain(s.fat, Slot(s, i)[3])
               /\ \A j \in Entered(s) : j # i =>
                    Chain(t.fat, Slot(t, i)[3]) \cap Chain(t.fat, Slot(t, j)[3]) = {}
    <3>1. /\ EndsWell(s.fat, Slot(s, i)[3])
          /\ Slot(s, i)[4] \in 0..(ClusterUnits * ChainLength(s.fat, Slot(s, i)[3]))
          /\ Chain(s.fat, Slot(s, i)[3]) \cap Chain(s.fat, a) = {}
          /\ \A j \in Entered(s) : j # i =>
                Chain(s.fat, Slot(s, i)[3]) \cap Chain(s.fat, Slot(s, j)[3]) = {}
      BY <1>2 DEF Sound, EntriesApart
    <3>2. \A j \in Entered(s) :
            /\ EndsWell(t.fat, Slot(t, j)[3])
            /\ ChainLength(t.fat, Slot(t, j)[3]) = ChainLength(s.fat, Slot(s, j)[3])
            /\ Chain(t.fat, Slot(t, j)[3]) = Chain(s.fat, Slot(s, j)[3])
      BY <1>3, <1>5 DEF Kept
    <3>3. QED
      BY <1>3, <1>5, <3>1, <3>2
  <2>2. ASSUME q = 2
        PROVE  /\ EndsWell(t.fat, Slot(t, k + 1)[3])
               /\ Slot(t, k + 1)[4] \in 0..(ClusterUnits * ChainLength(t.fat, Slot(t, k + 1)[3]))
               /\ Chain(t.fat, Slot(t, k + 1)[3]) \cap Chain(t.fat, a) = {}
               /\ \A j \in Entered(s) :
                    Chain(t.fat, Slot(t, k + 1)[3]) \cap Chain(t.fat, Slot(t, j)[3]) = {}
    <3>1. 0 \in 0..(ClusterUnits * 1)
      BY DiskAssumption
    <3>2. \A j \in Entered(s) : c \notin Chain(t.fat, Slot(t, j)[3])
      BY <1>4, <2>1, <2>2
    <3>3. QED
      BY <1>3, <1>4, <2>2, <3>1, <3>2
  <2>3. CASE q = 1
    BY <1>1, <1>3, <2>1, <2>3 DEF EntriesApart
  <2>4. CASE q = 2
    <3>1. Entered(t) = Entered(s) \cup {k + 1}
      BY <1>1, <2>4
    <3>2. ASSUME NEW i \in Entered(t)
          PROVE  /\ EndsWell(t.fat, Slot(t, i)[3])
                 /\ Slot(t, i)[4] \in 0..(ClusterUnits * ChainLength(t.fat, Slot(t, i)[3]))
                 /\ Chain(t.fat, Slot(t, i)[3]) \cap Chain(t.fat, t.vn[Dir].start) = {}
                 /\ \A j \in Entered(t) \ {i} :
                      Chain(t.fat, Slot(t, i)[3]) \cap Chain(t.fat, Slot(t, j)[3]) = {}
      <4>1. CASE i \in Entered(s)
        <5>1. ASSUME NEW j \in Entered(t) \ {i}
              PROVE  Chain(t.fat, Slot(t, i)[3]) \cap Chain(t.fat, Slot(t, j)[3]) = {}
          <6>1. CASE j \in Entered(s)
            BY <2>1, <4>1, <5>1, <6>1
          <6>2. CASE j = k + 1
            BY <2>2, <2>4, <4>1, <6>2
          <6>3. QED
            BY <3>1, <6>1, <6>2
        <5>2. QED
          BY <1>3, <2>1, <4>1, <5>1
      <4>2. CASE i = k + 1
        BY <1>3, <2>2, <2>4, <3>1, <4>2
      <4>3. QED
        BY <3>1, <4>1, <4>2
    <3>3. QED
      BY <3>2 DEF EntriesApart
  <2>5. QED
    BY <2>3, <2>4
<1>7. DirSize(s) \in Nat
  BY DirFacts DEF Sound
<1>8. ASSUME NEW g, SlotsOf(s, g) # {}
      PROVE  /\ SlotsOf(t, g) = SlotsOf(s, g) /\ Least(SlotsOf(s, g)) \in Entered(s)
             /\ Slot(t, Least(SlotsOf(s, g))) = Slot(s, Least(SlotsOf(s, g)))
  <2>1. SlotsOf(t, g) = SlotsOf(s, g)
    BY <1>1, <1>8
  <2>2. Least(SlotsOf(s, g)) \in Entered(s)
    BY <1>7, <1>8, NamedSlot
  <2>3. QED
    BY <1>5, <2>1, <2>2
<1>9. ASSUME NEW g \in Files, t.vn[g].open PROVE OpenRight(t, g)
  <2>1. t.vn[g] = s.vn[g] /\ s.vn[g].open /\ Settled(t, g)
    BY <1>3, <1>9
  <2>2. OpenRight(s, g)
    BY <2>1 DEF Sound
  <2>3. QED
    BY <1>8, <2>1, <2>2 DEF OpenRight
<1>13. ClosedTight(t)
  <2>1. ASSUME NEW g \in Files, ~ t.vn[g].open, SlotsOf(t, g) # {}
        PROVE  TightSlot(t, Least(SlotsOf(t, g)))
    <3>1. ~ s.vn[g].open
      BY <1>3, <2>1
    <3>2. CASE SlotsOf(s, g) # {}
      <4>1. PICK x : x = Least(SlotsOf(s, g))
        OBVIOUS
      <4>2. SlotsOf(t, g) = SlotsOf(s, g) /\ x \in Entered(s) /\ Slot(t, x) = Slot(s, x)
        BY <1>8, <3>2, <4>1
      <4>3. ChainLength(t.fat, Slot(s, x)[3]) = ChainLength(s.fat, Slot(s, x)[3])
        BY <1>3, <4>2 DEF Kept
      <4>4. QED
        BY <3>1, <3>2, <4>1, <4>2, <4>3, TightKept
    <3>3. CASE SlotsOf(s, g) = {}
      <4>1. q = 2 /\ SlotsOf(t, g) = {k + 1}
        BY <1>1, <2>1, <3>3
      <4>2. {k + 1} \subseteq Nat /\ {k + 1} # {}
        OBVIOUS
      <4>3. Least({k + 1}) \in {k + 1}
        BY ONLY <4>2, LeastIsMember
      <4>4. Least(SlotsOf(t, g)) = k + 1
        BY <4>1, <4>3
      <4>5. Slot(t, k + 1)[4] = 0 /\ ChainLength(t.fat, Slot(t, k + 1)[3]) = 1
        BY <1>4, <4>1
      <4>6. 0 + ClusterUnits >= ClusterUnits * 1
        BY DiskAssumption
      <4>7. QED
        BY <4>4, <4>5, <4>6 DEF TightSlot
    <3>4. QED
      BY <3>2, <3>3
  <2>2. QED
    BY <2>1 DEF ClosedTight
<1>10. Sound(t)
  BY <1>3, <1>6, <1>9, <1>13 DEF Sound
<1>11. ASSUME NEW g \in Files PROVE ContentOf(t, g) = ContentOf(s, g)
  <2>1. t.vn[g] = s.vn[g]
    BY <1>3
  <2>2. CASE SlotsOf(s, g) # {}
    <3>1. SlotsOf(t, g) = SlotsOf(s, g)
      BY <1>8, <2>2
    <3>2. /\ Slot(t, Least(SlotsOf(s, g))) = Slot(s, Least(SlotsOf(s, g)))
          /\ Kept(s, t, Slot(s, Least(SlotsOf(s, g)))[3])
      BY <1>3, <1>8, <2>2
    <3>3. QED
      BY <2>1, <3>1, <3>2, ContentKept
  <2>3. CASE SlotsOf(s, g) = {}
    <3>1. ~ s.vn[g].open /\ ~ t.vn[g].open /\ ContentOf(s, g) = <<>>
      BY <2>1, <2>3 DEF Sound, OpenRight, ContentOf
    <3>2. CASE ~ (q = 2 /\ g = n)
      BY <1>1, <2>3, <3>1, <3>2 DEF ContentOf
    <3>3. CASE q = 2 /\ g = n
      <4>1. SlotsOf(t, g) = {k + 1}
        BY <1>1, <2>3, <3>3
      <4>2. Least({k + 1}) = k + 1
        <5>1. {k + 1} \subseteq Nat /\ {k + 1} # {}
          OBVIOUS
        <5>2. Least({k + 1}) \in {k + 1}
          BY ONLY <5>1, LeastIsMember
        <5>3. QED
          BY <5>2
      <4>3. ContentOf(t, g) = Units(t, c, 0)
        BY <1>4, <3>1, <3>3, <4>1, <4>2 DEF ContentOf
      <4>4. Units(t, c, 0) = <<>>
        BY DEF Units
      <4>5. QED
        BY <3>1, <4>3, <4>4
    <3>4. QED
      BY <3>2, <3>3
  <2>4. QED
    BY <2>2, <2>3
<1>12. QED
  BY <1>3, <1>10, <1>11

(* nFindFreeDirEnt when the directory has room.                            *)
LEMMA FreeSlotsMade ==
    ASSUME NEW s, DirRight(s), NEW k \in Nat, k = FirstUnused(s), k + 2 < DirSize(s),
           NEW r, r = FreeSlots(s), NEW t, t = r.s
    PROVE  /\ DirStep(s, t) /\ OthersStay(s, t) /\ r.n = 1
           /\ \A i \in 0..(DirSize(s) - 1) :
                Slot(t, i) = IF i \in {k + 1, k + 2} THEN Zero ELSE Slot(s, i)
<1>1. PICK m \in Nat : m = DirSize(s)
  BY DirFacts
<1>2. PICK buf : buf = <<Zero>>
  OBVIOUS
<1>3. buf \in Seq(AllUnits) /\ Len(buf) = 1 /\ Len(buf) \in Nat /\ buf[1] = Zero
  BY <1>2 DEF AllUnits
<1>4. PICK a : a = SlotsRead(s, k + 1)
  OBVIOUS
<1>5. /\ DirRight(a) /\ OnlyCursor(s, a, Dir) /\ a.vn[Dir].pos = k + 1
  <2>1. PICK j \in Nat : j = k + 1
    OBVIOUS
  <2>2. DirReading(s, j, a)
    BY <1>4, <2>1, SlotsReadSettled
  <2>3. j < DirSize(s)
    BY <1>1, <2>1
  <2>4. QED
    BY <2>1, <2>2, <2>3 DEF DirReading
<1>6. DirStep(s, a) /\ OthersStay(s, a) /\ \A i : Slot(a, i) = Slot(s, i)
  BY <1>5, CursorDirStep
<1>7. DirSize(a) = m
  BY <1>1, <1>6 DEF DirStep
<1>8. PICK first : first = RawWrite(a, Dir, buf)
  OBVIOUS
<1>9. PICK b : b = first.s
  OBVIOUS
<1>10. PICK p \in Nat : p = k + 1
  OBVIOUS
<1>11. WrittenResult(a, first, Dir, p, buf)
  <2>1. Settled(a, Dir) /\ Len(buf) >= 1 /\ p = a.vn[Dir].pos /\ buf \in Seq(AllUnits)
    BY <1>3, <1>5, <1>10 DEF DirRight
  <2>2. QED
    BY ONLY <1>8, <2>1, RawWriteSettled
<1>12. /\ DirStep(a, b) /\ OthersStay(a, b) /\ first.n \in 1..Len(buf)
       /\ SlotsPut(a, b, p, first.n, buf) /\ b.vn[Dir].pos = p + first.n
  <2>1. p + Len(buf) <= DirSize(a)
    BY <1>1, <1>3, <1>7, <1>10
  <2>2. DirRight(a) /\ Len(buf) \in Nat /\ p \in Nat
    BY <1>3, <1>5
  <2>3. DirPut(a, b, p, first.n, buf)
    BY ONLY <1>9, <1>11, <2>1, <2>2, DirWritten
  <2>4. QED
    BY <2>3 DEF DirPut
<1>13. first.n = 1 /\ DirSize(b) = m /\ DirRight(b)
  BY <1>3, <1>7, <1>12 DEF DirStep
<1>14. \A i \in 0..(m - 1) : Slot(b, i) = IF i = k + 1 THEN Zero ELSE Slot(s, i)
  <2>1. ASSUME NEW i \in 0..(m - 1) PROVE Slot(b, i) = IF i = k + 1 THEN Zero ELSE Slot(s, i)
    <3>1. i = k + 1 <=> i \in p..(p + 1 - 1)
      BY <1>10
    <3>2. i = k + 1 => (i - p) + 1 = 1
      BY <1>10
    <3>3. QED
      BY <1>3, <1>6, <1>7, <1>12, <1>13, <3>1, <3>2 DEF SlotsPut
  <2>2. QED
    BY <2>1
<1>15. r = RawWrite(b, Dir, buf)
  BY <1>2, <1>4, <1>8, <1>9, <1>13 DEF FreeSlots
<1>16. PICK o \in Nat : o = k + 2
  OBVIOUS
<1>17. WrittenResult(b, r, Dir, o, buf)
  <2>1. o = b.vn[Dir].pos
    BY <1>10, <1>12, <1>13, <1>16
  <2>2. Settled(b, Dir) /\ Len(buf) >= 1 /\ buf \in Seq(AllUnits)
    BY <1>3, <1>13 DEF DirRight
  <2>3. QED
    BY ONLY <1>15, <2>1, <2>2, RawWriteSettled
<1>18. /\ DirStep(b, t) /\ OthersStay(b, t) /\ r.n \in 1..Len(buf)
       /\ SlotsPut(b, t, o, r.n, buf)
  <2>1. o + Len(buf) <= DirSize(b)
    BY <1>1, <1>3, <1>13, <1>16
  <2>2. DirRight(b) /\ Len(buf) \in Nat /\ o \in Nat
    BY <1>3, <1>13
  <2>3. t = r.s
    OBVIOUS
  <2>4. DirPut(b, t, o, r.n, buf)
    BY ONLY <1>17, <2>1, <2>2, <2>3, DirWritten
  <2>5. QED
    BY <2>4 DEF DirPut
<1>19. r.n = 1
  BY <1>3, <1>18
<1>20. DirStep(s, t) /\ OthersStay(s, t)
  BY <1>6, <1>12, <1>18, DirStepTwice
<1>21. ASSUME NEW i \in 0..(m - 1)
       PROVE  Slot(t, i) = IF i \in {k + 1, k + 2} THEN Zero ELSE Slot(s, i)
  <2>1. i = k + 2 <=> i \in o..(o + 1 - 1)
    BY <1>16
  <2>2. i = k + 2 => (i - o) + 1 = 1
    BY <1>16
  <2>3. Slot(t, i) = IF i = k + 2 THEN Zero ELSE Slot(b, i)
    BY <1>3, <1>13, <1>18, <1>19, <2>1, <2>2 DEF SlotsPut
  <2>4. QED
    BY <1>14, <2>3
<1>22. QED
  BY <1>1, <1>19, <1>20, <1>21

(* The entry is written, the whole or its first slot.                      *)
LEMMA EntryWritten ==
    ASSUME NEW s, DirRight(s), NEW k \in Nat, k = FirstUnused(s), k + 2 < DirSize(s),
           NEW n \in NewDirs, NEW c \in 0..LastChain, NEW r,
           r = RawWrite(Lseek(FreeSlots(s).s, Dir, FirstUnused(s)).s, Dir, Entry(n, c)),
           NEW u, u = r.s
    PROVE  /\ DirStep(s, u) /\ OthersStay(s, u) /\ r.n \in {1, 2}
           /\ Slot(u, k) = LongEnt(n) /\ Slot(u, k + 2) = Zero
           /\ Slot(u, k + 1) = IF r.n = 2 THEN ShortEnt(n, c, 0) ELSE Zero
           /\ \A i \in 0..(k - 1) : Slot(u, i) = Slot(s, i)
<1>1. PICK m \in Nat : m = DirSize(s)
  BY DirFacts
<1>2. PICK a : a = FreeSlots(s).s
  OBVIOUS
<1>3. /\ DirStep(s, a) /\ OthersStay(s, a)
      /\ \A i \in 0..(m - 1) : Slot(a, i) = IF i \in {k + 1, k + 2} THEN Zero ELSE Slot(s, i)
  BY <1>1, <1>2, FreeSlotsMade
<1>4. DirSize(a) = m /\ DirRight(a) /\ Settled(a, Dir)
  BY <1>1, <1>3 DEF DirStep, DirRight
<1>5. PICK q : q = Lseek(a, Dir, k)
  OBVIOUS
<1>6. PICK b : b = q.s
  OBVIOUS
<1>7. Settled(b, Dir) /\ OnlyCursor(a, b, Dir) /\ b.vn[Dir].pos = k
  <2>1. k \in 0..DirSize(a)
    BY <1>1, <1>4
  <2>2. DirSoughtTo(a, q, k)
    BY ONLY <1>4, <1>5, <2>1, DirSought
  <2>3. QED
    BY <1>6, <2>2 DEF DirSoughtTo, DirRight
<1>8. DirRight(b)
  BY <1>4, <1>7 DEF DirRight, OnlyCursor, SameFile
<1>9. DirStep(a, b) /\ OthersStay(a, b) /\ \A i : Slot(b, i) = Slot(a, i)
  BY <1>7, <1>8, CursorDirStep
<1>10. PICK buf : buf = Entry(n, c)
  OBVIOUS
<1>11. /\ buf \in Seq(AllUnits) /\ Len(buf) = 2 /\ Len(buf) \in Nat
       /\ buf[1] = LongEnt(n) /\ buf[2] = ShortEnt(n, c, 0)
  <2>1. LongEnt(n) \in AllUnits /\ ShortEnt(n, c, 0) \in AllUnits
    BY DEF AllUnits
  <2>2. QED
    BY <1>10, <2>1 DEF Entry
<1>12. r = RawWrite(b, Dir, buf)
  BY <1>2, <1>5, <1>6, <1>10
<1>13. WrittenResult(b, r, Dir, k, buf)
  <2>1. k = b.vn[Dir].pos /\ Settled(b, Dir) /\ Len(buf) >= 1 /\ buf \in Seq(AllUnits)
    BY <1>7, <1>11
  <2>2. QED
    BY ONLY <1>12, <2>1, RawWriteSettled
<1>14. /\ DirStep(b, u) /\ OthersStay(b, u) /\ r.n \in 1..Len(buf)
       /\ SlotsPut(b, u, k, r.n, buf)
  <2>1. DirSize(b) = m
    BY <1>4, <1>9 DEF DirStep
  <2>2. k + Len(buf) <= DirSize(b) /\ Len(buf) \in Nat
    BY <1>1, <1>11, <2>1
  <2>3. u = r.s
    OBVIOUS
  <2>4. DirPut(b, u, k, r.n, buf)
    BY ONLY k \in Nat, <1>8, <1>13, <2>2, <2>3, DirWritten
  <2>5. QED
    BY <2>4 DEF DirPut
<1>15. DirStep(s, u) /\ OthersStay(s, u)
  BY <1>3, <1>9, <1>14, DirStepTwice
<1>16. r.n \in {1, 2}
  BY <1>11, <1>14
<1>17. DirSize(b) = m
  BY <1>4, <1>9 DEF DirStep
<1>18. \A i \in 0..(m - 1) :
            /\ i \in k..(k + r.n - 1) => Slot(u, i) = buf[(i - k) + 1]
            /\ i \notin k..(k + r.n - 1) => Slot(u, i) = Slot(a, i)
  BY <1>9, <1>14, <1>17 DEF SlotsPut
<1>19. k \in 0..(m - 1) /\ k + 1 \in 0..(m - 1) /\ k + 2 \in 0..(m - 1)
  BY <1>1
<1>20. Slot(u, k) = LongEnt(n)
  <2>1. k \in k..(k + r.n - 1) /\ (k - k) + 1 = 1
    BY <1>16
  <2>2. QED
    BY <1>11, <1>18, <1>19, <2>1
<1>21. Slot(u, k + 2) = Zero
  <2>1. k + 2 \notin k..(k + r.n - 1)
    BY <1>16
  <2>2. QED
    BY <1>3, <1>18, <1>19, <2>1
<1>22. Slot(u, k + 1) = IF r.n = 2 THEN ShortEnt(n, c, 0) ELSE Zero
  <2>1. CASE r.n = 1
    <3>1. k + 1 \notin k..(k + r.n - 1) /\ r.n # 2
      BY <2>1
    <3>2. QED
      BY <1>3, <1>18, <1>19, <3>1
  <2>2. CASE r.n = 2
    <3>1. k + 1 \in k..(k + r.n - 1) /\ ((k + 1) - k) + 1 = 2
      BY <2>2
    <3>2. Slot(u, k + 1) = buf[((k + 1) - k) + 1]
      BY <1>18, <1>19, <3>1
    <3>3. QED
      BY <1>11, <2>2, <3>1, <3>2
  <2>3. QED
    BY <1>16, <2>1, <2>2
<1>23. ASSUME NEW i \in 0..(k - 1) PROVE Slot(u, i) = Slot(s, i)
  <2>1. i \in 0..(m - 1) /\ i \notin k..(k + r.n - 1) /\ i \notin {k + 1, k + 2}
    BY <1>16, <1>19
  <2>2. QED
    BY <1>3, <1>18, <2>1
<1>24. QED
  BY <1>15, <1>16, <1>20, <1>21, <1>22, <1>23

(* A free cluster becomes a chain of its own.                              *)
TakenTo(u, t, c) ==
    /\ IsState(t) /\ t.vn = u.vn
    /\ t.fat[c] = LastChain /\ \A x \in 0..LastChain : x # c => t.fat[x] = u.fat[x]
    /\ \A x \in FatIndex : x # c => t.data[x] = u.data[x]

(* What fat32_vnode_create does with the cluster.                          *)
LEMMA ClusterTaken ==
    ASSUME NEW u, IsState(u), NEW c \in 1..LastCluster, NEW t,
           t = [fat |-> [u.fat EXCEPT ![c] = LastChain],
                data |-> [u.data EXCEPT ![c] = [@ EXCEPT ![1] = Dots, ![2] = Zero]],
                vn |-> u.vn]
    PROVE  TakenTo(u, t, c)
<1>1. /\ FatOK(u.fat) /\ u.data \in [FatIndex -> [1..ClusterUnits -> AllUnits]]
      /\ u.vn \in [Nodes -> VNode]
  BY StateParts
<1>2. /\ LastChain \in Nat /\ c \in 0..LastChain /\ c # LastChain /\ c \in FatIndex
      /\ LastChain \in 0..LastChain
  BY DiskAssumption DEF LastChain, FatIndex
<1>3. PICK ft : ft = [u.fat EXCEPT ![c] = LastChain]
  OBVIOUS
<1>4. FatOK(ft) /\ ft[c] = LastChain /\ \A x \in 0..LastChain : x # c => ft[x] = u.fat[x]
  BY <1>1, <1>2, <1>3 DEF FatOK
<1>5. PICK b : b = [u.data[c] EXCEPT ![1] = Dots, ![2] = Zero]
  OBVIOUS
<1>6. b \in [1..ClusterUnits -> AllUnits]
  <2>1. Dots \in AllUnits /\ Zero \in AllUnits
    BY DEF AllUnits
  <2>2. u.data[c] \in [1..ClusterUnits -> AllUnits]
    BY <1>1, <1>2
  <2>3. QED
    BY <1>5, <2>1, <2>2
<1>7. PICK d : d = [u.data EXCEPT ![c] = b]
  OBVIOUS
<1>8. /\ d \in [FatIndex -> [1..ClusterUnits -> AllUnits]]
      /\ \A x \in FatIndex : x # c => d[x] = u.data[x]
  BY <1>1, <1>2, <1>6, <1>7
<1>9. t = [fat |-> ft, data |-> d, vn |-> u.vn]
  BY <1>3, <1>5, <1>7
<1>10. IsState(t)
  BY <1>1, <1>4, <1>8, <1>9, StateMade
<1>11. t.fat = ft /\ t.data = d /\ t.vn = u.vn
  BY <1>9
<1>12. QED
  BY <1>4, <1>8, <1>10, <1>11 DEF TakenTo

(* The chains that end do not go through a free cluster, so they stay.     *)
LEMMA TakenKeeps ==
    ASSUME NEW u, IsState(u), NEW c \in 1..LastCluster, u.fat[c] = FreeEntry,
           NEW t, TakenTo(u, t, c), NEW a, EndsWell(u.fat, a)
    PROVE  Kept(u, t, a) /\ c \notin Chain(u.fat, a)
<1>1. FatOK(u.fat) /\ IsState(t)
  BY StateParts DEF TakenTo
<1>2. \A x \in Chain(u.fat, a) : x \in 1..LastCluster /\ x \in FatIndex /\ x # c
  <2>1. PICK n : n = ChainLength(u.fat, a)
    OBVIOUS
  <2>2. QED
    BY <1>1, <2>1, ChainFacts
<1>3. \A x \in Chain(u.fat, a) : t.fat[x] = u.fat[x] /\ t.data[x] = u.data[x]
  <2>1. \A x \in 1..LastCluster : x \in 0..LastChain
    BY DiskAssumption DEF LastChain
  <2>2. QED
    BY <1>2, <2>1 DEF TakenTo
<1>4. QED
  BY <1>1, <1>2, <1>3, KeptChain

(* The new chain has one cluster.                                          *)
LEMMA TakenChain ==
    ASSUME NEW u, NEW c \in 1..LastCluster, NEW t, TakenTo(u, t, c)
    PROVE  EndsWell(t.fat, c) /\ Chain(t.fat, c) = {c} /\ ChainLength(t.fat, c) = 1
<1>1. FatOK(t.fat) /\ t.fat[c] = LastChain
  BY StateParts DEF TakenTo
<1>2. c \in 0..LastChain /\ 1 \in 1..LastCluster
  BY DiskAssumption DEF LastChain
<1>3. After(t.fat, c, 0) = c /\ After(t.fat, c, 1) = LastChain
  BY <1>1, <1>2, AfterSteps, AfterOne
<1>4. \A k \in 0..(1 - 1) : k = 0
  OBVIOUS
<1>5. IsChain(t.fat, c, 1)
  BY <1>2, <1>3, <1>4 DEF IsChain
<1>6. /\ ChainLength(t.fat, c) = 1 /\ EndsWell(t.fat, c)
      /\ Chain(t.fat, c) = {After(t.fat, c, k) : k \in 0..(1 - 1)}
  BY <1>1, <1>2, <1>5, ChainMeasured
<1>7. 0..(1 - 1) = {0}
  OBVIOUS
<1>8. QED
  BY <1>3, <1>6, <1>7

(* Chains that two steps leave alone.                                      *)
LEMMA KeptTwice ==
    ASSUME NEW s, NEW u, NEW t, NEW a, Kept(s, u, a), Kept(u, t, a)
    PROVE  Kept(s, t, a)
BY DEF Kept

(* fat32_vnode_create of a directory.                                      *)
LEMMA CreatedAdded ==
    ASSUME NEW s, Sound(s), NEW k \in Nat, k = FirstUnused(s), k + 2 < DirSize(s),
           NEW n \in NewDirs, NEW c, c = get_free_cluster(s.fat), c # 0,
           NEW t, t = Created(s, n, c)
    PROVE  \E q \in {1, 2} : Added(s, t, k, n, c, q)
<1>1. IsState(s) /\ DirRight(s) /\ FatOK(s.fat) /\ Settled(s, Dir) /\ Dir \in Nodes
  BY StateParts DEF Sound, DirRight, Settled
<1>2. c \in 1..LastCluster /\ s.fat[c] = FreeEntry /\ c \in 0..LastChain
  <2>1. c \in 1..LastCluster /\ s.fat[c] = FreeEntry
    BY <1>1, FreeClusterFound
  <2>2. QED
    BY <2>1, DiskAssumption DEF LastChain
<1>3. PICK r : r = RawWrite(Lseek(FreeSlots(s).s, Dir, FirstUnused(s)).s, Dir, Entry(n, c))
  OBVIOUS
<1>4. PICK u : u = r.s
  OBVIOUS
<1>5. /\ DirStep(s, u) /\ OthersStay(s, u) /\ r.n \in {1, 2}
      /\ Slot(u, k) = LongEnt(n) /\ Slot(u, k + 2) = Zero
      /\ Slot(u, k + 1) = IF r.n = 2 THEN ShortEnt(n, c, 0) ELSE Zero
      /\ \A i \in 0..(k - 1) : Slot(u, i) = Slot(s, i)
  BY <1>1, <1>2, <1>3, <1>4, EntryWritten
<1>6. PICK q \in {1, 2} : q = r.n
  BY <1>5
<1>7. t = IF q # 2 THEN u
          ELSE [fat |-> [u.fat EXCEPT ![c] = LastChain],
                data |-> [u.data EXCEPT ![c] = [@ EXCEPT ![1] = Dots, ![2] = Zero]],
                vn |-> u.vn]
  <2>1. FreeSlots(s).n = 1
    BY <1>1, FreeSlotsMade
  <2>2. Len(Entry(n, c)) = 2
    BY DEF Entry
  <2>3. QED
    BY <1>3, <1>4, <1>6, <2>1, <2>2 DEF Created
<1>8. PICK a : a = s.vn[Dir].start
  OBVIOUS
<1>9. /\ IsState(u) /\ DirRight(u) /\ u.fat = s.fat /\ u.vn[Dir].start = a
      /\ DirSize(u) = DirSize(s)
  BY <1>5, <1>8 DEF DirStep
<1>10. FirstUnused(u) = k + q
  <2>1. PICK m \in Nat : m = DirSize(s)
    BY <1>1, DirFacts
  <2>2. k + q \in 0..m /\ k + q < m
    BY <2>1
  <2>3. Slot(u, k + q) = Zero
    BY <1>5, <1>6
  <2>4. Len(LongEnt(n)) = 2 /\ Len(Zero) = 0
    BY DEF LongEnt, Zero
  <2>5. Slot(u, k) # Zero
    <3>1. LongEnt(n) # Zero
      BY ONLY <2>4
    <3>2. QED
      BY <1>5, <3>1
  <2>6. q = 2 => Slot(u, k + 1) # Zero
    BY <1>5, <1>6, ShortFacts
  <2>7. \A i \in 0..(k - 1) : Slot(s, i) # Zero
    BY <2>1, SlotsFound
  <2>8. ASSUME NEW i \in 0..((k + q) - 1) PROVE Slot(u, i) # Zero
    <3>1. i \in 0..(k - 1) \/ i = k \/ (q = 2 /\ i = k + 1)
      OBVIOUS
    <3>2. QED
      BY <1>5, <2>5, <2>6, <2>7, <3>1
  <2>9. QED
    BY <1>9, <2>1, <2>2, <2>3, <2>8, FirstUnusedIs
<1>11. \A i \in Entered(s) : Kept(s, u, Slot(s, i)[3]) /\ EndsWell(s.fat, Slot(s, i)[3])
  BY <1>5, DirStepKeeps
<1>12. ASSUME NEW f \in Files PROVE u.vn[f] = s.vn[f] /\ (s.vn[f].open => Settled(u, f))
  <2>1. u.vn[f] = s.vn[f]
    BY <1>5, FilesAreNodes DEF OthersStay
  <2>2. ASSUME s.vn[f].open PROVE Settled(u, f)
    <3>1. Settled(s, f)
      BY <2>2 DEF Sound, OpenRight
    <3>2. QED
      BY <1>5, <2>1, <3>1, DirStepSettled
  <2>3. QED
    BY <2>1, <2>2
<1>13. EndsWell(s.fat, a) /\ EndsWell(u.fat, a)
       /\ DirSize(u) = ChainLength(u.fat, a) * ClusterUnits
  BY <1>1, <1>8, <1>9, DirFacts
<1>14. CASE q = 1
  <2>1. t = u /\ q # 2
    BY <1>7, <1>14
  <2>2. QED
    BY <1>5, <1>8, <1>9, <1>10, <1>11, <1>12, <2>1 DEF Added
<1>15. CASE q = 2
  <2>1. TakenTo(u, t, c)
    <3>1. t = [fat |-> [u.fat EXCEPT ![c] = LastChain],
               data |-> [u.data EXCEPT ![c] = [@ EXCEPT ![1] = Dots, ![2] = Zero]],
               vn |-> u.vn]
      BY <1>7, <1>15
    <3>2. QED
      BY <1>2, <1>9, <3>1, ClusterTaken
  <2>2. IsState(t) /\ t.vn = u.vn /\ u.fat[c] = FreeEntry
    BY <1>2, <1>9, <2>1 DEF TakenTo
  <2>3. Kept(u, t, a) /\ c \notin Chain(u.fat, a)
    BY <1>2, <1>9, <1>13, <2>1, <2>2, TakenKeeps
  <2>4. \A i \in 0..(DirSize(u) - 1) : Slot(t, i) = Slot(u, i)
    <3>1. IsState(u) /\ EndsWell(u.fat, a) /\ Kept(u, t, a)
      BY <1>9, <1>13, <2>3
    <3>2. \A i \in 0..(ChainLength(u.fat, a) * ClusterUnits - 1) : UnitAt(t, a, i) = UnitAt(u, a, i)
      BY ONLY <3>1, KeptUnits
    <3>3. QED
      BY <1>9, <1>13, <2>2, <3>2 DEF Slot
  <2>5. SameSlots(u, t) /\ DirSize(u) \in Nat
    BY <1>9, <2>2, <2>4, DirFacts DEF SameSlots, DirSize
  <2>6. FirstUnused(t) = k + q
    BY <1>10, <2>5, SameEntries
  <2>7. DirRight(t)
    <3>1. Settled(u, Dir)
      BY <1>9 DEF DirRight
    <3>2. Settled(t, Dir)
      BY <1>9, <2>2, <2>3, <3>1, KeptSettled
    <3>3. QED
      BY <1>9, <2>2, <3>2 DEF DirRight
  <2>8. ASSUME NEW i \in Entered(s)
        PROVE  Kept(s, t, Slot(s, i)[3]) /\ c \notin Chain(s.fat, Slot(s, i)[3])
    <3>1. PICK b : b = Slot(s, i)[3]
      OBVIOUS
    <3>2. Kept(s, u, b) /\ EndsWell(u.fat, b)
      BY <1>9, <1>11, <3>1
    <3>3. Kept(u, t, b) /\ c \notin Chain(u.fat, b)
      BY <1>2, <1>9, <2>1, <2>2, <3>2, TakenKeeps
    <3>4. QED
      BY <1>9, <3>1, <3>2, <3>3, KeptTwice
  <2>9. ASSUME NEW f \in Files, s.vn[f].open PROVE Settled(t, f)
    <3>1. Settled(u, f) /\ u.vn[f] = s.vn[f]
      BY <1>12, <2>9
    <3>2. EndsWell(u.fat, u.vn[f].start)
      BY <3>1, OwnIsChain
    <3>3. PICK b : b = u.vn[f].start
      OBVIOUS
    <3>4. Kept(u, t, b)
      BY <1>2, <1>9, <2>1, <2>2, <3>2, <3>3, TakenKeeps
    <3>5. QED
      BY <2>2, <3>1, <3>3, <3>4, KeptSettled
  <2>10. \A f \in Files : t.vn[f] = s.vn[f] /\ (s.vn[f].open => Settled(t, f))
    BY <1>12, <2>2, <2>9
  <2>11. EndsWell(t.fat, c) /\ Chain(t.fat, c) = {c} /\ ChainLength(t.fat, c) = 1
    BY <1>2, <2>1, TakenChain
  <2>12. /\ \A i \in 0..(k - 1) : Slot(t, i) = Slot(s, i)
         /\ Slot(t, k) = LongEnt(n) /\ Slot(t, k + 1) = ShortEnt(n, c, 0)
    <3>1. PICK m \in Nat : m = DirSize(u)
      BY <2>5
    <3>2. k \in 0..(m - 1) /\ k + 1 \in 0..(m - 1) /\ \A i \in 0..(k - 1) : i \in 0..(m - 1)
      BY <1>9, <3>1
    <3>3. QED
      BY <1>5, <1>6, <1>15, <2>4, <3>1, <3>2
  <2>13. Chain(t.fat, a) = Chain(s.fat, a) /\ c \notin Chain(s.fat, a)
    BY <1>9, <2>3 DEF Kept
  <2>14. t.vn[Dir].start = a
    BY <1>9, <2>2
  <2>15. Added(s, t, k, n, c, q)
    BY <1>8, <2>2, <2>6, <2>7, <2>8, <2>10, <2>11, <2>12, <2>13, <2>14 DEF Added
  <2>16. QED
    BY <2>15
<1>16. QED
  BY <1>14, <1>15

(* fat32_vnode_create when the directory has room.                         *)
LEMMA CreatedSound ==
    ASSUME NEW s, Sound(s), FirstUnused(s) + 2 < DirSize(s),
           NEW n \in NewDirs, SlotsOf(s, n) = {}, NEW c, c = get_free_cluster(s.fat), c # 0,
           NEW t, t = Created(s, n, c)
    PROVE  /\ Sound(t)
           /\ \A g \in Files : t.vn[g] = s.vn[g] /\ ContentOf(t, g) = ContentOf(s, g)
<1>1. PICK k \in Nat : k = FirstUnused(s)
  BY DirFacts, SlotsFound DEF Sound
<1>2. k + 2 < DirSize(s)
  BY <1>1
<1>3. \E q \in {1, 2} : Added(s, t, k, n, c, q)
  BY <1>1, <1>2, CreatedAdded
<1>4. QED
  BY <1>1, <1>3, AddedSound

------------------------------------------------------------------------------
(* The descriptors.                                                         *)

Descriptors == [FDs -> [pVNode : Files \cup {NoFile}, dwOffs : Nat]]

(* A descriptor is in its file, which is open; a free one is at 0.         *)
FdOK(d, s) ==
    /\ d \in Descriptors
    /\ \A h \in FDs : IF d[h].pVNode = NoFile THEN d[h].dwOffs = 0
                      ELSE /\ s.vn[d[h].pVNode].open
                           /\ d[h].dwOffs <= s.vn[d[h].pVNode].size

(* What the files hold.                                                    *)
FdContents(s) == [f \in Files |-> ContentOf(s, f)]

(* The invariant: the disk is sound, the descriptors agree with the        *)
(* vnodes, and holds is what the files hold.                               *)
FatIInv ==
    /\ ~ DirGrows
    /\ Sound(Now) /\ FdOK(fd, Now) /\ holds = FdContents(Now)

(* What AbstractFile sees of the descriptors.                              *)
FileOf(d) == [h \in FDs |-> d[h].pVNode]
AtOf(d) == [h \in FDs |-> d[h].dwOffs]

(* One descriptor is given a file and a place.                             *)
WithFd(d, h, f, p) == [d EXCEPT ![h] = [pVNode |-> f, dwOffs |-> p]]

(* The change of one descriptor.                                           *)
LEMMA FdChanged ==
    ASSUME NEW d \in Descriptors, NEW h \in FDs, NEW f \in Files \cup {NoFile}, NEW p \in Nat,
           NEW e, e = WithFd(d, h, f, p)
    PROVE  /\ e \in Descriptors
           /\ e[h].pVNode = f /\ e[h].dwOffs = p
           /\ \A g \in FDs : g # h => e[g] = d[g]
           /\ FileOf(e) = [FileOf(d) EXCEPT ![h] = f]
           /\ AtOf(e) = [AtOf(d) EXCEPT ![h] = p]
<1>1. PICK x : x = [pVNode |-> f, dwOffs |-> p]
  OBVIOUS
<1>2. x \in [pVNode : Files \cup {NoFile}, dwOffs : Nat] /\ x.pVNode = f /\ x.dwOffs = p
  BY <1>1
<1>3. e = [d EXCEPT ![h] = x] /\ d \in [FDs -> [pVNode : Files \cup {NoFile}, dwOffs : Nat]]
  BY <1>1 DEF WithFd, Descriptors
<1>4. e \in Descriptors /\ e[h] = x /\ \A g \in FDs : g # h => e[g] = d[g]
  BY <1>2, <1>3 DEF Descriptors
<1>5. FileOf(e) = [FileOf(d) EXCEPT ![h] = f]
  BY <1>2, <1>4 DEF FileOf
<1>6. AtOf(e) = [AtOf(d) EXCEPT ![h] = p]
  BY <1>2, <1>4 DEF AtOf
<1>7. QED
  BY <1>2, <1>4, <1>5, <1>6

(* A descriptor.                                                           *)
LEMMA FdFields ==
    ASSUME NEW d \in Descriptors, NEW h \in FDs
    PROVE  /\ d[h].pVNode \in Files \cup {NoFile} /\ d[h].dwOffs \in Nat
           /\ d[h] = [pVNode |-> d[h].pVNode, dwOffs |-> d[h].dwOffs]
<1>1. d[h] \in [pVNode : Files \cup {NoFile}, dwOffs : Nat]
  BY DEF Descriptors
<1>2. QED
  BY <1>1

(* The files of the descriptors stay open and get no shorter.              *)
LEMMA FdServed ==
    ASSUME NEW d, NEW s, NEW t, IsState(s), IsState(t), FdOK(d, s), Serves(s, t)
    PROVE  FdOK(d, t)
<1>1. ASSUME NEW h \in FDs, d[h].pVNode # NoFile
      PROVE  t.vn[d[h].pVNode].open /\ d[h].dwOffs <= t.vn[d[h].pVNode].size
  <2>1. PICK f \in Files : f = d[h].pVNode
    BY <1>1, FdFields DEF FdOK
  <2>2. PICK p \in Nat : p = d[h].dwOffs
    BY FdFields DEF FdOK
  <2>3. s.vn[f].open /\ p <= s.vn[f].size
    BY <1>1, <2>1, <2>2 DEF FdOK
  <2>4. t.vn[f].open /\ t.vn[f].size >= s.vn[f].size
    BY <2>3 DEF Serves
  <2>5. s.vn[f].size \in Nat /\ t.vn[f].size \in Nat
    BY FilesAreNodes, NodeFields
  <2>6. QED
    BY <2>1, <2>2, <2>3, <2>4, <2>5
<1>2. QED
  BY <1>1 DEF FdOK

(* One of them is given a file and a place.                                *)
LEMMA FdPlaced ==
    ASSUME NEW d, NEW s, FdOK(d, s), NEW h \in FDs, NEW f \in Files, NEW p \in Nat,
           s.vn[f].open, p <= s.vn[f].size, NEW e, e = WithFd(d, h, f, p)
    PROVE  FdOK(e, s)
<1>1. f # NoFile
  BY DiskAssumption
<1>2. d \in Descriptors /\ f \in Files \cup {NoFile}
  BY DEF FdOK
<1>3. /\ e \in Descriptors /\ e[h].pVNode = f /\ e[h].dwOffs = p
      /\ \A g \in FDs : g # h => e[g] = d[g]
  BY <1>2, FdChanged
<1>4. QED
  BY <1>1, <1>3 DEF FdOK

------------------------------------------------------------------------------
(* What the next state is.                                                  *)

LEMMA BecomesNow ==
    ASSUME NEW t, IsState(t), Becomes(t)
    PROVE  Now' = t /\ holds' = FdContents(t)
<1>1. fat' = t.fat /\ data' = t.data /\ vn' = t.vn /\ holds' = [f \in Files |-> ContentOf(t, f)]
  BY DEF Becomes
<1>2. t = [fat |-> t.fat, data |-> t.data, vn |-> t.vn]
  BY StateParts
<1>3. Now' = [fat |-> fat', data |-> data', vn |-> vn']
  BY DEF Now
<1>4. Now' = t
  BY ONLY <1>1, <1>2, <1>3
<1>5. QED
  BY <1>1, <1>4 DEF FdContents

(* The invariant after a call that leaves the disk in t.                   *)
LEMMA IInvNext ==
    ASSUME FatIInv, NEW t, Sound(t), Becomes(t), NEW d, fd' = d, FdOK(d, t)
    PROVE  FatIInv' /\ holds' = FdContents(t)
<1>1. Now' = t /\ holds' = FdContents(t)
  BY BecomesNow DEF Sound
<1>2. Sound(Now)' /\ FdOK(fd, Now)' /\ (holds = FdContents(Now))'
  BY <1>1
<1>3. QED
  BY <1>1, <1>2 DEF FatIInv

(* The same files.                                                         *)
LEMMA SameContents ==
    ASSUME NEW s, NEW t, \A f \in Files : ContentOf(t, f) = ContentOf(s, f)
    PROVE  FdContents(t) = FdContents(s)
BY DEF FdContents

(* The units of a file.                                                    *)
LEMMA UnitsFacts ==
    ASSUME NEW s, NEW c, NEW z \in Nat, NEW u, u = Units(s, c, z)
    PROVE  /\ Len(u) = z /\ DOMAIN u = 1..z
           /\ \A i \in 1..z : u[i] = UnitAt(s, c, i - 1)
BY DEF Units

------------------------------------------------------------------------------
(* The steps.                                                               *)

LEMMA OpenStep ==
    ASSUME FatIInv, NEW h \in FDs, NEW f \in Files, Open(h, f)
    PROVE  FatIInv' /\ Abstract!OpenFile(h)
<1>1. PICK s : s = Now
  OBVIOUS
<1>2. PICK d : d = fd
  OBVIOUS
<1>3. Sound(s) /\ IsState(s) /\ FdOK(d, s) /\ holds = FdContents(s) /\ d \in Descriptors
  BY <1>1, <1>2 DEF FatIInv, Sound, FdOK
<1>4. PICK t : t = Calculated(IF s.vn[f].open THEN s ELSE NewVNode(s, f), f)
  OBVIOUS
<1>5. SlotsOf(s, f) # {} /\ d[h].pVNode = NoFile /\ got' = <<>> /\ Becomes(t)
      /\ fd' = [d EXCEPT ![h].pVNode = f]
  <2>1. vn = s.vn
    BY <1>1 DEF Now
  <2>2. QED
    BY <1>1, <1>2, <1>4, <2>1 DEF Open
<1>6. /\ Sound(t) /\ Serves(s, t) /\ t.vn[f].open
      /\ \A g \in Files : ContentOf(t, g) = ContentOf(s, g)
  BY <1>3, <1>4, <1>5, OpenedSound
<1>7. d[h].dwOffs = 0
  BY <1>3, <1>5 DEF FdOK
<1>8. PICK e : e = WithFd(d, h, f, 0)
  OBVIOUS
<1>9. fd' = e
  <2>1. d[h] = [pVNode |-> d[h].pVNode, dwOffs |-> 0]
    BY <1>3, <1>7, FdFields
  <2>2. [d[h] EXCEPT !.pVNode = f] = [pVNode |-> f, dwOffs |-> 0]
    BY <2>1
  <2>3. QED
    BY <1>5, <1>8, <2>2 DEF WithFd
<1>10. FdOK(d, t)
  BY <1>3, <1>6, FdServed DEF Sound
<1>11. t.vn[f].size >= 0
  BY <1>6, FilesAreNodes, NodeFields DEF Sound
<1>12. FdOK(e, t)
  <2>1. 0 \in Nat /\ 0 <= t.vn[f].size
    BY <1>6, FilesAreNodes, NodeFields DEF Sound
  <2>2. QED
    BY <1>6, <1>8, <1>10, <2>1, FdPlaced
<1>13. FatIInv' /\ holds' = FdContents(t)
  BY <1>5, <1>6, <1>9, <1>12, IInvNext
<1>14. holds' = holds
  BY <1>3, <1>6, <1>13, SameContents
<1>15. FileOf(e) = [FileOf(d) EXCEPT ![h] = f] /\ AtOf(e) = [AtOf(d) EXCEPT ![h] = 0]
  BY <1>3, <1>8, FdChanged
<1>16. Abstract!OpenFile(h)
  <2>1. FileOf(fd)' = [FileOf(fd) EXCEPT ![h] = f] /\ AtOf(fd)' = [AtOf(fd) EXCEPT ![h] = 0]
    BY <1>2, <1>9, <1>15 DEF FileOf, AtOf
  <2>2. FileOf(fd)[h] = NoFile
    BY <1>2, <1>5 DEF FileOf
  <2>3. QED
    BY <1>5, <1>14, <2>1, <2>2 DEF Abstract!OpenFile, FileOf, AtOf
<1>17. QED
  BY <1>13, <1>16

(* kclose: the entry gets the size before the vnode goes.                  *)
LEMMA CloseStep ==
    ASSUME FatIInv, NEW h \in FDs, Close(h)
    PROVE  FatIInv' /\ Abstract!CloseFile(h)
<1>1. PICK s : s = Now
  OBVIOUS
<1>2. PICK d : d = fd
  OBVIOUS
<1>3. Sound(s) /\ IsState(s) /\ FdOK(d, s) /\ holds = FdContents(s) /\ d \in Descriptors
  BY <1>1, <1>2 DEF FatIInv, Sound, FdOK
<1>4. PICK f \in Files : f = d[h].pVNode
  BY <1>2, <1>3, FdFields DEF Close
<1>5. PICK t : t = IF \E g \in FDs \ {h} : d[g].pVNode = f THEN s ELSE VNodeClosed(s, f)
  OBVIOUS
<1>6. PICK e : e = WithFd(d, h, NoFile, 0)
  OBVIOUS
<1>7. Becomes(t) /\ fd' = e /\ got' = <<>>
  BY <1>1, <1>2, <1>4, <1>5, <1>6 DEF Close, WithFd
<1>8. s.vn[f].open
  BY <1>3, <1>4, DiskAssumption DEF FdOK
<1>9. /\ Sound(t) /\ \A g \in Files : ContentOf(t, g) = ContentOf(s, g)
      /\ \A g \in FDs : g # h /\ d[g].pVNode \in Files => t.vn[d[g].pVNode] = s.vn[d[g].pVNode]
  <2>1. CASE \E g \in FDs \ {h} : d[g].pVNode = f
    BY <1>3, <1>5, <2>1
  <2>2. CASE ~ \E g \in FDs \ {h} : d[g].pVNode = f
    <3>1. t = VNodeClosed(s, f)
      BY <1>5, <2>2
    <3>2. /\ Sound(t) /\ \A g \in Files : ContentOf(t, g) = ContentOf(s, g)
          /\ \A g \in Files : g # f => t.vn[g] = s.vn[g]
      BY <1>3, <1>8, <3>1, ClosedSound
    <3>3. QED
      BY <2>2, <3>2
  <2>3. QED
    BY <2>1, <2>2
<1>10. /\ e \in Descriptors /\ e[h].pVNode = NoFile /\ e[h].dwOffs = 0
       /\ \A g \in FDs : g # h => e[g] = d[g]
       /\ FileOf(e) = [FileOf(d) EXCEPT ![h] = NoFile]
       /\ AtOf(e) = [AtOf(d) EXCEPT ![h] = 0]
  BY <1>3, <1>6, FdChanged
<1>11. FdOK(e, t)
  <2>1. ASSUME NEW g \in FDs, g # h
        PROVE  IF e[g].pVNode = NoFile THEN e[g].dwOffs = 0
               ELSE /\ t.vn[e[g].pVNode].open
                    /\ e[g].dwOffs <= t.vn[e[g].pVNode].size
    <3>1. d[g].pVNode # NoFile => d[g].pVNode \in Files
      BY <1>3, FdFields
    <3>2. QED
      BY <1>3, <1>9, <1>10, <2>1, <3>1 DEF FdOK
  <2>2. QED
    BY <1>10, <2>1 DEF FdOK
<1>12. FatIInv' /\ holds' = FdContents(t)
  BY <1>7, <1>9, <1>11, IInvNext
<1>13. holds' = holds
  BY <1>3, <1>9, <1>12, SameContents
<1>14. Abstract!CloseFile(h)
  <2>1. FileOf(fd)' = [FileOf(fd) EXCEPT ![h] = NoFile] /\ AtOf(fd)' = [AtOf(fd) EXCEPT ![h] = 0]
    BY <1>2, <1>7, <1>10 DEF FileOf, AtOf
  <2>2. QED
    BY <1>7, <1>13, <2>1 DEF Abstract!CloseFile, FileOf, AtOf
<1>15. QED
  BY <1>12, <1>14

(* A descriptor with a file.                                               *)
OpenAt(s, d, h, f, p) ==
    /\ Sound(s) /\ IsState(s) /\ FdOK(d, s) /\ d \in Descriptors
    /\ f \in Files /\ f \in Nodes /\ f # NoFile /\ d[h].pVNode = f /\ d[h].dwOffs = p
    /\ s.vn[f].open /\ Settled(s, f) /\ p \in Nat /\ s.vn[f].size \in Nat
    /\ p <= s.vn[f].size
    /\ FdContents(s)[f] = Units(s, s.vn[f].start, s.vn[f].size)

(* What the invariant says of a descriptor in use.                         *)
LEMMA Opened ==
    ASSUME NEW s, NEW d, Sound(s), FdOK(d, s), NEW h \in FDs, d[h].pVNode # NoFile,
           NEW f, f = d[h].pVNode, NEW p, p = d[h].dwOffs
    PROVE  OpenAt(s, d, h, f, p)
<1>1. d \in Descriptors /\ f \in Files /\ p \in Nat
  BY FdFields DEF FdOK
<1>2. s.vn[f].open /\ p <= s.vn[f].size
  BY DEF FdOK
<1>3. IsState(s) /\ Settled(s, f) /\ f \in Nodes /\ f # NoFile
  BY <1>1, <1>2, FilesAreNodes, DiskAssumption DEF Sound, OpenRight
<1>4. s.vn[f].size \in Nat
  BY <1>3, NodeFields
<1>5. FdContents(s)[f] = Units(s, s.vn[f].start, s.vn[f].size)
  BY <1>1, <1>2 DEF FdContents, ContentOf
<1>6. QED
  BY <1>1, <1>2, <1>3, <1>4, <1>5 DEF OpenAt

(* The units of a file fit in its clusters.                                *)
LEMMA SizeFits ==
    ASSUME NEW s, NEW v, Settled(s, v), NEW m, m = s.vn[v].total * ClusterUnits
    PROVE  m \in Nat /\ s.vn[v].size \in 0..m /\ s.vn[v].avail = m - s.vn[v].size
<1>1. PICK x \in Nat : x = s.vn[v].size
  BY NodeFields DEF Settled
<1>2. PICK y \in Nat : y = s.vn[v].avail
  BY NodeFields DEF Settled
<1>3. x + y = m
  BY <1>1, <1>2 DEF Settled
<1>4. QED
  BY <1>1, <1>2, <1>3

------------------------------------------------------------------------------
(* fat32_vnode_read.                                                        *)

LEMMA SliceIs ==
    ASSUME NEW S, NEW c, NEW p \in Nat, NEW k \in Nat, \A i \in 1..k : c[p + i] \in S,
           NEW r, r = [i \in 1..k |-> c[p + i]]
    PROVE  r = SubSeq(c, p + 1, p + k)
<1>1. PICK m \in Int : m = p + 1
  OBVIOUS
<1>2. PICK l \in Int : l = p + k
  OBVIOUS
<1>3. \A i \in m..l : c[i] \in S
  <2>1. ASSUME NEW i \in m..l PROVE c[i] \in S
    <3>1. i - p \in 1..k /\ p + (i - p) = i
      BY <1>1, <1>2
    <3>2. QED
      BY <3>1
  <2>2. QED
    BY <2>1
<1>4. PICK q : q = SubSeq(c, m, l)
  OBVIOUS
<1>5. /\ q \in Seq(S) /\ Len(q) = IF m <= l THEN l - m + 1 ELSE 0
      /\ \A i \in 1 .. l - m + 1 : q[i] = c[m + i - 1]
  BY <1>3, <1>4, SubSeqProperties
<1>6. Len(q) = k /\ l - m + 1 = k
  BY <1>1, <1>2, <1>5
<1>7. q \in [1..k -> S]
  BY <1>5, <1>6, LenProperties
<1>8. \A i \in 1..k : m + i - 1 = p + i
  BY <1>1
<1>9. \A i \in 1..k : q[i] = c[p + i]
  BY <1>5, <1>6, <1>8
<1>10. q = r
  BY <1>7, <1>9
<1>11. QED
  BY <1>1, <1>2, <1>4, <1>10

ReadTo(c, z, p, e, r) ==
    /\ Len(c) = z /\ e \in Nat /\ e >= p /\ e <= z
    /\ Len(r) = e - p /\ r = SubSeq(c, p + 1, e)

(* fat32_vnode_read gives the part of the file that is asked for.          *)
LEMMA ReadGives ==
    ASSUME NEW s, NEW v, Settled(s, v), NEW z \in Nat, z = s.vn[v].size, NEW p \in 0..z,
           NEW n \in Nat, NEW c, c = Units(s, s.vn[v].start, z),
           NEW e, e = (IF p + n < Len(c) THEN p + n ELSE Len(c)),
           NEW r, r = ReadAt(s, v, p, n)
    PROVE  ReadTo(c, z, p, e, r)
<1>1. PICK m : m = s.vn[v].total * ClusterUnits
  OBVIOUS
<1>2. m \in Nat /\ s.vn[v].avail = m - z /\ z <= m
  BY <1>1, SizeFits
<1>3. ClusterUnits * (ChainLength(s.fat, s.vn[v].start) - 1) = m - ClusterUnits
  <2>1. ChainLength(s.fat, s.vn[v].start) = s.vn[v].total
    BY OwnIsChain
  <2>2. s.vn[v].total \in Nat
    BY NodeFields DEF Settled
  <2>3. \A x \in Nat : ClusterUnits * (x - 1) = x * ClusterUnits - ClusterUnits
    BY DiskAssumption
  <2>4. QED
    BY <1>1, <2>1, <2>2, <2>3
<1>15. ClusterUnits \in Nat /\ m - z <= ClusterUnits
  BY <1>2, DiskAssumption DEF Settled
<1>4. (m - ClusterUnits) + (ClusterUnits - (m - z)) = z
  BY <1>2, <1>15
<1>5. PICK k : k = IF p + n < z THEN n ELSE z - p
  OBVIOUS
<1>16. k = IF p + n <= m - ClusterUnits \/ p + n < z THEN n ELSE z - p
  <2>1. p + n <= m - ClusterUnits => p + n <= z
    BY <1>2, <1>15
  <2>2. p + n = z => z - p = n
    OBVIOUS
  <2>3. QED
    BY <1>2, <1>5, <1>15, <2>1, <2>2
<1>6. r = [i \in 1..k |-> UnitAt(s, s.vn[v].start, p + i - 1)]
  BY <1>2, <1>3, <1>4, <1>16 DEF ReadAt
<1>7. Len(c) = z /\ DOMAIN c = 1..z /\ \A i \in 1..z : c[i] = UnitAt(s, s.vn[v].start, i - 1)
  BY UnitsFacts
<1>8. k \in Nat /\ e = p + k /\ e <= z
  <2>1. e = IF p + n < z THEN p + n ELSE z
    BY <1>7
  <2>2. p \in Nat /\ p <= z
    OBVIOUS
  <2>3. QED
    BY ONLY <1>5, <2>1, <2>2, z \in Nat, n \in Nat
<1>9. Len(r) = k
  BY <1>6, <1>8
<1>10. \A i \in 1..k : c[p + i] = UnitAt(s, s.vn[v].start, p + i - 1)
  <2>1. \A i \in 1..k : p + i \in 1..z
    BY <1>8
  <2>2. QED
    BY <1>7, <2>1
<1>11. r = [i \in 1..k |-> c[p + i]]
  BY <1>6, <1>10
<1>12. r = SubSeq(c, p + 1, p + k)
  <2> DEFINE S == {c[i] : i \in 1..z}
  <2>1. \A i \in 1..k : c[p + i] \in S
    <3>1. \A i \in 1..k : p + i \in 1..z
      BY <1>8
    <3>2. QED
      BY <3>1
  <2> HIDE DEF S
  <2>2. p \in Nat
    OBVIOUS
  <2>3. QED
    BY <1>8, <1>11, <2>1, <2>2, SliceIs
<1>13. e - p = k /\ e >= p /\ e \in Nat
  BY <1>8
<1>14. QED
  BY <1>7, <1>8, <1>9, <1>12, <1>13 DEF ReadTo

(* kread.                                                                  *)
LEMMA ReadStep ==
    ASSUME FatIInv, NEW h \in FDs, NEW n \in Sizes, Read(h, n)
    PROVE  FatIInv' /\ Abstract!ReadFile(h)
<1>1. PICK s : s = Now
  OBVIOUS
<1>2. PICK d : d = fd
  OBVIOUS
<1>3. Sound(s) /\ FdOK(d, s) /\ holds = FdContents(s) /\ d[h].pVNode # NoFile
  BY <1>1, <1>2 DEF FatIInv, Read
<1>4. PICK f : f = d[h].pVNode
  OBVIOUS
<1>5. PICK p : p = d[h].dwOffs
  OBVIOUS
<1>6. OpenAt(s, d, h, f, p)
  BY <1>3, <1>4, <1>5, Opened
<1>7. /\ d \in Descriptors /\ f \in Files /\ f # NoFile /\ s.vn[f].open /\ Settled(s, f)
      /\ p \in Nat /\ holds[f] = Units(s, s.vn[f].start, s.vn[f].size)
  BY <1>3, <1>6 DEF OpenAt
<1>8. PICK z \in Nat : z = s.vn[f].size
  BY <1>6 DEF OpenAt
<1>9. p \in 0..z /\ n \in 1..MaxIO /\ n \in Nat
  BY <1>6, <1>8, DiskAssumption DEF OpenAt
<1>10. PICK c : c = Units(s, s.vn[f].start, z)
  OBVIOUS
<1>11. PICK r : r = ReadAt(s, f, p, n)
  OBVIOUS
<1>12. PICK e : e = IF p + n < Len(c) THEN p + n ELSE Len(c)
  OBVIOUS
<1>13. /\ Len(c) = z /\ e \in Nat /\ e >= p /\ e <= z
       /\ Len(r) = e - p /\ r = SubSeq(c, p + 1, e)
  <2>1. ReadTo(c, z, p, e, r)
    BY <1>7, <1>8, <1>9, <1>10, <1>11, <1>12, ReadGives
  <2>2. QED
    BY <2>1 DEF ReadTo
<1>14. PICK g : g = WithFd(d, h, f, e)
  OBVIOUS
<1>15. got' = r /\ UNCHANGED <<fat, data, vn, holds>> /\ fd' = g
  <2>1. got' = r /\ fd' = [d EXCEPT ![h].dwOffs = @ + Len(got')] /\ UNCHANGED <<fat, data, vn, holds>>
    BY <1>1, <1>2, <1>4, <1>5, <1>11 DEF Read
  <2>2. d[h] = [pVNode |-> f, dwOffs |-> p]
    BY <1>4, <1>5, <1>7, FdFields
  <2>3. [d[h] EXCEPT !.dwOffs = @ + Len(r)] = [pVNode |-> f, dwOffs |-> e]
    <3>1. p + Len(r) = e
      BY <1>7, <1>13
    <3>2. QED
      BY <2>2, <3>1
  <2>4. QED
    BY <1>14, <2>1, <2>3 DEF WithFd
<1>16. FdOK(g, s)
  BY <1>3, <1>7, <1>8, <1>13, <1>14, FdPlaced
<1>17. FatIInv'
  <2>1. Now' = s
    BY <1>1, <1>15 DEF Now
  <2>2. Sound(Now)' /\ FdOK(fd, Now)' /\ (holds = FdContents(Now))'
    BY <1>3, <1>15, <1>16, <2>1
  <2>3. QED
    BY <2>2 DEF FatIInv
<1>18. FileOf(g) = [FileOf(d) EXCEPT ![h] = f] /\ AtOf(g) = [AtOf(d) EXCEPT ![h] = e]
  <2>1. d \in Descriptors /\ h \in FDs /\ f \in Files \cup {NoFile} /\ e \in Nat
    BY <1>7, <1>13
  <2>2. QED
    BY ONLY <1>14, <2>1, FdChanged
<1>19. FileOf(d)[h] = f /\ AtOf(d)[h] = p
  BY <1>4, <1>5 DEF FileOf, AtOf
<1>20. FileOf(fd)' = FileOf(fd)
  <2>1. [FileOf(d) EXCEPT ![h] = f] = FileOf(d)
    BY <1>19 DEF FileOf
  <2>2. QED
    BY <1>2, <1>15, <1>18, <2>1 DEF FileOf
<1>21. AtOf(fd)' = [AtOf(fd) EXCEPT ![h] = e]
  BY <1>2, <1>15, <1>18 DEF AtOf
<1>22. Abstract!ReadFile(h)
  <2>1. holds[FileOf(fd)[h]] = c /\ AtOf(fd)[h] = p /\ FileOf(fd)[h] # NoFile
    BY <1>2, <1>7, <1>8, <1>10, <1>19
  <2>2. /\ FileOf(fd)[h] # NoFile
        /\ FileOf(fd)' = FileOf(fd)
        /\ \E c1 \in {holds[FileOf(fd)[h]]}, n1 \in 1..MaxIO :
              LET end == IF AtOf(fd)[h] + n1 < Len(c1) THEN AtOf(fd)[h] + n1 ELSE Len(c1)
              IN  /\ AtOf(fd)' = [AtOf(fd) EXCEPT ![h] = end]
                  /\ got' = SubSeq(c1, AtOf(fd)[h] + 1, end)
        /\ UNCHANGED holds
    BY <1>9, <1>12, <1>13, <1>15, <1>20, <1>21, <2>1
  <2>3. QED
    BY <2>2 DEF Abstract!ReadFile, FileOf, AtOf
<1>23. QED
  BY <1>17, <1>22

------------------------------------------------------------------------------
(* fat32_vnode_write.                                                       *)

(* What AbstractFile says of a write of k units.                           *)
LEMMA PutOverwrites ==
    ASSUME NEW s, NEW t, NEW v, Settled(s, v), NEW p \in Nat, NEW k \in Nat, NEW buf,
           Put(s, t, v, p, k, buf), \A i \in 1..k : buf[i] = Written,
           p + k <= t.vn[v].size,
           NEW c, c = Units(s, s.vn[v].start, s.vn[v].size),
           NEW d, d = Units(t, t.vn[v].start, t.vn[v].size)
    PROVE  Abstract!Overwritten(c, p, k, d)
<1>1. PICK z \in Nat : z = s.vn[v].size
  BY NodeFields DEF Settled
<1>2. Settled(t, v) /\ Grows(s, t, v)
  BY DEF Put
<1>3. PICK y \in Nat : y = t.vn[v].size
  BY <1>2, NodeFields DEF Settled
<1>4. z <= y
  BY <1>1, <1>2, <1>3 DEF Grows
<1>5. PICK a : a = s.vn[v].start
  OBVIOUS
<1>6. PICK m : m = s.vn[v].total * ClusterUnits
  OBVIOUS
<1>7. PICK n : n = t.vn[v].total * ClusterUnits
  OBVIOUS
<1>8. m \in Nat /\ z <= m
  BY <1>1, <1>6, SizeFits
<1>9. n \in Nat /\ y <= n
  BY <1>2, <1>3, <1>7, SizeFits
<1>10. Len(c) = z /\ \A i \in 1..z : c[i] = UnitAt(s, a, i - 1)
  BY <1>1, <1>5, UnitsFacts
<1>11. PICK b : b = t.vn[v].start
  OBVIOUS
<1>12. Len(d) = y /\ \A i \in 1..y : d[i] = UnitAt(t, b, i - 1)
  BY <1>3, <1>11, UnitsFacts
<1>13. \A i \in 0..(n - 1) :
            /\ i \in p..(p + k - 1) => UnitAt(t, b, i) = buf[(i - p) + 1]
            /\ i \notin p..(p + k - 1) /\ i < m => UnitAt(t, b, i) = UnitAt(s, a, i)
  BY <1>5, <1>6, <1>7, <1>11 DEF Put
<1>14. ASSUME NEW i \in 1..y
       PROVE  IF i \in p + 1..p + k THEN d[i] = Written ELSE i <= z => d[i] = c[i]
  <2>1. i - 1 \in 0..(n - 1)
    BY <1>9
  <2>2. CASE i \in p + 1..p + k
    <3>1. i - 1 \in p..(p + k - 1) /\ ((i - 1) - p) + 1 \in 1..k
      BY <2>2
    <3>2. QED
      BY <1>12, <1>13, <2>1, <2>2, <3>1
  <2>3. CASE i \notin p + 1..p + k
    <3>1. i - 1 \notin p..(p + k - 1)
      BY <2>3
    <3>2. ASSUME i <= z PROVE d[i] = c[i]
      <4>1. i - 1 < m /\ i \in 1..z
        BY <1>8, <3>2
      <4>2. QED
        BY <1>10, <1>12, <1>13, <2>1, <3>1, <4>1
    <3>3. QED
      BY <2>3, <3>2
  <2>4. QED
    BY <2>2, <2>3
<1>15. QED
  BY <1>3, <1>4, <1>10, <1>12, <1>14 DEF Abstract!Overwritten

(* What fat32_vnode_write does to a file, its length and the others.       *)
FileWritten(s, t, f, p, k) ==
    /\ Sound(t) /\ Serves(s, t) /\ p + k <= t.vn[f].size
    /\ Abstract!Overwritten(FdContents(s)[f], p, k, FdContents(t)[f])
    /\ \A g \in Files : g # f => FdContents(t)[g] = FdContents(s)[g]

(* fat32_vnode_write writes k units at p, in this file and no other.       *)
LEMMA WriteMade ==
    ASSUME NEW s, NEW d, NEW h \in FDs, NEW f, NEW p, OpenAt(s, d, h, f, p),
           NEW n \in Nat, n >= 1, NEW buf, buf = [i \in 1..n |-> Written],
           NEW r, r = WriteAt(s, f, p, buf)
    PROVE  r.n \in Int /\ \E k \in 0..n : k = (IF r.n > 0 THEN r.n ELSE 0) /\ FileWritten(s, r.s, f, p, k)
<1>1. /\ Sound(s) /\ f \in Files /\ f \in Nodes /\ s.vn[f].open /\ Settled(s, f) /\ p \in Nat
      /\ s.vn[f].size \in Nat /\ p \in 0..s.vn[f].size /\ IsState(s)
      /\ FdContents(s)[f] = Units(s, s.vn[f].start, s.vn[f].size)
  BY DEF OpenAt
<1>2. /\ buf \in Seq(AllUnits) /\ Len(buf) = n /\ \A i \in 1..n : buf[i] = Written
  <2>1. Written \in AllUnits
    BY DEF AllUnits
  <2>2. QED
    BY <2>1
<1>3. WrittenResult(s, r, f, p, buf)
  <2>1. Len(buf) >= 1 /\ p \in 0..s.vn[f].size /\ Settled(s, f) /\ buf \in Seq(AllUnits)
    BY <1>1, <1>2
  <2>2. r = WriteAt(s, f, p, buf)
    OBVIOUS
  <2>3. QED
    BY ONLY <2>1, <2>2, WriteAtSettled
<1>4. PICK t : t = r.s
  OBVIOUS
<1>5. r.n \in {-1} \cup 1..n
  BY <1>2, <1>3 DEF WrittenResult
<1>6. PICK k \in 0..n : k = (IF r.n > 0 THEN r.n ELSE 0) /\ k = (IF r.n < 0 THEN 0 ELSE r.n)
  <2>1. CASE r.n = -1
    <3>1. 0 \in 0..n /\ ~ -1 > 0 /\ -1 < 0
      OBVIOUS
    <3>2. QED
      BY <2>1, <3>1
  <2>2. CASE r.n \in 1..n
    <3>1. r.n > 0 /\ ~ r.n < 0 /\ r.n \in 0..n
      BY <2>2
    <3>2. QED
      BY <3>1
  <2>3. QED
    BY <1>5, <2>1, <2>2
<1>7. Put(s, t, f, p, k, buf) /\ (r.n >= 0 => p + n <= t.vn[f].size)
  BY <1>2, <1>3, <1>4, <1>6 DEF WrittenResult
<1>8. /\ Sound(t) /\ \A g \in Files : g # f => t.vn[g] = s.vn[g] /\ ContentOf(t, g) = ContentOf(s, g)
  BY <1>1, <1>7, WriteSound
<1>9. t.vn[f].open = s.vn[f].open /\ t.vn[f].size >= s.vn[f].size /\ t.vn[f].size \in Nat
  BY <1>1, <1>7, <1>8, NodeFields DEF Put, Grows, Sound
<1>10. p + k <= t.vn[f].size
  <2>1. PICK y \in Nat : y = t.vn[f].size
    BY <1>9
  <2>2. PICK z \in Nat : z = s.vn[f].size
    BY <1>1
  <2>3. p <= z /\ z <= y /\ p \in Nat
    BY <1>1, <1>9, <2>1, <2>2
  <2>4. k = 0 \/ (r.n >= 0 /\ k <= n)
    BY <1>5, <1>6
  <2>5. k = 0 \/ (p + n <= y /\ k <= n)
    BY <1>7, <2>1, <2>4
  <2>6. p + k <= y
    BY ONLY <2>3, <2>5, k \in 0..n, n \in Nat, y \in Nat, z \in Nat
  <2>7. QED
    BY <2>1, <2>6
<1>11. FdContents(t)[f] = Units(t, t.vn[f].start, t.vn[f].size)
  BY <1>1, <1>9 DEF FdContents, ContentOf
<1>12. Abstract!Overwritten(FdContents(s)[f], p, k, FdContents(t)[f])
  <2>1. PICK c : c = Units(s, s.vn[f].start, s.vn[f].size)
    OBVIOUS
  <2>2. PICK e : e = Units(t, t.vn[f].start, t.vn[f].size)
    OBVIOUS
  <2>3. k \in Nat /\ \A i \in 1..k : buf[i] = Written
    BY <1>2
  <2>4. Abstract!Overwritten(c, p, k, e)
    BY <1>1, <1>7, <1>10, <2>1, <2>2, <2>3, PutOverwrites
  <2>5. QED
    BY <1>1, <1>11, <2>1, <2>2, <2>4
<1>13. \A g \in Files : g # f => FdContents(t)[g] = FdContents(s)[g]
  BY <1>8 DEF FdContents
<1>14. Serves(s, t)
  <2>1. ASSUME NEW g \in Files, s.vn[g].open PROVE t.vn[g].open /\ t.vn[g].size >= s.vn[g].size
    <3>1. CASE g = f
      BY <1>1, <1>9, <3>1
    <3>2. CASE g # f
      <4>1. t.vn[g] = s.vn[g] /\ s.vn[g].size \in Nat
        BY <1>1, <1>8, <3>2, FilesAreNodes, NodeFields
      <4>2. QED
        BY <2>1, <4>1
    <3>3. QED
      BY <3>1, <3>2
  <2>2. QED
    BY <2>1 DEF Serves
<1>15. r.n \in Int
  BY <1>5
<1>16. FileWritten(s, r.s, f, p, k)
  BY <1>4, <1>8, <1>10, <1>12, <1>13, <1>14 DEF FileWritten
<1>17. QED
  BY <1>6, <1>15, <1>16

(* kwrite.                                                                 *)
LEMMA WriteStep ==
    ASSUME FatIInv, NEW h \in FDs, NEW n \in Sizes, Write(h, n)
    PROVE  FatIInv' /\ Abstract!WriteFile(h)
<1>1. PICK s : s = Now
  OBVIOUS
<1>2. PICK d : d = fd
  OBVIOUS
<1>3. Sound(s) /\ FdOK(d, s) /\ holds = FdContents(s) /\ d[h].pVNode # NoFile
  BY <1>1, <1>2 DEF FatIInv, Write
<1>4. PICK f : f = d[h].pVNode
  OBVIOUS
<1>5. PICK p : p = d[h].dwOffs
  OBVIOUS
<1>6. OpenAt(s, d, h, f, p)
  BY <1>3, <1>4, <1>5, Opened
<1>7. /\ d \in Descriptors /\ f \in Files /\ f # NoFile /\ s.vn[f].open /\ p \in Nat /\ IsState(s)
  BY <1>6 DEF OpenAt
<1>8. n \in 1..MaxIO /\ n \in Nat /\ n >= 1 /\ MaxIO \in Nat
  BY DiskAssumption
<1>9. PICK buf : buf = [i \in 1..n |-> Written]
  OBVIOUS
<1>10. PICK r : r = WriteAt(s, f, p, buf)
  OBVIOUS
<1>11. r.n \in Int /\ \E k \in 0..n : /\ k = (IF r.n > 0 THEN r.n ELSE 0)
                                     /\ FileWritten(s, r.s, f, p, k)
  BY <1>6, <1>8, <1>9, <1>10, WriteMade
<1>12. PICK k \in 0..n : k = (IF r.n > 0 THEN r.n ELSE 0) /\ FileWritten(s, r.s, f, p, k)
  BY <1>11
<1>13. PICK t : t = r.s
  OBVIOUS
<1>14. /\ Sound(t) /\ Serves(s, t) /\ p + k <= t.vn[f].size
       /\ Abstract!Overwritten(FdContents(s)[f], p, k, FdContents(t)[f])
       /\ \A g \in Files : g # f => FdContents(t)[g] = FdContents(s)[g]
  BY <1>12, <1>13 DEF FileWritten
<1>15. PICK q \in Nat : q = p + k
  BY <1>7
<1>16. PICK e : e = WithFd(d, h, f, q)
  OBVIOUS
<1>17. Becomes(t) /\ fd' = e /\ got' = <<>>
  <2>1. /\ Becomes(r.s) /\ got' = <<>>
        /\ fd' = [d EXCEPT ![h].dwOffs = IF r.n > 0 THEN @ + r.n ELSE @]
    BY <1>1, <1>2, <1>4, <1>5, <1>9, <1>10 DEF Write
  <2>2. d[h] = [pVNode |-> f, dwOffs |-> p]
    BY <1>4, <1>5, <1>7, FdFields
  <2>3. q = IF r.n > 0 THEN p + r.n ELSE p
    BY <1>7, <1>12, <1>15
  <2>4. [d[h] EXCEPT !.dwOffs = IF r.n > 0 THEN @ + r.n ELSE @] = [pVNode |-> f, dwOffs |-> q]
    BY <2>2, <2>3
  <2>5. QED
    BY <1>13, <1>16, <2>1, <2>4 DEF WithFd
<1>18. FdOK(e, t)
  <2>1. FdOK(d, t) /\ t.vn[f].open
    BY <1>3, <1>7, <1>14, FdServed DEF Sound, Serves
  <2>2. q <= t.vn[f].size
    BY <1>14, <1>15
  <2>3. QED
    BY <1>7, <1>16, <2>1, <2>2, FdPlaced
<1>19. FatIInv' /\ holds' = FdContents(t)
  BY <1>14, <1>17, <1>18, IInvNext
<1>20. FileOf(e) = [FileOf(d) EXCEPT ![h] = f] /\ AtOf(e) = [AtOf(d) EXCEPT ![h] = q]
  BY <1>7, <1>16, FdChanged
<1>21. FileOf(d)[h] = f /\ AtOf(d)[h] = p
  BY <1>4, <1>5 DEF FileOf, AtOf
<1>22. FileOf(fd)' = FileOf(fd)
  <2>1. [FileOf(d) EXCEPT ![h] = f] = FileOf(d)
    BY <1>21 DEF FileOf
  <2>2. QED
    BY <1>2, <1>17, <1>20, <2>1 DEF FileOf
<1>23. AtOf(fd)' = [AtOf(fd) EXCEPT ![h] = @ + k]
  <2>1. AtOf(e) = [AtOf(d) EXCEPT ![h] = AtOf(d)[h] + k]
    BY <1>15, <1>20, <1>21
  <2>2. QED
    BY <1>2, <1>17, <2>1 DEF AtOf
<1>24. Abstract!WriteFile(h)
  <2>1. FileOf(fd)[h] = f /\ AtOf(fd)[h] = p
    BY <1>2, <1>21
  <2>2. k \in 0..MaxIO
    BY <1>8
  <2>3. /\ FileOf(fd)[h] # NoFile
        /\ FileOf(fd)' = FileOf(fd)
        /\ got' = <<>>
        /\ \E k1 \in 0..MaxIO :
            /\ AtOf(fd)' = [AtOf(fd) EXCEPT ![h] = @ + k1]
            /\ \E c \in {holds[FileOf(fd)[h]]}, c1 \in {holds'[FileOf(fd)[h]]} :
                  Abstract!Overwritten(c, AtOf(fd)[h], k1, c1)
        /\ DOMAIN holds' = Files
        /\ \A g \in Files \ {FileOf(fd)[h]} : holds'[g] = holds[g]
    <3>1. DOMAIN holds' = Files
      BY <1>19 DEF FdContents
    <3>2. Abstract!Overwritten(holds[FileOf(fd)[h]], AtOf(fd)[h], k, holds'[FileOf(fd)[h]])
      BY <1>3, <1>14, <1>19, <2>1
    <3>3. \A g \in Files \ {FileOf(fd)[h]} : holds'[g] = holds[g]
      BY <1>3, <1>14, <1>19, <2>1
    <3>4. QED
      BY <1>7, <1>17, <1>22, <1>23, <2>1, <2>2, <3>1, <3>2, <3>3
  <2>4. QED
    BY <2>3 DEF Abstract!WriteFile, FileOf, AtOf
<1>25. QED
  BY <1>19, <1>24

------------------------------------------------------------------------------
(* klseek.                                                                  *)

LEMMA SeekStep ==
    ASSUME FatIInv, NEW h \in FDs, fd[h].pVNode # NoFile,
           NEW l \in Int, NEW own \in Int, NEW shared \in Int, Seek(h, l, own, shared)
    PROVE  FatIInv' /\ Abstract!SeekFile(h)
<1>1. PICK s : s = Now
  OBVIOUS
<1>2. PICK d : d = fd
  OBVIOUS
<1>3. Sound(s) /\ FdOK(d, s) /\ holds = FdContents(s) /\ d[h].pVNode # NoFile
  BY <1>1, <1>2 DEF FatIInv
<1>4. PICK f : f = d[h].pVNode
  OBVIOUS
<1>5. PICK p : p = d[h].dwOffs
  OBVIOUS
<1>6. OpenAt(s, d, h, f, p)
  BY <1>3, <1>4, <1>5, Opened
<1>7. /\ d \in Descriptors /\ f \in Files /\ f \in Nodes /\ f # NoFile /\ s.vn[f].open
      /\ p \in Nat /\ IsState(s) /\ Settled(s, f)
      /\ holds[f] = Units(s, s.vn[f].start, s.vn[f].size)
  BY <1>3, <1>6 DEF OpenAt
<1>8. PICK z \in Nat : z = s.vn[f].size
  BY <1>6 DEF OpenAt
<1>9. p \in 0..z
  BY <1>6, <1>8 DEF OpenAt
<1>10. PICK j \in Int : j = shared + l
  OBVIOUS
<1>11. PICK r : r = Lseek(s, f, j)
  OBVIOUS
<1>12. SoughtTo(s, f, j, r)
  BY <1>7, <1>10, <1>11, LseekSettled
<1>13. PICK t : t = r.s
  OBVIOUS
<1>14. Settled(t, f) /\ OnlyCursor(s, t, f) /\ r.n \in 0..z
  BY <1>8, <1>12, <1>13 DEF SoughtTo
<1>15. Sound(t) /\ Serves(s, t) /\ \A g \in Files : ContentOf(t, g) = ContentOf(s, g)
  BY <1>3, <1>7, <1>14, CursorSound
<1>16. PICK q \in 0..z : q = IF r.n = Clipped(s, f, own + l) THEN r.n ELSE p
  BY <1>9, <1>14
<1>17. PICK e : e = WithFd(d, h, f, q)
  OBVIOUS
<1>18. Becomes(t) /\ fd' = e /\ got' = <<>>
  <2>1. /\ Becomes(r.s) /\ got' = <<>>
        /\ fd' = [d EXCEPT ![h].dwOffs = IF r.n = Clipped(s, f, own + l) THEN r.n ELSE @]
    BY <1>1, <1>2, <1>4, <1>10, <1>11 DEF Seek
  <2>2. d[h] = [pVNode |-> f, dwOffs |-> p]
    BY <1>4, <1>5, <1>7, FdFields
  <2>3. [d[h] EXCEPT !.dwOffs = IF r.n = Clipped(s, f, own + l) THEN r.n ELSE @]
            = [pVNode |-> f, dwOffs |-> q]
    BY <1>16, <2>2
  <2>4. QED
    BY <1>13, <1>17, <2>1, <2>3 DEF WithFd
<1>19. FdOK(e, t)
  <2>1. FdOK(d, t) /\ t.vn[f].open
    BY <1>3, <1>7, <1>15, FdServed DEF Sound, Serves
  <2>2. t.vn[f].size = z
    BY <1>8, <1>14 DEF OnlyCursor, SameFile
  <2>3. q \in Nat /\ q <= t.vn[f].size
    BY <1>16, <2>2
  <2>4. QED
    BY <1>7, <1>17, <2>1, <2>3, FdPlaced
<1>20. FatIInv' /\ holds' = FdContents(t)
  BY <1>15, <1>18, <1>19, IInvNext
<1>21. holds' = holds
  BY <1>3, <1>15, <1>20, SameContents
<1>22. FileOf(e) = [FileOf(d) EXCEPT ![h] = f] /\ AtOf(e) = [AtOf(d) EXCEPT ![h] = q]
  <2>1. q \in Nat
    BY <1>16
  <2>2. QED
    BY <1>7, <1>17, <2>1, FdChanged
<1>23. FileOf(d)[h] = f
  BY <1>4 DEF FileOf
<1>24. FileOf(fd)' = FileOf(fd)
  <2>1. [FileOf(d) EXCEPT ![h] = f] = FileOf(d)
    BY <1>23 DEF FileOf
  <2>2. QED
    BY <1>2, <1>18, <1>22, <2>1 DEF FileOf
<1>25. AtOf(fd)' = [AtOf(fd) EXCEPT ![h] = q]
  BY <1>2, <1>18, <1>22 DEF AtOf
<1>26. Abstract!SeekFile(h)
  <2>1. Len(holds[FileOf(fd)[h]]) = z
    BY <1>2, <1>7, <1>8, <1>23, UnitsFacts
  <2>2. /\ FileOf(fd)[h] # NoFile
        /\ FileOf(fd)' = FileOf(fd)
        /\ got' = <<>>
        /\ \E p1 \in 0..Len(holds[FileOf(fd)[h]]) : AtOf(fd)' = [AtOf(fd) EXCEPT ![h] = p1]
        /\ UNCHANGED holds
    BY <1>2, <1>7, <1>16, <1>18, <1>21, <1>23, <1>24, <1>25, <2>1
  <2>3. QED
    BY <2>2 DEF Abstract!SeekFile, FileOf, AtOf
<1>27. QED
  BY <1>20, <1>26

(* klseek from the start, the cursor or the end.                           *)
LEMMA SeeksStep ==
    ASSUME FatIInv, NEW h \in FDs,
           (\E l \in SeekPlaces : SeekSet(h, l)) \/ SeekCur(h) \/ SeekEnd(h)
    PROVE  FatIInv' /\ Abstract!SeekFile(h)
<1>1. ASSUME NEW l \in SeekPlaces, SeekSet(h, l) PROVE FatIInv' /\ Abstract!SeekFile(h)
  BY <1>1, SeekStep, DiskAssumption DEF SeekSet
<1>2. ASSUME fd[h].pVNode # NoFile
      PROVE  /\ fd[h].dwOffs \in Int /\ vn[fd[h].pVNode].pos \in Int
             /\ vn[fd[h].pVNode].size \in Int
  <2>1. PICK f \in Files : f = fd[h].pVNode
    BY <1>2, FdFields DEF FatIInv, FdOK
  <2>2. Now.vn[f].pos \in Nat /\ Now.vn[f].size \in Nat
    BY FilesAreNodes, NodeFields DEF FatIInv, Sound
  <2>3. Now.vn = vn
    BY DEF Now
  <2>4. fd[h].dwOffs \in Nat
    BY FdFields DEF FatIInv, FdOK
  <2>5. QED
    BY <2>1, <2>2, <2>3, <2>4
<1>3. CASE SeekCur(h)
  BY <1>2, <1>3, SeekStep DEF SeekCur
<1>4. CASE SeekEnd(h)
  BY <1>2, <1>4, SeekStep DEF SeekEnd
<1>5. QED
  BY <1>1, <1>3, <1>4

------------------------------------------------------------------------------
(* kmkdir.                                                                  *)

LEMMA MkdirStep ==
    ASSUME FatIInv, NEW n \in NewDirs, Mkdir(n)
    PROVE  FatIInv' /\ got' = <<>> /\ UNCHANGED <<fd, holds>>
<1>1. PICK s : s = Now
  OBVIOUS
<1>2. PICK d : d = fd
  OBVIOUS
<1>3. Sound(s) /\ FdOK(d, s) /\ holds = FdContents(s) /\ HasRoom(s) /\ DirRight(s) /\ IsState(s)
  BY <1>1, <1>2 DEF FatIInv, Mkdir, Sound
<1>4. PICK u : u = EntryFound(s, n)
  OBVIOUS
<1>5. PICK c : c = get_free_cluster(s.fat)
  OBVIOUS
<1>6. PICK t : t = IF SlotsOf(s, n) # {} \/ c = 0 THEN u ELSE Created(u, n, c)
  OBVIOUS
<1>7. Becomes(t) /\ got' = <<>> /\ fd' = d
  <2>1. fat = s.fat
    BY <1>1 DEF Now
  <2>2. QED
    BY <1>1, <1>2, <1>4, <1>5, <1>6, <2>1 DEF Mkdir
<1>8. OnlyCursor(s, u, Dir) /\ DirRight(u) /\ Settled(u, Dir) /\ Dir \in Nodes
  BY <1>3, <1>4, EntryFoundSettled, FilesAreNodes DEF DirRight
<1>9. /\ Sound(u) /\ Serves(s, u)
      /\ DirSize(u) = DirSize(s) /\ FirstUnused(u) = FirstUnused(s)
      /\ SlotsOf(u, n) = SlotsOf(s, n)
      /\ \A f \in Files : ContentOf(u, f) = ContentOf(s, f)
  BY <1>3, <1>8, CursorSound
<1>10. u.fat = s.fat
  BY <1>8 DEF OnlyCursor
<1>11. /\ Sound(t) /\ Serves(s, t) /\ \A f \in Files : ContentOf(t, f) = ContentOf(s, f)
  <2>1. CASE SlotsOf(s, n) # {} \/ c = 0
    BY <1>6, <1>9, <2>1
  <2>2. CASE ~ (SlotsOf(s, n) # {} \/ c = 0)
    <3>1. t = Created(u, n, c) /\ c = get_free_cluster(u.fat) /\ c # 0 /\ SlotsOf(u, n) = {}
      BY <1>5, <1>6, <1>9, <1>10, <2>2
    <3>2. FirstUnused(u) + 2 < DirSize(u)
      <4>1. Len(Entry(Dir, 0)) = 2
        BY DEF Entry
      <4>2. QED
        BY <1>3, <1>9, <4>1 DEF HasRoom, DirSize
    <3>3. /\ Sound(t)
          /\ \A g \in Files : t.vn[g] = u.vn[g] /\ ContentOf(t, g) = ContentOf(u, g)
      BY <1>9, <3>1, <3>2, CreatedSound
    <3>4. Serves(s, t)
      BY <1>9, <3>3 DEF Serves
    <3>5. QED
      BY <1>9, <3>3, <3>4
  <2>3. QED
    BY <2>1, <2>2
<1>12. FdOK(d, t)
  BY <1>3, <1>11, FdServed DEF Sound
<1>13. FatIInv' /\ holds' = FdContents(t)
  BY <1>7, <1>11, <1>12, IInvNext
<1>14. holds' = holds
  BY <1>3, <1>11, <1>13, SameContents
<1>15. QED
  BY <1>2, <1>7, <1>13, <1>14

------------------------------------------------------------------------------
(* The disk at first.                                                       *)

LEMMA MountedSound ==
    ASSUME NEW d \in Disks, NEW s, s = Mounted(d)
    PROVE  Sound(s) /\ \A f \in Files : ~ s.vn[f].open
<1>1. /\ d.fat \in [0..LastChain -> 0..LastChain] /\ d.fat[LastChain] = LastChain
      /\ d.data = [c \in FatIndex |-> [i \in 1..ClusterUnits |-> d.data[c][i]]]
      /\ EndsWell(d.fat, 1) /\ EntriesApart(s) /\ NoSpareCluster(s)
  BY DisksAssumption
<1>2. FatOK(d.fat)
  BY <1>1 DEF FatOK
<1>3. PICK n : n = ChainLength(d.fat, 1)
  OBVIOUS
<1>4. 1 \in 0..LastChain /\ n \in Nat /\ n >= 1 /\ IsChain(d.fat, 1, n)
  BY <1>1, <1>2, <1>3, ChainFacts
<1>5. PICK m \in Nat : m = n * ClusterUnits
  BY <1>4, DiskAssumption
<1>6. PICK l \in 0..LastChain : l = After(d.fat, 1, n - 1)
  <2>1. n - 1 \in Nat
    BY <1>4
  <2>2. QED
    BY <1>2, <1>4, <2>1, AfterSteps
<1>7. PICK root : root = [Closed EXCEPT !.open = TRUE, !.start = 1, !.cur = 1, !.total = n,
                                        !.last = l, !.size = m]
  OBVIOUS
<1>8. /\ root.open /\ root.start = 1 /\ root.cur = 1 /\ root.off = 0 /\ root.pos = 0
      /\ root.total = n /\ root.last = l /\ root.size = m /\ root.avail = 0
      /\ root \in VNode
  <2>1. 0 \in 0..LastChain
    BY DiskAssumption DEF LastChain
  <2>2. QED
    BY <1>4, <1>7, <2>1 DEF Closed, VNode
<1>9. Closed \in VNode /\ ~ Closed.open
  BY DiskAssumption DEF Closed, VNode, LastChain
<1>10. PICK nodes : nodes = [f \in Nodes |-> IF f = Dir THEN root ELSE Closed]
  OBVIOUS
<1>11. /\ nodes \in [Nodes -> VNode] /\ nodes[Dir] = root
       /\ \A f \in Files : nodes[f] = Closed
  BY <1>8, <1>9, <1>10, FilesAreNodes
<1>12. s = [fat |-> d.fat, data |-> d.data, vn |-> nodes]
  BY <1>3, <1>5, <1>6, <1>7, <1>10 DEF Mounted
<1>13. d.data \in [FatIndex -> [1..ClusterUnits -> AllUnits]]
  <2>1. \A c \in FatIndex, i \in 1..ClusterUnits : d.data[c][i] \in AllUnits
    BY DEF AllUnits, DiskUnits
  <2>2. QED
    BY <1>1, <2>1
<1>14. IsState(s)
  BY <1>2, <1>11, <1>12, <1>13, StateMade
<1>15. s.fat = d.fat /\ s.vn[Dir] = root /\ \A f \in Files : ~ s.vn[f].open
  BY <1>9, <1>11, <1>12
<1>16. Settled(s, Dir)
  <2>1. CursorAt(s.fat, root, 1, 0, 0)
    <3>1. 1 = After(d.fat, 1, 0)
      BY <1>2, <1>4, AfterSteps
    <3>2. 0 \in 0..(n - 1) /\ 0 \in 0..ClusterUnits /\ 0 = 0 * ClusterUnits + 0
      BY <1>4, DiskAssumption
    <3>3. 1 # LastChain
      BY DiskAssumption DEF LastChain
    <3>4. QED
      BY <1>8, <1>15, <3>1, <3>2, <3>3 DEF CursorAt
  <2>2. m + 0 = m /\ 0 <= m /\ 0 <= ClusterUnits
    BY <1>5, DiskAssumption
  <2>3. QED
    BY <1>4, <1>5, <1>6, <1>8, <1>14, <1>15, <2>1, <2>2, FilesAreNodes DEF Settled
<1>17. DirRight(s)
  BY <1>8, <1>15, <1>16 DEF DirRight
<1>18. ClosedTight(s)
  <2>1. DirSize(s) \in Nat
    BY <1>17, DirFacts
  <2>2. ASSUME NEW f \in Files, SlotsOf(s, f) # {} PROVE TightSlot(s, Least(SlotsOf(s, f)))
    <3>1. Least(SlotsOf(s, f)) \in Entered(s)
      BY <2>1, <2>2, NamedSlot
    <3>2. QED
      BY <1>1, <3>1 DEF NoSpareCluster, TightSlot
  <2>3. QED
    BY <2>2 DEF ClosedTight
<1>19. QED
  BY <1>1, <1>14, <1>15, <1>17, <1>18 DEF Sound

(* The invariant holds of a disk that has just been mounted.               *)
LEMMA FatInitIInv ==
    ASSUME FatInit, ~ DirGrows
    PROVE  FatIInv /\ Abstract!FileInit
<1>1. PICK d \in Disks : LET s == Mounted(d)
                         IN  /\ fat = s.fat /\ data = s.data /\ vn = s.vn
                             /\ holds = [f \in Files |-> ContentOf(s, f)]
  BY DEF FatInit
<1>2. PICK s : s = Mounted(d)
  OBVIOUS
<1>3. Sound(s)
  BY <1>2, MountedSound
<1>4. Now = s /\ holds = FdContents(s)
  <2>1. s = [fat |-> s.fat, data |-> s.data, vn |-> s.vn]
    BY <1>3, StateParts DEF Sound
  <2>2. QED
    BY <1>1, <1>2, <2>1 DEF Now, FdContents
<1>5. fd = [h \in FDs |-> [pVNode |-> NoFile, dwOffs |-> 0]] /\ got = <<>>
  BY DEF FatInit
<1>6. FdOK(fd, s)
  BY <1>5 DEF FdOK, Descriptors
<1>7. FatIInv
  BY <1>3, <1>4, <1>6 DEF FatIInv
<1>8. Abstract!FileInit
  BY <1>4, <1>5 DEF Abstract!FileInit, FdContents
<1>9. QED
  BY <1>7, <1>8

(* Every step keeps the invariant and is one of AbstractFile.              *)
LEMMA FatNextIInv ==
    ASSUME FatIInv, [FatNext]_fatVars
    PROVE  FatIInv' /\ [Abstract!FileNext]_(Abstract!fileVars)
<1>1. ASSUME NEW h \in FDs, NEW f \in Files, Open(h, f)
      PROVE  FatIInv' /\ Abstract!FileNext
  BY <1>1, OpenStep DEF Abstract!FileNext
<1>2. ASSUME NEW h \in FDs, Close(h)
      PROVE  FatIInv' /\ Abstract!FileNext
  BY <1>2, CloseStep DEF Abstract!FileNext
<1>3. ASSUME NEW h \in FDs, NEW n \in Sizes, Read(h, n)
      PROVE  FatIInv' /\ Abstract!FileNext
  BY <1>3, ReadStep DEF Abstract!FileNext
<1>4. ASSUME NEW h \in FDs, NEW n \in Sizes, Write(h, n)
      PROVE  FatIInv' /\ Abstract!FileNext
  BY <1>4, WriteStep DEF Abstract!FileNext
<1>5. ASSUME NEW h \in FDs,
             (\E l \in SeekPlaces : SeekSet(h, l)) \/ SeekCur(h) \/ SeekEnd(h)
      PROVE  FatIInv' /\ Abstract!FileNext
  BY <1>5, SeeksStep DEF Abstract!FileNext
<1>6. ASSUME NEW n \in NewDirs, Mkdir(n)
      PROVE  FatIInv' /\ Abstract!FileNext
  BY <1>6, MkdirStep DEF Abstract!FileNext
<1>7. CASE UNCHANGED fatVars
  <2>1. FatIInv'
    BY <1>7 DEF fatVars, FatIInv, Now
  <2>2. UNCHANGED Abstract!fileVars
    BY <1>7 DEF fatVars, Abstract!fileVars
  <2>3. QED
    BY <2>1, <2>2
<1>8. CASE FatNext
  BY <1>1, <1>2, <1>3, <1>4, <1>5, <1>6, <1>8 DEF FatNext
<1>9. QED
  BY <1>7, <1>8

(* What a vnode that is settled remembers is so.                           *)
LEMMA SettledRight ==
    ASSUME NEW s, NEW v, Settled(s, v)
    PROVE  CursorRight(s, v)
<1>1. ChainLength(s.fat, s.vn[v].start) = s.vn[v].total
  BY OwnIsChain
<1>2. QED
  BY <1>1 DEF Settled, CursorAt, CursorRight

(* The invariant says what the runs check.                                 *)
LEMMA IInvRight ==
    ASSUME FatIInv
    PROVE  ChainsApart /\ CursorsRight
<1>1. Sound(Now) /\ Now.vn = vn
  BY DEF FatIInv, Now
<1>2. ASSUME NEW f \in Nodes, vn[f].open PROVE CursorRight(Now, f)
  <2>1. Settled(Now, f)
    BY <1>1, <1>2 DEF Sound, DirRight, OpenRight, Nodes
  <2>2. QED
    BY <2>1, SettledRight
<1>3. QED
  BY <1>1, <1>2 DEF Sound, ChainsApart, CursorsRight

(* The invariant holds always: kopen, kread, kwrite, klseek, kclose and    *)
(* kmkdir keep the disk, the vnodes and the descriptors in agreement, on   *)
(* every disk of any size whose files have no cluster more than they need, *)
(* as long as no directory is made in a full one.                          *)
THEOREM FatSpecIInv == FatSpec /\ ~ DirGrows => []FatIInv
<1>1. FatInit /\ ~ DirGrows => FatIInv
  BY FatInitIInv
<1>2. FatIInv /\ [FatNext]_fatVars => FatIInv'
  BY FatNextIInv
<1>3. QED
  BY <1>1, <1>2, PTL DEF FatSpec

(* No two entries ever share a cluster, and each has the clusters its size *)
(* needs, whatever grew and however far when the disk was full             *)
(* (fat32_vnode_increase, fat32_vnode_create).                             *)
THEOREM FatSpecChainsApart == FatSpec /\ ~ DirGrows => []ChainsApart
<1>1. FatIInv => ChainsApart
  BY IInvRight
<1>2. QED
  BY <1>1, FatSpecIInv, PTL

(* What an open vnode remembers of its file is always so: its last         *)
(* cluster, its clusters, what is free of the last, and where the cursor   *)
(* is (raw_read, raw_write, cluster_tracking, increase).                   *)
THEOREM FatSpecCursorsRight == FatSpec /\ ~ DirGrows => []CursorsRight
<1>1. FatIInv => CursorsRight
  BY IInvRight
<1>2. QED
  BY <1>1, FatSpecIInv, PTL

(* The FAT file system implements AbstractFile: a write changes the units  *)
(* it counts in one file and no others, a read gives what is there, and    *)
(* closing, a full disk and new directories lose nothing, on every disk    *)
(* whose files have no cluster more than their size needs: of another      *)
(* fat32_vnode_read would copy a negative length (fat32.c:1266-1280).      *)
THEOREM FatSpecFilesKept == FatSpec /\ ~ DirGrows => FilesKept
<1>1. FatInit /\ ~ DirGrows => Abstract!FileInit
  BY FatInitIInv
<1>2. FatIInv /\ [FatNext]_fatVars => [Abstract!FileNext]_(Abstract!fileVars)
  BY FatNextIInv
<1>3. QED
  BY <1>1, <1>2, FatSpecIInv, PTL DEF FatSpec, FilesKept, Abstract!FileSpec

=============================================================================
