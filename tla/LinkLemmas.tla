------------------------------ MODULE LinkLemmas ------------------------------
(***************************************************************************)
(* What the sequence operators that stand for the kernel's doubly linked   *)
(* lists preserve: a list in which nothing is linked twice stays one, and  *)
(* the set of what is linked changes by exactly the element added or       *)
(* removed.                                                                *)
(***************************************************************************)
EXTENDS KEvent, SequenceTheorems, WellFoundedInduction, TLAPS

(* An element is added at the end of a list it is not linked in            *)
(* (nPushThread, link_waitobj_to_event).                                   *)
LEMMA AppendLink ==
    ASSUME NEW S, NEW s \in Seq(S), NEW e \in S,
           IsInjective(s), e \notin ToSet(s)
    PROVE  /\ Append(s, e) \in Seq(S)
           /\ IsInjective(Append(s, e))
           /\ ToSet(Append(s, e)) = ToSet(s) \cup {e}
           /\ Len(Append(s, e)) = Len(s) + 1
<1> DEFINE r == Append(s, e)
<1>1. /\ r \in Seq(S)
      /\ Len(r) = Len(s) + 1
      /\ \A i \in 1..Len(s) : r[i] = s[i]
      /\ r[Len(s) + 1] = e
  BY AppendProperties
<1>2. /\ Len(s) \in Nat
      /\ DOMAIN s = 1..Len(s)
      /\ DOMAIN r = 1..(Len(s) + 1)
  BY <1>1, LenProperties
<1> HIDE DEF r
<1>3. IsInjective(r)
  BY <1>1, <1>2 DEF IsInjective, ToSet
<1>4. ToSet(r) = ToSet(s) \cup {e}
  BY <1>1, <1>2 DEF ToSet
<1>5. QED
  BY <1>1, <1>3, <1>4 DEF r

(* The first element leaves the list.                                      *)
LEMMA TailLink ==
    ASSUME NEW S, NEW s \in Seq(S), IsInjective(s), s # <<>>
    PROVE  /\ Head(s) \in S
           /\ Head(s) \in ToSet(s)
           /\ Tail(s) \in Seq(S)
           /\ IsInjective(Tail(s))
           /\ ToSet(Tail(s)) = ToSet(s) \ {Head(s)}
           /\ Len(Tail(s)) = Len(s) - 1
<1> DEFINE r == Tail(s)
<1>1. /\ Head(s) \in S
      /\ r \in Seq(S)
      /\ Len(r) = Len(s) - 1
      /\ \A i \in 1..Len(r) : r[i] = s[i + 1]
  BY HeadTailProperties
<1>2. /\ Len(s) \in Nat \ {0}
      /\ DOMAIN s = 1..Len(s)
      /\ DOMAIN r = 1..(Len(s) - 1)
      /\ Head(s) = s[1]
  BY <1>1, LenProperties, EmptySeq
<1> HIDE DEF r
<1>3. IsInjective(r)
  BY <1>1, <1>2 DEF IsInjective
<1>4. Head(s) \in ToSet(s)
  BY <1>2 DEF ToSet
<1>5. ToSet(r) \subseteq ToSet(s) \ {Head(s)}
  BY <1>1, <1>2 DEF ToSet, IsInjective
<1>6. ASSUME NEW x \in ToSet(s), x # Head(s) PROVE x \in ToSet(r)
  <2>1. PICK i \in 1..Len(s) : x = s[i]
    BY <1>2 DEF ToSet
  <2>2. i - 1 \in 1..Len(r) /\ r[i - 1] = s[i]
    BY <1>1, <1>2, <1>6, <2>1
  <2>3. QED
    BY <1>1, <1>2, <2>1, <2>2 DEF ToSet
<1>7. QED
  BY <1>1, <1>3, <1>4, <1>5, <1>6 DEF r

(* A list is empty when nothing is linked in it.                           *)
LEMMA EmptyLink ==
    ASSUME NEW S, NEW s \in Seq(S)
    PROVE  s = <<>> <=> ToSet(s) = {}
<1>1. CASE s = <<>>
  BY <1>1 DEF ToSet
<1>2. CASE s # <<>>
  <2>1. Len(s) \in Nat \ {0} /\ DOMAIN s = 1..Len(s)
    BY <1>2, EmptySeq, LenProperties
  <2>2. s[1] \in ToSet(s)
    BY <2>1 DEF ToSet
  <2>3. QED
    BY <1>2, <2>2
<1>3. QED
  BY <1>1, <1>2

(* Where the members of a list are when one has left it (nPopThread,       *)
(* unlink_waitobj_from_event, delete_memblk_from_size_link).               *)
LEMMA RemovePlaces ==
    ASSUME NEW S, NEW s \in Seq(S), NEW e, IsInjective(s),
           NEW k \in 1..Len(s), s[k] = e
    PROVE  /\ RemoveFirst(s, e) \in Seq(S)
           /\ Len(RemoveFirst(s, e)) = Len(s) - 1
           /\ \A i \in 1..(Len(s) - 1) :
                 RemoveFirst(s, e)[i] = IF i < k THEN s[i] ELSE s[i + 1]
<1> DEFINE n == Len(s)
<1>1. n \in Nat /\ DOMAIN s = 1..n /\ (\A i \in 1..n : s[i] \in S) /\ k \in 1..n /\ s[k] = e
  BY LenProperties, ElementOfSeq
<1>2. {i \in 1..n : s[i] = e} = {k}
  BY <1>1 DEF IsInjective
<1>3. SelectInSeq(s, LAMBDA v : v = e) = k
  BY <1>1, <1>2 DEF SelectInSeq, Min
<1> DEFINE a == SubSeq(s, 1, k - 1)
           b == SubSeq(s, k + 1, n)
           r == a \o b
<1>4. RemoveFirst(s, e) = r
  BY <1>1, <1>3 DEF RemoveFirst, RemoveAt
<1>5. /\ a \in Seq(S)
      /\ Len(a) = k - 1
      /\ \A i \in 1..(k - 1) : a[i] = s[i]
  BY <1>1, SubSeqProperties
<1> HIDE DEF n
<1>6. /\ b \in Seq(S)
      /\ Len(b) = n - k
      /\ \A i \in 1..(n - k) : b[i] = s[k + i]
  <2>1. k + 1 \in Int /\ n \in Int /\ k \in 1..n
    BY <1>1
  <2>2. \A i \in (k + 1)..n : s[i] \in S
    BY <1>1
  <2>3. /\ b \in Seq(S)
        /\ Len(b) = IF k + 1 <= n THEN n - (k + 1) + 1 ELSE 0
        /\ \A i \in 1..(n - (k + 1) + 1) : b[i] = s[(k + 1) + i - 1]
    BY <2>1, <2>2, SubSeqProperties
  <2> HIDE DEF b
  <2>4. n - (k + 1) + 1 = n - k /\ \A i \in Int : (k + 1) + i - 1 = k + i
    BY <2>1
  <2>5. QED
    BY <2>1, <2>3, <2>4
<1> HIDE DEF a, b
<1>7. /\ r \in Seq(S)
      /\ Len(r) = n - 1
      /\ \A i \in 1..(n - 1) : r[i] = IF i < k THEN s[i] ELSE s[i + 1]
  <2>1. /\ r \in Seq(S)
        /\ Len(r) = Len(a) + Len(b)
        /\ \A i \in 1..(Len(a) + Len(b)) :
             r[i] = IF i <= Len(a) THEN a[i] ELSE b[i - Len(a)]
    BY <1>5, <1>6, ConcatProperties
  <2> HIDE DEF r
  <2>2. Len(r) = n - 1 /\ Len(a) + Len(b) = n - 1 /\ Len(a) = k - 1
    BY <1>1, <1>5, <1>6, <2>1
  <2>3. ASSUME NEW i \in 1..(n - 1), i < k PROVE r[i] = s[i]
    <3>1. i \in 1..(k - 1) /\ i <= k - 1
      BY <1>1, <2>3
    <3>2. r[i] = a[i]
      BY <2>1, <2>2, <3>1
    <3>3. QED
      BY <1>5, <3>1, <3>2
  <2>4. ASSUME NEW i \in 1..(n - 1), ~ (i < k) PROVE r[i] = s[i + 1]
    <3>1. /\ i - (k - 1) \in 1..(n - k)
          /\ k + (i - (k - 1)) = i + 1
          /\ ~ (i <= k - 1)
      BY <1>1, <2>4
    <3>2. r[i] = b[i - (k - 1)]
      BY <2>1, <2>2, <3>1
    <3>3. QED
      BY <1>6, <3>1, <3>2
  <2>5. QED
    BY <2>1, <2>2, <2>3, <2>4
<1>8. QED
  BY <1>4, <1>7 DEF n

(* An element leaves the list, wherever it is in it.                       *)
LEMMA RemoveLink ==
    ASSUME NEW S, NEW s \in Seq(S), NEW e, IsInjective(s)
    PROVE  /\ RemoveFirst(s, e) \in Seq(S)
           /\ IsInjective(RemoveFirst(s, e))
           /\ ToSet(RemoveFirst(s, e)) = ToSet(s) \ {e}
           /\ Len(RemoveFirst(s, e)) <= Len(s)
<1> DEFINE n == Len(s)
<1>1. n \in Nat /\ DOMAIN s = 1..n /\ \A i \in 1..n : s[i] \in S
  BY LenProperties, ElementOfSeq
<1>2. CASE ~ \E i \in 1..n : s[i] = e
  BY <1>1, <1>2 DEF RemoveFirst, ToSet
<1>3. CASE \E i \in 1..n : s[i] = e
  <2>1. PICK k \in 1..n : s[k] = e
    BY <1>3
  <2> DEFINE r == RemoveFirst(s, e)
  <2>2. /\ r \in Seq(S)
        /\ Len(r) = n - 1
        /\ \A i \in 1..(n - 1) : r[i] = IF i < k THEN s[i] ELSE s[i + 1]
    BY <2>1, RemovePlaces
  <2> HIDE DEF n
  <2>3. DOMAIN r = 1..(n - 1)
    BY <2>2, LenProperties
  <2> HIDE DEF r
  <2> DEFINE old(i) == IF i < k THEN i ELSE i + 1
  <2>4. \A i \in 1..(n - 1) :
          /\ old(i) \in 1..n
          /\ old(i) # k
          /\ r[i] = s[old(i)]
          /\ \A j \in 1..(n - 1) : old(i) = old(j) => i = j
    BY <1>1, <2>1, <2>2
  <2> HIDE DEF old
  <2>5. \A i, j \in 1..n : s[i] = s[j] => i = j
    BY <1>1 DEF IsInjective
  <2>6. IsInjective(r)
    BY <2>3, <2>4, <2>5 DEF IsInjective
  <2>7. ToSet(r) \subseteq ToSet(s) \ {e}
    BY <1>1, <2>1, <2>3, <2>4, <2>5 DEF ToSet
  <2>8. ASSUME NEW x \in ToSet(s), x # e PROVE x \in ToSet(r)
    <3>1. PICK i \in 1..n : x = s[i]
      BY <1>1 DEF ToSet
    <3>2. CASE i < k
      BY <1>1, <2>1, <2>2, <2>3, <3>1, <3>2 DEF ToSet
    <3>3. CASE i > k
      <4>1. i - 1 \in 1..(n - 1) /\ r[i - 1] = s[i]
        BY <1>1, <2>1, <2>2, <3>1, <3>3
      <4>2. QED
        BY <2>3, <3>1, <4>1 DEF ToSet
    <3>4. QED
      BY <1>1, <2>1, <2>8, <3>1, <3>2, <3>3
  <2>9. QED
    BY <1>1, <2>2, <2>6, <2>7, <2>8 DEF n, r
<1>4. QED
  BY <1>2, <1>3

(* Removing the first member leaves the tail.                              *)
LEMMA RemoveHead ==
    ASSUME NEW S, NEW s \in Seq(S), s # <<>>
    PROVE  RemoveFirst(s, Head(s)) = Tail(s)
<1>1. Len(s) \in Nat \ {0} /\ Head(s) = s[1]
  BY EmptySeq, LenProperties
<1>2. 1 \in {i \in 1..Len(s) : s[i] = Head(s)}
  BY <1>1
<1>3. SelectInSeq(s, LAMBDA v : v = Head(s)) = 1
  BY <1>1, <1>2 DEF SelectInSeq, Min
<1>4. RemoveFirst(s, Head(s)) = RemoveAt(s, 1)
  BY <1>2, <1>3 DEF RemoveFirst
<1>5. RemoveAt(s, 1) = SubSeq(s, 1, 0) \o SubSeq(s, 2, Len(s))
  <2>1. 1 - 1 = 0 /\ 1 + 1 = 2
    OBVIOUS
  <2>2. QED
    BY <2>1 DEF RemoveAt
<1>6. SubSeq(s, 1, 0) = <<>>
  BY SubSeqEmpty
<1>7. Tail(s) = SubSeq(s, 2, Len(s)) /\ Tail(s) \in Seq(S)
  BY TailIsSubSeq, HeadTailProperties
<1>8. <<>> \o Tail(s) = Tail(s)
  BY <1>7, ConcatEmptySeq
<1>9. QED
  BY <1>4, <1>5, <1>6, <1>7, <1>8

-----------------------------------------------------------------------------
(* A set of natural numbers that is not empty has a least member.          *)
LEMMA MinIsMember ==
    ASSUME NEW T, T \subseteq Nat, T # {}
    PROVE  Min(T) \in T /\ \A x \in T : Min(T) <= x
<1>1. PICK x \in T : \A y \in T : ~ (<<y, x>> \in OpToRel(<, Nat))
  BY NatLessThanWellFounded, WFMin
<1>2. \A y \in T : ~ (y < x)
  BY <1>1 DEF OpToRel
<1>3. \E z \in T : \A y \in T : z <= y
  BY <1>2
<1>4. QED
  BY <1>3 DEF Min

-----------------------------------------------------------------------------
(* Lists in the order of their members (pPosNext).                         *)

Increasing(s) == \A i, j \in 1..Len(s) : i < j => s[i] < s[j]

(* Nothing is linked twice, and places are ordered as members are.         *)
LEMMA IncreasingPlaces ==
    ASSUME NEW S \in SUBSET Int, NEW s \in Seq(S), Increasing(s)
    PROVE  /\ IsInjective(s)
           /\ \A i, j \in 1..Len(s) : s[i] < s[j] <=> i < j
<1>1. Len(s) \in Nat /\ DOMAIN s = 1..Len(s) /\ \A i \in 1..Len(s) : s[i] \in Int
  BY LenProperties, ElementOfSeq
<1>2. \A i, j \in 1..Len(s) : i < j => s[i] < s[j]
  BY DEF Increasing
<1>3. \A i, j \in 1..Len(s) : s[i] < s[j] <=> i < j
  BY <1>1, <1>2
<1>4. \A i, j \in 1..Len(s) : s[i] = s[j] => i = j
  BY <1>1, <1>2
<1>5. QED
  BY <1>1, <1>3, <1>4 DEF IsInjective

(* No member is between two that are next to each other, none before the   *)
(* first and none behind the last.                                         *)
LEMMA NothingBetween ==
    ASSUME NEW S \in SUBSET Int, NEW s \in Seq(S), Increasing(s), NEW i \in 1..Len(s)
    PROVE  /\ i + 1 \in 1..Len(s) =>
                 s[i] < s[i + 1] /\ \A e \in ToSet(s) : ~ (s[i] < e /\ e < s[i + 1])
           /\ i = 1 => \A e \in ToSet(s) : ~ (e < s[i])
           /\ i = Len(s) => \A e \in ToSet(s) : ~ (s[i] < e)
<1>1. Len(s) \in Nat /\ DOMAIN s = 1..Len(s)
  BY LenProperties
<1>2. \A j, k \in 1..Len(s) : s[j] < s[k] <=> j < k
  BY IncreasingPlaces
<1>3. \A e \in ToSet(s) : \E j \in 1..Len(s) : e = s[j]
  BY <1>1 DEF ToSet
<1>4. ASSUME i + 1 \in 1..Len(s), NEW e \in ToSet(s), s[i] < e, e < s[i + 1]
      PROVE  FALSE
  <2>1. PICK j \in 1..Len(s) : e = s[j]
    BY <1>3
  <2>2. i < j /\ j < i + 1
    BY <1>2, <1>4, <2>1
  <2>3. QED
    BY <1>1, <2>2
<1>5. i + 1 \in 1..Len(s) => s[i] < s[i + 1]
  BY <1>1, <1>2
<1>6. i = 1 => \A e \in ToSet(s) : ~ (e < s[i])
  BY <1>1, <1>2, <1>3
<1>7. i = Len(s) => \A e \in ToSet(s) : ~ (s[i] < e)
  BY <1>1, <1>2, <1>3
<1>8. QED
  BY <1>4, <1>5, <1>6, <1>7

LEMMA AppendIncreasing ==
    ASSUME NEW S \in SUBSET Int, NEW s \in Seq(S), Increasing(s), NEW x \in S,
           \A e \in ToSet(s) : e < x
    PROVE  Append(s, x) \in Seq(S) /\ Increasing(Append(s, x))
           /\ ToSet(Append(s, x)) = ToSet(s) \cup {x}
<1>1. Len(s) \in Nat /\ DOMAIN s = 1..Len(s) /\ \A i \in 1..Len(s) : s[i] \in Int
  BY LenProperties, ElementOfSeq
<1>2. IsInjective(s) /\ x \notin ToSet(s) /\ x \in Int
  BY IncreasingPlaces
<1>3. /\ Append(s, x) \in Seq(S)
      /\ ToSet(Append(s, x)) = ToSet(s) \cup {x}
  BY <1>2, AppendLink
<1> DEFINE r == Append(s, x)
<1>4. /\ Len(r) = Len(s) + 1
      /\ \A i \in 1..Len(s) : r[i] = s[i] /\ s[i] < x
      /\ r[Len(s) + 1] = x
  <2>1. \A i \in 1..Len(s) : s[i] \in ToSet(s)
    BY <1>1 DEF ToSet
  <2>2. QED
    BY <2>1, AppendProperties
<1> HIDE DEF r
<1>5. Increasing(r)
  BY <1>1, <1>4 DEF Increasing
<1>6. QED
  BY <1>3, <1>5 DEF r

LEMMA RemoveIncreasing ==
    ASSUME NEW S \in SUBSET Int, NEW s \in Seq(S), Increasing(s), NEW x \in ToSet(s)
    PROVE  RemoveFirst(s, x) \in Seq(S) /\ Increasing(RemoveFirst(s, x))
           /\ ToSet(RemoveFirst(s, x)) = ToSet(s) \ {x}
<1>1. Len(s) \in Nat /\ DOMAIN s = 1..Len(s)
  BY LenProperties
<1>2. IsInjective(s)
  BY IncreasingPlaces
<1>3. PICK k \in 1..Len(s) : s[k] = x
  BY <1>1 DEF ToSet
<1> DEFINE r == RemoveFirst(s, x)
<1>4. Len(r) = Len(s) - 1 /\ \A i \in 1..(Len(s) - 1) : r[i] = IF i < k THEN s[i] ELSE s[i + 1]
  BY <1>2, <1>3, RemovePlaces
<1>5. r \in Seq(S) /\ ToSet(r) = ToSet(s) \ {x}
  BY <1>2, RemoveLink
<1> HIDE DEF r
<1>6. Increasing(r)
  <2>1. SUFFICES ASSUME NEW i \in 1..Len(r), NEW j \in 1..Len(r), i < j
                 PROVE  r[i] < r[j]
    BY DEF Increasing
  <2> DEFINE old(m) == IF m < k THEN m ELSE m + 1
  <2>2. old(i) \in 1..Len(s) /\ old(j) \in 1..Len(s) /\ old(i) < old(j)
    BY <1>1, <1>4, <2>1
  <2>3. r[i] = s[old(i)] /\ r[j] = s[old(j)]
    BY <1>1, <1>4, <2>1
  <2> HIDE DEF old
  <2>4. QED
    BY <2>2, <2>3 DEF Increasing
<1>7. QED
  BY <1>5, <1>6 DEF r

(* A member is linked behind the place i, where it belongs.                *)
LEMMA InsertIncreasing ==
    ASSUME NEW S \in SUBSET Int, NEW s \in Seq(S), Increasing(s), NEW x \in S,
           NEW k \in 1..Len(s), s[k] < x, k + 1 \in 1..Len(s) => x < s[k + 1]
    PROVE  InsertAt(s, k + 1, x) \in Seq(S) /\ Increasing(InsertAt(s, k + 1, x))
           /\ ToSet(InsertAt(s, k + 1, x)) = ToSet(s) \cup {x}
<1> DEFINE n == Len(s)
           a == SubSeq(s, 1, k)
           b == SubSeq(s, k + 1, n)
           r == Append(a, x) \o b
<1> HIDE DEF a, b, r
<1>1. n \in Nat /\ DOMAIN s = 1..n /\ (\A i \in 1..n : s[i] \in S /\ s[i] \in Int) /\ k \in 1..n
      /\ k + 1 - 1 = k /\ x \in Int
  <2>1. n \in Nat /\ DOMAIN s = 1..n /\ \A i \in 1..n : s[i] \in S
    BY LenProperties, ElementOfSeq
  <2>2. S \subseteq Int
    OBVIOUS
  <2>3. (\A i \in 1..n : s[i] \in Int) /\ x \in Int
    BY <2>1, <2>2
  <2>4. k \in 1..n /\ k + 1 - 1 = k
    BY <2>1
  <2>5. QED
    BY <2>1, <2>3, <2>4
<1>2. a \in Seq(S) /\ Len(a) = k /\ \A i \in 1..k : a[i] = s[i]
  BY <1>1, SubSeqProperties DEF a
<1> HIDE DEF n
<1>3. b \in Seq(S) /\ Len(b) = n - k /\ \A i \in 1..(n - k) : b[i] = s[k + i]
  <2>1. k + 1 \in Int /\ n \in Int /\ k \in 1..n
    BY <1>1
  <2>2. \A i \in (k + 1)..n : s[i] \in S
    BY <1>1
  <2>3. /\ b \in Seq(S)
        /\ Len(b) = IF k + 1 <= n THEN n - (k + 1) + 1 ELSE 0
        /\ \A i \in 1..(n - (k + 1) + 1) : b[i] = s[(k + 1) + i - 1]
    BY <2>1, <2>2, SubSeqProperties DEF b
  <2>4. n - (k + 1) + 1 = n - k /\ \A i \in Int : (k + 1) + i - 1 = k + i
    BY <2>1
  <2>5. QED
    BY <2>1, <2>3, <2>4
<1>4. InsertAt(s, k + 1, x) = a \o <<x>> \o b
  <2> DEFINE m == k + 1
  <2>1. m - 1 = k
    BY <1>1
  <2> HIDE DEF m
  <2>2. InsertAt(s, m, x) = SubSeq(s, 1, m - 1) \o <<x>> \o SubSeq(s, m, Len(s))
    BY DEF InsertAt
  <2>3. InsertAt(s, m, x) = SubSeq(s, 1, k) \o <<x>> \o SubSeq(s, m, Len(s))
    BY <2>1, <2>2
  <2>4. QED
    BY <2>3 DEF a, b, n, m
<1>5. a \o <<x>> = Append(a, x)
  BY <1>2, AppendIsConcat
<1> DEFINE c == Append(a, x)
<1>6. c \in Seq(S) /\ Len(c) = k + 1 /\ c[k + 1] = x /\ \A i \in 1..k : c[i] = s[i]
  BY <1>2, AppendProperties
<1>7. InsertAt(s, k + 1, x) = r
  BY <1>4, <1>5 DEF r
<1> HIDE DEF c
<1>8. /\ r \in Seq(S)
      /\ Len(r) = n + 1
      /\ \A i \in 1..(n + 1) : r[i] = IF i <= k THEN s[i] ELSE IF i = k + 1 THEN x ELSE s[i - 1]
  <2>1. /\ r \in Seq(S)
        /\ Len(r) = Len(c) + Len(b)
        /\ \A i \in 1..(Len(c) + Len(b)) : r[i] = IF i <= Len(c) THEN c[i] ELSE b[i - Len(c)]
    BY <1>3, <1>6, ConcatProperties DEF c, r
  <2>2. Len(c) + Len(b) = n + 1 /\ Len(c) = k + 1
    BY <1>1, <1>3, <1>6
  <2>3. ASSUME NEW i \in 1..(n + 1), i <= k PROVE r[i] = s[i]
    <3>1. i \in 1..k /\ i <= k + 1
      BY <1>1, <2>3
    <3>2. QED
      BY <1>6, <2>1, <2>2, <3>1
  <2>4. r[k + 1] = x
    <3>1. k + 1 \in 1..(n + 1) /\ k + 1 <= k + 1
      BY <1>1
    <3>2. QED
      BY <1>6, <2>1, <2>2, <3>1
  <2>5. ASSUME NEW i \in 1..(n + 1), ~ (i <= k), i # k + 1 PROVE r[i] = s[i - 1]
    <3>1. /\ ~ (i <= k + 1) /\ i - (k + 1) \in 1..(n - k)
          /\ k + (i - (k + 1)) = i - 1
      BY <1>1, <2>5
    <3>2. QED
      BY <1>3, <2>1, <2>2, <3>1
  <2>6. QED
    BY <2>1, <2>2, <2>3, <2>4, <2>5
<1>9. DOMAIN r = 1..(n + 1)
  BY <1>8, LenProperties
<1>10. \A i, j \in 1..n : i < j => s[i] < s[j]
  BY DEF Increasing, n
<1>11. (\A i \in 1..k : s[i] < x) /\ \A i \in (k + 1)..n : x < s[i]
  <2>1. \A i \in 1..k : s[i] < x
    BY <1>1, <1>10
  <2>2. \A i \in (k + 1)..n : x < s[i]
    BY <1>1, <1>10 DEF n
  <2>3. QED
    BY <2>1, <2>2
<1>12. Increasing(r)
  <2>1. SUFFICES ASSUME NEW i \in 1..(n + 1), NEW j \in 1..(n + 1), i < j
                 PROVE  r[i] < r[j]
    BY <1>8 DEF Increasing
  <2>2. CASE j <= k
    BY <1>1, <1>8, <1>10, <2>1, <2>2
  <2>3. CASE j = k + 1
    BY <1>1, <1>8, <1>11, <2>1, <2>3
  <2>4. CASE j > k + 1
    <3>1. r[j] = s[j - 1] /\ j - 1 \in (k + 1)..n
      BY <1>1, <1>8, <2>1, <2>4
    <3>2. CASE i <= k
      <4>1. r[i] = s[i] /\ i \in 1..n /\ j - 1 \in 1..n /\ i < j - 1
        BY <1>1, <1>8, <2>4, <3>1, <3>2
      <4>2. QED
        BY <1>10, <3>1, <4>1
    <3>3. CASE i = k + 1
      BY <1>1, <1>8, <1>11, <2>1, <3>1, <3>3
    <3>4. CASE i > k + 1
      <4>1. r[i] = s[i - 1] /\ i - 1 \in 1..n /\ i - 1 < j - 1 /\ j - 1 \in 1..n
        BY <1>1, <1>8, <2>1, <3>1, <3>4
      <4>2. QED
        BY <1>10, <3>1, <4>1
    <3>5. QED
      BY <1>1, <3>2, <3>3, <3>4
  <2>5. QED
    BY <1>1, <2>2, <2>3, <2>4
<1>13. ToSet(r) = ToSet(s) \cup {x}
  <2>1. \A i \in 1..(n + 1) : r[i] \in ToSet(s) \cup {x}
    <3>1. \A i \in 1..n : s[i] \in ToSet(s)
      BY <1>1 DEF ToSet
    <3>2. ASSUME NEW i \in 1..(n + 1) PROVE r[i] \in ToSet(s) \cup {x}
      <4>1. i <= k => i \in 1..n
        BY <1>1
      <4>2. ~ (i <= k) /\ i # k + 1 => i - 1 \in 1..n
        BY <1>1
      <4>3. QED
        BY <1>8, <3>1, <4>1, <4>2
    <3>3. QED
      BY <3>2
  <2>2. ASSUME NEW i \in 1..n PROVE \E j \in 1..(n + 1) : r[j] = s[i]
    <3>1. CASE i <= k
      <4>1. i \in 1..(n + 1) /\ r[i] = s[i]
        BY <1>1, <1>8, <3>1
      <4>2. QED
        BY <4>1
    <3>2. CASE ~ (i <= k)
      <4>1. i + 1 \in 1..(n + 1) /\ ~ (i + 1 <= k) /\ i + 1 # k + 1 /\ i + 1 - 1 = i
        BY <1>1, <3>2
      <4>2. QED
        BY <1>8, <4>1
    <3>3. QED
      BY <3>1, <3>2
  <2>3. k + 1 \in 1..(n + 1) /\ r[k + 1] = x
    BY <1>1, <1>8
  <2>4. ToSet(r) \subseteq ToSet(s) \cup {x}
    BY <1>9, <2>1 DEF ToSet
  <2>5. ToSet(s) \cup {x} \subseteq ToSet(r)
    BY <1>1, <1>9, <2>2, <2>3 DEF ToSet
  <2>6. QED
    BY <2>4, <2>5
<1>14. QED
  BY <1>7, <1>8, <1>12, <1>13

-----------------------------------------------------------------------------
(* A thread is linked at the end of the event.                             *)
LEMMA LinkWaiterOperation ==
    ASSUME NEW T, NEW ev \in EventStt(T), IsInjective(ev.link),
           NEW t \in T, t \notin ToSet(ev.link)
    PROVE  /\ LinkWaiter(ev, t) \in EventStt(T)
           /\ IsInjective(LinkWaiter(ev, t).link)
           /\ ToSet(LinkWaiter(ev, t).link) = ToSet(ev.link) \cup {t}
           /\ Len(LinkWaiter(ev, t).link) = Len(ev.link) + 1
           /\ LinkWaiter(ev, t).nCount = ev.nCount
<1>1. ev.nCount \in Nat /\ ev.link \in Seq(T)
  BY DEF EventStt
<1>2. /\ Append(ev.link, t) \in Seq(T)
      /\ IsInjective(Append(ev.link, t))
      /\ ToSet(Append(ev.link, t)) = ToSet(ev.link) \cup {t}
      /\ Len(Append(ev.link, t)) = Len(ev.link) + 1
  BY <1>1, AppendLink
<1>3. LinkWaiter(ev, t) = [nCount |-> ev.nCount, link |-> Append(ev.link, t)]
  <2> DEFINE r == Append(ev.link, t)
  <2>1. LinkWaiter(ev, t) = [ev EXCEPT !.link = r]
    BY DEF LinkWaiter
  <2> HIDE DEF r
  <2>2. [ev EXCEPT !.link = r] = [nCount |-> ev.nCount, link |-> r]
    BY DEF EventStt
  <2>3. QED
    BY <2>1, <2>2 DEF r
<1>4. QED
  BY <1>1, <1>2, <1>3 DEF EventStt

(* A thread that dies leaves the link, and nothing else changes.           *)
LEMMA DropWaiterOperation ==
    ASSUME NEW T, NEW ev \in EventStt(T), IsInjective(ev.link), NEW t \in T
    PROVE  /\ DropWaiter(ev, t) \in EventStt(T)
           /\ IsInjective(DropWaiter(ev, t).link)
           /\ ToSet(DropWaiter(ev, t).link) = ToSet(ev.link) \ {t}
           /\ Len(DropWaiter(ev, t).link) <= Len(ev.link)
           /\ DropWaiter(ev, t).nCount = ev.nCount
<1>1. ev.nCount \in Nat /\ ev.link \in Seq(T)
  BY DEF EventStt
<1>2. /\ RemoveFirst(ev.link, t) \in Seq(T)
      /\ IsInjective(RemoveFirst(ev.link, t))
      /\ ToSet(RemoveFirst(ev.link, t)) = ToSet(ev.link) \ {t}
      /\ Len(RemoveFirst(ev.link, t)) <= Len(ev.link)
  BY <1>1, RemoveLink
<1>3. DropWaiter(ev, t) = [nCount |-> ev.nCount, link |-> RemoveFirst(ev.link, t)]
  BY DEF DropWaiter, EventStt
<1>4. QED
  BY <1>1, <1>2, <1>3 DEF EventStt

(* inc_event_count takes the first waiter out of the link, or counts.      *)
LEMMA IncEventOperation ==
    ASSUME NEW T, NEW ev \in EventStt(T), IsInjective(ev.link)
    PROVE  /\ IncEvent(ev) \in EventStt(T)
           /\ IsInjective(IncEvent(ev).link)
           /\ ev.link = <<>> => /\ Woken(ev) = {}
                                /\ IncEvent(ev).link = <<>>
                                /\ IncEvent(ev).nCount = ev.nCount + 1
           /\ ev.link # <<>> => /\ Woken(ev) = {Head(ev.link)}
                                /\ Head(ev.link) \in ToSet(ev.link)
                                /\ IncEvent(ev).link = Tail(ev.link)
                                /\ Len(IncEvent(ev).link) = Len(ev.link) - 1
                                /\ IncEvent(ev).nCount = ev.nCount
           /\ ToSet(IncEvent(ev).link) = ToSet(ev.link) \ Woken(ev)
           /\ Woken(ev) \subseteq ToSet(ev.link)
<1>1. ev.nCount \in Nat /\ ev.link \in Seq(T)
  BY DEF EventStt
<1>2. CASE ev.link = <<>>
  <2>1. IncEvent(ev) = [nCount |-> ev.nCount + 1, link |-> ev.link]
    BY <1>2 DEF IncEvent, EventStt
  <2>2. Woken(ev) = {}
    BY <1>2 DEF Woken
  <2>3. QED
    BY <1>1, <1>2, <2>1, <2>2 DEF EventStt
<1>3. CASE ev.link # <<>>
  <2>1. IncEvent(ev) = [nCount |-> ev.nCount, link |-> Tail(ev.link)]
    BY <1>3 DEF IncEvent, EventStt
  <2>2. Woken(ev) = {Head(ev.link)}
    BY <1>3 DEF Woken
  <2>3. /\ Head(ev.link) \in ToSet(ev.link)
        /\ Tail(ev.link) \in Seq(T)
        /\ IsInjective(Tail(ev.link))
        /\ ToSet(Tail(ev.link)) = ToSet(ev.link) \ {Head(ev.link)}
        /\ Len(Tail(ev.link)) = Len(ev.link) - 1
    BY <1>1, <1>3, TailLink
  <2>4. QED
    BY <1>1, <1>3, <2>1, <2>2, <2>3 DEF EventStt
<1>4. QED
  BY <1>2, <1>3

=============================================================================
