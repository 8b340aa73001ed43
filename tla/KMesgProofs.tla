------------------------------ MODULE KMesgProofs ------------------------------
(***************************************************************************)
(* Proofs about the rings of the kernel.  KMesg: kwait_kmesg misses no     *)
(* message, and messages leave threads alone that sleep in wait_event.     *)
(* InputQueue, at the end: keys come out of a queue in the order they went *)
(* in, and two writers put it one key over its room at most.               *)
(***************************************************************************)
EXTENDS KMesg, InputQueue, FiniteSetTheorems, SequenceTheorems,
        WellFoundedInduction, TLAPS

(* What the wait object of a sleeping thread says. *)
ObjTells ==
    \A t \in Threads :
        /\ pc[t] = "wait" => wWaitType[t] = "kmesg"
        /\ pc[t] = "event" => wWaitType[t] = "event"

(* The functions are functions on Threads, so that updates can be read. *)
Domains ==
    /\ kmesgq = [t \in Threads |-> kmesgq[t]]
    /\ pc = [t \in Threads |-> pc[t]]
    /\ wWaitType = [t \in Threads |-> wWaitType[t]]
    /\ want = [t \in Threads |-> want[t]]

IInv == Domains /\ ObjTells /\ SleeperHasNoMessage

-----------------------------------------------------------------------------

(* Nobody sleeps when the system starts. *)
LEMMA InitIInv == Init => IInv
  BY DEF Init, IInv, Domains, ObjTells, SleeperHasNoMessage

(* ksend_kmesg wakes every thread that sleeps in kwait_kmesg for the queue *)
(* it writes to.                                                           *)
LEMMA SendIInv ==
  ASSUME IInv, NEW s \in Threads, NEW t \in Threads, NEW m \in Mesgs,
         SendKMesg(s, t, m)
  PROVE  IInv'
<1>1. kmesgq' = [kmesgq EXCEPT ![t] = PutKMesg(kmesgq[t], m)]
  BY DEF SendKMesg
<1>2. UNCHANGED <<wWaitType, want>>
  BY DEF SendKMesg
<1>3. pc' = pc \/ pc' = [pc EXCEPT ![t] = "loop"]
  BY DEF SendKMesg
<1>4. pc'[t] # "wait"
  BY <1>3 DEF IInv, Domains, ObjTells, SendKMesg, Wakes
<1>5. \A u \in Threads : u # t => kmesgq'[u] = kmesgq[u] /\ pc'[u] = pc[u]
  BY <1>1, <1>3 DEF IInv, Domains
<1>6. Domains'
  BY <1>1, <1>2, <1>3 DEF IInv, Domains
<1>7. ObjTells'
  BY <1>2, <1>3 DEF IInv, Domains, ObjTells
<1>8. SleeperHasNoMessage'
  BY <1>2, <1>4, <1>5 DEF IInv, SleeperHasNoMessage
<1> QED
  BY <1>6, <1>7, <1>8 DEF IInv

(* A thread that returns from kwait_kmesg only touches its own queue. *)
LEMMA TakeIInv ==
  ASSUME IInv, NEW t \in Threads, NEW w, TakeMessage(t, w)
  PROVE  IInv'
<1>1. \A u \in Threads : u # t =>
          kmesgq'[u] = kmesgq[u] /\ pc'[u] = pc[u] /\ want'[u] = want[u]
  BY DEF IInv, Domains, TakeMessage
<1>2. pc'[t] = "run" /\ UNCHANGED wWaitType
  BY DEF IInv, Domains, TakeMessage
<1>3. Domains'
  BY DEF IInv, Domains, TakeMessage
<1>4. ObjTells'
  BY <1>1, <1>2 DEF IInv, ObjTells
<1>5. SleeperHasNoMessage'
  BY <1>1, <1>2 DEF IInv, SleeperHasNoMessage
<1> QED
  BY <1>3, <1>4, <1>5 DEF IInv

(* A thread goes to sleep only after find_kmesg failed. *)
LEMMA WaitIInv ==
  ASSUME IInv, NEW t \in Threads, NEW w, WaitForKMesg(t, w)
  PROVE  IInv'
<1>1. \A u \in Threads : u # t =>
          /\ pc'[u] = pc[u] /\ want'[u] = want[u]
          /\ wWaitType'[u] = wWaitType[u]
  BY DEF IInv, Domains, WaitForKMesg
<1>2. /\ pc'[t] = "wait" /\ want'[t] = w /\ wWaitType'[t] = "kmesg"
      /\ UNCHANGED kmesgq
  BY DEF IInv, Domains, WaitForKMesg
<1>3. ~ HasKMesg(kmesgq[t], w)
  BY DEF WaitForKMesg, MustSleep
<1>4. Domains'
  BY DEF IInv, Domains, WaitForKMesg
<1>5. ObjTells'
  BY <1>1, <1>2 DEF IInv, ObjTells
<1>6. SleeperHasNoMessage'
  BY <1>1, <1>2, <1>3 DEF IInv, SleeperHasNoMessage
<1> QED
  BY <1>4, <1>5, <1>6 DEF IInv

(* Sleeping in wait_event marks the wait object accordingly. *)
LEMMA EventIInv ==
  ASSUME IInv, NEW t \in Threads, WaitEvent(t) \/ EventOccurs(t)
  PROVE  IInv'
<1>1. UNCHANGED <<kmesgq, want>>
  BY DEF WaitEvent, EventOccurs
<1>2. \A u \in Threads : u # t =>
          pc'[u] = pc[u] /\ wWaitType'[u] = wWaitType[u]
  BY DEF IInv, Domains, WaitEvent, EventOccurs
<1>3. \/ pc'[t] = "event" /\ wWaitType'[t] = "event"
      \/ pc'[t] = "run"
  BY DEF IInv, Domains, WaitEvent, EventOccurs
<1>4. Domains'
  BY DEF IInv, Domains, WaitEvent, EventOccurs
<1>5. ObjTells'
  BY <1>2, <1>3 DEF IInv, ObjTells
<1>6. SleeperHasNoMessage'
  BY <1>1, <1>2, <1>3 DEF IInv, SleeperHasNoMessage
<1> QED
  BY <1>4, <1>5, <1>6 DEF IInv

(* The invariant is inductive. *)
LEMMA NextIInv == IInv /\ [Next]_vars => IInv'
<1> SUFFICES ASSUME IInv, [Next]_vars PROVE IInv'
  OBVIOUS
<1>1. CASE UNCHANGED vars
  BY <1>1 DEF IInv, Domains, ObjTells, SleeperHasNoMessage, vars
<1>2. CASE Next
  BY <1>2, SendIInv, TakeIInv, WaitIInv, EventIInv DEF Next
<1> QED
  BY <1>1, <1>2

(* The inductive invariant holds in every reachable state. *)
LEMMA SpecIInv == Spec => []IInv
  BY InitIInv, NextIInv, PTL DEF Spec

(* kwait_kmesg: no thread sleeps while a message it asks for is in its     *)
(* queue, for any ring size, message types and threads.                    *)
THEOREM SpecSleeperHasNoMessage == Spec => []SleeperHasNoMessage
<1>1. IInv => SleeperHasNoMessage
  BY DEF IInv
<1> QED
  BY <1>1, SpecIInv, PTL

(* ksend_kmesg never wakes a thread that sleeps in wait_event. *)
THEOREM SpecEventSleeperIsLeftAlone == Spec => EventSleeperIsLeftAlone
<1> DEFINE A == \A t \in Threads :
                    pc[t] = "event" /\ pc'[t] # "event" => UNCHANGED kmesgq
<1>1. ASSUME IInv, Next PROVE A
  <2>1. CASE \E s, t \in Threads, m \in Mesgs : SendKMesg(s, t, m)
    <3>1. PICK s \in Threads, t \in Threads, m \in Mesgs : SendKMesg(s, t, m)
      BY <2>1
    <3>2. \A u \in Threads : pc[u] = "event" => pc'[u] = "event"
      BY <1>1, <3>1 DEF IInv, Domains, ObjTells, SendKMesg, Wakes
    <3> QED
      BY <3>2
  <2>2. CASE \E t \in Threads, w \in Types \cup {KMESG_ANY} :
                 TakeMessage(t, w) \/ WaitForKMesg(t, w)
    BY <1>1, <2>2 DEF IInv, Domains, TakeMessage, WaitForKMesg, Asks
  <2>3. CASE \E t \in Threads : WaitEvent(t) \/ EventOccurs(t)
    BY <2>3 DEF WaitEvent, EventOccurs
  <2> QED
    BY <1>1, <2>1, <2>2, <2>3 DEF Next
<1>2. ASSUME IInv, [Next]_vars PROVE [A]_vars
  BY <1>1, <1>2
<1> QED
  BY <1>2, SpecIInv, PTL DEF Spec, EventSleeperIsLeftAlone

-----------------------------------------------------------------------------
(* The ring.                                                               *)

(* The slots are finitely many. *)
LEMMA SlotsFinite == IsFiniteSet(Slots) /\ Cardinality(Slots) = MAX_KMESG
  BY FS_Interval, KMesgAssumption DEF Slots

(* A set of slots that is not empty has a least one: the one with the     *)
(* smallest initial segment of Slots.                                      *)
LEMMA MinIsLeast ==
  ASSUME NEW S, S \subseteq Slots, S # {}
  PROVE  Min(S) \in S
<1> DEFINE T == {0..x : x \in S}
<1>0. \A x \in S : 0..x \in SUBSET Slots
  BY KMesgAssumption DEF Slots
<1>1. T \subseteq SUBSET Slots /\ T # {}
  BY <1>0
<1>2. IsWellFoundedOn(StrictSubsetOrdering(Slots), FiniteSubsetsOf(Slots))
  BY FS_StrictSubsetOrderingWellFounded
<1>3. T \subseteq FiniteSubsetsOf(Slots)
  BY <1>1, SlotsFinite, FS_Subset DEF FiniteSubsetsOf
<1>4. PICK s \in T : \A r \in T : ~ (<<r, s>> \in StrictSubsetOrdering(Slots))
  <2> HIDE DEF T
  <2> QED
    BY <1>1, <1>2, <1>3, WFMin
<1>5. PICK x \in S : s = 0..x
  BY <1>4
<1>6. \A y \in S : ~ (<<0..y, 0..x>> \in StrictSubsetOrdering(Slots))
  BY <1>4, <1>5
<1>7. \A y \in S : x <= y
  <2> SUFFICES ASSUME NEW y \in S, y < x PROVE FALSE
    BY KMesgAssumption DEF Slots
  <2>1. 0..y \subseteq 0..x /\ 0..y # 0..x
    BY KMesgAssumption DEF Slots
  <2>2. 0..y \in SUBSET Slots /\ 0..x \in SUBSET Slots
    BY <1>0
  <2> QED
    BY <2>1, <2>2, <1>6 DEF StrictSubsetOrdering
<1>8. \E z \in S : \A y \in S : z <= y
  BY <1>7
<1> QED
  BY <1>8 DEF Min

(* The scans stay in the ring ... *)
LEMMA AtInSlots ==
  ASSUME NEW kq, kq.wStart \in Slots, NEW k \in Slots
  PROVE  At(kq, k) \in Slots
  BY KMesgAssumption DEF At, Slots

(* ... and visit every slot of it. *)
LEMMA AtCovers ==
  ASSUME NEW kq, kq.wStart \in Slots, NEW i \in Slots
  PROVE  \E k \in Slots : At(kq, k) = i
<1>1. CASE i >= kq.wStart
  <2>1. i - kq.wStart \in Slots
    BY <1>1, KMesgAssumption DEF Slots
  <2>2. (kq.wStart + (i - kq.wStart)) % MAX_KMESG = i
    BY KMesgAssumption DEF Slots
  <2> QED
    BY <2>1, <2>2 DEF At
<1>2. CASE i < kq.wStart
  <2>1. i - kq.wStart + MAX_KMESG \in Slots
    BY <1>2, KMesgAssumption DEF Slots
  <2>2. kq.wStart + (i - kq.wStart + MAX_KMESG) = i + MAX_KMESG
    BY KMesgAssumption DEF Slots
  <2>3. (i + MAX_KMESG) % MAX_KMESG = i
    BY KMesgAssumption DEF Slots
  <2> QED
    BY <2>1, <2>2, <2>3 DEF At
<1> QED
  BY <1>1, <1>2, KMesgAssumption DEF Slots

(* find_kmesg finds a message of the type when there is one. *)
LEMMA FindFindsWanted ==
  ASSUME NEW kq, kq.wStart \in Slots, NEW w, HasKMesg(kq, w)
  PROVE  /\ FindKMesg(kq, w) \in Slots
         /\ kq.ent[FindKMesg(kq, w)] # NoMesg
<1> DEFINE S == {k \in Slots : Wanted(kq.ent[At(kq, k)], w)}
<1>1. PICK i \in Slots : Wanted(kq.ent[i], w)
  BY DEF HasKMesg
<1>2. S # {}
  BY <1>1, AtCovers
<1>3. Min(S) \in S
  BY <1>2, MinIsLeast
<1>4. FindKMesg(kq, w) = At(kq, Min(S))
  BY DEF FindKMesg
<1> QED
  BY <1>3, <1>4, AtInSlots DEF Wanted

(* Below the limit the scan of ksend_kmesg ends in the ring. *)
LEMMA ScanEnds ==
  ASSUME NEW kq \in KMesgQStt,
         Cardinality(Unread(kq)) < MAX_KMESG
  PROVE  ScanEnd(kq) \in Slots
<1> DEFINE S == {k \in Slots : ReachesEnd(kq, k) \/ kq.ent[At(kq, k)] = NoMesg}
<1>1. Unread(kq) # Slots
  BY SlotsFinite, KMesgAssumption
<1>2. PICK i \in Slots : kq.ent[i] = NoMesg
  BY <1>1 DEF Unread
<1>3. S # {}
  BY <1>2, AtCovers DEF KMesgQStt
<1> QED
  BY <1>3, MinIsLeast DEF ScanEnd

(* The counter bounds the messages of a queue. *)
Covered(kq) == kq \in KMesgQStt /\ Cardinality(Unread(kq)) <= kq.wTotalMesg

(* ksend_kmesg writes one slot and adds one to the counter. *)
LEMMA PutCovered ==
  ASSUME NEW kq, Covered(kq), NEW m \in Mesgs, HasRoom(kq)
  PROVE  Covered(PutKMesg(kq, m))
<1> DEFINE k == ScanEnd(kq)
           i == At(kq, k)
           n == PutKMesg(kq, m)
<1>1. IsFiniteSet(Unread(kq)) /\ Cardinality(Unread(kq)) \in Nat
  BY SlotsFinite, FS_Subset, FS_CardinalityType DEF Unread
<1>2. k \in Slots
  BY <1>1, ScanEnds, KMesgAssumption DEF Covered, HasRoom, KMesgQStt
<1>3. i \in Slots
  BY <1>2, AtInSlots DEF Covered, KMesgQStt
<1>4. n.ent = [kq.ent EXCEPT ![i] = m] /\ n.wTotalMesg = kq.wTotalMesg + 1
  BY DEF PutKMesg, Covered, KMesgQStt
<1>5. (i + 1) % MAX_KMESG \in Slots
  BY <1>3, KMesgAssumption DEF Slots
<1>6. n \in KMesgQStt
  <2>1. [kq.ent EXCEPT ![i] = m] \in [Slots -> Mesgs \cup {NoMesg}]
    BY DEF Covered, KMesgQStt
  <2>2. kq.wTotalMesg + 1 \in 0..MAX_KMESG
    BY KMesgAssumption DEF Covered, KMesgQStt, HasRoom
  <2> HIDE DEF i, k
  <2>3. (IF ReachesEnd(kq, k) THEN (i + 1) % MAX_KMESG ELSE kq.wEnd) \in Slots
    BY <1>5 DEF Covered, KMesgQStt
  <2> QED
    BY <2>1, <2>2, <2>3 DEF PutKMesg, Covered, KMesgQStt, i, k
<1> HIDE DEF n, i, k
<1>7. Unread(n) = Unread(kq) \cup {i}
  BY <1>3, <1>4, KMesgAssumption DEF Unread, Covered, KMesgQStt
<1>8. Cardinality(Unread(kq) \cup {i}) =
          IF i \in Unread(kq) THEN Cardinality(Unread(kq))
                              ELSE Cardinality(Unread(kq)) + 1
  BY <1>1, FS_AddElement
<1>9. Cardinality(Unread(n)) <= Cardinality(Unread(kq)) + 1
  BY <1>1, <1>7, <1>8
<1>10. Cardinality(Unread(n)) \in Nat
  BY <1>1, <1>7, <1>8
<1>11. kq.wTotalMesg \in Nat /\ Cardinality(Unread(kq)) <= kq.wTotalMesg
  BY KMesgAssumption DEF Covered, KMesgQStt
<1>12. Cardinality(Unread(n)) <= n.wTotalMesg
  BY <1>1, <1>4, <1>9, <1>10, <1>11
<1>13. Covered(n)
  BY <1>6, <1>12 DEF Covered
<1> QED
  BY <1>13 DEF n

(* kwait_kmesg frees the slot of a message and takes one off the counter. *)
LEMMA TakeCovered ==
  ASSUME NEW kq, Covered(kq), NEW i \in Slots, kq.ent[i] # NoMesg
  PROVE  Covered(TakeKMesg(kq, i))
<1> DEFINE n == TakeKMesg(kq, i)
<1>1. IsFiniteSet(Unread(kq)) /\ Cardinality(Unread(kq)) \in Nat
  BY SlotsFinite, FS_Subset, FS_CardinalityType DEF Unread
<1>2. n.ent = [kq.ent EXCEPT ![i] = NoMesg] /\ n.wTotalMesg = kq.wTotalMesg - 1
  BY DEF TakeKMesg, Covered, KMesgQStt
<1>3. Unread(n) = Unread(kq) \ {i} /\ i \in Unread(kq)
  BY <1>2 DEF Unread, Covered, KMesgQStt
<1>4. Cardinality(Unread(n)) = Cardinality(Unread(kq)) - 1
  BY <1>1, <1>3, FS_RemoveElement
<1>5. Cardinality(Unread(n)) \in Nat
  BY <1>1, <1>3, FS_RemoveElement, FS_CardinalityType
<1>6. (kq.wStart + 1) % MAX_KMESG \in Slots
  BY KMesgAssumption DEF Covered, KMesgQStt, Slots
<1>7. /\ kq.wTotalMesg \in 0..MAX_KMESG
      /\ Cardinality(Unread(kq)) <= kq.wTotalMesg
  BY DEF Covered, KMesgQStt
<1>8. kq.wTotalMesg - 1 \in 0..MAX_KMESG /\ Cardinality(Unread(n)) <= n.wTotalMesg
  BY <1>1, <1>2, <1>4, <1>5, <1>7, KMesgAssumption
<1>9. [kq.ent EXCEPT ![i] = NoMesg] \in [Slots -> Mesgs \cup {NoMesg}]
  BY DEF Covered, KMesgQStt
<1>10. n \in KMesgQStt
  BY <1>6, <1>8, <1>9 DEF TakeKMesg, Covered, KMesgQStt
<1> QED
  BY <1>8, <1>10 DEF Covered

-----------------------------------------------------------------------------
(* Type correctness and the counter.                                       *)

AllCovered == TypeOK /\ \A t \in Threads : Covered(kmesgq[t])

(* An empty ring has no messages. *)
LEMMA InitCovered == Init => AllCovered
<1> SUFFICES ASSUME Init PROVE AllCovered
  OBVIOUS
<1>1. NewKMesgQ \in KMesgQStt
  BY KMesgAssumption DEF NewKMesgQ, KMesgQStt, Slots
<1>2. Unread(NewKMesgQ) = {}
  BY DEF NewKMesgQ, Unread
<1>3. Covered(NewKMesgQ)
  BY <1>1, <1>2, FS_EmptySet DEF Covered, NewKMesgQ
<1> QED
  BY <1>1, <1>3 DEF Init, AllCovered, TypeOK

(* Each step keeps the types and the counters. *)
LEMMA NextCovered == AllCovered /\ [Next]_vars => AllCovered'
<1> SUFFICES ASSUME AllCovered, [Next]_vars PROVE AllCovered'
  OBVIOUS
<1>1. ASSUME NEW s \in Threads, NEW t \in Threads, NEW m \in Mesgs,
             SendKMesg(s, t, m)
      PROVE  AllCovered'
  <2>1. Covered(PutKMesg(kmesgq[t], m))
    BY <1>1, PutCovered DEF AllCovered, SendKMesg
  <2>2. kmesgq' = [kmesgq EXCEPT ![t] = PutKMesg(kmesgq[t], m)]
    BY <1>1 DEF SendKMesg
  <2>3. pc' \in [Threads -> {"run", "wait", "loop", "event"}]
    BY <1>1 DEF SendKMesg, AllCovered, TypeOK
  <2> QED
    BY <1>1, <2>1, <2>2, <2>3 DEF SendKMesg, AllCovered, TypeOK, Covered
<1>2. ASSUME NEW t \in Threads, NEW w \in Types \cup {KMESG_ANY},
             TakeMessage(t, w)
      PROVE  AllCovered'
  <2> DEFINE i == FindKMesg(kmesgq[t], w)
  <2>1. i \in Slots /\ kmesgq[t].ent[i] # NoMesg
    BY <1>2, FindFindsWanted DEF TakeMessage, AllCovered, TypeOK, KMesgQStt
  <2>2. kmesgq' = [kmesgq EXCEPT ![t] = TakeKMesg(kmesgq[t], i)]
    BY <1>2 DEF TakeMessage
  <2> HIDE DEF i
  <2>3. Covered(TakeKMesg(kmesgq[t], i))
    BY <2>1, TakeCovered DEF AllCovered
  <2> QED
    BY <1>2, <2>2, <2>3 DEF TakeMessage, AllCovered, TypeOK, Covered
<1>3. ASSUME NEW t \in Threads, NEW w \in Types \cup {KMESG_ANY},
             WaitForKMesg(t, w)
      PROVE  AllCovered'
  BY <1>3 DEF WaitForKMesg, AllCovered, TypeOK
<1>4. ASSUME NEW t \in Threads, WaitEvent(t) \/ EventOccurs(t)
      PROVE  AllCovered'
  BY <1>4 DEF WaitEvent, EventOccurs, AllCovered, TypeOK
<1>5. CASE UNCHANGED vars
  BY <1>5 DEF vars, AllCovered, TypeOK
<1> QED
  BY <1>1, <1>2, <1>3, <1>4, <1>5 DEF Next

(* Types and counters hold in every reachable state. *)
LEMMA SpecCovered == Spec => []AllCovered
  BY InitCovered, NextCovered, PTL DEF Spec

(* The rings, the indexes and the counters keep their types: wTotalMesg    *)
(* does not wrap below 0 and no index leaves the ring.                     *)
THEOREM SpecTypeOK == Spec => []TypeOK
<1>1. AllCovered => TypeOK
  BY DEF AllCovered
<1> QED
  BY <1>1, SpecCovered, PTL

(* wTotalMesg is never below the number of messages, so that the scan of   *)
(* ksend_kmesg always ends, for any ring size.                             *)
THEOREM SpecCountCoversMessages == Spec => []CountCoversMessages
<1>1. AllCovered => CountCoversMessages
  BY DEF AllCovered, Covered, CountCoversMessages
<1> QED
  BY <1>1, SpecCovered, PTL

-----------------------------------------------------------------------------
(* Indexes in a ring.                                                      *)

(* Multiples of m are at least m apart.                                    *)
LEMMA MultiplesApart ==
    ASSUME NEW m \in Nat \ {0}, NEW p \in Int, NEW q \in Int, p < q
    PROVE  p * m + m <= q * m
<1>1. p + 1 <= q
  OBVIOUS
<1>2. (p + 1) * m <= q * m
  BY <1>1
<1>3. (p + 1) * m = p * m + m
  OBVIOUS
<1>4. QED
  BY <1>2, <1>3

(* The remainder is the r below m for which x is a multiple of m and r.    *)
LEMMA RemainderUnique ==
    ASSUME NEW m \in Nat \ {0}, NEW q \in Int, NEW r \in 0..(m - 1)
    PROVE  (q * m + r) % m = r
<1>1. PICK p \in Int, s \in 0..(m - 1) :
        (q * m + r) % m = s /\ q * m + r = p * m + s
  <2> DEFINE x == q * m + r
  <2>1. x \div m \in Int /\ x % m \in 0..(m - 1) /\ x = ((x \div m) * m) + (x % m)
    OBVIOUS
  <2>2. QED
    BY <2>1
<1>2. q * m \in Int /\ p * m \in Int
  OBVIOUS
<1>3. ~ (p < q)
  BY <1>1, <1>2, MultiplesApart
<1>4. ~ (q < p)
  BY <1>1, <1>2, MultiplesApart
<1>5. p = q
  BY <1>3, <1>4
<1>6. QED
  BY <1>1, <1>2, <1>5

(* What a step of an index in a ring of m slots is.                        *)
LEMMA RingStep ==
    ASSUME NEW m \in Nat \ {0}, NEW x \in Nat
    PROVE  /\ x % m \in 0..(m - 1)
           /\ \A d \in 1..(m - 1) : (x + d) % m # x % m
           /\ \A d \in Nat : ((x % m) + d) % m = (x + d) % m
<1> DEFINE q == x \div m
           r == x % m
<1>1. q \in Int /\ r \in 0..(m - 1) /\ x = q * m + r
  OBVIOUS
<1> HIDE DEF q, r
<1>2. ASSUME NEW d \in Nat PROVE (r + d) % m = (x + d) % m
  <2>1. PICK p \in Int, s \in 0..(m - 1) : (r + d) % m = s /\ r + d = p * m + s
    BY <1>1
  <2>2. x + d = (q + p) * m + s
    <3>1. q * m \in Int /\ p * m \in Int /\ (q + p) * m = q * m + p * m
      BY <1>1, <2>1
    <3>2. QED
      BY <1>1, <2>1, <3>1
  <2>3. ((q + p) * m + s) % m = s
    <3>1. q + p \in Int
      BY <1>1, <2>1
    <3>2. QED
      BY <3>1, RemainderUnique
  <2>4. QED
    BY <2>1, <2>2, <2>3
<1>3. ASSUME NEW d \in 1..(m - 1) PROVE (x + d) % m # r
  <2>1. (r + d) % m # r
    <3>1. CASE r + d < m
      BY <1>1, <3>1
    <3>2. CASE r + d >= m
      <4>1. r + d = 1 * m + (r + d - m) /\ r + d - m \in 0..(m - 1)
        BY <1>1, <3>2
      <4>2. (1 * m + (r + d - m)) % m = r + d - m
        BY <4>1, RemainderUnique
      <4>3. QED
        BY <1>1, <4>1, <4>2
    <3>3. QED
      BY <1>1, <3>1, <3>2
  <2>2. QED
    BY <1>2, <2>1
<1>4. QED
  BY <1>1, <1>2, <1>3 DEF r

-----------------------------------------------------------------------------
(* The key queue of a thread.                                              *)

(* The index a key is written to follows from the other one and the        *)
(* counter, and the queue is at most one key over its room.                *)
InStep(q) ==
    /\ q \in KbdQStt
    /\ q.nTotalKey <= MAX_KEY + 1
    /\ q.nNextIn = (q.nNextOut + q.nTotalKey) % MAX_KEY

(* The keys of a queue are a sequence as long as the counter says.         *)
LEMMA KeysOfIsSeq ==
    ASSUME NEW q, InStep(q)
    PROVE  /\ KeysOf(q) \in Seq(Keys \cup {NoKey})
           /\ Len(KeysOf(q)) = q.nTotalKey
           /\ \A i \in 1..q.nTotalKey :
                KeysOf(q)[i] = q.key[(q.nNextOut + (i - 1)) % MAX_KEY]
<1> DEFINE m == MAX_KEY
           n == q.nTotalKey
<1>1. m \in Nat \ {0} /\ n \in Nat /\ q.nNextOut \in Nat
  BY InputQueueAssumption DEF InStep, KbdQStt, KeySlots
<1>2. \A i \in 1..n : /\ (q.nNextOut + i - 1) = q.nNextOut + (i - 1)
                      /\ q.nNextOut + (i - 1) \in Nat
  BY <1>1
<1>3. \A i \in 1..n : (q.nNextOut + (i - 1)) % m \in KeySlots
  BY <1>1, <1>2, RingStep DEF KeySlots
<1>4. \A i \in 1..n : q.key[(q.nNextOut + i - 1) % m] \in Keys \cup {NoKey}
  BY <1>2, <1>3 DEF InStep, KbdQStt
<1>5. KeysOf(q) \in [1..n -> Keys \cup {NoKey}]
  BY <1>4 DEF KeysOf
<1>6. KeysOf(q) \in Seq(Keys \cup {NoKey})
  BY <1>1, <1>5
<1>7. Len(KeysOf(q)) = n
  BY <1>1, <1>5, <1>6, LenProperties
<1>8. QED
  BY <1>2, <1>6, <1>7 DEF KeysOf

(* What a step does to a queue.                                            *)
Kept(old, new)  == KeysOf(new) = KeysOf(old)
Added(old, new) ==
    IF HasKeyRoom(old) THEN \E k \in Keys : KeysOf(new) = Append(KeysOf(old), k)
                       ELSE Len(KeysOf(new)) > MAX_KEY
Taken(old, new) == KeysOf(old) # <<>> /\ KeysOf(new) = Tail(KeysOf(old))

(* A key goes behind the others, while there is room for it.               *)
LEMMA PutKeyAppends ==
    ASSUME NEW q, InStep(q), q.nTotalKey <= MAX_KEY, NEW k \in Keys
    PROVE  /\ InStep(PutKey(q, k))
           /\ PutKey(q, k).nTotalKey = q.nTotalKey + 1
           /\ Added(q, PutKey(q, k))
<1> DEFINE m == MAX_KEY
           n == q.nTotalKey
           r == PutKey(q, k)
           out == q.nNextOut
<1>1. m \in Nat \ {0} /\ n \in Nat /\ out \in Nat /\ q.nNextIn \in Nat
  BY InputQueueAssumption DEF InStep, KbdQStt, KeySlots
<1> DEFINE keys == [q.key EXCEPT ![q.nNextIn] = k]
           in   == (q.nNextIn + 1) % m
<1>2. r = [key |-> keys, nTotalKey |-> n + 1, nNextIn |-> in, nNextOut |-> out]
  <2>1. r = [q EXCEPT !.key = keys, !.nNextIn = in, !.nTotalKey = n + 1]
    BY DEF PutKey
  <2> HIDE DEF r, keys, in
  <2>2. QED
    BY <2>1 DEF InStep, KbdQStt
<1> HIDE DEF r
<1>3. q.nNextIn = (out + n) % m /\ out + n \in Nat
  BY <1>1 DEF InStep
<1>4. (q.nNextIn + 1) % m = (out + (n + 1)) % m
  <2>1. (q.nNextIn + 1) % m = ((out + n) + 1) % m
    BY <1>1, <1>3, RingStep
  <2>2. QED
    BY <1>1, <2>1
<1>5. in \in KeySlots
  <2>1. q.nNextIn + 1 \in Nat
    BY <1>1
  <2>2. QED
    BY <1>1, <2>1, RingStep DEF KeySlots
<1>6. InStep(r)
  <2>1. r.key \in [KeySlots -> Keys \cup {NoKey}]
    BY <1>2 DEF InStep, KbdQStt
  <2>2. r.nTotalKey \in Nat /\ r.nTotalKey <= m + 1
    BY <1>1, <1>2
  <2>3. r.nNextIn \in KeySlots /\ r.nNextOut \in KeySlots
    BY <1>2, <1>5 DEF InStep, KbdQStt
  <2>4. r \in KbdQStt
    BY <1>2, <2>1, <2>2, <2>3 DEF KbdQStt
  <2>5. QED
    BY <1>2, <1>4, <2>2, <2>4 DEF InStep
<1>7. ASSUME HasKeyRoom(q) PROVE KeysOf(r) = Append(KeysOf(q), k)
  <2> DEFINE S == Keys \cup {NoKey}
             a == Append(KeysOf(q), k)
  <2>1. n <= m - 1
    BY <1>1, <1>7 DEF HasKeyRoom
  <2>2. /\ KeysOf(q) \in Seq(S)
        /\ Len(KeysOf(q)) = n
        /\ \A i \in 1..n : KeysOf(q)[i] = q.key[(out + (i - 1)) % m]
    BY KeysOfIsSeq
  <2>3. /\ KeysOf(r) \in Seq(S)
        /\ Len(KeysOf(r)) = n + 1
        /\ \A i \in 1..(n + 1) : KeysOf(r)[i] = r.key[(out + (i - 1)) % m]
    <3>1. r.nTotalKey = n + 1 /\ r.nNextOut = out
      BY <1>2
    <3>2. /\ KeysOf(r) \in Seq(S)
          /\ Len(KeysOf(r)) = r.nTotalKey
          /\ \A i \in 1..r.nTotalKey :
               KeysOf(r)[i] = r.key[(r.nNextOut + (i - 1)) % m]
      BY <1>6, KeysOfIsSeq
    <3>3. QED
      BY <3>1, <3>2
  <2>4. /\ a \in Seq(S)
        /\ Len(a) = n + 1
        /\ \A i \in 1..n : a[i] = KeysOf(q)[i]
        /\ a[n + 1] = k
    BY <2>2, AppendProperties
  <2> HIDE DEF a, S
  <2>5. ASSUME NEW i \in 1..n PROVE KeysOf(r)[i] = a[i]
    <3> DEFINE x == out + (i - 1)
               d == n - (i - 1)
    <3>1. x \in Nat /\ d \in 1..(m - 1) /\ x + d = out + n
      BY <1>1, <2>1
    <3> HIDE DEF x, d
    <3>2. x % m \in 0..(m - 1) /\ (x + d) % m # x % m
      BY <1>1, <3>1, RingStep
    <3>3. x % m # q.nNextIn /\ x % m \in KeySlots
      BY <1>3, <3>1, <3>2 DEF KeySlots
    <3>4. r.key[x % m] = q.key[x % m]
      BY <1>2, <3>3 DEF InStep, KbdQStt
    <3>5. i \in 1..(n + 1)
      BY <1>1
    <3>6. QED
      BY <2>2, <2>3, <2>4, <3>4, <3>5 DEF x
  <2>6. KeysOf(r)[n + 1] = a[n + 1]
    <3>1. n + 1 \in 1..(n + 1) /\ (n + 1) - 1 = n
      BY <1>1
    <3>2. KeysOf(r)[n + 1] = r.key[q.nNextIn]
      BY <1>3, <2>3, <3>1
    <3>3. q.nNextIn \in KeySlots
      BY DEF InStep, KbdQStt
    <3>4. QED
      BY <1>2, <2>4, <3>2, <3>3 DEF InStep, KbdQStt
  <2>7. \A i \in 1..(n + 1) : KeysOf(r)[i] = a[i]
    BY <1>1, <2>5, <2>6
  <2>8. QED
    BY <2>3, <2>4, <2>7, SeqEqual DEF a
<1>8. ASSUME ~ HasKeyRoom(q) PROVE Len(KeysOf(r)) > m
  <2>1. Len(KeysOf(r)) = n + 1
    BY <1>2, <1>6, KeysOfIsSeq
  <2>2. QED
    BY <1>1, <1>8, <2>1 DEF HasKeyRoom
<1>9. QED
  BY <1>2, <1>6, <1>7, <1>8 DEF r, Added

(* The oldest key leaves the queue.                                        *)
LEMMA TakeKeyTails ==
    ASSUME NEW q, InStep(q), q.nTotalKey > 0
    PROVE  /\ InStep(TakeKey(q))
           /\ TakeKey(q).nTotalKey = q.nTotalKey - 1
           /\ KeysOf(q) # <<>>
           /\ KeysOf(TakeKey(q)) = Tail(KeysOf(q))
<1> DEFINE m == MAX_KEY
           n == q.nTotalKey
           r == TakeKey(q)
           out == q.nNextOut
           S == Keys \cup {NoKey}
<1>1. m \in Nat \ {0} /\ n \in Nat \ {0} /\ out \in Nat
  BY InputQueueAssumption DEF InStep, KbdQStt, KeySlots
<1>2. r = [key |-> q.key, nTotalKey |-> n - 1,
           nNextIn |-> q.nNextIn, nNextOut |-> (out + 1) % m]
  <2> DEFINE o == (out + 1) % m
  <2>1. r = [q EXCEPT !.nNextOut = o, !.nTotalKey = n - 1]
    BY DEF TakeKey
  <2> HIDE DEF r, o
  <2>2. r = [key |-> q.key, nTotalKey |-> n - 1,
             nNextIn |-> q.nNextIn, nNextOut |-> o]
    BY <2>1 DEF InStep, KbdQStt
  <2>3. QED
    BY <2>2 DEF o
<1> HIDE DEF r
<1>3. \A d \in Nat : (r.nNextOut + d) % m = (out + (d + 1)) % m
  <2>1. \A d \in Nat : (((out + 1) % m) + d) % m = ((out + 1) + d) % m
    <3>1. out + 1 \in Nat
      BY <1>1
    <3>2. QED
      BY <1>1, <3>1, RingStep
  <2>2. \A d \in Nat : (out + 1) + d = out + (d + 1)
    BY <1>1
  <2>3. QED
    BY <1>2, <2>1, <2>2
<1>4. r.nNextOut \in KeySlots
  <2>1. out + 1 \in Nat
    BY <1>1
  <2>2. QED
    BY <1>1, <1>2, <2>1, RingStep DEF KeySlots
<1>5. InStep(r)
  <2>1. r \in KbdQStt
    BY <1>1, <1>2, <1>4 DEF InStep, KbdQStt
  <2>2. r.nNextIn = (r.nNextOut + r.nTotalKey) % m
    <3>1. n - 1 \in Nat /\ (n - 1) + 1 = n
      BY <1>1
    <3>2. QED
      BY <1>2, <1>3, <3>1 DEF InStep
  <2>3. QED
    BY <1>1, <1>2, <2>1, <2>2 DEF InStep
<1>6. /\ KeysOf(q) \in Seq(S)
      /\ Len(KeysOf(q)) = n
      /\ \A i \in 1..n : KeysOf(q)[i] = q.key[(out + (i - 1)) % m]
  BY KeysOfIsSeq
<1>7. /\ KeysOf(r) \in Seq(S)
      /\ Len(KeysOf(r)) = n - 1
      /\ \A i \in 1..(n - 1) : KeysOf(r)[i] = q.key[(r.nNextOut + (i - 1)) % m]
  <2>1. r.nTotalKey = n - 1 /\ r.key = q.key
    BY <1>2
  <2>2. /\ KeysOf(r) \in Seq(S)
        /\ Len(KeysOf(r)) = r.nTotalKey
        /\ \A i \in 1..r.nTotalKey :
             KeysOf(r)[i] = r.key[(r.nNextOut + (i - 1)) % m]
    BY <1>5, KeysOfIsSeq
  <2>3. QED
    BY <2>1, <2>2
<1>8. KeysOf(q) # <<>>
  BY <1>1, <1>6, EmptySeq
<1>9. /\ Tail(KeysOf(q)) \in Seq(S)
      /\ Len(Tail(KeysOf(q))) = n - 1
      /\ \A i \in 1..(n - 1) : Tail(KeysOf(q))[i] = KeysOf(q)[i + 1]
  BY <1>6, <1>8, HeadTailProperties
<1>10. ASSUME NEW i \in 1..(n - 1) PROVE KeysOf(r)[i] = Tail(KeysOf(q))[i]
  <2>1. i - 1 \in Nat /\ i + 1 \in 1..n /\ (i - 1) + 1 = (i + 1) - 1
    BY <1>1
  <2>2. (r.nNextOut + (i - 1)) % m = (out + ((i + 1) - 1)) % m
    BY <1>3, <2>1
  <2>3. QED
    BY <1>6, <1>7, <1>9, <2>1, <2>2
<1> HIDE DEF S
<1>11. KeysOf(r) = Tail(KeysOf(q))
  BY <1>7, <1>9, <1>10, SeqEqual
<1>12. QED
  BY <1>2, <1>5, <1>8, <1>11 DEF r

-----------------------------------------------------------------------------
(* Between its test and its write the remote shell holds the processor, so *)
(* that only the keyboard's interrupt can fill the queue up, and that one  *)
(* stops at its room.                                                      *)
InputInv ==
    /\ InputTypeOK
    /\ \A t \in Readers : InStep(pKbdQ[t])
    /\ reader[RShell] = "add" =>
          /\ adds \in [thread : Readers, key : Keys]
          /\ pKbdQ[adds.thread].nTotalKey <= MAX_KEY

(* All queues are empty at first.                                          *)
LEMMA InputInitInv == InputInit => InputInv
<1> SUFFICES ASSUME InputInit PROVE InputInv
  OBVIOUS
<1> DEFINE q == [key |-> [i \in KeySlots |-> NoKey],
                 nTotalKey |-> 0, nNextIn |-> 0, nNextOut |-> 0]
<1>1. 0 \in KeySlots /\ MAX_KEY \in Nat \ {0} /\ SERIAL_PORT_BUFF_SIZE \in Nat
  BY InputQueueAssumption DEF KeySlots
<1>2. q \in KbdQStt
  BY <1>1 DEF KbdQStt
<1>3. InStep(q)
  <2>1. (0 + 0) % MAX_KEY = 0
    BY <1>1
  <2>2. q.nTotalKey = 0 /\ q.nNextIn = 0 /\ q.nNextOut = 0
    OBVIOUS
  <2>3. QED
    BY <1>1, <1>2, <2>1, <2>2 DEF InStep
<1> HIDE DEF q
<1>4. pKbdQ = [t \in Readers |-> q]
  BY DEF InputInit, q
<1>5. /\ i_buff = <<>>
      /\ reader = [t \in Readers \cup {RShell} |-> "run"]
      /\ adds = NoAdd
  BY DEF InputInit
<1>6. InputTypeOK
  BY <1>1, <1>2, <1>3, <1>4, <1>5 DEF InputTypeOK, InStep
<1>7. QED
  BY <1>3, <1>4, <1>5, <1>6 DEF InputInv

(* One queue is written, by one of the two operations.                     *)
LEMMA QueueWritten ==
    ASSUME InputInv, NEW t \in Readers, NEW q, InStep(q),
           pKbdQ' = [pKbdQ EXCEPT ![t] = q]
    PROVE  /\ pKbdQ' \in [Readers -> KbdQStt]
           /\ \A u \in Readers : InStep(pKbdQ'[u])
           /\ \A u \in Readers : pKbdQ'[u].nTotalKey <= MAX_KEY + 1
           /\ \A u \in Readers : u # t => pKbdQ'[u] = pKbdQ[u]
           /\ pKbdQ'[t] = q
BY DEF InputInv, InputTypeOK, InStep

ReaderStates == [Readers \cup {RShell} -> {"run", "empty", "wait", "add", "added"}]

(* A reader that is woken leaves the others where they are.                *)
LEMMA AwakeWakes ==
    ASSUME NEW t \in Readers \cup {RShell},
           NEW p \in ReaderStates
    PROVE  /\ Awake(t, p) \in ReaderStates
           /\ \A u \in Readers \cup {RShell} : Awake(t, p)[u] = "add" <=> p[u] = "add"
BY DEF Awake, ReaderStates

(* The keyboard's interrupt adds a key only where there is room.           *)
LEMMA KeyArrivesInv ==
    ASSUME InputInv, NEW t \in Readers, NEW k \in Keys, KeyArrives(t, k)
    PROVE  /\ InputInv'
           /\ \A u \in Readers : \/ Kept(pKbdQ[u], pKbdQ'[u])
                                 \/ Added(pKbdQ[u], pKbdQ'[u])
<1> DEFINE q == PutKey(pKbdQ[t], k)
<1>1. /\ pKbdQ' = [pKbdQ EXCEPT ![t] = q]
      /\ reader' = Awake(t, reader)
      /\ i_buff' = i_buff /\ adds' = adds
      /\ pKbdQ[t].nTotalKey < MAX_KEY
  BY DEF KeyArrives, HasKeyRoom
<1>2. InStep(pKbdQ[t]) /\ pKbdQ[t].nTotalKey \in Nat /\ MAX_KEY \in Nat
  BY InputQueueAssumption DEF InputInv, InStep, KbdQStt
<1>3. /\ InStep(q)
      /\ q.nTotalKey = pKbdQ[t].nTotalKey + 1
      /\ Added(pKbdQ[t], q)
  BY <1>1, <1>2, PutKeyAppends
<1> HIDE DEF q
<1>4. /\ pKbdQ' \in [Readers -> KbdQStt]
      /\ \A u \in Readers : InStep(pKbdQ'[u])
      /\ \A u \in Readers : pKbdQ'[u].nTotalKey <= MAX_KEY + 1
      /\ \A u \in Readers : u # t => pKbdQ'[u] = pKbdQ[u]
      /\ pKbdQ'[t] = q
  BY <1>1, <1>3, QueueWritten
<1>5. /\ reader' \in ReaderStates
      /\ reader'[RShell] = "add" => reader[RShell] = "add"
  BY <1>1, AwakeWakes DEF InputInv, InputTypeOK, ReaderStates
<1>6. InputTypeOK'
  BY <1>1, <1>4, <1>5 DEF InputInv, InputTypeOK, ReaderStates
<1>7. ASSUME reader'[RShell] = "add"
      PROVE  /\ adds' \in [thread : Readers, key : Keys]
             /\ pKbdQ'[adds'.thread].nTotalKey <= MAX_KEY
  BY <1>1, <1>2, <1>3, <1>4, <1>5, <1>7 DEF InputInv
<1>8. QED
  BY <1>3, <1>4, <1>6, <1>7 DEF InputInv, Kept

(* The remote shell adds the key it had room for.                          *)
LEMMA RemoteAddInv ==
    ASSUME InputInv, RemoteAdd
    PROVE  /\ InputInv'
           /\ \A u \in Readers : \/ Kept(pKbdQ[u], pKbdQ'[u])
                                 \/ Added(pKbdQ[u], pKbdQ'[u])
<1> DEFINE t == adds.thread
           q == PutKey(pKbdQ[t], adds.key)
           p == [reader EXCEPT ![RShell] = "added"]
<1>1. /\ pKbdQ' = [pKbdQ EXCEPT ![t] = q]
      /\ reader' = p
      /\ i_buff' = i_buff /\ adds' = adds
      /\ reader[RShell] = "add"
  BY DEF RemoteAdd
<1>2. t \in Readers /\ adds.key \in Keys /\ pKbdQ[t].nTotalKey <= MAX_KEY
  BY <1>1 DEF InputInv
<1>3. InStep(q) /\ Added(pKbdQ[t], q)
  <2>1. InStep(pKbdQ[t])
    BY <1>2 DEF InputInv
  <2>2. QED
    BY <1>2, <2>1, PutKeyAppends
<1>4. /\ p \in ReaderStates
      /\ p[RShell] = "added"
  BY DEF InputInv, InputTypeOK, ReaderStates
<1> HIDE DEF t, q, p
<1>5. /\ pKbdQ' \in [Readers -> KbdQStt]
      /\ \A u \in Readers : InStep(pKbdQ'[u])
      /\ \A u \in Readers : pKbdQ'[u].nTotalKey <= MAX_KEY + 1
      /\ \A u \in Readers : u # t => pKbdQ'[u] = pKbdQ[u]
      /\ pKbdQ'[t] = q
  BY <1>1, <1>2, <1>3, QueueWritten
<1>6. /\ reader' \in ReaderStates
      /\ reader'[RShell] # "add"
  BY <1>1, <1>4
<1>7. InputTypeOK'
  BY <1>1, <1>5, <1>6 DEF InputInv, InputTypeOK, ReaderStates
<1>8. QED
  BY <1>3, <1>5, <1>6, <1>7 DEF InputInv, Kept

(* It wakes the reader.                                                    *)
LEMMA RemoteAwakesInv ==
    ASSUME InputInv, RemoteAwakes
    PROVE  InputInv' /\ pKbdQ' = pKbdQ
<1> DEFINE t == adds.thread
           p == [reader EXCEPT ![RShell] = "run"]
<1>1. reader' = Awake(t, p) /\ pKbdQ' = pKbdQ /\ i_buff' = i_buff /\ adds' = NoAdd
  BY DEF RemoteAwakes
<1>2. t \in Readers \cup {RShell} /\ p \in ReaderStates /\ p[RShell] = "run"
  BY DEF InputInv, InputTypeOK, NoAdd, ReaderStates
<1> HIDE DEF t, p
<1>3. reader' \in ReaderStates /\ reader'[RShell] # "add"
  BY <1>1, <1>2, AwakeWakes
<1>4. InputTypeOK'
  BY <1>1, <1>3 DEF InputInv, InputTypeOK, ReaderStates
<1>5. QED
  BY <1>1, <1>3, <1>4 DEF InputInv

(* getchar takes the oldest key.                                           *)
LEMMA GetKeyInv ==
    ASSUME InputInv, NEW t \in Readers, GetKey(t)
    PROVE  /\ InputInv'
           /\ \A u \in Readers : \/ Kept(pKbdQ[u], pKbdQ'[u])
                                 \/ Taken(pKbdQ[u], pKbdQ'[u])
<1> DEFINE q == TakeKey(pKbdQ[t])
<1>1. /\ pKbdQ' = [pKbdQ EXCEPT ![t] = q]
      /\ UNCHANGED <<i_buff, reader, adds>>
      /\ pKbdQ[t].nTotalKey > 0
  BY DEF GetKey
<1>2. reader[RShell] # "add"
  BY InputQueueAssumption DEF GetKey, MayRun
<1>3. InStep(q) /\ Taken(pKbdQ[t], q)
  <2>1. InStep(pKbdQ[t])
    BY DEF InputInv
  <2>2. QED
    BY <1>1, <2>1, TakeKeyTails DEF Taken
<1> HIDE DEF q
<1>4. /\ pKbdQ' \in [Readers -> KbdQStt]
      /\ \A u \in Readers : InStep(pKbdQ'[u])
      /\ \A u \in Readers : pKbdQ'[u].nTotalKey <= MAX_KEY + 1
      /\ \A u \in Readers : u # t => pKbdQ'[u] = pKbdQ[u]
      /\ pKbdQ'[t] = q
  BY <1>1, <1>3, QueueWritten
<1>5. InputTypeOK'
  BY <1>1, <1>4 DEF InputInv, InputTypeOK
<1>6. QED
  BY <1>1, <1>2, <1>3, <1>4, <1>5 DEF InputInv, Kept

(* The remote shell finds room for a byte, or drops it.                    *)
LEMMA RemoteByteInv ==
    ASSUME InputInv, NEW t \in Readers, RemoteByte(t)
    PROVE  InputInv' /\ pKbdQ' = pKbdQ
<1>1. /\ reader[RShell] = "run" /\ i_buff # <<>>
      /\ i_buff' = Tail(i_buff) /\ pKbdQ' = pKbdQ
      /\ \/ /\ pKbdQ[t].nTotalKey < MAX_KEY
            /\ reader' = [reader EXCEPT ![RShell] = "add"]
            /\ adds' = [thread |-> t, key |-> Head(i_buff)]
         \/ reader' = reader /\ adds' = adds
  BY DEF RemoteByte, HasKeyRoom
<1>2. /\ Head(i_buff) \in Keys
      /\ Tail(i_buff) \in Seq(Keys)
      /\ Len(Tail(i_buff)) <= SERIAL_PORT_BUFF_SIZE
  <2>1. /\ i_buff \in Seq(Keys) /\ Len(i_buff) \in Nat
        /\ Len(i_buff) <= SERIAL_PORT_BUFF_SIZE /\ SERIAL_PORT_BUFF_SIZE \in Nat
    BY InputQueueAssumption, LenProperties DEF InputInv, InputTypeOK
  <2>2. QED
    BY <1>1, <2>1, HeadTailProperties
<1>3. pKbdQ[t].nTotalKey \in Nat /\ MAX_KEY \in Nat
  BY InputQueueAssumption DEF InputInv, InStep, KbdQStt
<1>4. InputTypeOK'
  BY <1>1, <1>2 DEF InputInv, InputTypeOK
<1>5. QED
  BY <1>1, <1>2, <1>3, <1>4 DEF InputInv, InputTypeOK

(* A byte arrives on the serial line.                                      *)
LEMMA ByteArrivesInv ==
    ASSUME InputInv, NEW k \in Keys, ByteArrives(k)
    PROVE  InputInv' /\ pKbdQ' = pKbdQ
<1>1. /\ i_buff' = IF Len(i_buff) < SERIAL_PORT_BUFF_SIZE THEN Append(i_buff, k)
                                                            ELSE i_buff
      /\ reader' = Awake(RShell, reader)
      /\ pKbdQ' = pKbdQ /\ adds' = adds
  BY DEF ByteArrives
<1>2. i_buff' \in Seq(Keys) /\ Len(i_buff') <= SERIAL_PORT_BUFF_SIZE
  <2>1. /\ i_buff \in Seq(Keys) /\ Len(i_buff) \in Nat
        /\ Len(i_buff) <= SERIAL_PORT_BUFF_SIZE /\ SERIAL_PORT_BUFF_SIZE \in Nat
    BY InputQueueAssumption, LenProperties DEF InputInv, InputTypeOK
  <2>2. Append(i_buff, k) \in Seq(Keys) /\ Len(Append(i_buff, k)) = Len(i_buff) + 1
    BY <2>1, AppendProperties
  <2>3. QED
    BY <1>1, <2>1, <2>2
<1>3. /\ reader' \in ReaderStates
      /\ reader'[RShell] = "add" => reader[RShell] = "add"
  BY <1>1, AwakeWakes DEF InputInv, InputTypeOK, ReaderStates
<1>4. InputTypeOK'
  BY <1>1, <1>2, <1>3 DEF InputInv, InputTypeOK, ReaderStates
<1>5. QED
  BY <1>1, <1>3, <1>4 DEF InputInv

(* A reader goes to sleep, or a signal wakes it.                           *)
LEMMA SleepInv ==
    ASSUME InputInv, NEW t \in Readers \cup {RShell},
           FindsEmpty(t) \/ Sleeps(t) \/ SignalWakes(t)
    PROVE  InputInv' /\ pKbdQ' = pKbdQ
<1>1. /\ \E p \in {"run", "empty", "wait"} : reader' = [reader EXCEPT ![t] = p]
      /\ UNCHANGED <<pKbdQ, i_buff, adds>>
  BY DEF FindsEmpty, Sleeps, SignalWakes
<1>2. InputTypeOK'
  BY <1>1 DEF InputInv, InputTypeOK
<1>3. QED
  BY <1>1, <1>2 DEF InputInv, InputTypeOK

(* A step keeps the invariant, and adds a key behind the others, takes the *)
(* first, or leaves a queue alone.                                         *)
LEMMA InputNextInv ==
    ASSUME InputInv, [InputNext]_inputVars
    PROVE  /\ InputInv'
           /\ \A u \in Readers : \/ Kept(pKbdQ[u], pKbdQ'[u])
                                 \/ Added(pKbdQ[u], pKbdQ'[u])
                                 \/ Taken(pKbdQ[u], pKbdQ'[u])
<1>1. CASE UNCHANGED inputVars
  BY <1>1 DEF inputVars, InputInv, InputTypeOK, Kept
<1>2. CASE \E k \in Keys : ByteArrives(k) \/ \E t \in Readers : KeyArrives(t, k)
  BY <1>2, ByteArrivesInv, KeyArrivesInv DEF Kept
<1>3. CASE \E t \in Readers : GetKey(t) \/ SignalWakes(t) \/ RemoteByte(t)
  BY <1>3, GetKeyInv, SleepInv, RemoteByteInv DEF Kept
<1>4. CASE \E t \in Readers \cup {RShell} : FindsEmpty(t) \/ Sleeps(t)
  BY <1>4, SleepInv DEF Kept
<1>5. CASE RemoteAdd
  BY <1>5, RemoteAddInv
<1>6. CASE RemoteAwakes
  BY <1>6, RemoteAwakesInv DEF Kept
<1>7. QED
  BY <1>1, <1>2, <1>3, <1>4, <1>5, <1>6 DEF InputNext

(* The inductive invariant holds in every reachable state.                *)
LEMMA SpecInputInv == InputSpec => []InputInv
BY InputInitInv, InputNextInv, PTL DEF InputSpec

(* Every variable keeps its type, and the race between the test of         *)
(* add_key_to_thread and its write puts a queue at most one key over its   *)
(* room, for any number of readers and any room.                           *)
THEOREM SpecInputTypeOK == InputSpec => []InputTypeOK
<1>1. InputInv => InputTypeOK
  BY DEF InputInv
<1>2. QED
  BY <1>1, SpecInputInv, PTL

(* Keys leave a queue in the order they came, while it is within its room. *)
THEOREM SpecKeysInOrder == InputSpec => KeysInOrder
<1> DEFINE A == \A t \in Readers :
                  LET old == KeysOf(pKbdQ[t])
                      new == KeysOf(pKbdQ'[t])
                  IN  Len(old) <= MAX_KEY /\ Len(new) <= MAX_KEY =>
                         \/ new = old
                         \/ \E k \in Keys : new = Append(old, k)
                         \/ old # <<>> /\ new = Tail(old)
<1>1. ASSUME InputInv, [InputNext]_inputVars PROVE A
  <2> SUFFICES ASSUME NEW t \in Readers,
                      Len(KeysOf(pKbdQ[t])) <= MAX_KEY,
                      Len(KeysOf(pKbdQ'[t])) <= MAX_KEY
               PROVE  \/ KeysOf(pKbdQ'[t]) = KeysOf(pKbdQ[t])
                      \/ \E k \in Keys : KeysOf(pKbdQ'[t]) = Append(KeysOf(pKbdQ[t]), k)
                      \/ /\ KeysOf(pKbdQ[t]) # <<>>
                         /\ KeysOf(pKbdQ'[t]) = Tail(KeysOf(pKbdQ[t]))
    OBVIOUS
  <2>1. \/ Kept(pKbdQ[t], pKbdQ'[t])
        \/ Added(pKbdQ[t], pKbdQ'[t])
        \/ Taken(pKbdQ[t], pKbdQ'[t])
    BY <1>1, InputNextInv
  <2>2. /\ Len(KeysOf(pKbdQ'[t])) \in Nat
        /\ MAX_KEY \in Nat
    <3>1. InStep(pKbdQ'[t])
      BY <1>1, InputNextInv DEF InputInv
    <3>2. QED
      BY <3>1, KeysOfIsSeq, InputQueueAssumption DEF InStep, KbdQStt
  <2>3. QED
    BY <2>1, <2>2 DEF Kept, Added, Taken
<1>2. InputInv /\ [InputNext]_inputVars => [A]_inputVars
  <2> HIDE DEF A
  <2>1. QED
    BY <1>1
<1>3. QED
  BY <1>2, SpecInputInv, PTL DEF InputSpec, KeysInOrder

=============================================================================
