------------------------------ MODULE KSemProofs ------------------------------
(***************************************************************************)
(* Semaphores implement first-come-first-served permits, for any number of *)
(* threads, processes and semaphores, and any initial values; and, at the  *)
(* end, the critical section, which is built from the same events.         *)
(***************************************************************************)
EXTENDS KSem, CritSect, LinkLemmas, FiniteSetTheorems

(* A thread is linked in one event at most, once, and then it sleeps.      *)
LinkedThreadsSleep ==
    \A s \in Sems :
        /\ IsInjective(e[s].link)
        /\ \A t \in ToSet(e[s].link) : pc[t] = "wait" /\ on[t] = s

(* The inductive invariant.                                                *)
IInv == TypeOK /\ LinkedThreadsSleep /\ NoSleeperWithPermit

-----------------------------------------------------------------------------
(* No semaphore exists at first.                                           *)
LEMMA InitIInv == Init => IInv
<1> SUFFICES ASSUME Init PROVE IInv
  OBVIOUS
<1>1. TypeOK
  BY SemAssumption DEF SemAssumption, Init, TypeOK, NewEvent, EventStt
<1>2. LinkedThreadsSleep /\ NoSleeperWithPermit
  BY DEF Init, LinkedThreadsSleep, NoSleeperWithPermit, NewEvent, IsInjective, ToSet
<1>3. QED
  BY <1>1, <1>2 DEF IInv

(* A new semaphore has a new event.                                        *)
LEMMA CreateIInv ==
    ASSUME IInv, NEW t \in Threads, NEW s \in Sems, NEW nm \in Names,
           NEW v \in InitValues, Create(t, s, nm, v)
    PROVE  IInv'
<1>1. TypeOK'
  BY SemAssumption
     DEF SemAssumption, IInv, TypeOK, Create, threadVars, NewEvent, EventStt
<1>2. ASSUME NEW r \in Sems
      PROVE  /\ r # s => e'[r] = e[r] /\ nValue'[r] = nValue[r]
             /\ r = s => e'[r].link = <<>>
  BY DEF IInv, TypeOK, Create, NewEvent
<1>3. LinkedThreadsSleep' /\ NoSleeperWithPermit'
  BY <1>2
     DEF IInv, LinkedThreadsSleep, NoSleeperWithPermit, Create, threadVars,
         IsInjective, ToSet
<1>4. QED
  BY <1>1, <1>3 DEF IInv

(* Opening and closing a reference changes counters only.                  *)
LEMMA ReferenceIInv ==
    ASSUME IInv, NEW t \in Threads,
           \/ \E nm \in Names : Open(t, nm)
           \/ \E s \in Sems : CloseReference(t, s)
    PROVE  IInv'
<1>1. PICK s \in Sems, n \in Nat, m \in Nat :
        /\ nRefCounter' = [nRefCounter EXCEPT ![s] = n]
        /\ open' = [open EXCEPT ![ProcOf[t]][s] = m]
  <2>1. ProcOf[t] \in Processes
    BY SemAssumption DEF SemAssumption
  <2>2. ASSUME NEW nm \in Names, Open(t, nm)
        PROVE  \E s \in Sems, n \in Nat, m \in Nat :
                 /\ nRefCounter' = [nRefCounter EXCEPT ![s] = n]
                 /\ open' = [open EXCEPT ![ProcOf[t]][s] = m]
    <3>1. PICK s \in Sems :
            /\ nRefCounter' = [nRefCounter EXCEPT ![s] = nRefCounter[s] + 1]
            /\ open' = [open EXCEPT ![ProcOf[t]][s] = open[ProcOf[t]][s] + 1]
      BY <2>2 DEF Open, Named, RefOnOpen
    <3>2. nRefCounter[s] + 1 \in Nat /\ open[ProcOf[t]][s] + 1 \in Nat
      BY <2>1 DEF IInv, TypeOK
    <3>3. QED
      BY <3>1, <3>2
  <2>3. ASSUME NEW s \in Sems, CloseReference(t, s)
        PROVE  \E n \in Nat, m \in Nat :
                 /\ nRefCounter' = [nRefCounter EXCEPT ![s] = n]
                 /\ open' = [open EXCEPT ![ProcOf[t]][s] = m]
    <3>1. /\ nRefCounter' = [nRefCounter EXCEPT ![s] = nRefCounter[s] - 1]
          /\ open' = [open EXCEPT ![ProcOf[t]][s] = open[ProcOf[t]][s] - 1]
          /\ nRefCounter[s] > 1 /\ open[ProcOf[t]][s] > 0
      BY <2>3 DEF CloseReference, MayUse
    <3>2. nRefCounter[s] - 1 \in Nat /\ open[ProcOf[t]][s] - 1 \in Nat
      BY <2>1, <3>1 DEF IInv, TypeOK
    <3>3. QED
      BY <3>1, <3>2
  <2>4. QED
    BY <2>2, <2>3
<1>2. UNCHANGED <<szName, nValue, e, pc, on, nWaitResult>>
  BY DEF Open, CloseReference, threadVars
<1>3. TypeOK'
  BY <1>1, <1>2 DEF IInv, TypeOK
<1>4. QED
  BY <1>2, <1>3 DEF IInv, LinkedThreadsSleep, NoSleeperWithPermit

(* The last close wakes every thread that was linked.                      *)
LEMMA CloseLastIInv ==
    ASSUME IInv, NEW t \in Threads, NEW s \in Sems, CloseLast(t, s)
    PROVE  IInv'
<1>1. TypeOK'
  BY SemAssumption
     DEF SemAssumption, IInv, TypeOK, CloseLast, MayUse, NewEvent, EventStt
<1>2. ASSUME NEW r \in Sems
      PROVE  /\ r # s => e'[r] = e[r] /\ nValue'[r] = nValue[r]
             /\ r = s => e'[r].link = <<>>
  BY DEF IInv, TypeOK, CloseLast, NewEvent
<1>3. NoSleeperWithPermit'
  BY <1>2 DEF IInv, NoSleeperWithPermit
<1>4. ASSUME NEW r \in Sems, r # s, NEW u \in ToSet(e[r].link)
      PROVE  pc'[u] = "wait" /\ on'[u] = r
  <2>1. pc[u] = "wait" /\ on[u] = r /\ u \notin ToSet(e[s].link)
    BY <1>4 DEF IInv, LinkedThreadsSleep
  <2>2. u \in Threads
    BY DEF IInv, TypeOK, EventStt, ToSet
  <2>3. QED
    BY <2>1, <2>2 DEF CloseLast, WokenByClose
<1>5. IsInjective(<<>>) /\ ToSet(<<>>) = {}
  BY DEF IsInjective, ToSet
<1>6. LinkedThreadsSleep'
  BY <1>2, <1>4, <1>5 DEF IInv, LinkedThreadsSleep
<1>7. QED
  BY <1>1, <1>3, <1>6 DEF IInv

(* A permit is taken from the value or from the event, so nobody sleeps    *)
(* when there was one.                                                     *)
LEMMA WaitPassesIInv ==
    ASSUME IInv, NEW t \in Threads, NEW s \in Sems, WaitPasses(t, s)
    PROVE  IInv'
<1>1. e[s] \in EventStt(Threads) /\ IsInjective(e[s].link) /\ nValue[s] \in Int
  BY DEF IInv, TypeOK, LinkedThreadsSleep
<1>2. PICK ev \in EventStt(Threads) :
        /\ e' = [e EXCEPT ![s] = ev]
        /\ ev.link = e[s].link
        /\ nValue[s] > 0 \/ e[s].nCount > 0
  <2>1. CASE ~ MustWait(nValue[s] - 1) /\ UNCHANGED e
    BY <1>1, <2>1 DEF IInv, TypeOK, MustWait
  <2>2. CASE Occurred(e[s]) /\ e' = [e EXCEPT ![s] = TakeOccurrence(@)]
    <3>1. e[s].nCount \in Nat /\ e[s].link \in Seq(Threads) /\ e[s].nCount > 0
      BY <1>1, <2>2 DEF Occurred, EventStt
    <3>2. TakeOccurrence(e[s]) = [nCount |-> e[s].nCount - 1, link |-> e[s].link]
      BY <1>1 DEF TakeOccurrence, EventStt
    <3> DEFINE ev == TakeOccurrence(e[s])
    <3>3. ev \in EventStt(Threads) /\ ev.link = e[s].link
      BY <3>1, <3>2 DEF EventStt
    <3>4. e' = [e EXCEPT ![s] = ev]
      BY <2>2
    <3> HIDE DEF ev
    <3>5. QED
      BY <3>1, <3>3, <3>4
  <2>3. QED
    BY <2>1, <2>2 DEF WaitPasses
<1>3. /\ nValue' = [nValue EXCEPT ![s] = nValue[s] - 1]
      /\ UNCHANGED <<szName, nRefCounter, open, pc, on, nWaitResult>>
  BY DEF WaitPasses, threadVars
<1>4. TypeOK'
  BY <1>1, <1>2, <1>3 DEF IInv, TypeOK
<1>5. e[s].link = <<>>
  BY <1>1, <1>2, EmptySeq DEF IInv, NoSleeperWithPermit, EventStt
<1>6. LinkedThreadsSleep'
  BY <1>2, <1>3 DEF IInv, TypeOK, LinkedThreadsSleep
<1>7. NoSleeperWithPermit'
  BY <1>2, <1>3, <1>5 DEF IInv, TypeOK, NoSleeperWithPermit
<1>8. QED
  BY <1>4, <1>6, <1>7 DEF IInv

(* A thread sleeps when there is no permit.                                *)
LEMMA WaitBlocksIInv ==
    ASSUME IInv, NEW t \in Threads, NEW s \in Sems, WaitBlocks(t, s)
    PROVE  IInv'
<1>1. /\ e[s] \in EventStt(Threads) /\ IsInjective(e[s].link)
      /\ nValue[s] \in Int /\ nValue[s] - 1 < 0 /\ e[s].nCount = 0
  BY DEF IInv, TypeOK, LinkedThreadsSleep, WaitBlocks, MustWait, Occurred, EventStt
<1>2. \A r \in Sems : t \notin ToSet(e[r].link)
  BY DEF IInv, LinkedThreadsSleep, WaitBlocks, MayUse
<1> DEFINE ev == LinkWaiter(e[s], t)
<1>3. /\ ev \in EventStt(Threads)
      /\ IsInjective(ev.link)
      /\ ToSet(ev.link) = ToSet(e[s].link) \cup {t}
      /\ Len(ev.link) = Len(e[s].link) + 1
      /\ ev.nCount = 0
  BY <1>1, <1>2, LinkWaiterOperation
<1>4. /\ e' = [e EXCEPT ![s] = ev]
      /\ nValue' = [nValue EXCEPT ![s] = nValue[s] - 1]
      /\ pc' = [pc EXCEPT ![t] = "wait"]
      /\ on' = [on EXCEPT ![t] = s]
      /\ nWaitResult' = [nWaitResult EXCEPT ![t] = 0]
      /\ UNCHANGED <<szName, nRefCounter, open>>
  BY DEF WaitBlocks
<1> HIDE DEF ev
<1>5. TypeOK'
  BY <1>1, <1>3, <1>4 DEF IInv, TypeOK
<1>6. LinkedThreadsSleep'
  <2>1. ASSUME NEW r \in Sems
        PROVE  /\ IsInjective(e'[r].link)
               /\ ToSet(e'[r].link) = ToSet(e[r].link) \cup (IF r = s THEN {t} ELSE {})
    BY <1>3, <1>4 DEF IInv, TypeOK, LinkedThreadsSleep
  <2>2. ASSUME NEW r \in Sems, NEW u \in ToSet(e[r].link)
        PROVE  pc'[u] = "wait" /\ on'[u] = r
    BY <1>2, <1>4 DEF IInv, TypeOK, LinkedThreadsSleep
  <2>3. pc'[t] = "wait" /\ on'[t] = s
    BY <1>4 DEF IInv, TypeOK
  <2>4. QED
    BY <2>1, <2>2, <2>3 DEF LinkedThreadsSleep
<1>7. NoSleeperWithPermit'
  <2>1. Len(e[s].link) + 1 <= -(nValue[s] - 1)
    <3>1. e[s].link \in Seq(Threads) /\ Len(e[s].link) \in Nat
      BY <1>1, LenProperties DEF EventStt
    <3>2. CASE e[s].link = <<>>
      BY <1>1, <3>2
    <3>3. CASE e[s].link # <<>>
      BY <1>1, <3>1, <3>3 DEF IInv, NoSleeperWithPermit
    <3>4. QED
      BY <3>2, <3>3
  <2>2. QED
    BY <1>1, <1>3, <1>4, <2>1 DEF IInv, TypeOK, NoSleeperWithPermit
<1>8. QED
  BY <1>5, <1>6, <1>7 DEF IInv

(* A thread that was woken goes on.                                        *)
LEMMA WaitReturnsIInv ==
    ASSUME IInv, NEW t \in Threads, WaitReturns(t)
    PROVE  IInv'
<1>1. TypeOK'
  BY DEF IInv, TypeOK, WaitReturns, semVars
<1>2. LinkedThreadsSleep' /\ NoSleeperWithPermit'
  BY DEF IInv, TypeOK, WaitReturns, semVars, LinkedThreadsSleep, NoSleeperWithPermit
<1>3. QED
  BY <1>1, <1>2 DEF IInv

(* A permit goes to the first sleeper, or to the event or the value.       *)
LEMMA PostIInv ==
    ASSUME IInv, NEW t \in Threads, NEW s \in Sems, Post(t, s)
    PROVE  IInv'
<1>1. e[s] \in EventStt(Threads) /\ IsInjective(e[s].link) /\ nValue[s] \in Int
  BY DEF IInv, TypeOK, LinkedThreadsSleep
<1>2. /\ nValue' = [nValue EXCEPT ![s] = nValue[s] + 1]
      /\ UNCHANGED <<szName, nRefCounter, open, on>>
  BY DEF Post
<1>3. CASE MustWake(nValue[s] + 1)
  <2> DEFINE ev == IncEvent(e[s])
             w == Woken(e[s])
  <2>1. /\ ev \in EventStt(Threads)
        /\ IsInjective(ev.link)
        /\ ToSet(ev.link) = ToSet(e[s].link) \ w
        /\ w \subseteq ToSet(e[s].link)
        /\ e[s].link # <<>> => /\ ev.nCount = e[s].nCount
                              /\ Len(ev.link) = Len(e[s].link) - 1
        /\ ev.link # <<>> => e[s].link # <<>>
    BY <1>1, IncEventOperation
  <2>2. /\ e' = [e EXCEPT ![s] = ev]
        /\ pc' = [u \in Threads |-> IF u \in w THEN "ret" ELSE pc[u]]
        /\ nWaitResult' = [u \in Threads |->
                             IF u \in w THEN EVENT_OCCURRED ELSE nWaitResult[u]]
    BY <1>3 DEF Post
  <2> HIDE DEF ev, w
  <2>3. TypeOK'
    BY <1>1, <1>2, <2>1, <2>2 DEF IInv, TypeOK
  <2>4. LinkedThreadsSleep'
    <3>1. ASSUME NEW r \in Sems
          PROVE  /\ IsInjective(e'[r].link)
                 /\ ToSet(e'[r].link) = ToSet(e[r].link) \ w
      <4>1. r # s => ToSet(e[r].link) = ToSet(e[r].link) \ w
        BY <2>1 DEF IInv, LinkedThreadsSleep
      <4>2. QED
        BY <2>1, <2>2, <4>1 DEF IInv, TypeOK, LinkedThreadsSleep
    <3>2. ASSUME NEW r \in Sems, NEW u \in ToSet(e[r].link), u \notin w
          PROVE  pc'[u] = "wait" /\ on'[u] = r
      <4>1. u \in Threads
        BY DEF IInv, TypeOK, EventStt, ToSet
      <4>2. QED
        BY <1>2, <2>2, <3>2, <4>1 DEF IInv, LinkedThreadsSleep
    <3>3. QED
      BY <3>1, <3>2 DEF LinkedThreadsSleep
  <2>5. NoSleeperWithPermit'
    <3>1. ASSUME ev.link # <<>>
          PROVE  Len(ev.link) <= -(nValue[s] + 1) /\ ev.nCount = 0
      <4>1. Len(e[s].link) \in Nat
        BY <1>1, LenProperties DEF EventStt
      <4>2. QED
        BY <1>1, <2>1, <3>1, <4>1 DEF IInv, NoSleeperWithPermit
    <3>2. QED
      BY <1>2, <2>1, <2>2, <3>1 DEF IInv, TypeOK, NoSleeperWithPermit
  <2>6. QED
    BY <2>3, <2>4, <2>5 DEF IInv
<1>4. CASE ~ MustWake(nValue[s] + 1)
  <2>1. UNCHANGED <<e, pc, nWaitResult>>
    BY <1>4 DEF Post
  <2>2. TypeOK' /\ LinkedThreadsSleep'
    BY <1>1, <1>2, <2>1 DEF IInv, TypeOK, LinkedThreadsSleep
  <2>3. e[s].link = <<>>
    <3>1. e[s].link \in Seq(Threads) /\ (e[s].link # <<>> => Len(e[s].link) \in Nat \ {0})
      BY <1>1, EmptySeq DEF EventStt
    <3>2. QED
      BY <1>1, <1>4, <3>1 DEF IInv, NoSleeperWithPermit, MustWake
  <2>4. NoSleeperWithPermit'
    BY <1>2, <2>1, <2>3 DEF IInv, TypeOK, NoSleeperWithPermit
  <2>5. QED
    BY <2>2, <2>4 DEF IInv
<1>5. QED
  BY <1>3, <1>4

(* A killed thread leaves the link it was in.                              *)
LEMMA KillIInv ==
    ASSUME IInv, NEW t \in Threads, Kill(t)
    PROVE  IInv'
<1>1. /\ pc' = [pc EXCEPT ![t] = "dead"]
      /\ on' = [on EXCEPT ![t] = NoSem]
      /\ e' = [s \in Sems |-> IF on[t] = s THEN DropWaiter(e[s], t) ELSE e[s]]
      /\ UNCHANGED <<szName, nValue, nRefCounter, open, nWaitResult>>
  BY DEF Kill
<1>2. ASSUME NEW s \in Sems
      PROVE  /\ e'[s] \in EventStt(Threads)
             /\ IsInjective(e'[s].link)
             /\ ToSet(e'[s].link) = ToSet(e[s].link) \ {t}
             /\ Len(e'[s].link) <= Len(e[s].link)
             /\ e'[s].nCount = e[s].nCount
  <2>1. e[s] \in EventStt(Threads) /\ IsInjective(e[s].link)
    BY DEF IInv, TypeOK, LinkedThreadsSleep
  <2>2. CASE on[t] = s
    <3> DEFINE ev == DropWaiter(e[s], t)
    <3>1. /\ ev \in EventStt(Threads)
          /\ IsInjective(ev.link)
          /\ ToSet(ev.link) = ToSet(e[s].link) \ {t}
          /\ Len(ev.link) <= Len(e[s].link)
          /\ ev.nCount = e[s].nCount
      BY <2>1, DropWaiterOperation
    <3>2. e'[s] = ev
      BY <1>1, <2>2
    <3>3. QED
      BY <3>1, <3>2
  <2>3. CASE on[t] # s
    <3>1. e'[s] = e[s] /\ t \notin ToSet(e[s].link)
      BY <1>1, <2>3 DEF IInv, LinkedThreadsSleep
    <3>2. Len(e[s].link) \in Nat
      BY <2>1, LenProperties DEF EventStt
    <3>3. QED
      BY <2>1, <3>1, <3>2
  <2>4. QED
    BY <2>2, <2>3
<1>3. TypeOK'
  BY <1>1, <1>2 DEF IInv, TypeOK
<1>4. LinkedThreadsSleep'
  <2>1. ASSUME NEW s \in Sems, NEW u \in ToSet(e[s].link), u # t
        PROVE  pc'[u] = "wait" /\ on'[u] = s
    BY <1>1, <2>1 DEF IInv, TypeOK, LinkedThreadsSleep
  <2>2. QED
    BY <1>2, <2>1 DEF LinkedThreadsSleep
<1>5. NoSleeperWithPermit'
  <2>1. ASSUME NEW s \in Sems, e'[s].link # <<>>
        PROVE  Len(e'[s].link) <= -nValue[s] /\ e'[s].nCount = 0
    <3>1. /\ e[s].link \in Seq(Threads) /\ Len(e[s].link) \in Nat
          /\ Len(e'[s].link) \in Nat \ {0} /\ nValue[s] \in Int
          /\ e[s].link = <<>> => Len(e[s].link) = 0
      BY <1>2, <2>1, LenProperties, EmptySeq DEF IInv, TypeOK, EventStt
    <3>2. e[s].link # <<>>
      BY <1>2, <3>1
    <3>3. QED
      BY <1>2, <3>1, <3>2 DEF IInv, NoSleeperWithPermit
  <2>2. QED
    BY <1>1, <2>1 DEF NoSleeperWithPermit
<1>6. QED
  BY <1>3, <1>4, <1>5 DEF IInv

(* A new thread waits for nothing.                                         *)
LEMMA StartIInv ==
    ASSUME IInv, NEW t \in Threads, Start(t)
    PROVE  IInv'
<1>1. TypeOK'
  <2>1. ProcOf[t] \in Processes
    BY SemAssumption
  <2>2. open' \in [Processes -> [Sems -> Nat]]
    <3>1. CASE UNCHANGED open
      BY <3>1 DEF IInv, TypeOK
    <3>2. CASE open' = [open EXCEPT ![ProcOf[t]] = [s \in Sems |-> 0]]
      BY <2>1, <3>2 DEF IInv, TypeOK
    <3>3. QED
      BY <3>1, <3>2 DEF Start
  <2>3. pc' \in [Threads -> {"run", "wait", "ret", "dead"}]
    BY DEF IInv, TypeOK, Start
  <2>4. UNCHANGED <<szName, nValue, nRefCounter, e, on, nWaitResult>>
    BY DEF Start, semVars
  <2>5. QED
    BY <2>2, <2>3, <2>4 DEF IInv, TypeOK
<1>2. LinkedThreadsSleep' /\ NoSleeperWithPermit'
  BY DEF IInv, TypeOK, Start, semVars, LinkedThreadsSleep, NoSleeperWithPermit
<1>3. QED
  BY <1>1, <1>2 DEF IInv

(* The invariant is inductive.                                             *)
LEMMA NextIInv == IInv /\ [Next]_vars => IInv'
<1> SUFFICES ASSUME IInv, [Next]_vars PROVE IInv'
  OBVIOUS
<1>1. CASE UNCHANGED vars
  BY <1>1 DEF vars, IInv, TypeOK, LinkedThreadsSleep, NoSleeperWithPermit
<1>2. CASE \E t \in Threads, s \in Sems, nm \in Names, v \in InitValues : Create(t, s, nm, v)
  BY <1>2, CreateIInv
<1>3. CASE \E t \in Threads, nm \in Names : Open(t, nm)
  BY <1>3, ReferenceIInv
<1>4. CASE \E t \in Threads, s \in Sems : CloseReference(t, s)
  BY <1>4, ReferenceIInv
<1>5. CASE \E t \in Threads, s \in Sems : CloseLast(t, s)
  BY <1>5, CloseLastIInv
<1>6. CASE \E t \in Threads, s \in Sems : WaitPasses(t, s)
  BY <1>6, WaitPassesIInv
<1>7. CASE \E t \in Threads, s \in Sems : WaitBlocks(t, s)
  BY <1>7, WaitBlocksIInv
<1>8. CASE \E t \in Threads : WaitReturns(t)
  BY <1>8, WaitReturnsIInv
<1>9. CASE \E t \in Threads, s \in Sems : Post(t, s)
  BY <1>9, PostIInv
<1>10. CASE \E t \in Threads : Kill(t)
  BY <1>10, KillIInv
<1>11. CASE \E t \in Threads : Start(t)
  BY <1>11, StartIInv
<1>12. QED
  BY <1>1, <1>2, <1>3, <1>4, <1>5, <1>6, <1>7, <1>8, <1>9, <1>10, <1>11 DEF Next

(* The inductive invariant holds in every reachable state.                 *)
THEOREM SpecIInv == Spec => []IInv
BY InitIInv, NextIInv, PTL DEF Spec

(* Every sleeping thread is owed a permit, and none lies about unused.     *)
THEOREM SpecNoSleeperWithPermit == Spec => []NoSleeperWithPermit
BY SpecIInv, PTL DEF IInv

-----------------------------------------------------------------------------
(* The step simulation.  Abs!absVars are the permits and the link of every *)
(* semaphore.                                                              *)

(* Semaphores that do not change keep their permits.                       *)
LEMMA PermitsOf ==
    ASSUME NEW s \in Sems, e'[s].nCount = e[s].nCount, nValue'[s] = nValue[s]
    PROVE  Permits(s)' = Permits(s)
BY DEF Permits

(* Both modules remove from a list in the same way.                        *)
LEMMA RemoveFirstSame ==
    ASSUME NEW s, NEW x
    PROVE  Abs!RemoveFirst(s, x) = RemoveFirst(s, x)
BY DEF RemoveFirst, RemoveAt, SelectInSeq, Min,
       Abs!RemoveFirst, Abs!RemoveAt, Abs!SelectInSeq, Abs!Min

(* No semaphore has a permit or a waiter at first.                         *)
LEMMA InitRefines == Init => Abs!AbsInit
BY DEF Init, Abs!AbsInit, Permits, NewEvent

(* Every action is an action of AbstractSemaphore, or does not show there. *)
LEMMA StepRefines == IInv /\ [Next]_vars => [Abs!AbsNext]_(Abs!absVars)
<1> SUFFICES ASSUME IInv, [Next]_vars PROVE [Abs!AbsNext]_(Abs!absVars)
  OBVIOUS
<1>s. ASSUME UNCHANGED <<e, nValue>> PROVE UNCHANGED Abs!absVars
  BY <1>s DEF Abs!absVars, Permits
<1>t. \A s \in Sems : /\ e[s] \in EventStt(Threads)
                      /\ nValue[s] \in Int /\ e[s].nCount \in Nat
                      /\ e[s].link \in Seq(Threads)
  BY DEF IInv, TypeOK, EventStt
<1>o. \A s \in Sems : e[s].link # <<>> => nValue[s] < 0 /\ e[s].nCount = 0
  BY <1>t, EmptySeq DEF IInv, NoSleeperWithPermit
<1>1. ASSUME NEW t \in Threads, NEW s \in Sems, NEW nm \in Names, NEW v \in InitValues,
             Create(t, s, nm, v)
      PROVE  Abs!Make(s, v)
  <2>1. /\ e' = [e EXCEPT ![s] = NewEvent]
        /\ nValue' = [nValue EXCEPT ![s] = v]
        /\ v \in Int
    BY <1>1, SemAssumption DEF Create, SemAssumption
  <2>2. \A r \in Sems : /\ Permits(r)' = IF r = s THEN (IF v > 0 THEN v ELSE 0) ELSE Permits(r)
                        /\ e'[r].link = IF r = s THEN <<>> ELSE e[r].link
    BY <2>1, <1>t DEF Permits, IInv, TypeOK, NewEvent
  <2>3. QED
    BY <2>2 DEF Abs!Make
<1>2. ASSUME NEW t \in Threads, NEW s \in Sems, CloseLast(t, s)
      PROVE  Abs!Drop(s)
  <2>1. e' = [e EXCEPT ![s] = NewEvent] /\ nValue' = [nValue EXCEPT ![s] = 0]
    BY <1>2 DEF CloseLast
  <2>2. \A r \in Sems : /\ Permits(r)' = IF r = s THEN 0 ELSE Permits(r)
                        /\ e'[r].link = IF r = s THEN <<>> ELSE e[r].link
    BY <2>1, <1>t DEF Permits, IInv, TypeOK, NewEvent
  <2>3. QED
    BY <2>2 DEF Abs!Drop
<1>3. ASSUME NEW t \in Threads, NEW s \in Sems, WaitPasses(t, s)
      PROVE  Abs!TakePermit(s)
  <2>1. nValue' = [nValue EXCEPT ![s] = nValue[s] - 1]
    BY <1>3 DEF WaitPasses
  <2>2. /\ Permits(s) > 0 /\ Permits(s)' = Permits(s) - 1
        /\ e'[s].link = e[s].link
        /\ \A r \in Sems : r # s => e'[r] = e[r]
    <3>1. CASE ~ MustWait(nValue[s] - 1) /\ UNCHANGED e
      BY <2>1, <3>1, <1>t DEF Permits, MustWait, IInv, TypeOK
    <3>2. CASE /\ MustWait(nValue[s] - 1)
               /\ Occurred(e[s])
               /\ e' = [e EXCEPT ![s] = TakeOccurrence(@)]
      <4>1. /\ e'[s].link = e[s].link
            /\ e'[s].nCount = e[s].nCount - 1
            /\ \A r \in Sems : r # s => e'[r] = e[r]
        BY <3>2, <1>t DEF TakeOccurrence, EventStt, IInv, TypeOK
      <4>2. nValue[s] <= 0 /\ e[s].nCount > 0 /\ nValue'[s] = nValue[s] - 1
        BY <2>1, <3>2, <1>t DEF MustWait, Occurred, IInv, TypeOK
      <4>3. QED
        BY <4>1, <4>2, <1>t DEF Permits
    <3>3. QED
      BY <1>3, <3>1, <3>2 DEF WaitPasses
  <2>3. \A r \in Sems : r # s => Permits(r)' = Permits(r) /\ e'[r].link = e[r].link
    BY <2>1, <2>2 DEF Permits, IInv, TypeOK
  <2>4. QED
    BY <2>2, <2>3 DEF Abs!TakePermit
<1>4. ASSUME NEW t \in Threads, NEW s \in Sems, WaitBlocks(t, s)
      PROVE  Abs!QueueUp(t, s)
  <2>1. /\ nValue' = [nValue EXCEPT ![s] = nValue[s] - 1]
        /\ e' = [e EXCEPT ![s] = LinkWaiter(e[s], t)]
        /\ nValue[s] <= 0 /\ e[s].nCount = 0
    BY <1>4, <1>t DEF WaitBlocks, MustWait, Occurred
  <2>2. /\ e'[s].link = Append(e[s].link, t) /\ e'[s].nCount = e[s].nCount
        /\ nValue'[s] = nValue[s] - 1
        /\ \A r \in Sems : r # s => e'[r] = e[r] /\ nValue'[r] = nValue[r]
    BY <2>1, <1>t DEF LinkWaiter, EventStt, IInv, TypeOK
  <2>3. Permits(s) = 0 /\ Permits(s)' = 0
    BY <2>1, <2>2, <1>t DEF Permits
  <2>4. \A r \in Sems : r # s => Permits(r)' = Permits(r) /\ e'[r].link = e[r].link
    BY <2>2 DEF Permits
  <2>5. QED
    BY <2>2, <2>3, <2>4 DEF Abs!QueueUp
<1>5. ASSUME NEW t \in Threads, NEW s \in Sems, Post(t, s)
      PROVE  Abs!GivePermit(s) \/ Abs!KeepPermit(s)
  <2>1. nValue' = [nValue EXCEPT ![s] = nValue[s] + 1]
    BY <1>5 DEF Post
  <2>2. \A r \in Sems : r # s => e'[r] = e[r] /\ nValue'[r] = nValue[r]
    BY <1>5, <2>1 DEF Post, IInv, TypeOK
  <2>3. \A r \in Sems : r # s => Permits(r)' = Permits(r) /\ e'[r].link = e[r].link
    BY <2>2 DEF Permits
  <2>4. CASE e[s].link # <<>>
    <3>1. nValue[s] < 0
      BY <1>o, <2>4
    <3>2. e' = [e EXCEPT ![s] = IncEvent(e[s])]
      BY <1>5, <1>t, <3>1 DEF Post, MustWake
    <3>3. e'[s].link = Tail(e[s].link) /\ e'[s].nCount = e[s].nCount
      BY <2>4, <3>2, <1>t DEF IncEvent, EventStt, IInv, TypeOK
    <3>4. Permits(s)' = Permits(s)
      BY <2>1, <3>1, <3>3, <1>t DEF Permits, IInv, TypeOK
    <3>5. QED
      BY <2>3, <2>4, <3>3, <3>4 DEF Abs!GivePermit
  <2>5. CASE e[s].link = <<>>
    <3>1. e'[s].link = e[s].link /\ Permits(s)' = Permits(s) + 1
      <4>1. CASE MustWake(nValue[s] + 1)
        <5>1. e' = [e EXCEPT ![s] = IncEvent(e[s])]
          BY <1>5, <4>1 DEF Post
        <5>2. e'[s].link = e[s].link /\ e'[s].nCount = e[s].nCount + 1
          BY <2>5, <5>1, <1>t DEF IncEvent, EventStt, IInv, TypeOK
        <5>3. nValue[s] < 0 /\ nValue'[s] = nValue[s] + 1
          BY <2>1, <4>1, <1>t DEF MustWake, IInv, TypeOK
        <5>4. QED
          BY <5>2, <5>3, <1>t DEF Permits
      <4>2. CASE ~ MustWake(nValue[s] + 1)
        <5>1. e' = e /\ nValue[s] >= 0 /\ nValue'[s] = nValue[s] + 1
          BY <1>5, <2>1, <4>2, <1>t DEF Post, MustWake, IInv, TypeOK
        <5>2. QED
          BY <5>1, <1>t DEF Permits
      <4>3. QED
        BY <4>1, <4>2
    <3>2. QED
      BY <2>3, <2>5, <3>1 DEF Abs!KeepPermit
  <2>6. QED
    BY <2>4, <2>5
<1>6. ASSUME NEW t \in Threads, Kill(t)
      PROVE  (\E s \in Sems : Abs!Leave(t, s)) \/ UNCHANGED Abs!absVars
  <2>1. /\ e' = [s \in Sems |-> IF on[t] = s THEN DropWaiter(e[s], t) ELSE e[s]]
        /\ nValue' = nValue
    BY <1>6 DEF Kill
  <2>2. CASE on[t] \in Sems
    <3>0. PICK s \in Sems : on[t] = s
      BY <2>2
    <3>1. /\ e'[s].link = RemoveFirst(e[s].link, t) /\ e'[s].nCount = e[s].nCount
          /\ \A r \in Sems : r # s => e'[r] = e[r]
      BY <2>1, <3>0, <1>t DEF DropWaiter, EventStt
    <3>2. \A r \in Sems : Permits(r)' = Permits(r)
      BY <2>1, <3>1 DEF Permits
    <3>3. Abs!Leave(t, s)
      BY <3>1, <3>2, RemoveFirstSame DEF Abs!Leave
    <3>4. QED
      BY <3>3
  <2>3. CASE on[t] \notin Sems
    <3>1. \A r \in Sems : e'[r] = e[r]
      BY <2>1, <2>3
    <3>2. QED
      BY <2>1, <3>1 DEF Abs!absVars, Permits
  <2>4. QED
    BY <2>2, <2>3
<1>7. CASE UNCHANGED vars
  BY <1>7, <1>s DEF vars
<1>8. ASSUME NEW t \in Threads,
             \/ \E nm \in Names : Open(t, nm)
             \/ \E s \in Sems : CloseReference(t, s)
             \/ WaitReturns(t)
             \/ Start(t)
      PROVE  UNCHANGED Abs!absVars
  BY <1>8, <1>s DEF Open, CloseReference, WaitReturns, Start, semVars
<1>9. QED
  BY <1>1, <1>2, <1>3, <1>4, <1>5, <1>6, <1>7, <1>8 DEF Next, Abs!AbsNext

(* Semaphores implement AbstractSemaphore: no permit is lost or invented   *)
(* and nobody overtakes a queued thread, whatever is killed or closed.     *)
THEOREM SpecRefines == Spec => SemaphoreRefined
<1>1. Init => Abs!AbsInit
  BY InitRefines
<1>2. IInv /\ [Next]_vars => [Abs!AbsNext]_(Abs!absVars)
  BY StepRefines
<1>3. QED
  BY <1>1, <1>2, SpecIInv, PTL DEF Spec, SemaphoreRefined, Abs!AbsSpec

-----------------------------------------------------------------------------
(* The references a semaphore's counter covers: one for every call of      *)
(* create or open that its process has not closed yet.                     *)
References(s) == {r \in Processes \X Nat : 1 <= r[2] /\ r[2] <= open[r[1]][s]}

(* The counter is never below the number of references, and a free         *)
(* structure has none.                                                     *)
OpenCounted ==
    \A s \in Sems :
        /\ IsFiniteSet(References(s))
        /\ Cardinality(References(s)) <= nRefCounter[s]
        /\ ~ Allocated(s) => nRefCounter[s] = 0

(* A thread is linked only in an allocated semaphore, and is when it       *)
(* sleeps.                                                                 *)
LinkedIsAllocated ==
    /\ \A s \in Sems : e[s].link # <<>> => Allocated(s)
    /\ \A t \in Threads : pc[t] = "wait" => /\ on[t] \in Sems
                                            /\ t \in ToSet(e[on[t]].link)

(* Cardinalities are numbers, and only the empty set has none.             *)
LEMMA FiniteCount ==
    ASSUME NEW S, IsFiniteSet(S)
    PROVE  Cardinality(S) \in Nat /\ (Cardinality(S) = 0 <=> S = {})
BY FS_CardinalityType, FS_EmptySet

(* What a process has open keeps its structure allocated.                  *)
LEMMA CountedLive == IInv /\ OpenCounted => OpenSemaphoresLive
<1> SUFFICES ASSUME IInv, OpenCounted, NEW p \in Processes, NEW s \in Sems,
                    open[p][s] > 0, ~ Allocated(s)
             PROVE  FALSE
  BY DEF OpenSemaphoresLive
<1>1. open[p][s] \in Nat
  BY DEF IInv, TypeOK
<1>2. <<p, 1>> \in References(s)
  BY <1>1 DEF References
<1>3. IsFiniteSet(References(s)) /\ Cardinality(References(s)) <= 0
  BY DEF OpenCounted
<1>4. References(s) = {}
  BY <1>3, FiniteCount
<1>5. QED
  BY <1>2, <1>4

(* One reference more.                                                     *)
LEMMA OneMoreReference ==
    ASSUME IInv, OpenCounted, NEW p \in Processes, NEW s \in Sems,
           open' = [open EXCEPT ![p][s] = @ + 1]
    PROVE  /\ \A r \in Sems : r # s => References(r)' = References(r)
           /\ IsFiniteSet(References(s)')
           /\ Cardinality(References(s)') <= Cardinality(References(s)) + 1
<1>1. open \in [Processes -> [Sems -> Nat]]
  BY DEF IInv, TypeOK
<1>2. ASSUME NEW r \in Sems, r # s PROVE References(r)' = References(r)
  BY <1>1, <1>2 DEF References
<1>3. References(s)' = References(s) \cup {<<p, open[p][s] + 1>>}
  <2>1. ASSUME NEW x \in Processes \X Nat
        PROVE  (1 <= x[2] /\ x[2] <= open'[x[1]][s])
               <=> (1 <= x[2] /\ x[2] <= open[x[1]][s]) \/ x = <<p, open[p][s] + 1>>
    <3>1. PICK q \in Processes, n \in Nat : x = <<q, n>>
      OBVIOUS
    <3>2. x[1] = q /\ x[2] = n
      BY <3>1
    <3>3. open[p][s] \in Nat /\ open[q][s] \in Nat
      BY <1>1
    <3>4. CASE q = p
      <4>1. open'[q][s] = open[p][s] + 1
        BY <1>1, <3>4
      <4>2. QED
        BY <3>1, <3>2, <3>3, <3>4, <4>1
    <3>5. CASE q # p
      <4>1. open'[q][s] = open[q][s]
        BY <1>1, <3>5
      <4>2. QED
        BY <3>1, <3>2, <3>5, <4>1
    <3>6. QED
      BY <3>4, <3>5
  <2>2. <<p, open[p][s] + 1>> \in Processes \X Nat
    BY <1>1
  <2>3. QED
    BY <2>1, <2>2 DEF References
<1>4. IsFiniteSet(References(s))
  BY DEF OpenCounted
<1>5. /\ IsFiniteSet(References(s) \cup {<<p, open[p][s] + 1>>})
      /\ Cardinality(References(s) \cup {<<p, open[p][s] + 1>>}) =
           IF <<p, open[p][s] + 1>> \in References(s) THEN Cardinality(References(s))
           ELSE Cardinality(References(s)) + 1
  BY <1>4, FS_AddElement
<1>6. Cardinality(References(s)) \in Nat
  BY <1>4, FiniteCount
<1>7. QED
  BY <1>2, <1>3, <1>5, <1>6

(* One reference less.                                                     *)
LEMMA OneReferenceLess ==
    ASSUME IInv, OpenCounted, NEW p \in Processes, NEW s \in Sems, open[p][s] > 0,
           open' = [open EXCEPT ![p][s] = @ - 1]
    PROVE  /\ \A r \in Sems : r # s => References(r)' = References(r)
           /\ IsFiniteSet(References(s)')
           /\ Cardinality(References(s)) \in Nat \ {0}
           /\ Cardinality(References(s)') = Cardinality(References(s)) - 1
<1>1. open \in [Processes -> [Sems -> Nat]]
  BY DEF IInv, TypeOK
<1>2. ASSUME NEW r \in Sems, r # s PROVE References(r)' = References(r)
  BY <1>1, <1>2 DEF References
<1>3. References(s)' = References(s) \ {<<p, open[p][s]>>}
  <2>1. ASSUME NEW x \in Processes \X Nat
        PROVE  (1 <= x[2] /\ x[2] <= open'[x[1]][s])
               <=> (1 <= x[2] /\ x[2] <= open[x[1]][s]) /\ x # <<p, open[p][s]>>
    <3>1. PICK q \in Processes, n \in Nat : x = <<q, n>>
      OBVIOUS
    <3>2. x[1] = q /\ x[2] = n
      BY <3>1
    <3>3. open[p][s] \in Nat /\ open[q][s] \in Nat
      BY <1>1
    <3>4. CASE q = p
      <4>1. open'[q][s] = open[p][s] - 1
        BY <1>1, <3>4
      <4>2. QED
        BY <3>1, <3>2, <3>3, <3>4, <4>1
    <3>5. CASE q # p
      <4>1. open'[q][s] = open[q][s]
        BY <1>1, <3>5
      <4>2. QED
        BY <3>1, <3>2, <3>5, <4>1
    <3>6. QED
      BY <3>4, <3>5
  <2>2. QED
    BY <2>1 DEF References
<1>4. <<p, open[p][s]>> \in References(s)
  <2>1. open[p][s] \in Nat
    BY <1>1
  <2>2. QED
    BY <2>1 DEF References
<1>5. IsFiniteSet(References(s))
  BY DEF OpenCounted
<1>6. /\ IsFiniteSet(References(s) \ {<<p, open[p][s]>>})
      /\ Cardinality(References(s) \ {<<p, open[p][s]>>}) =
           IF <<p, open[p][s]>> \in References(s) THEN Cardinality(References(s)) - 1
           ELSE Cardinality(References(s))
  BY <1>5, FS_RemoveElement
<1>7. Cardinality(References(s)) \in Nat \ {0}
  BY <1>4, <1>5, FiniteCount
<1>8. QED
  BY <1>2, <1>3, <1>4, <1>6, <1>7

(* Counting: every step that hands out a reference counts it.              *)
LEMMA NextOpenCounted == IInv /\ OpenCounted /\ [Next]_vars => OpenCounted'
<1> SUFFICES ASSUME IInv, OpenCounted, [Next]_vars PROVE OpenCounted'
  OBVIOUS
<1>1. ASSUME UNCHANGED <<szName, nRefCounter, open>> PROVE OpenCounted'
  BY <1>1 DEF OpenCounted, References, Allocated
<1>2. ASSUME NEW t \in Threads PROVE ProcOf[t] \in Processes
  BY SemAssumption
<1>3. \A s \in Sems : nRefCounter[s] \in Nat /\ Cardinality(References(s)) \in Nat
  BY FiniteCount DEF IInv, TypeOK, OpenCounted
<1>4. ASSUME NEW t \in Threads, NEW s \in Sems, NEW nm \in Names, NEW v \in InitValues,
             Create(t, s, nm, v)
      PROVE  OpenCounted'
  <2>1. /\ open' = [open EXCEPT ![ProcOf[t]][s] = @ + 1]
        /\ nRefCounter' = [nRefCounter EXCEPT ![s] = 1]
        /\ szName' = [szName EXCEPT ![s] = nm]
        /\ nRefCounter[s] = 0
    BY <1>4 DEF Create, OpenCounted
  <2>2. /\ \A r \in Sems : r # s => References(r)' = References(r)
        /\ IsFiniteSet(References(s)')
        /\ Cardinality(References(s)') <= Cardinality(References(s)) + 1
    BY <1>2, <2>1, OneMoreReference
  <2>3. Cardinality(References(s)') <= 1
    BY <1>3, <2>1, <2>2, FiniteCount DEF OpenCounted
  <2>4. QED
    BY <2>1, <2>2, <2>3, SemAssumption
       DEF IInv, TypeOK, OpenCounted, Allocated, SemAssumption
<1>5. ASSUME NEW t \in Threads, NEW nm \in Names, Open(t, nm) PROVE OpenCounted'
  <2>1. PICK s \in Sems :
          /\ szName[s] = nm
          /\ open' = [open EXCEPT ![ProcOf[t]][s] = @ + 1]
          /\ nRefCounter' = [nRefCounter EXCEPT ![s] = nRefCounter[s] + 1]
    BY <1>5 DEF Open, Named, RefOnOpen
  <2>2. /\ \A r \in Sems : r # s => References(r)' = References(r)
        /\ IsFiniteSet(References(s)')
        /\ Cardinality(References(s)') <= Cardinality(References(s)) + 1
    BY <1>2, <2>1, OneMoreReference
  <2>3. Cardinality(References(s)') <= nRefCounter[s] + 1
    BY <1>3, <2>2, FiniteCount DEF OpenCounted
  <2>4. szName' = szName /\ Allocated(s)
    BY <1>5, <2>1, SemAssumption DEF Open, Allocated, SemAssumption
  <2>5. QED
    BY <2>1, <2>2, <2>3, <2>4 DEF IInv, TypeOK, OpenCounted, Allocated
<1>6. ASSUME NEW t \in Threads, NEW s \in Sems, CloseReference(t, s) PROVE OpenCounted'
  <2>1. /\ open[ProcOf[t]][s] > 0 /\ nRefCounter[s] > 1 /\ szName' = szName
        /\ open' = [open EXCEPT ![ProcOf[t]][s] = @ - 1]
        /\ nRefCounter' = [nRefCounter EXCEPT ![s] = nRefCounter[s] - 1]
    BY <1>6 DEF CloseReference, MayUse
  <2>2. /\ \A r \in Sems : r # s => References(r)' = References(r)
        /\ IsFiniteSet(References(s)')
        /\ Cardinality(References(s)') = Cardinality(References(s)) - 1
    BY <1>2, <2>1, OneReferenceLess
  <2>3. Cardinality(References(s)') <= nRefCounter[s] - 1 /\ Allocated(s)
    BY <1>3, <2>1, <2>2 DEF OpenCounted
  <2>4. QED
    BY <2>1, <2>2, <2>3 DEF IInv, TypeOK, OpenCounted, Allocated
<1>7. ASSUME NEW t \in Threads, NEW s \in Sems, CloseLast(t, s) PROVE OpenCounted'
  <2>1. /\ open[ProcOf[t]][s] > 0 /\ nRefCounter[s] <= 1
        /\ open' = [open EXCEPT ![ProcOf[t]][s] = @ - 1]
        /\ nRefCounter' = [nRefCounter EXCEPT ![s] = 0]
        /\ szName' = [szName EXCEPT ![s] = NoName]
    BY <1>7 DEF CloseLast, MayUse
  <2>2. /\ \A r \in Sems : r # s => References(r)' = References(r)
        /\ IsFiniteSet(References(s)')
        /\ Cardinality(References(s)') = Cardinality(References(s)) - 1
    BY <1>2, <2>1, OneReferenceLess
  <2>3. Cardinality(References(s)') <= 0
    BY <1>3, <2>1, <2>2 DEF OpenCounted
  <2>4. QED
    BY <2>1, <2>2, <2>3 DEF IInv, TypeOK, OpenCounted, Allocated
<1>8. ASSUME NEW t \in Threads, Start(t) PROVE OpenCounted'
  <2>1. UNCHANGED <<szName, nRefCounter>>
    BY <1>8 DEF Start, semVars
  <2>2. ASSUME NEW s \in Sems PROVE References(s)' \subseteq References(s)
    <3>1. ASSUME NEW p \in Processes PROVE open'[p][s] <= open[p][s]
      <4>1. CASE UNCHANGED open
        BY <4>1 DEF IInv, TypeOK
      <4>2. CASE open' = [open EXCEPT ![ProcOf[t]] = [r \in Sems |-> 0]]
        BY <1>2, <4>2 DEF IInv, TypeOK
      <4>3. QED
        BY <1>8, <4>1, <4>2 DEF Start
    <3>2. ASSUME NEW p \in Processes PROVE open'[p][s] \in Nat /\ open[p][s] \in Nat
      BY <1>8, StartIInv DEF IInv, TypeOK
    <3>3. ASSUME NEW x \in Processes \X Nat, x[2] <= open'[x[1]][s]
          PROVE  x[2] <= open[x[1]][s]
      <4>1. x[1] \in Processes /\ x[2] \in Nat
        OBVIOUS
      <4>2. QED
        BY <3>1, <3>2, <3>3, <4>1
    <3>4. QED
      BY <3>3 DEF References
  <2>3. ASSUME NEW s \in Sems
        PROVE  IsFiniteSet(References(s)') /\ Cardinality(References(s)') <= nRefCounter[s]
    <3>1. IsFiniteSet(References(s)') /\ Cardinality(References(s)') <= Cardinality(References(s))
      BY <2>2, FS_Subset DEF OpenCounted
    <3>2. QED
      BY <1>3, <3>1, FiniteCount DEF OpenCounted
  <2>4. QED
    BY <2>1, <2>3 DEF OpenCounted, Allocated
<1>9. CASE UNCHANGED vars
  BY <1>1, <1>9 DEF vars
<1>10. ASSUME NEW t \in Threads,
              \/ \E s \in Sems : WaitPasses(t, s) \/ WaitBlocks(t, s) \/ Post(t, s)
              \/ WaitReturns(t) \/ Kill(t)
       PROVE  OpenCounted'
  BY <1>1, <1>10 DEF WaitPasses, WaitBlocks, Post, WaitReturns, Kill, semVars
<1>11. QED
  BY <1>4, <1>5, <1>6, <1>7, <1>8, <1>9, <1>10 DEF Next

(* The scheduling side: who sleeps is linked, in an allocated semaphore.   *)
LEMMA NextLinkedIsAllocated ==
    IInv /\ OpenCounted /\ LinkedIsAllocated /\ [Next]_vars => LinkedIsAllocated'
<1> SUFFICES ASSUME IInv, OpenCounted, LinkedIsAllocated, [Next]_vars
             PROVE  LinkedIsAllocated'
  OBVIOUS
<1>1. IInv'
  BY NextIInv
<1>2. ASSUME NEW t \in Threads, NEW s \in Sems, MayUse(t, s) PROVE Allocated(s)
  <2>1. ProcOf[t] \in Processes
    BY SemAssumption
  <2>2. QED
    BY <1>2, <2>1, CountedLive DEF MayUse, OpenSemaphoresLive
<1>3. ASSUME UNCHANGED <<szName, e, on>>,
             \A t \in Threads : pc'[t] = "wait" => pc[t] = "wait"
      PROVE  LinkedIsAllocated'
  BY <1>3 DEF LinkedIsAllocated, Allocated
<1>4. ASSUME NEW t \in Threads, NEW s \in Sems, NEW nm \in Names, NEW v \in InitValues,
             Create(t, s, nm, v)
      PROVE  LinkedIsAllocated'
  <2>1. e' = [e EXCEPT ![s] = NewEvent] /\ szName' = [szName EXCEPT ![s] = nm]
        /\ UNCHANGED <<pc, on>> /\ ~ Allocated(s)
    BY <1>4 DEF Create, threadVars
  <2>2. e[s].link = <<>> /\ e'[s].link = <<>> /\ \A r \in Sems : r # s => e'[r] = e[r]
    BY <2>1 DEF LinkedIsAllocated, IInv, TypeOK, NewEvent
  <2>3. QED
    BY <2>1, <2>2, SemAssumption
       DEF SemAssumption, LinkedIsAllocated, Allocated, IInv, TypeOK
<1>5. ASSUME NEW t \in Threads, NEW s \in Sems, CloseLast(t, s) PROVE LinkedIsAllocated'
  <2>1. /\ e' = [e EXCEPT ![s] = NewEvent] /\ szName' = [szName EXCEPT ![s] = NoName]
        /\ pc' = [u \in Threads |-> IF u \in WokenByClose(s) THEN "ret" ELSE pc[u]]
        /\ on' = on
    BY <1>5 DEF CloseLast
  <2>2. e'[s].link = <<>> /\ \A r \in Sems : r # s => e'[r] = e[r]
    BY <2>1 DEF IInv, TypeOK, NewEvent
  <2>3. ASSUME NEW u \in Threads, pc'[u] = "wait"
        PROVE  on'[u] \in Sems /\ u \in ToSet(e'[on'[u]].link)
    <3>1. pc[u] = "wait" /\ u \notin ToSet(e[s].link)
      BY <2>1, <2>3 DEF WokenByClose
    <3>2. QED
      BY <2>1, <2>2, <3>1 DEF LinkedIsAllocated
  <2>4. QED
    BY <2>1, <2>2, <2>3 DEF LinkedIsAllocated, Allocated, IInv, TypeOK
<1>6. ASSUME NEW t \in Threads, NEW s \in Sems, WaitPasses(t, s) PROVE LinkedIsAllocated'
  <2>1. ASSUME NEW r \in Sems PROVE e'[r].link = e[r].link
    <3>1. e[s] \in EventStt(Threads)
      BY DEF IInv, TypeOK
    <3>2. TakeOccurrence(e[s]).link = e[s].link
      BY <3>1 DEF TakeOccurrence, EventStt
    <3>3. CASE UNCHANGED e
      BY <3>3
    <3>4. CASE e' = [e EXCEPT ![s] = TakeOccurrence(@)]
      BY <3>2, <3>4 DEF IInv, TypeOK
    <3>5. QED
      BY <1>6, <3>3, <3>4 DEF WaitPasses
  <2>2. UNCHANGED <<szName, pc, on>>
    BY <1>6 DEF WaitPasses, threadVars
  <2>3. QED
    BY <2>1, <2>2 DEF LinkedIsAllocated, Allocated
<1>7. ASSUME NEW t \in Threads, NEW s \in Sems, WaitBlocks(t, s) PROVE LinkedIsAllocated'
  <2>1. /\ e' = [e EXCEPT ![s] = LinkWaiter(@, t)] /\ szName' = szName
        /\ pc' = [pc EXCEPT ![t] = "wait"] /\ on' = [on EXCEPT ![t] = s]
        /\ MayUse(t, s)
    BY <1>7 DEF WaitBlocks
  <2>2. e[s] \in EventStt(Threads) /\ IsInjective(e[s].link) /\ t \notin ToSet(e[s].link)
    BY <2>1 DEF IInv, TypeOK, LinkedThreadsSleep, MayUse
  <2>3. ToSet(e'[s].link) = ToSet(e[s].link) \cup {t}
    <3>1. ToSet(LinkWaiter(e[s], t).link) = ToSet(e[s].link) \cup {t}
      BY <2>2, LinkWaiterOperation
    <3>2. e'[s] = LinkWaiter(e[s], t)
      BY <2>1 DEF IInv, TypeOK
    <3>3. QED
      BY <3>1, <3>2
  <2>4. \A r \in Sems : r # s => e'[r] = e[r]
    BY <2>1 DEF IInv, TypeOK
  <2>5. Allocated(s)
    BY <1>2, <2>1
  <2>6. \A u \in Threads : u # t => pc'[u] = pc[u] /\ on'[u] = on[u]
    BY <2>1 DEF IInv, TypeOK
  <2>7. pc'[t] = "wait" /\ on'[t] = s
    BY <2>1 DEF IInv, TypeOK
  <2>8. QED
    BY <2>1, <2>3, <2>4, <2>5, <2>6, <2>7 DEF LinkedIsAllocated, Allocated
<1>8. ASSUME NEW t \in Threads, NEW s \in Sems, Post(t, s) PROVE LinkedIsAllocated'
  <2>1. CASE ~ MustWake(nValue[s] + 1)
    BY <1>3, <1>8, <2>1 DEF Post
  <2>2. CASE MustWake(nValue[s] + 1)
    <3>1. /\ e' = [e EXCEPT ![s] = IncEvent(@)] /\ UNCHANGED <<szName, on>>
          /\ pc' = [u \in Threads |-> IF u \in Woken(e[s]) THEN "ret" ELSE pc[u]]
      BY <1>8, <2>2 DEF Post
    <3>2. e[s] \in EventStt(Threads) /\ IsInjective(e[s].link)
      BY DEF IInv, TypeOK, LinkedThreadsSleep
    <3>3. /\ ToSet(IncEvent(e[s]).link) = ToSet(e[s].link) \ Woken(e[s])
          /\ e[s].link = <<>> => IncEvent(e[s]).link = <<>>
      BY <3>2, IncEventOperation
    <3>4. /\ ToSet(e'[s].link) = ToSet(e[s].link) \ Woken(e[s])
          /\ e'[s].link # <<>> => e[s].link # <<>>
          /\ \A r \in Sems : r # s => e'[r] = e[r]
      BY <3>1, <3>3 DEF IInv, TypeOK
    <3>5. ASSUME NEW u \in Threads, pc'[u] = "wait"
          PROVE  on'[u] \in Sems /\ u \in ToSet(e'[on'[u]].link)
      <4>1. pc[u] = "wait" /\ u \notin Woken(e[s])
        BY <3>1, <3>5
      <4>2. QED
        BY <3>1, <3>4, <4>1 DEF LinkedIsAllocated
    <3>6. QED
      BY <3>1, <3>4, <3>5 DEF LinkedIsAllocated, Allocated
  <2>3. QED
    BY <2>1, <2>2
<1>9. ASSUME NEW t \in Threads, Kill(t) PROVE LinkedIsAllocated'
  <2>1. /\ pc' = [pc EXCEPT ![t] = "dead"] /\ on' = [on EXCEPT ![t] = NoSem]
        /\ e' = [s \in Sems |-> IF on[t] = s THEN DropWaiter(e[s], t) ELSE e[s]]
        /\ szName' = szName
    BY <1>9 DEF Kill
  <2>2. ASSUME NEW s \in Sems
        PROVE  /\ ToSet(e'[s].link) = ToSet(e[s].link) \ {t}
               /\ e'[s].link # <<>> => e[s].link # <<>>
    <3>1. e[s] \in EventStt(Threads) /\ IsInjective(e[s].link)
      BY DEF IInv, TypeOK, LinkedThreadsSleep
    <3>2. CASE on[t] # s
      <4>1. e'[s] = e[s] /\ t \notin ToSet(e[s].link)
        BY <2>1, <3>2 DEF IInv, LinkedThreadsSleep
      <4>2. QED
        BY <4>1
    <3>3. CASE on[t] = s
      <4>1. ToSet(e'[s].link) = ToSet(e[s].link) \ {t}
        <5>1. ToSet(DropWaiter(e[s], t).link) = ToSet(e[s].link) \ {t}
          BY <3>1, DropWaiterOperation
        <5>2. e'[s] = DropWaiter(e[s], t)
          BY <2>1, <3>3
        <5>3. QED
          BY <5>1, <5>2
      <4>2. e'[s].link \in Seq(Threads)
        BY <1>1 DEF IInv, TypeOK, EventStt
      <4>3. e[s].link = <<>> => ToSet(e[s].link) = {}
        BY DEF ToSet
      <4>4. e'[s].link # <<>> => ToSet(e'[s].link) # {}
        BY <4>2, EmptyLink
      <4>5. QED
        BY <4>1, <4>3, <4>4
    <3>4. QED
      BY <3>2, <3>3
  <2>3. ASSUME NEW u \in Threads, pc'[u] = "wait"
        PROVE  on'[u] \in Sems /\ u \in ToSet(e'[on'[u]].link)
    <3>1. u # t /\ pc[u] = "wait" /\ on'[u] = on[u]
      BY <2>1, <2>3 DEF IInv, TypeOK
    <3>2. QED
      BY <2>2, <3>1 DEF LinkedIsAllocated
  <2>4. QED
    BY <2>1, <2>2, <2>3 DEF LinkedIsAllocated, Allocated
<1>10. ASSUME NEW t \in Threads, WaitReturns(t) PROVE LinkedIsAllocated'
  <2>1. /\ pc' = [pc EXCEPT ![t] = "run"] /\ on' = [on EXCEPT ![t] = NoSem]
        /\ pc[t] = "ret" /\ UNCHANGED <<szName, e>>
    BY <1>10 DEF WaitReturns, semVars
  <2>2. QED
    BY <2>1 DEF LinkedIsAllocated, Allocated, IInv, TypeOK
<1>11. ASSUME NEW t \in Threads,
              \/ \E nm \in Names : Open(t, nm)
              \/ \E s \in Sems : CloseReference(t, s)
              \/ Start(t)
       PROVE  LinkedIsAllocated'
  <2>1. UNCHANGED <<szName, e, on>>
    BY <1>11 DEF Open, CloseReference, Start, threadVars, semVars
  <2>2. \A u \in Threads : pc'[u] = "wait" => pc[u] = "wait"
    BY <1>11 DEF Open, CloseReference, Start, threadVars, IInv, TypeOK
  <2>3. QED
    BY <1>3, <2>1, <2>2
<1>12. CASE UNCHANGED vars
  BY <1>3, <1>12 DEF vars
<1>13. QED
  BY <1>4, <1>5, <1>6, <1>7, <1>8, <1>9, <1>10, <1>11, <1>12 DEF Next

(* No semaphore is open and no thread sleeps at first.                     *)
LEMMA InitCounted == Init => OpenCounted /\ LinkedIsAllocated
<1> SUFFICES ASSUME Init PROVE OpenCounted /\ LinkedIsAllocated
  OBVIOUS
<1>1. ASSUME NEW s \in Sems PROVE References(s) = {}
  BY DEF Init, References
<1>2. OpenCounted
  BY <1>1, FS_EmptySet DEF Init, OpenCounted
<1>3. LinkedIsAllocated
  BY DEF Init, LinkedIsAllocated, NewEvent
<1>4. QED
  BY <1>2, <1>3

(* The counters and the links stay right together.                         *)
THEOREM SpecCounted == Spec => [](IInv /\ OpenCounted /\ LinkedIsAllocated)
BY InitIInv, InitCounted, NextIInv, NextOpenCounted, NextLinkedIsAllocated, PTL DEF Spec

(* No process holds a reference to a freed structure: nRefCounter is never *)
(* below the calls of ksem_create and ksem_open not closed yet.            *)
THEOREM SpecOpenSemaphoresLive == Spec => []OpenSemaphoresLive
BY SpecCounted, CountedLive, PTL

(* A thread sleeps in ksem_wait exactly while an allocated semaphore's     *)
(* event links it, so the last ksem_close leaves nobody asleep behind.     *)
LEMMA LinkedSleepers == IInv /\ LinkedIsAllocated => SleepersAreLinked
<1> SUFFICES ASSUME IInv, LinkedIsAllocated, NEW t \in Threads
             PROVE  pc[t] = "wait" <=> \E s \in Sems : /\ Allocated(s)
                                                       /\ on[t] = s
                                                       /\ t \in ToSet(e[s].link)
  BY DEF SleepersAreLinked
<1>1. ASSUME NEW s \in Sems, t \in ToSet(e[s].link) PROVE e[s].link # <<>>
  BY <1>1 DEF ToSet
<1>2. QED
  BY <1>1 DEF IInv, LinkedThreadsSleep, LinkedIsAllocated

(* Whoever sleeps is linked in a live semaphore, and nobody else is.       *)
THEOREM SpecSleepersAreLinked == Spec => []SleepersAreLinked
BY SpecCounted, LinkedSleepers, PTL

(* Every variable keeps its type.                                          *)
THEOREM SpecTypeOK == Spec => []TypeOK
BY SpecIInv, PTL DEF IInv

-----------------------------------------------------------------------------
(* The critical section: mutual exclusion, and no wake-up is lost, for any *)
(* number of threads that load programs.                                   *)

(* While the section is free nobody is in it.                              *)
FreeSectionIsEmpty == Free => \A t \in Loaders : loader[t] # "in"

(* A thread is linked in the event once at most, and then it sleeps.       *)
LinkedLoadersSleep ==
    /\ IsInjective(sectEvent.link)
    /\ \A t \in ToSet(sectEvent.link) : loader[t] = "wait"

(* The inductive invariant.                                                *)
SectInv ==
    /\ SectTypeOK
    /\ MutualExclusion
    /\ FreeSectionIsEmpty
    /\ LinkedLoadersSleep
    /\ FreeSectionHasTaker

-----------------------------------------------------------------------------
(* Nobody is in the section at first.                                      *)
LEMMA InitSectInv == SectInit => SectInv
<1> SUFFICES ASSUME SectInit PROVE SectInv
  OBVIOUS
<1>1. SectTypeOK
  <2>1. NewEvent \in EventStt(Loaders)
    BY DEF NewEvent, EventStt
  <2>2. QED
    BY <2>1 DEF SectInit, SectTypeOK
<1>2. MutualExclusion /\ FreeSectionIsEmpty
  BY DEF SectInit, MutualExclusion, FreeSectionIsEmpty
<1>3. LinkedLoadersSleep /\ FreeSectionHasTaker
  BY DEF SectInit, LinkedLoadersSleep, FreeSectionHasTaker, NewEvent,
         IsInjective, ToSet
<1>4. QED
  BY <1>1, <1>2, <1>3 DEF SectInv

(* A thread enters when the section is free, so it is alone there.         *)
LEMMA EnterSectInv ==
    ASSUME SectInv, NEW t \in Loaders, Enter(t)
    PROVE  SectInv'
<1>1. /\ loader[t] \in {"out", "try"} /\ Free
      /\ nInitialized' = 1 /\ nFlag' = 0 /\ abandoned' = abandoned
      /\ sectEvent' = NewEvent \/ sectEvent' = sectEvent
      /\ loader' = [loader EXCEPT ![t] = "in"]
  BY DEF Enter, EventOf
<1>2. NewEvent \in EventStt(Loaders) /\ NewEvent.link = <<>>
  BY DEF NewEvent, EventStt
<1>3. IsInjective(<<>>) /\ ToSet(<<>>) = {}
  BY DEF IsInjective, ToSet
<1>4. SectTypeOK'
  BY <1>1, <1>2 DEF SectInv, SectTypeOK
<1>5. MutualExclusion' /\ FreeSectionIsEmpty'
  BY <1>1 DEF SectInv, SectTypeOK, MutualExclusion, FreeSectionIsEmpty, Free,
       MustInitialize
<1>6. LinkedLoadersSleep' /\ FreeSectionHasTaker'
  BY <1>1, <1>2, <1>3 DEF SectInv, SectTypeOK, LinkedLoadersSleep, FreeSectionHasTaker
<1>7. QED
  BY <1>4, <1>5, <1>6 DEF SectInv

(* A thread sleeps only while the section is taken.                        *)
LEMMA EnterBlocksSectInv ==
    ASSUME SectInv, NEW t \in Loaders, EnterBlocks(t)
    PROVE  SectInv'
<1> DEFINE d  == Drained(sectEvent)
           ev == LinkWaiter(d, t)
<1>1. /\ loader[t] \in {"out", "try"} /\ ~ Free
      /\ sectEvent' = ev
      /\ loader' = [loader EXCEPT ![t] = "wait"]
      /\ UNCHANGED <<nInitialized, nFlag, abandoned>>
  BY DEF EnterBlocks
<1>2. /\ d \in EventStt(Loaders)
      /\ d.link = sectEvent.link
      /\ d.nCount = 0
  BY DEF Drained, SectInv, SectTypeOK, EventStt
<1>3. t \notin ToSet(sectEvent.link) /\ IsInjective(sectEvent.link)
  BY <1>1 DEF SectInv, LinkedLoadersSleep
<1> HIDE DEF d
<1>4. /\ ev \in EventStt(Loaders)
      /\ IsInjective(ev.link)
      /\ ToSet(ev.link) = ToSet(sectEvent.link) \cup {t}
      /\ ev.nCount = 0
  BY <1>2, <1>3, LinkWaiterOperation
<1> HIDE DEF ev
<1>5. nFlag = 0 /\ nInitialized = 1
  BY <1>1 DEF SectInv, SectTypeOK, Free, MustInitialize
<1>6. SectTypeOK'
  BY <1>1, <1>4 DEF SectInv, SectTypeOK
<1>7. MutualExclusion' /\ FreeSectionIsEmpty'
  BY <1>1, <1>5 DEF SectInv, SectTypeOK, MutualExclusion, FreeSectionIsEmpty, Free,
       MustInitialize
<1>8. LinkedLoadersSleep'
  BY <1>1, <1>4 DEF SectInv, SectTypeOK, LinkedLoadersSleep
<1>9. FreeSectionHasTaker'
  BY <1>1, <1>4, <1>5 DEF FreeSectionHasTaker
<1>10. QED
  BY <1>6, <1>7, <1>8, <1>9 DEF SectInv

(* The only thread in the section leaves it and wakes the first sleeper.   *)
LEMMA LeaveSectInv ==
    ASSUME SectInv, NEW t \in Loaders, Leave(t)
    PROVE  SectInv'
<1> DEFINE ev == IncEvent(sectEvent)
           w == Woken(sectEvent)
<1>1. /\ loader[t] = "in"
      /\ nFlag' = 1 /\ sectEvent' = ev
      /\ loader' = [u \in Loaders |-> IF u = t THEN "out"
                                  ELSE IF u \in w THEN "try" ELSE loader[u]]
      /\ UNCHANGED <<nInitialized, abandoned>>
  BY DEF Leave, WokenByLeave
<1>2. /\ ev \in EventStt(Loaders)
      /\ IsInjective(ev.link)
      /\ sectEvent.link = <<>> => ev.link = <<>>
      /\ sectEvent.link # <<>> => /\ w = {Head(sectEvent.link)}
                          /\ Head(sectEvent.link) \in ToSet(sectEvent.link)
                          /\ ev.nCount = sectEvent.nCount
      /\ ToSet(ev.link) = ToSet(sectEvent.link) \ w
  BY IncEventOperation DEF SectInv, SectTypeOK, LinkedLoadersSleep
<1>3. ToSet(sectEvent.link) \subseteq Loaders
  BY DEF SectInv, SectTypeOK, EventStt, ToSet
<1> HIDE DEF ev, w
<1>4. SectTypeOK'
  BY <1>1, <1>2 DEF SectInv, SectTypeOK
<1>5. MutualExclusion' /\ FreeSectionIsEmpty'
  BY <1>1 DEF SectInv, SectTypeOK, MutualExclusion, FreeSectionIsEmpty
<1>6. LinkedLoadersSleep'
  BY <1>1, <1>2, <1>3 DEF SectInv, SectTypeOK, LinkedLoadersSleep
<1>7. FreeSectionHasTaker'
  <2>1. ASSUME ev.link # <<>>
        PROVE  sectEvent'.nCount = 0 /\ \E u \in Loaders : loader'[u] = "try"
    <3>1. sectEvent.link # <<>> /\ sectEvent.nCount = 0
      BY <1>2, <2>1 DEF SectInv, FreeSectionHasTaker
    <3>2. /\ Head(sectEvent.link) \in Loaders /\ Head(sectEvent.link) # t
          /\ loader'[Head(sectEvent.link)] = "try"
      BY <1>1, <1>2, <1>3, <3>1 DEF SectInv, LinkedLoadersSleep
    <3>3. QED
      BY <1>1, <1>2, <3>1, <3>2
  <2>2. QED
    BY <1>1, <2>1 DEF FreeSectionHasTaker
<1>8. QED
  BY <1>4, <1>5, <1>6, <1>7 DEF SectInv

(* A thread is killed, wherever it is.                                     *)
LEMMA KillSectInv ==
    ASSUME SectInv, NEW t \in Loaders, SectKill(t)
    PROVE  SectInv'
<1> DEFINE ev == DropWaiter(sectEvent, t)
<1>1. /\ sectEvent' = ev
      /\ loader' = [loader EXCEPT ![t] = "out"]
      /\ abandoned' = (abandoned \/ loader[t] \in {"in", "try"})
      /\ UNCHANGED <<nInitialized, nFlag>>
  BY DEF SectKill
<1>2. /\ ev \in EventStt(Loaders)
      /\ IsInjective(ev.link)
      /\ ToSet(ev.link) = ToSet(sectEvent.link) \ {t}
      /\ ev.nCount = sectEvent.nCount
  <2>1. sectEvent \in EventStt(Loaders) /\ IsInjective(sectEvent.link)
    BY DEF SectInv, SectTypeOK, LinkedLoadersSleep
  <2>2. QED
    BY <2>1, DropWaiterOperation
<1>3. ev.link # <<>> => sectEvent.link # <<>>
  <2>1. sectEvent.link \in Seq(Loaders) /\ ev.link \in Seq(Loaders)
    BY <1>2 DEF SectInv, SectTypeOK, EventStt
  <2>2. QED
    BY <1>2, <2>1, EmptyLink
<1> HIDE DEF ev
<1>4. SectTypeOK'
  BY <1>1, <1>2 DEF SectInv, SectTypeOK
<1>5. MutualExclusion' /\ FreeSectionIsEmpty'
  BY <1>1 DEF SectInv, SectTypeOK, MutualExclusion, FreeSectionIsEmpty, Free,
       MustInitialize
<1>6. LinkedLoadersSleep'
  BY <1>1, <1>2 DEF SectInv, SectTypeOK, LinkedLoadersSleep
<1>7. FreeSectionHasTaker'
  <2>1. ASSUME ev.link # <<>>, nFlag = 1
        PROVE  abandoned' \/ \E u \in Loaders : loader'[u] = "try"
    <3>1. abandoned \/ \E u \in Loaders : loader[u] = "try"
      BY <1>3, <2>1 DEF SectInv, FreeSectionHasTaker
    <3>2. QED
      BY <1>1, <3>1 DEF SectInv, SectTypeOK
  <2>2. ev.link # <<>> => ev.nCount = 0
    BY <1>2, <1>3 DEF SectInv, FreeSectionHasTaker
  <2>3. QED
    BY <1>1, <2>1, <2>2 DEF FreeSectionHasTaker
<1>8. QED
  BY <1>4, <1>5, <1>6, <1>7 DEF SectInv

-----------------------------------------------------------------------------
(* The inductive invariant holds in every reachable state.                 *)
THEOREM SpecSectInv == SectSpec => []SectInv
<1>1. SectInv /\ [SectNext]_sectVars => SectInv'
  <2> SUFFICES ASSUME SectInv, [SectNext]_sectVars PROVE SectInv'
    OBVIOUS
  <2>1. CASE UNCHANGED sectVars
    BY <2>1 DEF sectVars, SectInv, SectTypeOK, MutualExclusion, FreeSectionIsEmpty,
                Free, MustInitialize,
                LinkedLoadersSleep, FreeSectionHasTaker
  <2>2. CASE SectNext
    BY <2>2, EnterSectInv, EnterBlocksSectInv, LeaveSectInv, KillSectInv DEF SectNext
  <2>3. QED
    BY <2>1, <2>2
<1>2. QED
  BY <1>1, InitSectInv, PTL DEF SectSpec

(* One program is loaded at a time.                                        *)
THEOREM SpecMutualExclusion == SectSpec => []MutualExclusion
BY SpecSectInv, PTL DEF SectInv

(* No wake-up is lost while threads sleep for a free section.              *)
THEOREM SpecFreeSectionHasTaker == SectSpec => []FreeSectionHasTaker
BY SpecSectInv, PTL DEF SectInv

=============================================================================
