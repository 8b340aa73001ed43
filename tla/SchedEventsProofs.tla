--------------------------- MODULE SchedEventsProofs ---------------------------
(***************************************************************************)
(* The safety properties of SchedEvents hold for any number of threads,    *)
(* events and levels, and any bounds.                                      *)
(***************************************************************************)
EXTENDS SchedEvents, LinkLemmas

(* A wait for input or for a signal has no timeout that could expire after *)
(* the thread was woken (awake_the_first_waiting_thread and                *)
(* send_signal_to_thread cancel none).                                     *)
InputWaitsHaveNoTimeOut ==
    \A t \in Threads : obj[t] \in KeyEvents \cup SignalEvents => left[t] = 0

(* Whoever is half through with closing or waking a thread has the         *)
(* processor, and the thread in hand is another one.  The shell's thread   *)
(* still waits for the key, or has been woken by one.                      *)
HalfDone ==
    /\ \A t \in Threads : pc[t] \in {"close", "shell"} => t = cur
    /\ pc[cur] \in {"close", "shell"} => victim \in Threads /\ victim # cur
    /\ pc[cur] = "shell" => /\ arg[cur] \in KbdEvents
                            /\ obj[victim] \in {arg[cur], NoEvent}

(* The inductive invariant.  No part of it is inductive alone: a queue     *)
(* stays well formed because a thread is linked where its state says, its  *)
(* state is ready when it runs because only queues of ready threads are    *)
(* scanned, and the links of an event are left with their objects because  *)
(* only sleeping threads have one.                                         *)
IInv ==
    /\ TypeOK
    /\ QueuesMatchStates
    /\ LinksMatchObjects
    /\ WaitersSleep
    /\ NoWaiterWithStoredOccurrence
    /\ CurrentIsReady
    /\ SleepersAreLinked
    /\ TimeOutsHaveWaiters
    /\ InputWaitsHaveNoTimeOut
    /\ HalfDone

-----------------------------------------------------------------------------
(* The numbers of the states are distinct and ordered as process.h says.   *)
LEMMA StateNumbers ==
    /\ Ready \subseteq QStates
    /\ Ready \subseteq Nat
    /\ TS_WAIT \in QStates /\ TS_WAIT \notin Ready
    /\ TS_SUSPEND \in QStates /\ TS_SUSPEND \notin Ready
    /\ TS_TERMINATED \notin QStates /\ TS_TERMINATED \notin Ready
    /\ TS_WAIT # TS_SUSPEND
    /\ StartLevels \subseteq Ready
    /\ \A l \in Ready : TS_READY_HIGHEST < l => l - 1 \in Ready
    /\ \A l \in QStates : l < TS_READY_LOWEST => l + 1 \in Ready
    /\ \A l \in QStates \cup {TS_TERMINATED} : l < TS_READY_LAZY => l \in Ready
    /\ \A l \in QStates \cup {TS_TERMINATED} :
         l < TS_READY_LOWEST => l \in Ready /\ l + 1 \in Ready
BY SchedAssumption
   DEF SchedAssumption, Ready, QStates, MAX_SCH_Q, TS_WAIT, TS_SUSPEND, TS_TERMINATED

(* change_thread_state moves the thread and keeps the queues well formed.  *)
LEMMA ChangeStateMoves ==
    ASSUME q \in [QStates -> Seq(Threads)],
           nState \in [Threads -> QStates \cup {TS_TERMINATED}],
           QueuesMatchStates,
           NEW t \in Threads, NEW s \in QStates \cup {TS_TERMINATED},
           ChangeState(t, s)
    PROVE  /\ q' \in [QStates -> Seq(Threads)]
           /\ nState' \in [Threads -> QStates \cup {TS_TERMINATED}]
           /\ nState' = [nState EXCEPT ![t] = s]
           /\ QueuesMatchStates'
<1>1. /\ nState' = [nState EXCEPT ![t] = s]
      /\ nState' \in [Threads -> QStates \cup {TS_TERMINATED}]
  BY DEF ChangeState
<1> DEFINE rest(l) == IF l = nState[t] THEN RemoveFirst(q[l], t) ELSE q[l]
<1>2. ASSUME NEW l \in QStates
      PROVE  /\ rest(l) \in Seq(Threads)
             /\ IsInjective(rest(l))
             /\ ToSet(rest(l)) = ToSet(q[l]) \ {t}
  <2>1. /\ q[l] \in Seq(Threads)
        /\ IsInjective(q[l])
        /\ t \in ToSet(q[l]) <=> nState[t] = l
    BY DEF QueuesMatchStates
  <2>2. /\ RemoveFirst(q[l], t) \in Seq(Threads)
        /\ IsInjective(RemoveFirst(q[l], t))
        /\ ToSet(RemoveFirst(q[l], t)) = ToSet(q[l]) \ {t}
    BY <2>1, RemoveLink
  <2>3. QED
    BY <2>1, <2>2
<1>3. \A l \in QStates : q'[l] = IF l = s THEN Append(rest(l), t) ELSE rest(l)
  BY DEF ChangeState, LeaveQueue
<1>4. DOMAIN q' = QStates /\ q' = [l \in QStates |-> q'[l]]
  BY DEF ChangeState
<1> HIDE DEF rest
<1>5. ASSUME NEW l \in QStates
      PROVE  /\ q'[l] \in Seq(Threads)
             /\ IsInjective(q'[l])
             /\ ToSet(q'[l]) = (ToSet(q[l]) \ {t}) \cup (IF l = s THEN {t} ELSE {})
  <2>1. CASE l = s
    <3>1. t \notin ToSet(rest(l))
      BY <1>2
    <3>2. /\ Append(rest(l), t) \in Seq(Threads)
          /\ IsInjective(Append(rest(l), t))
          /\ ToSet(Append(rest(l), t)) = ToSet(rest(l)) \cup {t}
      BY <1>2, <3>1, AppendLink
    <3>3. QED
      BY <1>2, <1>3, <2>1, <3>2
  <2>2. CASE l # s
    BY <1>2, <1>3, <2>2
  <2>3. QED
    BY <2>1, <2>2
<1>6. q' \in [QStates -> Seq(Threads)]
  BY <1>4, <1>5
<1>7. QueuesMatchStates'
  <2>1. ASSUME NEW l \in QStates, NEW u \in Threads
        PROVE  u \in ToSet(q'[l]) <=> nState'[u] = l
    BY <1>1, <1>5 DEF QueuesMatchStates
  <2>2. QED
    BY <1>5, <2>1 DEF QueuesMatchStates
<1>8. QED
  BY <1>1, <1>6, <1>7

(* unlink_waitobj_from_event and set_wait_obj_free take the thread out of  *)
(* the link of its event and keep every link well formed.                  *)
LEMMA UnlinkWaitObjUnlinks ==
    ASSUME link \in [Events -> Seq(Threads)],
           obj \in [Threads -> Events \cup {NoEvent}],
           LinksMatchObjects,
           NEW t \in Threads, obj[t] # NoEvent,
           UnlinkWaitObj(t), UNCHANGED torn
    PROVE  /\ link' \in [Events -> Seq(Threads)]
           /\ obj' \in [Threads -> Events \cup {NoEvent}]
           /\ obj' = [obj EXCEPT ![t] = NoEvent]
           /\ LinksMatchObjects'
           /\ \A e \in Events : link'[e] # <<>> => link[e] # <<>>
<1>1. /\ obj[t] \in Events
      /\ obj' = [obj EXCEPT ![t] = NoEvent]
      /\ obj' \in [Threads -> Events \cup {NoEvent}]
      /\ link' = [link EXCEPT ![obj[t]] = RemoveFirst(link[obj[t]], t)]
  BY DEF UnlinkWaitObj
<1>2. ASSUME NEW e \in Events
      PROVE  /\ link'[e] \in Seq(Threads)
             /\ IsInjective(link'[e])
             /\ ToSet(link'[e]) = ToSet(link[e]) \ {t}
             /\ link'[e] # <<>> => link[e] # <<>>
  <2>1. link[e] \in Seq(Threads) /\ IsInjective(link[e])
    BY DEF LinksMatchObjects
  <2>2. /\ RemoveFirst(link[e], t) \in Seq(Threads)
        /\ IsInjective(RemoveFirst(link[e], t))
        /\ ToSet(RemoveFirst(link[e], t)) = ToSet(link[e]) \ {t}
    BY <2>1, RemoveLink
  <2>3. link'[e] = IF e = obj[t] THEN RemoveFirst(link[e], t) ELSE link[e]
    BY <1>1
  <2>c. e # obj[t] => ToSet(link[e]) = ToSet(link[e]) \ {t}
    BY DEF LinksMatchObjects
  <2>4. /\ link'[e] \in Seq(Threads)
        /\ IsInjective(link'[e])
        /\ ToSet(link'[e]) = ToSet(link[e]) \ {t}
    BY <2>1, <2>2, <2>3, <2>c
  <2>5. link'[e] # <<>> => link[e] # <<>>
    BY <2>1, <2>4, EmptyLink
  <2>6. QED
    BY <2>4, <2>5
<1>3. link' \in [Events -> Seq(Threads)]
  BY <1>1, <1>2
<1>4. LinksMatchObjects'
  <2>1. ASSUME NEW e \in Events, NEW u \in Threads
        PROVE  /\ u \in ToSet(link'[e]) => obj'[u] = e
               /\ obj'[u] = e => u \in ToSet(link'[e]) \/ e \in torn'
    <3>1. /\ u \in ToSet(link[e]) => obj[u] = e
          /\ obj[u] = e => u \in ToSet(link[e]) \/ e \in torn
      BY DEF LinksMatchObjects
    <3>2. obj'[u] = IF u = t THEN NoEvent ELSE obj[u]
      BY <1>1
    <3>3. QED
      BY <1>2, <3>1, <3>2, SchedAssumption DEF SchedAssumption
  <2>2. QED
    BY <1>2, <2>1 DEF LinksMatchObjects
<1>5. QED
  BY <1>1, <1>2, <1>3, <1>4

(* The first thread linked in an event waits for that event.               *)
LEMMA HeadWaits ==
    ASSUME IInv, NEW e \in Events, link[e] # <<>>
    PROVE  Head(link[e]) \in Threads /\ obj[Head(link[e])] = e
<1>1. link[e] \in Seq(Threads) /\ IsInjective(link[e])
  BY DEF IInv, TypeOK, LinksMatchObjects
<1>2. Head(link[e]) \in Threads /\ Head(link[e]) \in ToSet(link[e])
  BY <1>1, TailLink
<1>3. QED
  BY <1>2 DEF IInv, LinksMatchObjects

(* A thread that executes its own code is ready and waits for nothing.     *)
LEMMA RunningIsAwake ==
    ASSUME IInv, NEW t \in Threads, Running(t)
    PROVE  /\ nState[t] \in Ready
           /\ obj[t] = NoEvent
           /\ left[t] = 0
           /\ expiring = {}
           /\ cur = t /\ pc[t] = "run"
BY DEF IInv, Running, CurrentIsReady, WaitersSleep, Closing, TimeOutsHaveWaiters, TypeOK

-----------------------------------------------------------------------------
(* Every action preserves the inductive invariant.                         *)

(* The initial states satisfy it: one thread in one queue, nothing linked. *)
LEMMA InitIInv == Init => IInv
<1> SUFFICES ASSUME Init PROVE IInv
  OBVIOUS
<1>1. PICK l \in StartLevels :
        /\ q = [s \in QStates |-> IF s = l THEN <<Boot>> ELSE <<>>]
        /\ nState = [t \in Threads |-> IF t = Boot THEN l ELSE TS_TERMINATED]
  BY DEF Init
<1>2. Boot \in Threads /\ NoEvent \notin Events /\ l \in Ready /\ l \in QStates
  BY StateNumbers, SchedAssumption DEF SchedAssumption
<1>3. /\ <<Boot>> \in Seq(Threads) /\ <<>> \in Seq(Threads)
      /\ IsInjective(<<Boot>>) /\ IsInjective(<<>>)
      /\ ToSet(<<Boot>>) = {Boot} /\ ToSet(<<>>) = {}
  BY <1>2 DEF IsInjective, ToSet
<1>4. 0 \in Ready
  BY SchedAssumption DEF SchedAssumption, Ready
<1>5. TypeOK
  BY <1>1, <1>2, <1>3, <1>4 DEF Init, TypeOK, Places
<1>h. HalfDone
  BY <1>2 DEF Init, HalfDone
<1>6. QueuesMatchStates
  <2>1. ASSUME NEW s \in QStates
        PROVE  /\ IsInjective(q[s])
               /\ ToSet(q[s]) = IF s = l THEN {Boot} ELSE {}
    BY <1>1, <1>3
  <2>2. QED
    BY <1>1, <2>1, StateNumbers DEF QueuesMatchStates
<1>7. LinksMatchObjects
  BY <1>2, <1>3 DEF Init, LinksMatchObjects
<1>8. /\ WaitersSleep /\ NoWaiterWithStoredOccurrence
      /\ TimeOutsHaveWaiters /\ InputWaitsHaveNoTimeOut
  BY DEF Init, WaitersSleep, NoWaiterWithStoredOccurrence,
         TimeOutsHaveWaiters, InputWaitsHaveNoTimeOut
<1>9. CurrentIsReady /\ SleepersAreLinked
  BY <1>1, <1>2, StateNumbers DEF Init, CurrentIsReady, SleepersAreLinked
<1>10. QED
  BY <1>5, <1>6, <1>7, <1>8, <1>9, <1>h DEF IInv

(* An occurrence that is stored is taken at once.                          *)
LEMMA WaitEventOccurredIInv ==
    ASSUME IInv, NEW t \in Threads, NEW e \in Events, WaitEventOccurred(t, e)
    PROVE  IInv'
<1>1. /\ nCount[e] > 0
      /\ nCount' = [nCount EXCEPT ![e] = nCount[e] - 1]
      /\ UNCHANGED <<cur, q, nState, nPrev, nWaitResult, link, obj, left,
                     expiring, arg, pc, victim, torn>>
  BY DEF WaitEventOccurred, schVars, waitVars, halfVars
<1>2. TypeOK'
  BY <1>1 DEF IInv, TypeOK
<1>3. NoWaiterWithStoredOccurrence'
  BY <1>1 DEF IInv, TypeOK, NoWaiterWithStoredOccurrence
<1>4. QED
  BY <1>1, <1>2, <1>3
     DEF IInv, QueuesMatchStates, LinksMatchObjects, WaitersSleep, Closing, HalfDone, CurrentIsReady,
         SleepersAreLinked, TimeOutsHaveWaiters, InputWaitsHaveNoTimeOut, HalfDone, Closing

(* The thread joins the link of the event and sleeps.                      *)
LEMMA WaitEventBlocksIInv ==
    ASSUME IInv, NEW t \in Threads, NEW e \in Events, NEW to \in TimeOuts(e),
           WaitEventBlocks(t, e, to)
    PROVE  IInv'
<1>1. /\ nState[t] \in Ready /\ obj[t] = NoEvent /\ left[t] = 0
      /\ expiring = {} /\ cur = t /\ pc[t] = "run"
  BY RunningIsAwake DEF WaitEventBlocks
<1>2. /\ nCount[e] = 0
      /\ link' = [link EXCEPT ![e] = IF e \in torn THEN link[e] ELSE Append(link[e], t)]
      /\ obj' = [obj EXCEPT ![t] = e]
      /\ left' = [left EXCEPT ![t] = to]
      /\ nPrev' = [nPrev EXCEPT ![t] = nState[t]]
      /\ ChangeState(t, TS_WAIT)
      /\ nWaitResult' = [nWaitResult EXCEPT ![t] = 0]
      /\ arg' = [arg EXCEPT ![t] = e]
      /\ pc' = [pc EXCEPT ![t] = "wait"]
      /\ UNCHANGED <<cur, nCount, expiring, victim, torn>>
  BY <1>1, StateNumbers DEF WaitEventBlocks, halfVars
<1>3. to \in Nat /\ (e \in KeyEvents \cup SignalEvents => to = 0)
  BY SchedAssumption DEF TimeOuts, SchedAssumption
<1>4. /\ q' \in [QStates -> Seq(Threads)]
      /\ nState' \in [Threads -> QStates \cup {TS_TERMINATED}]
      /\ nState' = [nState EXCEPT ![t] = TS_WAIT]
      /\ QueuesMatchStates'
  BY <1>2, ChangeStateMoves, StateNumbers DEF IInv, TypeOK
<1>5. /\ link'[e] \in Seq(Threads)
      /\ IsInjective(link'[e])
      /\ ToSet(link'[e]) = IF e \in torn THEN ToSet(link[e]) ELSE ToSet(link[e]) \cup {t}
  <2>1. link[e] \in Seq(Threads) /\ IsInjective(link[e]) /\ t \notin ToSet(link[e])
    BY <1>1, SchedAssumption DEF IInv, TypeOK, LinksMatchObjects, SchedAssumption
  <2>2. /\ Append(link[e], t) \in Seq(Threads)
        /\ IsInjective(Append(link[e], t))
        /\ ToSet(Append(link[e], t)) = ToSet(link[e]) \cup {t}
    BY <2>1, AppendLink
  <2>3. link'[e] = IF e \in torn THEN link[e] ELSE Append(link[e], t)
    BY <1>2 DEF IInv, TypeOK
  <2>4. QED
    BY <2>1, <2>2, <2>3
<1>k. link' \in [Events -> Seq(Threads)]
  BY <1>2, <1>5 DEF IInv, TypeOK
<1>6. TypeOK'
  BY <1>1, <1>2, <1>3, <1>4, <1>k DEF IInv, TypeOK, Places
<1>7. LinksMatchObjects'
  <2>1. ASSUME NEW f \in Events, NEW u \in Threads
        PROVE  /\ u \in ToSet(link'[f]) => obj'[u] = f
               /\ obj'[u] = f => u \in ToSet(link'[f]) \/ f \in torn'
    <3>1. /\ u \in ToSet(link[f]) => obj[u] = f
          /\ obj[u] = f => u \in ToSet(link[f]) \/ f \in torn
      BY DEF IInv, LinksMatchObjects
    <3>2. obj'[u] = (IF u = t THEN e ELSE obj[u]) /\ torn' = torn
      BY <1>2 DEF IInv, TypeOK
    <3>3. ToSet(link'[f]) = IF f = e /\ e \notin torn THEN ToSet(link[f]) \cup {t}
                                                    ELSE ToSet(link[f])
      BY <1>2, <1>5 DEF IInv, TypeOK
    <3>4. QED
      BY <1>1, <3>1, <3>2, <3>3, SchedAssumption DEF SchedAssumption
  <2>2. ASSUME NEW f \in Events PROVE IsInjective(link'[f])
    BY <1>2, <1>5 DEF IInv, TypeOK, LinksMatchObjects
  <2>3. QED
    BY <2>1, <2>2 DEF LinksMatchObjects
<1>8. WaitersSleep'
  BY <1>1, <1>2, <1>4 DEF IInv, TypeOK, WaitersSleep, Closing
<1>9. NoWaiterWithStoredOccurrence'
  BY <1>2 DEF IInv, TypeOK, NoWaiterWithStoredOccurrence
<1>10. CurrentIsReady'
  BY <1>1, <1>2 DEF IInv, TypeOK, CurrentIsReady
<1>11. SleepersAreLinked'
  BY <1>2, <1>4, SchedAssumption DEF IInv, TypeOK, SleepersAreLinked, SchedAssumption
<1>12. TimeOutsHaveWaiters' /\ InputWaitsHaveNoTimeOut'
  BY <1>1, <1>2, <1>3, SchedAssumption
     DEF IInv, TypeOK, TimeOutsHaveWaiters, InputWaitsHaveNoTimeOut, SchedAssumption
<1>h. HalfDone'
  BY <1>1, <1>2 DEF IInv, TypeOK, HalfDone
<1>13. QED
  BY <1>4, <1>6, <1>7, <1>8, <1>9, <1>10, <1>11, <1>12, <1>h DEF IInv

(* The thread leaves wait_event.                                           *)
LEMMA WaitEventReturnsIInv ==
    ASSUME IInv, NEW t \in Threads, WaitEventReturns(t)
    PROVE  IInv'
<1>1. /\ cur = t /\ pc[t] = "ret"
      /\ pc' = [pc EXCEPT ![t] = "run"]
      /\ arg' = [arg EXCEPT ![t] = NoEvent]
      /\ UNCHANGED <<cur, q, nState, nPrev, nWaitResult, nCount, link, obj, left,
                     expiring, victim, torn>>
  BY DEF WaitEventReturns, schVars, evVars, waitVars, halfVars
<1>2. TypeOK'
  BY <1>1 DEF IInv, TypeOK, Places
<1>3. WaitersSleep' /\ CurrentIsReady' /\ SleepersAreLinked' /\ HalfDone'
  BY <1>1 DEF IInv, TypeOK, WaitersSleep, Closing, HalfDone, CurrentIsReady, SleepersAreLinked
<1>4. QED
  BY <1>1, <1>2, <1>3
     DEF IInv, QueuesMatchStates, LinksMatchObjects, NoWaiterWithStoredOccurrence,
         TimeOutsHaveWaiters, InputWaitsHaveNoTimeOut, HalfDone, Closing

(* An occurrence is stored while no thread waits.                          *)
LEMMA IncEventCountStoresIInv ==
    ASSUME IInv, NEW e \in Events, IncEventCountStores(e)
    PROVE  IInv'
<1>1. /\ link[e] = <<>>
      /\ nCount' = [nCount EXCEPT ![e] = nCount[e] + 1]
      /\ UNCHANGED <<cur, q, nState, nPrev, nWaitResult, link, obj, left,
                     expiring, arg, pc, victim, torn>>
  BY DEF IncEventCountStores, StoresOccurrence, schVars, waitVars, halfVars
<1>2. TypeOK'
  BY <1>1 DEF IInv, TypeOK
<1>3. NoWaiterWithStoredOccurrence'
  BY <1>1 DEF IInv, TypeOK, NoWaiterWithStoredOccurrence
<1>4. QED
  BY <1>1, <1>2, <1>3
     DEF IInv, QueuesMatchStates, LinksMatchObjects, WaitersSleep, Closing, HalfDone, CurrentIsReady,
         SleepersAreLinked, TimeOutsHaveWaiters, InputWaitsHaveNoTimeOut, HalfDone, Closing

(* A driver forgets old occurrences.                                       *)
LEMMA ClearEventCountIInv ==
    ASSUME IInv, NEW t \in Threads, NEW e \in Events, ClearEventCount(t, e)
    PROVE  IInv'
<1>1. /\ nCount' = [nCount EXCEPT ![e] = 0]
      /\ UNCHANGED <<cur, q, nState, nPrev, nWaitResult, link, obj, left,
                     expiring, arg, pc, victim, torn>>
  BY DEF ClearEventCount, schVars, waitVars, halfVars
<1>2. TypeOK'
  BY <1>1 DEF IInv, TypeOK
<1>3. NoWaiterWithStoredOccurrence'
  BY <1>1 DEF IInv, TypeOK, NoWaiterWithStoredOccurrence
<1>4. QED
  BY <1>1, <1>2, <1>3
     DEF IInv, QueuesMatchStates, LinksMatchObjects, WaitersSleep, Closing, HalfDone, CurrentIsReady,
         SleepersAreLinked, TimeOutsHaveWaiters, InputWaitsHaveNoTimeOut, HalfDone, Closing

(* A waiting thread is unlinked, with no timeout left, and gets its        *)
(* previous state back: the part all three wake-up paths share.            *)
LEMMA WakeUpIInv ==
    ASSUME IInv, NEW t \in Threads, obj[t] # NoEvent, expiring = {},
           UnlinkWaitObj(t), ChangeState(t, WakeState(t)),
           NEW r \in {0, TIME_OUT, EVENT_OCCURRED},
           nWaitResult' = [nWaitResult EXCEPT ![t] = r],
           left' = [left EXCEPT ![t] = 0],
           UNCHANGED <<cur, nPrev, nCount, expiring, arg, pc, victim, torn>>
    PROVE  IInv'
<1>1. nPrev[t] \in Ready /\ nPrev[t] \in QStates /\ pc[t] = "wait"
  BY StateNumbers DEF IInv, TypeOK, WaitersSleep, Closing, HalfDone
<1>2. /\ q' \in [QStates -> Seq(Threads)]
      /\ nState' \in [Threads -> QStates \cup {TS_TERMINATED}]
      /\ nState' = [nState EXCEPT ![t] = nPrev[t]]
      /\ QueuesMatchStates'
  BY <1>1, ChangeStateMoves DEF IInv, TypeOK, WakeState
<1>3. /\ link' \in [Events -> Seq(Threads)]
      /\ obj' \in [Threads -> Events \cup {NoEvent}]
      /\ obj' = [obj EXCEPT ![t] = NoEvent]
      /\ LinksMatchObjects'
      /\ \A e \in Events : link'[e] # <<>> => link[e] # <<>>
  BY UnlinkWaitObjUnlinks DEF IInv, TypeOK
<1>4. TypeOK'
  BY <1>2, <1>3 DEF IInv, TypeOK
<1>5. WaitersSleep'
  BY <1>2, <1>3 DEF IInv, TypeOK, WaitersSleep, Closing, HalfDone
<1>6. NoWaiterWithStoredOccurrence'
  BY <1>3 DEF IInv, NoWaiterWithStoredOccurrence
<1>7. CurrentIsReady'
  BY <1>1, <1>2 DEF IInv, TypeOK, CurrentIsReady
<1>8. SleepersAreLinked'
  BY <1>1, <1>2, <1>3, StateNumbers DEF IInv, TypeOK, SleepersAreLinked
<1>9. TimeOutsHaveWaiters'
  BY <1>3 DEF IInv, TypeOK, TimeOutsHaveWaiters
<1>10. InputWaitsHaveNoTimeOut'
  BY <1>3 DEF IInv, TypeOK, InputWaitsHaveNoTimeOut
<1>h. HalfDone'
  BY <1>3 DEF IInv, TypeOK, HalfDone
<1>11. QED
  BY <1>2, <1>3, <1>4, <1>5, <1>6, <1>7, <1>8, <1>9, <1>10, <1>h DEF IInv

(* inc_event_count wakes the first waiting thread.                         *)
LEMMA IncEventCountWakesIInv ==
    ASSUME IInv, NEW e \in Events, IncEventCountWakes(e)
    PROVE  IInv'
<1> DEFINE t == Head(link[e])
<1>1. link[e] # <<>> /\ expiring = {}
  BY DEF IncEventCountWakes, StoresOccurrence
<1>2. t \in Threads /\ obj[t] = e /\ obj[t] # NoEvent
  BY <1>1, HeadWaits, SchedAssumption DEF SchedAssumption
<1>3. /\ UnlinkWaitObj(t) /\ ChangeState(t, WakeState(t))
      /\ nWaitResult' = [nWaitResult EXCEPT ![t] = EVENT_OCCURRED]
      /\ left' = [left EXCEPT ![t] = 0]
      /\ UNCHANGED <<cur, nPrev, nCount, expiring, arg, pc, victim, torn>>
  BY DEF IncEventCountWakes, CancelTimeOut, halfVars
<1> HIDE DEF t
<1>4. QED
  BY <1>1, <1>2, <1>3, WakeUpIInv

(* A wake-up that leaves the result and the timeout alone, of a thread     *)
(* that waits for input or for a signal.                                   *)
LEMMA InputWakeUpIInv ==
    ASSUME IInv, NEW t \in Threads, obj[t] \in KeyEvents \cup SignalEvents,
           expiring = {}, UnlinkWaitObj(t), ChangeState(t, WakeState(t)),
           UNCHANGED <<cur, nPrev, nWaitResult, nCount, left, expiring, arg, pc, victim, torn>>
    PROVE  IInv'
<1>1. obj[t] # NoEvent /\ left[t] = 0
  BY SchedAssumption DEF IInv, InputWaitsHaveNoTimeOut, SchedAssumption
<1>2. /\ left' = [left EXCEPT ![t] = 0]
      /\ nWaitResult[t] \in {0, TIME_OUT, EVENT_OCCURRED}
      /\ nWaitResult' = [nWaitResult EXCEPT ![t] = nWaitResult[t]]
  BY <1>1 DEF IInv, TypeOK
<1>3. QED
  BY <1>1, <1>2, WakeUpIInv

(* The keyboard or serial handler wakes a thread.                          *)
LEMMA AwakeWaitingThreadIInv ==
    ASSUME IInv, NEW e \in KeyEvents, NEW t \in Threads, AwakeWaitingThread(e, t)
    PROVE  IInv'
BY InputWakeUpIInv DEF AwakeWaitingThread, halfVars

(* A signal wakes a thread.                                                *)
LEMMA SendSignalIInv ==
    ASSUME IInv, NEW s \in Threads, NEW t \in Threads, SendSignal(s, t)
    PROVE  IInv'
BY InputWakeUpIInv DEF SendSignal, Running, halfVars

(* The timer interrupt counts down and may demote the current thread.      *)
LEMMA TickIInv ==
    ASSUME IInv, Tick
    PROVE  IInv'
<1>1. /\ expiring = {}
      /\ left' = [t \in Threads |-> IF left[t] > 1 THEN left[t] - 1 ELSE left[t]]
      /\ expiring' = {t \in Threads : left[t] = 1}
      /\ LevelDown \/ UNCHANGED <<q, nState>>
      /\ UNCHANGED <<cur, nPrev, nWaitResult, nCount, link, obj, arg, pc, victim, torn>>
  BY DEF Tick, schVars, evVars, halfVars
<1>2. /\ q' \in [QStates -> Seq(Threads)]
      /\ nState' \in [Threads -> QStates \cup {TS_TERMINATED}]
      /\ QueuesMatchStates'
      /\ \A t \in Threads : nState'[t] # nState[t] => nState[t] \in Ready /\ nState'[t] \in Ready
  <2>1. CASE LevelDown
    <3>1. /\ cur \in Threads
          /\ nState[cur] \in Ready /\ nState[cur] + 1 \in Ready
          /\ nState[cur] + 1 \in QStates
          /\ ChangeState(cur, nState[cur] + 1)
      BY <2>1, StateNumbers DEF LevelDown, IInv, TypeOK
    <3>2. /\ q' \in [QStates -> Seq(Threads)]
          /\ nState' \in [Threads -> QStates \cup {TS_TERMINATED}]
          /\ nState' = [nState EXCEPT ![cur] = nState[cur] + 1]
          /\ QueuesMatchStates'
      BY <3>1, ChangeStateMoves DEF IInv, TypeOK
    <3>3. QED
      BY <3>1, <3>2 DEF IInv, TypeOK
  <2>2. CASE UNCHANGED <<q, nState>>
    BY <2>2 DEF IInv, TypeOK, QueuesMatchStates
  <2>3. QED
    BY <1>1, <2>1, <2>2
<1>3. TypeOK'
  BY <1>1, <1>2 DEF IInv, TypeOK
<1>4. WaitersSleep' /\ SleepersAreLinked'
  BY <1>1, <1>2, StateNumbers DEF IInv, TypeOK, WaitersSleep, Closing, HalfDone, SleepersAreLinked
<1>5. CurrentIsReady'
  BY <1>1, <1>2 DEF IInv, TypeOK, CurrentIsReady
<1>6. TimeOutsHaveWaiters' /\ InputWaitsHaveNoTimeOut'
  BY <1>1 DEF IInv, TypeOK, TimeOutsHaveWaiters, InputWaitsHaveNoTimeOut
<1>7. QED
  BY <1>1, <1>2, <1>3, <1>4, <1>5, <1>6
     DEF IInv, LinksMatchObjects, NoWaiterWithStoredOccurrence, HalfDone

(* A timeout expires: the wait object goes, and the thread stays as it is, *)
(* because its own object was still active when the handler looked.        *)
LEMMA TimeOutExpiresIInv ==
    ASSUME IInv, NEW t \in Threads, TimeOutExpires(t)
    PROVE  IInv'
<1>1. t \in expiring /\ obj[t] # NoEvent
  BY DEF TimeOutExpires, IInv, TimeOutsHaveWaiters
<1>2. /\ nWaitResult' = [nWaitResult EXCEPT ![t] = TIME_OUT]
      /\ UnlinkWaitObj(t)
      /\ left' = [left EXCEPT ![t] = 0]
      /\ expiring' = expiring \ {t}
      /\ UNCHANGED <<cur, q, nState, nPrev, nCount, arg, pc, victim, torn>>
  BY <1>1 DEF TimeOutExpires, ExpiryWakes, NoActiveWaitObj, CancelTimeOut, schVars, halfVars
<1>3. /\ link' \in [Events -> Seq(Threads)]
      /\ obj' \in [Threads -> Events \cup {NoEvent}]
      /\ obj' = [obj EXCEPT ![t] = NoEvent]
      /\ LinksMatchObjects'
      /\ \A e \in Events : link'[e] # <<>> => link[e] # <<>>
  BY <1>1, <1>2, UnlinkWaitObjUnlinks DEF IInv, TypeOK
<1>4. TypeOK'
  BY <1>2, <1>3 DEF IInv, TypeOK
<1>5. WaitersSleep' /\ SleepersAreLinked' /\ HalfDone'
  BY <1>2, <1>3 DEF IInv, TypeOK, WaitersSleep, Closing, HalfDone, SleepersAreLinked
<1>6. NoWaiterWithStoredOccurrence'
  BY <1>2, <1>3 DEF IInv, NoWaiterWithStoredOccurrence
<1>7. TimeOutsHaveWaiters' /\ InputWaitsHaveNoTimeOut'
  BY <1>2, <1>3 DEF IInv, TypeOK, TimeOutsHaveWaiters, InputWaitsHaveNoTimeOut
<1>8. QED
  BY <1>2, <1>3, <1>4, <1>5, <1>6, <1>7 DEF IInv, QueuesMatchStates, CurrentIsReady

(* A thread calls kernel_scheduler.                                        *)
LEMMA YieldIInv ==
    ASSUME IInv, NEW t \in Threads, Yield(t)
    PROVE  IInv'
<1>1. /\ pc[t] = "run" /\ cur = t
      /\ pc' = [pc EXCEPT ![t] = "sched"]
      /\ UNCHANGED <<cur, q, nState, nPrev, nWaitResult, nCount, link, obj, left,
                     expiring, arg, victim, torn>>
  BY DEF Yield, Running, schVars, evVars, waitVars, halfVars
<1>2. TypeOK'
  BY <1>1 DEF IInv, TypeOK, Places
<1>3. WaitersSleep' /\ CurrentIsReady' /\ SleepersAreLinked' /\ HalfDone'
  BY <1>1 DEF IInv, TypeOK, WaitersSleep, Closing, HalfDone, CurrentIsReady, SleepersAreLinked
<1>4. QED
  BY <1>1, <1>2, <1>3
     DEF IInv, QueuesMatchStates, LinksMatchObjects, NoWaiterWithStoredOccurrence,
         TimeOutsHaveWaiters, InputWaitsHaveNoTimeOut, HalfDone, Closing

(* kernel_scheduler switches to the head of the best queue, which goes to  *)
(* the end of its own queue or of the next better one.                     *)
LEMMA ScheduleIInv ==
    ASSUME IInv, Schedule
    PROVE  IInv'
<1>1. PICK l \in Ready :
        /\ q[l] # <<>>
        /\ \E k \in Promoted(Head(q[l]), l) :
             /\ q' = IF k = l
                       THEN [q EXCEPT ![l] = Rotate(q[l])]
                       ELSE [q EXCEPT ![l] = Tail(q[l]), ![k] = Append(q[k], Head(q[l]))]
             /\ nState' = [nState EXCEPT ![Head(q[l])] = k]
        /\ cur' = Head(q[l])
        /\ pc' = [pc EXCEPT ![Head(q[l])] =
                    CASE pc[Head(q[l])] = "wait"  -> "ret"
                      [] pc[Head(q[l])] = "sched" -> "run"
                      [] OTHER -> pc[Head(q[l])]]
        /\ UNCHANGED <<nPrev, nWaitResult, nCount, link, obj, left, expiring, arg, victim, torn>>
        /\ pc[cur] \notin {"close", "shell"}
  <2>1. PICK l \in SchedLevels :
          /\ FirstLevel(l)
          /\ \E k \in Promoted(Head(q[l]), l) :
               /\ q' = IF k = l
                         THEN [q EXCEPT ![l] = Rotate(@)]
                         ELSE [q EXCEPT ![l] = Tail(@), ![k] = Append(@, Head(q[l]))]
               /\ nState' = [nState EXCEPT ![Head(q[l])] = k]
          /\ cur' = Head(q[l])
          /\ pc' = [pc EXCEPT ![Head(q[l])] = CASE @ = "wait"  -> "ret"
                                                [] @ = "sched" -> "run"
                                                [] OTHER       -> @]
    BY DEF Schedule
  <2>2. /\ UNCHANGED <<nPrev, nWaitResult, nCount, link, obj, left, expiring, arg, victim, torn>>
        /\ pc[cur] \notin {"close", "shell"}
    BY DEF Schedule, evVars, waitVars, halfVars
  <2>3. l \in Ready /\ q[l] # <<>> /\ q \in [QStates -> Seq(Threads)] /\ pc \in [Threads -> Places]
    BY <2>1 DEF SchedLevels, FirstLevel, IInv, TypeOK
  <2>4. ASSUME NEW k \in Promoted(Head(q[l]), l)
        PROVE  k # l => [q EXCEPT ![l] = Tail(@), ![k] = Append(@, Head(q[l]))]
                      = [q EXCEPT ![l] = Tail(q[l]), ![k] = Append(q[k], Head(q[l]))]
    OBVIOUS
  <2>5. QED
    BY <2>1, <2>2, <2>3, <2>4
<1> DEFINE n == Head(q[l])
<1>2. l \in QStates /\ q[l] \in Seq(Threads) /\ IsInjective(q[l])
  BY StateNumbers DEF IInv, TypeOK, QueuesMatchStates
<1>3. /\ n \in Threads /\ n \in ToSet(q[l])
      /\ Tail(q[l]) \in Seq(Threads) /\ IsInjective(Tail(q[l]))
      /\ ToSet(Tail(q[l])) = ToSet(q[l]) \ {n}
  BY <1>1, <1>2, TailLink
<1>4. nState[n] = l
  BY <1>2, <1>3 DEF IInv, QueuesMatchStates
<1>5. PICK k \in Promoted(n, l) :
        /\ q' = IF k = l
                  THEN [q EXCEPT ![l] = Rotate(q[l])]
                  ELSE [q EXCEPT ![l] = Tail(q[l]), ![k] = Append(q[k], n)]
        /\ nState' = [nState EXCEPT ![n] = k]
  BY <1>1
<1>6. k \in Ready /\ k \in QStates
  BY <1>1, <1>5, StateNumbers DEF Promoted
<1> HIDE DEF n
<1>7. /\ Rotate(q[l]) \in Seq(Threads)
      /\ IsInjective(Rotate(q[l]))
      /\ ToSet(Rotate(q[l])) = ToSet(q[l])
  <2> DEFINE r == Tail(q[l])
  <2>1. n \in Threads /\ r \in Seq(Threads) /\ IsInjective(r) /\ n \notin ToSet(r)
    BY <1>3
  <2> HIDE DEF r
  <2>2. /\ Append(r, n) \in Seq(Threads)
        /\ IsInjective(Append(r, n))
        /\ ToSet(Append(r, n)) = ToSet(r) \cup {n}
    BY <2>1, AppendLink
  <2>3. QED
    BY <1>3, <2>2 DEF Rotate, n, r
<1>8. k # l => /\ Append(q[k], n) \in Seq(Threads)
               /\ IsInjective(Append(q[k], n))
               /\ ToSet(Append(q[k], n)) = ToSet(q[k]) \cup {n}
  <2> SUFFICES ASSUME k # l
               PROVE  /\ Append(q[k], n) \in Seq(Threads)
                      /\ IsInjective(Append(q[k], n))
                      /\ ToSet(Append(q[k], n)) = ToSet(q[k]) \cup {n}
    OBVIOUS
  <2>1. q[k] \in Seq(Threads) /\ IsInjective(q[k]) /\ n \notin ToSet(q[k])
    BY <1>3, <1>4, <1>6 DEF IInv, TypeOK, QueuesMatchStates
  <2>2. n \in Threads
    BY <1>3
  <2>3. QED
    BY <2>1, <2>2, AppendLink
<1>9. /\ q' \in [QStates -> Seq(Threads)]
      /\ \A m \in QStates :
           /\ IsInjective(q'[m])
           /\ ToSet(q'[m]) = (ToSet(q[m]) \ {n}) \cup (IF m = k THEN {n} ELSE {})
  <2>1. /\ q \in [QStates -> Seq(Threads)]
        /\ \A m \in QStates : /\ IsInjective(q[m])
                              /\ m # l => n \notin ToSet(q[m])
    BY <1>3, <1>4 DEF IInv, TypeOK, QueuesMatchStates
  <2>2. CASE k = l
    <3>1. q' = [q EXCEPT ![l] = Rotate(q[l])]
      BY <1>5, <2>2
    <3>2. QED
      BY <1>2, <1>3, <1>7, <2>1, <2>2, <3>1
  <2>3. CASE k # l
    <3>1. q' = [q EXCEPT ![l] = Tail(q[l]), ![k] = Append(q[k], n)]
      BY <1>5, <2>3
    <3>2. QED
      BY <1>2, <1>3, <1>6, <1>8, <2>1, <2>3, <3>1
  <2>4. QED
    BY <2>2, <2>3
<1>10. nState' \in [Threads -> QStates \cup {TS_TERMINATED}]
  BY <1>5, <1>6 DEF IInv, TypeOK
<1>11. QueuesMatchStates'
  <2>1. ASSUME NEW m \in QStates, NEW u \in Threads
        PROVE  u \in ToSet(q'[m]) <=> nState'[u] = m
    <3>1. nState'[u] = IF u = n THEN k ELSE nState[u]
      BY <1>3, <1>5 DEF IInv, TypeOK
    <3>2. u \in ToSet(q[m]) <=> nState[u] = m
      BY DEF IInv, QueuesMatchStates
    <3>3. QED
      BY <1>9, <3>1, <3>2
  <2>2. QED
    BY <1>9, <2>1 DEF QueuesMatchStates
<1>12. /\ pc' \in [Threads -> Places]
       /\ \A u \in Threads : u # n => pc'[u] = pc[u]
       /\ pc'[n] \notin {"wait", "close", "shell"}
       /\ pc[n] = "exit" => pc'[n] = "exit"
  BY <1>1, <1>3 DEF IInv, TypeOK, Places, HalfDone, n
<1>13. TypeOK'
  BY <1>1, <1>3, <1>9, <1>10, <1>12 DEF IInv, TypeOK, n
<1>14. WaitersSleep' /\ SleepersAreLinked' /\ HalfDone'
  <2>1. ASSUME NEW u \in Threads
        PROVE  nState'[u] = IF u = n THEN k ELSE nState[u]
    BY <1>3, <1>5 DEF IInv, TypeOK
  <2>2. nState[n] # TS_WAIT /\ nState'[n] # TS_WAIT
    BY <1>1, <1>3, <1>4, <1>6, <2>1, StateNumbers
  <2>n. nState[n] # TS_TERMINATED
    BY <1>1, <1>4, StateNumbers
  <2>o. obj[n] = NoEvent /\ cur' = n
    BY <1>1, <1>3, <2>2, <2>n DEF IInv, WaitersSleep, n
  <2>3. WaitersSleep'
    BY <1>1, <1>12, <2>1, <2>o DEF IInv, WaitersSleep, Closing
  <2>4. SleepersAreLinked'
    BY <1>1, <1>12, <2>1, <2>2 DEF IInv, SleepersAreLinked
  <2>5. HalfDone'
    BY <1>1, <1>3, <1>12 DEF IInv, HalfDone, n
  <2>6. QED
    BY <2>3, <2>4, <2>5
<1>15. CurrentIsReady'
  BY <1>1, <1>3, <1>5, <1>6 DEF IInv, TypeOK, CurrentIsReady, n
<1>16. QED
  BY <1>1, <1>11, <1>13, <1>14, <1>15
     DEF IInv, LinksMatchObjects, NoWaiterWithStoredOccurrence,
         TimeOutsHaveWaiters, InputWaitsHaveNoTimeOut, HalfDone, Closing

(* A ready thread is suspended and the caller yields.                      *)
LEMMA SuspendIInv ==
    ASSUME IInv, NEW s \in Threads, NEW t \in Threads, Suspend(s, t)
    PROVE  IInv'
<1>1. /\ cur = s /\ pc[s] = "run" /\ nState[s] \in Ready /\ obj[s] = NoEvent
      /\ nPrev' = [nPrev EXCEPT ![t] = nState[t]]
      /\ ChangeState(t, TS_SUSPEND)
      /\ pc' = [pc EXCEPT ![s] = "sched"]
      /\ UNCHANGED <<cur, nWaitResult, nCount, link, obj, left, expiring, arg, victim, torn>>
  BY RunningIsAwake DEF Suspend, evVars, waitVars, halfVars
<1>2. nState[t] \in Ready
  BY StateNumbers DEF Suspend, Suspendable, IInv, TypeOK
<1>3. /\ q' \in [QStates -> Seq(Threads)]
      /\ nState' \in [Threads -> QStates \cup {TS_TERMINATED}]
      /\ nState' = [nState EXCEPT ![t] = TS_SUSPEND]
      /\ QueuesMatchStates'
  BY <1>1, ChangeStateMoves, StateNumbers DEF IInv, TypeOK
<1>4. TypeOK'
  BY <1>1, <1>2, <1>3 DEF IInv, TypeOK, Places
<1>5. WaitersSleep' /\ SleepersAreLinked' /\ HalfDone'
  BY <1>1, <1>2, <1>3, StateNumbers DEF IInv, TypeOK, WaitersSleep, Closing, HalfDone, SleepersAreLinked
<1>6. CurrentIsReady'
  BY <1>1 DEF IInv, TypeOK, CurrentIsReady
<1>7. QED
  BY <1>1, <1>3, <1>4, <1>5, <1>6
     DEF IInv, LinksMatchObjects, NoWaiterWithStoredOccurrence,
         TimeOutsHaveWaiters, InputWaitsHaveNoTimeOut, HalfDone, Closing

(* A suspended thread gets its previous state back.                        *)
LEMMA ResumeIInv ==
    ASSUME IInv, NEW s \in Threads, NEW t \in Threads, Resume(s, t)
    PROVE  IInv'
<1>1. /\ nState[t] = TS_SUSPEND /\ nPrev[t] \in Ready
      /\ ChangeState(t, nPrev[t])
      /\ UNCHANGED <<cur, nPrev, nWaitResult, nCount, link, obj, left, expiring,
                     arg, pc, victim, torn>>
  BY DEF Resume, WakeState, evVars, waitVars, halfVars, IInv, TypeOK
<1>2. /\ q' \in [QStates -> Seq(Threads)]
      /\ nState' \in [Threads -> QStates \cup {TS_TERMINATED}]
      /\ nState' = [nState EXCEPT ![t] = nPrev[t]]
      /\ QueuesMatchStates'
  BY <1>1, ChangeStateMoves, StateNumbers DEF IInv, TypeOK
<1>3. TypeOK'
  BY <1>1, <1>2 DEF IInv, TypeOK
<1>4. WaitersSleep' /\ SleepersAreLinked'
  BY <1>1, <1>2, StateNumbers DEF IInv, TypeOK, WaitersSleep, Closing, HalfDone, SleepersAreLinked
<1>5. CurrentIsReady'
  BY <1>1, <1>2 DEF IInv, TypeOK, CurrentIsReady
<1>6. QED
  BY <1>1, <1>2, <1>3, <1>4, <1>5
     DEF IInv, LinksMatchObjects, NoWaiterWithStoredOccurrence,
         TimeOutsHaveWaiters, InputWaitsHaveNoTimeOut, HalfDone, Closing

(* A new thread is linked in the queue of its level.                       *)
LEMMA CreateThreadIInv ==
    ASSUME IInv, NEW s \in Threads, NEW t \in Threads, NEW l \in StartLevels,
           CreateThread(s, t, l)
    PROVE  IInv'
<1>1. /\ cur = s /\ pc[s] = "run" /\ nState[s] \in Ready
      /\ nState[t] = TS_TERMINATED
      /\ ChangeState(t, l)
      /\ nPrev' = [nPrev EXCEPT ![t] = 0]
      /\ nWaitResult' = [nWaitResult EXCEPT ![t] = 0]
      /\ pc' = [pc EXCEPT ![t] = "run"]
      /\ arg' = [arg EXCEPT ![t] = NoEvent]
      /\ UNCHANGED <<cur, nCount, link, obj, left, expiring, victim, torn>>
  BY RunningIsAwake DEF CreateThread, evVars, waitVars, halfVars
<1>2. l \in Ready /\ 0 \in Ready /\ obj[t] = NoEvent
  BY <1>1, StateNumbers, SchedAssumption
     DEF SchedAssumption, Ready, IInv, WaitersSleep, Closing, HalfDone, TypeOK
<1>3. /\ q' \in [QStates -> Seq(Threads)]
      /\ nState' \in [Threads -> QStates \cup {TS_TERMINATED}]
      /\ nState' = [nState EXCEPT ![t] = l]
      /\ QueuesMatchStates'
  BY <1>1, <1>2, ChangeStateMoves, StateNumbers DEF IInv, TypeOK
<1>4. TypeOK'
  BY <1>1, <1>2, <1>3 DEF IInv, TypeOK, Places
<1>5. WaitersSleep' /\ SleepersAreLinked' /\ HalfDone'
  BY <1>1, <1>2, <1>3, StateNumbers DEF IInv, TypeOK, WaitersSleep, Closing, HalfDone, SleepersAreLinked
<1>6. CurrentIsReady'
  BY <1>1, <1>2, <1>3 DEF IInv, TypeOK, CurrentIsReady
<1>7. QED
  BY <1>1, <1>3, <1>4, <1>5, <1>6
     DEF IInv, LinksMatchObjects, NoWaiterWithStoredOccurrence,
         TimeOutsHaveWaiters, InputWaitsHaveNoTimeOut, HalfDone, Closing

(* A thread that kills itself sleeps without a wait object.                *)
LEMMA ExitIInv ==
    ASSUME IInv, NEW t \in Threads, Exit(t)
    PROVE  IInv'
<1>1. /\ cur = t /\ pc[t] = "run" /\ obj[t] = NoEvent
      /\ ChangeState(t, TS_WAIT)
      /\ pc' = [pc EXCEPT ![t] = "exit"]
      /\ UNCHANGED <<cur, nPrev, nWaitResult, nCount, link, obj, left, expiring, arg, victim, torn>>
  BY RunningIsAwake DEF Exit, evVars, waitVars, halfVars
<1>2. /\ q' \in [QStates -> Seq(Threads)]
      /\ nState' \in [Threads -> QStates \cup {TS_TERMINATED}]
      /\ nState' = [nState EXCEPT ![t] = TS_WAIT]
      /\ QueuesMatchStates'
  BY <1>1, ChangeStateMoves, StateNumbers DEF IInv, TypeOK
<1>3. TypeOK'
  BY <1>1, <1>2 DEF IInv, TypeOK, Places
<1>4. WaitersSleep' /\ SleepersAreLinked' /\ CurrentIsReady' /\ HalfDone'
  BY <1>1, <1>2 DEF IInv, TypeOK, WaitersSleep, Closing, HalfDone, SleepersAreLinked, CurrentIsReady
<1>5. QED
  BY <1>1, <1>2, <1>3, <1>4
     DEF IInv, LinksMatchObjects, NoWaiterWithStoredOccurrence,
         TimeOutsHaveWaiters, InputWaitsHaveNoTimeOut, HalfDone, Closing

(* The shell finds a thread that waits for a key.                          *)
LEMMA ShellFindsIInv ==
    ASSUME IInv, NEW s \in Threads, NEW t \in Threads, NEW e \in KbdEvents,
           ShellFinds(s, t, e)
    PROVE  IInv'
<1>1. /\ cur = s /\ pc[s] = "run" /\ nState[s] \in Ready /\ obj[s] = NoEvent
      /\ obj[t] = e
      /\ victim' = t
      /\ arg' = [arg EXCEPT ![s] = e]
      /\ pc' = [pc EXCEPT ![s] = "shell"]
      /\ UNCHANGED <<cur, q, nState, nPrev, nWaitResult, nCount, link, obj, left,
                     expiring, torn>>
  BY RunningIsAwake DEF ShellFinds, schVars, evVars, waitVars
<1>2. e \in Events /\ e # NoEvent /\ s # t
  BY <1>1, SchedAssumption DEF SchedAssumption
<1>3. TypeOK'
  BY <1>1, <1>2 DEF IInv, TypeOK, Places
<1>4. WaitersSleep' /\ CurrentIsReady' /\ SleepersAreLinked' /\ HalfDone'
  BY <1>1, <1>2
     DEF IInv, TypeOK, WaitersSleep, Closing, CurrentIsReady, SleepersAreLinked, HalfDone
<1>5. QED
  BY <1>1, <1>3, <1>4
     DEF IInv, QueuesMatchStates, LinksMatchObjects, NoWaiterWithStoredOccurrence,
         TimeOutsHaveWaiters, InputWaitsHaveNoTimeOut

(* The shell wakes the thread: it unlinks its wait object, or tears the    *)
(* link of the event when the object is free by now.                       *)
LEMMA ShellWakesIInv ==
    ASSUME IInv, NEW s \in Threads, ShellWakes(s)
    PROVE  IInv'
<1>1. /\ cur = s /\ pc[s] = "shell" /\ nState[s] \in Ready /\ obj[s] = NoEvent
      /\ victim \in Threads /\ victim # s
      /\ arg[s] \in KbdEvents /\ arg[s] \in Events /\ arg[s] # NoEvent
      /\ arg[s] \in KeyEvents
      /\ obj[victim] \in {arg[s], NoEvent}
  BY SchedAssumption
     DEF ShellWakes, IInv, TypeOK, HalfDone, CurrentIsReady, WaitersSleep, SchedAssumption
<1>p. PICK t \in Threads : t = victim
  BY <1>1
<1>2. /\ expiring = {}
      /\ IF obj[t] = arg[s] THEN UnlinkWaitObj(t) /\ UNCHANGED torn
                            ELSE UnlinkFreed(arg[s]) /\ UNCHANGED obj
      /\ ChangeState(t, nPrev[t])
      /\ victim' = NoThread
      /\ arg' = [arg EXCEPT ![s] = NoEvent]
      /\ pc' = [pc EXCEPT ![s] = "run"]
      /\ UNCHANGED <<cur, nPrev, nWaitResult, nCount, left, expiring>>
  BY <1>p DEF ShellWakes, WakeState
<1>3. nPrev[t] \in Ready /\ nPrev[t] \in QStates
  BY StateNumbers DEF IInv, TypeOK
<1>4. /\ q' \in [QStates -> Seq(Threads)]
      /\ nState' \in [Threads -> QStates \cup {TS_TERMINATED}]
      /\ nState' = [nState EXCEPT ![t] = nPrev[t]]
      /\ QueuesMatchStates'
  BY <1>2, <1>3, ChangeStateMoves DEF IInv, TypeOK
<1>5. /\ link' \in [Events -> Seq(Threads)]
      /\ obj' \in [Threads -> Events \cup {NoEvent}]
      /\ obj' = [obj EXCEPT ![t] = NoEvent]
      /\ LinksMatchObjects'
      /\ torn' \in SUBSET KbdEvents
      /\ \A e \in Events : link'[e] # <<>> => link[e] # <<>>
  <2>1. CASE obj[t] = arg[s]
    BY <1>1, <1>2, <2>1, UnlinkWaitObjUnlinks DEF IInv, TypeOK
  <2>2. CASE obj[t] = NoEvent
    <3>1. /\ link' = [link EXCEPT ![arg[s]] = <<>>]
          /\ torn' = IF link[arg[s]] = <<>> THEN torn ELSE torn \cup {arg[s]}
          /\ obj' = obj
      BY <1>1, <1>2, <2>2 DEF UnlinkFreed
    <3>2. /\ <<>> \in Seq(Threads) /\ IsInjective(<<>>) /\ ToSet(<<>>) = {}
      BY DEF IsInjective, ToSet
    <3>3. /\ link' \in [Events -> Seq(Threads)]
          /\ obj' \in [Threads -> Events \cup {NoEvent}]
          /\ obj' = [obj EXCEPT ![t] = NoEvent]
          /\ torn' \in SUBSET KbdEvents
      BY <1>1, <2>2, <3>1, <3>2 DEF IInv, TypeOK
    <3>4. ASSUME NEW e \in Events
          PROVE  link'[e] = IF e = arg[s] THEN <<>> ELSE link[e]
      BY <3>1 DEF IInv, TypeOK
    <3>5. ASSUME NEW e \in Events
          PROVE  IsInjective(link'[e]) /\ (link'[e] # <<>> => link[e] # <<>>)
      BY <3>2, <3>4 DEF IInv, LinksMatchObjects
    <3>6. ASSUME NEW e \in Events, NEW u \in Threads
          PROVE  /\ u \in ToSet(link'[e]) => obj'[u] = e
                 /\ obj'[u] = e => u \in ToSet(link'[e]) \/ e \in torn'
      <4>1. /\ u \in ToSet(link[e]) => obj[u] = e
            /\ obj[u] = e => u \in ToSet(link[e]) \/ e \in torn
        BY DEF IInv, LinksMatchObjects
      <4>2. CASE e = arg[s]
        BY <3>1, <3>2, <3>4, <4>1, <4>2
      <4>3. CASE e # arg[s]
        BY <3>1, <3>4, <4>1, <4>3
      <4>4. QED
        BY <4>2, <4>3
    <3>7. QED
      BY <3>3, <3>5, <3>6 DEF LinksMatchObjects
  <2>3. QED
    BY <1>1, <1>p, <2>1, <2>2
<1>6. TypeOK'
  BY <1>2, <1>4, <1>5 DEF IInv, TypeOK, Places
<1>7. WaitersSleep' /\ HalfDone'
  BY <1>1, <1>2, <1>4, <1>5, <1>p DEF IInv, TypeOK, WaitersSleep, Closing, HalfDone
<1>8. SleepersAreLinked'
  BY <1>1, <1>2, <1>3, <1>4, <1>5, StateNumbers DEF IInv, TypeOK, SleepersAreLinked
<1>9. CurrentIsReady'
  BY <1>1, <1>2, <1>4, <1>p DEF IInv, TypeOK, CurrentIsReady
<1>10. TimeOutsHaveWaiters' /\ InputWaitsHaveNoTimeOut'
  <2>1. left[t] = 0
    BY <1>1, <1>2, <1>p DEF IInv, TypeOK, TimeOutsHaveWaiters, InputWaitsHaveNoTimeOut
  <2>2. QED
    BY <1>2, <1>5, <2>1 DEF IInv, TypeOK, TimeOutsHaveWaiters, InputWaitsHaveNoTimeOut
<1>11. NoWaiterWithStoredOccurrence'
  BY <1>2, <1>5 DEF IInv, NoWaiterWithStoredOccurrence
<1>12. QED
  BY <1>4, <1>5, <1>6, <1>7, <1>8, <1>9, <1>10, <1>11 DEF IInv

(* The first half of closing a thread: it is terminated, and still linked. *)
LEMMA CloseMarksIInv ==
    ASSUME IInv, NEW s \in Threads, NEW t \in Threads, CloseMarks(s, t)
    PROVE  IInv'
<1>1. /\ cur = s /\ pc[s] = "run" /\ nState[s] \in Ready /\ s # t
      /\ obj[s] = NoEvent
      /\ ChangeState(t, TS_TERMINATED)
      /\ victim' = t
      /\ pc' = [pc EXCEPT ![s] = "close"]
      /\ UNCHANGED <<cur, nPrev, nWaitResult, nCount, link, obj, left, expiring,
                     arg, torn>>
  BY RunningIsAwake DEF CloseMarks, evVars, waitVars
<1>2. /\ q' \in [QStates -> Seq(Threads)]
      /\ nState' \in [Threads -> QStates \cup {TS_TERMINATED}]
      /\ nState' = [nState EXCEPT ![t] = TS_TERMINATED]
      /\ QueuesMatchStates'
  BY <1>1, ChangeStateMoves DEF IInv, TypeOK
<1>3. TypeOK'
  BY <1>1, <1>2 DEF IInv, TypeOK, Places
<1>4. WaitersSleep'
  BY <1>1, <1>2 DEF IInv, TypeOK, WaitersSleep, Closing
<1>5. SleepersAreLinked' /\ CurrentIsReady' /\ HalfDone'
  BY <1>1, <1>2, StateNumbers DEF IInv, TypeOK, SleepersAreLinked, CurrentIsReady, HalfDone
<1>6. QED
  BY <1>1, <1>2, <1>3, <1>4, <1>5
     DEF IInv, LinksMatchObjects, NoWaiterWithStoredOccurrence,
         TimeOutsHaveWaiters, InputWaitsHaveNoTimeOut

(* The second half: its timeout, its link and its object go, and its       *)
(* structure too, unless an occurrence has made it ready.                  *)
LEMMA CloseReleasesIInv ==
    ASSUME IInv, NEW s \in Threads, CloseReleases(s)
    PROVE  IInv'
<1>1. /\ cur = s /\ pc[s] = "close" /\ nState[s] \in Ready /\ obj[s] = NoEvent
      /\ victim \in Threads /\ victim # s
  BY DEF CloseReleases, IInv, TypeOK, HalfDone, CurrentIsReady, WaitersSleep
<1>p. PICK t \in Threads : t = victim
  BY <1>1
<1> DEFINE Freed == IF nState[t] = TS_TERMINATED THEN {t} ELSE {}
<1>2. /\ expiring = {}
      /\ ReleaseWaitObj(t)
      /\ left' = [left EXCEPT ![t] = 0]
      /\ victim' = NoThread
      /\ pc' = [u \in Threads |-> IF u \in Freed \cup {s} THEN "run" ELSE pc[u]]
      /\ arg' = [u \in Threads |-> IF u \in Freed THEN NoEvent ELSE arg[u]]
      /\ nPrev' = [u \in Threads |-> IF u \in Freed THEN 0 ELSE nPrev[u]]
      /\ nWaitResult' = [u \in Threads |-> IF u \in Freed THEN 0 ELSE nWaitResult[u]]
      /\ UNCHANGED <<cur, q, nState, nCount, expiring, torn>>
  BY <1>p DEF CloseReleases, ReleaseWaitObj, CancelTimeOut, MayRelease, schVars
<1>3. /\ link' \in [Events -> Seq(Threads)]
      /\ obj' \in [Threads -> Events \cup {NoEvent}]
      /\ obj' = [obj EXCEPT ![t] = NoEvent]
      /\ LinksMatchObjects'
      /\ \A e \in Events : link'[e] # <<>> => link[e] # <<>>
  <2>1. CASE obj[t] = NoEvent
    BY <1>2, <2>1
       DEF ReleaseWaitObj, NoActiveWaitObj, IInv, TypeOK, LinksMatchObjects
  <2>2. CASE obj[t] # NoEvent
    BY <1>2, <2>2, UnlinkWaitObjUnlinks DEF ReleaseWaitObj, NoActiveWaitObj, IInv, TypeOK
  <2>3. QED
    BY <2>1, <2>2
<1>4. TypeOK'
  <2>1. 0 \in Ready
    BY SchedAssumption DEF SchedAssumption, Ready
  <2>2. /\ nPrev' \in [Threads -> Ready]
        /\ nWaitResult' \in [Threads -> {0, TIME_OUT, EVENT_OCCURRED}]
        /\ arg' \in [Threads -> Events \cup {NoEvent}]
        /\ pc' \in [Threads -> Places]
        /\ left' \in [Threads -> Nat]
    BY <1>2, <2>1 DEF IInv, TypeOK, Places
  <2>3. QED
    BY <1>2, <1>3, <2>2 DEF IInv, TypeOK
<1>5. ASSUME NEW u \in Threads, u # t
      PROVE  /\ obj'[u] = obj[u] /\ left'[u] = left[u] /\ arg'[u] = arg[u]
             /\ nWaitResult'[u] = nWaitResult[u]
             /\ u # s => pc'[u] = pc[u]
  BY <1>2, <1>3, <1>5 DEF IInv, TypeOK
<1>6. /\ obj'[t] = NoEvent /\ left'[t] = 0 /\ pc'[s] = "run"
      /\ nState[t] # TS_TERMINATED => pc'[t] = pc[t] /\ nWaitResult'[t] = nWaitResult[t]
  BY <1>1, <1>2, <1>3, <1>p DEF IInv, TypeOK
<1>7. \A u \in Threads : pc'[u] \in {"close", "shell"} => FALSE
  BY <1>1, <1>2 DEF IInv, HalfDone
<1>8. WaitersSleep'
  BY <1>1, <1>2, <1>5, <1>6, <1>7, <1>p DEF IInv, TypeOK, WaitersSleep, Closing
<1>9. SleepersAreLinked'
  <2>1. ASSUME NEW u \in Threads, nState'[u] = TS_WAIT
        PROVE  obj'[u] # NoEvent \/ pc'[u] = "exit" \/ nWaitResult'[u] = TIME_OUT
    <3>1. nState[u] = TS_WAIT /\ u # s
      BY <1>1, <1>2, <2>1, StateNumbers
    <3>2. obj[t] # NoEvent => nState[t] = TS_TERMINATED
      BY <1>1, <1>p DEF IInv, WaitersSleep, Closing
    <3>3. TS_WAIT # TS_TERMINATED
      BY StateNumbers
    <3>4. obj[u] # NoEvent \/ pc[u] = "exit" \/ nWaitResult[u] = TIME_OUT
      BY <3>1 DEF IInv, SleepersAreLinked
    <3>5. QED
      BY <1>5, <1>6, <3>1, <3>2, <3>3, <3>4
  <2>2. QED
    BY <2>1 DEF SleepersAreLinked
<1>10. CurrentIsReady' /\ HalfDone'
  BY <1>1, <1>2, <1>7 DEF IInv, TypeOK, CurrentIsReady, HalfDone
<1>11. NoWaiterWithStoredOccurrence'
  BY <1>2, <1>3 DEF IInv, NoWaiterWithStoredOccurrence
<1>12. TimeOutsHaveWaiters' /\ InputWaitsHaveNoTimeOut'
  BY <1>2, <1>3 DEF IInv, TypeOK, TimeOutsHaveWaiters, InputWaitsHaveNoTimeOut
<1>13. QED
  BY <1>2, <1>3, <1>4, <1>8, <1>9, <1>10, <1>11, <1>12 DEF IInv, QueuesMatchStates

-----------------------------------------------------------------------------
(* The invariant is inductive.                                             *)
LEMMA NextIInv == IInv /\ [Next]_vars => IInv'
<1> SUFFICES ASSUME IInv, [Next]_vars PROVE IInv'
  OBVIOUS
<1>1. CASE UNCHANGED vars
  BY <1>1 DEF vars, IInv, TypeOK, QueuesMatchStates, LinksMatchObjects, WaitersSleep,
              NoWaiterWithStoredOccurrence, CurrentIsReady, SleepersAreLinked,
              TimeOutsHaveWaiters, InputWaitsHaveNoTimeOut, HalfDone, Closing
<1>2. CASE \E t \in Threads, e \in Events : WaitEventOccurred(t, e)
  BY <1>2, WaitEventOccurredIInv
<1>3. CASE \E t \in Threads, e \in Events : \E to \in TimeOuts(e) : WaitEventBlocks(t, e, to)
  BY <1>3, WaitEventBlocksIInv
<1>4. CASE \E t \in Threads : WaitEventReturns(t)
  BY <1>4, WaitEventReturnsIInv
<1>5. CASE \E e \in Events \ (KeyEvents \cup SignalEvents) : IncEventCountStores(e)
  BY <1>5, IncEventCountStoresIInv
<1>6. CASE \E e \in Events \ (KeyEvents \cup SignalEvents) : IncEventCountWakes(e)
  BY <1>6, IncEventCountWakesIInv
<1>7. CASE \E t \in Threads, e \in Events : ClearEventCount(t, e)
  BY <1>7, ClearEventCountIInv
<1>8. CASE \E e \in KeyEvents, t \in Threads : AwakeWaitingThread(e, t)
  BY <1>8, AwakeWaitingThreadIInv
<1>9. CASE \E s, t \in Threads : SendSignal(s, t)
  BY <1>9, SendSignalIInv
<1>10. CASE Tick
  BY <1>10, TickIInv
<1>11. CASE \E t \in Threads : TimeOutExpires(t)
  BY <1>11, TimeOutExpiresIInv
<1>12. CASE \E t \in Threads : Yield(t)
  BY <1>12, YieldIInv
<1>13. CASE Schedule
  BY <1>13, ScheduleIInv
<1>14. CASE \E s, t \in Threads : Suspend(s, t)
  BY <1>14, SuspendIInv
<1>15. CASE \E s, t \in Threads : Resume(s, t)
  BY <1>15, ResumeIInv
<1>16. CASE \E s, t \in Threads : \E l \in StartLevels : CreateThread(s, t, l)
  BY <1>16, CreateThreadIInv
<1>17. CASE \E t \in Threads : Exit(t)
  BY <1>17, ExitIInv
<1>18. CASE \/ \E s, t \in Threads, e \in KbdEvents : ShellFinds(s, t, e)
            \/ \E s \in Threads : ShellWakes(s)
  BY <1>18, ShellFindsIInv, ShellWakesIInv
<1>20. CASE \/ \E s, t \in Threads : CloseMarks(s, t)
            \/ \E s \in Threads : CloseReleases(s)
  BY <1>20, CloseMarksIInv, CloseReleasesIInv
<1>19. QED
  BY <1>1, <1>2, <1>3, <1>4, <1>5, <1>6, <1>7, <1>8, <1>9, <1>10, <1>11, <1>12,
     <1>13, <1>14, <1>15, <1>16, <1>17, <1>18, <1>20 DEF Next

(* The inductive invariant holds in every reachable state.                 *)
THEOREM SpecIInv == Spec => []IInv
BY InitIInv, NextIInv, PTL DEF Spec

(* Every variable keeps its type.                                          *)
THEOREM SpecTypeOK == Spec => []TypeOK
BY SpecIInv, PTL DEF IInv

(* The queues of the scheduler agree with the thread states: no thread is  *)
(* ever lost from its queue, linked twice or left behind in an old queue.  *)
THEOREM SpecQueues == Spec => []QueuesMatchStates
BY SpecIInv, PTL DEF IInv

(* The links of the events agree with the threads' wait objects.           *)
THEOREM SpecLinks == Spec => []LinksMatchObjects
BY SpecIInv, PTL DEF IInv

(* Whoever is linked in an event sleeps in wait_event, so no occurrence is *)
(* spent on a thread that is awake.                                        *)
THEOREM SpecWaitersSleep == Spec => []WaitersSleep
BY SpecIInv, PTL DEF IInv

(* No thread sleeps on an event one of whose occurrences is stored.        *)
THEOREM SpecNoMissedOccurrence == Spec => []NoWaiterWithStoredOccurrence
BY SpecIInv, PTL DEF IInv

(* The scheduler only runs threads that are ready.                         *)
THEOREM SpecCurrentIsReady == Spec => []CurrentIsReady
BY SpecIInv, PTL DEF IInv

(* Only a thread whose timeout expired, or that waits to be killed, can be *)
(* asleep with nothing left that would wake it.                            *)
THEOREM SpecSleepers == Spec => []SleepersAreLinked
BY SpecIInv, PTL DEF IInv

(* No timeout outlives the wait it was started for.                        *)
THEOREM SpecTimeOuts == Spec => []TimeOutsHaveWaiters
BY SpecIInv, PTL DEF IInv

-----------------------------------------------------------------------------
(* Events implement tokens.                                                *)

(* What the threads inside wait_event have asked for: the wait object of a *)
(* thread names the event it called with and has no result yet, and a      *)
(* thread whose structure was freed has left.                              *)
Calls ==
    \A t \in Threads :
        /\ pc[t] \in {"wait", "ret"} => arg[t] \in Events
        /\ obj[t] # NoEvent => arg[t] = obj[t] /\ nWaitResult[t] = 0
        /\ nState[t] = TS_TERMINATED /\ ~ Closing(t) => pc[t] \notin {"wait", "ret"}

(* Nobody has called at first.                                             *)
LEMMA InitCalls == Init => Calls
BY DEF Init, Calls

(* Threads that are woken or whose level changes are not closed by that.   *)
LEMMA StillThere ==
    ASSUME IInv, Calls, NEW t \in Threads,
           NEW s \in QStates, ChangeState(t, s)
    PROVE  \A u \in Threads : nState'[u] = TS_TERMINATED => nState[u] = TS_TERMINATED
BY StateNumbers DEF IInv, TypeOK, ChangeState

(* A wake-up leaves Calls true, with any result.                           *)
LEMMA WakeUpCalls ==
    ASSUME IInv, Calls, NEW t \in Threads, obj[t] # NoEvent,
           obj' = [obj EXCEPT ![t] = NoEvent],
           NEW r \in {0, TIME_OUT, EVENT_OCCURRED},
           nWaitResult' = [nWaitResult EXCEPT ![t] = r],
           \A u \in Threads : nState'[u] = TS_TERMINATED => nState[u] = TS_TERMINATED,
           UNCHANGED <<cur, arg, pc, victim>>
    PROVE  Calls'
BY DEF IInv, TypeOK, Calls, Closing

(* Every step keeps Calls.                                                 *)
LEMMA NextCalls == IInv /\ Calls /\ [Next]_vars => Calls'
<1> SUFFICES ASSUME IInv, Calls, [Next]_vars PROVE Calls'
  OBVIOUS
<1> USE DEF Calls, Closing
<1>1. CASE UNCHANGED vars
  BY <1>1 DEF vars
<1>2. ASSUME NEW t \in Threads, NEW e \in Events, NEW to \in TimeOuts(e),
             WaitEventBlocks(t, e, to)
      PROVE  Calls'
  <2>1. /\ obj' = [obj EXCEPT ![t] = e]
        /\ nWaitResult' = [nWaitResult EXCEPT ![t] = 0]
        /\ arg' = [arg EXCEPT ![t] = e]
        /\ pc' = [pc EXCEPT ![t] = "wait"]
        /\ ChangeState(t, TS_WAIT)
        /\ cur = t /\ pc[t] = "run" /\ UNCHANGED <<cur, victim>>
    BY <1>2 DEF WaitEventBlocks, Running, halfVars
  <2>2. nState' = [nState EXCEPT ![t] = TS_WAIT] /\ TS_WAIT # TS_TERMINATED
    BY <2>1, StateNumbers DEF ChangeState
  <2>3. QED
    BY <2>1, <2>2 DEF IInv, TypeOK
<1>3. ASSUME NEW t \in Threads, WaitEventReturns(t) PROVE Calls'
  <2>1. obj[t] = NoEvent
    BY <1>3 DEF WaitEventReturns, IInv, WaitersSleep
  <2>2. QED
    BY <1>3, <2>1 DEF WaitEventReturns, schVars, evVars, waitVars, halfVars, IInv, TypeOK
<1>4. ASSUME NEW e \in Events, IncEventCountWakes(e) PROVE Calls'
  <2> DEFINE t == Head(link[e])
  <2>0. link[e] # <<>>
    BY <1>4 DEF IncEventCountWakes, StoresOccurrence
  <2>1. t \in Threads /\ obj[t] = e /\ e # NoEvent
    BY ONLY <2>0, HeadWaits, IInv, SchedAssumption DEF SchedAssumption
  <2>n. obj[t] # NoEvent /\ nPrev[t] \in QStates
    BY ONLY <2>1, StateNumbers, IInv DEF IInv, TypeOK
  <2>2. /\ obj' = [obj EXCEPT ![t] = NoEvent]
        /\ nWaitResult' = [nWaitResult EXCEPT ![t] = EVENT_OCCURRED]
        /\ ChangeState(t, nPrev[t])
        /\ UNCHANGED <<cur, arg, pc, victim>>
    BY <1>4 DEF IncEventCountWakes, UnlinkWaitObj, WakeState, halfVars
  <2> HIDE DEF t
  <2>3. QED
    BY <2>1, <2>n, <2>2, StillThere, WakeUpCalls
<1>5. ASSUME NEW t \in Threads, obj[t] # NoEvent, UnlinkWaitObj(t),
             ChangeState(t, WakeState(t)), UNCHANGED <<nWaitResult, cur, arg, pc, victim>>
      PROVE  Calls'
  <2>1. obj' = [obj EXCEPT ![t] = NoEvent] /\ nPrev[t] \in QStates
    BY <1>5, StateNumbers DEF UnlinkWaitObj, IInv, TypeOK
  <2>2. /\ nWaitResult[t] \in {0, TIME_OUT, EVENT_OCCURRED}
        /\ nWaitResult' = [nWaitResult EXCEPT ![t] = nWaitResult[t]]
    BY <1>5 DEF IInv, TypeOK
  <2>3. ChangeState(t, nPrev[t])
    BY <1>5 DEF WakeState
  <2>4. QED
    BY <1>5, <2>1, <2>2, <2>3, StillThere, WakeUpCalls
<1>6. CASE Tick
  <2>1. CASE UNCHANGED schVars
    BY <1>6, <2>1 DEF Tick, schVars, evVars, halfVars
  <2>2. CASE LevelDown
    <3>1. /\ cur \in Threads /\ nState[cur] + 1 \in QStates
          /\ ChangeState(cur, nState[cur] + 1)
      BY <2>2, StateNumbers DEF LevelDown, IInv, TypeOK
    <3>2. QED
      BY <1>6, <3>1, StillThere DEF Tick, evVars, halfVars
  <2>3. QED
    BY <1>6, <2>1, <2>2 DEF Tick
<1>7. ASSUME NEW t \in Threads, TimeOutExpires(t) PROVE Calls'
  <2>1. /\ obj[t] # NoEvent
        /\ obj' = [obj EXCEPT ![t] = NoEvent]
        /\ nWaitResult' = [nWaitResult EXCEPT ![t] = TIME_OUT]
        /\ UNCHANGED <<cur, arg, pc, victim, schVars>>
    BY <1>7 DEF TimeOutExpires, UnlinkWaitObj, ExpiryWakes, NoActiveWaitObj,
               IInv, TimeOutsHaveWaiters, halfVars
  <2>2. QED
    BY <2>1, WakeUpCalls DEF schVars
<1>8. CASE Schedule
  <2>1. PICK l \in SchedLevels : \E k \in Promoted(Head(q[l]), l) :
          /\ FirstLevel(l)
          /\ nState' = [nState EXCEPT ![Head(q[l])] = k]
          /\ pc' = [pc EXCEPT ![Head(q[l])] = CASE @ = "wait"  -> "ret"
                                                [] @ = "sched" -> "run"
                                                [] OTHER       -> @]
    BY <1>8 DEF Schedule
  <2> DEFINE n == Head(q[l])
  <2>2. PICK k \in Promoted(n, l) : nState' = [nState EXCEPT ![n] = k]
    BY <2>1
  <2>3. n \in Threads /\ k # TS_TERMINATED
    <3>1. l \in Ready /\ l \in QStates /\ q[l] # <<>>
      BY <2>1, StateNumbers DEF FirstLevel, SchedLevels
    <3>2. q[l] \in Seq(Threads)
      BY <3>1 DEF IInv, TypeOK
    <3>3. k \in Ready
      BY <2>2, <3>1, StateNumbers DEF Promoted
    <3>4. QED
      BY <3>1, <3>2, <3>3, HeadTailProperties, StateNumbers
  <2>4. \A u \in Threads :
          /\ nState'[u] = TS_TERMINATED => nState[u] = TS_TERMINATED
          /\ pc'[u] \in {"wait", "ret"} => pc[u] \in {"wait", "ret"}
    BY <2>1, <2>2, <2>3 DEF IInv, TypeOK, Places
  <2>5. UNCHANGED <<obj, arg, nWaitResult>> /\ ~ (pc[cur] = "close")
    BY <1>8 DEF Schedule, waitVars
  <2>6. QED
    BY <2>4, <2>5
<1>9. ASSUME NEW s \in Threads, NEW t \in Threads, Suspend(s, t) PROVE Calls'
  <2>1. ChangeState(t, TS_SUSPEND) /\ TS_SUSPEND \in QStates
    BY <1>9, StateNumbers DEF Suspend
  <2>2. QED
    BY <1>9, <2>1, StillThere DEF Suspend, Running, waitVars, IInv, TypeOK
<1>10. ASSUME NEW s \in Threads, NEW t \in Threads, Resume(s, t) PROVE Calls'
  <2>1. ChangeState(t, nPrev[t]) /\ nPrev[t] \in QStates
    BY <1>10, StateNumbers DEF Resume, WakeState, IInv, TypeOK
  <2>2. QED
    BY <1>10, <2>1, StillThere DEF Resume, waitVars, halfVars
<1>11. ASSUME NEW s \in Threads, NEW t \in Threads, NEW l \in StartLevels,
              CreateThread(s, t, l)
       PROVE  Calls'
  <2>1. ChangeState(t, l) /\ l \in QStates /\ obj[t] = NoEvent
    BY <1>11, StateNumbers DEF CreateThread, Running, IInv, WaitersSleep, SleepersAreLinked
  <2>2. QED
    BY <1>11, <2>1, StillThere DEF CreateThread, Running, waitVars, halfVars, IInv, TypeOK
<1>12. ASSUME NEW t \in Threads, Exit(t) PROVE Calls'
  <2>1. ChangeState(t, TS_WAIT) /\ TS_WAIT \in QStates
    BY <1>12, StateNumbers DEF Exit
  <2>2. QED
    BY <1>12, <2>1, StillThere DEF Exit, Running, waitVars, IInv, TypeOK
<1>13. ASSUME NEW s \in Threads, NEW t \in Threads, CloseMarks(s, t) PROVE Calls'
  <2>1. /\ nState' = [nState EXCEPT ![t] = TS_TERMINATED]
        /\ cur = s /\ pc[s] = "run" /\ cur' = cur
        /\ pc' = [pc EXCEPT ![s] = "close"]
        /\ victim' = t
        /\ UNCHANGED <<obj, arg, nWaitResult>>
    BY <1>13 DEF CloseMarks, ChangeState, Running, waitVars
  <2>2. QED
    BY <2>1 DEF IInv, TypeOK
<1>19. ASSUME NEW s \in Threads, CloseReleases(s) PROVE Calls'
  <2>1. PICK t \in Threads : t = victim
    BY <1>19 DEF CloseReleases, IInv, HalfDone
  <2>2. /\ cur = s /\ pc[s] = "close"
        /\ UNCHANGED <<cur, nState>>
        /\ obj' = [obj EXCEPT ![t] = NoEvent]
        /\ \A u \in Threads :
             IF u = t /\ nState[t] = TS_TERMINATED
               THEN pc'[u] = "run"
               ELSE /\ pc'[u] = IF u = s THEN "run" ELSE pc[u]
                    /\ arg'[u] = arg[u] /\ nWaitResult'[u] = nWaitResult[u]
    BY <1>19, <2>1 DEF CloseReleases, MayRelease, ReleaseWaitObj, UnlinkWaitObj,
                      NoActiveWaitObj, schVars, IInv, TypeOK
  <2>3. /\ obj[t] # NoEvent => nState[t] = TS_TERMINATED
        /\ \A u \in Threads : u # t => obj'[u] = obj[u]
        /\ obj'[t] = NoEvent
    BY <2>1, <2>2 DEF IInv, TypeOK, WaitersSleep
  <2>4. QED
    BY <2>1, <2>2, <2>3
<1>20. ASSUME NEW s \in Threads, NEW t \in Threads, NEW e \in KbdEvents,
              ShellFinds(s, t, e)
       PROVE  Calls'
  <2>1. cur = s /\ pc[s] = "run" /\ obj[s] = NoEvent
    BY <1>20, RunningIsAwake DEF ShellFinds
  <2>2. QED
    BY <1>20, <2>1 DEF ShellFinds, schVars, waitVars, IInv, TypeOK
<1>21. ASSUME NEW s \in Threads, ShellWakes(s) PROVE Calls'
  <2>1. /\ cur = s /\ pc[s] = "shell" /\ obj[s] = NoEvent /\ arg[s] \in Events
        /\ victim \in Threads /\ victim # s
    BY <1>21, SchedAssumption
       DEF ShellWakes, IInv, TypeOK, HalfDone, WaitersSleep, SchedAssumption
  <2>2. PICK t \in Threads : t = victim
    BY <2>1
  <2>3. /\ \A u \in Threads : obj'[u] = obj[u] \/ obj'[u] = NoEvent
        /\ ChangeState(t, nPrev[t]) /\ nPrev[t] \in QStates
        /\ arg' = [arg EXCEPT ![s] = NoEvent]
        /\ pc' = [pc EXCEPT ![s] = "run"]
        /\ UNCHANGED <<cur, nWaitResult>>
    BY <1>21, <2>2, StateNumbers
       DEF ShellWakes, UnlinkWaitObj, UnlinkFreed, WakeState, IInv, TypeOK
  <2>4. \A u \in Threads : nState'[u] = TS_TERMINATED => nState[u] = TS_TERMINATED
    BY <2>3, StillThere
  <2>5. QED
    BY <2>1, <2>3, <2>4 DEF IInv, TypeOK
<1>14. CASE \E t \in Threads, e \in Events :
              WaitEventOccurred(t, e) \/ ClearEventCount(t, e) \/ IncEventCountStores(e)
  BY <1>14 DEF WaitEventOccurred, ClearEventCount, IncEventCountStores, schVars, waitVars, halfVars
<1>15. ASSUME NEW t \in Threads, Yield(t) PROVE Calls'
  BY <1>15 DEF Yield, Running, schVars, waitVars, IInv, TypeOK
<1>16. ASSUME NEW e \in KeyEvents, NEW t \in Threads, AwakeWaitingThread(e, t)
       PROVE  Calls'
  BY <1>5, <1>16, SchedAssumption DEF AwakeWaitingThread, halfVars, SchedAssumption
<1>17. ASSUME NEW s \in Threads, NEW t \in Threads, SendSignal(s, t) PROVE Calls'
  BY <1>5, <1>17, SchedAssumption DEF SendSignal, halfVars, SchedAssumption
<1>18. QED
  BY <1>1, <1>2, <1>3, <1>4, <1>6, <1>7, <1>8, <1>9, <1>10, <1>11, <1>12, <1>13,
     <1>14, <1>15, <1>16, <1>17, <1>19, <1>20, <1>21, StateNumbers DEF Next

(* Both modules remove from a list in the same way.                        *)
LEMMA RemoveFirstSame ==
    ASSUME NEW s, NEW x
    PROVE  Tokens!RemoveFirst(s, x) = RemoveFirst(s, x) /\ Tokens!ToSet(s) = ToSet(s)
BY DEF RemoveFirst, RemoveAt, SelectInSeq, Min, ToSet,
       Tokens!RemoveFirst, Tokens!RemoveAt, Tokens!SelectInSeq, Tokens!Min, Tokens!ToSet

(* Token events are events, and their links are whole.                     *)
LEMMA TokenEventsAreWhole ==
    /\ TokenEvents \subseteq Events
    /\ NoEvent \notin TokenEvents
    /\ IInv => TokenEvents \cap torn = {}
BY SchedAssumption DEF SchedAssumption, TokenEvents, IInv, TypeOK

(* The initial states map to the initial state.                            *)
LEMMA InitTokens == Init => Tokens!TokInit
BY TokenEventsAreWhole DEF Init, Tokens!TokInit, Inside, Given

(* A step that changes neither links nor calls of token events does not    *)
(* show.                                                                   *)
LEMMA Unseen ==
    ASSUME \A e \in TokenEvents : nCount'[e] = nCount[e] /\ link'[e] = link[e],
           \A t \in Threads : Inside(t)' = Inside(t) /\ Given(t)' = Given(t)
    PROVE  UNCHANGED Tokens!tokVars
BY DEF Tokens!tokVars

(* A thread leaves its event without a token, awake but still inside.      *)
LEMMA WakeUpTokens ==
    ASSUME IInv, Calls, NEW t \in Threads, obj[t] # NoEvent, UnlinkWaitObj(t),
           NEW r \in {0, TIME_OUT},
           nWaitResult' = [nWaitResult EXCEPT ![t] = r],
           UNCHANGED <<nCount, arg, pc>>
    PROVE  [Tokens!TokNext]_(Tokens!tokVars)
<1>1. /\ obj[t] \in Events /\ link \in [Events -> Seq(Threads)]
      /\ link' = [link EXCEPT ![obj[t]] = RemoveFirst(@, t)]
  BY DEF UnlinkWaitObj, IInv, TypeOK
<1>2. \A u \in Threads : Inside(u)' = Inside(u)
  BY DEF Inside
<1>3. nWaitResult[t] = 0 /\ nWaitResult'[t] = r /\ r # EVENT_OCCURRED /\ 0 # EVENT_OCCURRED
  BY DEF Calls, IInv, TypeOK, TIME_OUT, EVENT_OCCURRED
<1>4. \A u \in Threads : Given(u)' = Given(u)
  BY <1>2, <1>3 DEF Given, IInv, TypeOK
<1>5. CASE obj[t] \in TokenEvents
  <2>1. t \in ToSet(link[obj[t]])
    BY <1>1, <1>5, TokenEventsAreWhole DEF IInv, LinksMatchObjects
  <2>e. PICK e \in TokenEvents : e = obj[t]
    BY <1>5
  <2>q. \A d \in TokenEvents :
          link'[d] = IF d = e THEN Tokens!RemoveFirst(link[d], t) ELSE link[d]
    BY <1>1, <2>e, RemoveFirstSame, TokenEventsAreWhole
  <2>u. t \in Tokens!ToSet(link[e])
    BY <2>1, <2>e, RemoveFirstSame
  <2>2. Tokens!GiveUp(t, e)
    BY <1>2, <1>4, <2>q, <2>u DEF Tokens!GiveUp
  <2>3. QED
    BY <2>2 DEF Tokens!TokNext
<1>6. CASE obj[t] \notin TokenEvents
  BY <1>1, <1>2, <1>4, <1>6, Unseen, TokenEventsAreWhole
<1>7. QED
  BY <1>5, <1>6

(* Every step is a step of EventTokens, or does not show there.            *)
LEMMA NextTokens ==
    IInv /\ Calls /\ [Next]_vars => [Tokens!TokNext]_(Tokens!tokVars)
<1> SUFFICES ASSUME IInv, Calls, [Next]_vars PROVE [Tokens!TokNext]_(Tokens!tokVars)
  OBVIOUS
<1>t. /\ TokenEvents \subseteq Events /\ NoEvent \notin TokenEvents
      /\ TokenEvents \cap torn = {}
  BY TokenEventsAreWhole
<1>1. CASE UNCHANGED vars
  BY <1>1, Unseen DEF vars, Inside, Given
<1>2. ASSUME NEW t \in Threads, NEW e \in Events, WaitEventOccurred(t, e)
      PROVE  [Tokens!TokNext]_(Tokens!tokVars)
  <2>1. /\ nCount[e] > 0 /\ nCount' = [nCount EXCEPT ![e] = @ - 1]
        /\ nCount \in [Events -> Nat]
        /\ UNCHANGED <<link, arg, pc, nWaitResult>>
        /\ \A u \in Threads : Inside(u)' = Inside(u) /\ Given(u)' = Given(u)
    BY <1>2 DEF WaitEventOccurred, IInv, TypeOK, Inside, Given
  <2>2. CASE e \in TokenEvents
    <3>1. Tokens!TakeAtOnce(e)
      BY <1>t, <2>1, <2>2 DEF Tokens!TakeAtOnce
    <3>2. QED
      BY <2>2, <3>1 DEF Tokens!TokNext
  <2>3. CASE e \notin TokenEvents
    BY <1>t, <2>1, <2>3, Unseen
  <2>4. QED
    BY <2>2, <2>3
<1>3. ASSUME NEW t \in Threads, NEW e \in Events, NEW to \in TimeOuts(e),
             WaitEventBlocks(t, e, to)
      PROVE  [Tokens!TokNext]_(Tokens!tokVars)
  <2>1. /\ nCount[e] = 0 /\ pc[t] = "run"
        /\ link' = [link EXCEPT ![e] = IF e \in torn THEN @ ELSE Append(@, t)]
        /\ link \in [Events -> Seq(Threads)]
        /\ nWaitResult' = [nWaitResult EXCEPT ![t] = 0]
        /\ arg' = [arg EXCEPT ![t] = e]
        /\ pc' = [pc EXCEPT ![t] = "wait"]
        /\ UNCHANGED nCount
    BY <1>3 DEF WaitEventBlocks, Running, IInv, TypeOK
  <2>2. Inside(t) = NoEvent /\ Given(t) = NoEvent
    BY <2>1 DEF Inside, Given
  <2>3. Inside(t)' = (IF e \in TokenEvents THEN e ELSE NoEvent) /\ Given(t)' = NoEvent
    BY <2>1 DEF Inside, Given, EVENT_OCCURRED, IInv, TypeOK
  <2>4. \A u \in Threads : u # t => Inside(u)' = Inside(u) /\ Given(u)' = Given(u)
    BY <2>1 DEF Inside, Given, IInv, TypeOK
  <2>5. CASE e \in TokenEvents
    <3>1. link' = [link EXCEPT ![e] = Append(@, t)]
      BY <1>t, <2>1, <2>5
    <3>2. Tokens!QueueUp(t, e)
      BY <1>t, <2>1, <2>2, <2>3, <2>4, <2>5, <3>1 DEF Tokens!QueueUp
    <3>3. QED
      BY <2>5, <3>2 DEF Tokens!TokNext
  <2>6. CASE e \notin TokenEvents
    BY <1>t, <2>1, <2>2, <2>3, <2>4, <2>6, Unseen
  <2>7. QED
    BY <2>5, <2>6
<1>4. ASSUME NEW t \in Threads, WaitEventReturns(t)
      PROVE  [Tokens!TokNext]_(Tokens!tokVars)
  <2>1. /\ pc[t] = "ret"
        /\ pc' = [pc EXCEPT ![t] = "run"]
        /\ arg' = [arg EXCEPT ![t] = NoEvent]
        /\ UNCHANGED <<nWaitResult, nCount, link>>
    BY <1>4 DEF WaitEventReturns, evVars
  <2>2. Inside(t)' = NoEvent /\ Given(t)' = NoEvent
    BY <2>1 DEF Inside, Given, IInv, TypeOK
  <2>3. \A u \in Threads : u # t => Inside(u)' = Inside(u) /\ Given(u)' = Given(u)
    BY <2>1 DEF Inside, Given, IInv, TypeOK
  <2>4. CASE arg[t] \in TokenEvents
    <3>1. Inside(t) = arg[t] /\ arg[t] # NoEvent /\ obj[t] = NoEvent
      BY <1>t, <2>1, <2>4 DEF Inside, IInv, WaitersSleep
    <3>2. t \notin ToSet(link[Inside(t)])
      BY <1>t, <2>4, <3>1 DEF IInv, LinksMatchObjects
    <3>3. Tokens!Return(t)
      BY <2>1, <2>2, <2>3, <2>4, <3>1, <3>2, RemoveFirstSame DEF Tokens!Return
    <3>4. QED
      BY <3>3 DEF Tokens!TokNext
  <2>5. CASE arg[t] \notin TokenEvents
    <3>1. Inside(t) = NoEvent /\ Given(t) = NoEvent
      BY <2>5 DEF Inside, Given
    <3>2. QED
      BY <2>1, <2>2, <2>3, <3>1, Unseen
  <2>6. QED
    BY <2>4, <2>5
<1>5. ASSUME NEW e \in TokenEvents, IncEventCountStores(e)
      PROVE  Tokens!Keep(e)
  BY <1>t, <1>5 DEF IncEventCountStores, StoresOccurrence, Tokens!Keep, Inside, Given,
                    IInv, TypeOK
<1>6. ASSUME NEW e \in TokenEvents, IncEventCountWakes(e)
      PROVE  Tokens!Give(e)
  <2>e. e \in Events
    BY <1>t
  <2>0. /\ link[e] # <<>> /\ Head(link[e]) \in Threads
    BY <1>6, <2>e, HeadWaits DEF IncEventCountWakes, StoresOccurrence
  <2>p. PICK t \in Threads : t = Head(link[e])
    BY <2>0
  <2>1. /\ link[e] # <<>> /\ link[e] \in Seq(Threads)
        /\ obj[t] = e /\ obj[t] # NoEvent /\ pc[t] = "wait"
    BY <1>6, <2>e, <2>0, <2>p, HeadWaits, SchedAssumption
       DEF IncEventCountWakes, StoresOccurrence, SchedAssumption, IInv, TypeOK, WaitersSleep
  <2>2. /\ link' = [link EXCEPT ![e] = RemoveFirst(@, t)]
        /\ nWaitResult' = [nWaitResult EXCEPT ![t] = EVENT_OCCURRED]
        /\ UNCHANGED <<nCount, arg, pc>>
    BY <1>6, <2>1, <2>p DEF IncEventCountWakes, UnlinkWaitObj
  <2>3. link' = [link EXCEPT ![e] = Tail(@)] /\ link \in [Events -> Seq(Threads)]
    BY <2>1, <2>2, <2>p, RemoveHead DEF IInv, TypeOK
  <2>4. \A u \in Threads : Inside(u)' = Inside(u)
    BY <2>2 DEF Inside
  <2>5. Given(t)' = e
    BY <2>1, <2>2 DEF Given, Inside, Calls, IInv, TypeOK
  <2>6. \A u \in Threads : u # t => Given(u)' = Given(u)
    BY <2>2, <2>4 DEF Given, IInv, TypeOK
  <2>7. QED
    BY <1>t, <2>1, <2>2, <2>3, <2>4, <2>5, <2>6, <2>p DEF Tokens!Give
<1>7. ASSUME NEW t \in Threads, NEW e \in Events, ClearEventCount(t, e)
      PROVE  [Tokens!TokNext]_(Tokens!tokVars)
  <2>1. /\ nCount' = [nCount EXCEPT ![e] = 0] /\ nCount \in [Events -> Nat]
        /\ link' = link
        /\ \A u \in Threads : Inside(u)' = Inside(u) /\ Given(u)' = Given(u)
    BY <1>7 DEF ClearEventCount, IInv, TypeOK, Inside, Given
  <2>2. CASE e \in TokenEvents
    <3>1. Tokens!Discard(e)
      BY <1>t, <2>1, <2>2 DEF Tokens!Discard
    <3>2. QED
      BY <2>2, <3>1 DEF Tokens!TokNext
  <2>3. CASE e \notin TokenEvents
    BY <1>t, <2>1, <2>3, Unseen
  <2>4. QED
    BY <2>2, <2>3
<1>8. ASSUME NEW t \in Threads, obj[t] # NoEvent, UnlinkWaitObj(t),
             UNCHANGED <<nWaitResult, nCount, arg, pc>>
      PROVE  [Tokens!TokNext]_(Tokens!tokVars)
  <2>1. nWaitResult' = [nWaitResult EXCEPT ![t] = 0]
    BY <1>8 DEF Calls, IInv, TypeOK
  <2>2. QED
    BY <1>8, <2>1, WakeUpTokens
<1>9. ASSUME NEW t \in Threads, TimeOutExpires(t)
      PROVE  [Tokens!TokNext]_(Tokens!tokVars)
  <2>1. /\ obj[t] # NoEvent
        /\ UnlinkWaitObj(t)
        /\ nWaitResult' = [nWaitResult EXCEPT ![t] = TIME_OUT]
        /\ UNCHANGED <<nCount, arg, pc>>
    BY <1>9 DEF TimeOutExpires, IInv, TimeOutsHaveWaiters
  <2>2. QED
    BY <2>1, WakeUpTokens
<1>10. ASSUME NEW s \in Threads, CloseReleases(s)
       PROVE  [Tokens!TokNext]_(Tokens!tokVars)
  <2>p. PICK t \in Threads : t = victim
    BY <1>10 DEF CloseReleases, IInv, HalfDone
  <2>0. /\ cur = s /\ pc[s] = "close" /\ s # t
        /\ pc' = [u \in Threads |-> IF u = s \/ (u = t /\ nState[t] = TS_TERMINATED)
                                     THEN "run" ELSE pc[u]]
        /\ \A u \in Threads :
             u # t \/ nState[t] # TS_TERMINATED =>
                 arg'[u] = arg[u] /\ nWaitResult'[u] = nWaitResult[u]
        /\ nCount' = nCount
    BY <1>10, <2>p DEF CloseReleases, MayRelease, IInv, HalfDone
  <2>3. \A u \in Threads : u # t => Inside(u)' = Inside(u) /\ Given(u)' = Given(u)
    BY <2>0 DEF Inside, Given, IInv, TypeOK
  <2>r. CASE nState[t] # TS_TERMINATED
    <3>1. obj[t] = NoEvent
      BY <2>p, <2>0, <2>r DEF IInv, WaitersSleep, Closing
    <3>2. UNCHANGED link
      BY <1>10, <2>p, <3>1 DEF CloseReleases, ReleaseWaitObj, NoActiveWaitObj
    <3>3. Inside(t)' = Inside(t) /\ Given(t)' = Given(t)
      BY <2>0, <2>r DEF Inside, Given, IInv, TypeOK
    <3>4. QED
      BY <2>0, <2>3, <3>2, <3>3, Unseen
  <2> SUFFICES ASSUME nState[t] = TS_TERMINATED
               PROVE  [Tokens!TokNext]_(Tokens!tokVars)
    BY <2>r
  <2>2. Inside(t)' = NoEvent /\ Given(t)' = NoEvent
    BY <2>0 DEF Inside, Given
  <2>4. CASE obj[t] \in TokenEvents
    <3>1. /\ link' = [link EXCEPT ![obj[t]] = RemoveFirst(@, t)]
          /\ t \in ToSet(link[obj[t]]) /\ link \in [Events -> Seq(Threads)]
      BY <1>10, <1>t, <2>p, <2>4
         DEF CloseReleases, ReleaseWaitObj, NoActiveWaitObj, UnlinkWaitObj,
             IInv, TypeOK, LinksMatchObjects
    <3>2. Given(t) = NoEvent
      BY <1>t, <2>4 DEF Given, Calls, EVENT_OCCURRED
    <3>e. PICK e \in TokenEvents : e = obj[t]
      BY <2>4
    <3>q. \A d \in TokenEvents :
            link'[d] = IF d = e THEN Tokens!RemoveFirst(link[d], t) ELSE link[d]
      BY <1>t, <3>1, <3>e, RemoveFirstSame
    <3>u. t \in Tokens!ToSet(link[e])
      BY <3>1, <3>e, RemoveFirstSame
    <3>g. \A u \in Threads :
            /\ Inside(u)' = IF u = t THEN NoEvent ELSE Inside(u)
            /\ Given(u)' = Given(u)
      BY <2>2, <2>3, <3>2
    <3>c. nCount' = nCount
      BY <2>0
    <3>3. Tokens!Die(t, e)
      BY <3>c, <3>q, <3>u, <3>g DEF Tokens!Die
    <3>4. QED
      BY <3>3 DEF Tokens!TokNext
  <2>6. CASE obj[t] # NoEvent /\ obj[t] \notin TokenEvents
    <3>1. \A e \in TokenEvents : link'[e] = link[e]
      BY <1>10, <1>t, <2>p, <2>6
         DEF CloseReleases, ReleaseWaitObj, NoActiveWaitObj, UnlinkWaitObj, IInv, TypeOK
    <3>2. Inside(t) = NoEvent /\ Given(t) = NoEvent
      BY <2>6 DEF Inside, Given, Calls
    <3>3. QED
      BY <2>0, <2>2, <2>3, <3>1, <3>2, Unseen
  <2>5. CASE obj[t] = NoEvent
    <3>1. UNCHANGED link
      BY <1>10, <2>p, <2>5 DEF CloseReleases, ReleaseWaitObj, NoActiveWaitObj
    <3>2. CASE Inside(t) # NoEvent
      <4>1. Inside(t) \in TokenEvents /\ t \notin ToSet(link[Inside(t)])
        BY <1>t, <2>5, <3>2 DEF Inside, IInv, LinksMatchObjects
      <4>2. Tokens!Return(t)
        BY <2>0, <2>2, <2>3, <3>1, <3>2, <4>1, RemoveFirstSame DEF Tokens!Return
      <4>3. QED
        BY <4>2 DEF Tokens!TokNext
    <3>3. CASE Inside(t) = NoEvent
      <4>1. Given(t) = NoEvent
        BY <3>3 DEF Given
      <4>2. QED
        BY <2>0, <2>2, <2>3, <3>1, <3>3, <4>1, Unseen
    <3>4. QED
      BY <3>2, <3>3
  <2>7. QED
    BY <2>4, <2>5, <2>6
<1>11. ASSUME NEW s \in Threads, NEW t \in Threads, NEW l \in StartLevels,
              CreateThread(s, t, l)
       PROVE  UNCHANGED Tokens!tokVars
  <2>1. /\ pc[t] \notin {"wait", "ret"}
        /\ pc' = [pc EXCEPT ![t] = "run"]
        /\ arg' = [arg EXCEPT ![t] = NoEvent]
        /\ nWaitResult' = [nWaitResult EXCEPT ![t] = 0]
        /\ UNCHANGED <<nCount, link>>
    BY <1>11 DEF CreateThread, Running, evVars, Calls, Closing
  <2>2. \A u \in Threads : Inside(u)' = Inside(u)
    BY <2>1 DEF Inside, IInv, TypeOK
  <2>3. \A u \in Threads : Given(u)' = Given(u)
    BY <2>1, <2>2 DEF Given, Inside, IInv, TypeOK
  <2>4. QED
    BY <2>1, <2>2, <2>3, Unseen
<1>12. CASE Schedule
  <2>1. /\ UNCHANGED <<nWaitResult, nCount, link, arg>>
        /\ \A u \in Threads : pc'[u] \in {"wait", "ret"} <=> pc[u] \in {"wait", "ret"}
    BY <1>12 DEF Schedule, evVars, IInv, TypeOK, Places
  <2>2. \A u \in Threads : Inside(u)' = Inside(u)
    BY <2>1 DEF Inside
  <2>3. QED
    BY <2>1, <2>2, Unseen DEF Given
<1>13. ASSUME NEW t \in Threads,
              Yield(t) \/ Exit(t) \/ \E u \in Threads : Suspend(t, u) \/ CloseMarks(t, u)
       PROVE  UNCHANGED Tokens!tokVars
  <2>1. /\ UNCHANGED <<nWaitResult, nCount, link, arg>>
        /\ \A u \in Threads : pc'[u] \in {"wait", "ret"} <=> pc[u] \in {"wait", "ret"}
    BY <1>13 DEF Yield, Exit, Suspend, CloseMarks, Running, evVars, IInv, TypeOK, Places
  <2>2. \A u \in Threads : Inside(u)' = Inside(u)
    BY <2>1 DEF Inside
  <2>3. QED
    BY <2>1, <2>2, Unseen DEF Given
<1>14. CASE Tick \/ \E s, t \in Threads : Resume(s, t)
  <2>1. UNCHANGED <<nWaitResult, nCount, link, arg, pc>>
    BY <1>14 DEF Tick, Resume, evVars
  <2>2. QED
    BY <2>1, Unseen DEF Inside, Given
<1>15. ASSUME NEW e \in KeyEvents, NEW t \in Threads, AwakeWaitingThread(e, t)
       PROVE  [Tokens!TokNext]_(Tokens!tokVars)
  BY <1>8, <1>15, SchedAssumption DEF AwakeWaitingThread, SchedAssumption
<1>16. ASSUME NEW s \in Threads, NEW t \in Threads, SendSignal(s, t)
       PROVE  [Tokens!TokNext]_(Tokens!tokVars)
  BY <1>8, <1>16, SchedAssumption DEF SendSignal, SchedAssumption
<1>17. ASSUME NEW s \in Threads, NEW t \in Threads, NEW e \in KbdEvents,
              ShellFinds(s, t, e)
       PROVE  UNCHANGED Tokens!tokVars
  <2>1. /\ pc[s] = "run" /\ pc' = [pc EXCEPT ![s] = "shell"]
        /\ arg' = [arg EXCEPT ![s] = e]
        /\ UNCHANGED <<nWaitResult, nCount, link>>
    BY <1>17 DEF ShellFinds, Running, evVars
  <2>2. \A u \in Threads : Inside(u)' = Inside(u)
    BY <2>1 DEF Inside, IInv, TypeOK
  <2>3. QED
    BY <2>1, <2>2, Unseen DEF Given
<1>18. ASSUME NEW s \in Threads, ShellWakes(s)
       PROVE  UNCHANGED Tokens!tokVars
  <2>1. /\ pc[s] = "shell" /\ pc' = [pc EXCEPT ![s] = "run"]
        /\ arg' = [arg EXCEPT ![s] = NoEvent]
        /\ UNCHANGED <<nWaitResult, nCount>>
        /\ arg[s] \notin TokenEvents
    BY <1>18 DEF ShellWakes, IInv, HalfDone, TokenEvents
  <2>2. \A e \in TokenEvents : link'[e] = link[e]
    BY <1>18, <1>t, <2>1 DEF ShellWakes, UnlinkWaitObj, UnlinkFreed, IInv, TypeOK
  <2>3. \A u \in Threads : Inside(u)' = Inside(u)
    BY <2>1 DEF Inside, IInv, TypeOK
  <2>4. QED
    BY <2>1, <2>2, <2>3, Unseen DEF Given
<1>20. Events \ (KeyEvents \cup SignalEvents) \subseteq TokenEvents
  BY SchedAssumption DEF SchedAssumption, TokenEvents
<1>21. QED
  BY <1>1, <1>2, <1>3, <1>4, <1>5, <1>6, <1>7, <1>9, <1>10, <1>11, <1>12, <1>13, <1>14,
     <1>15, <1>16, <1>17, <1>18, <1>20 DEF Next, Tokens!TokNext

(* Events implement tokens, for any number of threads and events and any   *)
(* timeouts: no occurrence is invented, given twice or out of turn, or     *)
(* taken back from the thread that has it.                                 *)
THEOREM SpecTokens == Spec => TokensRefined
<1>1. Init => IInv /\ Calls /\ Tokens!TokInit
  BY InitIInv, InitCalls, InitTokens
<1>2. IInv /\ Calls /\ [Next]_vars => IInv' /\ Calls'
  BY NextIInv, NextCalls
<1>3. IInv /\ Calls /\ [Next]_vars => [Tokens!TokNext]_(Tokens!tokVars)
  BY NextTokens
<1>4. QED
  BY <1>1, <1>2, <1>3, PTL DEF Spec, TokensRefined, Tokens!TokSpec

=============================================================================
