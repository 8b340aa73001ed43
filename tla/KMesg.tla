-------------------------------- MODULE KMesg --------------------------------
(***************************************************************************)
(* Threads that send each other kernel messages and wait for them          *)
(* (kernel/kmesg.c).                                                       *)
(*                                                                         *)
(* The callers are kernel code, which keeps the processor until it sleeps, *)
(* and no interrupt handler sends messages: ksend_kmesg is one action and  *)
(* so is kwait_kmesg up to the point where it returns or sleeps.           *)
(***************************************************************************)
EXTENDS KMesgQ

CONSTANTS
    Threads,
    Types        \* message types

ASSUME TypesAssumption ==
    /\ KMESG_ANY \notin Types
    /\ \A m \in Mesgs : m.wType \in Types

VARIABLES
    kmesgq,
    pc,          \* "run", "wait" in wait_for_kmesg, "loop" woken there, or
                 \* "event" in wait_event
    wWaitType,   \* of the thread's wait object, which is kept when it is free
    want         \* the type kwait_kmesg was called with

vars == <<kmesgq, pc, wWaitType, want>>

(* get_thread_empty_wait_obj has not been called for the thread yet. *)
NoWaitObj == "none"

Init ==
    /\ kmesgq = [t \in Threads |-> NewKMesgQ]
    /\ pc = [t \in Threads |-> "run"]
    /\ wWaitType = [t \in Threads |-> NoWaitObj]
    /\ want = [t \in Threads |-> KMESG_ANY]

(* ksend_kmesg wakes a thread in TS_WAIT whose wait object is of type      *)
(* WAIT_TYPE_KMESG.                                                        *)
Wakes(t) == pc[t] \in {"wait", "event"} /\ wWaitType[t] = "kmesg"

(* ksend_kmesg fails when the queue counts MAX_KMESG messages. *)
HasRoom(kq) == kq.wTotalMesg < MAX_KMESG

(* ksend_kmesg. *)
SendKMesg(s, t, m) ==
    /\ pc[s] = "run"
    /\ HasRoom(kmesgq[t])
    /\ kmesgq' = [kmesgq EXCEPT ![t] = PutKMesg(@, m)]
    /\ pc' = IF Wakes(t) THEN [pc EXCEPT ![t] = "loop"] ELSE pc
    /\ UNCHANGED <<wWaitType, want>>

(* A thread calls kwait_kmesg, or goes on in its loop. *)
Asks(t, wType) == pc[t] = "run" \/ (pc[t] = "loop" /\ want[t] = wType)

(* kwait_kmesg finds a message and returns with it. *)
TakeMessage(t, wType) ==
    /\ Asks(t, wType)
    /\ HasKMesg(kmesgq[t], wType)
    /\ kmesgq' = [kmesgq EXCEPT ![t] = TakeKMesg(@, FindKMesg(@, wType))]
    /\ pc' = [pc EXCEPT ![t] = "run"]
    /\ want' = [want EXCEPT ![t] = KMESG_ANY]
    /\ UNCHANGED wWaitType

(* Mutant of MustSleep: a woken thread goes back to sleep unconditionally. *)
MustSleepAgain(t, wType) == pc[t] = "loop" \/ ~ HasKMesg(kmesgq[t], wType)

(* kwait_kmesg's find_kmesg failed. *)
MustSleep(t, wType) == ~ HasKMesg(kmesgq[t], wType)

(* wait_for_kmesg. *)
WaitForKMesg(t, wType) ==
    /\ Asks(t, wType)
    /\ MustSleep(t, wType)
    /\ pc' = [pc EXCEPT ![t] = "wait"]
    /\ want' = [want EXCEPT ![t] = wType]
    /\ wWaitType' = [wWaitType EXCEPT ![t] = "kmesg"]
    /\ UNCHANGED kmesgq

(* The thread sleeps in wait_event, with the same wait object, ... *)
WaitEvent(t) ==
    /\ pc[t] = "run"
    /\ pc' = [pc EXCEPT ![t] = "event"]
    /\ wWaitType' = [wWaitType EXCEPT ![t] = "event"]
    /\ UNCHANGED <<kmesgq, want>>

(* ... until the event occurs. *)
EventOccurs(t) ==
    /\ pc[t] = "event"
    /\ pc' = [pc EXCEPT ![t] = "run"]
    /\ UNCHANGED <<kmesgq, wWaitType, want>>

Next ==
    \/ \E s, t \in Threads, m \in Mesgs : SendKMesg(s, t, m)
    \/ \E t \in Threads, w \in Types \cup {KMESG_ANY} :
         TakeMessage(t, w) \/ WaitForKMesg(t, w)
    \/ \E t \in Threads : WaitEvent(t) \/ EventOccurs(t)

Spec == Init /\ [][Next]_vars

-----------------------------------------------------------------------------
(* Properties.                                                             *)

(* Every variable has its type: wTotalMesg stays within its 16 bits and    *)
(* the indexes within the ring.                                            *)
TypeOK ==
    /\ kmesgq \in [Threads -> KMesgQStt]
    /\ pc \in [Threads -> {"run", "wait", "loop", "event"}]
    /\ wWaitType \in [Threads -> {NoWaitObj, "kmesg", "event"}]
    /\ want \in [Threads -> Types \cup {KMESG_ANY}]

(* wTotalMesg never falls below the number of messages, whatever was sent  *)
(* and taken in which order.  The scan of ksend_kmesg ends for this reason *)
(* only: below MAX_KMESG it finds a free slot, if not wEnd.                *)
CountCoversMessages ==
    \A t \in Threads : Cardinality(Unread(kmesgq[t])) <= kmesgq[t].wTotalMesg

(* No lost wake-up: a thread does not sleep in kwait_kmesg while a message *)
(* it asks for is in its queue.                                            *)
SleeperHasNoMessage ==
    \A t \in Threads : pc[t] = "wait" => ~ HasKMesg(kmesgq[t], want[t])

(* A message does not wake a thread that sleeps for something else: the    *)
(* wait object it shares between both kinds of waiting has the right type. *)
EventSleeperIsLeftAlone ==
    [][\A t \in Threads :
         pc[t] = "event" /\ pc'[t] # "event" => UNCHANGED kmesgq]_vars

(* What the code means to do and does not (README, section 6): a message   *)
(* goes to a free slot between wStart and wEnd or is added at the end      *)
(* (kmesg.c:68, 81), so one that was not taken is not overwritten.         *)
UnreadIsKept ==
    [][\A t \in Threads : \A i \in Unread(kmesgq[t]) :
         kmesgq'[t].ent[i] \in {kmesgq[t].ent[i], NoMesg}]_vars

=============================================================================
