--------------------------------- MODULE KSem ---------------------------------
(***************************************************************************)
(* Named counting semaphores (kernel/semaph.c, system calls of             *)
(* kernel/ksyscall.c).                                                     *)
(*                                                                         *)
(* A system call runs to its end or to its wait_event without another      *)
(* thread getting the processor, so each call is one action, and the       *)
(* return of a thread that slept is another.  A semaphore is known by the  *)
(* address ksem_create or ksem_open returned, which all threads of a       *)
(* process share.                                                          *)
(***************************************************************************)
EXTENDS KEvent, FiniteSets

CONSTANTS
    Threads,
    Processes,
    ProcOf,       \* the process of a thread
    Sems,         \* semaphore structures
    Names,        \* semaphore names
    NoName,       \* name of a structure that is not allocated
    NoSem,        \* a thread waits for no semaphore
    InitValues,   \* values semaphores are created with
    MinValue,     \* bound: ksem_wait is not called at this value
    MaxValue,     \* bound: ksem_post is not called at this value
    MaxRef        \* bound: ksem_open is not called at this many references

ASSUME SemAssumption ==
    /\ ProcOf \in [Threads -> Processes]
    /\ NoName \notin Names
    /\ NoSem \notin Sems
    /\ InitValues \subseteq Int
    /\ MinValue \in Int
    /\ MaxValue \in Int
    /\ MaxRef \in Nat

(* Values of nWaitResult. *)
SEMAPHORE_ERROR == -2
EVENT_OCCURRED  == 1

VARIABLES
    szName,        \* NoName if the structure is free
    nValue,
    nRefCounter,
    e,             \* the event of the semaphore
    open,          \* calls of create and open a process has not closed yet
    pc,            \* "run", "wait" in wait_event, "ret" woken, or "dead"
    on,            \* the semaphore a thread waits for
    nWaitResult

semVars    == <<szName, nValue, nRefCounter, e>>
threadVars == <<pc, on, nWaitResult>>
vars == <<szName, nValue, nRefCounter, e, open, pc, on, nWaitResult>>

Allocated(s) == szName[s] # NoName

(* find_semaphore_by_name. *)
Named(nm) == {s \in Sems : szName[s] = nm}

(* A thread that may call, on a semaphore its process has open. *)
MayUse(t, s) == pc[t] = "run" /\ open[ProcOf[t]][s] > 0

-----------------------------------------------------------------------------
Init ==
    /\ szName = [s \in Sems |-> NoName]
    /\ nValue = [s \in Sems |-> 0]
    /\ nRefCounter = [s \in Sems |-> 0]
    /\ e = [s \in Sems |-> NewEvent]
    /\ open = [p \in Processes |-> [s \in Sems |-> 0]]
    /\ pc = [t \in Threads |-> "run"]
    /\ on = [t \in Threads |-> NoSem]
    /\ nWaitResult = [t \in Threads |-> 0]

(* ksem_create: fails when the name exists. *)
Create(t, s, nm, v) ==
    /\ pc[t] = "run"
    /\ ~ Allocated(s)
    /\ Named(nm) = {}
    /\ szName' = [szName EXCEPT ![s] = nm]
    /\ nValue' = [nValue EXCEPT ![s] = v]
    /\ nRefCounter' = [nRefCounter EXCEPT ![s] = 1]
    /\ e' = [e EXCEPT ![s] = NewEvent]
    /\ open' = [open EXCEPT ![ProcOf[t]][s] = @ + 1]
    /\ UNCHANGED threadVars

(* Mutant of RefOnOpen: ksem_open does not count the new reference. *)
RefOnOpenNot(s) == nRefCounter[s]

(* The reference counter after ksem_open. *)
RefOnOpen(s) == nRefCounter[s] + 1

(* ksem_open. *)
Open(t, nm) ==
    /\ pc[t] = "run"
    /\ \E s \in Named(nm) :
         /\ nRefCounter[s] < MaxRef
         /\ nRefCounter' = [nRefCounter EXCEPT ![s] = RefOnOpen(s)]
         /\ open' = [open EXCEPT ![ProcOf[t]][s] = @ + 1]
    /\ UNCHANGED <<szName, nValue, e, threadVars>>

(* ksem_close while others still refer to the semaphore. *)
CloseReference(t, s) ==
    /\ MayUse(t, s)
    /\ nRefCounter[s] > 1
    /\ nRefCounter' = [nRefCounter EXCEPT ![s] = @ - 1]
    /\ open' = [open EXCEPT ![ProcOf[t]][s] = @ - 1]
    /\ UNCHANGED <<szName, nValue, e, threadVars>>

(* Mutant of WokenByClose: close_event lets the last waiter sleep. *)
WokenByCloseButLast(s) ==
    {e[s].link[i] : i \in 1..(Len(e[s].link) - 1)}

(* The threads close_event wakes: all that are linked. *)
WokenByClose(s) == ToSet(e[s].link)

(* ksem_close of the last reference: close_event wakes every waiter with   *)
(* an error, and the structure is freed.                                   *)
CloseLast(t, s) ==
    /\ MayUse(t, s)
    /\ nRefCounter[s] <= 1
    /\ szName' = [szName EXCEPT ![s] = NoName]
    /\ nValue' = [nValue EXCEPT ![s] = 0]
    /\ nRefCounter' = [nRefCounter EXCEPT ![s] = 0]
    /\ e' = [e EXCEPT ![s] = NewEvent]
    /\ open' = [open EXCEPT ![ProcOf[t]][s] = @ - 1]
    /\ pc' = [u \in Threads |-> IF u \in WokenByClose(s) THEN "ret" ELSE pc[u]]
    /\ nWaitResult' = [u \in Threads |->
                         IF u \in WokenByClose(s) THEN SEMAPHORE_ERROR
                         ELSE nWaitResult[u]]
    /\ UNCHANGED on

-----------------------------------------------------------------------------
(* Mutant of MustWait: one permit too few is given out. *)
MustWaitEarly(v) == v <= 0

(* ksem_wait's test of the decremented value. *)
MustWait(v) == v < 0

(* ksem_wait that gets a permit without sleeping, from the value or from   *)
(* an occurrence stored in the event.                                      *)
WaitPasses(t, s) ==
    /\ MayUse(t, s)
    /\ nValue[s] > MinValue
    /\ nValue' = [nValue EXCEPT ![s] = @ - 1]
    /\ \/ ~ MustWait(nValue[s] - 1) /\ UNCHANGED e
       \/ /\ MustWait(nValue[s] - 1)
          /\ Occurred(e[s])
          /\ e' = [e EXCEPT ![s] = TakeOccurrence(@)]
    /\ UNCHANGED <<szName, nRefCounter, open, threadVars>>

(* ksem_wait that sleeps in wait_event. *)
WaitBlocks(t, s) ==
    /\ MayUse(t, s)
    /\ nValue[s] > MinValue
    /\ MustWait(nValue[s] - 1)
    /\ ~ Occurred(e[s])
    /\ nValue' = [nValue EXCEPT ![s] = @ - 1]
    /\ e' = [e EXCEPT ![s] = LinkWaiter(@, t)]
    /\ pc' = [pc EXCEPT ![t] = "wait"]
    /\ on' = [on EXCEPT ![t] = s]
    /\ nWaitResult' = [nWaitResult EXCEPT ![t] = 0]
    /\ UNCHANGED <<szName, nRefCounter, open>>

(* The end of ksem_wait after wait_event: it returns 1 whatever the result *)
(* was.                                                                    *)
WaitReturns(t) ==
    /\ pc[t] = "ret"
    /\ pc' = [pc EXCEPT ![t] = "run"]
    /\ on' = [on EXCEPT ![t] = NoSem]
    /\ UNCHANGED <<semVars, open, nWaitResult>>

(* Mutant of MustWake: the last waiter is forgotten. *)
MustWakeNegative(v) == v < 0

(* ksem_post's test of the incremented value. *)
MustWake(v) == v <= 0

(* ksem_post. *)
Post(t, s) ==
    /\ MayUse(t, s)
    /\ nValue[s] < MaxValue
    /\ nValue' = [nValue EXCEPT ![s] = @ + 1]
    /\ IF MustWake(nValue[s] + 1)
         THEN /\ e' = [e EXCEPT ![s] = IncEvent(@)]
              /\ pc' = [u \in Threads |-> IF u \in Woken(e[s]) THEN "ret" ELSE pc[u]]
              /\ nWaitResult' = [u \in Threads |->
                                   IF u \in Woken(e[s]) THEN EVENT_OCCURRED
                                   ELSE nWaitResult[u]]
         ELSE UNCHANGED <<e, pc, nWaitResult>>
    /\ UNCHANGED <<szName, nRefCounter, open, on>>

(* A thread is killed: its wait object leaves the event.  The value of the *)
(* semaphore is not restored, nor are its process's references dropped.    *)
Kill(t) ==
    /\ pc[t] # "dead"
    /\ pc' = [pc EXCEPT ![t] = "dead"]
    /\ on' = [on EXCEPT ![t] = NoSem]
    /\ e' = [s \in Sems |-> IF on[t] = s THEN DropWaiter(e[s], t) ELSE e[s]]
    /\ UNCHANGED <<szName, nValue, nRefCounter, open, nWaitResult>>

(* A new thread, in its process if that still has a thread, else in a new  *)
(* one that has nothing open: what the old process had open stays counted. *)
Start(t) ==
    /\ pc[t] = "dead"
    /\ pc' = [pc EXCEPT ![t] = "run"]
    /\ IF \A u \in Threads : ProcOf[u] = ProcOf[t] => pc[u] = "dead"
         THEN open' = [open EXCEPT ![ProcOf[t]] = [s \in Sems |-> 0]]
         ELSE UNCHANGED open
    /\ UNCHANGED <<semVars, on, nWaitResult>>

-----------------------------------------------------------------------------
Next ==
    \/ \E t \in Threads, s \in Sems, nm \in Names, v \in InitValues : Create(t, s, nm, v)
    \/ \E t \in Threads, nm \in Names : Open(t, nm)
    \/ \E t \in Threads, s \in Sems : CloseReference(t, s)
    \/ \E t \in Threads, s \in Sems : CloseLast(t, s)
    \/ \E t \in Threads, s \in Sems : WaitPasses(t, s)
    \/ \E t \in Threads, s \in Sems : WaitBlocks(t, s)
    \/ \E t \in Threads : WaitReturns(t)
    \/ \E t \in Threads, s \in Sems : Post(t, s)
    \/ \E t \in Threads : Kill(t)
    \/ \E t \in Threads : Start(t)

Spec == Init /\ [][Next]_vars

-----------------------------------------------------------------------------
(* Properties.                                                             *)

(* Every variable has its type. *)
TypeOK ==
    /\ szName \in [Sems -> Names \cup {NoName}]
    /\ nValue \in [Sems -> Int]
    /\ nRefCounter \in [Sems -> Nat]
    /\ e \in [Sems -> EventStt(Threads)]
    /\ open \in [Processes -> [Sems -> Nat]]
    /\ pc \in [Threads -> {"run", "wait", "ret", "dead"}]
    /\ on \in [Threads -> Sems \cup {NoSem}]
    /\ nWaitResult \in [Threads -> {0, EVENT_OCCURRED, SEMAPHORE_ERROR}]

(* While threads sleep on a semaphore no permit is left anywhere: none is  *)
(* stored in the event, and the value counts every sleeper as owed one, so *)
(* the next posts reach them (ksem_wait, ksem_post).  Killed waiters leave *)
(* the value lower than the number of sleepers explains.                   *)
NoSleeperWithPermit ==
    \A s \in Sems :
        e[s].link # <<>> => Len(e[s].link) <= -nValue[s] /\ e[s].nCount = 0

(* A thread sleeps in ksem_wait exactly while it is linked once in the     *)
(* event of an allocated semaphore: closing leaves nobody asleep behind    *)
(* (ksem_close, close_event).                                              *)
SleepersAreLinked ==
    \A t \in Threads :
        pc[t] = "wait" <=> \E s \in Sems : /\ Allocated(s)
                                           /\ on[t] = s
                                           /\ t \in ToSet(e[s].link)

(* No process holds a reference to a freed structure: the reference        *)
(* counter covers everything create and open returned (ksem_close).        *)
OpenSemaphoresLive ==
    \A p \in Processes, s \in Sems : open[p][s] > 0 => Allocated(s)

(* The permits of a semaphore no thread has taken. *)
Permits(s) == e[s].nCount + (IF nValue[s] > 0 THEN nValue[s] ELSE 0)

(* Semaphores implement first-come-first-served permits. *)
Abs == INSTANCE AbstractSemaphore WITH
    permits <- [s \in Sems |-> Permits(s)],
    queue   <- [s \in Sems |-> e[s].link]

(* No permit is lost or invented and no waiting thread is overtaken, with  *)
(* threads killed and semaphores closed at any time.                       *)
SemaphoreRefined == Abs!AbsSpec

=============================================================================
