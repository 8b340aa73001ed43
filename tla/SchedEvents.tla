----------------------------- MODULE SchedEvents -----------------------------
(***************************************************************************)
(* The scheduler queues, events, wait objects and timeouts of the kernel   *)
(* (kernel/schedule.c, kernel/event.c and the thread-state operations of   *)
(* kernel/kprocess.c).                                                     *)
(*                                                                         *)
(* The kernel is not preemptive: another thread gets the processor only    *)
(* inside kernel_scheduler.  Interrupt handlers run at any other point, so *)
(* one action is one region the code runs with interrupts disabled, or one *)
(* that no interrupt handler can disturb.  Two operations are neither, and *)
(* are two actions each: closing a thread, and waking the reader of a key  *)
(* that came over the serial line.                                         *)
(***************************************************************************)
EXTENDS Integers, FiniteSets, SequencesExt

CONSTANTS
    Threads,             (* thread structures the system can hold            *)
    Boot,                (* the thread that runs first                       *)
    Events,              (* event structures                                 *)
    NoEvent,             (* a NULL EventStt pointer                          *)
    NoThread,            (* a NULL ThreadStt pointer                         *)
    KeyEvents,           (* kbd_event and com?_event                         *)
    KbdEvents,           (* kbd_event: keys of the keyboard, and those the   *)
                         (* remote shell reads from the serial line          *)
    SignalEvents,        (* signal_event; one event may stand for a key's    *)
                         (* and a signal's, and then behaves as either       *)
    TS_READY_HIGHEST,    (* the best level a thread can be promoted to       *)
    TS_READY_LOWEST,     (* the worst level a thread can be demoted to       *)
    TS_READY_LAZY,       (* the last ready level                             *)
    StartLevels,         (* levels kcreate_thread is called with             *)
    MaxCount,            (* bound: occurrences an event stores               *)
    MaxTimeOut           (* bound: ticks a wait may be given                 *)

ASSUME SchedAssumption ==
    /\ Boot \in Threads
    /\ NoEvent \notin Events
    /\ NoThread \notin Threads
    /\ KeyEvents \subseteq Events
    /\ KbdEvents \subseteq KeyEvents
    /\ SignalEvents \subseteq Events
    /\ TS_READY_HIGHEST \in Nat
    /\ TS_READY_LOWEST \in Nat
    /\ TS_READY_LAZY \in Nat
    /\ 0 < TS_READY_HIGHEST
    /\ TS_READY_HIGHEST <= TS_READY_LOWEST
    /\ TS_READY_LOWEST < TS_READY_LAZY
    /\ StartLevels \subseteq 0..TS_READY_LAZY
    /\ StartLevels # {}
    /\ MaxCount \in Nat
    /\ MaxTimeOut \in Nat

-----------------------------------------------------------------------------
(* Thread states.  The states below MAX_SCH_Q have a queue of their own.   *)

TS_WAIT       == TS_READY_LAZY + 1
TS_SUSPEND    == TS_READY_LAZY + 2
TS_TERMINATED == TS_READY_LAZY + 3
MAX_SCH_Q     == TS_SUSPEND + 1

Ready  == 0..TS_READY_LAZY
QStates == 0..(MAX_SCH_Q - 1)

(* Values of nWaitResult. *)
TIME_OUT       == -1
EVENT_OCCURRED == 1

(* Where a thread is: in its own code, inside kernel_scheduler called from *)
(* wait_event, back in wait_event after the switch, inside a               *)
(* kernel_scheduler it called itself, gone to sleep to be killed, between  *)
(* the two halves of closing a thread, or of waking one as the shell.      *)
Places == {"run", "wait", "ret", "sched", "exit", "close", "shell"}

VARIABLES
    cur,          \* sch.pCurrentThread
    q,            \* sch.q[]: the threads of each state, in queue order
    nState,       \* ThreadStt.nState
    nPrev,        \* ThreadStt.nPrevThreadState
    nWaitResult,  \* ThreadStt.nWaitResult
    nCount,       \* EventStt.nCount
    link,         \* EventStt.pStartELink .. pEndELink: waiting threads
    obj,          \* WaitObjStt.pE of the thread's wait object, NoEvent if free
    left,         \* ticks until its timeout expires, 0 without timeout
    expiring,     \* timeouts check_waitobj_timeout has still to handle
    arg,          \* the event wait_event was called with
    pc,           \* place of the thread
    victim,       \* the thread that the one at "close" or "shell" works on
    torn          \* events whose link has lost waiters (see ShellWakes)

schVars  == <<q, nState>>
evVars   == <<nCount, link>>
waitVars == <<obj, left>>
vars == <<cur, q, nState, nPrev, nWaitResult, nCount, link, obj, left,
          expiring, arg, pc, victim, torn>>
halfVars == <<victim, torn>>

-----------------------------------------------------------------------------
(* Helpers.                                                                *)

(* is_no_active_wait_obj: the thread's wait object is free. *)
NoActiveWaitObj(t) == obj[t] = NoEvent

(* Mutant of LeaveQueue: the thread stays linked in its old queue. *)
LeaveQueueLinked(s, t) == s

(* nPopThread: the thread leaves the queue it is linked in. *)
LeaveQueue(s, t) == RemoveFirst(s, t)

(* change_thread_state: out of the old queue, to the end of the new one. *)
ChangeState(t, s) ==
    /\ q' = [l \in QStates |->
               LET rest == IF l = nState[t] THEN LeaveQueue(q[l], t) ELSE q[l]
               IN  IF l = s THEN Append(rest, t) ELSE rest]
    /\ nState' = [nState EXCEPT ![t] = s]

(* Mutant of WakeState: the current state is taken for the saved one. *)
WakeStateNow(t) == nState[t]

(* The state a thread is woken into. *)
WakeState(t) == nPrev[t]

(* Mutant of UnlinkWaitObj: the object is neither unlinked nor freed. *)
UnlinkWaitObjNot(t) == UNCHANGED <<link, obj>>

(* unlink_waitobj_from_event followed by set_wait_obj_free. *)
UnlinkWaitObj(t) ==
    /\ link' = [link EXCEPT ![obj[t]] = RemoveFirst(@, t)]
    /\ obj'  = [obj EXCEPT ![t] = NoEvent]

(* The thread executes its own code in the kernel: no other thread can run *)
(* until it calls kernel_scheduler.                                        *)
Running(t) == cur = t /\ pc[t] = "run" /\ expiring = {}

-----------------------------------------------------------------------------
Init ==
    /\ cur = Boot
    /\ \E l \in StartLevels :
         /\ q = [s \in QStates |-> IF s = l THEN <<Boot>> ELSE <<>>]
         /\ nState = [t \in Threads |-> IF t = Boot THEN l ELSE TS_TERMINATED]
    /\ nPrev = [t \in Threads |-> 0]
    /\ nWaitResult = [t \in Threads |-> 0]
    /\ nCount = [e \in Events |-> 0]
    /\ link = [e \in Events |-> <<>>]
    /\ obj = [t \in Threads |-> NoEvent]
    /\ left = [t \in Threads |-> 0]
    /\ expiring = {}
    /\ arg = [t \in Threads |-> NoEvent]
    /\ pc = [t \in Threads |-> "run"]
    /\ victim = NoThread
    /\ torn = {}

-----------------------------------------------------------------------------
(* Waiting.                                                                *)

(* The timeouts the callers pass: key and serial input wait without one,   *)
(* and so, within any horizon of this model, does kpause with 2^32-1 ms.   *)
TimeOuts(e) == IF e \in KeyEvents \cup SignalEvents THEN {0} ELSE 0..MaxTimeOut

(* wait_event when the occurrence is already stored: it is consumed and    *)
(* the call returns 0 at once.                                             *)
WaitEventOccurred(t, e) ==
    /\ Running(t)
    /\ nCount[e] > 0
    /\ nCount' = [nCount EXCEPT ![e] = @ - 1]
    /\ UNCHANGED <<cur, schVars, nPrev, nWaitResult, link, waitVars,
                   expiring, arg, pc, halfVars>>

(* wait_event otherwise: the wait object joins the end of the event's      *)
(* link, the timeout starts and the thread goes to the scheduler.          *)
WaitEventBlocks(t, e, to) ==
    /\ Running(t)
    /\ nCount[e] = 0
    /\ link' = [link EXCEPT ![e] = IF e \in torn THEN @ ELSE Append(@, t)]
    /\ obj'  = [obj EXCEPT ![t] = e]
    /\ left' = [left EXCEPT ![t] = to]
    /\ nPrev' = IF nState[t] # TS_WAIT
                  THEN [nPrev EXCEPT ![t] = nState[t]] ELSE nPrev
    /\ ChangeState(t, TS_WAIT)
    /\ nWaitResult' = [nWaitResult EXCEPT ![t] = 0]
    /\ arg' = [arg EXCEPT ![t] = e]
    /\ pc' = [pc EXCEPT ![t] = "wait"]
    /\ UNCHANGED <<cur, nCount, expiring, halfVars>>

(* The end of wait_event, on the thread's own stack after the switch: the  *)
(* result is 0 iff nWaitResult is EVENT_OCCURRED.                         *)
WaitEventReturns(t) ==
    /\ cur = t
    /\ pc[t] = "ret"
    /\ expiring = {}
    /\ pc' = [pc EXCEPT ![t] = "run"]
    /\ arg' = [arg EXCEPT ![t] = NoEvent]
    /\ UNCHANGED <<cur, schVars, nPrev, nWaitResult, evVars, waitVars, expiring, halfVars>>

-----------------------------------------------------------------------------
(* Occurrences.                                                            *)

(* Mutant of StoresOccurrence: the count grows although a thread waits. *)
AlwaysStoresOccurrence(e) == TRUE

(* inc_event_count's first test. *)
StoresOccurrence(e) == link[e] = <<>>

(* inc_event_count, by an interrupt handler or the running thread, when no *)
(* thread waits.                                                           *)
IncEventCountStores(e) ==
    /\ expiring = {}
    /\ StoresOccurrence(e)
    /\ nCount[e] < MaxCount
    /\ nCount' = [nCount EXCEPT ![e] = @ + 1]
    /\ UNCHANGED <<cur, schVars, nPrev, nWaitResult, link, waitVars,
                   expiring, arg, pc, halfVars>>

(* Mutant of CancelTimeOut: the timeout keeps running. *)
CancelTimeOutNot(t) == UNCHANGED left

(* sub_from_timeout_list: the thread's timeout stops. *)
CancelTimeOut(t) == left' = [left EXCEPT ![t] = 0]

(* inc_event_count when threads wait: the first one is unlinked, its       *)
(* timeout cancelled, and it gets its previous state back.                 *)
IncEventCountWakes(e) ==
    /\ expiring = {}
    /\ ~ StoresOccurrence(e)
    /\ LET t == Head(link[e]) IN
         /\ UnlinkWaitObj(t)
         /\ CancelTimeOut(t)
         /\ nWaitResult' = [nWaitResult EXCEPT ![t] = EVENT_OCCURRED]
         /\ ChangeState(t, WakeState(t))
    /\ UNCHANGED <<cur, nPrev, nCount, expiring, arg, pc, halfVars>>

(* clear_event_count, by a driver before it starts a command. *)
ClearEventCount(t, e) ==
    /\ Running(t)
    /\ nCount[e] > 0
    /\ nCount' = [nCount EXCEPT ![e] = 0]
    /\ UNCHANGED <<cur, schVars, nPrev, nWaitResult, link, waitVars,
                   expiring, arg, pc, halfVars>>

(* awake_the_first_waiting_thread, by the keyboard or serial handler: t is *)
(* the foreground thread, or for the serial handler the first of the link. *)
(* It leaves nCount and nWaitResult alone.                                 *)
AwakeWaitingThread(e, t) ==
    /\ expiring = {}
    /\ nState[t] = TS_WAIT
    /\ obj[t] = e
    /\ UnlinkWaitObj(t)
    /\ ChangeState(t, WakeState(t))
    /\ UNCHANGED <<cur, nPrev, nWaitResult, nCount, left, expiring, arg, pc, halfVars>>

(* The same by the thread of the remote shell, with interrupts enabled     *)
(* (add_key_to_thread's POPFD comes before the call).  It finds the wait   *)
(* object of the foreground thread ...                                     *)
ShellFinds(s, t, e) ==
    /\ Running(s)
    /\ nState[t] = TS_WAIT
    /\ obj[t] = e
    /\ victim' = t
    /\ arg' = [arg EXCEPT ![s] = e]
    /\ pc' = [pc EXCEPT ![s] = "shell"]
    /\ UNCHANGED <<cur, schVars, nPrev, nWaitResult, evVars, waitVars, expiring,
                   torn>>

(* unlink_waitobj_from_event with an object that has been freed, and has   *)
(* no neighbours: the event forgets the first and the last of its link.    *)
(* The other waiters keep their objects, which name the event, and the     *)
(* keyboard handler wakes them through those.  What the link reaches as    *)
(* they leave and others come is not modelled: no code follows the link of *)
(* kbd_event, and that of a torn event is kept empty.                      *)
UnlinkFreed(e) ==
    /\ link' = [link EXCEPT ![e] = <<>>]
    /\ torn' = IF link[e] = <<>> THEN torn ELSE torn \cup {e}

(* ... and wakes the thread, even if a key woke it since.                  *)
ShellWakes(s) ==
    /\ cur = s
    /\ pc[s] = "shell"
    /\ expiring = {}
    /\ IF obj[victim] = arg[s]
         THEN UnlinkWaitObj(victim) /\ UNCHANGED torn
         ELSE UnlinkFreed(arg[s]) /\ UNCHANGED obj
    /\ ChangeState(victim, WakeState(victim))
    /\ victim' = NoThread
    /\ arg' = [arg EXCEPT ![s] = NoEvent]
    /\ pc' = [pc EXCEPT ![s] = "run"]
    /\ UNCHANGED <<cur, nPrev, nWaitResult, nCount, left, expiring>>

(* send_signal_to_thread by the running thread, to one that waits for a    *)
(* signal.  The thread's state is not tested.                              *)
SendSignal(s, t) ==
    /\ Running(s)
    /\ obj[t] \in SignalEvents
    /\ UnlinkWaitObj(t)
    /\ ChangeState(t, WakeState(t))
    /\ UNCHANGED <<cur, nPrev, nWaitResult, nCount, left, expiring, arg, pc, halfVars>>

-----------------------------------------------------------------------------
(* The timer interrupt.                                                    *)

(* down_schedule_level of the current thread: when its nice counters say   *)
(* so, a thread better than the lowest level sinks one level. The counters *)
(* are left open: the step may be taken at any tick.                       *)
LevelDown ==
    /\ nState[cur] < TS_READY_LOWEST
    /\ ChangeState(cur, nState[cur] + 1)

(* ktimer_scheduler: the countdown of check_waitobj_timeout, which keeps   *)
(* interrupts disabled until every expired timeout is handled, and the     *)
(* level of the current thread.                                            *)
Tick ==
    /\ expiring = {}
    /\ left' = [t \in Threads |-> IF left[t] > 1 THEN left[t] - 1 ELSE left[t]]
    /\ expiring' = {t \in Threads : left[t] = 1}
    /\ LevelDown \/ UNCHANGED schVars
    /\ UNCHANGED <<cur, nPrev, nWaitResult, evVars, obj, arg, pc, halfVars>>

(* check_waitobj_timeout's test before it wakes the thread.  The object    *)
(* that expired is still active here.                                      *)
ExpiryWakes(t) == NoActiveWaitObj(t) /\ nState[t] = TS_WAIT

(* One iteration of check_waitobj_timeout over an expired timeout. *)
TimeOutExpires(t) ==
    /\ t \in expiring
    /\ nWaitResult' = [nWaitResult EXCEPT ![t] = TIME_OUT]
    /\ IF ExpiryWakes(t) THEN ChangeState(t, WakeState(t)) ELSE UNCHANGED schVars
    /\ UnlinkWaitObj(t)
    /\ CancelTimeOut(t)
    /\ expiring' = expiring \ {t}
    /\ UNCHANGED <<cur, nPrev, nCount, arg, pc, halfVars>>

-----------------------------------------------------------------------------
(* The scheduler.                                                          *)

(* The queues get_next_sch_thread scans. *)
SchedLevels == Ready

(* The queue get_next_sch_thread takes its thread from: the first level    *)
(* that is not empty.                                                      *)
FirstLevel(l) == /\ l \in SchedLevels
                 /\ q[l] # <<>>
                 /\ \A k \in SchedLevels : k < l => q[k] = <<>>

(* Mutant of Rotate: the chosen thread stays at the head of its queue. *)
RotateNot(s) == s

(* get_next_sch_thread: the head of the queue goes to its end. *)
Rotate(s) == Append(Tail(s), Head(s))

(* A call of kernel_scheduler. *)
Yield(t) ==
    /\ Running(t)
    /\ pc' = [pc EXCEPT ![t] = "sched"]
    /\ UNCHANGED <<cur, schVars, nPrev, nWaitResult, evVars, waitVars,
                   expiring, arg, halfVars>>

(* up_schedule_level of the thread about to run may promote it, when its   *)
(* nice counters say so; a thread below the lowest level never has them.   *)
Promoted(n, l) ==
    {l} \cup (IF TS_READY_HIGHEST < l /\ l <= TS_READY_LOWEST
                THEN {l - 1} ELSE {})

(* kernel_scheduler's loop finds a ready thread and switches to it.  While *)
(* there is none, the loop idles and only interrupts happen.               *)
Schedule ==
    /\ pc[cur] \in {"wait", "sched", "exit"}
    /\ expiring = {}
    /\ \E l \in SchedLevels :
         /\ FirstLevel(l)
         /\ LET n == Head(q[l]) IN
            /\ \E k \in Promoted(n, l) :
                 /\ q' = IF k = l
                           THEN [q EXCEPT ![l] = Rotate(@)]
                           ELSE [q EXCEPT ![l] = Tail(@), ![k] = Append(@, n)]
                 /\ nState' = [nState EXCEPT ![n] = k]
            /\ cur' = n
            /\ pc' = [pc EXCEPT ![n] = CASE @ = "wait"  -> "ret"
                                         [] @ = "sched" -> "run"
                                         [] OTHER       -> @]
    /\ UNCHANGED <<nPrev, nWaitResult, evVars, waitVars, expiring, arg, halfVars>>

-----------------------------------------------------------------------------
(* Thread states changed by other threads.                                 *)

(* ksuspend_thread's test. *)
Suspendable(t) == nState[t] < TS_READY_LAZY

(* ksuspend_thread: only a ready thread; the caller then yields. *)
Suspend(s, t) ==
    /\ Running(s)
    /\ Suspendable(t)
    /\ nPrev' = [nPrev EXCEPT ![t] = nState[t]]
    /\ ChangeState(t, TS_SUSPEND)
    /\ pc' = [pc EXCEPT ![s] = "sched"]
    /\ UNCHANGED <<cur, nWaitResult, evVars, waitVars, expiring, arg, halfVars>>

(* kresume_thread. *)
Resume(s, t) ==
    /\ Running(s)
    /\ nState[t] = TS_SUSPEND
    /\ ChangeState(t, WakeState(t))
    /\ UNCHANGED <<cur, nPrev, nWaitResult, evVars, waitVars, expiring, arg, pc, halfVars>>

(* kcreate_thread: a cleared structure, linked in the queue of its state. *)
CreateThread(s, t, l) ==
    /\ Running(s)
    /\ nState[t] = TS_TERMINATED
    /\ ChangeState(t, l)
    /\ nPrev' = [nPrev EXCEPT ![t] = 0]
    /\ nWaitResult' = [nWaitResult EXCEPT ![t] = 0]
    /\ pc' = [pc EXCEPT ![t] = "run"]
    /\ arg' = [arg EXCEPT ![t] = NoEvent]
    /\ UNCHANGED <<cur, evVars, waitVars, expiring, halfVars>>

(* kill_thread of the thread itself: it sleeps, with no wait object, until *)
(* the sniper closes it.                                                   *)
Exit(t) ==
    /\ Running(t)
    /\ ChangeState(t, TS_WAIT)
    /\ pc' = [pc EXCEPT ![t] = "exit"]
    /\ UNCHANGED <<cur, nPrev, nWaitResult, evVars, waitVars, expiring, arg, halfVars>>

(* Mutant of ReleaseWaitObj: the wait object stays linked in its event. *)
ReleaseWaitObjLinked(t) ==
    /\ obj' = [obj EXCEPT ![t] = NoEvent]
    /\ CancelTimeOut(t)
    /\ UNCHANGED link

(* release_thread_wait_object: timeout, event link and object go. *)
ReleaseWaitObj(t) ==
    /\ CancelTimeOut(t)
    /\ IF NoActiveWaitObj(t) THEN UNCHANGED <<link, obj>> ELSE UnlinkWaitObj(t)

(* kclose_thread, by the sniper thread, with interrupts enabled.  First    *)
(* the state changes, while the wait object is still linked ...            *)
CloseMarks(s, t) ==
    /\ Running(s)
    /\ s # t
    /\ nState[t] # TS_TERMINATED
    /\ ChangeState(t, TS_TERMINATED)
    /\ victim' = t
    /\ pc' = [pc EXCEPT ![s] = "close"]
    /\ UNCHANGED <<cur, nPrev, nWaitResult, evVars, waitVars, expiring, arg, torn>>

(* krelease_thread_struct's test. *)
MayRelease(t) == nState[t] = TS_TERMINATED

(* ... then the wait object goes, and krelease_thread_struct frees the     *)
(* structure with what it held.  It refuses a thread that an occurrence    *)
(* has made ready meanwhile: that one stays in its queue and runs on.      *)
CloseReleases(s) ==
    /\ cur = s
    /\ pc[s] = "close"
    /\ expiring = {}
    /\ ReleaseWaitObj(victim)
    /\ victim' = NoThread
    /\ LET Freed == IF MayRelease(victim) THEN {victim} ELSE {} IN
         /\ pc' = [t \in Threads |-> IF t \in Freed \cup {s} THEN "run" ELSE pc[t]]
         /\ arg' = [t \in Threads |-> IF t \in Freed THEN NoEvent ELSE arg[t]]
         /\ nPrev' = [t \in Threads |-> IF t \in Freed THEN 0 ELSE nPrev[t]]
         /\ nWaitResult' = [t \in Threads |-> IF t \in Freed THEN 0
                                              ELSE nWaitResult[t]]
    /\ UNCHANGED <<cur, schVars, nCount, expiring, torn>>

-----------------------------------------------------------------------------
Next ==
    \/ \E t \in Threads, e \in Events : WaitEventOccurred(t, e)
    \/ \E t \in Threads, e \in Events : \E to \in TimeOuts(e) :
         WaitEventBlocks(t, e, to)
    \/ \E t \in Threads : WaitEventReturns(t)
    \/ \E e \in Events \ (KeyEvents \cup SignalEvents) : IncEventCountStores(e)
    \/ \E e \in Events \ (KeyEvents \cup SignalEvents) : IncEventCountWakes(e)
    \/ \E t \in Threads, e \in Events : ClearEventCount(t, e)
    \/ \E e \in KeyEvents, t \in Threads : AwakeWaitingThread(e, t)
    \/ \E s, t \in Threads, e \in KbdEvents : ShellFinds(s, t, e)
    \/ \E s \in Threads : ShellWakes(s)
    \/ \E s, t \in Threads : SendSignal(s, t)
    \/ Tick
    \/ \E t \in Threads : TimeOutExpires(t)
    \/ \E t \in Threads : Yield(t)
    \/ Schedule
    \/ \E s, t \in Threads : Suspend(s, t)
    \/ \E s, t \in Threads : Resume(s, t)
    \/ \E s, t \in Threads : \E l \in StartLevels : CreateThread(s, t, l)
    \/ \E t \in Threads : Exit(t)
    \/ \E s, t \in Threads : CloseMarks(s, t)
    \/ \E s \in Threads : CloseReleases(s)

Spec == Init /\ [][Next]_vars

(* The current thread goes on with what it is half through with. *)
GoesOn == \E t \in Threads : \/ WaitEventReturns(t)
                            \/ ShellWakes(t)
                            \/ CloseReleases(t)

(* Every way the running thread gives the processor up. *)
GivesUp ==
    \E t \in Threads :
        \/ Yield(t)
        \/ Exit(t)
        \/ \E u \in Threads : Suspend(t, u)
        \/ \E e \in Events : \E to \in TimeOuts(e) : WaitEventBlocks(t, e, to)

(* Fairness: the loop of kernel_scheduler finds a ready thread; interrupt  *)
(* handlers finish, and so do wait_event, kclose_thread and the shell's    *)
(* wake-up; and a running thread gives the processor up sooner or later,   *)
(* which the timer sees to for user code (it diverts the thread to the     *)
(* preempt function of its process) and kernel code does by itself.        *)
Fairness ==
    /\ WF_vars(Schedule)
    /\ WF_vars(GoesOn)
    /\ WF_vars(\E t \in Threads : TimeOutExpires(t))
    /\ SF_vars(GivesUp)

FairSpec == Spec /\ Fairness

-----------------------------------------------------------------------------
(* Properties.                                                             *)

(* Every variable has its type. *)
TypeOK ==
    /\ cur \in Threads
    /\ q \in [QStates -> Seq(Threads)]
    /\ nState \in [Threads -> QStates \cup {TS_TERMINATED}]
    /\ nPrev \in [Threads -> Ready]
    /\ nWaitResult \in [Threads -> {0, TIME_OUT, EVENT_OCCURRED}]
    /\ nCount \in [Events -> Nat]
    /\ link \in [Events -> Seq(Threads)]
    /\ obj \in [Threads -> Events \cup {NoEvent}]
    /\ left \in [Threads -> Nat]
    /\ expiring \in SUBSET Threads
    /\ arg \in [Threads -> Events \cup {NoEvent}]
    /\ pc \in [Threads -> Places]
    /\ victim \in Threads \cup {NoThread}
    /\ torn \in SUBSET KbdEvents

(* The queue links agree with the states: a thread is linked once in the   *)
(* queue of its state and in no other queue (nPushThread, nPopThread).     *)
QueuesMatchStates ==
    \A l \in QStates :
        /\ IsInjective(q[l])
        /\ \A t \in Threads : t \in ToSet(q[l]) <=> nState[t] = l

(* The event links agree with the wait objects: a thread is linked in the  *)
(* event its active wait object names, once, and nowhere else.  Only the   *)
(* remote shell can tear a link, and only that of kbd_event (TypeOK).      *)
LinksMatchObjects ==
    \A e \in Events :
        /\ IsInjective(link[e])
        /\ \A t \in Threads : t \in ToSet(link[e]) => obj[t] = e
        /\ \A t \in Threads : obj[t] = e => t \in ToSet(link[e]) \/ e \in torn

(* kclose_thread is half through with t. *)
Closing(t) == (t = victim) /\ (pc[cur] = "close")

(* A thread that is linked in an event is in wait_event and sleeps: no     *)
(* wake-up path leaves an awake thread behind in a link, where the next    *)
(* occurrence would be spent on it.  An occurrence can be spent on no      *)
(* other thread, except on one that kclose_thread is half through with.    *)
WaitersSleep ==
    \A t \in Threads :
        obj[t] # NoEvent =>
            /\ pc[t] = "wait"
            /\ nState[t] = IF Closing(t) THEN TS_TERMINATED ELSE TS_WAIT

(* No missed occurrence: while a thread sleeps on an event no occurrence   *)
(* of that event is stored.                                                *)
NoWaiterWithStoredOccurrence ==
    \A e \in Events : link[e] # <<>> => nCount[e] = 0

(* The processor never runs a thread's code while the thread is in another *)
(* state than ready.                                                       *)
CurrentIsReady ==
    pc[cur] \in {"run", "ret", "close", "shell"} => nState[cur] \in Ready

(* A sleeping thread can still be woken by its event, or it has been told  *)
(* to sleep until it is killed, or its timeout has expired.                *)
SleepersAreLinked ==
    \A t \in Threads :
        nState[t] = TS_WAIT =>
            \/ obj[t] # NoEvent
            \/ pc[t] = "exit"
            \/ nWaitResult[t] = TIME_OUT

(* A running timeout belongs to an active wait object, so no timeout can   *)
(* expire on a later wait of the same thread.                              *)
TimeOutsHaveWaiters ==
    \A t \in Threads : left[t] > 0 \/ t \in expiring => obj[t] # NoEvent

(* "Wake up those wait objects that have timed out" (schedule.c:444): a    *)
(* thread whose timeout expired does not stay asleep.                      *)
TimedOutThreadIsAwake ==
    \A t \in Threads : nWaitResult[t] = TIME_OUT => nState[t] # TS_WAIT

(* What the code means to do and does not (README, section 6):             *)
(* kclose_thread "closes the thread and takes its resources back"          *)
(* (kprocess.c:816), so it stays terminated until its structure is freed.  *)
ClosedThreadIsTerminated ==
    pc[cur] = "close" => nState[victim] = TS_TERMINATED

(* The events inc_event_count is called with.  The others hand out no      *)
(* tokens: awake_the_first_waiting_thread and send_signal_to_thread only   *)
(* end the wait.                                                           *)
TokenEvents == Events \ KbdEvents

(* The token event of the wait_event t is inside of. *)
Inside(t) == IF pc[t] \in {"wait", "ret"} /\ arg[t] \in TokenEvents
               THEN arg[t] ELSE NoEvent

(* The event whose occurrence has been handed to t, which has not returned *)
(* with it yet.                                                            *)
Given(t) == IF nWaitResult[t] = EVENT_OCCURRED THEN Inside(t) ELSE NoEvent

Tokens == INSTANCE EventTokens WITH
    Events <- TokenEvents,
    tokens <- [e \in TokenEvents |-> nCount[e]],
    queue  <- [e \in TokenEvents |-> link[e]],
    inside <- [t \in Threads |-> Inside(t)],
    given  <- [t \in Threads |-> Given(t)]

(* Events implement tokens (inc_event_count, wait_event, clear_event_count *)
(* and check_waitobj_timeout): no occurrence is invented, kept beside a    *)
(* waiting thread, given to two threads or to one that came later, or      *)
(* taken back from the thread that has it by a timeout, a signal, a        *)
(* suspension or a key that comes after it.                                *)
TokensRefined == Tokens!TokSpec

(* A thread of a better level than t's is ready: get_next_sch_thread takes *)
(* that one.                                                               *)
Outranked(t) == \E s \in Threads : nState[s] < nState[t]

(* Round robin within a level: a ready thread gets the processor, unless   *)
(* it is suspended or killed first, or better levels always have threads.  *)
ReadyThreadRuns ==
    \A t \in Threads :
        []<>(cur = t \/ nState[t] \notin Ready \/ Outranked(t))

(* A thread handed an occurrence returns from wait_event, unless it is     *)
(* suspended or killed first, or better levels always have threads.        *)
WokenThreadReturns ==
    \A t \in Threads :
        []<>(\/ ~ (pc[t] = "wait" /\ nWaitResult[t] = EVENT_OCCURRED)
             \/ nState[t] \notin Ready
             \/ Outranked(t))

=============================================================================
