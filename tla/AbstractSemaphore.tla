-------------------------- MODULE AbstractSemaphore --------------------------
(***************************************************************************)
(* What semaphores promise (kernel/semaph.h): a semaphore is a number of   *)
(* permits.  ksem_wait takes one or queues up, ksem_post gives one to the  *)
(* thread that has waited longest or, when none waits, keeps it.  Nobody   *)
(* can overtake a queued thread.                                           *)
(***************************************************************************)
EXTENDS Integers, SequencesExt

CONSTANTS Threads, Sems, InitValues

VARIABLES
    permits,   \* permits no thread has taken
    queue      \* threads waiting for a permit, oldest first

absVars == <<permits, queue>>

AbsInit ==
    /\ permits = [s \in Sems |-> 0]
    /\ queue = [s \in Sems |-> <<>>]

(* A new semaphore has its initial permits, if any. *)
Make(s, v) ==
    /\ permits' = [permits EXCEPT ![s] = IF v > 0 THEN v ELSE 0]
    /\ queue' = [queue EXCEPT ![s] = <<>>]

(* A semaphore is destroyed: its waiters are let go without a permit. *)
Drop(s) ==
    /\ permits' = [permits EXCEPT ![s] = 0]
    /\ queue' = [queue EXCEPT ![s] = <<>>]

TakePermit(s) ==
    /\ permits[s] > 0
    /\ permits' = [permits EXCEPT ![s] = @ - 1]
    /\ UNCHANGED queue

QueueUp(t, s) ==
    /\ permits[s] = 0
    /\ queue' = [queue EXCEPT ![s] = Append(@, t)]
    /\ UNCHANGED permits

GivePermit(s) ==
    /\ queue[s] # <<>>
    /\ queue' = [queue EXCEPT ![s] = Tail(@)]
    /\ UNCHANGED permits

KeepPermit(s) ==
    /\ queue[s] = <<>>
    /\ permits' = [permits EXCEPT ![s] = @ + 1]
    /\ UNCHANGED queue

(* A thread dies while it is queued. *)
Leave(t, s) ==
    /\ queue' = [queue EXCEPT ![s] = RemoveFirst(@, t)]
    /\ UNCHANGED permits

AbsNext ==
    \E s \in Sems :
        \/ \E v \in InitValues : Make(s, v)
        \/ Drop(s)
        \/ TakePermit(s)
        \/ GivePermit(s)
        \/ KeepPermit(s)
        \/ \E t \in Threads : QueueUp(t, s) \/ Leave(t, s)

AbsSpec == AbsInit /\ [][AbsNext]_absVars

=============================================================================
