------------------------------- MODULE CritSect -------------------------------
(***************************************************************************)
(* The critical section of kernel/cs.c, as launch_r3_program of            *)
(* kernel/fork.c uses it to load one program at a time.                    *)
(*                                                                         *)
(* A thread in the kernel keeps the processor until it sleeps, so enter_cs *)
(* runs without another thread until it returns or is linked in the event. *)
(* The body of the section reads the disk, and other threads run then.     *)
(***************************************************************************)
EXTENDS KEvent, FiniteSets

CONSTANTS
    Loaders,     \* threads that load a program
    MaxCount     \* bound: occurrences stored in the event

ASSUME CritSectAssumption == MaxCount \in Nat

VARIABLES
    nInitialized,
    nFlag,       \* 1: the section is free
    sectEvent,   \* its event (e of CritSectStt)
    loader,      \* "out", "wait" in wait_event, "try" woken by leave_cs, "in"
    abandoned    \* a thread was killed in the section or on its way into it

sectVars == <<nInitialized, nFlag, sectEvent, loader, abandoned>>

-----------------------------------------------------------------------------
(* The static CritSectStt is all zero. *)
SectInit ==
    /\ nInitialized = 0
    /\ nFlag = 0
    /\ sectEvent = NewEvent
    /\ loader = [t \in Loaders |-> "out"]
    /\ abandoned = FALSE

(* Mutant of MustInitialize: every call initializes. *)
MustInitializeAlways == TRUE

(* init_cond_value succeeds for the first caller only. *)
MustInitialize == nInitialized = 0

(* down_cond_value succeeds: the flag, after a first initialization, is 1. *)
Free == MustInitialize \/ nFlag = 1

(* The event enter_cs finds, new after an initialization. *)
EventOf == IF MustInitialize THEN NewEvent ELSE sectEvent

(* enter_cs of a new thread, or its loop after leave_cs woke it, finds the *)
(* section free.                                                           *)
Enter(t) ==
    /\ loader[t] \in {"out", "try"}
    /\ Free
    /\ nInitialized' = 1
    /\ nFlag' = 0
    /\ sectEvent' = EventOf
    /\ loader' = [loader EXCEPT ![t] = "in"]
    /\ UNCHANGED abandoned

(* The event after wait_event took every stored occurrence. *)
Drained(ev) == [ev EXCEPT !.nCount = 0]

(* enter_cs finds the section taken.  The loop uses up the occurrences     *)
(* that uncontended calls of leave_cs have stored, and then sleeps.        *)
EnterBlocks(t) ==
    /\ loader[t] \in {"out", "try"}
    /\ ~ Free
    /\ sectEvent' = LinkWaiter(Drained(sectEvent), t)
    /\ loader' = [loader EXCEPT ![t] = "wait"]
    /\ UNCHANGED <<nInitialized, nFlag, abandoned>>

(* Mutant of WokenByLeave: leave_cs only frees the section. *)
WokenByLeaveNone == {}

(* The thread leave_cs wakes with inc_event_count. *)
WokenByLeave == Woken(sectEvent)

(* leave_cs. *)
Leave(t) ==
    /\ loader[t] = "in"
    /\ sectEvent.nCount < MaxCount
    /\ nFlag' = 1
    /\ sectEvent' = IncEvent(sectEvent)
    /\ loader' = [u \in Loaders |-> IF u = t THEN "out"
                                    ELSE IF u \in WokenByLeave THEN "try"
                                    ELSE loader[u]]
    /\ UNCHANGED <<nInitialized, abandoned>>

(* A thread is killed and its structure is used for a new one.  Nothing    *)
(* gives back a section, or a wake-up, it had.                             *)
SectKill(t) ==
    /\ loader[t] # "out"
    /\ sectEvent' = DropWaiter(sectEvent, t)
    /\ loader' = [loader EXCEPT ![t] = "out"]
    /\ abandoned' = (abandoned \/ loader[t] \in {"in", "try"})
    /\ UNCHANGED <<nInitialized, nFlag>>

SectNext == \E t \in Loaders : Enter(t) \/ EnterBlocks(t) \/ Leave(t) \/ SectKill(t)

SectSpec == SectInit /\ [][SectNext]_sectVars

(* Threads that were woken get the processor, and loading a program comes  *)
(* to an end.                                                              *)
SectFairness == \A t \in Loaders :
    /\ WF_sectVars(loader[t] = "try" /\ (Enter(t) \/ EnterBlocks(t)))
    /\ WF_sectVars(Leave(t))

SectFairSpec == SectSpec /\ SectFairness

-----------------------------------------------------------------------------
(* Properties.                                                             *)

(* Every variable has its type. *)
SectTypeOK ==
    /\ nInitialized \in {0, 1}
    /\ nFlag \in {0, 1}
    /\ sectEvent \in EventStt(Loaders)
    /\ loader \in [Loaders -> {"out", "wait", "try", "in"}]
    /\ abandoned \in BOOLEAN

(* One program is loaded at a time (launch_r3_program), even when threads  *)
(* are killed inside.                                                      *)
MutualExclusion ==
    \A t, u \in Loaders : loader[t] = "in" /\ loader[u] = "in" => t = u

(* The section is not free while threads sleep for it, unless one of them  *)
(* has been woken or a thread was killed with the section or a wake-up: no *)
(* wake-up of leave_cs is lost, and none is stored while a thread sleeps.  *)
FreeSectionHasTaker ==
    sectEvent.link # <<>> =>
        /\ sectEvent.nCount = 0
        /\ nFlag = 1 => abandoned \/ \E t \in Loaders : loader[t] = "try"

(* While threads sleep for the section, someone is in it again and again,  *)
(* unless a thread was killed with it.  One thread may be overtaken for    *)
(* ever: a newcomer can take the section before the thread that was woken. *)
SectionIsUsed ==
    [](sectEvent.link # <<>> => <>(abandoned \/ \E t \in Loaders : loader[t] = "in"))

=============================================================================
