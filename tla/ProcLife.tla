------------------------------- MODULE ProcLife -------------------------------
(***************************************************************************)
(* Processes and threads from fork to their end: exit, kill and exec       *)
(* (kernel/kprocess.c, ksyscall.c), the sniper thread that carries out the *)
(* requests to kill (kernel/init.c), zombies, and the parents that wait    *)
(* for them with kwait, kwaitpid and kwaittid.                             *)
(*                                                                         *)
(* Kernel code keeps the processor until it sleeps, but interrupts occur   *)
(* in it.  The sniper works off its whole queue, and kwaitpid skips        *)
(* messages, without sleeping: inKernel is the thread that does so.  A     *)
(* message queue is the sequence of its unread messages; KMesg models the  *)
(* ring it is kept in.                                                     *)
(***************************************************************************)
EXTENDS Integers, Sequences, SequencesExt, FiniteSetsExt

CONSTANTS
    MaxPid, MaxTid,   \* bounds on the processes and threads ever created
    MAX_KMESG,        \* messages a queue holds
    MaxPending,       \* bound on the requests that wait for the sniper
    Sniper,           \* the thread init_sniper
    NoOne

ASSUME ProcLifeAssumption ==
    /\ MaxPid \in Nat /\ MaxPid > 1
    /\ MaxTid \in Nat \ {0}
    /\ MAX_KMESG \in Nat \ {0}
    /\ MaxPending \in 1..MAX_KMESG
    /\ Sniper \notin 1..MaxTid /\ NoOne \notin {Sniper} \cup 1..MaxTid

(* The kernel's process, which never ends; 0 is no process. *)
InitPid == 1
Pids == 2..MaxPid
Tids == 1..MaxTid

VARIABLES
    proc,          \* "none", "live", "zombie" or "gone"
    dwParentID,
    procOf,        \* process of a thread, 0 before it is created
    pc,            \* what a thread does
    want,          \* the call a thread waits in
    waitType,      \* type and subtype of its wait object, kept when it is free
    kmesgq,
    dwKillerTID,   \* thread that asked for the end of a thread, 0 for none
    inKernel,      \* the thread that keeps the processor, or NoOne
    corrupt        \* what the kernel works on is broken: the links of the
                   \* process list, or the stack of the thread that runs

vars == <<proc, dwParentID, procOf, pc, want, waitType, kmesgq, dwKillerTID,
          inKernel, corrupt>>

(* "event" sleeps in wait_event, "wait" in wait_for_kmesg and "dying" in   *)
(* kill_process or kill_thread; "woken" is ready to go on in its wait      *)
(* call, "undead" is ready to return from kill_process.  "stray" is ready  *)
(* too, although its end was carried out.                                  *)
States == {"none", "run", "event", "wait", "woken", "dying", "undead", "stray",
           "gone"}

NoCall == [fun |-> "none", id |-> 0]
WaitCalls == [fun : {"kwait"}, id : {0}]
             \cup [fun : {"kwaitpid"}, id : Pids]
             \cup [fun : {"kwaittid"}, id : Tids]

(* The type of message a wait call asks kwait_kmesg for. *)
MesgOf(call) == IF call.fun = "kwaittid" THEN "CHILD_THREAD_EXIT"
                                         ELSE "CHILD_PROCESS_EXIT"

Mesgs == [wType : {"KILL_PROCESS", "CHILD_PROCESS_EXIT"}, dwAParam : Pids]
         \cup [wType : {"KILL_THREAD", "CHILD_THREAD_EXIT"}, dwAParam : Tids]
Mesg(wType, id) == [wType |-> wType, dwAParam |-> id]

(* find_thread_by_id finds the thread, the list of its process links it. *)
Exists(t) == pc[t] \notin {"none", "gone"}
InProcess(t) == Exists(t) /\ pc[t] # "stray"
ThreadsOf(p) == {t \in Tids : InProcess(t) /\ procOf[t] = p}

(* dwMakeProcessThreadID counts up. *)
NewPids == {p \in Pids : proc[p] = "none"}
NewTids == {t \in Tids : pc[t] = "none"}

Init ==
    /\ proc = [p \in Pids |-> IF p = 2 THEN "live" ELSE "none"]
    /\ dwParentID = [p \in Pids |-> IF p = 2 THEN InitPid ELSE 0]
    /\ procOf = [t \in Tids |-> IF t = 1 THEN 2 ELSE 0]
    /\ pc = [t \in Tids |-> IF t = 1 THEN "run" ELSE "none"]
    /\ want = [t \in Tids |-> NoCall]
    /\ waitType = [t \in Tids |-> "none"]
    /\ kmesgq = [t \in Tids \cup {Sniper} |-> <<>>]
    /\ dwKillerTID = [t \in Tids |-> 0]
    /\ inKernel = NoOne
    /\ corrupt = FALSE

-----------------------------------------------------------------------------
(* Sending and taking messages (kernel/kmesg.c).                           *)

(* ksend_kmesg: the message is lost when the queue is full ... *)
Sent(t, m) == [kmesgq EXCEPT ![t] = IF Len(@) < MAX_KMESG THEN Append(@, m) ELSE @]

(* ... and wakes a thread in TS_WAIT whose wait object says it waits for   *)
(* messages: one of any type, or an older one that it does not wait in any *)
(* more.                                                                   *)
Woken(t) ==
    [pc EXCEPT ![t] =
        IF \/ Len(kmesgq[t]) >= MAX_KMESG
           \/ waitType[t] \notin {"CHILD_PROCESS_EXIT", "CHILD_THREAD_EXIT"}
        THEN @
        ELSE CASE @ = "wait" -> "woken"
               [] @ = "dying" -> "undead"
               [] OTHER -> @]

OfType(t, wType) == {i \in DOMAIN kmesgq[t] : kmesgq[t][i].wType = wType}

-----------------------------------------------------------------------------
(* System calls of a thread that runs.                                     *)

Runs(t) == pc[t] = "run" /\ inKernel = NoOne /\ ~ corrupt

NewThread(n, p) ==
    /\ procOf' = [procOf EXCEPT ![n] = p]
    /\ pc' = [pc EXCEPT ![n] = "run"]

(* kfork: the child has one thread. *)
Fork(t) ==
    /\ Runs(t) /\ NewPids # {} /\ NewTids # {}
    /\ proc' = [proc EXCEPT ![Min(NewPids)] = "live"]
    /\ dwParentID' = [dwParentID EXCEPT ![Min(NewPids)] = procOf[t]]
    /\ NewThread(Min(NewTids), Min(NewPids))
    /\ UNCHANGED <<want, waitType, kmesgq, dwKillerTID, inKernel, corrupt>>

(* kcreate_thread. *)
CreateThread(t) ==
    /\ Runs(t) /\ NewTids # {}
    /\ NewThread(Min(NewTids), procOf[t])
    /\ UNCHANGED <<proc, dwParentID, want, waitType, kmesgq, dwKillerTID,
                   inKernel, corrupt>>

(* Bound of the model, far below the room in the sniper's queue. *)
MayAsk == Len(kmesgq[Sniper]) < MaxPending

(* ksc_exit: the thread sleeps until the sniper has killed the process. *)
ExitProcess(t) ==
    /\ Runs(t) /\ MayAsk
    /\ kmesgq' = Sent(Sniper, Mesg("KILL_PROCESS", procOf[t]))
    /\ pc' = [pc EXCEPT ![t] = "dying"]
    /\ UNCHANGED <<proc, dwParentID, procOf, want, waitType, dwKillerTID,
                   inKernel, corrupt>>

(* ksc_exit_user_thread, of the thread itself or of another one. *)
ExitThread(t, u) ==
    /\ Runs(t) /\ Exists(u) /\ MayAsk
    /\ dwKillerTID' = [dwKillerTID EXCEPT ![u] = IF u = t THEN 0 ELSE t]
    /\ kmesgq' = Sent(Sniper, Mesg("KILL_THREAD", u))
    /\ pc' = IF u = t THEN [pc EXCEPT ![t] = "dying"] ELSE pc
    /\ UNCHANGED <<proc, dwParentID, procOf, want, waitType, inKernel, corrupt>>

(* The kernel shell's kill command, with a process its ps command lists:   *)
(* zombies are among them.                                                 *)
ShellKill(p) ==
    /\ inKernel = NoOne /\ ~ corrupt
    /\ proc[p] \in {"live", "zombie"} /\ MayAsk
    /\ kmesgq' = Sent(Sniper, Mesg("KILL_PROCESS", p))
    /\ UNCHANGED <<proc, dwParentID, procOf, pc, want, waitType, dwKillerTID,
                   inKernel, corrupt>>

(* kexecve gives the old image, with all its threads, the new PID q. *)
Swapped(p, q, n) ==
    [u \in Tids |-> CASE u = n -> p
                      [] u \in ThreadsOf(p) -> q
                      [] OTHER -> procOf[u]]

(* kexecve: a new process takes over the PID and the parent, the old one   *)
(* is killed under a new PID.                                              *)
Exec(t) ==
    /\ Runs(t) /\ NewPids # {} /\ NewTids # {} /\ MayAsk
    /\ LET p == procOf[t]
           q == Min(NewPids)
           n == Min(NewTids)
       IN  /\ proc' = [proc EXCEPT ![q] = "live"]
           /\ procOf' = Swapped(p, q, n)
           /\ pc' = [pc EXCEPT ![n] = "run", ![t] = "dying"]
           /\ kmesgq' = Sent(Sniper, Mesg("KILL_PROCESS", q))
    /\ UNCHANGED <<dwParentID, want, waitType, dwKillerTID, inKernel, corrupt>>

(* A thread sleeps for an event, in the wait object it has for messages. *)
WaitEvent(t) ==
    /\ Runs(t)
    /\ pc' = [pc EXCEPT ![t] = "event"]
    /\ waitType' = [waitType EXCEPT ![t] = "event"]
    /\ UNCHANGED <<proc, dwParentID, procOf, want, kmesgq, dwKillerTID,
                   inKernel, corrupt>>

(* An interrupt, whoever has the processor. *)
EventOccurs(t) ==
    /\ pc[t] = "event" /\ ~ corrupt
    /\ pc' = [pc EXCEPT ![t] = "run"]
    /\ UNCHANGED <<proc, dwParentID, procOf, want, waitType, kmesgq,
                   dwKillerTID, inKernel, corrupt>>

-----------------------------------------------------------------------------
(* kwait, kwaitpid and kwaittid.                                           *)

(* kwaittid only waits for a thread that the caller asked to end. *)
MayWait(t, call) ==
    call.fun = "kwaittid" => Exists(call.id) /\ dwKillerTID[call.id] = t

(* The thread is in the call, at the top of kwait_kmesg's loop. *)
InCall(t, call) ==
    /\ ~ corrupt
    /\ \/ Runs(t) /\ MayWait(t, call)
       \/ pc[t] = "woken" /\ want[t] = call /\ inKernel \in {NoOne, t}

(* No message: wait_for_kmesg. *)
Sleep(t, call) ==
    /\ InCall(t, call)
    /\ OfType(t, MesgOf(call)) = {}
    /\ pc' = [pc EXCEPT ![t] = "wait"]
    /\ want' = [want EXCEPT ![t] = call]
    /\ waitType' = [waitType EXCEPT ![t] = MesgOf(call)]
    /\ inKernel' = NoOne
    /\ UNCHANGED <<proc, dwParentID, procOf, kmesgq, dwKillerTID, corrupt>>

(* get_zombie_exit_code frees the zombie. *)
Reaped(p) == [proc EXCEPT ![p] = "gone"]

(* A message: the call returns if it is the one it waits for; if not, the  *)
(* message is dropped and the call goes on.                                *)
Receive(t, call) ==
    /\ InCall(t, call)
    /\ OfType(t, MesgOf(call)) # {}
    /\ LET i == Min(OfType(t, MesgOf(call)))
           id == kmesgq[t][i].dwAParam
           found == call.fun = "kwait" \/ id = call.id
       IN  /\ kmesgq' = [kmesgq EXCEPT ![t] = RemoveAt(@, i)]
           /\ proc' = IF found /\ call.fun # "kwaittid" THEN Reaped(id) ELSE proc
           /\ pc' = [pc EXCEPT ![t] = IF found THEN "run" ELSE "woken"]
           /\ want' = [want EXCEPT ![t] = IF found THEN NoCall ELSE call]
           /\ inKernel' = IF found THEN NoOne ELSE t
    /\ UNCHANGED <<dwParentID, procOf, waitType, dwKillerTID, corrupt>>

-----------------------------------------------------------------------------
(* The sniper.                                                             *)

(* Mutant of KeepsGoing: the sniper sleeps after every request. *)
KeepsGoingNot(q) == FALSE

(* sniper_thread goes on while its queue is not empty. *)
KeepsGoing(q) == q # <<>>

(* Mutant of Closed: the process's main thread is forgotten. *)
ClosedButFirst(T) ==
    {t \in T : \E u \in T : u < t}

(* sniper_kill_process closes all threads the process has. *)
Closed(T) == T

(* find_waitpid_thread looks for threads in TS_WAIT whose wait object says *)
(* they wait for a child, in the order they were created.                  *)
WaitPidThreads(p) ==
    {t \in ThreadsOf(p) : /\ pc[t] \in {"wait", "dying"}
                          /\ waitType[t] = "CHILD_PROCESS_EXIT"}

(* Mutant of Told: every thread that waits is told. *)
ToldAll(W) == W

(* The message goes to the first of the threads. *)
Told(W) == IF W = {} THEN {} ELSE {Min(W)}

SniperScheduled == inKernel \in {NoOne, Sniper}

(* The sniper takes the request off its queue. *)
TakesRequest(wType, id) ==
    /\ SniperScheduled /\ ~ corrupt
    /\ kmesgq[Sniper] # <<>>
    /\ Head(kmesgq[Sniper]) = Mesg(wType, id)
    /\ inKernel' = IF KeepsGoing(Tail(kmesgq[Sniper])) THEN Sniper ELSE NoOne

(* The queues after the threads T ended and m was sent to the threads of R. *)
QueuesAfter(T, R, m) ==
    [t \in Tids \cup {Sniper} |->
        CASE t = Sniper -> Tail(kmesgq[t])
          [] t \in T -> <<>>
          [] t \in R \ T -> Sent(t, m)[t]
          [] OTHER -> kmesgq[t]]

(* Sets of threads an occurrence can make ready while kclose_thread is     *)
(* half through with them: TS_TERMINATED, but linked in their event        *)
(* (SchedEvents).  krelease_thread_struct refuses those.                   *)
Revivable(T) == SUBSET {t \in T : pc[t] = "event"}

(* The threads after T ended, V were revived and R were told. *)
StatesAfter(T, V, R) ==
    [t \in Tids |-> CASE t \in T -> "gone"
                      [] t \in V -> "stray"
                      [] t \in R \ (T \cup V) -> Woken(t)[t]
                      [] OTHER -> pc[t]]

(* The structures of the threads T are freed. *)
Freed(T) ==
    /\ procOf' = [t \in Tids |-> IF t \in T THEN 0 ELSE procOf[t]]
    /\ want' = [t \in Tids |-> IF t \in T THEN NoCall ELSE want[t]]
    /\ waitType' = [t \in Tids |-> IF t \in T THEN "none" ELSE waitType[t]]
    /\ dwKillerTID' = [t \in Tids |-> IF t \in T THEN 0 ELSE dwKillerTID[t]]

(* krelease_process_struct finds the parent, alive or a zombie. *)
HasParent(p) ==
    \/ dwParentID[p] = InitPid
    \/ dwParentID[p] \in Pids /\ proc[dwParentID[p]] \in {"live", "zombie"}

(* sniper_kill_process and krelease_process_struct. *)
SniperKillsProcess(p) ==
    /\ TakesRequest("KILL_PROCESS", p)
    /\ proc[p] = "live"
    /\ proc' = [proc EXCEPT ![p] = IF HasParent(p) THEN "zombie" ELSE "gone"]
    /\ \E V \in Revivable(Closed(ThreadsOf(p))) :
         LET T == Closed(ThreadsOf(p)) \ V
             R == IF HasParent(p) THEN Told(WaitPidThreads(dwParentID[p])) ELSE {}
         IN  /\ kmesgq' = QueuesAfter(T, R, Mesg("CHILD_PROCESS_EXIT", p))
             /\ pc' = StatesAfter(T, V, R)
             /\ Freed(T)
    /\ UNCHANGED <<dwParentID, corrupt>>

(* The process has ended and is not found any more. *)
SniperMissesProcess(p) ==
    /\ TakesRequest("KILL_PROCESS", p)
    /\ proc[p] = "gone"
    /\ kmesgq' = QueuesAfter({}, {}, Head(kmesgq[Sniper]))
    /\ UNCHANGED <<proc, dwParentID, procOf, pc, want, waitType, dwKillerTID,
                   corrupt>>

(* The process is a zombie, but found.  krelease_process_struct takes it   *)
(* off the list of live processes, which it is not in.                     *)
SniperKillsZombie(p) ==
    /\ TakesRequest("KILL_PROCESS", p)
    /\ proc[p] = "zombie"
    /\ corrupt' = TRUE
    /\ UNCHANGED <<proc, dwParentID, procOf, pc, want, waitType, kmesgq,
                   dwKillerTID>>

(* sniper_kill_thread tells the thread that asked for it, if it is there,  *)
(* unless krelease_thread_struct refused.                                  *)
SniperKillsThread(u) ==
    /\ TakesRequest("KILL_THREAD", u)
    /\ pc[u] # "stray"
    /\ \E V \in Revivable({u}) :
         LET T == IF Exists(u) THEN {u} \ V ELSE {}
             R == {t \in Tids : u \in T /\ dwKillerTID[u] = t /\ Exists(t)}
         IN  /\ kmesgq' = QueuesAfter(T, R, Mesg("CHILD_THREAD_EXIT", u))
             /\ pc' = StatesAfter(T, V, R)
             /\ Freed(T)
    /\ UNCHANGED <<proc, dwParentID, corrupt>>

(* kclose_thread of a stray thread takes it off its process's list again   *)
(* and writes through its stack pointer, which is NULL.                    *)
SniperKillsStray(u) ==
    /\ TakesRequest("KILL_THREAD", u)
    /\ pc[u] = "stray"
    /\ corrupt' = TRUE
    /\ UNCHANGED <<proc, dwParentID, procOf, pc, want, waitType, kmesgq,
                   dwKillerTID>>

SniperStep ==
    \/ \E p \in Pids : \/ SniperKillsProcess(p) \/ SniperMissesProcess(p)
                       \/ SniperKillsZombie(p)
    \/ \E u \in Tids : SniperKillsThread(u) \/ SniperKillsStray(u)

(* The scheduler gives a stray thread the processor: it goes on in         *)
(* wait_event, on a stack that is free and in an address space that may    *)
(* be.  What comes of that is not modelled.                                *)
StrayRuns(t) ==
    /\ pc[t] = "stray" /\ inKernel = NoOne /\ ~ corrupt
    /\ corrupt' = TRUE
    /\ UNCHANGED <<proc, dwParentID, procOf, pc, want, waitType, kmesgq,
                   dwKillerTID, inKernel>>

-----------------------------------------------------------------------------

(* The thread that skips messages in kwaitpid or kwaittid goes on. *)
GoesOn == \E t \in Tids, call \in WaitCalls :
              inKernel = t /\ (Sleep(t, call) \/ Receive(t, call))

Next ==
    \/ \E t \in Tids :
         \/ Fork(t) \/ CreateThread(t) \/ Exec(t)
         \/ ExitProcess(t) \/ \E u \in Tids : ExitThread(t, u)
         \/ WaitEvent(t) \/ EventOccurs(t) \/ StrayRuns(t)
         \/ \E call \in WaitCalls : Sleep(t, call) \/ Receive(t, call)
    \/ \E p \in Pids : ShellKill(p)
    \/ SniperStep

Spec == Init /\ [][Next]_vars

(* The round robin of the scheduler serves the sniper when it is ready. *)
FairSpec == Spec /\ SF_vars(SniperStep) /\ WF_vars(GoesOn)

-----------------------------------------------------------------------------
(* Properties.                                                             *)

(* Every variable has its type, and the processor is kept only by a thread *)
(* that is there.                                                          *)
TypeOK ==
    /\ proc \in [Pids -> {"none", "live", "zombie", "gone"}]
    /\ dwParentID \in [Pids -> Pids \cup {0, InitPid}]
    /\ procOf \in [Tids -> Pids \cup {0}]
    /\ pc \in [Tids -> States]
    /\ want \in [Tids -> WaitCalls \cup {NoCall}]
    /\ waitType \in [Tids -> {"none", "event", "CHILD_PROCESS_EXIT",
                              "CHILD_THREAD_EXIT"}]
    /\ kmesgq \in [Tids \cup {Sniper} -> Seq(Mesgs)]
    /\ \A t \in Tids \cup {Sniper} : Len(kmesgq[t]) <= MAX_KMESG
    /\ dwKillerTID \in [Tids -> Tids \cup {0}]
    /\ inKernel \in {NoOne, Sniper} \cup {t \in Tids : Exists(t)}
    /\ corrupt \in BOOLEAN

(* A thread belongs to a live process: neither a kill that overtakes a     *)
(* fork, a new thread or an exec, nor one that is asked for twice, leaves  *)
(* a thread behind whose process structure is a zombie or freed, except    *)
(* one that an occurrence made ready in the middle of kclose_thread.       *)
ThreadsHaveProcess ==
    /\ TypeOK
    /\ \A t \in Tids : Exists(t) => proc[procOf[t]] = "live" \/ pc[t] = "stray"

(* The assertion of get_zombie_exit_code: the process an exit message      *)
(* names is a zombie, whatever was executed, killed or waited for since,   *)
(* and no second message names it, so it is freed once.                    *)
ExitIsReportedOnce ==
    ~ corrupt =>
    LET Exits == UNION {{<<t, i>> : i \in OfType(t, "CHILD_PROCESS_EXIT")} :
                        t \in Tids}
        Pid(e) == kmesgq[e[1]][e[2]].dwAParam
    IN  \A e \in Exits : /\ proc[Pid(e)] = "zombie"
                         /\ \A f \in Exits : Pid(f) = Pid(e) => f = e

(* kill_process and ksc_exit must not return (ksyscall.c:576, 579): a      *)
(* dying thread that a message made ready again is dead before anything    *)
(* but the sniper runs.                                                    *)
UndeadNeverRuns ==
    \A t \in Tids : pc[t] = "undead" => inKernel = Sniper

(* A thread that ends itself, alone or with its process, comes to an end,  *)
(* unless the process list is broken by then or a stray thread has run.    *)
DyingEnds == \A t \in Tids : pc[t] = "dying" ~> pc[t] = "gone" \/ corrupt

(* What the code means to do and does not (README, section 6):             *)
(* delete_process_from_sch_q takes processes off the list they are in      *)
(* (kprocess.c:1090).                                                      *)
ProcessListIntact == ~ corrupt

(* sniper_kill_process is to end all threads of the process (init.c:59).   *)
NobodyStrays == \A t \in Tids : pc[t] # "stray"

=============================================================================
